\* The in-memory broker of dev-stdin-smoke, through every way of handle: its nonces
\* live as long as it does.
SPECIFICATION Spec
CONSTANTS
    Nonces <- MCNonces
    Blank = {}
    Envelopes <- MemoryEnvelopes
    Mode = "in_memory_skeleton"
    Window = 1
    IpcCodes = {"broker_ipc_malformed"}
    Retention = 2
    MaxRecords = 1
    MaxTime = 4
    MaxBoots = 2
    MaxEvents = 3
INVARIANTS SessionReplayInv
CHECK_DEADLOCK FALSE
