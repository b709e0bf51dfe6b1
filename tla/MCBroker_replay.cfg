\* Replays across crashes, restarts, expiry and compaction of the nonce store.
SPECIFICATION Spec
CONSTANTS
    Nonces <- MCNonces
    Blank = {}
    Envelopes <- ReplayEnvelopes
    Mode = "durable_file_store"
    Window = 1
    IpcCodes = {}
    Retention = 2
    MaxRecords = 1
    MaxTime = 3
    MaxBoots = 2
    MaxEvents = 2
INVARIANTS TypeOK NoReplay DurableReplayInv
CHECK_DEADLOCK FALSE
