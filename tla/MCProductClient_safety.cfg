\* The start of the product, with a restart of the broker and other peers.
SPECIFICATION ClientSpec
CONSTANTS
    Nonces <- MCNonces
    Blank = {}
    Envelopes <- MCEnvelopes
    Mode = "durable_file_store"
    Window = 1
    IpcCodes = {"broker_ipc_malformed", "broker_request_oversized", "broker_authentication_failed"}
    Retention = 2
    MaxRecords = 6
    MaxTime = 0
    MaxBoots = 2
    MaxEvents = 6
    MaxOthers = 1
    AuthMax = 1
    RequestMax = 1
INVARIANTS ClientTypeOK SnapshotOfOneSession SnapshotIsJournaled
PROPERTIES ClientFinishes
CHECK_DEADLOCK FALSE
