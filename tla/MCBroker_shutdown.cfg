\* A shutdown whose audit event could not be appended.
SPECIFICATION Spec
CONSTANTS
    Nonces <- MCNonces
    Blank = {}
    Envelopes <- HandleEnvelopes
    Mode = "durable_file_store"
    Window = 1
    IpcCodes = {}
    Retention = 2
    MaxRecords = 2
    MaxTime = 0
    MaxBoots = 1
    MaxEvents = 2
INVARIANTS ShutdownIsAudited
CHECK_DEADLOCK FALSE
