\* Crashes, failed writes and lost lines around the audit log and its anchor, a blank nonce, a full
\* nonce store, and the promise to the clients.
SPECIFICATION Spec
CONSTANTS
    Nonces <- AuditNonces
    Blank <- BlankNonces
    Envelopes <- AuditEnvelopes
    Mode = "durable_file_store"
    Window = 1
    IpcCodes = {"broker_authentication_failed"}
    Retention = 2
    MaxRecords = 1
    MaxTime = 0
    MaxBoots = 3
    MaxEvents = 3
INVARIANTS AuditedAnswerIsDurable AckedSurvives AuditInv ShutdownOfThisSession
PROPERTIES StuckForever BrokenStoreIsFinal ImplementsContract
CHECK_DEADLOCK FALSE
