\* Two process starts, any peers: who reaches the broker, when, and for how long.
SPECIFICATION ServerSpec
CONSTANTS
    Nonces <- MCNonces
    Blank = {}
    Envelopes <- MCEnvelopes
    Mode = "durable_file_store"
    Window = 1
    IpcCodes = {"broker_ipc_malformed", "broker_request_oversized", "broker_authentication_failed"}
    Retention = 2
    MaxRecords = 2
    MaxTime = 0
    MaxBoots = 2
    MaxEvents = 2
    AuthMax = 2
    RequestMax = 2
INVARIANTS ServerTypeOK OnlyAuthenticPeers EndpointIsServed
PROPERTIES ImplementsBroker ConnectionEnds
CHECK_DEADLOCK FALSE
