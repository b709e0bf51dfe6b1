\* The claim of the roadmap that the broker and Python decide alike.
SPECIFICATION Spec
CONSTANTS
    None = None
    Divergent <- MCDivergent
    Unknown = Unknown
    InitialState <- build_reference_state
    Capabilities <- MCCapabilities
    Permissions <- MCPermissions
    Recoveries <- MCRecoveries
    AuditEvents <- MCAuditEvents
    ApprovalSources <- MCApprovalSources
    Adapters <- MCAdapters
    Payloads <- MCPayloads
    InboundPayloads <- MCInboundPayloads
    Actions <- MCActions
    MaxRouted = 2
INVARIANTS OracleParity
CHECK_DEADLOCK FALSE
