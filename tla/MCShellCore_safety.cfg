\* Any calls on the tables, the queue and the router of the shell core.
SPECIFICATION Spec
CONSTANTS
    None = None
    Divergent <- MCDivergent
    Unknown = Unknown
    InitialState <- build_reference_state
    Capabilities <- MCCapabilities
    Permissions <- MCPermissions
    Recoveries <- MCRecoveries
    AuditEvents <- MCAuditEvents
    ApprovalSources <- MCApprovalSources
    Adapters <- MCAdapters
    Payloads <- MCPayloads
    InboundPayloads <- MCInboundPayloads
    Actions <- MCActions
    MaxRouted = 2
INVARIANTS
    ShellTypeOK AdaptersClaimNothing NothingLostUnseen RoutedWasGranted EditsKeepTheRest
    AllowedIsGrounded ClaimsNeverHelp DifferencesAreKnown
CHECK_DEADLOCK FALSE
