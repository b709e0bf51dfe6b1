CONSTANTS
    None = None
    EXACT_FILES <- MCExactFiles
    NotPortable <- MCNotPortable
    Suffix <- MCSuffix
    Lower <- MCLower
    SCAN_FILES <- MCScanFiles
    CURRENT_FACING_RELEASE_DOCS <- MCCurrentFacing
    PolicyDocs <- MCPolicyDocs
    RELEASE_HARDENING_FILES <- MCHardening
    Ignored <- MCIgnored
    MachineWords = {}
    MaxFaults = 2
    Starts <- MCStarts
    Changes <- MCChanges
SPECIFICATION Spec
INVARIANTS
    ReleaseTypeOK
    ManifestIsExact
    EvidenceDecides
    NoStepSkipped
    StepsAgree
    NoAuthorityShortcut
    ExclusionsAreJustified
    NoBrokerLeft
PROPERTIES
    HarnessEnds
CHECK_DEADLOCK FALSE
