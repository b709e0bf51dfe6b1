CONSTANTS
    None = None
    EXACT_FILES <- MCExactFiles
    NotPortable <- MCNotPortable
    Suffix <- MCSuffix
    Lower <- MCLower
    SCAN_FILES <- MCScanFiles
    CURRENT_FACING_RELEASE_DOCS <- MCCurrentFacing
    PolicyDocs <- MCPolicyDocs
    RELEASE_HARDENING_FILES <- MCHardening
    Ignored <- MCIgnored
    MachineWords = {}
    MaxFaults = 2
    Starts <- StrictStarts
    Changes <- ReleaseChanges
SPECIFICATION Spec
INVARIANTS
    StrictPassesWhenResolved
CHECK_DEADLOCK FALSE
