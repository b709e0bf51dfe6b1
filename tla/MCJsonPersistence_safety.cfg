\* Four events of three ids, failed and unfinished appends, and two damages.
SPECIFICATION Spec
CONSTANTS
    Contents <- MCContents
    MaxDamage = 2
INVARIANTS JsonTypeOK VerifiedIsComplete EventsAreUnique
CHECK_DEADLOCK FALSE
