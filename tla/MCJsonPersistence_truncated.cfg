\* A log that lost its last line, and an append.
SPECIFICATION Spec
CONSTANTS
    Contents <- MCContents
    MaxDamage = 2
INVARIANTS TruncatedIsRefused
CHECK_DEADLOCK FALSE
