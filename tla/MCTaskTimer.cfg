\* a period of 2, callbacks of up to 3 units (longer than the period), the clock
\* set up to twice between two callbacks, as far as 14 units
CONSTANTS
    Period = 2
    Modulus = 16
    MaxClock = 14
    MaxRun = 3
    MaxSets = 2
SPECIFICATION Spec
INVARIANTS Sound NeverSilenced
PROPERTY SpacedOut
CHECK_DEADLOCK FALSE
