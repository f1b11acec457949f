\* both services, every alteration of a file with three nodes
CONSTANTS
    Files <- MCFiles
    Spelling <- MCSpelling
    Base = 3
    Garbage <- MCGarbage
SPECIFICATION Spec
INVARIANTS Sound KeysFaithful NodesFaithful
CHECK_DEADLOCK FALSE
