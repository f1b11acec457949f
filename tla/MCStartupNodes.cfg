\* ConfReader says a key that is not in the file is not found
CONSTANTS
    Files <- MCFiles
    Spelling <- MCSpelling
    Base = 3
    Garbage <- MCGarbage
SPECIFICATION Spec
INVARIANT EveryNodeFaithful
CHECK_DEADLOCK FALSE
