\* six entries: the last node of the heap can then belong under another parent than
\* the slot it is moved to, and has to go up; the array of 4 grows once; with three
\* removals an id passes to another entry and back
CONSTANTS
    NumEntries = 6
    Times = {0, 1}
    Size = 2
    MaxRemovals = 3
SPECIFICATION MCSpec
INVARIANT Sound
PROPERTIES ActsAsQueue
\* every behaviour ends once the removals are used up
CHECK_DEADLOCK FALSE
