\* T1, T2, T4 and timer F as 1 : 2 : 1 : 3 (500 ms, 4 s, 5 s and 32 s in the program): sent at 0, 1 and 3
CONSTANTS
    T1 = 1
    T2 = 2
    T4 = 1
    TimerF = 3
SPECIFICATION FairSpec
INVARIANTS Sound SendsBounded AnswerIsForThis AlwaysDriven
PROPERTIES ImplementsRequest ListRefilled
CHECK_DEADLOCK FALSE
