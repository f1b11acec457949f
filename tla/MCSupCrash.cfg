\* the notes say every REGISTER is answered
CONSTANTS
    SubIds <- MCSubIds
    Requests <- MCRequests
    Params = {p1, p2}
    Lead = 1
    Offset = 2
    Width = 2
    NULL = NULL
SPECIFICATION Spec
INVARIANT RegisterNeverCrashes
CHECK_DEADLOCK FALSE
