\* the notes say no path leaks a threadParam
CONSTANTS
    SubIds <- MCSubIds
    Requests <- MCRequests
    Params = {p1, p2}
    Lead = 1
    Offset = 2
    Width = 2
    NULL = NULL
SPECIFICATION Spec
INVARIANT NoPathLeaks
CHECK_DEADLOCK FALSE
