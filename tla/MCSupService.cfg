\* two deliveries, of any of the requests (the invariants are proved for any number)
CONSTANTS
    SubIds <- MCSubIds
    Requests <- MCRequests
    Params = {p1, p2}
    Lead = 1
    Offset = 2
    Width = 2
    NULL = NULL
SPECIFICATION Spec
INVARIANTS Sound AnswerMatchesList AnsweredInOrder
PROPERTY ImplementsRegistrar
CHECK_DEADLOCK FALSE
