CONSTANTS
    Row = {r1, r2, r3, r4, r5, r6}
    PerPage = 2
    MaxLimit = 4
    MaxOffset = 3
    MaxChanges = 2
    Name = {n1, n2}
    Every = every
    MaxDescribeChanges = 1
    Cal = {c1, c2}
    OwnIds = {k}
    MaxNamed = 2
    MaxCalls = 3
    MaxMoves = 2
SPECIFICATION ClientSpec
SYMMETRY Symmetry
INVARIANTS
    ListFollowsTheRows
    ListCostsItsWindow
    A404HasACause
    DescribeIsWhole
    CheckIsTrueOfEach
    BookingsAreAccountedFor
    ConfirmFindsTheProposal
\* A list and a describe end with their answer, the agent after MaxCalls calls.
CHECK_DEADLOCK FALSE
