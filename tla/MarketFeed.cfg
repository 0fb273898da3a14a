SPECIFICATION Spec
CONSTANTS
    User = {"u1"}
    Order = {o1, o2}
    OwnerOf <- MCOwnerOf
    Resting = {o2}
    Node = {"n1"}
    Client = {"c1"}
    NodeOf <- MCNodeOf
    UserOf <- MCUserOf
    Wanted <- MCWanted
    Transfers = 1
    MaxNumber = 2
    MaxSubscribes = 2
    MaxWire = 1
    MaxFaults = 1
CHECK_DEADLOCK FALSE
INVARIANT NoGap
INVARIANT IndexAgrees
