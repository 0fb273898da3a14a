SPECIFICATION Spec
CONSTANTS
    Master = {"m1"}
    Follower = {"f1"}
    Trade = {"t1", "t2", "t3"}
    TermsOf <- MCTermsOf
    Balance = {3}
    Allocation = {2}
    Available = 3
    MinLot = 1
    RatioScale = 10
    Instance = {i1, i2}
    Handler = {h1}
    MaxFaults = 1
CHECK_DEADLOCK FALSE
SYMMETRY MCSymmetry
INVARIANT HistoryTellsOrders
INVARIANT NeverOversells
INVARIANT ProcessedIsCopied
