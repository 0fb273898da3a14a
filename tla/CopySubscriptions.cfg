SPECIFICATION Spec
CONSTANTS
    Master = {"m1", "m2"}
    Follower = {"f1"}
    Trade = {}
    TermsOf <- MCTermsOf
    Balance = {3}
    Allocation = {2}
    Available = 3
    MinLot = 1
    RatioScale = 10
    Instance = {i1}
    Handler = {h1, h2}
    MaxFaults = 0
CHECK_DEADLOCK FALSE
INVARIANT AllocationsFit
