SPECIFICATION Spec
CONSTANTS
    User = {"u1", "u2"}
    Request <- MCRequest
    Handler = {h1, h2}
    Worker = {w1, w2}
    Funds = 5
    Dust = 2
    MaxFaults = 2
CHECK_DEADLOCK FALSE
SYMMETRY MCSymmetry
VIEW MCView
INVARIANT PaidOnce
INVARIANT Backed
INVARIANT EventsTellChain
INVARIANT NoneLeftBehind
CONSTRAINT TwoAtMost
