SPECIFICATION Spec
CONSTANTS
    User = {"u1", "u2"}
    Request <- MCRequest
    Handler = {h1, h2}
    Canceller = {c1, c2}
    Funds = 2
    MaxOrders = 2
    MaxFaults = 2
SYMMETRY MCSymmetry
VIEW MCView
CONSTRAINT MCBounds
INVARIANT OrdersAreAlwaysBacked
