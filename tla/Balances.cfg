SPECIFICATION Spec
CONSTANTS
    u1 = u1
    u2 = u2
    usdt = usdt
    eth = eth
    k1 = k1
    k2 = k2
    k3 = k3
    k4 = k4
    User = {u1, u2}
    Currency = {usdt, eth}
    Key = {k1, k2, k3, k4}
    Request <- MCRequest
    Tx = {t1, t2}
INVARIANT NonNegative
INVARIANT AuditTrail
INVARIANT PostedOnce
INVARIANT SuccessIsOnLedger
PROPERTY ImplementsLedger
