SPECIFICATION Spec
CONSTANTS
    u1 = u1
    u2 = u2
    eth = eth
    usdt = usdt
    bad = bad
    Scale = 2
    User = {u1, u2}
    Currency = {eth, usdt}
    Order <- MCOrder
    Trade <- MCTrade
    Malformed = {bad}
    Ignored = {}
    Consumer = {c1, c2}
    AccountId <- MCAccountId
    Reserved <- MCReserved
    MaxLog = 3
    Copies <- MCCopies
    Releases <- MCReleases
    MaxFaults = 1
    MaxJoins = 2
CONSTRAINT InParts
CHECK_DEADLOCK FALSE
INVARIANT CommittedAfterHandling
