SPECIFICATION MatchingSpec
CONSTANTS
    Request <- MCRequest
    Canceller = {c1}
    Limit = 4
    MaxOrders = 4
    MaxActive = 1
    MaxFailures = 1
CHECK_DEADLOCK FALSE
INVARIANT OlderOrdersFirst
