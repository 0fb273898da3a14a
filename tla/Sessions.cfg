SPECIFICATION SessionsSpec
CONSTANTS
    Wallet = {"w1"}
    Device = {d1, d2}
    WalletOf <- MCWalletOf
    Call = {k1, k2}
    MaxNonces = 2
    MaxTokens = 3
    MaxFailures = 1
CHECK_DEADLOCK FALSE
SYMMETRY MCSymmetry
INVARIANT NonceUsedOnce
INVARIANT DevicesStayLoggedIn
INVARIANT FirstLoginSucceeds
