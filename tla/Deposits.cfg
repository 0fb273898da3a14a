SPECIFICATION DepositsSpec
CONSTANTS
    Depositor = {"u1"}
    Transaction = {"single", "several"}
    Logs <- MCLogs
    UnitsPerCoin <- MCUnitsPerCoin
    Scanner = {s1, s2}
    Confirmations = 1
    MaxBlockRange = 1
    MaxHeight = 3
    MaxFaults = 1
    MaxResets = 1
INVARIANT CreditsAreFinal
INVARIANT NothingLost
PROPERTY EventuallyRecorded
CONSTRAINT OneOrTheOther
