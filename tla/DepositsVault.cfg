SPECIFICATION DepositsSpec
CONSTANTS
    Depositor = {"u1"}
    Transaction = {"t1"}
    Logs <- MCVaultLogs
    UnitsPerCoin <- MCUnitsPerCoin
    Scanner = {s1}
    Confirmations = 1
    MaxBlockRange = 2
    MaxHeight = 3
    MaxFaults = 0
    MaxResets = 0
PROPERTY DepositsAreCredited
