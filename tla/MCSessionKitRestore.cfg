\* One caller: the default that restore() does not return.
CONSTANTS
    w1 = w1
    w2 = w2
    NoData = NoData
    NoEntry = NoEntry
    Threads = {t1}
    Keys <- MCKeys
    Wallets = {w1, w2}
    Holds <- MCHolds
    HasLogout = {w1}
    PluginSets <- MCPluginSets
SPECIFICATION Spec
INVARIANT DefaultIsRestored
