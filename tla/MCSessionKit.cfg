\* One caller; restarts, failing and torn writes, a build without the plugin.
CONSTANTS
    w1 = w1
    w2 = w2
    NoData = NoData
    NoEntry = NoEntry
    Threads = {t1}
    Keys <- MCKeys
    Wallets = {w1, w2}
    Holds <- MCHolds
    HasLogout = {w1}
    PluginSets <- MCPluginSets
SPECIFICATION Spec
INVARIANTS TypeOK ListWellFormed  KeptIsListed CurrentIsListed
PROPERTY ImplementsStore
