\* Two callers ask for the ABI of one contract.
CONSTANTS
    t1 = t1
    t2 = t2
    NoAbi = NoAbi
    NoAccount = NoAccount
    Pending = Pending
    Threads = {t1, t2}
    Accounts = {a1, a2}
    Defs = {"x", "y", "z"}
    Origins = {"v1", "v2", "app"}
    ChainAbis <- MCChainAbis
    AppAbis <- MCAppAbis
SYMMETRY MCSymmetry
SPECIFICATION Spec
INVARIANT SerializedFetches
