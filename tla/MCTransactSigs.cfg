\* A cosigner's signature of a change that allowModify forbade.
CONSTANTS
    Hooks = 3
    LaterHooks = 1
SPECIFICATION Spec
INVARIANT SignaturesAreTheTransactions
