\* Every answer of three plugins, the wallet, the UI and the node.
CONSTANTS
    Hooks = 3
    LaterHooks = 1
SPECIFICATION Spec
INVARIANTS SignaturesCover ExecutedAsReported RevisionsExplain UiStory
PROPERTY ImplementsCall
