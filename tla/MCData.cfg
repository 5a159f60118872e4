SPECIFICATION MCSpec
CONSTANTS
    Base = 3
    MaxReadLength = 2
    Streams <- MCStreams
    Chunks = {1, 2, 3}
    MaxListeners = 3
    MaxBeats = 2
    KeyWord = 4
    Froms <- MCFroms
    Tos <- MCTos
    RowLimits = {2}
    MaxRowss <- MCMaxRows
    MaxChanges = 2
    MaxWalk = 6
    CreateArgs <- MCCreateArgs
    RequestChains = {"eos", "custom"}
    NamedChains = {"eos"}
    AbiAccounts = {"tok"}
    Signers <- MCSigners
    Contexts <- MCContexts
    RefWord = 2
    MaxEdits = 2
    Aliases <- MCAliases
    Structs <- MCStructs
    Variants <- MCVariants
    CodecCases <- MCCodecCases
    AbiNames = {"abi_def"}
    Group = 2
    MaxGroups = 3
    VarWord = 8
    RawSize = 2
    MaxCodingDepth = 4
    Digits <- MCDigits
    Limb = 8
    WideBits = 12
    Octet = 8
    MaxPrecision = 3
    MaxCode = 2
    Alpha = 5
    CheckSize = 1
    KeySize = 2
    LegacySize = 5
    NameBits = 14
    Clock <- MCClock
    SecondsWord = 120000
    Operands <- MCOperands
    NumberTexts <- MCNumberTexts
    AmountTexts <- MCAmountTexts
    SymbolTexts <- MCSymbolTexts
    Dates <- MCDates
    ByteStrings <- MCByteStrings
    OctetStrings <- MCOctetStrings
    Names <- MCNames
    KeyCases <- MCKeys
    AuthKeys <- MCAuthKeys
    AuthLevels <- MCAuthLevels
    AuthWaits <- MCAuthWaits
    AuthInputs <- MCAuthInputs
    PointSize = 1
    LengthGroup = 4
    ThresholdWord = 8
    MaxAuthEdits = 5
    MsigRows = {0, 1, 4, 5}
    MsigLimits = {1, 2, 3, 4, 5}
    ServiceMax <- MCServiceMax
    DefaultMax <- MCDefaultMax
    GivenMax <- MCGivenMax
    Unset = Unset
    MaxMsigCalls = 6
    SamplePrecision = 5
    FracDigits = 2
    PriceInputs <- MCPrices
    Abis <- MCAbis
    GenTypes <- MCGenTypes
    CppKeywords <- MCCppKeywords
    SafeChars = {"a", "b", "c", "f", "l", "m", "s", "t", "u", "x", "1", "."}
    MaxAbiName = 2
    NameDigits = {"1"}
INVARIANTS
    StreamWhole
    WalkWhole
    AgreedTransaction
    ProofMeansSigned
    
    
    ChainDataExact
CHECK_DEADLOCK FALSE
