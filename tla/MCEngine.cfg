SPECIFICATION MCSpec
CONSTANTS
    Workers = {t1, t2}
    Main = main
    NoData = NoData
    NoEntry = NoEntry
    Keys <- MCKeys
    Engines = {"godot", "unreal"}
    MaxBuilds = 2
    MaxCalls = 2
    MaxMessage = 2
    MaxQueued = 2
    Sizes <- MCSizes
    MaxConns = 2
    MaxResponse = 2
    BodySizes = {0, 1, 2, 3}
    MaxFetches = 2
    Callers = {c1, c2}
    Nobody = Nobody
    MaxPacket = 1
    Packets <- MCPackets
    MaxLinks = 2
    MaxGodotCalls = 4
INVARIANTS
    ListedUnlessMeddled
    OneUncancelledCall
    
    

    
CHECK_DEADLOCK FALSE
