SPECIFICATION CompatSpec
CONSTANTS
    Callers = {c1, c2, c3}
    Nobody = Nobody
    Ranges <- MCRanges
    Top = 1
    Tasks = {t1, t2, t3}
    Addrs = {a1, a2}
    Names = {n1, n2, n3, n4}
    Null = Null
    IntBits = 3
    DriverOps = {"get_temp", "get_trip_temp", "set_trip_temp", "get_trip_hyst", "set_trip_hyst", "get_crit_temp", "set_emul_temp", "bind"}
    EmulTemp = TRUE
    ZoneUsers = {"poll", "sysfs"}
    LinkCmds <- MCLinkCmds
    Abilities <- MCAbilities
    PciTasks = {1, 2}
    MaxPciCalls = 2
    PciTargets <- MCPciTargets
    MaxVecs = 3
    MaxVfs = 3
    I2cRegs = {1, 2}
    I2cValues <- MCI2cValues
    MaxHead = 3
    MaxFrag = 3
    MaxFrags = 3
    MaxMss = 3
    NumBits = 3
    SgLists <- MCSgLists
    PageSize = 3
    BufLens = {0, 1, 3, 4, 12}
    DevmResources <- MCDevm
    MaxDevmCalls = 5
    OnceTasks = {1, 2, 3}
    MaxCount = 4
    MaxRetries = 3
    Dumps <- MCDumps
    CdcBuffers <- MCCdcBuffers
    BoolTexts <- MCTexts
    Frames <- MCFrames
INVARIANTS OneOwner RegistersAsAsked ReleasedOnceUnused EveryByteOnce SharedValuesWhole
PROPERTIES Atomic
CHECK_DEADLOCK FALSE
