CONSTANTS
    minter = minter
    receiver = receiver
    gov = gov
    collector = collector
    MonthStart <- MCMonthStart
    MaxMonth = 24
    MaxPeriod = 7
    ShiftWidth = 5
    MaxSpan = 6
    Account <- MCAccount
    Authority = gov
    FeeCollector = collector
    Blocked = {gov}
    ParamsSet <- MCParamsSet
    InitSupply = {0, 3}
    MaxDay = 14
    MaxMint = 3
    MaxProvided = 2
SPECIFICATION Spec
INVARIANTS TypeOK OnePeriodPerDay PeriodsRelease
PROPERTIES WithinSchedule
