SPECIFICATION Spec
CONSTANTS
    Name = {a}
    Direct = Direct
    NoName = NoName
    HoursPerDay = 2
    Retention = 1
    PersistEvery = 2
    MaxHour = 0
    MaxCount = 2
    MaxRx = 0
    MaxDeaths = 1
INVARIANT HistoryKept
