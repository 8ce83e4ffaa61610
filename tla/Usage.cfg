SPECIFICATION Spec
CONSTANTS
    Name = {}
    Direct = Direct
    NoName = NoName
    HoursPerDay = 2
    Retention = 1
    PersistEvery = 2
    MaxHour = 1
    MaxCount = 3
    MaxRx = 1
    MaxDeaths = 1
INVARIANTS UsageTypeOK KeptUnlessEarly ViewsAgree DirectOnce
