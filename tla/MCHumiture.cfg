SPECIFICATION HumitureSpec
CONSTANTS
    d1 = d1
    d2 = d2
    Nil = Nil
    Devices <- MCDevices
    HoursPerDay = 2
    PerHour = 1
    LastHour = 3
    MaxReports = 3
    MaxFails = 1
SYMMETRY Symmetry
INVARIANTS HumitureTypeOK StatisticsRight
CHECK_DEADLOCK FALSE
