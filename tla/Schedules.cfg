CONSTANTS
    Null = Null
    NRows = 2
    Day = 4
    Week = 3
    MonthStart <- MCMonthStart
    Zones <- MCZones
    Starts <- MCStarts
    Untils <- MCUntils
    Rules <- MCRules
    Forms <- MCForms
    FirstNow = 15
    LastNow = 21
    Horizon = 14
    Count = 2
    Cap = 100
SPECIFICATION SchedulesSpec
INVARIANTS
    SchedulesInv
    ListsTheNext
    FirstIsStart
    CountdownHolds
