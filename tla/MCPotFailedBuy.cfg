SPECIFICATION FairSpec
CONSTANTS
    Users = {u1}
    Buyers = {b1}
    Sweepers = {s1, s2}
    Days <- MCDays
    None = None
    HoursPerDay = 1
    DaysPerWeek = 1
    DrawHour = 0
    DrawWeekday = 0
    MaxPots = 2
    MaxClock = 1
    MaxFaults = 1
    MaxBusy = 3
    TicketPrice = 5
    MaxTicketsPerDay = 1
    ChipFloor = 5
    InitialChips = 15
    ReminderLead = 1
    Spends = {}
PROPERTIES
    FailedBuyIsUncharged
