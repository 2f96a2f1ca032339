SPECIFICATION Spec
CONSTANTS
    Users = {u1}
    Buyers = {b1, b2}
    Sweepers = {s1, s2}
    Days <- MCDays
    None = None
    HoursPerDay = 1
    DaysPerWeek = 1
    DrawHour = 0
    DrawWeekday = 0
    MaxPots = 2
    MaxClock = 1
    MaxFaults = 1
    MaxBusy = 3
    TicketPrice = 5
    MaxTicketsPerDay = 2
    ChipFloor = 5
    InitialChips = 15
    ReminderLead = 1
    Spends = {5}
SYMMETRY Symmetry
CONSTRAINT AtMostMaxBusy
INVARIANTS
    IInv
    ExactlyOneOpenPot
    DailyCapIsExact
    ChargedExactlyForTickets
    SettledPotCountsEveryTicket
    PotPaysOnce
    DrawsAreOrderly
PROPERTIES
    BuyRespectsChipFloor
    SettledIsFinal
