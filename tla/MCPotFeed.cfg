SPECIFICATION MCSpec
CONSTANTS
    Replicas = {r1}
    Domains = {"pot"}
    ChannelsOf <- MCChannelsOf
    Processes = {r1}
    Subscribers = {"pot", "shop"}
    Named <- MCNamed
    Channels = {"pot_changed", "shop_changed"}
    MaxPots = 2
    MaxBuys = 2
    MaxFaults = 2
    MaxCommits = 3
    MaxDrops = 2
    HoursPerDay = 24
    DaysPerWeek = 7
    DrawHour = 21
    DrawWeekday = 0
    Users = {}
    Days = {}
    Horizon = 400
    NumHolders = 4
    MaxTickets = 3
INVARIANTS
    BadgeIsHonest
    EveryCommitIsHeard
    WinIsToldOnce
    ListenerLosesNothing
    NextDrawIsFirstInstantAfterNow
    DrawIsFair
PROPERTIES
    BadgesConverge
CHECK_DEADLOCK FALSE
