SPECIFICATION MCSpec
CONSTANTS
    Replicas = {r1}
    Domains = {"pot"}
    ChannelsOf <- MCChannelsOf
    Processes = {r1}
    Subscribers = {"pot", "shop"}
    Named <- MCNamed
    Channels = {"pot_changed", "shop_changed"}
    MaxPots = 2
    MaxBuys = 1
    MaxFaults = 1
    MaxCommits = 0
    MaxDrops = 0
    HoursPerDay = 24
    DaysPerWeek = 7
    DrawHour = 21
    DrawWeekday = 0
    Users = {}
    Days = {}
    Horizon = 0
    NumHolders = 1
    MaxTickets = 1
PROPERTY WinReachesEveryReplica
CHECK_DEADLOCK FALSE
