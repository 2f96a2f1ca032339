SPECIFICATION Spec
CONSTANTS
    Users = {u1, u2}
    Workers = {w1, w2}
    NoOne = NoOne
    Initial = 4
    Floor = 1
    Amounts = {3}
    Share <- MCShare
    MaxOps = 3
    MaxFaults = 1
    Granters = {w1, w2}
    Events = {e1, e2}
    PairDay <- MCPairDay
    Window = 2
    MaxClock = 2
    MaxGrants = 3
    MaxAborts = 1
    Unlocked = Unlocked
    e1 = e1
    e2 = e2
    day = day
    Members = {m1}
    Pods = {p1, p2}
    Keep = 1
    MonthLen = 1
    MaxTime = 2
    MaxTimeFaults = 1
    MaxCrashes = 1
INVARIANTS
    ChipsAreExplained
    ClaimsPayOnce
    CooldownKeepsDistance
    LateTimeIsExact
PROPERTIES
    GivingKeepsTheFloor
    TransactionsEnd
    TimeIsCounted
