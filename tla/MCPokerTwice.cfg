SPECIFICATION MCSpec
CONSTANTS
    NumSeats = 3
    Players = {1, 2, 3}
    HeadsUp = {1, 2}
    Streets <- MCStreets
    SmallBlind = 1
    StartingStack = 4
    MaxMissedActions = 1
    Raises = {2}
    MaxHands = 1
    MaxOddities = 0
    None = None
    MaxCommit = 0
    MaxStrength = 1
INVARIANTS
    PayoutsAreSharesOfThePot
CHECK_DEADLOCK FALSE
