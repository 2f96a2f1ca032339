SPECIFICATION MCSpec
CONSTANTS
    NumSeats = 3
    Players = {1, 2, 3}
    HeadsUp = {1, 2}
    Streets <- MCStreets
    SmallBlind = 1
    StartingStack = 4
    MaxMissedActions = 1
    Raises = {2}
    MaxHands = 1
    MaxOddities = 1
    None = None
    MaxCommit = 4
    MaxStrength = 3
INVARIANTS
    SomebodyIsOnTurn
    ChipsAreAccounted
    ShowdownIsFair
PROPERTIES
    ContendersMatchTheBet
    HandEnds
CHECK_DEADLOCK FALSE
