\* One packet of up to two blocks, damaged by up to one block's length, and what
\* the tile makes of it.
CONSTANTS
    ComponentBytes = {2, 4, 8, 3}
    SpacerBytes = {1, 0}
    LevelBytes = {0, 100, 101}
    StatusBytes = {2, 4}
    NoLevel = noLevel
    Refused = refused
    MaxBlocks = 2
    MaxJunk = 5
    Ages <- AgesAtTurns
    MaxRefusals = 1
CHECK_DEADLOCK FALSE
SPECIFICATION DisplaySpec
INVARIANTS WholeReportOrNone DamageIsRefused NumbersAreThePods DoubtComesFirst
           PlacesAgree AgeIsHonest
