SPECIFICATION FairSpec
CONSTANTS
    Top <- MCTop
    Selects <- MCSelects
INVARIANTS DTypeOK OneStepPerPress ScreenAgrees
PROPERTIES NoJumps ScreenCatchesUp
