SPECIFICATION FairSpec
CONSTANTS
    Width = 3
    Height = 3
    InitialLength = 2
    MaxMovesMultiplier = 3
    NoFood = NoFood
INVARIANTS
    BoardIsSound
    MovesAreBounded
PROPERTIES
    GamesEnd
