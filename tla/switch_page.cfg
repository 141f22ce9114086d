SPECIFICATION PageSpec
CONSTANTS
    Call = {1, 2}
    Parts <- Lengths
    None = None
    MaxLists = 2
INVARIANT
    NotifiedIsComplete
PROPERTIES
    EveryCallEnds
    ViewFollows
