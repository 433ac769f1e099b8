SPECIFICATION Spec
CONSTANTS
    Sources = {4, 5, 6, 8}
    Sample = 4
    TopSteps = 2
    Scales = {1, 2}
    Slices = {7}
    Words <- MCWords
    LevelSets <- MCLevels
    Masks = {0}
    Writes = 3
CHECK_DEADLOCK FALSE
INVARIANT PendingHappened
