\* Traversals of up to three keys in tables of 1 to 8 buckets, every other call in between.
CONSTANTS
    Keys = {1, 2, 3}
    Vals = {v1}
    Hash <- WalkHash
    Sizes = {1, 2, 4, 8}
    DICT_HT_INITIAL_SIZE = 1
    MaxSize = 8
    dict_force_resize_ratio = 1
    EmptyVisits = 1
    Ops = {"add", "replace", "delete", "fetch", "rehash", "resize", "expand", "empty", "iterator"}
    RehashArgs = {1}
    ExpandArgs = {3, 5}
    MaxIterators = 1
    ULongSize = 4
    EmptyDuringIteration = FALSE
    CursorBits = 4
    SampleSizes = {1, 2}
    StepsPerKey = 4
    EmptyJump = 7
SPECIFICATION WalkSpec
VIEW WalkView
CHECK_DEADLOCK FALSE
INVARIANTS
    TraversalComplete
    NoFalseAlarm
    RandomReachesAll
PROPERTIES
    NoRepeat
    CursorForward
    SampleSound
