\* Every call, two values, tables of 1 to 8 buckets, one empty bucket per rehash
\* step and a forced resize at a ratio over 1, so that every limit is met.
CONSTANTS
    Keys = {1, 2, 3}
    Vals = {v1, v2}
    Hash <- HashOf3
    Sizes = {1, 2, 4, 8}
    DICT_HT_INITIAL_SIZE = 1
    MaxSize = 8
    dict_force_resize_ratio = 1
    EmptyVisits = 1
    Ops = {"add", "replace", "delete", "fetch", "rehash", "resize", "expand", "empty", "toggle", "iterator"}
    RehashArgs = {1, 2}
    ExpandArgs = {0, 3, 5}
    MaxIterators = 2
    ULongSize = 4
    EmptyDuringIteration = FALSE
SPECIFICATION Spec
VIEW DictView
INVARIANTS
    TypeOK
    Placement
    UsedExact
    KeysUnique
    RehashShape
    RehashInBounds
    IteratorsCounted
    ClosedFormsAgree
PROPERTIES
    NoMoveWhileIterating
    RehashForward
    MapSpec
