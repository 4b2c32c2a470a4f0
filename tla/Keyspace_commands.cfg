\* Every command, decr included, on keys of a table that grows from one bucket.
CONSTANTS
    Keys = {1, 2, 3}
    Vals <- MCVals
    Hash <- MCHash
    Sizes = {1, 2, 4, 8, 16}
    DICT_HT_INITIAL_SIZE = 1
    MaxSize = 16
    dict_force_resize_ratio = 5
    EmptyVisits = 1
    LONG_MAX = 1
    CKey <- MCCKey
    SetTexts <- MCTexts
    Actions = {"get", "set", "incr", "decr", "other"}
    WildNumbers = {0, 1}
SPECIFICATION Spec
CHECK_DEADLOCK FALSE
INVARIANTS
    TypeOK
    AssertionsHold
PROPERTIES
    KeysKept
    StoreSpec
