\* decr on counters.
CONSTANTS
    Keys = {1, 2}
    Vals <- MCVals
    Hash <- MCHash
    Sizes = {1, 2, 4, 8, 16}
    DICT_HT_INITIAL_SIZE = 1
    MaxSize = 16
    dict_force_resize_ratio = 5
    EmptyVisits = 1
    LONG_MAX = 2
    CKey <- MCCKey
    SetTexts <- MCTexts
    Actions = {"get", "set", "incr", "decr", "other"}
    WildNumbers = {0, 1}
SPECIFICATION Spec
PROPERTIES
    DecrDecrements
