\* The calls the server makes of its database (db.c), by a caller that keeps
\* looking keys up: six keys fill tables of 1, 2 and 4 and start on one of 8.
CONSTANTS
    Keys = {1, 2, 3, 4, 5, 6}
    Vals = {v1}
    Hash <- HashOf6
    Sizes = {1, 2, 4, 8, 16}
    DICT_HT_INITIAL_SIZE = 1
    MaxSize = 16
    dict_force_resize_ratio = 5
    EmptyVisits = 1
    Ops = {"add", "replace", "fetch"}
    RehashArgs = {1}
    ExpandArgs = {}
    MaxIterators = 0
    ULongSize = 4
    EmptyDuringIteration = FALSE
SPECIFICATION FairSpec
INVARIANTS
    LoadFactor
PROPERTIES
    RehashCompletes
