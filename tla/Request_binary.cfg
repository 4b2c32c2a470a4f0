\* A client that may quote its arguments.
SPECIFICATION RequestSpec
CONSTANTS
    Lines <- MCLines
    MAX_LINE = 24
    MaxRequests = 1
INVARIANTS
    BinarySafe
CHECK_DEADLOCK FALSE
