SPECIFICATION FairSpec
CONSTANTS
    Openers = {o1}
    Formatters = {f1}
    Unmounters = {}
    SEM_MAX = 4
    MAX_CALLS = 1
PROPERTIES
    FormatReturns
CHECK_DEADLOCK FALSE
