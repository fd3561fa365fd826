CONSTANTS
    MAX_MESSAGE_LEN = 50
    U64Max = 2047
    Scripts <- MCScripts
    Asked <- MCAsked

SPECIFICATION Spec
INVARIANT NotPoisoned
CHECK_DEADLOCK FALSE
