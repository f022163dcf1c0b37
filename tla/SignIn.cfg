SPECIFICATION SessionSpec
CONSTANTS
    MaxSignIns = 1
    MaxEnds = 1
    MaxPending = 1
    MaxSilences = 0
PROPERTIES
    SignInAsked
CHECK_DEADLOCK FALSE
