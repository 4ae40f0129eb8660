SPECIFICATION BlockSpec
CONSTANTS
    Radix = 4
    Word = 32
    MaxBytes = 3
    Space32 = 8
    Events <- MCEvents
    Forgeries <- MCForgeries
    Version = 3
    MaxEvents = 2
INVARIANT ReadsWhatWasSent
PROPERTIES AcceptedIsIntact ParsesExactly
CHECK_DEADLOCK FALSE
