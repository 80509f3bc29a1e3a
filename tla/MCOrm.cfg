\* The window may be closed and the program may exit.
CHECK_DEADLOCK FALSE
SPECIFICATION Spec
CONSTANTS
    i1 = i1
    i2 = i2
    NoRepo = NoRepo
    Items <- MCItems
    MaxConnections = 2
    MaxAnswers = 2
INVARIANTS ExitsOnlyWhenOverlapped ShowsWhatWasAsked
PROPERTY LonePopupCloses
