\* Two transfers per direction, every failure.
CONSTANT NumXfers = 2
SPECIFICATION FairSpec
INVARIANT TypeOK
INVARIANT BothDirectionsActive
INVARIANT NothingFliesOn
INVARIANT GivenBackAtExit
PROPERTY Terminates
CHECK_DEADLOCK FALSE
