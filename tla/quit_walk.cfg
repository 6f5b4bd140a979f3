SPECIFICATION Spec
CONSTANT MaxChannels = 7
INVARIANTS TypeOK ListIsRemainder WalkVisits WalkStrays
CHECK_DEADLOCK FALSE
