CONSTANTS
    MaxIntents = 2
    MaxSessions = 1
    Attempts <- EachOnce
    MaxReloads = 0
    MaxUnderway = 2
SPECIFICATION Spec
CONSTRAINT FewEvents
CHECK_DEADLOCK FALSE
INVARIANTS FinalReplyOnce
