CONSTANTS
    MaxIntents = 2
    MaxSessions = 2
    Attempts <- FirstTwice
    MaxReloads = 1
    MaxUnderway = 2
SPECIFICATION Spec
CONSTRAINT FewEvents
CHECK_DEADLOCK FALSE
INVARIANTS TypeOK OneConversation AnswersStandBelowQuestions
