SPECIFICATION Spec
CONSTANTS
    Capacity = 2
    PollLimit = 2
    NetworkRoom = 1
    Incoming = 1
    MaxSessions = 2
    MaxTyped = 1
    MaxVersion = 2
INVARIANTS AnswersMatch PollsWhilePlaying
PROPERTIES LeavesForReason LostIsNoticed ViewCatchesUp
CHECK_DEADLOCK FALSE
