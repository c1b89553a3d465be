SPECIFICATION FairSpec
CONSTANTS
    Cap = 2
    MaxLines = 6
INVARIANTS AnsweredWasSent
PROPERTIES DeliversInOrder RepliesEnd CloseCompletes LinesArrive
CHECK_DEADLOCK FALSE
