SPECIFICATION Spec
CONSTANTS
    Buffer = 3
    MaxTyped = 5
INVARIANTS PendingInOrder LeavesWhenTold
PROPERTIES NeverHangs
CHECK_DEADLOCK FALSE
