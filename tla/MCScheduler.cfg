CONSTANTS
    PQUEUE_SIZE_ELEMENTS = 5
    Process = {p1, p2, p3}
    Idle = Idle
    NULL = NULL
    SYSCALL_ERROR = SYSCALL_ERROR
SPECIFICATION Spec
INVARIANTS OwnStacks KillFindsSuccessor NoProcessLost
PROPERTIES RotatesInOrder EventuallyRuns
CHECK_DEADLOCK FALSE
