CONSTANTS
    PQUEUE_SIZE_ELEMENTS = 256
    Process = {shell}
    Idle = Idle
    NULL = NULL
    SYSCALL_ERROR = SYSCALL_ERROR
SPECIFICATION BootSpec
INVARIANTS OnlyBootPanics
PROPERTIES BootImplementsScheduler ShellStarts
CHECK_DEADLOCK FALSE
