SPECIFICATION ShellSpec
CONSTANTS
    MaxTask = 2
    Quantum = 1
    Stoppable = {}
    ShellKill = {1, 2}
    Exits = {0, 1, 2}
    UserTasks = FALSE
    Shutdown = FALSE
    NULL = NULL
INVARIANT NoFreedTaskScheduled
CHECK_DEADLOCK FALSE
