SPECIFICATION Spec
CONSTANTS
    MaxTask = 3
    Quantum = 1
    Stoppable = {1}
    ShellKill = {}
    Exits = {2}
    UserTasks = FALSE
    Shutdown = TRUE
    NULL = NULL
INVARIANT TypeOK
INVARIANT NoFreedTaskScheduled
INVARIANT OneOwner
INVARIANT PidsUnique
PROPERTY ZombieStays
