SPECIFICATION CreateSpec
CONSTANTS
    MaxTask = 2
    Quantum = 2
    Stoppable = {}
    ShellKill = {}
    Exits = {0, 1, 2}
    UserTasks = TRUE
    Shutdown = FALSE
    NULL = NULL
PROPERTY NoStarvation
PROPERTY ZombieYields
 
