SPECIFICATION Spec
CONSTANTS
    Fibers = {f, g}
    NoFiber = NoFiber
    Fds = {x}
    MaxOps = 1
    MaxData = 1
CHECK_DEADLOCK FALSE
PROPERTIES
    TimeoutWakes
