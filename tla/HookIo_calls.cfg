SPECIFICATION Spec
CONSTANTS
    Fibers = {f, g}
    NoFiber = NoFiber
    Fds = {x}
    MaxOps = 3
    MaxData = 1
CHECK_DEADLOCK FALSE
INVARIANTS
    WaitsConsistent
    TimeoutIsReal
PROPERTIES
    ConnectTruthful
    CallReturns
