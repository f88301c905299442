SPECIFICATION Spec
CONSTANTS
    c = c
    w1 = w1
    w2 = w2
    f1 = f1
    f2 = f2
    j1 = j1
    j2 = j2
    any = any
    Workers = {w1, w2}
    Caller = c
    UseCaller = FALSE
    Fibers = {f1, f2}
    Jobs = {j1, j2}
    NoFiber = NoFiber
    NoJob = NoJob
    AnyThread = any
    PinOf <- Unpinned
    MaxYields = 1
INVARIANT FiberOnOneThread
