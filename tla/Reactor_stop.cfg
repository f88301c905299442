SPECIFICATION ReactorSpec
CONSTANTS
    Threads = {t1, t2}
    Tasks = {a, b}
    NoTask = NoTask
    Fds = {x}
    Boot = {a, b}
    MaxOps = 3
    PipeCapacity = 6
    Timers = {}
    Pollers = {p1, p2}
    Intervals = {2}
    Start = 1
    MaxTime = 3
    MaxNext = 3
    MaxWait = 1
    IntLimit = 2
    Hour = 1
    MaxJumps = 1
INVARIANT QuiescentStop
SYMMETRY Symmetry
