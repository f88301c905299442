SPECIFICATION ReactorSpec
CONSTANTS
    Threads = {t1, t2}
    Tasks = {a, b}
    NoTask = NoTask
    Fds = {x}
    Boot = {a, b}
    MaxOps = 3
    PipeCapacity = 6
    Timers = {k1, k2}
    Pollers = {p1, p2}
    Intervals = {1, 2}
    Start = 0
    MaxTime = 2
    MaxNext = 2
    MaxWait = 1
    IntLimit = 2
    Hour = 1
    MaxJumps = 0
SYMMETRY Symmetry
INVARIANTS
    EventsConsistent
    TasksKept
    NoLostReadiness
    TimersConsistent
PROPERTY NoEarlyFire
