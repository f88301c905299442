------------------------------ MODULE IOManager ------------------------------
(***************************************************************************)
(* The epoll reactor: sylar/iomanager.{h,cc}.                               *)
(*                                                                         *)
(* Every thread of the pool executes tasks, and polls epoll from idle() when*)
(* the queue has none.  A task waits for an event by registering itself     *)
(* with addEvent and yielding; triggerEvent puts it back into the queue,    *)
(* which may happen before the task has been switched out.                  *)
(* One action is one critical section of an FdContext's mutex, of the       *)
(* scheduler's mutex, or one read of an atomic.  The scheduler (module      *)
(* Scheduler) and the timers (module TimerManager) are reduced to the set   *)
(* of queued tasks, the active count, and the set of timers; epoll and the  *)
(* tickle pipe are modelled from how idle() and tickle() use them.          *)
(***************************************************************************)
EXTENDS Integers, FiniteSets

CONSTANTS
    Threads,        \* the pool
    Tasks,          \* fibers and callbacks
    NoTask,         \* an empty EventContext
    Fds,            \* descriptors within m_fdContexts
    Boot,           \* the tasks scheduled at the start
    MaxOps,         \* bound on the operations user code performs
    PipeCapacity    \* bytes the tickle pipe holds before write() blocks

ASSUME PoolAssumption ==
    /\ IsFiniteSet(Threads) /\ Threads # {} /\ IsFiniteSet(Fds)
    /\ NoTask \notin Tasks
    /\ Boot \subseteq Tasks
    /\ MaxOps \in Nat /\ PipeCapacity \in Nat

Event == {"READ", "WRITE"}

VARIABLES
    events,                \* FdContext::events
    ctx,                   \* FdContext::read and ::write: the registered task
    m_pendingEventCount,
    inEpoll,               \* descriptors in m_epfd; the mask is events
    ready,                 \* what the kernel would report for a descriptor
    rdl,                   \* epoll's ready list (edge triggered)
    pipe,                  \* bytes in the tickle pipe
    queue,                 \* Scheduler::m_fibers
    timers, due,           \* TimerManager::m_timers, and those that expired
    m_activeThreadCount, m_idleThreadCount, m_stopping,
    pc,                    \* where each thread is in run() and idle()
    cur,                   \* the task it executes
    ret,                   \* where tickle() returns to
    noTimer,               \* stopping(): next_timeout == ~0ull
    batch,                 \* the epoll_event array of idle()
    idleTerm,              \* its idle fiber has ended
    outside,               \* tickle() calls a thread outside the pool still makes
    ops,                   \* user operations so far (bound only)
    torn,                  \* a task was taken before it had been switched out
    crashed                \* an assertion failed

eventVars == <<events, ctx, m_pendingEventCount>>
epollVars == <<inEpoll, rdl>>
schedVars == <<queue, m_activeThreadCount, m_idleThreadCount, m_stopping>>
timerVars == <<timers, due>>
localVars == <<cur, ret, noTimer, batch, idleTerm>>

vars == <<eventVars, epollVars, ready, pipe, schedVars, timerVars, pc, localVars,
          outside, ops, torn, crashed>>

\* A pool that was started with the given tasks scheduled.
Started(tasks) ==
    /\ events = [fd \in Fds |-> {}]
    /\ ctx = [fd \in Fds |-> [e \in Event |-> NoTask]]
    /\ m_pendingEventCount = 0
    /\ inEpoll = {} /\ rdl = {}
    /\ ready = [fd \in Fds |-> {}]
    /\ pipe = 0
    /\ queue = tasks
    /\ timers = {} /\ due = {}
    /\ m_activeThreadCount = 0 /\ m_idleThreadCount = 0
    /\ m_stopping = FALSE
    /\ pc = [t \in Threads |-> "run"]
    /\ cur = [t \in Threads |-> NoTask]
    /\ ret = [t \in Threads |-> "run"]
    /\ noTimer = [t \in Threads |-> FALSE]
    /\ batch = [t \in Threads |-> [fd \in Fds |-> {}]]
    /\ idleTerm = [t \in Threads |-> FALSE]
    /\ outside = 0
    /\ ops = 0
    /\ torn = FALSE
    /\ crashed = FALSE

Init == Started(Boot)

goto(t, l) == pc' = [pc EXCEPT ![t] = l]

\* w is held by nobody: a fiber or callback user code may still create.
Unused(w) ==
    /\ w \notin queue \cup timers
    /\ \A t \in Threads : cur[t] # w
    /\ \A fd \in Fds, e \in Event : ctx[fd][e] # w

-----------------------------------------------------------------------------
(* FdContext and epoll_ctl                                                  *)

\* epoll_ctl ADD or MOD with the mask ev puts a ready descriptor on the ready
\* list again; DEL takes it off.
epoll_ctl(fd, ev) ==
    /\ inEpoll' = IF ev = {} THEN inEpoll \ {fd} ELSE inEpoll \cup {fd}
    /\ rdl' = IF ready[fd] \cap (ev \cup {"ERR"}) # {} /\ ev # {}
              THEN rdl \cup {fd} ELSE rdl \ {fd}

\* ADD fails on a descriptor that is there, MOD and DEL on one that is not.
CtlFails(fd) == (events[fd] = {}) = (fd \in inEpoll)

\* Mutant: the count is not given back.
PendingKept(n) == UNCHANGED m_pendingEventCount

DecPending(n) == m_pendingEventCount' = m_pendingEventCount - n

\* Mutant: the context keeps its task.
ContextsKept(fd, es) == UNCHANGED ctx

resetContext(fd, es) ==
    ctx' = [ctx EXCEPT ![fd] = [e \in Event |-> IF e \in es THEN NoTask ELSE @[e]]]

\* triggerEvent for each event of es: its task goes to the queue.
triggerEvent(fd, es) ==
    /\ events' = [events EXCEPT ![fd] = @ \ es]
    /\ queue' = queue \cup {ctx[fd][e] : e \in es}
    /\ resetContext(fd, es)
    /\ DecPending(Cardinality(es))

-----------------------------------------------------------------------------
(* User code in a task                                                      *)

UserOp(t) ==
    /\ pc[t] = "user"
    /\ ops < MaxOps
    /\ ops' = ops + 1

\* schedule() calls tickle() after it released the mutex if the queue was empty.
thenTickle(t, l) ==
    IF queue = {} THEN /\ goto(t, "tickle")
                       /\ ret' = [ret EXCEPT ![t] = l]
                  ELSE /\ goto(t, l)
                       /\ UNCHANGED ret

\* addEvent on behalf of w, up to its return 0.  The second registration of
\* an event is a misuse the code aborts on, and is not modelled.
addEvent(fd, e, w) ==
    /\ e \notin events[fd]
    /\ ~CtlFails(fd)
    /\ epoll_ctl(fd, events[fd] \cup {e})
    /\ events' = [events EXCEPT ![fd] = @ \cup {e}]
    /\ ctx' = [ctx EXCEPT ![fd][e] = w]
    /\ m_pendingEventCount' = m_pendingEventCount + 1

\* The task registers itself; from here on any thread may trigger the event ...
WaitEvent(t, fd, e) ==
    /\ UserOp(t)
    /\ addEvent(fd, e, cur[t])
    /\ goto(t, "armed")
    /\ UNCHANGED <<ready, pipe, schedVars, timerVars, localVars, outside, torn, crashed>>

\* ... YieldToHold writes HOLD, so that run() no longer passes the task over ...
YieldToHold(t) ==
    /\ pc[t] = "armed"
    /\ goto(t, "swapOut")
    /\ UNCHANGED <<eventVars, epollVars, ready, pipe, schedVars, timerVars, localVars,
                   ops, outside, torn, crashed>>

\* ... and swapOut leaves its stack; run() uncounts it.
SwapOut(t) ==
    /\ pc[t] = "swapOut"
    /\ cur' = [cur EXCEPT ![t] = NoTask]
    /\ m_activeThreadCount' = m_activeThreadCount - 1
    /\ goto(t, "run")
    /\ UNCHANGED <<eventVars, epollVars, ready, pipe, queue, m_idleThreadCount, m_stopping,
                   timerVars, ret, noTimer, batch, idleTerm, ops, outside, torn, crashed>>

\* The task registers a callback and goes on.
AddEventCb(t, fd, e, w) ==
    /\ UserOp(t)
    /\ Unused(w)
    /\ addEvent(fd, e, w)
    /\ UNCHANGED <<ready, pipe, schedVars, timerVars, pc, localVars,
                   outside, torn, crashed>>

\* epoll_ctl fails in addEvent, delEvent, cancelEvent or cancelAll: they return
\* an error and leave everything as it was.
CtlError(t, fd) ==
    /\ UserOp(t)
    /\ CtlFails(fd)
    /\ UNCHANGED <<eventVars, epollVars, ready, pipe, schedVars, timerVars, pc,
                   localVars, outside, torn, crashed>>

delEvent(t, fd, e) ==
    /\ UserOp(t)
    /\ e \in events[fd]
    /\ ~CtlFails(fd)
    /\ epoll_ctl(fd, events[fd] \ {e})
    /\ events' = [events EXCEPT ![fd] = @ \ {e}]
    /\ resetContext(fd, {e})
    /\ DecPending(1)
    /\ UNCHANGED <<ready, pipe, schedVars, timerVars, pc, localVars,
                   outside, torn, crashed>>

\* cancelEvent (es = {e}) and cancelAll (es = events[fd]).
cancelSome(t, fd, es) ==
    /\ UserOp(t)
    /\ es # {}
    /\ ~CtlFails(fd)
    /\ epoll_ctl(fd, events[fd] \ es)
    /\ triggerEvent(fd, es)
    /\ thenTickle(t, "user")
    /\ UNCHANGED <<ready, pipe, m_activeThreadCount, m_idleThreadCount,
                   m_stopping, timerVars, cur, noTimer, batch, idleTerm,
                   outside, torn, crashed>>

cancelEvent(t, fd, e) == e \in events[fd] /\ cancelSome(t, fd, {e})

cancelAll(t, fd) == cancelSome(t, fd, events[fd])

\* The second half of the hooked close(): the kernel forgets the descriptor,
\* also what another thread registered since cancelAll.
Close(t, fd) ==
    /\ UserOp(t)
    /\ inEpoll' = inEpoll \ {fd}
    /\ rdl' = rdl \ {fd}
    /\ ready' = [ready EXCEPT ![fd] = {}]
    /\ UNCHANGED <<eventVars, pipe, schedVars, timerVars, pc, localVars,
                   outside, torn, crashed>>

\* schedule(w)
Spawn(t, w) ==
    /\ UserOp(t)
    /\ Unused(w)
    /\ queue' = queue \cup {w}
    /\ thenTickle(t, "user")
    /\ UNCHANGED <<eventVars, epollVars, ready, pipe, m_activeThreadCount,
                   m_idleThreadCount, m_stopping, timerVars, cur, noTimer, batch,
                   idleTerm,
                   outside, torn, crashed>>

\* addTimer(w); onTimerInsertedAtFront is tickle().
AddTimer(t, w) ==
    /\ UserOp(t)
    /\ Unused(w)
    /\ timers' = timers \cup {w}
    /\ \/ goto(t, "tickle") /\ ret' = [ret EXCEPT ![t] = "user"]
       \/ timers # {} /\ UNCHANGED <<pc, ret>>
    /\ UNCHANGED <<eventVars, epollVars, ready, pipe, schedVars, due, cur,
                   noTimer, batch, idleTerm,
                   outside, torn, crashed>>

\* YieldToReady: run() uncounts the task ...
YieldReady(t) ==
    /\ UserOp(t)
    /\ m_activeThreadCount' = m_activeThreadCount - 1
    /\ goto(t, "settle")
    /\ UNCHANGED <<eventVars, epollVars, ready, pipe, queue, m_idleThreadCount,
                   m_stopping, timerVars, localVars, outside, torn, crashed>>

\* ... and then schedules it again.
Requeue(t) ==
    /\ pc[t] = "settle"
    /\ queue' = queue \cup {cur[t]}
    /\ cur' = [cur EXCEPT ![t] = NoTask]
    /\ thenTickle(t, "run")
    /\ UNCHANGED <<eventVars, epollVars, ready, pipe, m_activeThreadCount,
                   m_idleThreadCount, m_stopping, timerVars, noTimer, batch,
                   idleTerm, ops, outside, torn, crashed>>

\* The task ends.
Finish(t) ==
    /\ pc[t] = "user"
    /\ cur' = [cur EXCEPT ![t] = NoTask]
    /\ m_activeThreadCount' = m_activeThreadCount - 1
    /\ goto(t, "run")
    /\ UNCHANGED <<eventVars, epollVars, ready, pipe, queue, m_idleThreadCount,
                   m_stopping, timerVars, ret, noTimer, batch, idleTerm,
                   ops, outside, torn, crashed>>

hasIdleThreads == m_idleThreadCount > 0

\* IOManager::tickle: a write that blocks while the pipe is full.
TickleWrite ==
    \/ hasIdleThreads /\ UNCHANGED pipe
    \/ ~hasIdleThreads /\ pipe < PipeCapacity /\ pipe' = pipe + 1

tickle(t) ==
    /\ pc[t] = "tickle"
    /\ TickleWrite
    /\ goto(t, ret[t])
    /\ UNCHANGED <<eventVars, epollVars, ready, schedVars, timerVars, localVars,
                   ops, outside, torn, crashed>>

-----------------------------------------------------------------------------
(* run() and idle()                                                         *)

\* Fiber::m_state is EXEC: the scan passes over the task.
Executing(w) == \E t \in Threads : cur[t] = w /\ pc[t] \in {"user", "armed", "tickle"}

TakeTask(t, w) ==
    /\ pc[t] = "run"
    /\ w \in queue
    /\ ~Executing(w)
    /\ queue' = queue \ {w}
    /\ cur' = [cur EXCEPT ![t] = w]
    /\ m_activeThreadCount' = m_activeThreadCount + 1
    /\ torn' = (torn \/ \E u \in Threads : cur[u] = w)
    /\ goto(t, "user")
    /\ UNCHANGED <<eventVars, epollVars, ready, pipe, m_idleThreadCount,
                   m_stopping, timerVars, ret, noTimer, batch, idleTerm,
                   ops, outside, crashed>>

NothingToTake(t) == pc[t] = "run" /\ \A w \in queue : Executing(w)

EnterIdle(t) ==
    /\ NothingToTake(t)
    /\ ~idleTerm[t]
    /\ m_idleThreadCount' = m_idleThreadCount + 1
    /\ goto(t, "timeout")
    /\ UNCHANGED <<eventVars, epollVars, ready, pipe, queue, m_activeThreadCount,
                   m_stopping, timerVars, localVars, ops, outside, torn, crashed>>

ExitRun(t) ==
    /\ NothingToTake(t)
    /\ idleTerm[t]
    /\ goto(t, "exit")
    /\ UNCHANGED <<eventVars, epollVars, ready, pipe, schedVars, timerVars,
                   localVars, ops, outside, torn, crashed>>

\* stopping(next_timeout), first read: getNextTimer.
NextTimeout(t) ==
    /\ pc[t] = "timeout"
    /\ noTimer' = [noTimer EXCEPT ![t] = (timers = {})]
    /\ goto(t, "pending")
    /\ UNCHANGED <<eventVars, epollVars, ready, pipe, schedVars, timerVars, cur,
                   ret, batch, idleTerm,
                   ops, outside, torn, crashed>>

\* Mutant: the pending events are not consulted.
NothingPendingSkipped(t) == noTimer[t]

\* Mutant: the test of next_timeout == ~0ull is inverted.
NothingPendingInverted(t) == m_pendingEventCount = 0 /\ ~noTimer[t]

\* Second read: m_pendingEventCount, then the answer of the first.
NothingPending(t) == m_pendingEventCount = 0 /\ noTimer[t]

TestPending(t) ==
    /\ pc[t] = "pending"
    /\ goto(t, IF NothingPending(t) THEN "stopping" ELSE "epoll")
    /\ noTimer' = [noTimer EXCEPT ![t] = FALSE]
    /\ UNCHANGED <<eventVars, epollVars, ready, pipe, schedVars, timerVars, cur,
                   ret, batch, idleTerm,
                   ops, outside, torn, crashed>>

\* Third read: Scheduler::stopping; idle() breaks out of its loop if it holds.
TestStopping(t) ==
    LET stop == m_stopping /\ queue = {} /\ m_activeThreadCount = 0 IN
    /\ pc[t] = "stopping"
    /\ idleTerm' = [idleTerm EXCEPT ![t] = stop]
    /\ goto(t, IF stop THEN "events" ELSE "epoll")
    /\ UNCHANGED <<eventVars, epollVars, ready, pipe, schedVars, timerVars, cur,
                   ret, noTimer, batch, ops, outside, torn, crashed>>

\* epoll_wait returns what is ready, possibly nothing (MAX_TIMEOUT bounds every
\* wait, unless the first timer is 2^31 ms ahead: module TimerManager), and the
\* tickle pipe is read until it is empty.
EpollWait(t) ==
    /\ pc[t] = "epoll"
    /\ batch' = [batch EXCEPT ![t] =
                    [fd \in Fds |-> IF fd \in rdl
                                    THEN ready[fd] \cap (events[fd] \cup {"ERR"})
                                    ELSE {}]]
    /\ rdl' = {}
    /\ pipe' = 0
    /\ goto(t, "expired")
    /\ UNCHANGED <<eventVars, inEpoll, ready, schedVars, timerVars, cur, ret,
                   noTimer, idleTerm,
                   ops, outside, torn, crashed>>

\* listExpiredCb and the batch schedule of the callbacks; the thread is idle
\* itself, so tickle() does not write.
ScheduleExpired(t) ==
    /\ pc[t] = "expired"
    /\ queue' = queue \cup due
    /\ timers' = timers \ due
    /\ due' = {}
    /\ goto(t, "events")
    /\ UNCHANGED <<eventVars, epollVars, ready, pipe, m_activeThreadCount,
                   m_idleThreadCount, m_stopping, localVars, ops, outside, torn, crashed>>

\* Mutant: an error or hang-up is not turned into the registered events.
RealEventsNoErr(t, fd) == batch[t][fd] \cap Event

\* event.events, with an error or hang-up counted as every registered event.
RealEvents(t, fd) ==
    (batch[t][fd] \cap Event)
        \cup (IF "ERR" \in batch[t][fd] THEN events[fd] ELSE {})

Consumed(t, fd) == batch' = [batch EXCEPT ![t][fd] = {}]

\* One iteration of the loop over epoll's events, under the fd's mutex.
TriggerReady(t, fd) ==
    LET real == RealEvents(t, fd) IN
    /\ pc[t] = "events"
    /\ batch[t][fd] # {}
    /\ real \cap events[fd] # {}
    /\ ~CtlFails(fd)
    /\ real \subseteq events[fd]
    /\ epoll_ctl(fd, events[fd] \ real)
    /\ triggerEvent(fd, real)
    /\ Consumed(t, fd)
    /\ UNCHANGED <<ready, pipe, m_activeThreadCount, m_idleThreadCount,
                   m_stopping, timerVars, pc, cur, ret, noTimer, idleTerm,
                   ops, outside, torn, crashed>>

\* The iteration skips a descriptor handled elsewhere, or that epoll rejects.
SkipEvent(t, fd) ==
    /\ pc[t] = "events"
    /\ batch[t][fd] # {}
    /\ RealEvents(t, fd) \cap events[fd] = {} \/ CtlFails(fd)
    /\ Consumed(t, fd)
    /\ UNCHANGED <<eventVars, epollVars, ready, pipe, schedVars, timerVars, pc,
                   cur, ret, noTimer, idleTerm,
                   ops, outside, torn, crashed>>

\* triggerEvent's assertion fails: one of the two reported events is gone.
TriggerAborts(t, fd) ==
    LET real == RealEvents(t, fd) IN
    /\ pc[t] = "events"
    /\ real \cap events[fd] # {}
    /\ ~CtlFails(fd)
    /\ ~(real \subseteq events[fd])
    /\ crashed' = TRUE
    /\ UNCHANGED <<eventVars, epollVars, ready, pipe, schedVars, timerVars, pc,
                   localVars, outside, ops, torn>>

\* Mutant: idle() polls again without giving run() a chance to look for tasks.
StayIdle(t) ==
    /\ pc[t] = "events"
    /\ \A fd \in Fds : batch[t][fd] = {}
    /\ goto(t, "timeout")
    /\ UNCHANGED <<eventVars, epollVars, ready, pipe, schedVars, timerVars,
                   localVars, ops, outside, torn, crashed>>

\* swapOut at the end of an iteration: run() looks for a task.
LeaveIdle(t) ==
    /\ pc[t] = "events"
    /\ \A fd \in Fds : batch[t][fd] = {}
    /\ m_idleThreadCount' = m_idleThreadCount - 1
    /\ goto(t, "run")
    /\ UNCHANGED <<eventVars, epollVars, ready, pipe, queue, m_activeThreadCount,
                   m_stopping, timerVars, localVars, ops, outside, torn, crashed>>

-----------------------------------------------------------------------------
(* The environment                                                          *)

\* The kernel: a descriptor becomes readable, writable or broken.
FdReady(fd, e) ==
    /\ e \notin ready[fd]
    /\ ready' = [ready EXCEPT ![fd] = @ \cup {e}]
    /\ rdl' = IF fd \in inEpoll /\ e \in events[fd] \cup {"ERR"}
              THEN rdl \cup {fd} ELSE rdl
    /\ UNCHANGED <<eventVars, inEpoll, pipe, schedVars, timerVars, pc, localVars,
                   ops, outside, torn, crashed>>

\* A read or write of user code uses the readiness up.
Drain(t, fd, e) ==
    /\ pc[t] = "user"
    /\ e \in ready[fd]
    /\ ready' = [ready EXCEPT ![fd] = @ \ {e}]
    /\ UNCHANGED <<eventVars, epollVars, pipe, schedVars, timerVars, pc, localVars,
                   ops, outside, torn, crashed>>

TimerDue(w) ==
    /\ w \in timers \ due
    /\ due' = due \cup {w}
    /\ UNCHANGED <<eventVars, epollVars, ready, pipe, schedVars, timers, pc,
                   localVars, ops, outside, torn, crashed>>

\* schedule(w) from a thread outside the pool, and the tickle() it ends with.
Submit(w) ==
    /\ ~m_stopping /\ outside = 0
    /\ ops < MaxOps
    /\ ops' = ops + 1
    /\ Unused(w)
    /\ queue' = queue \cup {w}
    /\ outside' = IF queue = {} THEN 1 ELSE 0
    /\ UNCHANGED <<eventVars, epollVars, ready, pipe, m_activeThreadCount,
                   m_idleThreadCount, m_stopping, timerVars, pc, localVars, torn, crashed>>

TickleOutside ==
    /\ outside > 0
    /\ TickleWrite
    /\ outside' = outside - 1
    /\ UNCHANGED <<eventVars, epollVars, ready, schedVars, timerVars, pc,
                   localVars, ops, torn, crashed>>

\* Scheduler::stop sets its flags, then calls tickle() once per thread.
stop ==
    /\ ~m_stopping
    /\ outside = 0
    /\ m_stopping' = TRUE
    /\ outside' = Cardinality(Threads)
    /\ UNCHANGED <<eventVars, epollVars, ready, pipe, queue, m_activeThreadCount,
                   m_idleThreadCount, timerVars, pc, localVars, ops, torn, crashed>>

-----------------------------------------------------------------------------
UserStep(t) ==
    \/ \E fd \in Fds :
        \/ \E e \in Event : WaitEvent(t, fd, e) \/ delEvent(t, fd, e)
                            \/ cancelEvent(t, fd, e) \/ Drain(t, fd, e)
        \/ \E e \in Event, w \in Tasks : AddEventCb(t, fd, e, w)
        \/ CtlError(t, fd) \/ cancelAll(t, fd) \/ Close(t, fd)
    \/ \E w \in Tasks : Spawn(t, w) \/ AddTimer(t, w)
    \/ YieldReady(t)

RunStep(t) ==
    \/ \E w \in Tasks : TakeTask(t, w)
    \/ YieldToHold(t) \/ SwapOut(t) \/ Finish(t) \/ Requeue(t) \/ tickle(t)
    \/ EnterIdle(t) \/ ExitRun(t) \/ LeaveIdle(t)
    \/ NextTimeout(t) \/ TestPending(t) \/ TestStopping(t)
    \/ EpollWait(t) \/ ScheduleExpired(t)
    \/ \E fd \in Fds : TriggerReady(t, fd) \/ SkipEvent(t, fd) \/ TriggerAborts(t, fd)

ThreadStep(t) == ~crashed /\ RunStep(t)

Kernel ==
    \/ \E fd \in Fds, e \in Event \cup {"ERR"} : FdReady(fd, e)
    \/ \E w \in Tasks : TimerDue(w)

Outside == (\E w \in Tasks : Submit(w)) \/ TickleOutside \/ stop

\* Every thread has left run(), or the program was aborted.
Over == crashed \/ \A t \in Threads : pc[t] = "exit"

Next ==
    \/ \E t \in Threads : ThreadStep(t) \/ (~crashed /\ UserStep(t))
    \/ ~crashed /\ (Kernel \/ Outside)
    \/ Over /\ UNCHANGED vars

Spec == Init /\ [][Next]_vars

\* The operating system runs every thread, tasks end, and timers expire.
FairSpec ==
    /\ Spec
    /\ \A t \in Threads : WF_vars(ThreadStep(t))
    /\ WF_vars(~crashed /\ TickleOutside)
    /\ \A w \in Tasks : WF_vars(~crashed /\ TimerDue(w))

-----------------------------------------------------------------------------
(* Properties                                                               *)

\* Every variable has its type; the counters are size_t and never go below 0.
TypeOK ==
    /\ events \in [Fds -> SUBSET Event]
    /\ ctx \in [Fds -> [Event -> Tasks \cup {NoTask}]]
    /\ m_pendingEventCount \in Nat
    /\ inEpoll \subseteq Fds /\ rdl \subseteq inEpoll
    /\ ready \in [Fds -> SUBSET (Event \cup {"ERR"})]
    /\ pipe \in 0 .. PipeCapacity
    /\ queue \subseteq Tasks /\ timers \subseteq Tasks /\ due \subseteq timers
    /\ m_activeThreadCount \in Nat /\ m_idleThreadCount \in Nat
    /\ m_stopping \in BOOLEAN
    /\ pc \in [Threads -> {"run", "user", "armed", "swapOut", "settle", "tickle", "timeout",
                           "pending", "stopping", "epoll", "expired", "events", "exit"}]
    /\ cur \in [Threads -> Tasks \cup {NoTask}]
    /\ ret \in [Threads -> {"run", "user"}]
    /\ noTimer \in [Threads -> BOOLEAN] /\ idleTerm \in [Threads -> BOOLEAN]
    /\ batch \in [Threads -> [Fds -> SUBSET (Event \cup {"ERR"})]]
    /\ outside \in Nat
    /\ ops \in 0 .. MaxOps
    /\ torn \in BOOLEAN /\ crashed \in BOOLEAN

\* m_pendingEventCount, which stopping() trusts, is the number of registered
\* events over all descriptors, whichever of four paths removed them.
PendingExact ==
    m_pendingEventCount =
        Cardinality({p \in Fds \X Event : p[2] \in events[p[1]]})

\* addEvent's three assertions: an event is registered exactly if its
\* EventContext holds a task.
ContextMatchesEvents ==
    \A fd \in Fds, e \in Event : e \in events[fd] <=> ctx[fd][e] # NoTask

\* Until a thread takes a task that is still on another thread's stack, a task waits in
\* one place at most: queued, in a timer, or registered for one event; it is executed by
\* one thread at most, and waits and is executed at once only between its own addEvent
\* and the end of its swapOut.
TaskHeldOnce ==
    ~torn =>
        \A w \in Tasks :
            LET registered == {p \in Fds \X Event : ctx[p[1]][p[2]] = w}
                waits == Cardinality(registered) + (IF w \in queue THEN 1 ELSE 0)
                            + (IF w \in timers THEN 1 ELSE 0)
            IN  /\ waits <= 1
                /\ \A t, u \in Threads : cur[t] = w /\ cur[u] = w => t = u
                /\ \A t \in Threads :
                    cur[t] = w /\ pc[t] \notin {"armed", "swapOut"} => waits = 0

\* Edge-triggered readiness of a registered event is never forgotten: epoll still
\* has it on its ready list, or some thread in idle() is about to handle it.
NoLostReadiness ==
    \A fd \in inEpoll :
        ready[fd] \cap (events[fd] \cup {"ERR"}) # {} =>
            \/ fd \in rdl
            \/ \E t \in Threads : batch[t][fd] # {}

\* When the last thread leaves no task is left in the queue: a thread whose idle
\* fiber has ended still looks for a task before it exits.
NoTaskLeftBehind == (\A t \in Threads : pc[t] = "exit") => queue = {}

\* "All events handled" (iomanager.cc:399): when the last thread leaves, there is
\* no registered event, no timer and no queued task, although stopping() reads
\* them one after the other.
QuiescentStop ==
    (\A t \in Threads : pc[t] = "exit") =>
        m_pendingEventCount = 0 /\ timers = {} /\ queue = {}

\* A queued task is executed, also one that "yielded to READY, so it is executed
\* again" (scheduler.cc:281), although tickle() wakes nobody who is idle: every
\* wait in epoll_wait ends within MAX_TIMEOUT.
QueuedTaskRuns ==
    \A w \in Tasks : w \in queue ~> (w \notin queue \/ crashed)

\* Once stop() was called and nothing is registered any more, every thread exits.
StopReturns ==
    <>[](m_stopping /\ m_pendingEventCount = 0) => <>Over

\* triggerEvent's assertion events & event (iomanager.cc:39).
NoAbort == ~crashed

\* "No idle thread: sending is useless, they are running in the loop"
\* (iomanager.cc:389): with work queued and all threads asleep, a byte is sent.
SleepersAreWoken ==
    (queue # {} /\ outside = 0 /\ \A t \in Threads : pc[t] = "epoll") => pipe > 0

\* The event bits, the contexts, the count and epoll agree, on all four paths that
\* remove an event.
EventsConsistent == TypeOK /\ PendingExact /\ ContextMatchesEvents

\* A task is held in one place, and none is left when the pool has ended.
TasksKept == TaskHeldOnce /\ NoTaskLeftBehind
=============================================================================
