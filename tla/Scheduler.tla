------------------------------ MODULE Scheduler ------------------------------
(***************************************************************************)
(* The coroutine scheduler: sylar/scheduler.{h,cc} over sylar/fiber.{h,cc}. *)
(*                                                                         *)
(* A Scheduler owns a queue m_fibers of tasks (a Fiber or a callback, and   *)
(* optionally the thread the task is pinned to) and a pool of threads that  *)
(* all execute Scheduler::run.  With use_caller the constructing thread     *)
(* joins the pool, but only from inside Scheduler::stop.                    *)
(*                                                                         *)
(* Each thread is a program counter over the points of run() between which  *)
(* another thread can be seen: the critical section of m_mutex, the atomic  *)
(* counters, and the unprotected accesses to Fiber::m_state.                *)
(***************************************************************************)
EXTENDS Integers, Sequences, FiniteSets

CONSTANTS
    Workers,     \* threads created by start()
    Caller,      \* the thread that builds, starts and stops the scheduler
    UseCaller,   \* the constructor argument use_caller
    Fibers,      \* Fiber objects that may be constructed
    Jobs,        \* callbacks that user code may submit
    NoFiber,     \* a null Fiber::ptr
    NoJob,       \* an empty std::function
    AnyThread,   \* the value -1 of FiberAndThread::thread
    PinOf,       \* the thread argument each job is scheduled with
    MaxYields    \* bound on the suspensions and late schedules of one fiber

Threads == Workers \cup (IF UseCaller THEN {Caller} ELSE {})

ASSUME ThreadsAssumption ==
    /\ IsFiniteSet(Workers)
    /\ Caller \notin Workers
    /\ UseCaller \in BOOLEAN
    /\ UseCaller \/ Workers # {}
    /\ AnyThread \notin Threads
    /\ PinOf \in [Jobs -> Threads \cup {AnyThread}]
ASSUME NullAssumption == NoFiber \notin Fibers /\ NoJob \notin Jobs
ASSUME BoundAssumption == MaxYields \in Nat

VARIABLES
    m_fibers,            \* run queue, guarded by m_mutex
    m_state,             \* Fiber::m_state, "NONE" before construction
    m_cb,                \* Fiber::m_cb
    saved,               \* fibers whose m_ctx holds a complete context
    armed,               \* fibers some waker holds a reference to (addEvent, addTimer)
    m_activeThreadCount,
    m_idleThreadCount,
    m_stopping,
    m_autoStop,
    pc,                  \* where each thread is in run()
    ft,                  \* run()'s local FiberAndThread
    cb_fiber,            \* run()'s local cb_fiber
    cur,                 \* the fiber whose stack the thread is on (t_fiber)
    idleTerm,            \* the thread's idle fiber is TERM
    mpc,                 \* where the caller is in start()/stop()
    yields,              \* suspensions counted per fiber (bound only)
    issued, done,        \* jobs submitted, jobs whose callback returned or threw
    early,               \* threads for which stopping() held while a fiber was Pending
    torn                 \* a fiber was switched in while another thread's run() had it

vars == <<m_fibers, m_state, m_cb, saved, armed, m_activeThreadCount,
          m_idleThreadCount, m_stopping, m_autoStop, pc, ft, cb_fiber, cur,
          idleTerm, mpc, yields, issued, done, early, torn>>

fiberVars == <<m_state, m_cb, saved, armed, yields>>
countVars == <<m_activeThreadCount, m_idleThreadCount>>
stopVars  == <<m_stopping, m_autoStop, mpc, early>>
localVars == <<ft, cb_fiber, cur, idleTerm>>
jobVars   == <<issued, done, torn>>

State == {"NONE", "INIT", "HOLD", "EXEC", "TERM", "READY", "EXCEPT"}

FiberAndThread == [fiber : Fibers \cup {NoFiber},
                   cb : Jobs \cup {NoJob},
                   thread : Threads \cup {AnyThread}]

NullTask == [fiber |-> NoFiber, cb |-> NoJob, thread |-> AnyThread]

Finished(f) == m_state[f] \in {"TERM", "EXCEPT"}

-----------------------------------------------------------------------------
(* Who has a fiber.                                                         *)

Queued(f) == \E i \in DOMAIN m_fibers : m_fibers[i].fiber = f

\* The thread's run() has a reference to f in ft or cb_fiber.
Owns(t, f) == ft[t].fiber = f \/ cb_fiber[t] = f

\* f has been switched out and run() has finished with it.
Parked(f) ==
    /\ m_state[f] = "HOLD"
    /\ ~Queued(f)
    /\ \A t \in Threads : ~Owns(t, f)

-----------------------------------------------------------------------------
Init ==
    /\ m_fibers = <<>>
    /\ m_state = [f \in Fibers |-> "NONE"]
    /\ m_cb = [f \in Fibers |-> NoJob]
    /\ saved = {}
    /\ armed = {}
    /\ m_activeThreadCount = 0
    /\ m_idleThreadCount = 0
    /\ m_stopping = TRUE
    /\ m_autoStop = FALSE
    /\ pc = [t \in Threads |-> "off"]
    /\ ft = [t \in Threads |-> NullTask]
    /\ cb_fiber = [t \in Threads |-> NoFiber]
    /\ cur = [t \in Threads |-> NoFiber]
    /\ idleTerm = [t \in Threads |-> FALSE]
    /\ mpc = "new"
    /\ yields = [f \in Fibers |-> 0]
    /\ issued = {}
    /\ done = {}
    /\ early = {}
    /\ torn = FALSE

-----------------------------------------------------------------------------
(* Submitting work: Scheduler::schedule, from the caller before stop() or   *)
(* from user code running in a fiber.                                       *)

UserRuns == mpc \in {"new", "up"} \/ \E t \in Threads : pc[t] = "user"

scheduleNoLock(fiber, cb, thread) ==
    m_fibers' = Append(m_fibers, [fiber |-> fiber, cb |-> cb, thread |-> thread])

\* schedule(cb, thread)
ScheduleCb(j) ==
    /\ UserRuns
    /\ j \notin issued
    /\ issued' = issued \cup {j}
    /\ scheduleNoLock(NoFiber, j, PinOf[j])
    /\ UNCHANGED <<fiberVars, countVars, stopVars, localVars, pc, done, torn>>

\* Fiber::Fiber(cb): the fiber has a fresh context at MainFunc.
NewFiber(f, j) ==
    /\ m_state[f] = "NONE"
    /\ m_state' = [m_state EXCEPT ![f] = "INIT"]
    /\ m_cb' = [m_cb EXCEPT ![f] = j]
    /\ saved' = saved \cup {f}

\* Fiber::ptr f(new Fiber(cb)); schedule(f, thread)
ScheduleFiber(f, j) ==
    /\ UserRuns
    /\ j \notin issued
    /\ issued' = issued \cup {j}
    /\ NewFiber(f, j)
    /\ scheduleNoLock(f, NoJob, PinOf[j])
    /\ UNCHANGED <<armed, yields, countVars, stopVars, localVars, pc, done, torn>>

\* schedule(f) by the event, timer or fiber that f registered itself with; IOManager
\* does it from inside idle().  Nothing delays it until f has been switched out.
Wake(f) ==
    /\ UserRuns \/ \E t \in Threads : pc[t] = "idle"
    /\ f \in armed
    /\ armed' = armed \ {f}
    /\ scheduleNoLock(f, NoJob, AnyThread)
    /\ UNCHANGED <<m_state, m_cb, saved, yields, countVars, stopVars,
                   localVars, pc, jobVars>>

\* schedule(f) by a holder of a Fiber::ptr that has already ended.
ScheduleEnded(f) ==
    /\ UserRuns
    /\ Finished(f)
    /\ ~Queued(f)
    /\ \A t \in Threads : ~Owns(t, f)
    /\ yields[f] < MaxYields
    /\ yields' = [yields EXCEPT ![f] = @ + 1]
    /\ scheduleNoLock(f, NoJob, AnyThread)
    /\ UNCHANGED <<m_state, m_cb, saved, armed, countVars, stopVars, localVars,
                   pc, jobVars>>

-----------------------------------------------------------------------------
(* Scheduler::run                                                           *)

goto(t, l) == pc' = [pc EXCEPT ![t] = l]

\* The task at i is one thread t may take: not pinned elsewhere, not a
\* fiber some thread is executing.
Eligible(t, i) ==
    /\ m_fibers[i].thread \in {AnyThread, t}
    /\ m_fibers[i].fiber # NoFiber => m_state[m_fibers[i].fiber] # "EXEC"

\* Mutant: the erase is forgotten.
EraseNothing(s, i) == s

EraseAt(s, i) == [k \in 1 .. Len(s) - 1 |-> IF k < i THEN s[k] ELSE s[k + 1]]

\* Mutant: the task is not counted before m_mutex is released.
TakeUncounted == UNCHANGED m_activeThreadCount

CountActive == m_activeThreadCount' = m_activeThreadCount + 1

\* The critical section, task found: the first eligible task is erased and
\* counted active before m_mutex is released.
TakeTask(t) ==
    /\ pc[t] = "scan"
    /\ \E i \in DOMAIN m_fibers :
        /\ Eligible(t, i)
        /\ \A k \in 1 .. i - 1 : ~Eligible(t, k)
        /\ ft' = [ft EXCEPT ![t] = m_fibers[i]]
        /\ m_fibers' = EraseAt(m_fibers, i)
    /\ CountActive
    /\ goto(t, "dispatch")
    /\ UNCHANGED <<fiberVars, m_idleThreadCount, stopVars, cb_fiber, cur,
                   idleTerm, jobVars>>

\* The critical section, no task for this thread.
NoTask(t) ==
    /\ pc[t] = "scan"
    /\ \A i \in DOMAIN m_fibers : ~Eligible(t, i)
    /\ goto(t, "noTask")
    /\ UNCHANGED <<m_fibers, fiberVars, countVars, stopVars, localVars, jobVars>>

\* Fiber::swapIn on thread t: the context leaves m_ctx for the thread.
swapIn(t, f) ==
    /\ cur' = [cur EXCEPT ![t] = f]
    /\ saved' = saved \ {f}
    /\ goto(t, "user")

\* A fiber task is switched in, although another thread may not be through with it.
RunFiber(t) ==
    /\ pc[t] = "dispatch"
    /\ ft[t].fiber # NoFiber
    /\ ~Finished(ft[t].fiber)
    /\ torn' = (torn \/ \E u \in Threads \ {t} : Owns(u, ft[t].fiber))
    /\ m_state' = [m_state EXCEPT ![ft[t].fiber] = "EXEC"]
    /\ swapIn(t, ft[t].fiber)
    /\ UNCHANGED <<m_fibers, m_cb, armed, yields, countVars, stopVars, ft,
                   cb_fiber, idleTerm, issued, done>>

\* Mutant: the branch that drops a task forgets to give the count back.
DropLeaksCount == UNCHANGED m_activeThreadCount

UncountDropped == m_activeThreadCount' = m_activeThreadCount - 1

\* A fiber task that has already ended is dropped.
DropFinished(t) ==
    /\ pc[t] = "dispatch"
    /\ ft[t].fiber # NoFiber
    /\ Finished(ft[t].fiber)
    /\ UncountDropped
    /\ ft' = [ft EXCEPT ![t] = NullTask]
    /\ goto(t, "scan")
    /\ UNCHANGED <<m_fibers, fiberVars, m_idleThreadCount, stopVars, cb_fiber,
                   cur, idleTerm, jobVars>>

\* A callback task runs on the thread's cb_fiber, reset or newly built.
RunCb(t) ==
    /\ pc[t] = "dispatch"
    /\ ft[t].fiber = NoFiber
    /\ \E f \in Fibers :
        /\ IF cb_fiber[t] # NoFiber THEN f = cb_fiber[t] ELSE m_state[f] = "NONE"
        /\ m_state' = [m_state EXCEPT ![f] = "EXEC"]
        /\ m_cb' = [m_cb EXCEPT ![f] = ft[t].cb]
        /\ yields' = [yields EXCEPT ![f] = 0]
        /\ cb_fiber' = [cb_fiber EXCEPT ![t] = f]
        /\ swapIn(t, f)
    /\ ft' = [ft EXCEPT ![t] = NullTask]
    /\ UNCHANGED <<m_fibers, armed, countVars, stopVars, idleTerm, jobVars>>

-----------------------------------------------------------------------------
(* User code in a fiber, and Fiber::MainFunc around it.                     *)

\* The fiber hands a reference to itself to a waker (addEvent, addTimer).
Arm(t) ==
    /\ pc[t] = "user"
    /\ yields[cur[t]] < MaxYields
    /\ yields' = [yields EXCEPT ![cur[t]] = @ + 1]
    /\ armed' = armed \cup {cur[t]}
    /\ goto(t, "armed")
    /\ UNCHANGED <<m_fibers, m_state, m_cb, saved, countVars, stopVars,
                   localVars, jobVars>>

\* First half of a yield: m_state is published, the stack is still in use.
setState(t, s) == m_state' = [m_state EXCEPT ![cur[t]] = s]

YieldToHold(t) ==
    /\ pc[t] = "armed"
    /\ setState(t, "HOLD")
    /\ goto(t, "swapOut")
    /\ UNCHANGED <<m_fibers, m_cb, saved, armed, yields, countVars, stopVars,
                   localVars, jobVars>>

YieldToReady(t) ==
    /\ pc[t] = "user"
    /\ yields[cur[t]] < MaxYields
    /\ yields' = [yields EXCEPT ![cur[t]] = @ + 1]
    /\ setState(t, "READY")
    /\ goto(t, "swapOut")
    /\ UNCHANGED <<m_fibers, m_cb, saved, armed, countVars, stopVars,
                   localVars, jobVars>>

\* The callback returned (TERM, m_cb released) or threw (EXCEPT).
MainFunc(t) ==
    /\ pc[t] = "user"
    /\ done' = done \cup {m_cb[cur[t]]}
    /\ \/ /\ setState(t, "TERM")
          /\ m_cb' = [m_cb EXCEPT ![cur[t]] = NoJob]
       \/ /\ setState(t, "EXCEPT")
          /\ UNCHANGED m_cb
    /\ goto(t, "swapOut")
    /\ UNCHANGED <<m_fibers, saved, armed, yields, countVars, stopVars,
                   localVars, issued, torn>>

\* Second half: swapcontext stores the context and returns to run().
swapOut(t) ==
    /\ pc[t] = "swapOut"
    /\ saved' = saved \cup {cur[t]}
    /\ cur' = [cur EXCEPT ![t] = NoFiber]
    /\ goto(t, "swapped")
    /\ UNCHANGED <<m_fibers, m_state, m_cb, armed, yields, countVars, stopVars,
                   ft, cb_fiber, idleTerm, jobVars>>

-----------------------------------------------------------------------------
(* run() after swapIn returns.                                              *)

Deactivate(t) ==
    /\ pc[t] = "swapped"
    /\ m_activeThreadCount' = m_activeThreadCount - 1
    /\ goto(t, "settle")
    /\ UNCHANGED <<m_fibers, fiberVars, m_idleThreadCount, stopVars, localVars,
                   jobVars>>

\* Mutant: a fiber that yielded to READY is not queued again.
ForgetReady(f) == UNCHANGED m_fibers

\* Where a READY fiber goes: back to the queue, whatever it was pinned to.
Reschedule(f) == scheduleNoLock(f, NoJob, AnyThread)

\* The fiber-task branch: requeue, drop, or park the fiber.
SettleFiber(t) ==
    LET f == ft[t].fiber IN
    /\ pc[t] = "settle"
    /\ f # NoFiber
    /\ \/ m_state[f] = "READY" /\ Reschedule(f) /\ UNCHANGED m_state
       \/ Finished(f) /\ UNCHANGED <<m_fibers, m_state>>
       \/ /\ m_state[f] # "READY" /\ ~Finished(f)
          /\ m_state' = [m_state EXCEPT ![f] = "HOLD"]
          /\ UNCHANGED m_fibers
    /\ ft' = [ft EXCEPT ![t] = NullTask]
    /\ goto(t, "scan")
    /\ UNCHANGED <<m_cb, saved, armed, yields, countVars, stopVars, cb_fiber,
                   cur, idleTerm, jobVars>>

\* Fiber::reset(nullptr) of an ended fiber.
reset(f) ==
    /\ Finished(f)
    /\ m_state' = [m_state EXCEPT ![f] = "INIT"]
    /\ m_cb' = [m_cb EXCEPT ![f] = NoJob]

ReleaseCbFiber(t) == cb_fiber' = [cb_fiber EXCEPT ![t] = NoFiber]

\* The callback branch: the same, but an ended cb_fiber is kept for reuse.
SettleCb(t) ==
    LET f == cb_fiber[t] IN
    /\ pc[t] = "settle"
    /\ ft[t].fiber = NoFiber
    /\ \/ /\ m_state[f] = "READY" /\ Reschedule(f)
          /\ ReleaseCbFiber(t)
          /\ UNCHANGED <<m_state, m_cb>>
       \/ /\ reset(f)
          /\ UNCHANGED <<m_fibers, cb_fiber>>
       \/ /\ m_state[f] # "READY" /\ ~Finished(f)
          /\ m_state' = [m_state EXCEPT ![f] = "HOLD"]
          /\ ReleaseCbFiber(t)
          /\ UNCHANGED <<m_fibers, m_cb>>
    /\ goto(t, "scan")
    /\ UNCHANGED <<saved, armed, yields, countVars, stopVars, ft, cur,
                   idleTerm, jobVars>>

-----------------------------------------------------------------------------
(* Idle and stop.                                                           *)

\* Mutant: the queue is not consulted.
stoppingIgnoresQueue == m_autoStop /\ m_stopping /\ m_activeThreadCount = 0

stopping ==
    /\ m_autoStop
    /\ m_stopping
    /\ m_fibers = <<>>
    /\ m_activeThreadCount = 0

\* What stopping() does not see: a thread has given the active count back and has
\* not settled its fiber, or a fiber waits for an event.
Pending == armed # {} \/ \E t \in Threads : pc[t] = "settle"

\* History: thread t has found stopping() to hold while something was pending.
NoteEarly(t) == early' = early \cup (IF stopping /\ Pending THEN {t} ELSE {})

CountIdle == m_idleThreadCount' = m_idleThreadCount + 1

EnterIdle(t) ==
    /\ pc[t] = "noTask"
    /\ ~idleTerm[t]
    /\ CountIdle
    /\ goto(t, "idle")
    /\ UNCHANGED <<m_fibers, fiberVars, m_activeThreadCount, stopVars,
                   localVars, jobVars>>

\* Scheduler::idle tests stopping() once per visit: it returns (the idle
\* fiber is TERM) or yields to run().
idle(t) ==
    /\ pc[t] = "idle"
    /\ idleTerm' = [idleTerm EXCEPT ![t] = stopping]
    /\ NoteEarly(t)
    /\ goto(t, "idleOut")
    /\ UNCHANGED <<m_fibers, fiberVars, countVars, m_stopping, m_autoStop, mpc,
                   ft, cb_fiber, cur, jobVars>>

LeaveIdle(t) ==
    /\ pc[t] = "idleOut"
    /\ m_idleThreadCount' = m_idleThreadCount - 1
    /\ goto(t, "scan")
    /\ UNCHANGED <<m_fibers, fiberVars, m_activeThreadCount, stopVars,
                   localVars, jobVars>>

\* run() returns and the thread ends.
ExitRun(t) ==
    /\ pc[t] = "noTask"
    /\ idleTerm[t]
    /\ goto(t, "exit")
    /\ UNCHANGED <<m_fibers, fiberVars, countVars, stopVars, localVars, jobVars>>

\* Scheduler::start: the workers are created under m_mutex.
start ==
    /\ mpc = "new"
    /\ m_stopping' = FALSE
    /\ pc' = [t \in Threads |-> IF t \in Workers THEN "scan" ELSE "off"]
    /\ mpc' = "up"
    /\ UNCHANGED <<m_fibers, fiberVars, countVars, m_autoStop, early, localVars, jobVars>>

\* Scheduler::stop, up to the flags ...
StopRequest ==
    /\ mpc = "up"
    /\ m_autoStop' = TRUE
    /\ mpc' = "stopRequested"
    /\ UNCHANGED <<m_fibers, fiberVars, countVars, m_stopping, early, pc, localVars,
                   jobVars>>

StopFlags ==
    /\ mpc = "stopRequested"
    /\ m_stopping' = TRUE
    /\ mpc' = "stopTest"
    /\ UNCHANGED <<m_fibers, fiberVars, countVars, m_autoStop, early, pc, localVars,
                   jobVars>>

\* ... then, with use_caller, the caller runs the root fiber unless there
\* is nothing left; a single-threaded scheduler with nothing left returns.
StopTest ==
    /\ mpc = "stopTest"
    /\ \/ /\ UseCaller /\ ~stopping
          /\ mpc' = "root"
          /\ goto(Caller, "scan")
          /\ UNCHANGED early
       \/ /\ UseCaller /\ stopping
          /\ mpc' = (IF Workers = {} THEN "down" ELSE "join")
          /\ NoteEarly(Caller)
          /\ UNCHANGED pc
       \/ /\ ~UseCaller
          /\ mpc' = "join"
          /\ UNCHANGED <<pc, early>>
    /\ UNCHANGED <<m_fibers, fiberVars, countVars, m_stopping, m_autoStop,
                   localVars, jobVars>>

\* Fiber::back: the root fiber ended, stop() continues on the caller's stack.
RootDone ==
    /\ mpc = "root"
    /\ pc[Caller] = "exit"
    /\ mpc' = "join"
    /\ UNCHANGED <<m_fibers, fiberVars, countVars, m_stopping, m_autoStop, early, pc,
                   localVars, jobVars>>

\* Every worker thread has been joined and stop() returns.
Join ==
    /\ mpc = "join"
    /\ \A w \in Workers : pc[w] = "exit"
    /\ mpc' = "down"
    /\ UNCHANGED <<m_fibers, fiberVars, countVars, m_stopping, m_autoStop, early, pc,
                   localVars, jobVars>>

-----------------------------------------------------------------------------
Submit ==
    \/ \E j \in Jobs :
        ScheduleCb(j) \/ \E f \in Fibers : ScheduleFiber(f, j)
    \/ \E f \in Fibers : Wake(f) \/ ScheduleEnded(f)

RunStep(t) ==
    \/ TakeTask(t) \/ NoTask(t)
    \/ RunFiber(t) \/ DropFinished(t) \/ RunCb(t)
    \/ Arm(t) \/ YieldToHold(t) \/ YieldToReady(t) \/ MainFunc(t) \/ swapOut(t)
    \/ Deactivate(t) \/ SettleFiber(t) \/ SettleCb(t)
    \/ EnterIdle(t) \/ idle(t) \/ LeaveIdle(t) \/ ExitRun(t)

\* stop() has returned: the pool is gone.
Stopped == mpc = "down" /\ UNCHANGED vars

StopStep == StopFlags \/ StopTest \/ RootDone \/ Join

Next ==
    \/ Submit
    \/ \E t \in Threads : RunStep(t)
    \/ start
    \/ StopRequest
    \/ StopStep
    \/ Stopped

Spec == Init /\ [][Next]_vars

\* The operating system runs every thread; user code keeps executing.
FairSpec ==
    /\ Spec
    /\ \A t \in Threads : WF_vars(RunStep(t))
    /\ WF_vars(StopStep)

-----------------------------------------------------------------------------
(* Properties                                                               *)

Busy == {"dispatch", "user", "armed", "swapOut", "swapped"}
InIdle == {"idle", "idleOut"}

\* Every variable has its type; the two atomic counters are size_t, so a
\* decrement below zero would wrap and stopping() would never hold again.
TypeOK ==
    /\ m_fibers \in Seq(FiberAndThread)
    /\ m_state \in [Fibers -> State]
    /\ m_cb \in [Fibers -> Jobs \cup {NoJob}]
    /\ saved \subseteq Fibers
    /\ armed \subseteq Fibers
    /\ m_activeThreadCount \in Nat
    /\ m_idleThreadCount \in Nat
    /\ m_stopping \in BOOLEAN
    /\ m_autoStop \in BOOLEAN
    /\ pc \in [Threads -> Busy \cup InIdle \cup {"off", "scan", "settle", "noTask", "exit"}]
    /\ ft \in [Threads -> FiberAndThread]
    /\ cb_fiber \in [Threads -> Fibers \cup {NoFiber}]
    /\ cur \in [Threads -> Fibers \cup {NoFiber}]
    /\ idleTerm \in [Threads -> BOOLEAN]
    /\ mpc \in {"new", "up", "stopRequested", "stopTest", "root", "join", "down"}
    /\ yields \in [Fibers -> Nat]
    /\ issued \subseteq Jobs
    /\ done \subseteq Jobs \cup {NoJob}
    /\ early \subseteq Threads
    /\ torn \in BOOLEAN

\* No two threads execute on the stack of the same fiber: swapIn never enters
\* a context that another thread has not left.
FiberOnOneThread ==
    \A t, u \in Threads : cur[t] = cur[u] /\ cur[t] # NoFiber => t = u

\* The thread is between handing its fiber to a waker and being done with it.
Leaving(t) == pc[t] \in {"armed", "swapOut", "swapped", "settle"}

\* However early its waker comes, a fiber has at most one queue entry, one thread that
\* was given it to run and one thread that is still on its way out of it, and a thread
\* in its user code shares it with nobody: as long as no thread has switched into a
\* fiber another thread's run() has, which is the one step run() does not prevent.
OneHolder ==
    ~torn =>
        /\ \A i, k \in DOMAIN m_fibers :
            m_fibers[i].fiber = m_fibers[k].fiber /\ m_fibers[i].fiber # NoFiber => i = k
        /\ \A f \in Fibers : Queued(f) => m_state[f] # "NONE"
        /\ \A f \in Fibers, t \in Threads : Owns(t, f) =>
            /\ m_state[f] # "NONE"
            /\ Queued(f) => Leaving(t) /\ f \notin armed
            /\ \A u \in Threads \ {t} : Owns(u, f) =>
                /\ ~Queued(f) /\ f \notin armed
                /\ \/ pc[t] = "dispatch" /\ Leaving(u)
                   \/ pc[u] = "dispatch" /\ Leaving(t)
        /\ \A t \in Threads : ft[t].fiber = cb_fiber[t] => cb_fiber[t] = NoFiber

\* m_activeThreadCount counts the threads between taking a task in the critical
\* section and the decrement after it, on every path of run().
ActiveCountExact ==
    m_activeThreadCount = Cardinality({t \in Threads : pc[t] \in Busy})

\* m_idleThreadCount, which tickle() consults, counts the threads in idle().
IdleCountExact ==
    m_idleThreadCount = Cardinality({t \in Threads : pc[t] \in InIdle})

\* The places that hold job j for a later or current execution.
Carriers(j) ==
    {<<"queue", i>> : i \in {k \in DOMAIN m_fibers : m_fibers[k].cb = j}}
    \cup {<<"thread", t>> : t \in {u \in Threads : ft[u].cb = j}}
    \cup {<<"fiber", f>> : f \in {g \in Fibers : m_cb[g] = j /\ ~Finished(g)}}

\* A submitted callback is carried by exactly one place until it has run, and by none
\* afterwards: no job is lost, run twice, or overwritten by reset(), before a fiber is
\* switched in that another thread has.
JobHeldOnce ==
    ~torn => \A j \in issued :
        Cardinality(Carriers(j)) = (IF j \in done THEN 0 ELSE 1)

\* A fiber that has not ended is always reachable: queued, in the hands of a
\* thread, or parked with a waker that can schedule it.
NoFiberLost ==
    ~torn => \A f \in Fibers :
        \/ m_state[f] = "NONE" \/ Finished(f)
        \/ Queued(f)
        \/ \E t \in Threads : Owns(t, f)
        \/ m_state[f] = "HOLD" /\ f \in armed

JobParked(j) == \E f \in Fibers : m_cb[f] = j /\ Parked(f)

\* j is in a queued task that is pinned to a thread.
Stranded(j) ==
    \E i \in DOMAIN m_fibers :
        /\ m_fibers[i].thread # AnyThread
        /\ m_fibers[i].cb = j \/ (m_fibers[i].fiber # NoFiber /\ m_cb[m_fibers[i].fiber] = j)

\* When stop() returns no thread is executing, nothing is queued but tasks pinned
\* to a thread that left early, and every other job has run or waits for an event
\* in a parked fiber, unless a fiber was switched in that another thread had.
QuiescentStop ==
    mpc = "down" /\ ~torn =>
        /\ \A i \in DOMAIN m_fibers : m_fibers[i].thread \in early
        /\ \A t \in Threads : pc[t] \in {"off", "exit"}
        /\ \A j \in issued : j \in done \/ JobParked(j) \/ Stranded(j)

\* stop() returns once it has been called (its callers block in join()), also when
\* wakers come early.
StopReturns == mpc = "stopRequested" ~> mpc = "down"

\* A job submitted to a started pool runs to its end or to a wait; a fiber that
\* yields to READY, or a task whose thread exits early, is not starved.
EveryJobRuns ==
    \A j \in Jobs :
        (j \in issued /\ mpc # "new") ~> (j \in done \/ JobParked(j))

\* Both counters that run() keeps without a lock are exact.
CountsExact == ActiveCountExact /\ IdleCountExact

\* No job and no fiber that has work left is lost, run twice or overwritten.
NothingLost == JobHeldOnce /\ NoFiberLost
=============================================================================
