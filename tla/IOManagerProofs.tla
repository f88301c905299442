---------------------------- MODULE IOManagerProofs ----------------------------
(***************************************************************************)
(* Proofs about IOManager, for every pool of threads, every set of tasks and  *)
(* descriptors and every bound on the operations.                            *)
(*                                                                         *)
(* IOInv is the inductive invariant.  CurOK says in which states of run() a   *)
(* thread has a task, HeldExcl is TaskHeldOnce without counting, CountsExact  *)
(* ties the counters stopping() reads to the states of the threads, and       *)
(* ReadinessKept refines NoLostReadiness to single events: what idle() skips  *)
(* is only safe to skip because each event is remembered by itself.          *)
(***************************************************************************)
EXTENDS IOManager, TLAPS, FiniteSetTheorems

RunStates == {"run", "user", "armed", "swapOut", "settle", "tickle", "timeout", "pending",
              "stopping", "epoll", "expired", "events", "exit"}
IdleStates == {"timeout", "pending", "stopping", "epoll", "expired", "events"}
Readiness == Event \cup {"ERR"}

EventType ==
    /\ events \in [Fds -> SUBSET Event]
    /\ ctx \in [Fds -> [Event -> Tasks \cup {NoTask}]]
    /\ inEpoll \subseteq Fds /\ rdl \subseteq inEpoll
    /\ ready \in [Fds -> SUBSET Readiness]

ThreadType ==
    /\ pc \in [Threads -> RunStates] /\ ret \in [Threads -> {"run", "user"}]
    /\ cur \in [Threads -> Tasks \cup {NoTask}]
    /\ noTimer \in [Threads -> BOOLEAN] /\ idleTerm \in [Threads -> BOOLEAN]
    /\ batch \in [Threads -> [Fds -> SUBSET Readiness]]

RestType ==
    /\ queue \subseteq Tasks /\ timers \subseteq Tasks /\ due \subseteq timers
    /\ pipe \in 0 .. PipeCapacity /\ outside \in Nat /\ ops \in 0 .. MaxOps
    /\ m_stopping \in BOOLEAN /\ torn \in BOOLEAN /\ crashed \in BOOLEAN

\* The task of t counts as active; t is in idle().
Active(t) == pc[t] \in {"user", "armed", "swapOut"} \/ (pc[t] = "tickle" /\ ret[t] = "user")
Idle(t) == pc[t] \in IdleStates

\* A thread has a task from TakeTask until it is waited for, requeued or ended.
CurOK == \A t \in Threads : cur[t] # NoTask <=> Active(t) \/ pc[t] = "settle"

\* The task of t is registered, or on its way, but not yet switched out.
Leaving(t) == pc[t] \in {"armed", "swapOut"}

\* Until a task is taken off another thread's stack, no task is in two of: the queue,
\* the timers, the contexts, the threads, but for one that is being switched out.
HeldExcl ==
    ~torn =>
        /\ queue \cap timers = {}
        /\ \A t \in Threads : cur[t] \notin timers
        /\ \A t \in Threads : cur[t] \in queue => Leaving(t)
        /\ \A fd \in Fds, e \in Event : ctx[fd][e] \notin queue \cup timers
        /\ \A t, u \in Threads : cur[t] = cur[u] /\ cur[t] # NoTask => t = u
        /\ \A fd, gd \in Fds : \A e, f \in Event :
              ctx[fd][e] = ctx[gd][f] /\ ctx[fd][e] # NoTask => fd = gd /\ e = f
        /\ \A t \in Threads, fd \in Fds, e \in Event :
              cur[t] = ctx[fd][e] /\ cur[t] # NoTask => Leaving(t)

Registered == {p \in Fds \X Event : p[2] \in events[p[1]]}
ActiveSet == {t \in Threads : Active(t)}
IdleSet == {t \in Threads : Idle(t)}

CountsExact ==
    m_activeThreadCount = Cardinality(ActiveSet) /\ m_idleThreadCount = Cardinality(IdleSet)

\* epoll watches a descriptor only for registered events, and a batch is held
\* only by a thread that has still to handle it.
EpollOK ==
    /\ \A fd \in inEpoll : events[fd] # {}
    /\ \A t \in Threads, fd \in Fds : batch[t][fd] # {} => pc[t] \in {"expired", "events"}

\* Every event that is ready is on epoll's list or in a batch, for itself.
ReadinessKept ==
    \A fd \in inEpoll : \A e \in ready[fd] \cap (events[fd] \cup {"ERR"}) :
        fd \in rdl \/ \E t \in Threads : e \in batch[t][fd]

\* A thread leaves run() only after stop(), and the last one leaves no task.
ExitOK ==
    /\ \A t \in Threads : idleTerm[t] \/ pc[t] = "exit" => m_stopping = TRUE
    /\ NoTaskLeftBehind

IOType == EventType /\ ThreadType /\ RestType
IOInv ==
    /\ IOType /\ CurOK /\ ContextMatchesEvents /\ HeldExcl
    /\ CountsExact /\ PendingExact /\ EpollOK /\ ReadinessKept /\ ExitOK

-----------------------------------------------------------------------------
(* Steps                                                                    *)

\* The steps of Next, with cancelEvent and cancelAll as one.
LEMMA NextCases ==
  ASSUME EventType, [Next]_vars
  PROVE  \/ \E t \in Threads, fd \in Fds, e \in Event :
               WaitEvent(t, fd, e) \/ delEvent(t, fd, e) \/ Drain(t, fd, e)
         \/ \E t \in Threads, fd \in Fds, e \in Event, w \in Tasks : AddEventCb(t, fd, e, w)
         \/ \E t \in Threads, fd \in Fds, es \in SUBSET Event : es \subseteq events[fd] /\ cancelSome(t, fd, es)
         \/ \E t \in Threads, fd \in Fds : 
               CtlError(t, fd) \/ Close(t, fd) \/ TriggerReady(t, fd) \/ SkipEvent(t, fd)
               \/ TriggerAborts(t, fd)
         \/ \E t \in Threads, w \in Tasks : Spawn(t, w) \/ AddTimer(t, w) \/ TakeTask(t, w)
         \/ \E t \in Threads :
               \/ YieldReady(t) \/ YieldToHold(t) \/ SwapOut(t) \/ Finish(t) \/ Requeue(t) \/ tickle(t)
               \/ EnterIdle(t) \/ ExitRun(t)
               \/ LeaveIdle(t) \/ NextTimeout(t) \/ TestPending(t) \/ TestStopping(t)
               \/ EpollWait(t) \/ ScheduleExpired(t)
         \/ \E fd \in Fds, e \in Readiness : FdReady(fd, e)
         \/ \E w \in Tasks : TimerDue(w) \/ Submit(w)
         \/ TickleOutside \/ stop
         \/ UNCHANGED vars
<1>1. ASSUME NEW t \in Threads, NEW fd \in Fds, NEW e \in Event, cancelEvent(t, fd, e)
      PROVE \E es \in SUBSET Event : es \subseteq events[fd] /\ cancelSome(t, fd, es)
  BY <1>1 DEF cancelEvent
<1>2. ASSUME NEW t \in Threads, NEW fd \in Fds, cancelAll(t, fd)
      PROVE \E es \in SUBSET Event : es \subseteq events[fd] /\ cancelSome(t, fd, es)
  BY <1>2 DEF cancelAll, EventType
<1>3. ASSUME NEW t \in Threads, UserStep(t)
      PROVE  \/ \E fd \in Fds, e \in Event : WaitEvent(t, fd, e) \/ delEvent(t, fd, e) \/ Drain(t, fd, e)
             \/ \E fd \in Fds, e \in Event, w \in Tasks : AddEventCb(t, fd, e, w)
             \/ \E fd \in Fds, es \in SUBSET Event : es \subseteq events[fd] /\ cancelSome(t, fd, es)
             \/ \E fd \in Fds : CtlError(t, fd) \/ Close(t, fd)
             \/ \E w \in Tasks : Spawn(t, w) \/ AddTimer(t, w)
             \/ YieldReady(t)
  BY <1>1, <1>2, <1>3, Zenon DEF UserStep
<1>4. QED
  BY <1>3, ZenonT(60) DEF Next, ThreadStep, RunStep, Kernel, Outside, Readiness

\* Descriptors and their events.
LEMMA EventTypeStep == IOInv /\ [Next]_vars => EventType'
<1> SUFFICES ASSUME IOInv, [Next]_vars PROVE EventType'
  OBVIOUS
<1> USE DEF IOInv, IOType, EventType, Readiness, ThreadType, CurOK, Active
<1>1. ASSUME NEW t \in Threads, NEW fd \in Fds, NEW e \in Event, WaitEvent(t, fd, e)
      PROVE EventType'
  BY <1>1 DEF WaitEvent, UserOp, addEvent, epoll_ctl, CtlFails, goto, eventVars, epollVars,
     schedVars, timerVars, localVars
<1>2. ASSUME NEW t \in Threads, NEW fd \in Fds, NEW e \in Event, delEvent(t, fd, e)
      PROVE EventType'
  BY <1>2 DEF delEvent, UserOp, CtlFails, epoll_ctl, resetContext, DecPending, eventVars,
     epollVars, schedVars, timerVars, localVars
<1>3. ASSUME NEW t \in Threads, NEW fd \in Fds, NEW e \in Event, Drain(t, fd, e) PROVE EventType'
  BY <1>3 DEF Drain, eventVars, epollVars, schedVars, timerVars, localVars
<1>4. ASSUME NEW t \in Threads, NEW fd \in Fds, NEW e \in Event, NEW w \in Tasks,
      AddEventCb(t, fd, e, w) PROVE EventType'
  BY <1>4 DEF AddEventCb, UserOp, Unused, addEvent, epoll_ctl, CtlFails, eventVars, epollVars,
     schedVars, timerVars, localVars
<1>5. ASSUME NEW t \in Threads, NEW fd \in Fds, NEW es \in SUBSET Event,
      es \subseteq events[fd], cancelSome(t, fd, es) PROVE EventType'
  BY <1>5 DEF cancelSome, UserOp, CtlFails, epoll_ctl, triggerEvent, resetContext, DecPending,
     thenTickle, goto, eventVars, epollVars, schedVars, timerVars, localVars
<1>6. ASSUME NEW t \in Threads, NEW fd \in Fds, CtlError(t, fd) PROVE EventType'
  BY <1>6 DEF CtlError, UserOp, CtlFails, eventVars, epollVars, schedVars, timerVars, localVars
<1>7. ASSUME NEW t \in Threads, NEW fd \in Fds, Close(t, fd) PROVE EventType'
  BY <1>7 DEF Close, UserOp, eventVars, epollVars, schedVars, timerVars, localVars
<1>8. ASSUME NEW t \in Threads, NEW fd \in Fds, TriggerReady(t, fd) PROVE EventType'
  BY <1>8 DEF TriggerReady, CtlFails, epoll_ctl, triggerEvent, resetContext, DecPending,
     Consumed, eventVars, epollVars, schedVars, timerVars, localVars
<1>9. ASSUME NEW t \in Threads, NEW fd \in Fds, SkipEvent(t, fd) PROVE EventType'
  BY <1>9 DEF SkipEvent, Consumed, eventVars, epollVars, schedVars, timerVars, localVars
<1>10. ASSUME NEW t \in Threads, NEW fd \in Fds, TriggerAborts(t, fd) PROVE EventType'
  BY <1>10 DEF TriggerAborts, eventVars, epollVars, schedVars, timerVars, localVars
<1>11. ASSUME NEW t \in Threads, NEW w \in Tasks, Spawn(t, w) PROVE EventType'
  BY <1>11 DEF Spawn, UserOp, Unused, thenTickle, goto, eventVars, epollVars, schedVars,
     timerVars, localVars
<1>12. ASSUME NEW t \in Threads, NEW w \in Tasks, AddTimer(t, w) PROVE EventType'
  BY <1>12 DEF AddTimer, UserOp, Unused, goto, eventVars, epollVars, schedVars, timerVars,
     localVars
<1>13. ASSUME NEW t \in Threads, NEW w \in Tasks, TakeTask(t, w) PROVE EventType'
  BY <1>13 DEF TakeTask, goto, eventVars, epollVars, schedVars, timerVars, localVars
<1>14. ASSUME NEW t \in Threads, YieldReady(t) PROVE EventType'
  BY <1>14 DEF YieldReady, UserOp, goto, eventVars, epollVars, schedVars, timerVars, localVars
<1>15. ASSUME NEW t \in Threads, Finish(t) PROVE EventType'
  BY <1>15 DEF Finish, goto, eventVars, epollVars, schedVars, timerVars, localVars
<1>16. ASSUME NEW t \in Threads, Requeue(t) PROVE EventType'
  BY <1>16 DEF Requeue, thenTickle, goto, eventVars, epollVars, schedVars, timerVars, localVars
<1>17. ASSUME NEW t \in Threads, tickle(t) PROVE EventType'
  BY <1>17 DEF tickle, TickleWrite, goto, eventVars, epollVars, schedVars, timerVars, localVars
<1>18. ASSUME NEW t \in Threads, EnterIdle(t) PROVE EventType'
  BY <1>18 DEF EnterIdle, NothingToTake, goto, eventVars, epollVars, schedVars, timerVars, localVars
<1>19. ASSUME NEW t \in Threads, ExitRun(t) PROVE EventType'
  BY <1>19 DEF ExitRun, NothingToTake, goto, eventVars, epollVars, schedVars, timerVars, localVars
<1>20. ASSUME NEW t \in Threads, LeaveIdle(t) PROVE EventType'
  BY <1>20 DEF LeaveIdle, goto, eventVars, epollVars, schedVars, timerVars, localVars
<1>21. ASSUME NEW t \in Threads, NextTimeout(t) PROVE EventType'
  BY <1>21 DEF NextTimeout, goto, eventVars, epollVars, schedVars, timerVars, localVars
<1>22. ASSUME NEW t \in Threads, TestPending(t) PROVE EventType'
  BY <1>22 DEF TestPending, goto, eventVars, epollVars, schedVars, timerVars, localVars
<1>23. ASSUME NEW t \in Threads, TestStopping(t) PROVE EventType'
  BY <1>23 DEF TestStopping, goto, eventVars, epollVars, schedVars, timerVars, localVars
<1>24. ASSUME NEW t \in Threads, EpollWait(t) PROVE EventType'
  BY <1>24 DEF EpollWait, goto, eventVars, epollVars, schedVars, timerVars, localVars
<1>25. ASSUME NEW t \in Threads, ScheduleExpired(t) PROVE EventType'
  BY <1>25 DEF ScheduleExpired, goto, eventVars, epollVars, schedVars, timerVars, localVars
<1>26. ASSUME NEW fd \in Fds, NEW e \in Readiness, FdReady(fd, e) PROVE EventType'
  BY <1>26 DEF FdReady, eventVars, epollVars, schedVars, timerVars, localVars
<1>27. ASSUME NEW w \in Tasks, TimerDue(w) PROVE EventType'
  BY <1>27 DEF TimerDue, eventVars, epollVars, schedVars, timerVars, localVars
<1>28. ASSUME NEW w \in Tasks, Submit(w) PROVE EventType'
  BY <1>28 DEF Submit, Unused, eventVars, epollVars, schedVars, timerVars, localVars
<1>29. ASSUME TickleOutside PROVE EventType'
  BY <1>29 DEF TickleOutside, TickleWrite, eventVars, epollVars, schedVars, timerVars, localVars
<1>30. ASSUME stop PROVE EventType'
  BY <1>30 DEF stop, eventVars, epollVars, schedVars, timerVars, localVars
<1>31. ASSUME NEW t \in Threads, YieldToHold(t) PROVE EventType'
  BY <1>31 DEF YieldToHold, goto, eventVars, epollVars, schedVars, timerVars, localVars
<1>32. ASSUME NEW t \in Threads, SwapOut(t) PROVE EventType'
  BY <1>32 DEF SwapOut, goto, eventVars, epollVars, schedVars, timerVars, localVars
<1>33. CASE UNCHANGED vars
  BY <1>33 DEF vars, eventVars, epollVars, schedVars, timerVars, localVars
<1>34. QED
  BY <1>1, <1>2, <1>3, <1>4, <1>5, <1>6, <1>7, <1>8, <1>9, <1>10, <1>11, <1>12, <1>13, <1>14,
     <1>15, <1>16, <1>17, <1>18, <1>19, <1>20, <1>21, <1>22, <1>23, <1>24, <1>25, <1>26, <1>27,
     <1>28, <1>29, <1>30, <1>31, <1>32, <1>33, NextCases DEF IOInv, IOType

\* The local state of the threads.
LEMMA ThreadTypeStep == IOInv /\ [Next]_vars => ThreadType'
<1> SUFFICES ASSUME IOInv, [Next]_vars PROVE ThreadType'
  OBVIOUS
<1> USE DEF IOInv, IOType, EventType, ThreadType, RunStates, Readiness
<1>1. ASSUME NEW t \in Threads, NEW fd \in Fds, NEW e \in Event, WaitEvent(t, fd, e)
      PROVE ThreadType'
  BY <1>1 DEF WaitEvent, UserOp, goto, eventVars, epollVars, schedVars, timerVars, localVars
<1>2. ASSUME NEW t \in Threads, NEW fd \in Fds, NEW e \in Event, delEvent(t, fd, e)
      PROVE ThreadType'
  BY <1>2 DEF delEvent, UserOp, eventVars, epollVars, schedVars, timerVars, localVars
<1>3. ASSUME NEW t \in Threads, NEW fd \in Fds, NEW e \in Event, Drain(t, fd, e) PROVE ThreadType'
  BY <1>3 DEF Drain, eventVars, epollVars, schedVars, timerVars, localVars
<1>4. ASSUME NEW t \in Threads, NEW fd \in Fds, NEW e \in Event, NEW w \in Tasks,
      AddEventCb(t, fd, e, w) PROVE ThreadType'
  BY <1>4 DEF AddEventCb, UserOp, eventVars, epollVars, schedVars, timerVars, localVars
<1>5. ASSUME NEW t \in Threads, NEW fd \in Fds, NEW es \in SUBSET Event,
      es \subseteq events[fd], cancelSome(t, fd, es) PROVE ThreadType'
  BY <1>5 DEF cancelSome, UserOp, thenTickle, goto, eventVars, epollVars, schedVars, timerVars,
     localVars
<1>6. ASSUME NEW t \in Threads, NEW fd \in Fds, CtlError(t, fd) PROVE ThreadType'
  BY <1>6 DEF CtlError, UserOp, eventVars, epollVars, schedVars, timerVars, localVars
<1>7. ASSUME NEW t \in Threads, NEW fd \in Fds, Close(t, fd) PROVE ThreadType'
  BY <1>7 DEF Close, UserOp, eventVars, epollVars, schedVars, timerVars, localVars
<1>8. ASSUME NEW t \in Threads, NEW fd \in Fds, TriggerReady(t, fd) PROVE ThreadType'
  BY <1>8 DEF TriggerReady, Consumed, eventVars, epollVars, schedVars, timerVars, localVars
<1>9. ASSUME NEW t \in Threads, NEW fd \in Fds, SkipEvent(t, fd) PROVE ThreadType'
  BY <1>9 DEF SkipEvent, Consumed, eventVars, epollVars, schedVars, timerVars, localVars
<1>10. ASSUME NEW t \in Threads, NEW fd \in Fds, TriggerAborts(t, fd) PROVE ThreadType'
  BY <1>10 DEF TriggerAborts, eventVars, epollVars, schedVars, timerVars, localVars
<1>11. ASSUME NEW t \in Threads, NEW w \in Tasks, Spawn(t, w) PROVE ThreadType'
  BY <1>11 DEF Spawn, UserOp, thenTickle, goto, eventVars, epollVars, schedVars, timerVars,
     localVars
<1>12. ASSUME NEW t \in Threads, NEW w \in Tasks, AddTimer(t, w) PROVE ThreadType'
  BY <1>12 DEF AddTimer, UserOp, goto, eventVars, epollVars, schedVars, timerVars, localVars
<1>13. ASSUME NEW t \in Threads, NEW w \in Tasks, TakeTask(t, w) PROVE ThreadType'
  BY <1>13 DEF TakeTask, goto, eventVars, epollVars, schedVars, timerVars, localVars
<1>14. ASSUME NEW t \in Threads, YieldReady(t) PROVE ThreadType'
  BY <1>14 DEF YieldReady, UserOp, goto, eventVars, epollVars, schedVars, timerVars, localVars
<1>15. ASSUME NEW t \in Threads, Finish(t) PROVE ThreadType'
  BY <1>15 DEF Finish, goto, eventVars, epollVars, schedVars, timerVars, localVars
<1>16. ASSUME NEW t \in Threads, Requeue(t) PROVE ThreadType'
  BY <1>16 DEF Requeue, thenTickle, goto, eventVars, epollVars, schedVars, timerVars, localVars
<1>17. ASSUME NEW t \in Threads, tickle(t) PROVE ThreadType'
  BY <1>17 DEF tickle, goto, eventVars, epollVars, schedVars, timerVars, localVars
<1>18. ASSUME NEW t \in Threads, EnterIdle(t) PROVE ThreadType'
  BY <1>18 DEF EnterIdle, NothingToTake, goto, eventVars, epollVars, schedVars, timerVars, localVars
<1>19. ASSUME NEW t \in Threads, ExitRun(t) PROVE ThreadType'
  BY <1>19 DEF ExitRun, NothingToTake, goto, eventVars, epollVars, schedVars, timerVars, localVars
<1>20. ASSUME NEW t \in Threads, LeaveIdle(t) PROVE ThreadType'
  BY <1>20 DEF LeaveIdle, goto, eventVars, epollVars, schedVars, timerVars, localVars
<1>21. ASSUME NEW t \in Threads, NextTimeout(t) PROVE ThreadType'
  BY <1>21 DEF NextTimeout, goto, eventVars, epollVars, schedVars, timerVars, localVars
<1>22. ASSUME NEW t \in Threads, TestPending(t) PROVE ThreadType'
  BY <1>22 DEF TestPending, goto, eventVars, epollVars, schedVars, timerVars, localVars
<1>23. ASSUME NEW t \in Threads, TestStopping(t) PROVE ThreadType'
  BY <1>23 DEF TestStopping, goto, eventVars, epollVars, schedVars, timerVars, localVars
<1>24. ASSUME NEW t \in Threads, EpollWait(t) PROVE ThreadType'
  BY <1>24 DEF EpollWait, goto, eventVars, epollVars, schedVars, timerVars, localVars
<1>25. ASSUME NEW t \in Threads, ScheduleExpired(t) PROVE ThreadType'
  BY <1>25 DEF ScheduleExpired, goto, eventVars, epollVars, schedVars, timerVars, localVars
<1>26. ASSUME NEW fd \in Fds, NEW e \in Readiness, FdReady(fd, e) PROVE ThreadType'
  BY <1>26 DEF FdReady, eventVars, epollVars, schedVars, timerVars, localVars
<1>27. ASSUME NEW w \in Tasks, TimerDue(w) PROVE ThreadType'
  BY <1>27 DEF TimerDue, eventVars, epollVars, schedVars, timerVars, localVars
<1>28. ASSUME NEW w \in Tasks, Submit(w) PROVE ThreadType'
  BY <1>28 DEF Submit, eventVars, epollVars, schedVars, timerVars, localVars
<1>29. ASSUME TickleOutside PROVE ThreadType'
  BY <1>29 DEF TickleOutside, eventVars, epollVars, schedVars, timerVars, localVars
<1>30. ASSUME stop PROVE ThreadType'
  BY <1>30 DEF stop, eventVars, epollVars, schedVars, timerVars, localVars
<1>31. ASSUME NEW t \in Threads, YieldToHold(t) PROVE ThreadType'
  BY <1>31 DEF YieldToHold, goto, eventVars, epollVars, schedVars, timerVars, localVars
<1>32. ASSUME NEW t \in Threads, SwapOut(t) PROVE ThreadType'
  BY <1>32 DEF SwapOut, goto, eventVars, epollVars, schedVars, timerVars, localVars
<1>33. CASE UNCHANGED vars
  BY <1>33 DEF vars, eventVars, epollVars, schedVars, timerVars, localVars
<1>34. QED
  BY <1>1, <1>2, <1>3, <1>4, <1>5, <1>6, <1>7, <1>8, <1>9, <1>10, <1>11, <1>12, <1>13, <1>14,
     <1>15, <1>16, <1>17, <1>18, <1>19, <1>20, <1>21, <1>22, <1>23, <1>24, <1>25, <1>26, <1>27,
     <1>28, <1>29, <1>30, <1>31, <1>32, <1>33, NextCases DEF IOInv, IOType

\* Queue, timers and the rest.
LEMMA RestTypeStep == IOInv /\ [Next]_vars => RestType'
<1> SUFFICES ASSUME IOInv, [Next]_vars PROVE RestType'
  OBVIOUS
<1> USE PoolAssumption DEF IOInv, IOType, RestType, EventType, ThreadType, CurOK, Active,
      ContextMatchesEvents
<1>1. ASSUME NEW t \in Threads, NEW fd \in Fds, NEW e \in Event, WaitEvent(t, fd, e)
      PROVE RestType'
  BY <1>1 DEF WaitEvent, UserOp, goto, eventVars, epollVars, schedVars, timerVars, localVars
<1>2. ASSUME NEW t \in Threads, NEW fd \in Fds, NEW e \in Event, delEvent(t, fd, e)
      PROVE RestType'
  BY <1>2 DEF delEvent, UserOp, eventVars, epollVars, schedVars, timerVars, localVars
<1>3. ASSUME NEW t \in Threads, NEW fd \in Fds, NEW e \in Event, Drain(t, fd, e) PROVE RestType'
  BY <1>3 DEF Drain, eventVars, epollVars, schedVars, timerVars, localVars
<1>4. ASSUME NEW t \in Threads, NEW fd \in Fds, NEW e \in Event, NEW w \in Tasks,
      AddEventCb(t, fd, e, w) PROVE RestType'
  BY <1>4 DEF AddEventCb, UserOp, eventVars, epollVars, schedVars, timerVars, localVars
<1>5. ASSUME NEW t \in Threads, NEW fd \in Fds, NEW es \in SUBSET Event,
      es \subseteq events[fd], cancelSome(t, fd, es) PROVE RestType'
  BY <1>5 DEF cancelSome, UserOp, triggerEvent, goto, eventVars, epollVars, schedVars, timerVars,
     localVars
<1>6. ASSUME NEW t \in Threads, NEW fd \in Fds, CtlError(t, fd) PROVE RestType'
  BY <1>6 DEF CtlError, UserOp, eventVars, epollVars, schedVars, timerVars, localVars
<1>7. ASSUME NEW t \in Threads, NEW fd \in Fds, Close(t, fd) PROVE RestType'
  BY <1>7 DEF Close, UserOp, eventVars, epollVars, schedVars, timerVars, localVars
<1>8. ASSUME NEW t \in Threads, NEW fd \in Fds, TriggerReady(t, fd) PROVE RestType'
  BY <1>8 DEF TriggerReady, triggerEvent, Consumed, eventVars, epollVars, schedVars, timerVars,
     localVars
<1>9. ASSUME NEW t \in Threads, NEW fd \in Fds, SkipEvent(t, fd) PROVE RestType'
  BY <1>9 DEF SkipEvent, Consumed, eventVars, epollVars, schedVars, timerVars, localVars
<1>10. ASSUME NEW t \in Threads, NEW fd \in Fds, TriggerAborts(t, fd) PROVE RestType'
  BY <1>10 DEF TriggerAborts, eventVars, epollVars, schedVars, timerVars, localVars
<1>11. ASSUME NEW t \in Threads, NEW w \in Tasks, Spawn(t, w) PROVE RestType'
  BY <1>11 DEF Spawn, UserOp, goto, eventVars, epollVars, schedVars, timerVars, localVars
<1>12. ASSUME NEW t \in Threads, NEW w \in Tasks, AddTimer(t, w) PROVE RestType'
  BY <1>12 DEF AddTimer, UserOp, goto, eventVars, epollVars, schedVars, timerVars, localVars
<1>13. ASSUME NEW t \in Threads, NEW w \in Tasks, TakeTask(t, w) PROVE RestType'
  BY <1>13 DEF TakeTask, goto, eventVars, epollVars, schedVars, timerVars, localVars
<1>14. ASSUME NEW t \in Threads, YieldReady(t) PROVE RestType'
  BY <1>14 DEF YieldReady, UserOp, goto, eventVars, epollVars, schedVars, timerVars, localVars
<1>15. ASSUME NEW t \in Threads, Finish(t) PROVE RestType'
  BY <1>15 DEF Finish, goto, eventVars, epollVars, schedVars, timerVars, localVars
<1>16. ASSUME NEW t \in Threads, Requeue(t) PROVE RestType'
  BY <1>16 DEF Requeue, goto, eventVars, epollVars, schedVars, timerVars, localVars
<1>17. ASSUME NEW t \in Threads, tickle(t) PROVE RestType'
  BY <1>17 DEF tickle, TickleWrite, goto, eventVars, epollVars, schedVars, timerVars, localVars
<1>18. ASSUME NEW t \in Threads, EnterIdle(t) PROVE RestType'
  BY <1>18 DEF EnterIdle, NothingToTake, goto, eventVars, epollVars, schedVars, timerVars, localVars
<1>19. ASSUME NEW t \in Threads, ExitRun(t) PROVE RestType'
  BY <1>19 DEF ExitRun, NothingToTake, goto, eventVars, epollVars, schedVars, timerVars, localVars
<1>20. ASSUME NEW t \in Threads, LeaveIdle(t) PROVE RestType'
  BY <1>20 DEF LeaveIdle, goto, eventVars, epollVars, schedVars, timerVars, localVars
<1>21. ASSUME NEW t \in Threads, NextTimeout(t) PROVE RestType'
  BY <1>21 DEF NextTimeout, goto, eventVars, epollVars, schedVars, timerVars, localVars
<1>22. ASSUME NEW t \in Threads, TestPending(t) PROVE RestType'
  BY <1>22 DEF TestPending, goto, eventVars, epollVars, schedVars, timerVars, localVars
<1>23. ASSUME NEW t \in Threads, TestStopping(t) PROVE RestType'
  BY <1>23 DEF TestStopping, goto, eventVars, epollVars, schedVars, timerVars, localVars
<1>24. ASSUME NEW t \in Threads, EpollWait(t) PROVE RestType'
  BY <1>24 DEF EpollWait, goto, eventVars, epollVars, schedVars, timerVars, localVars
<1>25. ASSUME NEW t \in Threads, ScheduleExpired(t) PROVE RestType'
  BY <1>25 DEF ScheduleExpired, goto, eventVars, epollVars, schedVars, timerVars, localVars
<1>26. ASSUME NEW fd \in Fds, NEW e \in Readiness, FdReady(fd, e) PROVE RestType'
  BY <1>26 DEF FdReady, eventVars, epollVars, schedVars, timerVars, localVars
<1>27. ASSUME NEW w \in Tasks, TimerDue(w) PROVE RestType'
  BY <1>27 DEF TimerDue, eventVars, epollVars, schedVars, timerVars, localVars
<1>28. ASSUME NEW w \in Tasks, Submit(w) PROVE RestType'
  BY <1>28 DEF Submit, eventVars, epollVars, schedVars, timerVars, localVars
<1>29. ASSUME TickleOutside PROVE RestType'
  BY <1>29 DEF TickleOutside, TickleWrite, eventVars, epollVars, schedVars, timerVars, localVars
<1>30. ASSUME stop PROVE RestType'
  BY <1>30, FS_CardinalityType DEF stop, eventVars, epollVars, schedVars, timerVars, localVars
<1>31. ASSUME NEW t \in Threads, YieldToHold(t) PROVE RestType'
  BY <1>31 DEF YieldToHold, goto, eventVars, epollVars, schedVars, timerVars, localVars
<1>32. ASSUME NEW t \in Threads, SwapOut(t) PROVE RestType'
  BY <1>32 DEF SwapOut, goto, eventVars, epollVars, schedVars, timerVars, localVars
<1>33. CASE UNCHANGED vars
  BY <1>33 DEF vars, eventVars, epollVars, schedVars, timerVars, localVars
<1>34. QED
  BY <1>1, <1>2, <1>3, <1>4, <1>5, <1>6, <1>7, <1>8, <1>9, <1>10, <1>11, <1>12, <1>13, <1>14,
     <1>15, <1>16, <1>17, <1>18, <1>19, <1>20, <1>21, <1>22, <1>23, <1>24, <1>25, <1>26, <1>27,
     <1>28, <1>29, <1>30, <1>31, <1>32, <1>33, NextCases DEF IOInv, IOType

\* A thread has a task exactly in the states CurOK names.
LEMMA CurStep == IOInv /\ [Next]_vars => CurOK'
<1> SUFFICES ASSUME IOInv, [Next]_vars PROVE CurOK'
  OBVIOUS
<1> USE PoolAssumption DEF IOInv, IOType, ThreadType, RestType, RunStates, CurOK, Active
<1>1. ASSUME NEW t \in Threads, NEW fd \in Fds, NEW e \in Event, WaitEvent(t, fd, e) PROVE CurOK'
  BY <1>1 DEF WaitEvent, UserOp, goto, eventVars, epollVars, schedVars, timerVars, localVars
<1>2. ASSUME NEW t \in Threads, NEW fd \in Fds, NEW e \in Event, delEvent(t, fd, e) PROVE CurOK'
  BY <1>2 DEF delEvent, UserOp, eventVars, epollVars, schedVars, timerVars, localVars
<1>3. ASSUME NEW t \in Threads, NEW fd \in Fds, NEW e \in Event, Drain(t, fd, e) PROVE CurOK'
  BY <1>3 DEF Drain, eventVars, epollVars, schedVars, timerVars, localVars
<1>4. ASSUME NEW t \in Threads, NEW fd \in Fds, NEW e \in Event, NEW w \in Tasks,
      AddEventCb(t, fd, e, w) PROVE CurOK'
  BY <1>4 DEF AddEventCb, UserOp, eventVars, epollVars, schedVars, timerVars, localVars
<1>5. ASSUME NEW t \in Threads, NEW fd \in Fds, NEW es \in SUBSET Event,
      es \subseteq events[fd], cancelSome(t, fd, es) PROVE CurOK'
  BY <1>5 DEF cancelSome, UserOp, thenTickle, goto, eventVars, epollVars, schedVars, timerVars,
     localVars
<1>6. ASSUME NEW t \in Threads, NEW fd \in Fds, CtlError(t, fd) PROVE CurOK'
  BY <1>6 DEF CtlError, UserOp, eventVars, epollVars, schedVars, timerVars, localVars
<1>7. ASSUME NEW t \in Threads, NEW fd \in Fds, Close(t, fd) PROVE CurOK'
  BY <1>7 DEF Close, UserOp, eventVars, epollVars, schedVars, timerVars, localVars
<1>8. ASSUME NEW t \in Threads, NEW fd \in Fds, TriggerReady(t, fd) PROVE CurOK'
  BY <1>8 DEF TriggerReady, Consumed, eventVars, epollVars, schedVars, timerVars, localVars
<1>9. ASSUME NEW t \in Threads, NEW fd \in Fds, SkipEvent(t, fd) PROVE CurOK'
  BY <1>9 DEF SkipEvent, Consumed, eventVars, epollVars, schedVars, timerVars, localVars
<1>10. ASSUME NEW t \in Threads, NEW fd \in Fds, TriggerAborts(t, fd) PROVE CurOK'
  BY <1>10 DEF TriggerAborts, eventVars, epollVars, schedVars, timerVars, localVars
<1>11. ASSUME NEW t \in Threads, NEW w \in Tasks, Spawn(t, w) PROVE CurOK'
  BY <1>11 DEF Spawn, UserOp, thenTickle, goto, eventVars, epollVars, schedVars, timerVars,
     localVars
<1>12. ASSUME NEW t \in Threads, NEW w \in Tasks, AddTimer(t, w) PROVE CurOK'
  BY <1>12 DEF AddTimer, UserOp, goto, eventVars, epollVars, schedVars, timerVars, localVars
<1>13. ASSUME NEW t \in Threads, NEW w \in Tasks, TakeTask(t, w) PROVE CurOK'
  BY <1>13 DEF TakeTask, goto, eventVars, epollVars, schedVars, timerVars, localVars
<1>14. ASSUME NEW t \in Threads, YieldReady(t) PROVE CurOK'
  BY <1>14 DEF YieldReady, UserOp, goto, eventVars, epollVars, schedVars, timerVars, localVars
<1>15. ASSUME NEW t \in Threads, Finish(t) PROVE CurOK'
  BY <1>15 DEF Finish, goto, eventVars, epollVars, schedVars, timerVars, localVars
<1>16. ASSUME NEW t \in Threads, Requeue(t) PROVE CurOK'
  BY <1>16 DEF Requeue, thenTickle, goto, eventVars, epollVars, schedVars, timerVars, localVars
<1>17. ASSUME NEW t \in Threads, tickle(t) PROVE CurOK'
  BY <1>17 DEF tickle, goto, eventVars, epollVars, schedVars, timerVars, localVars
<1>18. ASSUME NEW t \in Threads, EnterIdle(t) PROVE CurOK'
  BY <1>18 DEF EnterIdle, NothingToTake, goto, eventVars, epollVars, schedVars, timerVars, localVars
<1>19. ASSUME NEW t \in Threads, ExitRun(t) PROVE CurOK'
  BY <1>19 DEF ExitRun, NothingToTake, goto, eventVars, epollVars, schedVars, timerVars, localVars
<1>20. ASSUME NEW t \in Threads, LeaveIdle(t) PROVE CurOK'
  BY <1>20 DEF LeaveIdle, goto, eventVars, epollVars, schedVars, timerVars, localVars
<1>21. ASSUME NEW t \in Threads, NextTimeout(t) PROVE CurOK'
  BY <1>21 DEF NextTimeout, goto, eventVars, epollVars, schedVars, timerVars, localVars
<1>22. ASSUME NEW t \in Threads, TestPending(t) PROVE CurOK'
  BY <1>22 DEF TestPending, goto, eventVars, epollVars, schedVars, timerVars, localVars
<1>23. ASSUME NEW t \in Threads, TestStopping(t) PROVE CurOK'
  BY <1>23 DEF TestStopping, goto, eventVars, epollVars, schedVars, timerVars, localVars
<1>24. ASSUME NEW t \in Threads, EpollWait(t) PROVE CurOK'
  BY <1>24 DEF EpollWait, goto, eventVars, epollVars, schedVars, timerVars, localVars
<1>25. ASSUME NEW t \in Threads, ScheduleExpired(t) PROVE CurOK'
  BY <1>25 DEF ScheduleExpired, goto, eventVars, epollVars, schedVars, timerVars, localVars
<1>26. ASSUME NEW fd \in Fds, NEW e \in Readiness, FdReady(fd, e) PROVE CurOK'
  BY <1>26 DEF FdReady, eventVars, epollVars, schedVars, timerVars, localVars
<1>27. ASSUME NEW w \in Tasks, TimerDue(w) PROVE CurOK'
  BY <1>27 DEF TimerDue, eventVars, epollVars, schedVars, timerVars, localVars
<1>28. ASSUME NEW w \in Tasks, Submit(w) PROVE CurOK'
  BY <1>28 DEF Submit, eventVars, epollVars, schedVars, timerVars, localVars
<1>29. ASSUME TickleOutside PROVE CurOK'
  BY <1>29 DEF TickleOutside, eventVars, epollVars, schedVars, timerVars, localVars
<1>30. ASSUME stop PROVE CurOK'
  BY <1>30 DEF stop, eventVars, epollVars, schedVars, timerVars, localVars
<1>31. ASSUME NEW t \in Threads, YieldToHold(t) PROVE CurOK'
  BY <1>31 DEF YieldToHold, goto, eventVars, epollVars, schedVars, timerVars, localVars
<1>32. ASSUME NEW t \in Threads, SwapOut(t) PROVE CurOK'
  BY <1>32 DEF SwapOut, goto, eventVars, epollVars, schedVars, timerVars, localVars
<1>33. CASE UNCHANGED vars
  BY <1>33 DEF vars, eventVars, epollVars, schedVars, timerVars, localVars
<1>34. QED
  BY <1>1, <1>2, <1>3, <1>4, <1>5, <1>6, <1>7, <1>8, <1>9, <1>10, <1>11, <1>12, <1>13, <1>14,
     <1>15, <1>16, <1>17, <1>18, <1>19, <1>20, <1>21, <1>22, <1>23, <1>24, <1>25, <1>26, <1>27,
     <1>28, <1>29, <1>30, <1>31, <1>32, <1>33, NextCases DEF IOInv, IOType

\* An event bit and its context change together.
LEMMA ContextStep == IOInv /\ [Next]_vars => ContextMatchesEvents'
<1> SUFFICES ASSUME IOInv, [Next]_vars PROVE ContextMatchesEvents'
  OBVIOUS
<1> USE PoolAssumption DEF IOInv, IOType, EventType, ThreadType, CurOK, Active,
      ContextMatchesEvents
<1>1. ASSUME NEW t \in Threads, NEW fd \in Fds, NEW e \in Event, WaitEvent(t, fd, e)
      PROVE ContextMatchesEvents'
  BY <1>1 DEF WaitEvent, UserOp, addEvent, goto, eventVars, epollVars, schedVars, timerVars,
     localVars
<1>2. ASSUME NEW t \in Threads, NEW fd \in Fds, NEW e \in Event, delEvent(t, fd, e)
      PROVE ContextMatchesEvents'
  BY <1>2 DEF delEvent, UserOp, resetContext, eventVars, epollVars, schedVars, timerVars,
     localVars
<1>3. ASSUME NEW t \in Threads, NEW fd \in Fds, NEW e \in Event, Drain(t, fd, e)
      PROVE ContextMatchesEvents'
  BY <1>3 DEF Drain, eventVars, epollVars, schedVars, timerVars, localVars
<1>4. ASSUME NEW t \in Threads, NEW fd \in Fds, NEW e \in Event, NEW w \in Tasks,
      AddEventCb(t, fd, e, w) PROVE ContextMatchesEvents'
  BY <1>4 DEF AddEventCb, UserOp, addEvent, eventVars, epollVars, schedVars, timerVars, localVars
<1>5. ASSUME NEW t \in Threads, NEW fd \in Fds, NEW es \in SUBSET Event,
      es \subseteq events[fd], cancelSome(t, fd, es) PROVE ContextMatchesEvents'
  BY <1>5 DEF cancelSome, UserOp, triggerEvent, resetContext, goto, eventVars, epollVars,
     schedVars, timerVars, localVars
<1>6. ASSUME NEW t \in Threads, NEW fd \in Fds, CtlError(t, fd) PROVE ContextMatchesEvents'
  BY <1>6 DEF CtlError, UserOp, eventVars, epollVars, schedVars, timerVars, localVars
<1>7. ASSUME NEW t \in Threads, NEW fd \in Fds, Close(t, fd) PROVE ContextMatchesEvents'
  BY <1>7 DEF Close, UserOp, eventVars, epollVars, schedVars, timerVars, localVars
<1>8. ASSUME NEW t \in Threads, NEW fd \in Fds, TriggerReady(t, fd) PROVE ContextMatchesEvents'
  BY <1>8 DEF TriggerReady, triggerEvent, resetContext, Consumed, eventVars, epollVars,
     schedVars, timerVars, localVars
<1>9. ASSUME NEW t \in Threads, NEW fd \in Fds, SkipEvent(t, fd) PROVE ContextMatchesEvents'
  BY <1>9 DEF SkipEvent, Consumed, eventVars, epollVars, schedVars, timerVars, localVars
<1>10. ASSUME NEW t \in Threads, NEW fd \in Fds, TriggerAborts(t, fd) PROVE ContextMatchesEvents'
  BY <1>10 DEF TriggerAborts, eventVars, epollVars, schedVars, timerVars, localVars
<1>11. ASSUME NEW t \in Threads, NEW w \in Tasks, Spawn(t, w) PROVE ContextMatchesEvents'
  BY <1>11 DEF Spawn, UserOp, goto, eventVars, epollVars, schedVars, timerVars, localVars
<1>12. ASSUME NEW t \in Threads, NEW w \in Tasks, AddTimer(t, w) PROVE ContextMatchesEvents'
  BY <1>12 DEF AddTimer, UserOp, goto, eventVars, epollVars, schedVars, timerVars, localVars
<1>13. ASSUME NEW t \in Threads, NEW w \in Tasks, TakeTask(t, w) PROVE ContextMatchesEvents'
  BY <1>13 DEF TakeTask, goto, eventVars, epollVars, schedVars, timerVars, localVars
<1>14. ASSUME NEW t \in Threads, YieldReady(t) PROVE ContextMatchesEvents'
  BY <1>14 DEF YieldReady, UserOp, goto, eventVars, epollVars, schedVars, timerVars, localVars
<1>15. ASSUME NEW t \in Threads, Finish(t) PROVE ContextMatchesEvents'
  BY <1>15 DEF Finish, goto, eventVars, epollVars, schedVars, timerVars, localVars
<1>16. ASSUME NEW t \in Threads, Requeue(t) PROVE ContextMatchesEvents'
  BY <1>16 DEF Requeue, goto, eventVars, epollVars, schedVars, timerVars, localVars
<1>17. ASSUME NEW t \in Threads, tickle(t) PROVE ContextMatchesEvents'
  BY <1>17 DEF tickle, goto, eventVars, epollVars, schedVars, timerVars, localVars
<1>18. ASSUME NEW t \in Threads, EnterIdle(t) PROVE ContextMatchesEvents'
  BY <1>18 DEF EnterIdle, NothingToTake, goto, eventVars, epollVars, schedVars, timerVars, localVars
<1>19. ASSUME NEW t \in Threads, ExitRun(t) PROVE ContextMatchesEvents'
  BY <1>19 DEF ExitRun, NothingToTake, goto, eventVars, epollVars, schedVars, timerVars, localVars
<1>20. ASSUME NEW t \in Threads, LeaveIdle(t) PROVE ContextMatchesEvents'
  BY <1>20 DEF LeaveIdle, goto, eventVars, epollVars, schedVars, timerVars, localVars
<1>21. ASSUME NEW t \in Threads, NextTimeout(t) PROVE ContextMatchesEvents'
  BY <1>21 DEF NextTimeout, goto, eventVars, epollVars, schedVars, timerVars, localVars
<1>22. ASSUME NEW t \in Threads, TestPending(t) PROVE ContextMatchesEvents'
  BY <1>22 DEF TestPending, goto, eventVars, epollVars, schedVars, timerVars, localVars
<1>23. ASSUME NEW t \in Threads, TestStopping(t) PROVE ContextMatchesEvents'
  BY <1>23 DEF TestStopping, goto, eventVars, epollVars, schedVars, timerVars, localVars
<1>24. ASSUME NEW t \in Threads, EpollWait(t) PROVE ContextMatchesEvents'
  BY <1>24 DEF EpollWait, goto, eventVars, epollVars, schedVars, timerVars, localVars
<1>25. ASSUME NEW t \in Threads, ScheduleExpired(t) PROVE ContextMatchesEvents'
  BY <1>25 DEF ScheduleExpired, goto, eventVars, epollVars, schedVars, timerVars, localVars
<1>26. ASSUME NEW fd \in Fds, NEW e \in Readiness, FdReady(fd, e) PROVE ContextMatchesEvents'
  BY <1>26 DEF FdReady, eventVars, epollVars, schedVars, timerVars, localVars
<1>27. ASSUME NEW w \in Tasks, TimerDue(w) PROVE ContextMatchesEvents'
  BY <1>27 DEF TimerDue, eventVars, epollVars, schedVars, timerVars, localVars
<1>28. ASSUME NEW w \in Tasks, Submit(w) PROVE ContextMatchesEvents'
  BY <1>28 DEF Submit, eventVars, epollVars, schedVars, timerVars, localVars
<1>29. ASSUME TickleOutside PROVE ContextMatchesEvents'
  BY <1>29 DEF TickleOutside, eventVars, epollVars, schedVars, timerVars, localVars
<1>30. ASSUME stop PROVE ContextMatchesEvents'
  BY <1>30 DEF stop, eventVars, epollVars, schedVars, timerVars, localVars
<1>31. ASSUME NEW t \in Threads, YieldToHold(t) PROVE ContextMatchesEvents'
  BY <1>31 DEF YieldToHold, goto, eventVars, epollVars, schedVars, timerVars, localVars
<1>32. ASSUME NEW t \in Threads, SwapOut(t) PROVE ContextMatchesEvents'
  BY <1>32 DEF SwapOut, goto, eventVars, epollVars, schedVars, timerVars, localVars
<1>33. CASE UNCHANGED vars
  BY <1>33 DEF vars, eventVars, epollVars, schedVars, timerVars, localVars
<1>34. QED
  BY <1>1, <1>2, <1>3, <1>4, <1>5, <1>6, <1>7, <1>8, <1>9, <1>10, <1>11, <1>12, <1>13, <1>14,
     <1>15, <1>16, <1>17, <1>18, <1>19, <1>20, <1>21, <1>22, <1>23, <1>24, <1>25, <1>26, <1>27,
     <1>28, <1>29, <1>30, <1>31, <1>32, <1>33, NextCases DEF IOInv, IOType

\* What resetContext leaves of the contexts.
LEMMA ResetContextIs ==
  ASSUME EventType, NEW fd \in Fds, NEW es \in SUBSET Event, resetContext(fd, es)
  PROVE  \A gd \in Fds, f \in Event :
            ctx'[gd][f] = IF gd = fd /\ f \in es THEN NoTask ELSE ctx[gd][f]
BY DEF EventType, resetContext

\* triggerEvent moves tasks from the contexts to the queue.
LEMMA TriggerHeld ==
  ASSUME IOInv, NEW fd \in Fds, NEW es \in SUBSET Event, es \subseteq events[fd],
         triggerEvent(fd, es), UNCHANGED <<timers, cur, torn>>,
         \A t \in Threads : Leaving(t) => Leaving(t)'
  PROVE  HeldExcl'
<1> SUFFICES ASSUME ~torn PROVE HeldExcl'
  BY DEF HeldExcl
<1> USE PoolAssumption
<1>1. \A gd \in Fds, f \in Event :
            ctx'[gd][f] = IF gd = fd /\ f \in es THEN NoTask ELSE ctx[gd][f]
  BY ResetContextIs DEF IOInv, IOType, triggerEvent
<1>2. queue' = queue \cup {ctx[fd][e] : e \in es}
  BY DEF triggerEvent
<1>3. \A e \in es : ctx[fd][e] # NoTask /\ ctx[fd][e] \in Tasks
  BY DEF IOInv, IOType, EventType, ContextMatchesEvents
<1>4. NoTask \notin queue /\ NoTask \notin timers
  BY DEF IOInv, IOType, RestType
<1>5. (queue \cap timers = {})'
  BY <1>2 DEF IOInv, HeldExcl
<1>6. \A t \in Threads : cur'[t] \notin timers'
  BY DEF IOInv, HeldExcl
<1>7. ASSUME NEW t \in Threads, cur'[t] \in queue' PROVE Leaving(t)'
  <2>1. Leaving(t)
    BY <1>2, <1>3, <1>7 DEF IOInv, HeldExcl
  <2>2. QED  BY <2>1
<1>8. ASSUME NEW gd \in Fds, NEW f \in Event PROVE ctx'[gd][f] \notin queue' \cup timers'
  <2>1. CASE gd = fd /\ f \in es
    BY <1>1, <1>2, <1>3, <1>4, <2>1
  <2>2. CASE ~(gd = fd /\ f \in es)
    <3>1. ctx'[gd][f] = ctx[gd][f]
      BY <1>1, <2>2
    <3>2. \A e \in es : ctx[fd][e] # ctx[gd][f]
      BY <1>3, <2>2 DEF IOInv, HeldExcl
    <3>3. QED  BY <1>2, <3>1, <3>2 DEF IOInv, HeldExcl
  <2>3. QED  BY <2>1, <2>2
<1>9. \A gd, hd \in Fds : \A e, f \in Event :
          ctx'[gd][e] = ctx'[hd][f] /\ ctx'[gd][e] # NoTask => gd = hd /\ e = f
  BY <1>1 DEF IOInv, HeldExcl
<1>10. ASSUME NEW t \in Threads, NEW gd \in Fds, NEW e \in Event,
              cur'[t] = ctx'[gd][e], cur'[t] # NoTask
       PROVE  Leaving(t)'
  <2>1. cur[t] = ctx[gd][e]
    BY <1>1, <1>10
  <2>2. QED  BY <1>10, <2>1 DEF IOInv, HeldExcl
<1>11. \A t, u \in Threads : cur'[t] = cur'[u] /\ cur'[t] # NoTask => t = u
  BY DEF IOInv, HeldExcl
<1>12. QED  BY <1>5, <1>6, <1>7, <1>8, <1>9, <1>10, <1>11 DEF HeldExcl

\* A task that executes and is not being switched out waits nowhere.
LEMMA ExecutingHeld ==
  ASSUME HeldExcl, ~torn, NEW t \in Threads, cur[t] # NoTask, ~Leaving(t)
  PROVE  cur[t] \notin queue \cup timers /\ \A fd \in Fds, e \in Event : ctx[fd][e] # cur[t]
BY DEF HeldExcl

\* A task is registered for one event.
LEMMA RegisteredOnce ==
  ASSUME HeldExcl, ~torn, NEW fd \in Fds, NEW gd \in Fds, NEW e \in Event, NEW f \in Event,
         ctx[fd][e] = ctx[gd][f], ctx[fd][e] # NoTask
  PROVE  fd = gd /\ e = f
BY DEF HeldExcl

\* A task is handed from one holder to the next.
LEMMA HeldStep == IOInv /\ [Next]_vars => HeldExcl'
<1> SUFFICES ASSUME IOInv, [Next]_vars PROVE HeldExcl'
  OBVIOUS
<1> USE PoolAssumption DEF IOInv, IOType, EventType, ThreadType, RestType, CurOK, Active,
      ContextMatchesEvents, HeldExcl, Leaving, goto, thenTickle
<1>1. ASSUME NEW t \in Threads, NEW fd \in Fds, NEW e \in Event, WaitEvent(t, fd, e)
      PROVE HeldExcl'
  <2> SUFFICES ASSUME ~torn PROVE HeldExcl'
    BY <1>1 DEF WaitEvent
  <2>1. pc[t] = "user" /\ cur[t] # NoTask /\ UNCHANGED <<queue, timers, cur, torn>>
    BY <1>1 DEF WaitEvent, UserOp, schedVars, timerVars, localVars
  <2>2. \A gd \in Fds, f \in Event :
            ctx'[gd][f] = IF gd = fd /\ f = e THEN cur[t] ELSE ctx[gd][f]
    BY <1>1 DEF WaitEvent, addEvent
  <2>3. \A u \in Threads : Leaving(u)' <=> u = t \/ Leaving(u)
    BY <1>1 DEF WaitEvent
  <2>4. /\ cur[t] \notin queue \cup timers
        /\ \A gd \in Fds, f \in Event : ctx[gd][f] # cur[t]
        /\ \A gd \in Fds, f \in Event : ctx[gd][f] \notin queue \cup timers
        /\ \A gd, hd \in Fds : \A f, g \in Event :
              ctx[gd][f] = ctx[hd][g] /\ ctx[gd][f] # NoTask => gd = hd /\ f = g
    <3>1. ~Leaving(t)
      BY <2>1
    <3>2. QED  BY <2>1, <3>1, ExecutingHeld
  <2>5. ASSUME NEW gd \in Fds, NEW f \in Event PROVE ctx'[gd][f] \notin queue' \cup timers'
    <3>1. ctx'[gd][f] \in {cur[t], ctx[gd][f]}
      BY <2>2
    <3>2. QED  BY <2>1, <2>4, <3>1
  <2>6. ASSUME NEW gd \in Fds, NEW hd \in Fds, NEW f \in Event, NEW g \in Event,
               ctx'[gd][f] = ctx'[hd][g], ctx'[gd][f] # NoTask
        PROVE  gd = hd /\ f = g
    <3>1. CASE gd = fd /\ f = e
      <4>1. ctx'[gd][f] = cur[t]
        BY <2>2, <3>1
      <4>2. ~(hd = fd /\ g = e) => ctx'[hd][g] = ctx[hd][g] /\ ctx[hd][g] # cur[t]
        BY <2>2, <2>4
      <4>3. QED  BY <2>6, <3>1, <4>1, <4>2
    <3>2. CASE ~(gd = fd /\ f = e)
      <4>1. ctx'[gd][f] = ctx[gd][f] /\ ctx[gd][f] # cur[t]
        BY <2>2, <2>4, <3>2
      <4>2. ctx'[hd][g] = ctx[hd][g]
        BY <2>2, <2>6, <4>1
      <4>3. ctx[gd][f] = ctx[hd][g] /\ ctx[gd][f] # NoTask
        BY <2>6, <4>1, <4>2
      <4>4. QED  BY <4>3, RegisteredOnce
    <3>3. QED  BY <3>1, <3>2
  <2>7. \A u \in Threads, gd \in Fds, f \in Event :
            cur'[u] = ctx'[gd][f] /\ cur'[u] # NoTask => Leaving(u)'
    <3> SUFFICES ASSUME NEW u \in Threads, NEW gd \in Fds, NEW f \in Event, u # t,
                        cur[u] = ctx'[gd][f], cur[u] # NoTask
                 PROVE  Leaving(u)
      BY <2>1, <2>3
    <3>1. cur[u] # cur[t]
      BY <2>1
    <3>2. QED  BY <2>2, <3>1
  <2>8. QED  BY <2>1, <2>3, <2>5, <2>6, <2>7
<1>2. ASSUME NEW t \in Threads, NEW fd \in Fds, NEW e \in Event, delEvent(t, fd, e)
      PROVE HeldExcl'
  BY <1>2 DEF delEvent, UserOp, resetContext, eventVars, epollVars, schedVars, timerVars,
     localVars
<1>3. ASSUME NEW t \in Threads, NEW fd \in Fds, NEW e \in Event, Drain(t, fd, e) PROVE HeldExcl'
  BY <1>3 DEF Drain, eventVars, epollVars, schedVars, timerVars, localVars
<1>4. ASSUME NEW t \in Threads, NEW fd \in Fds, NEW e \in Event, NEW w \in Tasks,
      AddEventCb(t, fd, e, w) PROVE HeldExcl'
  BY <1>4 DEF AddEventCb, UserOp, Unused, addEvent, eventVars, epollVars, schedVars, timerVars,
     localVars
<1>5. ASSUME NEW t \in Threads, NEW fd \in Fds, NEW es \in SUBSET Event,
      es \subseteq events[fd], cancelSome(t, fd, es) PROVE HeldExcl'
  <2>1. \A u \in Threads : Leaving(u) => Leaving(u)'
    BY <1>5 DEF cancelSome, UserOp
  <2>2. QED  BY <1>5, <2>1, TriggerHeld DEF cancelSome, timerVars
<1>6. ASSUME NEW t \in Threads, NEW fd \in Fds, CtlError(t, fd) PROVE HeldExcl'
  BY <1>6 DEF CtlError, UserOp, eventVars, epollVars, schedVars, timerVars, localVars
<1>7. ASSUME NEW t \in Threads, NEW fd \in Fds, Close(t, fd) PROVE HeldExcl'
  BY <1>7 DEF Close, UserOp, eventVars, epollVars, schedVars, timerVars, localVars
<1>8. ASSUME NEW t \in Threads, NEW fd \in Fds, TriggerReady(t, fd) PROVE HeldExcl'
  <2>1. RealEvents(t, fd) \in SUBSET Event /\ RealEvents(t, fd) \subseteq events[fd]
    BY <1>8 DEF TriggerReady
  <2>2. \A u \in Threads : Leaving(u) => Leaving(u)'
    BY <1>8 DEF TriggerReady
  <2>3. QED  BY <1>8, <2>1, <2>2, TriggerHeld DEF TriggerReady, timerVars
<1>9. ASSUME NEW t \in Threads, NEW fd \in Fds, SkipEvent(t, fd) PROVE HeldExcl'
  BY <1>9 DEF SkipEvent, Consumed, eventVars, epollVars, schedVars, timerVars, localVars
<1>10. ASSUME NEW t \in Threads, NEW fd \in Fds, TriggerAborts(t, fd) PROVE HeldExcl'
  BY <1>10 DEF TriggerAborts, eventVars, epollVars, schedVars, timerVars, localVars
<1>11. ASSUME NEW t \in Threads, NEW w \in Tasks, Spawn(t, w) PROVE HeldExcl'
  <2>1. queue' = queue \cup {w} /\ Unused(w) /\ UNCHANGED <<timers, cur, ctx, torn>>
    BY <1>11 DEF Spawn, eventVars, timerVars
  <2>2. pc[t] = "user" /\ \A u \in Threads : u # t => pc'[u] = pc[u]
    BY <1>11 DEF Spawn, UserOp
  <2>3. \A u \in Threads : Leaving(u) => Leaving(u)'
    BY <2>2
  <2>4. QED  BY <2>1, <2>3 DEF Unused
<1>12. ASSUME NEW t \in Threads, NEW w \in Tasks, AddTimer(t, w) PROVE HeldExcl'
  <2>1. timers' = timers \cup {w} /\ Unused(w) /\ UNCHANGED <<queue, cur, ctx, torn>>
    BY <1>12 DEF AddTimer, eventVars, schedVars
  <2>2. pc[t] = "user" /\ \A u \in Threads : u # t => pc'[u] = pc[u]
    BY <1>12 DEF AddTimer, UserOp
  <2>3. \A u \in Threads : Leaving(u) => Leaving(u)'
    BY <2>2
  <2>4. QED  BY <2>1, <2>3 DEF Unused
<1>13. ASSUME NEW t \in Threads, NEW w \in Tasks, TakeTask(t, w) PROVE HeldExcl'
  <2> SUFFICES ASSUME ~torn' PROVE HeldExcl'
    OBVIOUS
  <2>1. ~torn /\ \A u \in Threads : cur[u] # w
    BY <1>13 DEF TakeTask
  <2>2. /\ pc[t] = "run" /\ w \in queue /\ queue' = queue \ {w} /\ UNCHANGED <<timers, ctx>>
        /\ \A u \in Threads : cur'[u] = IF u = t THEN w ELSE cur[u]
        /\ \A u \in Threads : u # t => pc'[u] = pc[u]
    BY <1>13 DEF TakeTask, eventVars, timerVars
  <2>3. \A u \in Threads : Leaving(u) => u # t /\ Leaving(u)'
    BY <2>2
  <2>4. w \notin timers /\ \A gd \in Fds, f \in Event : ctx[gd][f] # w
    BY <2>1, <2>2
  <2>5. \A u \in Threads : cur'[u] \notin timers' /\ (cur'[u] \in queue' => Leaving(u)')
    BY <2>1, <2>2, <2>3, <2>4
  <2>6. \A u, v \in Threads : cur'[u] = cur'[v] /\ cur'[u] # NoTask => u = v
    BY <2>1, <2>2
  <2>7. \A u \in Threads, gd \in Fds, f \in Event :
            cur'[u] = ctx'[gd][f] /\ cur'[u] # NoTask => Leaving(u)'
    BY <2>1, <2>2, <2>3, <2>4
  <2>8. QED  BY <2>1, <2>2, <2>5, <2>6, <2>7
<1>14. ASSUME NEW t \in Threads, YieldReady(t) PROVE HeldExcl'
  BY <1>14 DEF YieldReady, UserOp, eventVars, epollVars, schedVars, timerVars, localVars
<1>15. ASSUME NEW t \in Threads, Finish(t) PROVE HeldExcl'
  BY <1>15 DEF Finish, eventVars, epollVars, schedVars, timerVars, localVars
<1>16. ASSUME NEW t \in Threads, Requeue(t) PROVE HeldExcl'
  <2> SUFFICES ASSUME ~torn PROVE HeldExcl'
    BY <1>16 DEF Requeue
  <2>1. /\ pc[t] = "settle" /\ cur[t] # NoTask /\ queue' = queue \cup {cur[t]}
        /\ UNCHANGED <<timers, ctx, torn>>
        /\ \A u \in Threads : cur'[u] = IF u = t THEN NoTask ELSE cur[u]
        /\ \A u \in Threads : u # t => pc'[u] = pc[u]
    BY <1>16 DEF Requeue, eventVars, timerVars
  <2>2. \A u \in Threads : Leaving(u) => u # t /\ Leaving(u)'
    BY <2>1
  <2>3. cur[t] \notin timers /\ \A gd \in Fds, f \in Event : ctx[gd][f] # cur[t]
    <3>1. ~Leaving(t)
      BY <2>1
    <3>2. QED  BY <2>1, <3>1, ExecutingHeld
  <2>4. NoTask \notin queue' /\ NoTask \notin timers
    BY <2>1
  <2>5. \A u \in Threads : cur'[u] \notin timers' /\ (cur'[u] \in queue' => Leaving(u)')
    BY <2>1, <2>2, <2>4
  <2>6. QED  BY <2>1, <2>2, <2>3, <2>5
<1>17. ASSUME NEW t \in Threads, tickle(t) PROVE HeldExcl'
  BY <1>17 DEF tickle, eventVars, epollVars, schedVars, timerVars, localVars
<1>18. ASSUME NEW t \in Threads, EnterIdle(t) PROVE HeldExcl'
  BY <1>18 DEF EnterIdle, NothingToTake, eventVars, epollVars, schedVars, timerVars, localVars
<1>19. ASSUME NEW t \in Threads, ExitRun(t) PROVE HeldExcl'
  BY <1>19 DEF ExitRun, NothingToTake, eventVars, epollVars, schedVars, timerVars, localVars
<1>20. ASSUME NEW t \in Threads, LeaveIdle(t) PROVE HeldExcl'
  BY <1>20 DEF LeaveIdle, eventVars, epollVars, schedVars, timerVars, localVars
<1>21. ASSUME NEW t \in Threads, NextTimeout(t) PROVE HeldExcl'
  BY <1>21 DEF NextTimeout, eventVars, epollVars, schedVars, timerVars, localVars
<1>22. ASSUME NEW t \in Threads, TestPending(t) PROVE HeldExcl'
  BY <1>22 DEF TestPending, eventVars, epollVars, schedVars, timerVars, localVars
<1>23. ASSUME NEW t \in Threads, TestStopping(t) PROVE HeldExcl'
  BY <1>23 DEF TestStopping, eventVars, epollVars, schedVars, timerVars, localVars
<1>24. ASSUME NEW t \in Threads, EpollWait(t) PROVE HeldExcl'
  BY <1>24 DEF EpollWait, eventVars, epollVars, schedVars, timerVars, localVars
<1>25. ASSUME NEW t \in Threads, ScheduleExpired(t) PROVE HeldExcl'
  BY <1>25 DEF ScheduleExpired, eventVars, epollVars, schedVars, timerVars, localVars
<1>26. ASSUME NEW fd \in Fds, NEW e \in Readiness, FdReady(fd, e) PROVE HeldExcl'
  BY <1>26 DEF FdReady, eventVars, epollVars, schedVars, timerVars, localVars
<1>27. ASSUME NEW w \in Tasks, TimerDue(w) PROVE HeldExcl'
  BY <1>27 DEF TimerDue, eventVars, epollVars, schedVars, timerVars, localVars
<1>28. ASSUME NEW w \in Tasks, Submit(w) PROVE HeldExcl'
  BY <1>28 DEF Submit, Unused, eventVars, epollVars, schedVars, timerVars, localVars
<1>29. ASSUME TickleOutside PROVE HeldExcl'
  BY <1>29 DEF TickleOutside, eventVars, epollVars, schedVars, timerVars, localVars
<1>30. ASSUME stop PROVE HeldExcl'
  BY <1>30 DEF stop, eventVars, epollVars, schedVars, timerVars, localVars
<1>31. ASSUME NEW t \in Threads, YieldToHold(t) PROVE HeldExcl'
  BY <1>31 DEF YieldToHold, eventVars, epollVars, schedVars, timerVars, localVars
<1>32. ASSUME NEW t \in Threads, SwapOut(t) PROVE HeldExcl'
  BY <1>32 DEF SwapOut, eventVars, epollVars, schedVars, timerVars, localVars
<1>33. CASE UNCHANGED vars
  BY <1>33 DEF vars, eventVars, epollVars, schedVars, timerVars, localVars
<1>34. QED
  BY <1>1, <1>2, <1>3, <1>4, <1>5, <1>6, <1>7, <1>8, <1>9, <1>10, <1>11, <1>12, <1>13, <1>14,
     <1>15, <1>16, <1>17, <1>18, <1>19, <1>20, <1>21, <1>22, <1>23, <1>24, <1>25, <1>26, <1>27,
     <1>28, <1>29, <1>30, <1>31, <1>32, <1>33, NextCases DEF IOInv, IOType

\* epoll_ctl follows the registered events.
LEMMA EpollStep == IOInv /\ [Next]_vars => EpollOK'
<1> SUFFICES ASSUME IOInv, [Next]_vars PROVE EpollOK'
  OBVIOUS
<1> USE DEF IOInv, IOType, EventType, ThreadType, RunStates, EpollOK
<1>1. ASSUME NEW t \in Threads, NEW fd \in Fds, NEW e \in Event, WaitEvent(t, fd, e)
      PROVE EpollOK'
  BY <1>1 DEF WaitEvent, UserOp, addEvent, epoll_ctl, CtlFails, goto, eventVars, epollVars,
     schedVars, timerVars, localVars
<1>2. ASSUME NEW t \in Threads, NEW fd \in Fds, NEW e \in Event, delEvent(t, fd, e) PROVE EpollOK'
  BY <1>2 DEF delEvent, UserOp, CtlFails, epoll_ctl, eventVars, epollVars, schedVars,
     timerVars, localVars
<1>3. ASSUME NEW t \in Threads, NEW fd \in Fds, NEW e \in Event, Drain(t, fd, e) PROVE EpollOK'
  BY <1>3 DEF Drain, eventVars, epollVars, schedVars, timerVars, localVars
<1>4. ASSUME NEW t \in Threads, NEW fd \in Fds, NEW e \in Event, NEW w \in Tasks,
      AddEventCb(t, fd, e, w) PROVE EpollOK'
  BY <1>4 DEF AddEventCb, UserOp, addEvent, epoll_ctl, CtlFails, eventVars, epollVars,
     schedVars, timerVars, localVars
<1>5. ASSUME NEW t \in Threads, NEW fd \in Fds, NEW es \in SUBSET Event,
      es \subseteq events[fd], cancelSome(t, fd, es) PROVE EpollOK'
  <2>1. \A gd \in inEpoll' : events'[gd] # {}
    BY <1>5 DEF cancelSome, epoll_ctl, triggerEvent
  <2>2. batch' = batch /\ pc[t] = "user" /\ \A u \in Threads : u # t => pc'[u] = pc[u]
    BY <1>5 DEF cancelSome, UserOp, thenTickle, goto
  <2>3. QED  BY <2>1, <2>2
<1>6. ASSUME NEW t \in Threads, NEW fd \in Fds, CtlError(t, fd) PROVE EpollOK'
  BY <1>6 DEF CtlError, UserOp, CtlFails, eventVars, epollVars, schedVars, timerVars, localVars
<1>7. ASSUME NEW t \in Threads, NEW fd \in Fds, Close(t, fd) PROVE EpollOK'
  BY <1>7 DEF Close, UserOp, eventVars, epollVars, schedVars, timerVars, localVars
<1>8. ASSUME NEW t \in Threads, NEW fd \in Fds, TriggerReady(t, fd) PROVE EpollOK'
  BY <1>8 DEF TriggerReady, CtlFails, epoll_ctl, triggerEvent, Consumed, eventVars, epollVars,
     schedVars, timerVars, localVars
<1>9. ASSUME NEW t \in Threads, NEW fd \in Fds, SkipEvent(t, fd) PROVE EpollOK'
  BY <1>9 DEF SkipEvent, Consumed, eventVars, epollVars, schedVars, timerVars, localVars
<1>10. ASSUME NEW t \in Threads, NEW fd \in Fds, TriggerAborts(t, fd) PROVE EpollOK'
  BY <1>10 DEF TriggerAborts, eventVars, epollVars, schedVars, timerVars, localVars
<1>11. ASSUME NEW t \in Threads, NEW w \in Tasks, Spawn(t, w) PROVE EpollOK'
  BY <1>11 DEF Spawn, UserOp, thenTickle, goto, eventVars, epollVars, schedVars, timerVars,
     localVars
<1>12. ASSUME NEW t \in Threads, NEW w \in Tasks, AddTimer(t, w) PROVE EpollOK'
  BY <1>12 DEF AddTimer, UserOp, goto, eventVars, epollVars, schedVars, timerVars, localVars
<1>13. ASSUME NEW t \in Threads, NEW w \in Tasks, TakeTask(t, w) PROVE EpollOK'
  BY <1>13 DEF TakeTask, goto, eventVars, epollVars, schedVars, timerVars, localVars
<1>14. ASSUME NEW t \in Threads, YieldReady(t) PROVE EpollOK'
  BY <1>14 DEF YieldReady, UserOp, goto, eventVars, epollVars, schedVars, timerVars, localVars
<1>15. ASSUME NEW t \in Threads, Finish(t) PROVE EpollOK'
  BY <1>15 DEF Finish, goto, eventVars, epollVars, schedVars, timerVars, localVars
<1>16. ASSUME NEW t \in Threads, Requeue(t) PROVE EpollOK'
  BY <1>16 DEF Requeue, thenTickle, goto, eventVars, epollVars, schedVars, timerVars, localVars
<1>17. ASSUME NEW t \in Threads, tickle(t) PROVE EpollOK'
  BY <1>17 DEF tickle, goto, eventVars, epollVars, schedVars, timerVars, localVars
<1>18. ASSUME NEW t \in Threads, EnterIdle(t) PROVE EpollOK'
  BY <1>18 DEF EnterIdle, NothingToTake, goto, eventVars, epollVars, schedVars, timerVars, localVars
<1>19. ASSUME NEW t \in Threads, ExitRun(t) PROVE EpollOK'
  BY <1>19 DEF ExitRun, NothingToTake, goto, eventVars, epollVars, schedVars, timerVars, localVars
<1>20. ASSUME NEW t \in Threads, LeaveIdle(t) PROVE EpollOK'
  BY <1>20 DEF LeaveIdle, goto, eventVars, epollVars, schedVars, timerVars, localVars
<1>21. ASSUME NEW t \in Threads, NextTimeout(t) PROVE EpollOK'
  BY <1>21 DEF NextTimeout, goto, eventVars, epollVars, schedVars, timerVars, localVars
<1>22. ASSUME NEW t \in Threads, TestPending(t) PROVE EpollOK'
  BY <1>22 DEF TestPending, goto, eventVars, epollVars, schedVars, timerVars, localVars
<1>23. ASSUME NEW t \in Threads, TestStopping(t) PROVE EpollOK'
  BY <1>23 DEF TestStopping, goto, eventVars, epollVars, schedVars, timerVars, localVars
<1>24. ASSUME NEW t \in Threads, EpollWait(t) PROVE EpollOK'
  BY <1>24 DEF EpollWait, goto, eventVars, epollVars, schedVars, timerVars, localVars
<1>25. ASSUME NEW t \in Threads, ScheduleExpired(t) PROVE EpollOK'
  BY <1>25 DEF ScheduleExpired, goto, eventVars, epollVars, schedVars, timerVars, localVars
<1>26. ASSUME NEW fd \in Fds, NEW e \in Readiness, FdReady(fd, e) PROVE EpollOK'
  BY <1>26 DEF FdReady, eventVars, epollVars, schedVars, timerVars, localVars
<1>27. ASSUME NEW w \in Tasks, TimerDue(w) PROVE EpollOK'
  BY <1>27 DEF TimerDue, eventVars, epollVars, schedVars, timerVars, localVars
<1>28. ASSUME NEW w \in Tasks, Submit(w) PROVE EpollOK'
  BY <1>28 DEF Submit, eventVars, epollVars, schedVars, timerVars, localVars
<1>29. ASSUME TickleOutside PROVE EpollOK'
  BY <1>29 DEF TickleOutside, eventVars, epollVars, schedVars, timerVars, localVars
<1>30. ASSUME stop PROVE EpollOK'
  BY <1>30 DEF stop, eventVars, epollVars, schedVars, timerVars, localVars
<1>31. ASSUME NEW t \in Threads, YieldToHold(t) PROVE EpollOK'
  BY <1>31 DEF YieldToHold, goto, eventVars, epollVars, schedVars, timerVars, localVars
<1>32. ASSUME NEW t \in Threads, SwapOut(t) PROVE EpollOK'
  BY <1>32 DEF SwapOut, goto, eventVars, epollVars, schedVars, timerVars, localVars
<1>33. CASE UNCHANGED vars
  BY <1>33 DEF vars, eventVars, epollVars, schedVars, timerVars, localVars
<1>34. QED
  BY <1>1, <1>2, <1>3, <1>4, <1>5, <1>6, <1>7, <1>8, <1>9, <1>10, <1>11, <1>12, <1>13, <1>14,
     <1>15, <1>16, <1>17, <1>18, <1>19, <1>20, <1>21, <1>22, <1>23, <1>24, <1>25, <1>26, <1>27,
     <1>28, <1>29, <1>30, <1>31, <1>32, <1>33, NextCases DEF IOInv, IOType

\* epoll_ctl puts a descriptor that is ready back on the list.
LEMMA ReadinessStep == IOInv /\ [Next]_vars => ReadinessKept'
<1> SUFFICES ASSUME IOInv, [Next]_vars PROVE ReadinessKept'
  OBVIOUS
<1> USE DEF IOInv, IOType, EventType, ThreadType, EpollOK, ReadinessKept
<1>1. ASSUME NEW t \in Threads, NEW fd \in Fds, NEW e \in Event, WaitEvent(t, fd, e)
      PROVE ReadinessKept'
  BY <1>1 DEF WaitEvent, UserOp, addEvent, epoll_ctl, CtlFails, eventVars, epollVars,
     schedVars, timerVars, localVars
<1>2. ASSUME NEW t \in Threads, NEW fd \in Fds, NEW e \in Event, delEvent(t, fd, e)
      PROVE ReadinessKept'
  BY <1>2 DEF delEvent, UserOp, CtlFails, epoll_ctl, eventVars, epollVars, schedVars,
     timerVars, localVars
<1>3. ASSUME NEW t \in Threads, NEW fd \in Fds, NEW e \in Event, Drain(t, fd, e)
      PROVE ReadinessKept'
  BY <1>3 DEF Drain, eventVars, epollVars, schedVars, timerVars, localVars
<1>4. ASSUME NEW t \in Threads, NEW fd \in Fds, NEW e \in Event, NEW w \in Tasks,
      AddEventCb(t, fd, e, w) PROVE ReadinessKept'
  BY <1>4 DEF AddEventCb, UserOp, addEvent, epoll_ctl, CtlFails, eventVars, epollVars,
     schedVars, timerVars, localVars
<1>5. ASSUME NEW t \in Threads, NEW fd \in Fds, NEW es \in SUBSET Event,
      es \subseteq events[fd], cancelSome(t, fd, es) PROVE ReadinessKept'
  BY <1>5 DEF cancelSome, UserOp, CtlFails, epoll_ctl, triggerEvent, eventVars, epollVars,
     schedVars, timerVars, localVars
<1>6. ASSUME NEW t \in Threads, NEW fd \in Fds, CtlError(t, fd) PROVE ReadinessKept'
  BY <1>6 DEF CtlError, UserOp, CtlFails, eventVars, epollVars, schedVars, timerVars, localVars
<1>7. ASSUME NEW t \in Threads, NEW fd \in Fds, Close(t, fd) PROVE ReadinessKept'
  BY <1>7 DEF Close, UserOp, eventVars, epollVars, schedVars, timerVars, localVars
<1>8. ASSUME NEW t \in Threads, NEW fd \in Fds, TriggerReady(t, fd) PROVE ReadinessKept'
  BY <1>8 DEF TriggerReady, CtlFails, epoll_ctl, triggerEvent, Consumed, eventVars, epollVars,
     schedVars, timerVars, localVars
<1>9. ASSUME NEW t \in Threads, NEW fd \in Fds, SkipEvent(t, fd) PROVE ReadinessKept'
  <2>1. /\ UNCHANGED <<events, inEpoll, rdl, ready>>
        /\ \A u \in Threads, gd \in Fds : batch'[u][gd] = IF u = t /\ gd = fd THEN {} ELSE batch[u][gd]
    BY <1>9 DEF SkipEvent, Consumed, eventVars, epollVars
  <2>2. ASSUME fd \in inEpoll, NEW e \in events[fd] \cup {"ERR"}, e \in batch[t][fd] PROVE FALSE
    <3>1. events[fd] # {}
      BY <2>2
    <3>2. RealEvents(t, fd) \cap events[fd] = {}
      BY <1>9, <2>2, <3>1 DEF SkipEvent, CtlFails
    <3>3. CASE e = "ERR"
      BY <2>2, <3>1, <3>2, <3>3 DEF RealEvents
    <3>4. CASE e \in events[fd]
      BY <2>2, <3>2, <3>4 DEF RealEvents
    <3>5. QED  BY <3>3, <3>4
  <2>3. ASSUME NEW gd \in inEpoll, NEW e \in ready[gd] \cap (events[gd] \cup {"ERR"}),
        gd \notin rdl
        PROVE \E u \in Threads : e \in batch'[u][gd]
    <3>1. PICK u \in Threads : e \in batch[u][gd]
      BY <2>3
    <3>2. ~(u = t /\ gd = fd)
      BY <2>2, <2>3, <3>1
    <3>3. QED  BY <2>1, <2>3, <3>1, <3>2
  <2>4. QED  BY <2>1, <2>3
<1>10. ASSUME NEW t \in Threads, NEW fd \in Fds, TriggerAborts(t, fd) PROVE ReadinessKept'
  BY <1>10 DEF TriggerAborts, eventVars, epollVars, schedVars, timerVars, localVars
<1>11. ASSUME NEW t \in Threads, NEW w \in Tasks, Spawn(t, w) PROVE ReadinessKept'
  BY <1>11 DEF Spawn, UserOp, eventVars, epollVars, schedVars, timerVars, localVars
<1>12. ASSUME NEW t \in Threads, NEW w \in Tasks, AddTimer(t, w) PROVE ReadinessKept'
  BY <1>12 DEF AddTimer, UserOp, eventVars, epollVars, schedVars, timerVars, localVars
<1>13. ASSUME NEW t \in Threads, NEW w \in Tasks, TakeTask(t, w) PROVE ReadinessKept'
  BY <1>13 DEF TakeTask, eventVars, epollVars, schedVars, timerVars, localVars
<1>14. ASSUME NEW t \in Threads, YieldReady(t) PROVE ReadinessKept'
  BY <1>14 DEF YieldReady, UserOp, eventVars, epollVars, schedVars, timerVars, localVars
<1>15. ASSUME NEW t \in Threads, Finish(t) PROVE ReadinessKept'
  BY <1>15 DEF Finish, eventVars, epollVars, schedVars, timerVars, localVars
<1>16. ASSUME NEW t \in Threads, Requeue(t) PROVE ReadinessKept'
  BY <1>16 DEF Requeue, eventVars, epollVars, schedVars, timerVars, localVars
<1>17. ASSUME NEW t \in Threads, tickle(t) PROVE ReadinessKept'
  BY <1>17 DEF tickle, eventVars, epollVars, schedVars, timerVars, localVars
<1>18. ASSUME NEW t \in Threads, EnterIdle(t) PROVE ReadinessKept'
  BY <1>18 DEF EnterIdle, NothingToTake, eventVars, epollVars, schedVars, timerVars, localVars
<1>19. ASSUME NEW t \in Threads, ExitRun(t) PROVE ReadinessKept'
  BY <1>19 DEF ExitRun, NothingToTake, eventVars, epollVars, schedVars, timerVars, localVars
<1>20. ASSUME NEW t \in Threads, LeaveIdle(t) PROVE ReadinessKept'
  BY <1>20 DEF LeaveIdle, eventVars, epollVars, schedVars, timerVars, localVars
<1>21. ASSUME NEW t \in Threads, NextTimeout(t) PROVE ReadinessKept'
  BY <1>21 DEF NextTimeout, eventVars, epollVars, schedVars, timerVars, localVars
<1>22. ASSUME NEW t \in Threads, TestPending(t) PROVE ReadinessKept'
  BY <1>22 DEF TestPending, eventVars, epollVars, schedVars, timerVars, localVars
<1>23. ASSUME NEW t \in Threads, TestStopping(t) PROVE ReadinessKept'
  BY <1>23 DEF TestStopping, eventVars, epollVars, schedVars, timerVars, localVars
<1>24. ASSUME NEW t \in Threads, EpollWait(t) PROVE ReadinessKept'
  BY <1>24 DEF EpollWait, eventVars, epollVars, schedVars, timerVars, localVars
<1>25. ASSUME NEW t \in Threads, ScheduleExpired(t) PROVE ReadinessKept'
  BY <1>25 DEF ScheduleExpired, eventVars, epollVars, schedVars, timerVars, localVars
<1>26. ASSUME NEW fd \in Fds, NEW e \in Readiness, FdReady(fd, e) PROVE ReadinessKept'
  BY <1>26 DEF FdReady, eventVars, epollVars, schedVars, timerVars, localVars
<1>27. ASSUME NEW w \in Tasks, TimerDue(w) PROVE ReadinessKept'
  BY <1>27 DEF TimerDue, eventVars, epollVars, schedVars, timerVars, localVars
<1>28. ASSUME NEW w \in Tasks, Submit(w) PROVE ReadinessKept'
  BY <1>28 DEF Submit, eventVars, epollVars, schedVars, timerVars, localVars
<1>29. ASSUME TickleOutside PROVE ReadinessKept'
  BY <1>29 DEF TickleOutside, eventVars, epollVars, schedVars, timerVars, localVars
<1>30. ASSUME stop PROVE ReadinessKept'
  BY <1>30 DEF stop, eventVars, epollVars, schedVars, timerVars, localVars
<1>31. ASSUME NEW t \in Threads, YieldToHold(t) PROVE ReadinessKept'
  BY <1>31 DEF YieldToHold, eventVars, epollVars, schedVars, timerVars, localVars
<1>32. ASSUME NEW t \in Threads, SwapOut(t) PROVE ReadinessKept'
  BY <1>32 DEF SwapOut, eventVars, epollVars, schedVars, timerVars, localVars
<1>33. CASE UNCHANGED vars
  BY <1>33 DEF vars, eventVars, epollVars, schedVars, timerVars, localVars
<1>34. QED
  BY <1>1, <1>2, <1>3, <1>4, <1>5, <1>6, <1>7, <1>8, <1>9, <1>10, <1>11, <1>12, <1>13, <1>14,
     <1>15, <1>16, <1>17, <1>18, <1>19, <1>20, <1>21, <1>22, <1>23, <1>24, <1>25, <1>26, <1>27,
     <1>28, <1>29, <1>30, <1>31, <1>32, <1>33, NextCases DEF IOInv, IOType

\* Only a thread that still runs can queue a task once stop() was called.
LEMMA ExitStep == IOInv /\ [Next]_vars => ExitOK'
<1> SUFFICES ASSUME IOInv, [Next]_vars PROVE ExitOK'
  OBVIOUS
<1> USE PoolAssumption DEF IOInv, IOType, EventType, ThreadType, RestType, RunStates, ExitOK,
      NoTaskLeftBehind, NothingToTake, Executing
<1>1. ASSUME NEW t \in Threads, NEW fd \in Fds, NEW e \in Event, WaitEvent(t, fd, e) PROVE ExitOK'
  BY <1>1 DEF WaitEvent, UserOp, goto, eventVars, epollVars, schedVars, timerVars, localVars
<1>2. ASSUME NEW t \in Threads, NEW fd \in Fds, NEW e \in Event, delEvent(t, fd, e) PROVE ExitOK'
  BY <1>2 DEF delEvent, UserOp, eventVars, epollVars, schedVars, timerVars, localVars
<1>3. ASSUME NEW t \in Threads, NEW fd \in Fds, NEW e \in Event, Drain(t, fd, e) PROVE ExitOK'
  BY <1>3 DEF Drain, eventVars, epollVars, schedVars, timerVars, localVars
<1>4. ASSUME NEW t \in Threads, NEW fd \in Fds, NEW e \in Event, NEW w \in Tasks,
      AddEventCb(t, fd, e, w) PROVE ExitOK'
  BY <1>4 DEF AddEventCb, UserOp, eventVars, epollVars, schedVars, timerVars, localVars
<1>5. ASSUME NEW t \in Threads, NEW fd \in Fds, NEW es \in SUBSET Event,
      es \subseteq events[fd], cancelSome(t, fd, es) PROVE ExitOK'
  BY <1>5 DEF cancelSome, UserOp, triggerEvent, thenTickle, goto, eventVars, epollVars, schedVars,
     timerVars, localVars
<1>6. ASSUME NEW t \in Threads, NEW fd \in Fds, CtlError(t, fd) PROVE ExitOK'
  BY <1>6 DEF CtlError, UserOp, eventVars, epollVars, schedVars, timerVars, localVars
<1>7. ASSUME NEW t \in Threads, NEW fd \in Fds, Close(t, fd) PROVE ExitOK'
  BY <1>7 DEF Close, UserOp, eventVars, epollVars, schedVars, timerVars, localVars
<1>8. ASSUME NEW t \in Threads, NEW fd \in Fds, TriggerReady(t, fd) PROVE ExitOK'
  BY <1>8 DEF TriggerReady, triggerEvent, Consumed, eventVars, epollVars, schedVars, timerVars,
     localVars
<1>9. ASSUME NEW t \in Threads, NEW fd \in Fds, SkipEvent(t, fd) PROVE ExitOK'
  BY <1>9 DEF SkipEvent, Consumed, eventVars, epollVars, schedVars, timerVars, localVars
<1>10. ASSUME NEW t \in Threads, NEW fd \in Fds, TriggerAborts(t, fd) PROVE ExitOK'
  BY <1>10 DEF TriggerAborts, eventVars, epollVars, schedVars, timerVars, localVars
<1>11. ASSUME NEW t \in Threads, NEW w \in Tasks, Spawn(t, w) PROVE ExitOK'
  BY <1>11 DEF Spawn, UserOp, thenTickle, goto, eventVars, epollVars, schedVars, timerVars,
     localVars
<1>12. ASSUME NEW t \in Threads, NEW w \in Tasks, AddTimer(t, w) PROVE ExitOK'
  BY <1>12 DEF AddTimer, UserOp, goto, eventVars, epollVars, schedVars, timerVars, localVars
<1>13. ASSUME NEW t \in Threads, NEW w \in Tasks, TakeTask(t, w) PROVE ExitOK'
  BY <1>13 DEF TakeTask, goto, eventVars, epollVars, schedVars, timerVars, localVars
<1>14. ASSUME NEW t \in Threads, YieldReady(t) PROVE ExitOK'
  BY <1>14 DEF YieldReady, UserOp, goto, eventVars, epollVars, schedVars, timerVars, localVars
<1>15. ASSUME NEW t \in Threads, Finish(t) PROVE ExitOK'
  BY <1>15 DEF Finish, goto, eventVars, epollVars, schedVars, timerVars, localVars
<1>16. ASSUME NEW t \in Threads, Requeue(t) PROVE ExitOK'
  BY <1>16 DEF Requeue, thenTickle, goto, eventVars, epollVars, schedVars, timerVars, localVars
<1>17. ASSUME NEW t \in Threads, tickle(t) PROVE ExitOK'
  BY <1>17 DEF tickle, goto, eventVars, epollVars, schedVars, timerVars, localVars
<1>18. ASSUME NEW t \in Threads, EnterIdle(t) PROVE ExitOK'
  BY <1>18 DEF EnterIdle, NothingToTake, goto, eventVars, epollVars, schedVars, timerVars, localVars
<1>19. ASSUME NEW t \in Threads, ExitRun(t) PROVE ExitOK'
  BY <1>19 DEF ExitRun, NothingToTake, goto, eventVars, epollVars, schedVars, timerVars, localVars
<1>20. ASSUME NEW t \in Threads, LeaveIdle(t) PROVE ExitOK'
  BY <1>20 DEF LeaveIdle, goto, eventVars, epollVars, schedVars, timerVars, localVars
<1>21. ASSUME NEW t \in Threads, NextTimeout(t) PROVE ExitOK'
  BY <1>21 DEF NextTimeout, goto, eventVars, epollVars, schedVars, timerVars, localVars
<1>22. ASSUME NEW t \in Threads, TestPending(t) PROVE ExitOK'
  BY <1>22 DEF TestPending, goto, eventVars, epollVars, schedVars, timerVars, localVars
<1>23. ASSUME NEW t \in Threads, TestStopping(t) PROVE ExitOK'
  BY <1>23 DEF TestStopping, goto, eventVars, epollVars, schedVars, timerVars, localVars
<1>24. ASSUME NEW t \in Threads, EpollWait(t) PROVE ExitOK'
  BY <1>24 DEF EpollWait, goto, eventVars, epollVars, schedVars, timerVars, localVars
<1>25. ASSUME NEW t \in Threads, ScheduleExpired(t) PROVE ExitOK'
  BY <1>25 DEF ScheduleExpired, goto, eventVars, epollVars, schedVars, timerVars, localVars
<1>26. ASSUME NEW fd \in Fds, NEW e \in Readiness, FdReady(fd, e) PROVE ExitOK'
  BY <1>26 DEF FdReady, eventVars, epollVars, schedVars, timerVars, localVars
<1>27. ASSUME NEW w \in Tasks, TimerDue(w) PROVE ExitOK'
  BY <1>27 DEF TimerDue, eventVars, epollVars, schedVars, timerVars, localVars
<1>28. ASSUME NEW w \in Tasks, Submit(w) PROVE ExitOK'
  BY <1>28 DEF Submit, eventVars, epollVars, schedVars, timerVars, localVars
<1>29. ASSUME TickleOutside PROVE ExitOK'
  BY <1>29 DEF TickleOutside, eventVars, epollVars, schedVars, timerVars, localVars
<1>30. ASSUME stop PROVE ExitOK'
  BY <1>30 DEF stop, eventVars, epollVars, schedVars, timerVars, localVars
<1>31. ASSUME NEW t \in Threads, YieldToHold(t) PROVE ExitOK'
  BY <1>31 DEF YieldToHold, goto, eventVars, epollVars, schedVars, timerVars, localVars
<1>32. ASSUME NEW t \in Threads, SwapOut(t) PROVE ExitOK'
  BY <1>32 DEF SwapOut, goto, eventVars, epollVars, schedVars, timerVars, localVars
<1>33. CASE UNCHANGED vars
  BY <1>33 DEF vars, eventVars, epollVars, schedVars, timerVars, localVars
<1>34. QED
  BY <1>1, <1>2, <1>3, <1>4, <1>5, <1>6, <1>7, <1>8, <1>9, <1>10, <1>11, <1>12, <1>13, <1>14,
     <1>15, <1>16, <1>17, <1>18, <1>19, <1>20, <1>21, <1>22, <1>23, <1>24, <1>25, <1>26, <1>27,
     <1>28, <1>29, <1>30, <1>31, <1>32, <1>33, NextCases DEF IOInv, IOType

-----------------------------------------------------------------------------
(* Counters                                                                 *)

\* Sets of threads have a natural number of elements.
LEMMA CountFinite ==
  /\ IsFiniteSet(ActiveSet) /\ Cardinality(ActiveSet) \in Nat
  /\ IsFiniteSet(IdleSet) /\ Cardinality(IdleSet) \in Nat
<1>1. ActiveSet \in SUBSET Threads /\ IdleSet \in SUBSET Threads
  BY DEF ActiveSet, IdleSet
<1>2. IsFiniteSet(ActiveSet) /\ IsFiniteSet(IdleSet)
  BY <1>1, PoolAssumption, FS_Subset
<1>3. QED  BY <1>2, FS_CardinalityType

\* A thread starts or ends a task, or enters or leaves idle().
LEMMA CountChange ==
  ASSUME CountsExact, NEW t \in Threads, NEW a, NEW i,
         \/ t \notin ActiveSet /\ ActiveSet' = ActiveSet \cup {t} /\ a = 1
         \/ t \in ActiveSet /\ ActiveSet' = ActiveSet \ {t} /\ a = -1
         \/ ActiveSet' = ActiveSet /\ a = 0,
         \/ t \notin IdleSet /\ IdleSet' = IdleSet \cup {t} /\ i = 1
         \/ t \in IdleSet /\ IdleSet' = IdleSet \ {t} /\ i = -1
         \/ IdleSet' = IdleSet /\ i = 0,
         m_activeThreadCount' = m_activeThreadCount + a,
         m_idleThreadCount' = m_idleThreadCount + i
  PROVE  CountsExact'
<1>1. Cardinality(ActiveSet') = Cardinality(ActiveSet) + a
  BY CountFinite, FS_AddElement, FS_RemoveElement
<1>2. Cardinality(IdleSet') = Cardinality(IdleSet) + i
  BY CountFinite, FS_AddElement, FS_RemoveElement
<1>3. QED  BY <1>1, <1>2 DEF CountsExact

\* The counters follow the states of the threads.
LEMMA CountsStep == IOInv /\ [Next]_vars => CountsExact'
<1> SUFFICES ASSUME IOInv, [Next]_vars PROVE CountsExact'
  OBVIOUS
<1> USE DEF IOInv, IOType, ThreadType, RunStates
<1>1. ASSUME NEW t \in Threads, NEW fd \in Fds, NEW e \in Event, WaitEvent(t, fd, e)
      PROVE CountsExact'
  <2>1. ActiveSet' = ActiveSet
    BY <1>1 DEF WaitEvent, UserOp, goto, eventVars, epollVars, schedVars, timerVars, localVars,
       ActiveSet, Active
  <2>2. IdleSet' = IdleSet
    BY <1>1 DEF WaitEvent, UserOp, goto, eventVars, epollVars, schedVars, timerVars, localVars,
       IdleSet, Idle, IdleStates
  <2>3. UNCHANGED <<m_activeThreadCount, m_idleThreadCount>>
    BY <1>1 DEF WaitEvent, UserOp, goto, eventVars, epollVars, schedVars, timerVars, localVars
  <2>4. QED  BY <2>1, <2>2, <2>3 DEF CountsExact
<1>2. ASSUME NEW t \in Threads, NEW fd \in Fds, NEW e \in Event, delEvent(t, fd, e)
      PROVE CountsExact'
  <2>1. ActiveSet' = ActiveSet
    BY <1>2 DEF delEvent, UserOp, eventVars, epollVars, schedVars, timerVars, localVars,
       ActiveSet, Active
  <2>2. IdleSet' = IdleSet
    BY <1>2 DEF delEvent, UserOp, eventVars, epollVars, schedVars, timerVars, localVars,
       IdleSet, Idle, IdleStates
  <2>3. UNCHANGED <<m_activeThreadCount, m_idleThreadCount>>
    BY <1>2 DEF delEvent, UserOp, eventVars, epollVars, schedVars, timerVars, localVars
  <2>4. QED  BY <2>1, <2>2, <2>3 DEF CountsExact
<1>3. ASSUME NEW t \in Threads, NEW fd \in Fds, NEW e \in Event, Drain(t, fd, e)
      PROVE CountsExact'
  <2>1. ActiveSet' = ActiveSet
    BY <1>3 DEF Drain, eventVars, epollVars, schedVars, timerVars, localVars, ActiveSet, Active
  <2>2. IdleSet' = IdleSet
    BY <1>3 DEF Drain, eventVars, epollVars, schedVars, timerVars, localVars, IdleSet, Idle,
       IdleStates
  <2>3. UNCHANGED <<m_activeThreadCount, m_idleThreadCount>>
    BY <1>3 DEF Drain, eventVars, epollVars, schedVars, timerVars, localVars
  <2>4. QED  BY <2>1, <2>2, <2>3 DEF CountsExact
<1>4. ASSUME NEW t \in Threads, NEW fd \in Fds, NEW e \in Event, NEW w \in Tasks,
      AddEventCb(t, fd, e, w) PROVE CountsExact'
  <2>1. ActiveSet' = ActiveSet
    BY <1>4 DEF AddEventCb, UserOp, eventVars, epollVars, schedVars, timerVars, localVars,
       ActiveSet, Active
  <2>2. IdleSet' = IdleSet
    BY <1>4 DEF AddEventCb, UserOp, eventVars, epollVars, schedVars, timerVars, localVars,
       IdleSet, Idle, IdleStates
  <2>3. UNCHANGED <<m_activeThreadCount, m_idleThreadCount>>
    BY <1>4 DEF AddEventCb, UserOp, eventVars, epollVars, schedVars, timerVars, localVars
  <2>4. QED  BY <2>1, <2>2, <2>3 DEF CountsExact
<1>5. ASSUME NEW t \in Threads, NEW fd \in Fds, NEW es \in SUBSET Event,
      es \subseteq events[fd], cancelSome(t, fd, es) PROVE CountsExact'
  <2>1. ActiveSet' = ActiveSet
    BY <1>5 DEF cancelSome, UserOp, thenTickle, goto, eventVars, epollVars, schedVars, timerVars,
       localVars, ActiveSet, Active
  <2>2. IdleSet' = IdleSet
    BY <1>5 DEF cancelSome, UserOp, thenTickle, goto, eventVars, epollVars, schedVars, timerVars,
       localVars, IdleSet, Idle, IdleStates
  <2>3. UNCHANGED <<m_activeThreadCount, m_idleThreadCount>>
    BY <1>5 DEF cancelSome, UserOp, thenTickle, goto, eventVars, epollVars, schedVars, timerVars,
       localVars
  <2>4. QED  BY <2>1, <2>2, <2>3 DEF CountsExact
<1>6. ASSUME NEW t \in Threads, NEW fd \in Fds, CtlError(t, fd) PROVE CountsExact'
  <2>1. ActiveSet' = ActiveSet
    BY <1>6 DEF CtlError, UserOp, eventVars, epollVars, schedVars, timerVars, localVars,
       ActiveSet, Active
  <2>2. IdleSet' = IdleSet
    BY <1>6 DEF CtlError, UserOp, eventVars, epollVars, schedVars, timerVars, localVars,
       IdleSet, Idle, IdleStates
  <2>3. UNCHANGED <<m_activeThreadCount, m_idleThreadCount>>
    BY <1>6 DEF CtlError, UserOp, eventVars, epollVars, schedVars, timerVars, localVars
  <2>4. QED  BY <2>1, <2>2, <2>3 DEF CountsExact
<1>7. ASSUME NEW t \in Threads, NEW fd \in Fds, Close(t, fd) PROVE CountsExact'
  <2>1. ActiveSet' = ActiveSet
    BY <1>7 DEF Close, UserOp, eventVars, epollVars, schedVars, timerVars, localVars,
       ActiveSet, Active
  <2>2. IdleSet' = IdleSet
    BY <1>7 DEF Close, UserOp, eventVars, epollVars, schedVars, timerVars, localVars, IdleSet,
       Idle, IdleStates
  <2>3. UNCHANGED <<m_activeThreadCount, m_idleThreadCount>>
    BY <1>7 DEF Close, UserOp, eventVars, epollVars, schedVars, timerVars, localVars
  <2>4. QED  BY <2>1, <2>2, <2>3 DEF CountsExact
<1>8. ASSUME NEW t \in Threads, NEW fd \in Fds, TriggerReady(t, fd) PROVE CountsExact'
  <2>1. ActiveSet' = ActiveSet
    BY <1>8 DEF TriggerReady, eventVars, epollVars, schedVars, timerVars, localVars, ActiveSet,
       Active
  <2>2. IdleSet' = IdleSet
    BY <1>8 DEF TriggerReady, eventVars, epollVars, schedVars, timerVars, localVars, IdleSet,
       Idle, IdleStates
  <2>3. UNCHANGED <<m_activeThreadCount, m_idleThreadCount>>
    BY <1>8 DEF TriggerReady, eventVars, epollVars, schedVars, timerVars, localVars
  <2>4. QED  BY <2>1, <2>2, <2>3 DEF CountsExact
<1>9. ASSUME NEW t \in Threads, NEW fd \in Fds, SkipEvent(t, fd) PROVE CountsExact'
  <2>1. ActiveSet' = ActiveSet
    BY <1>9 DEF SkipEvent, eventVars, epollVars, schedVars, timerVars, localVars, ActiveSet,
       Active
  <2>2. IdleSet' = IdleSet
    BY <1>9 DEF SkipEvent, eventVars, epollVars, schedVars, timerVars, localVars, IdleSet,
       Idle, IdleStates
  <2>3. UNCHANGED <<m_activeThreadCount, m_idleThreadCount>>
    BY <1>9 DEF SkipEvent, eventVars, epollVars, schedVars, timerVars, localVars
  <2>4. QED  BY <2>1, <2>2, <2>3 DEF CountsExact
<1>10. ASSUME NEW t \in Threads, NEW fd \in Fds, TriggerAborts(t, fd) PROVE CountsExact'
  <2>1. ActiveSet' = ActiveSet
    BY <1>10 DEF TriggerAborts, eventVars, epollVars, schedVars, timerVars, localVars,
       ActiveSet, Active
  <2>2. IdleSet' = IdleSet
    BY <1>10 DEF TriggerAborts, eventVars, epollVars, schedVars, timerVars, localVars, IdleSet,
       Idle, IdleStates
  <2>3. UNCHANGED <<m_activeThreadCount, m_idleThreadCount>>
    BY <1>10 DEF TriggerAborts, eventVars, epollVars, schedVars, timerVars, localVars
  <2>4. QED  BY <2>1, <2>2, <2>3 DEF CountsExact
<1>11. ASSUME NEW t \in Threads, NEW w \in Tasks, Spawn(t, w) PROVE CountsExact'
  <2>1. ActiveSet' = ActiveSet
    BY <1>11 DEF Spawn, UserOp, thenTickle, goto, eventVars, epollVars, schedVars, timerVars,
       localVars, ActiveSet, Active
  <2>2. IdleSet' = IdleSet
    BY <1>11 DEF Spawn, UserOp, thenTickle, goto, eventVars, epollVars, schedVars, timerVars,
       localVars, IdleSet, Idle, IdleStates
  <2>3. UNCHANGED <<m_activeThreadCount, m_idleThreadCount>>
    BY <1>11 DEF Spawn, UserOp, thenTickle, goto, eventVars, epollVars, schedVars, timerVars,
       localVars
  <2>4. QED  BY <2>1, <2>2, <2>3 DEF CountsExact
<1>12. ASSUME NEW t \in Threads, NEW w \in Tasks, AddTimer(t, w) PROVE CountsExact'
  <2>1. ActiveSet' = ActiveSet
    BY <1>12 DEF AddTimer, UserOp, goto, eventVars, epollVars, schedVars, timerVars, localVars,
       ActiveSet, Active
  <2>2. IdleSet' = IdleSet
    BY <1>12 DEF AddTimer, UserOp, goto, eventVars, epollVars, schedVars, timerVars, localVars,
       IdleSet, Idle, IdleStates
  <2>3. UNCHANGED <<m_activeThreadCount, m_idleThreadCount>>
    BY <1>12 DEF AddTimer, UserOp, goto, eventVars, epollVars, schedVars, timerVars, localVars
  <2>4. QED  BY <2>1, <2>2, <2>3 DEF CountsExact
<1>13. ASSUME NEW t \in Threads, NEW w \in Tasks, TakeTask(t, w) PROVE CountsExact'
  <2>1. t \notin ActiveSet /\ ActiveSet' = ActiveSet \cup {t}
    BY <1>13 DEF TakeTask, goto, eventVars, epollVars, schedVars, timerVars, localVars,
       ActiveSet, Active
  <2>2. IdleSet' = IdleSet
    BY <1>13 DEF TakeTask, goto, eventVars, epollVars, schedVars, timerVars, localVars,
       IdleSet, Idle, IdleStates
  <2>3. m_activeThreadCount' = m_activeThreadCount + 1 /\ m_idleThreadCount' = m_idleThreadCount
    BY <1>13 DEF TakeTask, goto, eventVars, epollVars, schedVars, timerVars, localVars
  <2>4. m_activeThreadCount' = m_activeThreadCount + (1) /\ m_idleThreadCount' = m_idleThreadCount + (0)
    BY <2>3, CountFinite DEF CountsExact
  <2>5. QED  BY <2>1, <2>2, <2>4, CountChange
<1>14. ASSUME NEW t \in Threads, YieldReady(t) PROVE CountsExact'
  <2>1. t \in ActiveSet /\ ActiveSet' = ActiveSet \ {t}
    BY <1>14 DEF YieldReady, UserOp, goto, eventVars, epollVars, schedVars, timerVars,
       localVars, ActiveSet, Active
  <2>2. IdleSet' = IdleSet
    BY <1>14 DEF YieldReady, UserOp, goto, eventVars, epollVars, schedVars, timerVars,
       localVars, IdleSet, Idle, IdleStates
  <2>3. m_activeThreadCount' = m_activeThreadCount - 1 /\ m_idleThreadCount' = m_idleThreadCount
    BY <1>14 DEF YieldReady, UserOp, goto, eventVars, epollVars, schedVars, timerVars, localVars
  <2>4. m_activeThreadCount' = m_activeThreadCount + (-1) /\ m_idleThreadCount' = m_idleThreadCount + (0)
    BY <2>3, CountFinite DEF CountsExact
  <2>5. QED  BY <2>1, <2>2, <2>4, CountChange
<1>15. ASSUME NEW t \in Threads, Finish(t) PROVE CountsExact'
  <2>1. t \in ActiveSet /\ ActiveSet' = ActiveSet \ {t}
    BY <1>15 DEF Finish, goto, eventVars, epollVars, schedVars, timerVars, localVars,
       ActiveSet, Active
  <2>2. IdleSet' = IdleSet
    BY <1>15 DEF Finish, goto, eventVars, epollVars, schedVars, timerVars, localVars, IdleSet,
       Idle, IdleStates
  <2>3. m_activeThreadCount' = m_activeThreadCount - 1 /\ m_idleThreadCount' = m_idleThreadCount
    BY <1>15 DEF Finish, goto, eventVars, epollVars, schedVars, timerVars, localVars
  <2>4. m_activeThreadCount' = m_activeThreadCount + (-1) /\ m_idleThreadCount' = m_idleThreadCount + (0)
    BY <2>3, CountFinite DEF CountsExact
  <2>5. QED  BY <2>1, <2>2, <2>4, CountChange
<1>16. ASSUME NEW t \in Threads, Requeue(t) PROVE CountsExact'
  <2>1. ActiveSet' = ActiveSet
    BY <1>16 DEF Requeue, thenTickle, goto, eventVars, epollVars, schedVars, timerVars,
       localVars, ActiveSet, Active
  <2>2. IdleSet' = IdleSet
    BY <1>16 DEF Requeue, thenTickle, goto, eventVars, epollVars, schedVars, timerVars,
       localVars, IdleSet, Idle, IdleStates
  <2>3. UNCHANGED <<m_activeThreadCount, m_idleThreadCount>>
    BY <1>16 DEF Requeue, thenTickle, goto, eventVars, epollVars, schedVars, timerVars, localVars
  <2>4. QED  BY <2>1, <2>2, <2>3 DEF CountsExact
<1>17. ASSUME NEW t \in Threads, tickle(t) PROVE CountsExact'
  <2>1. ActiveSet' = ActiveSet
    BY <1>17 DEF tickle, goto, eventVars, epollVars, schedVars, timerVars, localVars,
       ActiveSet, Active
  <2>2. IdleSet' = IdleSet
    BY <1>17 DEF tickle, goto, eventVars, epollVars, schedVars, timerVars, localVars, IdleSet,
       Idle, IdleStates
  <2>3. UNCHANGED <<m_activeThreadCount, m_idleThreadCount>>
    BY <1>17 DEF tickle, goto, eventVars, epollVars, schedVars, timerVars, localVars
  <2>4. QED  BY <2>1, <2>2, <2>3 DEF CountsExact
<1>18. ASSUME NEW t \in Threads, EnterIdle(t) PROVE CountsExact'
  <2>1. ActiveSet' = ActiveSet
    BY <1>18 DEF EnterIdle, NothingToTake, goto, eventVars, epollVars, schedVars, timerVars,
       localVars,
       ActiveSet, Active
  <2>2. t \notin IdleSet /\ IdleSet' = IdleSet \cup {t}
    BY <1>18 DEF EnterIdle, NothingToTake, goto, eventVars, epollVars, schedVars, timerVars,
       localVars,
       IdleSet, Idle, IdleStates
  <2>3. m_activeThreadCount' = m_activeThreadCount /\ m_idleThreadCount' = m_idleThreadCount + 1
    BY <1>18 DEF EnterIdle, NothingToTake, goto, eventVars, epollVars, schedVars, timerVars,
       localVars
  <2>4. m_activeThreadCount' = m_activeThreadCount + (0) /\ m_idleThreadCount' = m_idleThreadCount + (1)
    BY <2>3, CountFinite DEF CountsExact
  <2>5. QED  BY <2>1, <2>2, <2>4, CountChange
<1>19. ASSUME NEW t \in Threads, ExitRun(t) PROVE CountsExact'
  <2>1. ActiveSet' = ActiveSet
    BY <1>19 DEF ExitRun, NothingToTake, goto, eventVars, epollVars, schedVars, timerVars,
       localVars,
       ActiveSet, Active
  <2>2. IdleSet' = IdleSet
    BY <1>19 DEF ExitRun, NothingToTake, goto, eventVars, epollVars, schedVars, timerVars,
       localVars, IdleSet,
       Idle, IdleStates
  <2>3. UNCHANGED <<m_activeThreadCount, m_idleThreadCount>>
    BY <1>19 DEF ExitRun, NothingToTake, goto, eventVars, epollVars, schedVars, timerVars, localVars
  <2>4. QED  BY <2>1, <2>2, <2>3 DEF CountsExact
<1>20. ASSUME NEW t \in Threads, LeaveIdle(t) PROVE CountsExact'
  <2>1. ActiveSet' = ActiveSet
    BY <1>20 DEF LeaveIdle, goto, eventVars, epollVars, schedVars, timerVars, localVars,
       ActiveSet, Active
  <2>2. t \in IdleSet /\ IdleSet' = IdleSet \ {t}
    BY <1>20 DEF LeaveIdle, goto, eventVars, epollVars, schedVars, timerVars, localVars,
       IdleSet, Idle, IdleStates
  <2>3. m_activeThreadCount' = m_activeThreadCount /\ m_idleThreadCount' = m_idleThreadCount - 1
    BY <1>20 DEF LeaveIdle, goto, eventVars, epollVars, schedVars, timerVars, localVars
  <2>4. m_activeThreadCount' = m_activeThreadCount + (0) /\ m_idleThreadCount' = m_idleThreadCount + (-1)
    BY <2>3, CountFinite DEF CountsExact
  <2>5. QED  BY <2>1, <2>2, <2>4, CountChange
<1>21. ASSUME NEW t \in Threads, NextTimeout(t) PROVE CountsExact'
  <2>1. ActiveSet' = ActiveSet
    BY <1>21 DEF NextTimeout, goto, eventVars, epollVars, schedVars, timerVars, localVars,
       ActiveSet, Active
  <2>2. IdleSet' = IdleSet
    BY <1>21 DEF NextTimeout, goto, eventVars, epollVars, schedVars, timerVars, localVars,
       IdleSet, Idle, IdleStates
  <2>3. UNCHANGED <<m_activeThreadCount, m_idleThreadCount>>
    BY <1>21 DEF NextTimeout, goto, eventVars, epollVars, schedVars, timerVars, localVars
  <2>4. QED  BY <2>1, <2>2, <2>3 DEF CountsExact
<1>22. ASSUME NEW t \in Threads, TestPending(t) PROVE CountsExact'
  <2>1. ActiveSet' = ActiveSet
    BY <1>22 DEF TestPending, goto, eventVars, epollVars, schedVars, timerVars, localVars,
       ActiveSet, Active
  <2>2. IdleSet' = IdleSet
    BY <1>22 DEF TestPending, goto, eventVars, epollVars, schedVars, timerVars, localVars,
       IdleSet, Idle, IdleStates
  <2>3. UNCHANGED <<m_activeThreadCount, m_idleThreadCount>>
    BY <1>22 DEF TestPending, goto, eventVars, epollVars, schedVars, timerVars, localVars
  <2>4. QED  BY <2>1, <2>2, <2>3 DEF CountsExact
<1>23. ASSUME NEW t \in Threads, TestStopping(t) PROVE CountsExact'
  <2>1. ActiveSet' = ActiveSet
    BY <1>23 DEF TestStopping, goto, eventVars, epollVars, schedVars, timerVars, localVars,
       ActiveSet, Active
  <2>2. IdleSet' = IdleSet
    BY <1>23 DEF TestStopping, goto, eventVars, epollVars, schedVars, timerVars, localVars,
       IdleSet, Idle, IdleStates
  <2>3. UNCHANGED <<m_activeThreadCount, m_idleThreadCount>>
    BY <1>23 DEF TestStopping, goto, eventVars, epollVars, schedVars, timerVars, localVars
  <2>4. QED  BY <2>1, <2>2, <2>3 DEF CountsExact
<1>24. ASSUME NEW t \in Threads, EpollWait(t) PROVE CountsExact'
  <2>1. ActiveSet' = ActiveSet
    BY <1>24 DEF EpollWait, goto, eventVars, epollVars, schedVars, timerVars, localVars,
       ActiveSet, Active
  <2>2. IdleSet' = IdleSet
    BY <1>24 DEF EpollWait, goto, eventVars, epollVars, schedVars, timerVars, localVars,
       IdleSet, Idle, IdleStates
  <2>3. UNCHANGED <<m_activeThreadCount, m_idleThreadCount>>
    BY <1>24 DEF EpollWait, goto, eventVars, epollVars, schedVars, timerVars, localVars
  <2>4. QED  BY <2>1, <2>2, <2>3 DEF CountsExact
<1>25. ASSUME NEW t \in Threads, ScheduleExpired(t) PROVE CountsExact'
  <2>1. ActiveSet' = ActiveSet
    BY <1>25 DEF ScheduleExpired, goto, eventVars, epollVars, schedVars, timerVars, localVars,
       ActiveSet, Active
  <2>2. IdleSet' = IdleSet
    BY <1>25 DEF ScheduleExpired, goto, eventVars, epollVars, schedVars, timerVars, localVars,
       IdleSet, Idle, IdleStates
  <2>3. UNCHANGED <<m_activeThreadCount, m_idleThreadCount>>
    BY <1>25 DEF ScheduleExpired, goto, eventVars, epollVars, schedVars, timerVars, localVars
  <2>4. QED  BY <2>1, <2>2, <2>3 DEF CountsExact
<1>26. ASSUME NEW fd \in Fds, NEW e \in Readiness, FdReady(fd, e) PROVE CountsExact'
  <2>1. ActiveSet' = ActiveSet
    BY <1>26 DEF FdReady, eventVars, epollVars, schedVars, timerVars, localVars, ActiveSet, Active
  <2>2. IdleSet' = IdleSet
    BY <1>26 DEF FdReady, eventVars, epollVars, schedVars, timerVars, localVars, IdleSet, Idle,
       IdleStates
  <2>3. UNCHANGED <<m_activeThreadCount, m_idleThreadCount>>
    BY <1>26 DEF FdReady, eventVars, epollVars, schedVars, timerVars, localVars
  <2>4. QED  BY <2>1, <2>2, <2>3 DEF CountsExact
<1>27. ASSUME NEW w \in Tasks, TimerDue(w) PROVE CountsExact'
  <2>1. ActiveSet' = ActiveSet
    BY <1>27 DEF TimerDue, eventVars, epollVars, schedVars, timerVars, localVars, ActiveSet,
       Active
  <2>2. IdleSet' = IdleSet
    BY <1>27 DEF TimerDue, eventVars, epollVars, schedVars, timerVars, localVars, IdleSet,
       Idle, IdleStates
  <2>3. UNCHANGED <<m_activeThreadCount, m_idleThreadCount>>
    BY <1>27 DEF TimerDue, eventVars, epollVars, schedVars, timerVars, localVars
  <2>4. QED  BY <2>1, <2>2, <2>3 DEF CountsExact
<1>28. ASSUME NEW w \in Tasks, Submit(w) PROVE CountsExact'
  <2>1. ActiveSet' = ActiveSet
    BY <1>28 DEF Submit, eventVars, epollVars, schedVars, timerVars, localVars, ActiveSet, Active
  <2>2. IdleSet' = IdleSet
    BY <1>28 DEF Submit, eventVars, epollVars, schedVars, timerVars, localVars, IdleSet, Idle,
       IdleStates
  <2>3. UNCHANGED <<m_activeThreadCount, m_idleThreadCount>>
    BY <1>28 DEF Submit, eventVars, epollVars, schedVars, timerVars, localVars
  <2>4. QED  BY <2>1, <2>2, <2>3 DEF CountsExact
<1>29. ASSUME TickleOutside PROVE CountsExact'
  <2>1. ActiveSet' = ActiveSet
    BY <1>29 DEF TickleOutside, eventVars, epollVars, schedVars, timerVars, localVars,
       ActiveSet, Active
  <2>2. IdleSet' = IdleSet
    BY <1>29 DEF TickleOutside, eventVars, epollVars, schedVars, timerVars, localVars, IdleSet,
       Idle, IdleStates
  <2>3. UNCHANGED <<m_activeThreadCount, m_idleThreadCount>>
    BY <1>29 DEF TickleOutside, eventVars, epollVars, schedVars, timerVars, localVars
  <2>4. QED  BY <2>1, <2>2, <2>3 DEF CountsExact
<1>30. ASSUME stop PROVE CountsExact'
  <2>1. ActiveSet' = ActiveSet
    BY <1>30 DEF stop, eventVars, epollVars, schedVars, timerVars, localVars, ActiveSet, Active
  <2>2. IdleSet' = IdleSet
    BY <1>30 DEF stop, eventVars, epollVars, schedVars, timerVars, localVars, IdleSet, Idle,
       IdleStates
  <2>3. UNCHANGED <<m_activeThreadCount, m_idleThreadCount>>
    BY <1>30 DEF stop, eventVars, epollVars, schedVars, timerVars, localVars
  <2>4. QED  BY <2>1, <2>2, <2>3 DEF CountsExact
<1>31. ASSUME NEW t \in Threads, YieldToHold(t) PROVE CountsExact'
  <2>1. ActiveSet' = ActiveSet
    BY <1>31 DEF YieldToHold, goto, eventVars, epollVars, schedVars, timerVars, localVars,
       ActiveSet, Active
  <2>2. IdleSet' = IdleSet
    BY <1>31 DEF YieldToHold, goto, eventVars, epollVars, schedVars, timerVars, localVars, IdleSet,
       Idle, IdleStates
  <2>3. UNCHANGED <<m_activeThreadCount, m_idleThreadCount>>
    BY <1>31 DEF YieldToHold, goto, eventVars, epollVars, schedVars, timerVars, localVars
  <2>4. QED  BY <2>1, <2>2, <2>3 DEF CountsExact
<1>32. ASSUME NEW t \in Threads, SwapOut(t) PROVE CountsExact'
  <2>1. t \in ActiveSet /\ ActiveSet' = ActiveSet \ {t}
    BY <1>32 DEF SwapOut, goto, eventVars, epollVars, schedVars, timerVars, localVars,
       ActiveSet, Active
  <2>2. IdleSet' = IdleSet
    BY <1>32 DEF SwapOut, goto, eventVars, epollVars, schedVars, timerVars, localVars, IdleSet,
       Idle, IdleStates
  <2>3. m_activeThreadCount' = m_activeThreadCount - 1 /\ m_idleThreadCount' = m_idleThreadCount
    BY <1>32 DEF SwapOut, goto, eventVars, epollVars, schedVars, timerVars, localVars
  <2>4. m_activeThreadCount' = m_activeThreadCount + (-1) /\ m_idleThreadCount' = m_idleThreadCount + (0)
    BY <2>3, CountFinite DEF CountsExact
  <2>5. QED  BY <2>1, <2>2, <2>4, CountChange
<1>33. CASE UNCHANGED vars
  BY <1>33 DEF CountsExact, ActiveSet, IdleSet, Active, Idle, vars, eventVars, epollVars,
     schedVars, timerVars, localVars
<1>34. QED
  BY <1>1, <1>2, <1>3, <1>4, <1>5, <1>6, <1>7, <1>8, <1>9, <1>10, <1>11, <1>12, <1>13, <1>14,
     <1>15, <1>16, <1>17, <1>18, <1>19, <1>20, <1>21, <1>22, <1>23, <1>24, <1>25, <1>26, <1>27,
     <1>28, <1>29, <1>30, <1>31, <1>32, <1>33, NextCases DEF IOInv, IOType

\* There are two events.
LEMMA EventFinite == IsFiniteSet(Event)
<1>1. Event = {"READ"} \cup {"WRITE"}
  BY DEF Event
<1>2. IsFiniteSet({"READ"})
  BY FS_Singleton
<1>3. IsFiniteSet({"READ"} \cup {"WRITE"})
  BY <1>2, FS_AddElement
<1>4. QED  BY <1>1, <1>3

\* Finitely many registrations.
LEMMA RegisteredFinite == IsFiniteSet(Registered) /\ Cardinality(Registered) \in Nat
<1>2. IsFiniteSet(Fds \X Event)
  BY EventFinite, PoolAssumption, FS_Product
<1>3. Registered \in SUBSET (Fds \X Event)
  BY DEF Registered
<1>4. IsFiniteSet(Registered)
  BY <1>2, <1>3, FS_Subset
<1>5. QED  BY <1>4, FS_CardinalityType

\* An event is registered once more.
LEMMA RegisterCount ==
  ASSUME EventType, PendingExact, NEW fd \in Fds, NEW e \in Event, e \notin events[fd],
         events' = [events EXCEPT ![fd] = @ \cup {e}],
         m_pendingEventCount' = m_pendingEventCount + 1
  PROVE  PendingExact'
<1>1. Registered' = Registered \cup {<<fd, e>>} /\ <<fd, e>> \notin Registered
  <2>1. <<fd, e>> \in Fds \X Event
    OBVIOUS
  <2>2. ASSUME NEW p \in Fds \X Event
        PROVE p[2] \in events'[p[1]] <=> p[2] \in events[p[1]] \/ p = <<fd, e>>
    BY DEF EventType
  <2>3. QED  BY <2>1, <2>2 DEF Registered
<1>2. Cardinality(Registered') = Cardinality(Registered) + 1
  BY <1>1, RegisteredFinite, FS_AddElement
<1>3. QED  BY <1>2 DEF PendingExact, Registered

\* Some of a descriptor's events are removed.
LEMMA UnregisterCount ==
  ASSUME EventType, PendingExact, NEW fd \in Fds, NEW es \in SUBSET Event,
     es \subseteq events[fd],
         events' = [events EXCEPT ![fd] = @ \ es], DecPending(Cardinality(es))
  PROVE  PendingExact'
<1>2. IsFiniteSet(es)
  BY EventFinite, FS_Subset
<1> DEFINE gone == {fd} \X es
<1>3. IsFiniteSet(gone) /\ Cardinality(gone) = Cardinality(es)
  <2>1. IsFiniteSet({fd}) /\ Cardinality({fd}) = 1
    BY FS_Singleton
  <2>2. Cardinality(es) \in Nat
    BY <1>2, FS_CardinalityType
  <2>3. IsFiniteSet(gone) /\ Cardinality(gone) = Cardinality({fd}) * Cardinality(es)
    BY <1>2, <2>1, FS_Product
  <2>4. QED  BY <2>1, <2>2, <2>3
<1>4. Registered' = Registered \ gone /\ Registered \cap gone = gone
  <2>1. ASSUME NEW p \in Fds \X Event
        PROVE p[2] \in events'[p[1]] <=> p[2] \in events[p[1]] /\ p \notin gone
    BY DEF EventType
  <2>2. gone \subseteq Registered
    BY DEF EventType, Registered
  <2>3. QED  BY <2>1, <2>2 DEF Registered
<1> HIDE DEF gone
<1>5. Cardinality(Registered') = Cardinality(Registered) - Cardinality(es)
  <2>1. Cardinality(Registered \ gone) = Cardinality(Registered) - Cardinality(Registered \cap gone)
    BY RegisteredFinite, FS_Difference
  <2>2. QED  BY <1>3, <1>4, <2>1
<1>6. QED  BY <1>5 DEF PendingExact, Registered, DecPending

\* m_pendingEventCount follows the registered events.
LEMMA PendingStep == IOInv /\ [Next]_vars => PendingExact'
<1> SUFFICES ASSUME IOInv, [Next]_vars PROVE PendingExact'
  OBVIOUS
<1>1. ASSUME NEW t \in Threads, NEW fd \in Fds, NEW e \in Event, WaitEvent(t, fd, e)
      PROVE PendingExact'
  BY <1>1, RegisterCount DEF IOInv, IOType, WaitEvent, addEvent
<1>2. ASSUME NEW t \in Threads, NEW fd \in Fds, NEW e \in Event, delEvent(t, fd, e)
      PROVE PendingExact'
  <2>1. {e} \in SUBSET Event /\ {e} \subseteq events[fd] /\ Cardinality({e}) = 1
    BY <1>2, FS_Singleton DEF delEvent
  <2>2. events' = [events EXCEPT ![fd] = @ \ {e}] /\ DecPending(Cardinality({e}))
    BY <1>2, <2>1 DEF delEvent
  <2>3. QED  BY <2>1, <2>2, UnregisterCount DEF IOInv, IOType
<1>3. ASSUME NEW t \in Threads, NEW fd \in Fds, NEW e \in Event, Drain(t, fd, e)
      PROVE PendingExact'
  BY <1>3 DEF Drain, eventVars, IOInv, PendingExact
<1>4. ASSUME NEW t \in Threads, NEW fd \in Fds, NEW e \in Event, NEW w \in Tasks,
      AddEventCb(t, fd, e, w) PROVE PendingExact'
  BY <1>4, RegisterCount DEF IOInv, IOType, AddEventCb, addEvent
<1>5. ASSUME NEW t \in Threads, NEW fd \in Fds, NEW es \in SUBSET Event,
      es \subseteq events[fd], cancelSome(t, fd, es) PROVE PendingExact'
  BY <1>5, UnregisterCount DEF IOInv, IOType, cancelSome, triggerEvent
<1>6. ASSUME NEW t \in Threads, NEW fd \in Fds, CtlError(t, fd) PROVE PendingExact'
  BY <1>6 DEF CtlError, eventVars, IOInv, PendingExact
<1>7. ASSUME NEW t \in Threads, NEW fd \in Fds, Close(t, fd) PROVE PendingExact'
  BY <1>7 DEF Close, eventVars, IOInv, PendingExact
<1>8. ASSUME NEW t \in Threads, NEW fd \in Fds, TriggerReady(t, fd) PROVE PendingExact'
  <2>1. RealEvents(t, fd) \in SUBSET Event /\ RealEvents(t, fd) \subseteq events[fd]
    BY <1>8 DEF TriggerReady, IOInv, IOType, EventType
  <2>2. QED  BY <1>8, <2>1, UnregisterCount DEF IOInv, IOType, TriggerReady, triggerEvent
<1>9. ASSUME NEW t \in Threads, NEW fd \in Fds, SkipEvent(t, fd) PROVE PendingExact'
  BY <1>9 DEF SkipEvent, eventVars, IOInv, PendingExact
<1>10. ASSUME NEW t \in Threads, NEW fd \in Fds, TriggerAborts(t, fd) PROVE PendingExact'
  BY <1>10 DEF TriggerAborts, eventVars, IOInv, PendingExact
<1>11. ASSUME NEW t \in Threads, NEW w \in Tasks, Spawn(t, w) PROVE PendingExact'
  BY <1>11 DEF Spawn, eventVars, IOInv, PendingExact
<1>12. ASSUME NEW t \in Threads, NEW w \in Tasks, AddTimer(t, w) PROVE PendingExact'
  BY <1>12 DEF AddTimer, eventVars, IOInv, PendingExact
<1>13. ASSUME NEW t \in Threads, NEW w \in Tasks, TakeTask(t, w) PROVE PendingExact'
  BY <1>13 DEF TakeTask, eventVars, IOInv, PendingExact
<1>14. ASSUME NEW t \in Threads, YieldReady(t) PROVE PendingExact'
  BY <1>14 DEF YieldReady, eventVars, IOInv, PendingExact
<1>15. ASSUME NEW t \in Threads, Finish(t) PROVE PendingExact'
  BY <1>15 DEF Finish, eventVars, IOInv, PendingExact
<1>16. ASSUME NEW t \in Threads, Requeue(t) PROVE PendingExact'
  BY <1>16 DEF Requeue, eventVars, IOInv, PendingExact
<1>17. ASSUME NEW t \in Threads, tickle(t) PROVE PendingExact'
  BY <1>17 DEF tickle, eventVars, IOInv, PendingExact
<1>18. ASSUME NEW t \in Threads, EnterIdle(t) PROVE PendingExact'
  BY <1>18 DEF EnterIdle, NothingToTake, eventVars, IOInv, PendingExact
<1>19. ASSUME NEW t \in Threads, ExitRun(t) PROVE PendingExact'
  BY <1>19 DEF ExitRun, NothingToTake, eventVars, IOInv, PendingExact
<1>20. ASSUME NEW t \in Threads, LeaveIdle(t) PROVE PendingExact'
  BY <1>20 DEF LeaveIdle, eventVars, IOInv, PendingExact
<1>21. ASSUME NEW t \in Threads, NextTimeout(t) PROVE PendingExact'
  BY <1>21 DEF NextTimeout, eventVars, IOInv, PendingExact
<1>22. ASSUME NEW t \in Threads, TestPending(t) PROVE PendingExact'
  BY <1>22 DEF TestPending, eventVars, IOInv, PendingExact
<1>23. ASSUME NEW t \in Threads, TestStopping(t) PROVE PendingExact'
  BY <1>23 DEF TestStopping, eventVars, IOInv, PendingExact
<1>24. ASSUME NEW t \in Threads, EpollWait(t) PROVE PendingExact'
  BY <1>24 DEF EpollWait, eventVars, IOInv, PendingExact
<1>25. ASSUME NEW t \in Threads, ScheduleExpired(t) PROVE PendingExact'
  BY <1>25 DEF ScheduleExpired, eventVars, IOInv, PendingExact
<1>26. ASSUME NEW fd \in Fds, NEW e \in Readiness, FdReady(fd, e) PROVE PendingExact'
  BY <1>26 DEF FdReady, eventVars, IOInv, PendingExact
<1>27. ASSUME NEW w \in Tasks, TimerDue(w) PROVE PendingExact'
  BY <1>27 DEF TimerDue, eventVars, IOInv, PendingExact
<1>28. ASSUME NEW w \in Tasks, Submit(w) PROVE PendingExact'
  BY <1>28 DEF Submit, eventVars, IOInv, PendingExact
<1>29. ASSUME TickleOutside PROVE PendingExact'
  BY <1>29 DEF TickleOutside, eventVars, IOInv, PendingExact
<1>30. ASSUME stop PROVE PendingExact'
  BY <1>30 DEF stop, eventVars, IOInv, PendingExact
<1>31. ASSUME NEW t \in Threads, YieldToHold(t) PROVE PendingExact'
  BY <1>31 DEF YieldToHold, eventVars, IOInv, PendingExact
<1>32. ASSUME NEW t \in Threads, SwapOut(t) PROVE PendingExact'
  BY <1>32 DEF SwapOut, eventVars, IOInv, PendingExact
<1>33. CASE UNCHANGED vars
  BY <1>33 DEF IOInv, PendingExact, vars, eventVars, epollVars, schedVars, timerVars, localVars
<1>34. QED
  BY <1>1, <1>2, <1>3, <1>4, <1>5, <1>6, <1>7, <1>8, <1>9, <1>10, <1>11, <1>12, <1>13, <1>14,
     <1>15, <1>16, <1>17, <1>18, <1>19, <1>20, <1>21, <1>22, <1>23, <1>24, <1>25, <1>26, <1>27,
     <1>28, <1>29, <1>30, <1>31, <1>32, <1>33, NextCases DEF IOInv, IOType

-----------------------------------------------------------------------------
(* The theorems                                                             *)

\* The invariant holds initially.
LEMMA InitInv == Init => IOInv
<1> SUFFICES ASSUME Init PROVE IOInv
  OBVIOUS
<1> USE PoolAssumption DEF Init, Started
<1>1. EventType
  BY DEF EventType
<1>2. ThreadType
  BY DEF ThreadType, RunStates
<1>3. RestType
  <2>1. 0 \in 0 .. PipeCapacity /\ 0 \in 0 .. MaxOps
    OBVIOUS
  <2>2. QED  BY <2>1 DEF RestType
<1>4. CurOK /\ ContextMatchesEvents /\ EpollOK /\ ReadinessKept /\ ExitOK
  BY DEF CurOK, Active, ContextMatchesEvents, EpollOK, ReadinessKept, ExitOK, NoTaskLeftBehind
<1>5. HeldExcl
  BY DEF HeldExcl
<1>6. ActiveSet = {} /\ IdleSet = {}
  BY DEF ActiveSet, IdleSet, Active, Idle, IdleStates
<1>7. CountsExact
  BY <1>6, FS_EmptySet DEF CountsExact
<1>8. {p \in Fds \X Event : p[2] \in events[p[1]]} = {}
  OBVIOUS
<1>9. PendingExact
  BY <1>8, FS_EmptySet DEF PendingExact
<1>10. QED  BY <1>1, <1>2, <1>3, <1>4, <1>5, <1>7, <1>9 DEF IOInv, IOType

\* Every step preserves it.
LEMMA Inductive == IOInv /\ [Next]_vars => IOInv'
BY EventTypeStep, ThreadTypeStep, RestTypeStep, CurStep, ContextStep, HeldStep, EpollStep,
   ReadinessStep, ExitStep, CountsStep, PendingStep DEF IOInv, IOType

\* So it holds always.
LEMMA InvAlways == Spec => []IOInv
BY InitInv, Inductive, PTL DEF Spec

\* The event bits, the contexts that hold the waiting tasks and the count that
\* stopping() reads agree, through addEvent, delEvent, cancelEvent, cancelAll and
\* idle(), and no counter goes below zero (iomanager.cc 116-375, 396-549).
THEOREM EventsCorrect == Spec => []EventsConsistent
<1>1. IOInv => TypeOK
  <2> SUFFICES ASSUME IOInv PROVE TypeOK
    OBVIOUS
  <2>1. m_activeThreadCount \in Nat /\ m_idleThreadCount \in Nat
    BY CountFinite DEF IOInv, CountsExact
  <2>2. m_pendingEventCount \in Nat
    BY RegisteredFinite DEF IOInv, PendingExact, Registered
  <2>3. QED
    BY <2>1, <2>2 DEF IOInv, IOType, EventType, ThreadType, RestType, RunStates, Readiness, TypeOK
<1>2. IOInv => EventsConsistent
  BY <1>1 DEF IOInv, EventsConsistent
<1>3. QED  BY <1>2, InvAlways, PTL

\* As long as no thread has taken a task off another thread's stack, a task waits in one
\* place (the queue, a timer, one event), is executed by one thread, and does both only
\* between its addEvent and the end of its swapOut; and in every case the last thread
\* leaves no task in the queue (iomanager.cc 36-56, 413-549; hook.cc 67-84).
THEOREM TasksCorrect == Spec => []TasksKept
<1>1. IOInv => TaskHeldOnce
  <2> SUFFICES ASSUME IOInv, ~torn PROVE TaskHeldOnce
    BY DEF TaskHeldOnce
  <2> DEFINE C(w) == {p \in Fds \X Event : ctx[p[1]][p[2]] = w}
             waits(w) == Cardinality(C(w)) + (IF w \in queue THEN 1 ELSE 0)
                            + (IF w \in timers THEN 1 ELSE 0)
  <2>1. ASSUME NEW w \in Tasks PROVE waits(w) <= 1
    <3>1. w # NoTask
      BY PoolAssumption
    <3>2. w \in queue \cup timers => C(w) = {}
      BY DEF IOInv, HeldExcl
    <3>3. \A p, q \in C(w) : p = q
      <4> SUFFICES ASSUME NEW p \in C(w), NEW q \in C(w) PROVE p = q
        OBVIOUS
      <4>1. p[1] = q[1] /\ p[2] = q[2]
        BY <3>1 DEF IOInv, HeldExcl
      <4>2. p \in Fds \X Event /\ q \in Fds \X Event
        OBVIOUS
      <4>3. QED  BY <4>1, <4>2
    <3>4. w \in queue => w \notin timers
      BY DEF IOInv, HeldExcl
    <3> HIDE DEF C
    <3>5. C(w) = {} \/ \E x : C(w) = {x}
      BY <3>3
    <3>6. Cardinality(C(w)) \in {0, 1} /\ (C(w) = {} => Cardinality(C(w)) = 0)
      BY <3>5, FS_EmptySet, FS_Singleton
    <3>7. QED  BY <3>2, <3>4, <3>6
  <2>2. ASSUME NEW w \in Tasks, NEW t \in Threads, NEW u \in Threads, cur[t] = w, cur[u] = w
        PROVE  t = u
    BY <2>2, PoolAssumption DEF IOInv, HeldExcl
  <2>3. ASSUME NEW w \in Tasks, NEW t \in Threads, cur[t] = w,
               pc[t] \notin {"armed", "swapOut"}
        PROVE  waits(w) = 0
    <3>1. w \notin queue /\ w \notin timers
      BY <2>3 DEF IOInv, HeldExcl, Leaving
    <3>2. C(w) = {}
      BY <2>3, PoolAssumption DEF IOInv, HeldExcl, Leaving
    <3> HIDE DEF C
    <3>3. Cardinality(C(w)) = 0
      BY <3>2, FS_EmptySet
    <3>4. QED  BY <3>1, <3>3
  <2> HIDE DEF waits, C
  <2>4. \A w \in Tasks :
           /\ waits(w) <= 1
           /\ \A t, u \in Threads : cur[t] = w /\ cur[u] = w => t = u
           /\ \A t \in Threads : cur[t] = w /\ pc[t] \notin {"armed", "swapOut"} => waits(w) = 0
    BY <2>1, <2>2, <2>3
  <2>5. QED  BY <2>4, Zenon DEF TaskHeldOnce, waits, C
<1>2. IOInv => TasksKept
  BY <1>1 DEF IOInv, ExitOK, TasksKept
<1>3. QED  BY <1>2, InvAlways, PTL

\* Readiness that edge-triggered epoll has reported once is on its list again or
\* in the hands of a thread in idle(), also where idle() skips a descriptor that
\* another thread has changed meanwhile (iomanager.cc 478-541).
THEOREM ReadinessCorrect == Spec => []NoLostReadiness
<1>1. IOInv => NoLostReadiness
  <2> SUFFICES ASSUME IOInv, NEW fd \in inEpoll,
        NEW e \in ready[fd] \cap (events[fd] \cup {"ERR"}),
                      fd \notin rdl
               PROVE  \E t \in Threads : batch[t][fd] # {}
    BY DEF NoLostReadiness
  <2>1. QED  BY DEF IOInv, ReadinessKept
<1>2. QED  BY <1>1, InvAlways, PTL
================================================================================
