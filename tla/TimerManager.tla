---------------------------- MODULE TimerManager ----------------------------
(***************************************************************************)
(* Timers: sylar/timer.{h,cc}, driven by the threads in IOManager::idle.    *)
(*                                                                         *)
(* m_timers is a set ordered by (m_next, address); its members' m_next only *)
(* changes while they are outside it, so the order is left to m_next.  A    *)
(* Timer's m_cb is empty (FALSE) once it has fired or has been cancelled.   *)
(* Every action is one critical section of m_mutex, or one read of the      *)
(* clock outside it: GetCurrentMS is called before the lock is taken in the *)
(* constructor and in listExpiredCb.  m_idleThreadCount, which tickle()     *)
(* asks about, counts the threads that are at one of the InIdle points.     *)
(***************************************************************************)
EXTENDS Integers, FiniteSets

CONSTANTS
    Timers,      \* Timer objects that may be constructed
    Pollers,     \* threads that run idle(): getNextTimer, wait, listExpiredCb
    Intervals,   \* values of m_ms
    Start,       \* the clock when the manager is built
    MaxTime,     \* bound on the clock
    MaxNext,     \* bound on the deadlines
    MaxWait,     \* MAX_TIMEOUT of IOManager::idle
    IntLimit,    \* 2^31, the first value an int does not hold
    Hour,        \* the 60*60*1000 ms of detectClockRollover
    MaxJumps     \* bound on backward adjustments of the system clock

ASSUME TimeAssumption ==
    /\ Start \in Nat /\ MaxTime \in Nat /\ MaxNext \in Nat
    /\ MaxWait \in Nat /\ Hour \in Nat /\ MaxJumps \in Nat
    /\ IntLimit \in Nat /\ MaxWait < IntLimit
    /\ Intervals \subseteq Nat

VARIABLES
    m_timers, m_cb, m_recurring, m_ms, m_next,
    m_tickled, m_previouseTime,
    clock,       \* what GetCurrentMS returns
    jumps,       \* backward adjustments so far (bound only)
    fresh,       \* timers not constructed yet
    made,        \* timers constructed and not yet inserted
    owed,        \* an adder has released m_mutex and will notify
    wake,        \* tickle() has written to the pipe: a wait returns
    ppc,         \* where each poller is
    deadline,    \* when its wait ends (Start outside the wait)
    now_ms,      \* listExpiredCb's local (Start outside it)
    cancelled,   \* timers whose cancel() returned true
    fired,       \* timers whose callback was handed out
    derefEmpty   \* *m_timers.begin() was read in an empty set

timerSetVars == <<m_timers, m_cb, m_recurring, m_ms, m_next>>
clockVars == <<clock, jumps>>
notifyVars == <<m_tickled, owed, wake>>
pollVars  == <<ppc, deadline, now_ms, m_previouseTime, derefEmpty>>
historyVars == <<cancelled, fired>>

timerMgrVars == <<timerSetVars, clockVars, notifyVars, pollVars, historyVars, fresh, made>>

InIdle == {"top", "wait", "endless", "woken", "check", "list", "out"}

\* Every variable has its type, and no wait with an end is longer than MAX_TIMEOUT.
TimerTypeOK ==
    /\ m_timers \subseteq Timers
    /\ m_cb \in [Timers -> BOOLEAN]
    /\ m_recurring \in [Timers -> BOOLEAN]
    /\ m_ms \in [Timers -> Nat]
    /\ m_next \in [Timers -> Int]
    /\ m_tickled \in BOOLEAN /\ owed \in BOOLEAN /\ wake \in BOOLEAN
    /\ m_previouseTime \in Int
    /\ clock \in Int /\ jumps \in Nat
    /\ fresh \subseteq Timers /\ made \subseteq Timers
    /\ ppc \in [Pollers -> InIdle \cup {"run"}]
    /\ deadline \in [Pollers -> Int]
    /\ \A p \in Pollers : ppc[p] = "wait" => deadline[p] <= clock + MaxWait
    /\ now_ms \in [Pollers -> Int]
    /\ cancelled \subseteq Timers /\ fired \subseteq Timers
    /\ derefEmpty \in BOOLEAN

TimerInit ==
    /\ m_timers = {}
    /\ m_cb = [t \in Timers |-> FALSE]
    /\ m_recurring = [t \in Timers |-> FALSE]
    /\ m_ms = [t \in Timers |-> 0]
    /\ m_next = [t \in Timers |-> 0]
    /\ m_tickled = FALSE /\ owed = FALSE /\ wake = FALSE
    /\ m_previouseTime = Start
    /\ clock = Start /\ jumps = 0
    /\ fresh = Timers /\ made = {}
    /\ ppc = [p \in Pollers |-> "run"]
    /\ deadline = [p \in Pollers |-> Start]
    /\ now_ms = [p \in Pollers |-> Start]
    /\ cancelled = {} /\ fired = {}
    /\ derefEmpty = FALSE

-----------------------------------------------------------------------------
(* Adding a timer                                                           *)

\* t is at m_timers.begin() of the set S under the deadlines next.
AtFront(t, S, next) == \A u \in S : next[t] <= next[u]

\* Timer::Timer reads the clock before addTimer takes the lock.
Timer(t, ms, recurring) ==
    /\ t \in fresh
    /\ clock + ms <= MaxNext
    /\ m_cb' = [m_cb EXCEPT ![t] = TRUE]
    /\ m_recurring' = [m_recurring EXCEPT ![t] = recurring]
    /\ m_ms' = [m_ms EXCEPT ![t] = ms]
    /\ m_next' = [m_next EXCEPT ![t] = clock + ms]
    /\ fresh' = fresh \ {t}
    /\ made' = made \cup {t}
    /\ UNCHANGED <<m_timers, clockVars, notifyVars, pollVars, historyVars>>

\* addTimer(val, lock): insert, and decide under the lock whether to notify.
\* The address decides between equal deadlines, so either may be in front.
InsertAndNotify(t, S, next) ==
    /\ m_timers' = S \cup {t}
    /\ \E front \in BOOLEAN :
        /\ front => AtFront(t, S, next)
        /\ ~front => \E u \in S \ {t} : next[u] <= next[t]
        /\ m_tickled' = (m_tickled \/ front)
        /\ owed' = (owed \/ (front /\ ~m_tickled))

addTimer(t) ==
    /\ t \in made
    /\ InsertAndNotify(t, m_timers, m_next)
    /\ made' = made \ {t}
    /\ UNCHANGED <<m_cb, m_recurring, m_ms, m_next, fresh, wake, clockVars,
                   pollVars, historyVars>>

hasIdlePollers == \E p \in Pollers : ppc[p] \in InIdle

\* IOManager::tickle writes to the pipe only when no thread is idle.
tickleFront == wake' = (wake \/ ~hasIdlePollers)

\* The notification is sent after the lock is released.
onTimerInsertedAtFront ==
    /\ owed
    /\ owed' = FALSE
    /\ tickleFront
    /\ UNCHANGED <<timerSetVars, m_tickled, clockVars, pollVars, historyVars, fresh, made>>

-----------------------------------------------------------------------------
(* Operations on a Timer the user holds: only after addTimer returned it.   *)

Held(t) == t \notin fresh \cup made

cancel(t) ==
    /\ Held(t)
    /\ m_cb[t]
    /\ m_cb' = [m_cb EXCEPT ![t] = FALSE]
    /\ m_timers' = m_timers \ {t}
    /\ cancelled' = cancelled \cup {t}
    /\ UNCHANGED <<m_recurring, m_ms, m_next, clockVars, notifyVars, pollVars,
                   fired, fresh, made>>

\* The callback is emptied as in cancel(), then the timer is inserted again.
refresh(t) ==
    /\ Held(t)
    /\ m_cb[t]
    /\ clock + m_ms[t] <= MaxNext
    /\ m_cb' = [m_cb EXCEPT ![t] = FALSE]
    /\ IF t \in m_timers
       THEN m_next' = [m_next EXCEPT ![t] = clock + m_ms[t]]
       ELSE UNCHANGED m_next
    /\ UNCHANGED <<m_timers, m_recurring, m_ms, clockVars, notifyVars, pollVars,
                   historyVars, fresh, made>>

StartOf(t, from_now) == IF from_now THEN clock ELSE m_next[t] - m_ms[t]

reset(t, ms, from_now) ==
    /\ Held(t)
    /\ m_cb[t]
    /\ ~(ms = m_ms[t] /\ ~from_now)
    /\ StartOf(t, from_now) + ms <= MaxNext
    /\ m_cb' = [m_cb EXCEPT ![t] = FALSE]
    /\ IF t \in m_timers
       THEN /\ m_ms' = [m_ms EXCEPT ![t] = ms]
            /\ m_next' = [m_next EXCEPT ![t] = StartOf(t, from_now) + ms]
            /\ InsertAndNotify(t, m_timers \ {t}, m_next')
       ELSE UNCHANGED <<m_timers, m_ms, m_next, m_tickled, owed>>
    /\ UNCHANGED <<m_recurring, wake, clockVars, pollVars, historyVars, fresh, made>>

-----------------------------------------------------------------------------
(* A thread in idle()                                                       *)

\* run() found no task and counts the thread idle.
EnterPoll(p) ==
    /\ ppc[p] = "run"
    /\ ppc' = [ppc EXCEPT ![p] = "top"]
    /\ UNCHANGED <<timerSetVars, notifyVars, clockVars, deadline, now_ms, m_previouseTime,
                   derefEmpty, historyVars, fresh, made>>

\* getNextTimer's answer: the time to the earliest deadline, 0 if it is over; an
\* empty set gives ~0ull, for which idle() takes MAX_TIMEOUT.
NextTimeouts ==
    IF m_timers = {} THEN {MaxWait}
    ELSE {ms \in {IF clock >= m_next[t] THEN 0 ELSE m_next[t] - clock : t \in m_timers} :
            \A t \in m_timers : ms <= m_next[t] - clock \/ ms = 0}

\* The conversion of a uint64_t to int.
ToInt(x) == ((x + IntLimit) % (2 * IntLimit)) - IntLimit

\* The timeout idle() passes to epoll_wait: the comparison with MAX_TIMEOUT, like
\* the argument itself, is made on the value as an int, which may be negative.
WaitTimeout(ms) == IF ToInt(ms) > MaxWait THEN MaxWait ELSE ToInt(ms)

\* The bound on the clock ends the waits that would outlast it.
Within(time) == IF time <= MaxTime THEN time ELSE MaxTime

\* idle() asks for the next timer and enters epoll_wait, for ever if the timeout
\* is negative.
getNextTimer(p) ==
    /\ ppc[p] = "top"
    /\ m_tickled' = FALSE
    /\ \E ms \in NextTimeouts :
        \/ /\ WaitTimeout(ms) >= 0
           /\ deadline' = [deadline EXCEPT ![p] = Within(clock + WaitTimeout(ms))]
           /\ ppc' = [ppc EXCEPT ![p] = "wait"]
        \/ /\ WaitTimeout(ms) < 0
           /\ ppc' = [ppc EXCEPT ![p] = "endless"]
           /\ UNCHANGED deadline
    /\ UNCHANGED <<timerSetVars, owed, wake, clockVars, now_ms, m_previouseTime,
                   derefEmpty, historyVars, fresh, made>>

\* epoll_wait returns on its timeout or because it was woken.
EpollReturns(p) ==
    /\ \/ ppc[p] = "wait" /\ (wake \/ deadline[p] <= clock)
       \/ ppc[p] = "endless" /\ wake
    /\ wake' = FALSE
    /\ deadline' = [deadline EXCEPT ![p] = Start]
    /\ ppc' = [ppc EXCEPT ![p] = "woken"]
    /\ UNCHANGED <<timerSetVars, m_tickled, owed, clockVars, now_ms,
                   m_previouseTime, derefEmpty, historyVars, fresh, made>>

\* listExpiredCb: the clock is read before any lock.
ReadClock(p) ==
    /\ ppc[p] = "woken"
    /\ now_ms' = [now_ms EXCEPT ![p] = clock]
    /\ ppc' = [ppc EXCEPT ![p] = "check"]
    /\ UNCHANGED <<timerSetVars, notifyVars, clockVars, deadline,
                   m_previouseTime, derefEmpty, historyVars, fresh, made>>

\* The emptiness test under the read lock.
TestEmpty(p) ==
    /\ ppc[p] = "check"
    /\ \/ /\ m_timers = {}
          /\ ppc' = [ppc EXCEPT ![p] = "out"]
          /\ now_ms' = [now_ms EXCEPT ![p] = Start]
       \/ /\ m_timers # {}
          /\ ppc' = [ppc EXCEPT ![p] = "list"]
          /\ UNCHANGED now_ms
    /\ UNCHANGED <<timerSetVars, notifyVars, clockVars, deadline,
                   m_previouseTime, derefEmpty, historyVars, fresh, made>>

detectClockRollover(p) ==
    now_ms[p] < m_previouseTime /\ now_ms[p] < m_previouseTime - Hour

\* Mutant: a timer due one tick later is taken too.
ExpiredOffByOne(p) ==
    {t \in m_timers : detectClockRollover(p) \/ m_next[t] <= now_ms[p] + 1}

\* begin() up to lower_bound(now), and those equal to now.
Expired(p) ==
    {t \in m_timers : detectClockRollover(p) \/ m_next[t] <= now_ms[p]}

\* Mutant: a one-shot timer keeps its callback after it was handed out.
KeepCallbacks(E) == UNCHANGED m_cb

ReleaseCallbacks(E) ==
    m_cb' = [t \in Timers |-> m_cb[t] /\ (t \in E => m_recurring[t])]

\* Mutant: every expired timer is inserted again.
ReinsertAll(E) == m_timers

\* m_timers after the expired ones are erased and the recurring ones inserted.
Reinserted(E) == {t \in m_timers : t \in E => m_recurring[t]}

\* The rest of listExpiredCb under the write lock; idle() schedules the
\* callbacks (the scheduler ignores an empty one).
listExpiredCb(p) ==
    LET E == Expired(p) IN
    /\ ppc[p] = "list"
    /\ m_timers # {} \/ detectClockRollover(p)
    /\ m_previouseTime' = now_ms[p]
    /\ m_timers' = Reinserted(E)
    /\ m_next' = [t \in Timers |->
                    IF t \in E /\ m_recurring[t] THEN now_ms[p] + m_ms[t]
                                                 ELSE m_next[t]]
    /\ ReleaseCallbacks(E)
    /\ fired' = fired \cup {t \in E : m_cb[t]}
    /\ ppc' = [ppc EXCEPT ![p] = "out"]
    /\ now_ms' = [now_ms EXCEPT ![p] = Start]
    /\ UNCHANGED <<m_recurring, m_ms, notifyVars, clockVars, deadline,
                   derefEmpty, cancelled, fresh, made>>

\* m_timers was emptied between the two locks: *m_timers.begin() is undefined
\* and ends the program.
EmptyDereference(p) ==
    /\ ppc[p] = "list"
    /\ m_timers = {}
    /\ ~detectClockRollover(p)
    /\ derefEmpty' = TRUE
    /\ m_previouseTime' = now_ms[p]
    /\ UNCHANGED <<timerSetVars, notifyVars, clockVars, ppc, deadline, now_ms,
                   historyVars, fresh, made>>

\* The idle fiber swaps out and run() counts the thread out of idle().
LeavePoll(p) ==
    /\ ppc[p] = "out"
    /\ ppc' = [ppc EXCEPT ![p] = "run"]
    /\ UNCHANGED <<timerSetVars, notifyVars, clockVars, deadline, now_ms, m_previouseTime,
                   derefEmpty, historyVars, fresh, made>>

-----------------------------------------------------------------------------
Tick ==
    /\ clock < MaxTime
    /\ clock' = clock + 1
    /\ UNCHANGED <<timerSetVars, jumps, notifyVars, pollVars, historyVars, fresh, made>>

\* The system clock is set back; a wait in progress keeps its remaining time.
SetBack ==
    /\ jumps < MaxJumps
    /\ jumps' = jumps + 1
    /\ \E new \in Hour .. clock - 1 :
        /\ clock' = new
        /\ deadline' = [p \in Pollers |-> deadline[p] - (clock - new)]
    /\ UNCHANGED <<timerSetVars, notifyVars, ppc, now_ms, m_previouseTime,
                   derefEmpty, historyVars, fresh, made>>

\* A program that crashed does nothing more, nor does one whose threads all wait for ever.
AtRest == (derefEmpty \/ \A p \in Pollers : ppc[p] = "endless") /\ UNCHANGED timerMgrVars

TimerUserStep(t) ==
    \/ \E ms \in Intervals, r \in BOOLEAN : Timer(t, ms, r)
    \/ cancel(t)
    \/ refresh(t)
    \/ \E ms \in Intervals, b \in BOOLEAN : reset(t, ms, b)

PollStep(p) ==
    ~derefEmpty /\ (EnterPoll(p) \/ getNextTimer(p) \/ EpollReturns(p) \/ ReadClock(p)
                 \/ TestEmpty(p) \/ listExpiredCb(p) \/ EmptyDereference(p) \/ LeavePoll(p))

AddStep ==
    ~derefEmpty /\ (onTimerInsertedAtFront \/ \E t \in Timers : addTimer(t))

ClockStep == ~derefEmpty /\ Tick

TimerNext ==
    \/ ~derefEmpty /\ \E t \in Timers : TimerUserStep(t)
    \/ ~derefEmpty /\ SetBack
    \/ AddStep
    \/ ClockStep
    \/ \E p \in Pollers : PollStep(p)
    \/ AtRest

TimerSpec == TimerInit /\ [][TimerNext]_timerMgrVars

\* Time passes, and the operating system runs every thread.
TimerFairSpec ==
    /\ TimerSpec
    /\ WF_timerMgrVars(ClockStep)
    /\ WF_timerMgrVars(AddStep)
    /\ \A p \in Pollers : WF_timerMgrVars(PollStep(p))

-----------------------------------------------------------------------------
(* Properties                                                               *)

\* cancel() erases find(this) without testing it against end(), and refresh
\* and reset doubt it in a comment: a timer that still has its callback is in
\* m_timers, whatever poller expired or rescheduled it in between.
CallbackImpliesQueued == \A t \in Timers : m_cb[t] /\ Held(t) => t \in m_timers

\* cancel() and listExpiredCb decide a one-shot timer exactly once: if cancel
\* returned true its callback is never handed out, and the other way round.
CancelDecides ==
    \A t \in Timers : t \in cancelled /\ t \in fired => m_recurring[t]

\* "Wake first, then compute a time again" (iomanager.cc:555): no thread sleeps
\* past the earliest deadline; when all pollers wait, one of them wakes in time or a
\* notification is on its way.
NoOversleep ==
    (m_timers # {} /\ \A p \in Pollers : ppc[p] = "wait") =>
        \/ wake \/ owed
        \/ \E p \in Pollers : \A t \in m_timers : deadline[p] <= m_next[t]

\* While the clock has not been set back, no callback is handed out before its
\* deadline, unless the thread that hands it out was held up for more than an hour
\* between listExpiredCb's reading of the clock and its lock: another thread has then
\* recorded a later reading, and detectClockRollover takes the stale one for a clock
\* set back.
NoEarlyFire ==
    [][\A p \in Pollers : listExpiredCb(p) /\ jumps = 0 =>
            \/ now_ms[p] + Hour < clock
            \/ \A t \in Expired(p) : m_next[t] <= clock]_timerMgrVars

\* A one-shot timer does not stay in m_timers for ever (IOManager::stopping waits for
\* the set to be empty), although tickle() wakes no poller that waits: each comes back
\* after MAX_TIMEOUT.  Only a first timer 2^31 ms ahead can make all of them wait
\* without end.
OneShotLeaves ==
    \A t \in Timers :
        (t \in m_timers /\ ~m_recurring[t]) ~>
            (t \notin m_timers \/ derefEmpty \/ \A p \in Pollers : ppc[p] = "endless")

\* refresh(), "sets the execution time again" (timer.h:18), and reset(): a timer
\* waiting in m_timers has a callback to run.
QueuedHasCallback == \A t \in m_timers : m_cb[t]

\* The set, the callbacks and the waits agree: TimerTypeOK bounds the waits, a timer
\* with a callback is queued, and cancel() and expiry decide a timer once.
TimersConsistent == TimerTypeOK /\ CallbackImpliesQueued /\ CancelDecides
=============================================================================
