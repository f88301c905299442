-------------------------- MODULE TimerManagerProofs --------------------------
(***************************************************************************)
(* Proofs about TimerManager, for every set of timers and of polling        *)
(* threads, every interval and every bound on the clock.                    *)
(*                                                                         *)
(* Ownership: TimerTypeOK, CallbackImpliesQueued and CancelDecides are      *)
(* inductive together with OwnerOK, what a timer's membership in fresh,     *)
(* made, m_timers, cancelled and fired says of its callback.                *)
(* Firing: until the clock is set back no reading of it is ahead of it,     *)
(* ReadingsOK, so that detectClockRollover needs a reading an hour old.     *)
(***************************************************************************)
EXTENDS TimerManager, TLAPS

\* Timers move from fresh to made to m_timers; a cancelled timer and a one-shot
\* timer that has fired have no callback left.
OwnerOK ==
    /\ fresh \cap made = {} /\ m_timers \cap (fresh \cup made) = {}
    /\ (cancelled \cup fired) \cap (fresh \cup made) = {}
    /\ \A t \in cancelled : ~m_cb[t]
    /\ \A t \in fired : m_cb[t] => m_recurring[t]

TimerInv == TimerTypeOK /\ OwnerOK /\ CallbackImpliesQueued /\ CancelDecides

-----------------------------------------------------------------------------
(* The set, the callbacks and the waits                                     *)

\* The steps of TimerNext, one by one.
LEMMA NextCases ==
  ASSUME [TimerNext]_timerMgrVars
  PROVE  \/ \E t \in Timers, ms \in Intervals, r \in BOOLEAN : Timer(t, ms, r) \/ reset(t, ms, r)
         \/ \E t \in Timers : cancel(t) \/ refresh(t) \/ addTimer(t)
         \/ onTimerInsertedAtFront
         \/ \E p \in Pollers :
                \/ getNextTimer(p) \/ EpollReturns(p) \/ ReadClock(p) \/ TestEmpty(p)
                \/ listExpiredCb(p) \/ EmptyDereference(p) \/ EnterPoll(p) \/ LeavePoll(p)
         \/ Tick \/ SetBack \/ UNCHANGED timerMgrVars
BY DEF TimerNext, TimerUserStep, AddStep, ClockStep, PollStep, AtRest

\* TimerTypeOK holds initially.
LEMMA TypeInit == TimerInit => TimerTypeOK
<1> SUFFICES ASSUME TimerInit PROVE TimerTypeOK
  OBVIOUS
<1>1. /\ m_cb \in [Timers -> BOOLEAN] /\ m_recurring \in [Timers -> BOOLEAN]
      /\ m_ms \in [Timers -> Nat] /\ m_next \in [Timers -> Int]
  BY DEF TimerInit
<1>2. /\ ppc \in [Pollers -> InIdle \cup {"run"}]
      /\ deadline \in [Pollers -> Int] /\ now_ms \in [Pollers -> Int]
      /\ \A p \in Pollers : ppc[p] # "wait"
  BY TimeAssumption DEF TimerInit
<1>3. /\ clock = Start /\ m_previouseTime = Start /\ Start \in Int /\ jumps = 0
      /\ m_timers = {} /\ fresh = Timers /\ made = {} /\ cancelled = {} /\ fired = {}
      /\ m_tickled = FALSE /\ owed = FALSE /\ wake = FALSE /\ derefEmpty = FALSE
  BY TimeAssumption DEF TimerInit
<1>4. QED
  BY <1>1, <1>2, <1>3 DEF TimerTypeOK

\* getNextTimer's answers are integers.
LEMMA MsIsInt ==
  ASSUME TimerTypeOK, NEW ms \in NextTimeouts
  PROVE  ms \in Int
BY TimeAssumption DEF NextTimeouts, TimerTypeOK

\* epoll_wait never gets a timeout above MAX_TIMEOUT.
LEMMA WaitBounded ==
  ASSUME NEW ms \in Int
  PROVE  WaitTimeout(ms) \in Int /\ WaitTimeout(ms) <= MaxWait
<1>1. ToInt(ms) \in Int
  BY TimeAssumption DEF ToInt
<1>2. QED
  BY <1>1, TimeAssumption DEF WaitTimeout

\* Every step keeps the types and the bound on the waits.
LEMMA TypeNext == TimerTypeOK /\ [TimerNext]_timerMgrVars => TimerTypeOK'
<1> SUFFICES ASSUME TimerTypeOK, [TimerNext]_timerMgrVars PROVE TimerTypeOK'
  OBVIOUS
<1> USE TimeAssumption DEF TimerTypeOK, InIdle
<1>1. ASSUME NEW t \in Timers, NEW ms \in Intervals, NEW r \in BOOLEAN,
      Timer(t, ms, r) PROVE TimerTypeOK'
  BY <1>1 DEF Timer, timerSetVars, clockVars, notifyVars, pollVars, historyVars
<1>2. ASSUME NEW t \in Timers, addTimer(t) PROVE TimerTypeOK'
  BY <1>2 DEF addTimer, InsertAndNotify, timerSetVars, clockVars, notifyVars, pollVars, historyVars
<1>3. ASSUME onTimerInsertedAtFront PROVE TimerTypeOK'
  BY <1>3 DEF onTimerInsertedAtFront, tickleFront, timerSetVars, clockVars, notifyVars, pollVars,
     historyVars
<1>4. ASSUME NEW t \in Timers, cancel(t) PROVE TimerTypeOK'
  BY <1>4 DEF cancel, timerSetVars, clockVars, notifyVars, pollVars, historyVars
<1>5. ASSUME NEW t \in Timers, refresh(t) PROVE TimerTypeOK'
  BY <1>5 DEF refresh, timerSetVars, clockVars, notifyVars, pollVars, historyVars
<1>6. ASSUME NEW t \in Timers, NEW ms \in Intervals, NEW b \in BOOLEAN,
      reset(t, ms, b) PROVE TimerTypeOK'
  BY <1>6 DEF reset, InsertAndNotify, StartOf, timerSetVars, clockVars, notifyVars, pollVars,
     historyVars
<1>7. ASSUME NEW p \in Pollers, getNextTimer(p) PROVE TimerTypeOK'
  <2>1. PICK ms \in NextTimeouts :
            \/ /\ WaitTimeout(ms) >= 0
               /\ deadline' = [deadline EXCEPT ![p] = Within(clock + WaitTimeout(ms))]
               /\ ppc' = [ppc EXCEPT ![p] = "wait"]
            \/ ppc' = [ppc EXCEPT ![p] = "endless"] /\ UNCHANGED deadline
    BY <1>7 DEF getNextTimer
  <2>2. WaitTimeout(ms) \in Int /\ WaitTimeout(ms) <= MaxWait
    BY MsIsInt, <2>1, WaitBounded
  <2>3. Within(clock + WaitTimeout(ms)) \in Int
        /\ Within(clock + WaitTimeout(ms)) <= clock + MaxWait
    BY <2>2 DEF Within
  <2>4. /\ deadline' \in [Pollers -> Int] /\ ppc' \in [Pollers -> InIdle \cup {"run"}]
        /\ \A q \in Pollers : ppc'[q] = "wait" => deadline'[q] <= clock + MaxWait
    BY <2>1, <2>3 DEF InIdle
  <2>5. QED
    BY <1>7, <2>4 DEF getNextTimer, timerSetVars, clockVars, notifyVars, pollVars,
       historyVars
<1>8. ASSUME NEW p \in Pollers, EpollReturns(p) PROVE TimerTypeOK'
  <2>1. /\ ppc' = [ppc EXCEPT ![p] = "woken"] /\ deadline' = [deadline EXCEPT ![p] = Start]
        /\ wake' = FALSE
    BY <1>8 DEF EpollReturns
  <2>2. /\ ppc' \in [Pollers -> InIdle \cup {"run"}]
        /\ deadline' \in [Pollers -> Int]
        /\ \A q \in Pollers : ppc'[q] = "wait" => deadline'[q] <= clock + MaxWait
    BY <2>1
  <2>3. QED
    BY <1>8, <2>1, <2>2 DEF EpollReturns, timerSetVars, clockVars, notifyVars, pollVars, historyVars
<1>9. ASSUME NEW p \in Pollers, ReadClock(p) PROVE TimerTypeOK'
  BY <1>9 DEF ReadClock, timerSetVars, clockVars, notifyVars, pollVars, historyVars
<1>10. ASSUME NEW p \in Pollers, TestEmpty(p) PROVE TimerTypeOK'
  BY <1>10 DEF TestEmpty, timerSetVars, clockVars, notifyVars, pollVars, historyVars
<1>11. ASSUME NEW p \in Pollers, listExpiredCb(p) PROVE TimerTypeOK'
  BY <1>11 DEF listExpiredCb, Reinserted, ReleaseCallbacks, Expired, timerSetVars, clockVars,
     notifyVars, pollVars, historyVars
<1>12. ASSUME NEW p \in Pollers, EmptyDereference(p) PROVE TimerTypeOK'
  BY <1>12 DEF EmptyDereference, timerSetVars, clockVars, notifyVars, pollVars, historyVars
<1>13. ASSUME Tick PROVE TimerTypeOK'
  BY <1>13 DEF Tick, timerSetVars, clockVars, notifyVars, pollVars, historyVars
<1>14. ASSUME SetBack PROVE TimerTypeOK'
  BY <1>14 DEF SetBack, timerSetVars, clockVars, notifyVars, pollVars, historyVars
<1>15. ASSUME NEW p \in Pollers, EnterPoll(p) PROVE TimerTypeOK'
  BY <1>15 DEF EnterPoll, timerSetVars, clockVars, notifyVars, pollVars, historyVars
<1>16. ASSUME NEW p \in Pollers, LeavePoll(p) PROVE TimerTypeOK'
  BY <1>16 DEF LeavePoll, timerSetVars, clockVars, notifyVars, pollVars, historyVars
<1>17. CASE UNCHANGED timerMgrVars
  BY <1>17 DEF timerMgrVars, timerSetVars, clockVars, notifyVars, pollVars, historyVars
<1>18. QED
  BY <1>1, <1>2, <1>3, <1>4, <1>5, <1>6, <1>7, <1>8, <1>9, <1>10, <1>11, <1>12, <1>13, <1>14,
     <1>15, <1>16, <1>17, NextCases

\* TimerInv holds initially.
LEMMA TimerInvInit == TimerInit => TimerInv
<1>1. TimerInit => OwnerOK /\ CallbackImpliesQueued /\ CancelDecides
  BY DEF TimerInit, OwnerOK, CallbackImpliesQueued, CancelDecides
<1>2. QED
  BY <1>1, TypeInit DEF TimerInv

\* Every step keeps what a timer's place says of its callback.
LEMMA OwnerNext ==
  TimerInv /\ [TimerNext]_timerMgrVars => (OwnerOK /\ CallbackImpliesQueued /\ CancelDecides)'
<1> SUFFICES ASSUME TimerInv, [TimerNext]_timerMgrVars
      PROVE (OwnerOK /\ CallbackImpliesQueued /\ CancelDecides)'
  OBVIOUS
<1> USE TimeAssumption DEF TimerInv, TimerTypeOK, OwnerOK, CallbackImpliesQueued, CancelDecides, Held
<1>1. ASSUME NEW t \in Timers, NEW ms \in Intervals, NEW r \in BOOLEAN,
      Timer(t, ms, r) PROVE (OwnerOK /\ CallbackImpliesQueued /\ CancelDecides)'
  BY <1>1 DEF Timer, timerSetVars, clockVars, notifyVars, pollVars, historyVars
<1>2. ASSUME NEW t \in Timers, addTimer(t)
      PROVE (OwnerOK /\ CallbackImpliesQueued /\ CancelDecides)'
  BY <1>2 DEF addTimer, InsertAndNotify, timerSetVars, clockVars, notifyVars, pollVars, historyVars
<1>3. ASSUME onTimerInsertedAtFront PROVE (OwnerOK /\ CallbackImpliesQueued /\ CancelDecides)'
  BY <1>3 DEF onTimerInsertedAtFront, tickleFront, timerSetVars, clockVars, notifyVars, pollVars,
     historyVars
<1>4. ASSUME NEW t \in Timers, cancel(t)
      PROVE (OwnerOK /\ CallbackImpliesQueued /\ CancelDecides)'
  BY <1>4 DEF cancel, timerSetVars, clockVars, notifyVars, pollVars, historyVars
<1>5. ASSUME NEW t \in Timers, refresh(t)
      PROVE (OwnerOK /\ CallbackImpliesQueued /\ CancelDecides)'
  BY <1>5 DEF refresh, timerSetVars, clockVars, notifyVars, pollVars, historyVars
<1>6. ASSUME NEW t \in Timers, NEW ms \in Intervals, NEW b \in BOOLEAN,
      reset(t, ms, b) PROVE (OwnerOK /\ CallbackImpliesQueued /\ CancelDecides)'
  BY <1>6 DEF reset, InsertAndNotify, StartOf, timerSetVars, clockVars, notifyVars, pollVars,
     historyVars
<1>7. ASSUME NEW p \in Pollers, getNextTimer(p)
      PROVE (OwnerOK /\ CallbackImpliesQueued /\ CancelDecides)'
  BY <1>7 DEF getNextTimer, timerSetVars, clockVars, notifyVars,
     pollVars, historyVars
<1>8. ASSUME NEW p \in Pollers, EpollReturns(p)
      PROVE (OwnerOK /\ CallbackImpliesQueued /\ CancelDecides)'
  BY <1>8 DEF EpollReturns, timerSetVars, clockVars, notifyVars, pollVars, historyVars
<1>9. ASSUME NEW p \in Pollers, ReadClock(p)
      PROVE (OwnerOK /\ CallbackImpliesQueued /\ CancelDecides)'
  BY <1>9 DEF ReadClock, timerSetVars, clockVars, notifyVars, pollVars, historyVars
<1>10. ASSUME NEW p \in Pollers, TestEmpty(p)
      PROVE (OwnerOK /\ CallbackImpliesQueued /\ CancelDecides)'
  BY <1>10 DEF TestEmpty, timerSetVars, clockVars, notifyVars, pollVars, historyVars
<1>11. ASSUME NEW p \in Pollers, listExpiredCb(p)
      PROVE (OwnerOK /\ CallbackImpliesQueued /\ CancelDecides)'
  BY <1>11 DEF listExpiredCb, Reinserted, ReleaseCallbacks, Expired, timerSetVars, clockVars,
     notifyVars, pollVars, historyVars
<1>12. ASSUME NEW p \in Pollers, EmptyDereference(p)
      PROVE (OwnerOK /\ CallbackImpliesQueued /\ CancelDecides)'
  BY <1>12 DEF EmptyDereference, timerSetVars, clockVars, notifyVars, pollVars, historyVars
<1>13. ASSUME Tick PROVE (OwnerOK /\ CallbackImpliesQueued /\ CancelDecides)'
  BY <1>13 DEF Tick, timerSetVars, clockVars, notifyVars, pollVars, historyVars
<1>14. ASSUME SetBack PROVE (OwnerOK /\ CallbackImpliesQueued /\ CancelDecides)'
  BY <1>14 DEF SetBack, timerSetVars, clockVars, notifyVars, pollVars, historyVars
<1>15. ASSUME NEW p \in Pollers, EnterPoll(p)
      PROVE (OwnerOK /\ CallbackImpliesQueued /\ CancelDecides)'
  BY <1>15 DEF EnterPoll, timerSetVars, clockVars, notifyVars, pollVars, historyVars
<1>16. ASSUME NEW p \in Pollers, LeavePoll(p)
      PROVE (OwnerOK /\ CallbackImpliesQueued /\ CancelDecides)'
  BY <1>16 DEF LeavePoll, timerSetVars, clockVars, notifyVars, pollVars, historyVars
<1>17. CASE UNCHANGED timerMgrVars
  BY <1>17 DEF timerMgrVars, timerSetVars, clockVars, notifyVars, pollVars, historyVars
<1>18. QED
  BY <1>1, <1>2, <1>3, <1>4, <1>5, <1>6, <1>7, <1>8, <1>9, <1>10, <1>11, <1>12, <1>13, <1>14,
     <1>15, <1>16, <1>17, NextCases

\* For every set of timers and pollers, and although the clock is set back: no
\* wait exceeds MAX_TIMEOUT, a timer with a callback is in m_timers, so that
\* cancel() erases what find() finds, and cancel() and expiry decide a one-shot
\* timer exactly once (timer.cc 57-127, 189-257).
THEOREM TimersCorrect == TimerSpec => []TimersConsistent
<1>1. TimerInv /\ [TimerNext]_timerMgrVars => TimerInv'
  BY TypeNext, OwnerNext DEF TimerInv
<1>2. TimerInv => TimersConsistent
  BY DEF TimerInv, TimersConsistent
<1>3. QED
  BY TimerInvInit, <1>1, <1>2, PTL DEF TimerSpec

-----------------------------------------------------------------------------
(* Firing in time                                                           *)

\* Until the clock is set back, no reading of it is ahead of it.
ReadingsOK ==
    jumps = 0 =>
        /\ Start <= clock /\ m_previouseTime <= clock
        /\ \A p \in Pollers : now_ms[p] <= clock

\* Every step keeps ReadingsOK.
LEMMA ReadingsNext ==
  ASSUME TimerTypeOK, ReadingsOK, [TimerNext]_timerMgrVars
  PROVE  ReadingsOK'
<1> USE TimeAssumption DEF TimerTypeOK, ReadingsOK
<1>1. ASSUME NEW t \in Timers, NEW ms \in Intervals, NEW r \in BOOLEAN,
      Timer(t, ms, r) PROVE ReadingsOK'
  BY <1>1 DEF Timer, timerSetVars, clockVars, notifyVars, pollVars, historyVars
<1>2. ASSUME NEW t \in Timers, addTimer(t) PROVE ReadingsOK'
  BY <1>2 DEF addTimer, InsertAndNotify, timerSetVars, clockVars, notifyVars, pollVars, historyVars
<1>3. ASSUME onTimerInsertedAtFront PROVE ReadingsOK'
  BY <1>3 DEF onTimerInsertedAtFront, tickleFront, timerSetVars, clockVars, notifyVars, pollVars,
     historyVars
<1>4. ASSUME NEW t \in Timers, cancel(t) PROVE ReadingsOK'
  BY <1>4 DEF cancel, timerSetVars, clockVars, notifyVars, pollVars, historyVars
<1>5. ASSUME NEW t \in Timers, refresh(t) PROVE ReadingsOK'
  BY <1>5 DEF refresh, timerSetVars, clockVars, notifyVars, pollVars, historyVars
<1>6. ASSUME NEW t \in Timers, NEW ms \in Intervals, NEW b \in BOOLEAN,
      reset(t, ms, b) PROVE ReadingsOK'
  BY <1>6 DEF reset, InsertAndNotify, StartOf, timerSetVars, clockVars, notifyVars, pollVars,
     historyVars
<1>7. ASSUME NEW p \in Pollers, getNextTimer(p) PROVE ReadingsOK'
  BY <1>7 DEF getNextTimer, timerSetVars, clockVars, notifyVars,
     pollVars, historyVars
<1>8. ASSUME NEW p \in Pollers, EpollReturns(p) PROVE ReadingsOK'
  BY <1>8 DEF EpollReturns, timerSetVars, clockVars, notifyVars, pollVars, historyVars
<1>9. ASSUME NEW p \in Pollers, ReadClock(p) PROVE ReadingsOK'
  BY <1>9 DEF ReadClock, timerSetVars, clockVars, notifyVars, pollVars, historyVars
<1>10. ASSUME NEW p \in Pollers, TestEmpty(p) PROVE ReadingsOK'
  BY <1>10 DEF TestEmpty, timerSetVars, clockVars, notifyVars, pollVars, historyVars
<1>11. ASSUME NEW p \in Pollers, listExpiredCb(p) PROVE ReadingsOK'
  BY <1>11 DEF listExpiredCb, Reinserted, ReleaseCallbacks, Expired, timerSetVars, clockVars,
     notifyVars, pollVars, historyVars
<1>12. ASSUME NEW p \in Pollers, EmptyDereference(p) PROVE ReadingsOK'
  BY <1>12 DEF EmptyDereference, timerSetVars, clockVars, notifyVars, pollVars, historyVars
<1>13. ASSUME Tick PROVE ReadingsOK'
  BY <1>13 DEF Tick, timerSetVars, clockVars, notifyVars, pollVars, historyVars
<1>14. ASSUME SetBack PROVE ReadingsOK'
  BY <1>14 DEF SetBack, timerSetVars, clockVars, notifyVars, pollVars, historyVars
<1>15. ASSUME NEW p \in Pollers, EnterPoll(p) PROVE ReadingsOK'
  BY <1>15 DEF EnterPoll, timerSetVars, clockVars, notifyVars, pollVars, historyVars
<1>16. ASSUME NEW p \in Pollers, LeavePoll(p) PROVE ReadingsOK'
  BY <1>16 DEF LeavePoll, timerSetVars, clockVars, notifyVars, pollVars, historyVars
<1>17. CASE UNCHANGED timerMgrVars
  BY <1>17 DEF timerMgrVars, timerSetVars, clockVars, notifyVars, pollVars, historyVars
<1>18. QED
  BY <1>1, <1>2, <1>3, <1>4, <1>5, <1>6, <1>7, <1>8, <1>9, <1>10, <1>11, <1>12, <1>13, <1>14,
     <1>15, <1>16, <1>17, NextCases

\* Until the clock is set back, a thread that hands out a callback before its
\* deadline has read the clock more than an hour ago.
LEMMA DueOrStale ==
  ASSUME TimerTypeOK, ReadingsOK, jumps = 0, NEW p \in Pollers
  PROVE  now_ms[p] + Hour < clock \/ \A t \in Expired(p) : m_next[t] <= clock
<1>1. /\ now_ms[p] \in Int /\ clock \in Int /\ m_previouseTime \in Int /\ Hour \in Int
      /\ now_ms[p] <= clock /\ m_previouseTime <= clock
  BY TimeAssumption DEF TimerTypeOK, ReadingsOK
<1>2. CASE detectClockRollover(p)
  BY <1>1, <1>2 DEF detectClockRollover
<1>3. CASE ~detectClockRollover(p)
  <2>1. ASSUME NEW t \in Expired(p) PROVE m_next[t] <= clock
    <3>1. m_next[t] \in Int /\ m_next[t] <= now_ms[p]
      BY <1>3, <2>1 DEF Expired, TimerTypeOK
    <3>2. QED
      BY <1>1, <3>1
  <2>2. QED
    BY <2>1
<1>4. QED
  BY <1>2, <1>3

\* Until the clock is set back, no callback is handed out before its deadline,
\* but for a thread held up for an hour between reading the clock and the lock
\* (timer.cc 189-271), for every set of timers, threads and intervals.
THEOREM EarlyFireCorrect == TimerSpec => NoEarlyFire
<1>1. TimerInit => ReadingsOK
  BY TimeAssumption DEF TimerInit, ReadingsOK
<1>2. TimerInv /\ [TimerNext]_timerMgrVars => TimerInv'
  BY TypeNext, OwnerNext DEF TimerInv
<1>3. TimerInv /\ ReadingsOK /\ [TimerNext]_timerMgrVars => ReadingsOK'
  BY ReadingsNext DEF TimerInv
<1>4. TimerInv /\ ReadingsOK =>
        \A p \in Pollers : listExpiredCb(p) /\ jumps = 0 =>
            \/ now_ms[p] + Hour < clock
            \/ \A t \in Expired(p) : m_next[t] <= clock
  BY DueOrStale DEF TimerInv
<1>5. QED
  BY <1>1, <1>2, <1>3, <1>4, TimerInvInit, PTL DEF TimerSpec, NoEarlyFire
=============================================================================
