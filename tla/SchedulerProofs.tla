--------------------------- MODULE SchedulerProofs ---------------------------
(***************************************************************************)
(* Proofs about Scheduler, for every pool, every number of fibers and jobs, *)
(* and every bound, with wakers that may come at any time.                  *)
(*                                                                         *)
(* Counting: TypeOK, ActiveCountExact and IdleCountExact are inductive      *)
(* together with StartOK (threads do not run before start() and stop() let  *)
(* them) and LocalOK (what run()'s locals hold at each point).              *)
(* The rest follows from JobInv, which holds until a fiber is torn: who has *)
(* a fiber (FiberOK), what each thread holds at each point (ThreadOK), that *)
(* a fiber left for its waker comes back (AwaitedAt), the one place of each *)
(* job (PlaceAt), and who will still look at the queue (DrainOK, StopOK).   *)
(* EarlyOK says what a thread that was not early leaves behind: nothing.    *)
(***************************************************************************)
EXTENDS Scheduler, TLAPS, FiniteSetTheorems

\* No thread runs before start(), nor the caller before stop() calls the root fiber.
StartOK ==
    /\ mpc = "new" => \A t \in Threads : pc[t] = "off"
    /\ UseCaller /\ mpc \in {"new", "up", "stopRequested", "stopTest"} =>
            pc[Caller] = "off"

\* What ft, cb_fiber and the current fiber are at each point of run().
LocalOK ==
    \A t \in Threads :
        /\ cur[t] # NoFiber <=> pc[t] \in {"user", "armed", "swapOut"}
        /\ cur[t] # NoFiber => Owns(t, cur[t])
        /\ pc[t] \in {"user", "armed", "swapOut", "swapped", "settle"}
                /\ ft[t].fiber = NoFiber => cb_fiber[t] \in Fibers

CountInv == TypeOK /\ StartOK /\ LocalOK /\ ActiveCountExact /\ IdleCountExact

-----------------------------------------------------------------------------
(* Operators *)

\* Threads is finite.
LEMMA ThreadsFinite == IsFiniteSet(Threads)
<1>1. IsFiniteSet(Workers) /\ IsFiniteSet({Caller}) /\ IsFiniteSet({})
  BY ThreadsAssumption, FS_Singleton, FS_EmptySet
<1>2. IsFiniteSet(Workers \cup {Caller}) /\ IsFiniteSet(Workers \cup {})
  BY <1>1, FS_Union
<1>3. QED
  BY <1>2, ThreadsAssumption DEF Threads

\* A set of threads has a natural number of elements.
LEMMA CountNat ==
  ASSUME NEW S \in SUBSET Threads
  PROVE  Cardinality(S) \in Nat
BY ThreadsFinite, FS_Subset, FS_CardinalityType

\* One thread more adds one.
LEMMA CountAdd ==
  ASSUME NEW S \in SUBSET Threads, NEW t \in Threads \ S
  PROVE  Cardinality(S \cup {t}) = Cardinality(S) + 1
BY ThreadsFinite, FS_Subset, FS_AddElement

\* Erasing one entry leaves a sequence over the same set, one shorter.
LEMMA EraseAtType ==
  ASSUME NEW S, NEW s \in Seq(S), NEW i \in DOMAIN s
  PROVE  /\ EraseAt(s, i) \in Seq(S)
         /\ DOMAIN EraseAt(s, i) = 1 .. Len(s) - 1
         /\ \A k \in 1 .. Len(s) - 1 :
                EraseAt(s, i)[k] = IF k < i THEN s[k] ELSE s[k + 1]
<1>1. Len(s) \in Nat /\ DOMAIN s = 1 .. Len(s)
  OBVIOUS
<1>2. Len(s) - 1 \in Nat
  BY <1>1
<1>3. EraseAt(s, i) \in [1 .. Len(s) - 1 -> S]
  BY <1>1 DEF EraseAt
<1>4. QED
  BY <1>2, <1>3 DEF EraseAt

-----------------------------------------------------------------------------
(* Counting *)

Points == Busy \cup InIdle \cup {"off", "scan", "settle", "noTask", "exit"}

\* A counter of the threads in a set B of points, n before and m after one thread
\* moves to l, stays exact if it goes up when the thread enters B and down when
\* it leaves it.
LEMMA MoveThread ==
  ASSUME NEW t \in Threads, NEW l, NEW B, NEW n, NEW m,
         TypeOK, pc' = [pc EXCEPT ![t] = l],
         n = Cardinality({u \in Threads : pc[u] \in B}),
         \/ (pc[t] \in B <=> l \in B) /\ m = n
         \/ pc[t] \notin B /\ l \in B /\ m = n + 1
         \/ pc[t] \in B /\ l \notin B /\ m = n - 1
  PROVE  m \in Nat /\ m = Cardinality({u \in Threads : pc'[u] \in B})
<1> DEFINE S == {u \in Threads : pc[u] \in B}
           T == {u \in Threads : pc'[u] \in B}
<1>1. pc \in [Threads -> Points]
  BY DEF TypeOK, Points
<1>2. Cardinality(S) \in Nat /\ Cardinality(T) \in Nat
  BY CountNat
<1>3. ASSUME pc[t] \in B <=> l \in B PROVE T = S
  BY <1>1, <1>3
<1>4. ASSUME pc[t] \notin B, l \in B
      PROVE  Cardinality(T) = Cardinality(S) + 1
  <2>1. T = S \cup {t} /\ t \in Threads \ S
    BY <1>1, <1>4
  <2>2. QED
    BY <2>1, CountAdd
<1>5. ASSUME pc[t] \in B, l \notin B
      PROVE  Cardinality(S) = Cardinality(T) + 1
  <2>1. S = T \cup {t} /\ t \in Threads \ T
    BY <1>1, <1>5
  <2>2. QED
    BY <2>1, CountAdd
<1> HIDE DEF S, T
<1>6. n = Cardinality(S)
  BY DEF S
<1>7. m \in Nat /\ m = Cardinality(T)
  BY <1>2, <1>3, <1>4, <1>5, <1>6
<1>8. QED
  BY <1>7 DEF T

\* Thread t moves to l and m_activeThreadCount follows.
ActiveFollows(t, l) ==
    \/ (pc[t] \in Busy <=> l \in Busy) /\ m_activeThreadCount' = m_activeThreadCount
    \/ pc[t] \notin Busy /\ l \in Busy /\ m_activeThreadCount' = m_activeThreadCount + 1
    \/ pc[t] \in Busy /\ l \notin Busy /\ m_activeThreadCount' = m_activeThreadCount - 1

\* Thread t moves to l and m_idleThreadCount follows.
IdleFollows(t, l) ==
    \/ (pc[t] \in InIdle <=> l \in InIdle) /\ m_idleThreadCount' = m_idleThreadCount
    \/ pc[t] \notin InIdle /\ l \in InIdle /\ m_idleThreadCount' = m_idleThreadCount + 1
    \/ pc[t] \in InIdle /\ l \notin InIdle /\ m_idleThreadCount' = m_idleThreadCount - 1

CountsOK ==
    /\ m_activeThreadCount \in Nat /\ ActiveCountExact
    /\ m_idleThreadCount \in Nat /\ IdleCountExact

\* A step that moves one thread with its counters keeps them exact.
LEMMA MoveCounts ==
  ASSUME NEW t \in Threads, NEW l, TypeOK, ActiveCountExact, IdleCountExact,
         pc' = [pc EXCEPT ![t] = l], ActiveFollows(t, l), IdleFollows(t, l)
  PROVE  CountsOK'
<1>1. m_activeThreadCount' \in Nat /\ ActiveCountExact'
  <2>1. m_activeThreadCount = Cardinality({u \in Threads : pc[u] \in Busy})
    BY DEF ActiveCountExact
  <2>2. m_activeThreadCount' \in Nat
        /\ m_activeThreadCount' = Cardinality({u \in Threads : pc'[u] \in Busy})
    BY <2>1, MoveThread DEF ActiveFollows
  <2>3. QED
    BY <2>2 DEF ActiveCountExact
<1>2. m_idleThreadCount' \in Nat /\ IdleCountExact'
  <2>1. m_idleThreadCount = Cardinality({u \in Threads : pc[u] \in InIdle})
    BY DEF IdleCountExact
  <2>2. m_idleThreadCount' \in Nat
        /\ m_idleThreadCount' = Cardinality({u \in Threads : pc'[u] \in InIdle})
    BY <2>1, MoveThread DEF IdleFollows
  <2>3. QED
    BY <2>2 DEF IdleCountExact
<1>3. QED
  BY <1>1, <1>2 DEF CountsOK

\* A step that moves no thread and leaves both counters alone.
LEMMA KeepCounts ==
  ASSUME TypeOK, ActiveCountExact, IdleCountExact, UNCHANGED <<pc, countVars>>
  PROVE  CountsOK'
BY DEF TypeOK, ActiveCountExact, IdleCountExact, countVars, CountsOK
-----------------------------------------------------------------------------
(* The counting invariant is inductive *)

\* The initial state: all threads off, both counters zero.
LEMMA InitCount == Init => CountInv
<1> SUFFICES ASSUME Init PROVE CountInv
  OBVIOUS
<1>1. TypeOK
  <2>1. NullTask \in FiberAndThread
    BY DEF NullTask, FiberAndThread
  <2>2. m_fibers \in Seq(FiberAndThread)
    BY DEF Init
  <2>3. QED
    BY <2>1, <2>2 DEF Init, TypeOK, State
<1>2. {t \in Threads : pc[t] \in Busy} = {} /\ {t \in Threads : pc[t] \in InIdle} = {}
  BY DEF Init, Busy, InIdle
<1>3. ActiveCountExact /\ IdleCountExact
  BY <1>2, FS_EmptySet DEF Init, ActiveCountExact, IdleCountExact
<1>4. StartOK /\ LocalOK
  BY NullAssumption, ThreadsAssumption DEF Init, StartOK, LocalOK, Threads
<1>5. QED
  BY <1>1, <1>3, <1>4 DEF CountInv

\* Submitting work moves no thread.
LEMMA SubmitCount == CountInv /\ Submit => CountInv'
<1> SUFFICES ASSUME CountInv, Submit PROVE CountInv'
  OBVIOUS
<1> USE DEF CountInv
<1>1. ASSUME NEW j \in Jobs, ScheduleCb(j) PROVE CountInv'
  <2>1. CountsOK'
    BY <1>1, KeepCounts DEF ScheduleCb, countVars
  <2>2. TypeOK'
    BY <1>1, <2>1, NullAssumption, ThreadsAssumption
       DEF ScheduleCb, TypeOK, CountsOK, scheduleNoLock, FiberAndThread,
           fiberVars, stopVars, localVars, jobVars
  <2>3. StartOK' /\ LocalOK'
    BY <1>1 DEF ScheduleCb, StartOK, LocalOK, Owns, stopVars, localVars
  <2>4. QED
    BY <2>1, <2>2, <2>3 DEF CountsOK
<1>2. ASSUME NEW f \in Fibers, NEW j \in Jobs, ScheduleFiber(f, j) PROVE CountInv'
  <2>1. CountsOK'
    BY <1>2, KeepCounts DEF ScheduleFiber, countVars
  <2>2. TypeOK'
    BY <1>2, <2>1, NullAssumption, ThreadsAssumption
       DEF ScheduleFiber, TypeOK, CountsOK, scheduleNoLock, NewFiber, State, FiberAndThread,
           fiberVars, stopVars, localVars, jobVars
  <2>3. StartOK' /\ LocalOK'
    BY <1>2 DEF ScheduleFiber, StartOK, LocalOK, Owns, stopVars, localVars
  <2>4. QED
    BY <2>1, <2>2, <2>3 DEF CountsOK
<1>3. ASSUME NEW f \in Fibers, Wake(f) PROVE CountInv'
  <2>1. CountsOK'
    BY <1>3, KeepCounts DEF Wake, countVars
  <2>2. TypeOK'
    BY <1>3, <2>1, NullAssumption, ThreadsAssumption
       DEF Wake, TypeOK, CountsOK, scheduleNoLock, FiberAndThread,
           fiberVars, stopVars, localVars, jobVars
  <2>3. StartOK' /\ LocalOK'
    BY <1>3 DEF Wake, StartOK, LocalOK, Owns, stopVars, localVars
  <2>4. QED
    BY <2>1, <2>2, <2>3 DEF CountsOK
<1>4. ASSUME NEW f \in Fibers, ScheduleEnded(f) PROVE CountInv'
  <2>1. CountsOK'
    BY <1>4, KeepCounts DEF ScheduleEnded, countVars
  <2>2. TypeOK'
    BY <1>4, <2>1, NullAssumption, ThreadsAssumption
       DEF ScheduleEnded, TypeOK, CountsOK, scheduleNoLock, FiberAndThread,
           fiberVars, stopVars, localVars, jobVars
  <2>3. StartOK' /\ LocalOK'
    BY <1>4 DEF ScheduleEnded, StartOK, LocalOK, Owns, stopVars, localVars
  <2>4. QED
    BY <2>1, <2>2, <2>3 DEF CountsOK
<1>5. QED
  BY <1>1, <1>2, <1>3, <1>4 DEF Submit

\* Each step of run() moves its thread and, where it enters or leaves a counted
\* region, the counter with it.
LEMMA RunCount ==
  ASSUME CountInv, NEW t \in Threads, RunStep(t)
  PROVE  CountInv'
<1> USE DEF CountInv
<1>1. ASSUME TakeTask(t) PROVE CountInv'
  <2>1. pc' = [pc EXCEPT ![t] = "dispatch"]
    BY <1>1 DEF TakeTask, goto, CountActive
  <2>2. ActiveFollows(t, "dispatch") /\ IdleFollows(t, "dispatch")
    BY <1>1 DEF TakeTask, goto, CountActive, ActiveFollows, IdleFollows, Busy,
        InIdle, countVars
  <2>3. CountsOK'
    BY <2>1, <2>2, MoveCounts
  <2>4. TypeOK'
    <3>1. PICK i \in DOMAIN m_fibers : /\ ft' = [ft EXCEPT ![t] = m_fibers[i]]
                                      /\ m_fibers' = EraseAt(m_fibers, i)
      BY <1>1 DEF TakeTask
    <3>2. m_fibers \in Seq(FiberAndThread) /\ m_fibers[i] \in FiberAndThread
      BY DEF TypeOK
    <3>3. m_fibers' \in Seq(FiberAndThread)
      BY <3>1, <3>2, EraseAtType
    <3>4. ft' \in [Threads -> FiberAndThread]
      BY <3>1, <3>2 DEF TypeOK
    <3>5. QED
      BY <1>1, <2>1, <2>3, <3>3, <3>4
         DEF TakeTask, TypeOK, CountsOK, Busy, InIdle, fiberVars, stopVars,
             jobVars
  <2>5. StartOK'
    BY <1>1, <2>1 DEF TakeTask, goto, CountActive, StartOK, TypeOK, stopVars
  <2>6. LocalOK'
    BY <1>1, <2>1, NullAssumption
       DEF TakeTask, goto, CountActive, LocalOK, TypeOK, Owns, FiberAndThread,
           localVars
  <2>7. QED
    BY <2>3, <2>4, <2>5, <2>6 DEF CountsOK
<1>2. ASSUME NoTask(t) PROVE CountInv'
  <2>1. pc' = [pc EXCEPT ![t] = "noTask"]
    BY <1>2 DEF NoTask, goto
  <2>2. ActiveFollows(t, "noTask") /\ IdleFollows(t, "noTask")
    BY <1>2 DEF NoTask, goto, ActiveFollows, IdleFollows, Busy, InIdle,
        countVars
  <2>3. CountsOK'
    BY <2>1, <2>2, MoveCounts
  <2>4. TypeOK'
    BY <1>2, <2>1, <2>3, NullAssumption, ThreadsAssumption
       DEF NoTask, goto, TypeOK, LocalOK, CountsOK, Busy, InIdle,
           FiberAndThread, fiberVars, stopVars, localVars, jobVars
  <2>5. StartOK'
    BY <1>2, <2>1 DEF NoTask, goto, StartOK, TypeOK, stopVars
  <2>6. LocalOK'
    BY <1>2, <2>1, NullAssumption
       DEF NoTask, goto, LocalOK, TypeOK, Owns, FiberAndThread, localVars
  <2>7. QED
    BY <2>3, <2>4, <2>5, <2>6 DEF CountsOK
<1>3. ASSUME RunFiber(t) PROVE CountInv'
  <2>1. pc' = [pc EXCEPT ![t] = "user"]
    BY <1>3 DEF RunFiber, goto, swapIn
  <2>2. ActiveFollows(t, "user") /\ IdleFollows(t, "user")
    BY <1>3 DEF RunFiber, goto, swapIn, ActiveFollows, IdleFollows, Busy,
        InIdle, countVars
  <2>3. CountsOK'
    BY <2>1, <2>2, MoveCounts
  <2>4. TypeOK'
    BY <1>3, <2>1, <2>3, NullAssumption, ThreadsAssumption
       DEF RunFiber, goto, swapIn, State, TypeOK, LocalOK, CountsOK, Busy,
           InIdle, FiberAndThread, fiberVars, stopVars, localVars, jobVars
  <2>5. StartOK'
    BY <1>3, <2>1 DEF RunFiber, goto, swapIn, StartOK, TypeOK, stopVars
  <2>6. LocalOK'
    BY <1>3, <2>1, NullAssumption
       DEF RunFiber, goto, swapIn, LocalOK, TypeOK, Owns, FiberAndThread,
           localVars
  <2>7. QED
    BY <2>3, <2>4, <2>5, <2>6 DEF CountsOK
<1>4. ASSUME DropFinished(t) PROVE CountInv'
  <2>1. pc' = [pc EXCEPT ![t] = "scan"]
    BY <1>4 DEF DropFinished, goto, UncountDropped
  <2>2. ActiveFollows(t, "scan") /\ IdleFollows(t, "scan")
    BY <1>4 DEF DropFinished, goto, UncountDropped, ActiveFollows,
        IdleFollows, Busy, InIdle, countVars
  <2>3. CountsOK'
    BY <2>1, <2>2, MoveCounts
  <2>4. TypeOK'
    BY <1>4, <2>1, <2>3, NullAssumption, ThreadsAssumption
       DEF DropFinished, goto, UncountDropped, NullTask, TypeOK, LocalOK,
           CountsOK, Busy, InIdle, FiberAndThread, fiberVars, stopVars,
           localVars, jobVars
  <2>5. StartOK'
    BY <1>4, <2>1 DEF DropFinished, goto, UncountDropped, StartOK, TypeOK,
        stopVars
  <2>6. LocalOK'
    BY <1>4, <2>1, NullAssumption
       DEF DropFinished, goto, UncountDropped, NullTask, LocalOK, TypeOK,
           Owns, FiberAndThread, localVars
  <2>7. QED
    BY <2>3, <2>4, <2>5, <2>6 DEF CountsOK
<1>5. ASSUME RunCb(t) PROVE CountInv'
  <2>1. pc' = [pc EXCEPT ![t] = "user"]
    BY <1>5 DEF RunCb, goto, swapIn
  <2>2. ActiveFollows(t, "user") /\ IdleFollows(t, "user")
    BY <1>5 DEF RunCb, goto, swapIn, ActiveFollows, IdleFollows, Busy, InIdle,
        countVars
  <2>3. CountsOK'
    BY <2>1, <2>2, MoveCounts
  <2>4. TypeOK'
    BY <1>5, <2>1, <2>3, NullAssumption, ThreadsAssumption
       DEF RunCb, goto, swapIn, State, NullTask, TypeOK, LocalOK, CountsOK,
           Busy, InIdle, FiberAndThread, fiberVars, stopVars, localVars,
           jobVars
  <2>5. StartOK'
    BY <1>5, <2>1 DEF RunCb, goto, swapIn, StartOK, TypeOK, stopVars
  <2>6. LocalOK'
    BY <1>5, <2>1, NullAssumption
       DEF RunCb, goto, swapIn, NullTask, LocalOK, TypeOK, Owns,
           FiberAndThread, localVars
  <2>7. QED
    BY <2>3, <2>4, <2>5, <2>6 DEF CountsOK
<1>6. ASSUME Arm(t) PROVE CountInv'
  <2>1. pc' = [pc EXCEPT ![t] = "armed"]
    BY <1>6 DEF Arm, goto
  <2>2. ActiveFollows(t, "armed") /\ IdleFollows(t, "armed")
    BY <1>6 DEF Arm, goto, ActiveFollows, IdleFollows, Busy, InIdle, countVars
  <2>3. CountsOK'
    BY <2>1, <2>2, MoveCounts
  <2>4. TypeOK'
    BY <1>6, <2>1, <2>3, NullAssumption, ThreadsAssumption
       DEF Arm, goto, TypeOK, LocalOK, CountsOK, Busy, InIdle, FiberAndThread,
           fiberVars, stopVars, localVars, jobVars
  <2>5. StartOK'
    BY <1>6, <2>1 DEF Arm, goto, StartOK, TypeOK, stopVars
  <2>6. LocalOK'
    BY <1>6, <2>1, NullAssumption
       DEF Arm, goto, LocalOK, TypeOK, Owns, FiberAndThread, localVars
  <2>7. QED
    BY <2>3, <2>4, <2>5, <2>6 DEF CountsOK
<1>7. ASSUME YieldToHold(t) PROVE CountInv'
  <2>1. pc' = [pc EXCEPT ![t] = "swapOut"]
    BY <1>7 DEF YieldToHold, goto, setState
  <2>2. ActiveFollows(t, "swapOut") /\ IdleFollows(t, "swapOut")
    BY <1>7 DEF YieldToHold, goto, setState, ActiveFollows, IdleFollows, Busy,
        InIdle, countVars
  <2>3. CountsOK'
    BY <2>1, <2>2, MoveCounts
  <2>4. TypeOK'
    BY <1>7, <2>1, <2>3, NullAssumption, ThreadsAssumption
       DEF YieldToHold, goto, setState, State, TypeOK, LocalOK, CountsOK,
           Busy, InIdle, FiberAndThread, fiberVars, stopVars, localVars,
           jobVars
  <2>5. StartOK'
    BY <1>7, <2>1 DEF YieldToHold, goto, setState, StartOK, TypeOK, stopVars
  <2>6. LocalOK'
    BY <1>7, <2>1, NullAssumption
       DEF YieldToHold, goto, setState, LocalOK, TypeOK, Owns, FiberAndThread,
           localVars
  <2>7. QED
    BY <2>3, <2>4, <2>5, <2>6 DEF CountsOK
<1>8. ASSUME YieldToReady(t) PROVE CountInv'
  <2>1. pc' = [pc EXCEPT ![t] = "swapOut"]
    BY <1>8 DEF YieldToReady, goto, setState
  <2>2. ActiveFollows(t, "swapOut") /\ IdleFollows(t, "swapOut")
    BY <1>8 DEF YieldToReady, goto, setState, ActiveFollows, IdleFollows,
        Busy, InIdle, countVars
  <2>3. CountsOK'
    BY <2>1, <2>2, MoveCounts
  <2>4. TypeOK'
    BY <1>8, <2>1, <2>3, NullAssumption, ThreadsAssumption
       DEF YieldToReady, goto, setState, State, TypeOK, LocalOK, CountsOK,
           Busy, InIdle, FiberAndThread, fiberVars, stopVars, localVars,
           jobVars
  <2>5. StartOK'
    BY <1>8, <2>1 DEF YieldToReady, goto, setState, StartOK, TypeOK, stopVars
  <2>6. LocalOK'
    BY <1>8, <2>1, NullAssumption
       DEF YieldToReady, goto, setState, LocalOK, TypeOK, Owns,
           FiberAndThread, localVars
  <2>7. QED
    BY <2>3, <2>4, <2>5, <2>6 DEF CountsOK
<1>9. ASSUME MainFunc(t) PROVE CountInv'
  <2>1. pc' = [pc EXCEPT ![t] = "swapOut"]
    BY <1>9 DEF MainFunc, goto, setState
  <2>2. ActiveFollows(t, "swapOut") /\ IdleFollows(t, "swapOut")
    BY <1>9 DEF MainFunc, goto, setState, ActiveFollows, IdleFollows, Busy,
        InIdle, countVars
  <2>3. CountsOK'
    BY <2>1, <2>2, MoveCounts
  <2>4. TypeOK'
    <3>1. cur[t] \in Fibers
      BY <1>9 DEF MainFunc, LocalOK, TypeOK
    <3>2. m_state' \in [Fibers -> State]
      BY <1>9, <3>1 DEF MainFunc, setState, State, TypeOK
    <3>3. m_cb' \in [Fibers -> Jobs \cup {NoJob}] /\ done' \subseteq Jobs \cup {NoJob}
      BY <1>9, <3>1 DEF MainFunc, TypeOK
    <3>4. QED
      BY <1>9, <2>1, <2>3, <3>2, <3>3
         DEF MainFunc, TypeOK, CountsOK, Busy, InIdle, stopVars, localVars
  <2>5. StartOK'
    BY <1>9, <2>1 DEF MainFunc, goto, setState, StartOK, TypeOK, stopVars
  <2>6. LocalOK'
    BY <1>9, <2>1, NullAssumption
       DEF MainFunc, goto, setState, LocalOK, TypeOK, Owns, FiberAndThread,
           localVars
  <2>7. QED
    BY <2>3, <2>4, <2>5, <2>6 DEF CountsOK
<1>10. ASSUME swapOut(t) PROVE CountInv'
  <2>1. pc' = [pc EXCEPT ![t] = "swapped"]
    BY <1>10 DEF swapOut, goto
  <2>2. ActiveFollows(t, "swapped") /\ IdleFollows(t, "swapped")
    BY <1>10 DEF swapOut, goto, ActiveFollows, IdleFollows, Busy, InIdle,
        countVars
  <2>3. CountsOK'
    BY <2>1, <2>2, MoveCounts
  <2>4. TypeOK'
    BY <1>10, <2>1, <2>3, NullAssumption, ThreadsAssumption
       DEF swapOut, goto, TypeOK, LocalOK, CountsOK, Busy, InIdle,
           FiberAndThread, fiberVars, stopVars, localVars, jobVars
  <2>5. StartOK'
    BY <1>10, <2>1 DEF swapOut, goto, StartOK, TypeOK, stopVars
  <2>6. LocalOK'
    BY <1>10, <2>1, NullAssumption
       DEF swapOut, goto, LocalOK, TypeOK, Owns, FiberAndThread, localVars
  <2>7. QED
    BY <2>3, <2>4, <2>5, <2>6 DEF CountsOK
<1>11. ASSUME Deactivate(t) PROVE CountInv'
  <2>1. pc' = [pc EXCEPT ![t] = "settle"]
    BY <1>11 DEF Deactivate, goto
  <2>2. ActiveFollows(t, "settle") /\ IdleFollows(t, "settle")
    BY <1>11 DEF Deactivate, goto, ActiveFollows, IdleFollows, Busy, InIdle,
        countVars
  <2>3. CountsOK'
    BY <2>1, <2>2, MoveCounts
  <2>4. TypeOK'
    BY <1>11, <2>1, <2>3, NullAssumption, ThreadsAssumption
       DEF Deactivate, goto, TypeOK, LocalOK, CountsOK, Busy, InIdle,
           FiberAndThread, fiberVars, stopVars, localVars, jobVars
  <2>5. StartOK'
    BY <1>11, <2>1 DEF Deactivate, goto, StartOK, TypeOK, stopVars
  <2>6. LocalOK'
    BY <1>11, <2>1, NullAssumption
       DEF Deactivate, goto, LocalOK, TypeOK, Owns, FiberAndThread, localVars
  <2>7. QED
    BY <2>3, <2>4, <2>5, <2>6 DEF CountsOK
<1>12. ASSUME SettleFiber(t) PROVE CountInv'
  <2>1. pc' = [pc EXCEPT ![t] = "scan"]
    BY <1>12 DEF SettleFiber, goto
  <2>2. ActiveFollows(t, "scan") /\ IdleFollows(t, "scan")
    BY <1>12 DEF SettleFiber, goto, ActiveFollows, IdleFollows, Busy, InIdle,
        countVars
  <2>3. CountsOK'
    BY <2>1, <2>2, MoveCounts
  <2>4. TypeOK'
    <3>1. ft[t].fiber \in Fibers
      BY <1>12 DEF SettleFiber, LocalOK, TypeOK, FiberAndThread
    <3>2. m_fibers' \in Seq(FiberAndThread)
      <4> DEFINE e == [fiber |-> ft[t].fiber, cb |-> NoJob, thread |-> AnyThread]
      <4>1. e \in FiberAndThread
        BY <3>1 DEF FiberAndThread
      <4>2. m_fibers' = m_fibers \/ m_fibers' = Append(m_fibers, e)
        BY <1>12 DEF SettleFiber, reset, Reschedule, scheduleNoLock
      <4>3. m_fibers \in Seq(FiberAndThread)
        BY DEF TypeOK
      <4> HIDE DEF e
      <4>4. QED
        BY <4>1, <4>2, <4>3
    <3>3. m_state' \in [Fibers -> State]
      BY <1>12, <3>1 DEF SettleFiber, State, TypeOK
    <3>4. ft' \in [Threads -> FiberAndThread]
      BY <1>12 DEF SettleFiber, NullTask, FiberAndThread, TypeOK
    <3>5. QED
      BY <1>12, <2>1, <2>3, <3>2, <3>3, <3>4
         DEF SettleFiber, TypeOK, CountsOK, Busy, InIdle, stopVars, jobVars
  <2>5. StartOK'
    BY <1>12, <2>1 DEF SettleFiber, goto, StartOK, TypeOK, stopVars
  <2>6. LocalOK'
    BY <1>12, <2>1, NullAssumption
       DEF SettleFiber, goto, NullTask, LocalOK, TypeOK, Owns, FiberAndThread,
           localVars
  <2>7. QED
    BY <2>3, <2>4, <2>5, <2>6 DEF CountsOK
<1>13. ASSUME SettleCb(t) PROVE CountInv'
  <2>1. pc' = [pc EXCEPT ![t] = "scan"]
    BY <1>13 DEF SettleCb, goto
  <2>2. ActiveFollows(t, "scan") /\ IdleFollows(t, "scan")
    BY <1>13 DEF SettleCb, goto, ActiveFollows, IdleFollows, Busy, InIdle,
        countVars
  <2>3. CountsOK'
    BY <2>1, <2>2, MoveCounts
  <2>4. TypeOK'
    <3>1. cb_fiber[t] \in Fibers
      BY <1>13 DEF SettleCb, LocalOK, TypeOK, FiberAndThread
    <3>2. m_fibers' \in Seq(FiberAndThread)
      <4> DEFINE e == [fiber |-> cb_fiber[t], cb |-> NoJob, thread |-> AnyThread]
      <4>1. e \in FiberAndThread
        BY <3>1 DEF FiberAndThread
      <4>2. m_fibers' = m_fibers \/ m_fibers' = Append(m_fibers, e)
        BY <1>13 DEF SettleCb, reset, Reschedule, scheduleNoLock
      <4>3. m_fibers \in Seq(FiberAndThread)
        BY DEF TypeOK
      <4> HIDE DEF e
      <4>4. QED
        BY <4>1, <4>2, <4>3
    <3>3. m_state' \in [Fibers -> State] /\ m_cb' \in [Fibers -> Jobs \cup {NoJob}]
      BY <1>13, <3>1 DEF SettleCb, reset, State, TypeOK
    <3>4. cb_fiber' \in [Threads -> Fibers \cup {NoFiber}]
      BY <1>13 DEF SettleCb, ReleaseCbFiber, TypeOK
    <3>5. QED
      BY <1>13, <2>1, <2>3, <3>2, <3>3, <3>4
         DEF SettleCb, TypeOK, CountsOK, Busy, InIdle, stopVars, jobVars
  <2>5. StartOK'
    BY <1>13, <2>1 DEF SettleCb, goto, StartOK, TypeOK, stopVars
  <2>6. LocalOK'
    BY <1>13, <2>1, NullAssumption
       DEF SettleCb, goto, ReleaseCbFiber, LocalOK, TypeOK, Owns,
           FiberAndThread, localVars
  <2>7. QED
    BY <2>3, <2>4, <2>5, <2>6 DEF CountsOK
<1>14. ASSUME EnterIdle(t) PROVE CountInv'
  <2>1. pc' = [pc EXCEPT ![t] = "idle"]
    BY <1>14 DEF EnterIdle, CountIdle, goto
  <2>2. ActiveFollows(t, "idle") /\ IdleFollows(t, "idle")
    BY <1>14 DEF EnterIdle, CountIdle, goto, ActiveFollows, IdleFollows, Busy, InIdle,
        countVars
  <2>3. CountsOK'
    BY <2>1, <2>2, MoveCounts
  <2>4. TypeOK'
    BY <1>14, <2>1, <2>3, NullAssumption, ThreadsAssumption
       DEF EnterIdle, CountIdle, goto, TypeOK, LocalOK, CountsOK, Busy, InIdle,
           FiberAndThread, fiberVars, stopVars, localVars, jobVars
  <2>5. StartOK'
    BY <1>14, <2>1 DEF EnterIdle, CountIdle, goto, StartOK, TypeOK, stopVars
  <2>6. LocalOK'
    BY <1>14, <2>1, NullAssumption
       DEF EnterIdle, CountIdle, goto, LocalOK, TypeOK, Owns, FiberAndThread, localVars
  <2>7. QED
    BY <2>3, <2>4, <2>5, <2>6 DEF CountsOK
<1>15. ASSUME idle(t) PROVE CountInv'
  <2>1. pc' = [pc EXCEPT ![t] = "idleOut"]
    BY <1>15 DEF idle, goto
  <2>2. ActiveFollows(t, "idleOut") /\ IdleFollows(t, "idleOut")
    BY <1>15 DEF idle, goto, ActiveFollows, IdleFollows, Busy, InIdle,
        countVars
  <2>3. CountsOK'
    BY <2>1, <2>2, MoveCounts
  <2>4. TypeOK'
    BY <1>15, <2>1, <2>3, NullAssumption, ThreadsAssumption
       DEF idle, NoteEarly, goto, stopping, TypeOK, LocalOK, CountsOK, Busy, InIdle,
           FiberAndThread, fiberVars, stopVars, localVars, jobVars
  <2>5. StartOK'
    BY <1>15, <2>1 DEF idle, goto, StartOK, TypeOK, stopVars
  <2>6. LocalOK'
    BY <1>15, <2>1, NullAssumption
       DEF idle, goto, LocalOK, TypeOK, Owns, FiberAndThread, localVars
  <2>7. QED
    BY <2>3, <2>4, <2>5, <2>6 DEF CountsOK
<1>16. ASSUME LeaveIdle(t) PROVE CountInv'
  <2>1. pc' = [pc EXCEPT ![t] = "scan"]
    BY <1>16 DEF LeaveIdle, goto
  <2>2. ActiveFollows(t, "scan") /\ IdleFollows(t, "scan")
    BY <1>16 DEF LeaveIdle, goto, ActiveFollows, IdleFollows, Busy, InIdle,
        countVars
  <2>3. CountsOK'
    BY <2>1, <2>2, MoveCounts
  <2>4. TypeOK'
    BY <1>16, <2>1, <2>3, NullAssumption, ThreadsAssumption
       DEF LeaveIdle, goto, TypeOK, LocalOK, CountsOK, Busy, InIdle,
           FiberAndThread, fiberVars, stopVars, localVars, jobVars
  <2>5. StartOK'
    BY <1>16, <2>1 DEF LeaveIdle, goto, StartOK, TypeOK, stopVars
  <2>6. LocalOK'
    BY <1>16, <2>1, NullAssumption
       DEF LeaveIdle, goto, LocalOK, TypeOK, Owns, FiberAndThread, localVars
  <2>7. QED
    BY <2>3, <2>4, <2>5, <2>6 DEF CountsOK
<1>17. ASSUME ExitRun(t) PROVE CountInv'
  <2>1. pc' = [pc EXCEPT ![t] = "exit"]
    BY <1>17 DEF ExitRun, goto
  <2>2. ActiveFollows(t, "exit") /\ IdleFollows(t, "exit")
    BY <1>17 DEF ExitRun, goto, ActiveFollows, IdleFollows, Busy, InIdle,
        countVars
  <2>3. CountsOK'
    BY <2>1, <2>2, MoveCounts
  <2>4. TypeOK'
    BY <1>17, <2>1, <2>3, NullAssumption, ThreadsAssumption
       DEF ExitRun, goto, TypeOK, LocalOK, CountsOK, Busy, InIdle,
           FiberAndThread, fiberVars, stopVars, localVars, jobVars
  <2>5. StartOK'
    BY <1>17, <2>1 DEF ExitRun, goto, StartOK, TypeOK, stopVars
  <2>6. LocalOK'
    BY <1>17, <2>1, NullAssumption
       DEF ExitRun, goto, LocalOK, TypeOK, Owns, FiberAndThread, localVars
  <2>7. QED
    BY <2>3, <2>4, <2>5, <2>6 DEF CountsOK
<1>18. QED
  BY <1>1, <1>2, <1>3, <1>4, <1>5, <1>6, <1>7, <1>8, <1>9, <1>10, <1>11,
      <1>12, <1>13, <1>14, <1>15, <1>16, <1>17 DEF RunStep

\* start() and stop(): start moves only threads that are off, and stop() lets the
\* caller, which is off until then, into run().
LEMMA StopCount == CountInv /\ (start \/ StopRequest \/ StopStep) => CountInv'
<1> SUFFICES ASSUME CountInv, start \/ StopRequest \/ StopStep PROVE CountInv'
  OBVIOUS
<1> USE DEF CountInv
<1>1. ASSUME start PROVE CountInv'
  <2>1. \A u \in Threads : pc[u] = "off" /\ pc'[u] \in {"off", "scan"}
    BY <1>1 DEF start, StartOK
  <2>2. /\ {u \in Threads : pc'[u] \in Busy} = {u \in Threads : pc[u] \in Busy}
        /\ {u \in Threads : pc'[u] \in InIdle} = {u \in Threads : pc[u] \in InIdle}
    BY <2>1 DEF Busy, InIdle
  <2>3. CountsOK'
    BY <1>1, <2>2 DEF start, TypeOK, ActiveCountExact, IdleCountExact, CountsOK,
       countVars
  <2>4. TypeOK'
    BY <1>1, <2>3 DEF start, TypeOK, CountsOK, fiberVars, localVars, jobVars
  <2>5. StartOK'
    BY <1>1, ThreadsAssumption DEF start, StartOK, Threads
  <2>6. LocalOK'
    BY <1>1, <2>1 DEF start, LocalOK, Owns, localVars
  <2>7. QED
    BY <2>3, <2>4, <2>5, <2>6 DEF CountsOK
<1>2. ASSUME StopTest, UseCaller, goto(Caller, "scan"), mpc' = "root"
      PROVE  CountInv'
  <2>1. Caller \in Threads /\ pc[Caller] = "off"
    BY <1>2 DEF StopTest, StartOK, Threads
  <2>2. ActiveFollows(Caller, "scan") /\ IdleFollows(Caller, "scan")
    BY <1>2, <2>1 DEF StopTest, ActiveFollows, IdleFollows, Busy, InIdle, countVars
  <2>3. CountsOK'
    BY <1>2, <2>1, <2>2, MoveCounts DEF goto
  <2>4. TypeOK'
    BY <1>2, <2>3 DEF StopTest, goto, TypeOK, CountsOK, fiberVars, localVars, jobVars
  <2>5. StartOK' /\ LocalOK'
    BY <1>2, <2>1 DEF StopTest, goto, StartOK, LocalOK, TypeOK, Owns, localVars
  <2>6. QED
    BY <2>3, <2>4, <2>5 DEF CountsOK
<1>3. ASSUME StopRequest \/ StopFlags \/ StopTest \/ RootDone \/ Join, UNCHANGED pc
      PROVE  CountInv'
  <2>1. UNCHANGED <<m_fibers, fiberVars, countVars, localVars, jobVars>>
    BY <1>3 DEF StopRequest, StopFlags, StopTest, RootDone, Join
  <2>2. CountsOK'
    BY <1>3, <2>1, KeepCounts
  <2>3. TypeOK'
    <3>1. early' \subseteq Threads
      BY <1>3 DEF StopRequest, StopFlags, StopTest, RootDone, Join, NoteEarly, TypeOK, Threads
    <3>2. QED  BY <1>3, <2>1, <2>2, <3>1
       DEF StopRequest, StopFlags, StopTest, RootDone, Join, TypeOK, CountsOK,
           fiberVars, localVars, jobVars
  <2>4. StartOK' /\ LocalOK'
    BY <1>3, <2>1 DEF StopRequest, StopFlags, StopTest, RootDone, Join, StartOK,
       LocalOK, Owns, localVars
  <2>5. QED
    BY <2>2, <2>3, <2>4 DEF CountsOK
<1>4. QED
  BY <1>1, <1>2, <1>3 DEF StopStep, StopRequest, StopFlags, StopTest, RootDone, Join

\* Every step of the specification keeps the counting invariant.
LEMMA NextCount == CountInv /\ [Next]_vars => CountInv'
<1> SUFFICES ASSUME CountInv, [Next]_vars PROVE CountInv'
  OBVIOUS
<1>1. CASE UNCHANGED vars
  BY <1>1 DEF vars, CountInv, TypeOK, StartOK, LocalOK, Owns, ActiveCountExact,
     IdleCountExact
<1>2. CASE Next
  BY <1>1, <1>2, SubmitCount, RunCount, StopCount DEF Next, Stopped
<1>3. QED
  BY <1>1, <1>2

\* The counting invariant holds in every reachable state.
LEMMA CountInvariant == Spec => []CountInv
BY InitCount, NextCount, PTL DEF Spec

\* Every variable keeps its type in every reachable state; the counters never go
\* below zero, so the size_t decrements of run() never wrap.
THEOREM TypeCorrect == Spec => []TypeOK
<1>1. CountInv => TypeOK
  BY DEF CountInv
<1>2. QED
  BY <1>1, CountInvariant, PTL

\* m_activeThreadCount and m_idleThreadCount are exact: stopping() sees zero only
\* when no thread is between taking a task and giving its count back, and
\* hasIdleThreads() tells whether a thread is in idle().
THEOREM CountsCorrect == Spec => []CountsExact
<1>1. CountInv => CountsExact
  BY DEF CountInv, CountsExact
<1>2. QED
  BY <1>1, CountInvariant, PTL

-----------------------------------------------------------------------------
-----------------------------------------------------------------------------
(* The queue holds a fiber once *)

QueueDistinct ==
    \A i, k \in DOMAIN m_fibers :
        m_fibers[i].fiber = m_fibers[k].fiber /\ m_fibers[i].fiber # NoFiber => i = k

\* Appending a task whose fiber is not queued keeps the queue free of duplicates
\* and queues that fiber only.
LEMMA AppendHolder ==
  ASSUME TypeOK, QueueDistinct, NEW g \in Fibers \cup {NoFiber}, NEW j, NEW p,
         m_fibers' = Append(m_fibers, [fiber |-> g, cb |-> j, thread |-> p]),
         ~Queued(g) \/ g = NoFiber
  PROVE  /\ QueueDistinct'
         /\ \A f \in Fibers : Queued(f)' <=> Queued(f) \/ f = g
<1> DEFINE e == [fiber |-> g, cb |-> j, thread |-> p]
<1>1. m_fibers \in Seq(FiberAndThread) /\ Len(m_fibers) \in Nat
      /\ DOMAIN m_fibers = 1 .. Len(m_fibers)
  BY DEF TypeOK
<1>2. DOMAIN m_fibers' = 1 .. Len(m_fibers) + 1
  BY <1>1
<1>3. /\ \A i \in 1 .. Len(m_fibers) : m_fibers'[i] = m_fibers[i]
      /\ m_fibers'[Len(m_fibers) + 1] = e
  BY <1>1
<1>4. e.fiber = g
  OBVIOUS
<1> HIDE DEF e
<1>5. QueueDistinct'
  BY <1>1, <1>2, <1>3, <1>4 DEF QueueDistinct, Queued
<1>6. \A f \in Fibers : Queued(f)' <=> Queued(f) \/ f = g
  BY <1>1, <1>2, <1>3, <1>4 DEF Queued
<1>7. QED
  BY <1>5, <1>6

\* Erasing a task keeps the queue free of duplicates and unqueues its fiber.
LEMMA EraseHolder ==
  ASSUME TypeOK, QueueDistinct, NEW i \in DOMAIN m_fibers,
         m_fibers' = EraseAt(m_fibers, i)
  PROVE  /\ QueueDistinct'
         /\ \A f \in Fibers : Queued(f)' <=> Queued(f) /\ f # m_fibers[i].fiber
<1> DEFINE n == Len(m_fibers)
           Old(k) == IF k < i THEN k ELSE k + 1
<1>1. n \in Nat /\ DOMAIN m_fibers = 1 .. n /\ i \in 1 .. n
  BY DEF TypeOK
<1>2. /\ DOMAIN m_fibers' = 1 .. n - 1
      /\ \A k \in 1 .. n - 1 : m_fibers'[k] = m_fibers[Old(k)]
  BY EraseAtType DEF TypeOK
<1>3. \A k \in 1 .. n - 1 : Old(k) \in 1 .. n /\ Old(k) # i
  BY <1>1
<1>4. \A k, m \in 1 .. n - 1 : Old(k) = Old(m) => k = m
  BY <1>1
<1>5. \A m \in 1 .. n : m # i => \E k \in 1 .. n - 1 : Old(k) = m
  <2> SUFFICES ASSUME NEW m \in 1 .. n, m # i
               PROVE  \E k \in 1 .. n - 1 : Old(k) = m
    OBVIOUS
  <2>1. CASE m < i
    BY <1>1, <2>1
  <2>2. CASE m > i
    <3>1. m - 1 \in 1 .. n - 1 /\ Old(m - 1) = m
      BY <1>1, <2>2
    <3>2. QED
      BY <3>1
  <2>3. QED
    BY <1>1, <2>1, <2>2
<1> HIDE DEF n, Old
<1>6. QueueDistinct'
  BY <1>1, <1>2, <1>3, <1>4 DEF QueueDistinct
<1>7. ASSUME NEW f \in Fibers PROVE Queued(f)' <=> Queued(f) /\ f # m_fibers[i].fiber
  <2>1. f # NoFiber
    BY NullAssumption
  <2>2. ASSUME Queued(f)' PROVE Queued(f) /\ f # m_fibers[i].fiber
    BY <2>1, <2>2, <1>1, <1>2, <1>3 DEF Queued, QueueDistinct
  <2>3. ASSUME Queued(f), f # m_fibers[i].fiber PROVE Queued(f)'
    <3>1. PICK m \in 1 .. n : m_fibers[m].fiber = f
      BY <2>3, <1>1 DEF Queued
    <3>2. PICK k \in 1 .. n - 1 : Old(k) = m
      BY <2>3, <3>1, <1>5
    <3>3. QED
      BY <3>1, <3>2, <1>2 DEF Queued
  <2>4. QED
    BY <2>2, <2>3
<1>8. QED
  BY <1>6, <1>7

-----------------------------------------------------------------------------
(* The inductive invariant of the ownership, of the jobs and of stop()         *)

\* The fiber that run() switches to: the task's, or the thread's cb_fiber.
Switched(t) == IF ft[t].fiber # NoFiber THEN ft[t].fiber ELSE cb_fiber[t]

After == {"swapOut", "swapped", "settle"}
Within == {"user", "armed"} \cup After

\* The thread is on its way out of f, which it has handed to a waker: before the
\* yield, or with HOLD published and run() not yet done with the fiber.
Arming(t, f) == Switched(t) = f /\ pc[t] = "armed"
Parking(t, f) == Switched(t) = f /\ pc[t] \in After /\ m_state[f] = "HOLD"

\* The thread was given f and has not switched to it.
Dispatched(t, f) == pc[t] = "dispatch" /\ ft[t].fiber = f

\* f can still be switched in: its waker, the queue or a thread that took it has it.
Token(f) == f \in armed \/ Queued(f) \/ \E u \in Threads : Dispatched(u, f)

\* Thread t and the others may have f at the same time only while one leaves it and
\* the other has yet to switch to it, and then neither a waker nor the queue has it.
Shares(t, f) ==
    /\ m_state[f] # "NONE"
    /\ Queued(f) \/ f \in armed => Arming(t, f) \/ Parking(t, f)
    /\ \A u \in Threads \ {t} : Owns(u, f) =>
        /\ ~Queued(f) /\ f \notin armed
        /\ \/ Dispatched(t, f) /\ Parking(u, f)
           \/ Dispatched(u, f) /\ Parking(t, f)

\* Who has fiber f.  The scan passes over a queued fiber whose state is EXEC, so such
\* a fiber has a thread that will publish another state.
FiberOK(f) ==
    /\ Queued(f) => m_state[f] # "NONE" /\ f \notin armed
    /\ f \in armed => m_state[f] \in {"EXEC", "HOLD"}
    /\ m_state[f] = "EXEC" /\ (Queued(f) \/ f \in armed) =>
          \E t \in Threads : Arming(t, f)
    /\ \A t \in Threads : Owns(t, f) => Shares(t, f)

\* Outside of dispatch and what follows a thread has no task, and a task is a
\* fiber or a callback; only dispatch still holds a callback.
TaskAt(t) ==
    /\ pc[t] \notin Within \cup {"dispatch"} => ft[t].fiber = NoFiber
    /\ pc[t] # "dispatch" => ft[t].cb = NoJob
    /\ ft[t].fiber # NoFiber => ft[t].cb = NoJob

\* A cb_fiber that a thread keeps for its next callback is new and empty.
Keeps(t) == cb_fiber[t] # NoFiber /\ (pc[t] \notin Within \/ ft[t].fiber # NoFiber)

KeptAt(t) ==
    /\ Keeps(t) => m_state[cb_fiber[t]] = "INIT" /\ m_cb[cb_fiber[t]] = NoJob
    /\ ft[t].fiber = cb_fiber[t] => cb_fiber[t] = NoFiber

\* The state of the fiber that the thread has switched to.
PointAt(t) ==
    /\ cur[t] # NoFiber => cur[t] = Switched(t)
    /\ pc[t] \in {"user", "armed"} => m_state[Switched(t)] = "EXEC"
    /\ pc[t] \in After => m_state[Switched(t)] \in {"HOLD", "READY", "TERM", "EXCEPT"}

ThreadOK(t) == TaskAt(t) /\ KeptAt(t) /\ PointAt(t)

\* A fiber that its thread leaves for a waker can still be switched in.
AwaitedAt(t) ==
    pc[t] = "armed" \/ (pc[t] \in After /\ m_state[Switched(t)] = "HOLD") =>
        Token(Switched(t))

\* A fiber bears a job it has not ended.
Bears(f, j) == m_cb[f] = j /\ ~Finished(f)

InQueue(j) == \E i \in DOMAIN m_fibers : m_fibers[i].cb = j
InThread(j) == \E t \in Threads : ft[t].cb = j
InFiber(j) == \E f \in Fibers : Bears(f, j)

QueueOnce(j) ==
    \A i, k \in DOMAIN m_fibers : m_fibers[i].cb = j /\ m_fibers[k].cb = j => i = k
ThreadOnce(j) == \A t, u \in Threads : ft[t].cb = j /\ ft[u].cb = j => t = u
FiberOnce(j) == \A f, g \in Fibers : Bears(f, j) /\ Bears(g, j) => f = g

\* A job that was submitted and has not ended is in one place, any other in none, and only
\* submitted jobs end.
PlaceAt(j) ==
    /\ QueueOnce(j) /\ ThreadOnce(j) /\ FiberOnce(j)
    /\ ~(InQueue(j) /\ InThread(j)) /\ ~(InQueue(j) /\ InFiber(j))
    /\ ~(InThread(j) /\ InFiber(j))
    /\ InQueue(j) \/ InThread(j) \/ InFiber(j) <=> j \in issued /\ j \notin done
    /\ j \in done => j \in issued

\* A queued task is a fiber or a callback, and a fiber that is not yet built has
\* no job.
EmptyOK ==
    /\ \A i \in DOMAIN m_fibers : m_fibers[i].fiber # NoFiber => m_fibers[i].cb = NoJob
    /\ \A f \in Fibers : m_state[f] = "NONE" => m_cb[f] = NoJob

\* Threads leave only after stop() has set its flags, and all have left when it
\* returns.
StopOK ==
    /\ mpc \in {"new", "up", "stopRequested"} =>
          \A t \in Threads : pc[t] # "exit" /\ idleTerm[t] = FALSE
    /\ mpc \in {"up", "stopRequested"} => m_stopping = FALSE
    /\ mpc # "new" => \A t \in Workers : pc[t] # "off"
    /\ UseCaller /\ mpc \in {"join", "down"} => pc[Caller] \in {"off", "exit"}
    /\ mpc = "down" => \A t \in Workers : pc[t] = "exit"

\* The thread will not look at the queue again.
Leaves(t) == pc[t] \in {"off", "exit"} \/ (pc[t] = "noTask" /\ idleTerm[t] = TRUE)

\* While a task for any thread is queued, some thread will look at it, or has yet
\* to be started.
DrainOK ==
    (\E i \in DOMAIN m_fibers : m_fibers[i].thread = AnyThread) =>
        \/ mpc = "new"
        \/ Workers = {} /\ mpc \in {"up", "stopRequested", "stopTest"}
        \/ \E t \in Threads : ~Leaves(t)

Reached(f) ==
    \/ m_state[f] = "NONE" \/ Finished(f) \/ Queued(f)
    \/ \E t \in Threads : Owns(t, f)
    \/ m_state[f] = "HOLD" /\ f \in armed

\* What holds until a fiber is switched in that another thread's run() has.
JobInv ==
    /\ CountInv /\ QueueDistinct /\ EmptyOK /\ StopOK /\ DrainOK
    /\ \A f \in Fibers : FiberOK(f) /\ Reached(f)
    /\ \A t \in Threads : ThreadOK(t) /\ AwaitedAt(t)
    /\ \A j \in Jobs : PlaceAt(j)

\* What the provers need of the types, with the records left closed.
DomOK ==
    /\ m_fibers \in Seq(FiberAndThread) /\ pc \in [Threads -> Points]
    /\ ft \in [Threads -> FiberAndThread]
    /\ cb_fiber \in [Threads -> Fibers \cup {NoFiber}]
    /\ cur \in [Threads -> Fibers \cup {NoFiber}] /\ idleTerm \in [Threads -> BOOLEAN]
    /\ m_state \in [Fibers -> State] /\ m_cb \in [Fibers -> Jobs \cup {NoJob}]
    /\ \A t \in Threads : ft[t].fiber \in Fibers \cup {NoFiber} /\ ft[t].cb \in Jobs \cup {NoJob}
    /\ \A i \in DOMAIN m_fibers : m_fibers[i] \in FiberAndThread
    /\ NullTask.fiber = NoFiber /\ NullTask.cb = NoJob /\ NullTask.thread = AnyThread

\* The types of a state of JobInv.
LEMMA JobTypes == JobInv => DomOK
<1> SUFFICES ASSUME JobInv PROVE DomOK
  OBVIOUS
<1>1. TypeOK
  BY DEF JobInv, CountInv
<1>2. \A x \in FiberAndThread : x.fiber \in Fibers \cup {NoFiber} /\ x.cb \in Jobs \cup {NoJob}
  BY DEF FiberAndThread
<1>3. NullTask.fiber = NoFiber /\ NullTask.cb = NoJob /\ NullTask.thread = AnyThread
  BY DEF NullTask
<1>4. \A i \in DOMAIN m_fibers : m_fibers[i] \in FiberAndThread
  BY <1>1 DEF TypeOK
<1>5. /\ m_fibers \in Seq(FiberAndThread) /\ pc \in [Threads -> Points]
      /\ ft \in [Threads -> FiberAndThread]
      /\ cb_fiber \in [Threads -> Fibers \cup {NoFiber}]
      /\ cur \in [Threads -> Fibers \cup {NoFiber}] /\ idleTerm \in [Threads -> BOOLEAN]
      /\ m_state \in [Fibers -> State] /\ m_cb \in [Fibers -> Jobs \cup {NoJob}]
  BY <1>1 DEF TypeOK, Points
<1>6. QED  BY <1>2, <1>3, <1>4, <1>5 DEF DomOK

\* The fiber that a thread has switched to is in its hands.
LEMMA SwitchedAlone ==
  ASSUME JobInv, NEW t \in Threads, pc[t] \in Within
  PROVE  Switched(t) \in Fibers /\ Owns(t, Switched(t)) /\ m_state[Switched(t)] # "NONE"
<1>1. DomOK
  BY JobTypes
<1>2. LocalOK
  BY DEF JobInv, CountInv
<1>3. Switched(t) \in Fibers /\ Owns(t, Switched(t))
  BY <1>1, <1>2 DEF DomOK, LocalOK, Switched, Owns, Within, After
<1>4. QED  BY <1>3 DEF JobInv, FiberOK, Shares

\* A thread in user code is on the stack of the fiber it has switched to.
LEMMA OnSwitched ==
  ASSUME JobInv, NEW t \in Threads
  PROVE  /\ pc[t] \in {"user", "armed", "swapOut"} => cur[t] = Switched(t)
         /\ pc[t] \in {"user", "armed"} => m_state[Switched(t)] = "EXEC"
BY DEF JobInv, CountInv, LocalOK, ThreadOK, PointAt

\* Only the other threads' locals stay.
OthersStay(t) ==
    \A u \in Threads \ {t} :
        /\ pc'[u] = pc[u] /\ ft'[u] = ft[u] /\ cb_fiber'[u] = cb_fiber[u]
        /\ cur'[u] = cur[u] /\ idleTerm'[u] = idleTerm[u]

\* Fiber f is not written.
Untouched(f) == m_state'[f] = m_state[f] /\ m_cb'[f] = m_cb[f]

\* A step of run() changes the locals of its own thread only.
LEMMA RunLocals ==
  ASSUME JobInv, NEW t \in Threads, RunStep(t)
  PROVE  OthersStay(t)
<1>1. DomOK
  BY JobTypes
<1>2. ASSUME TakeTask(t) PROVE OthersStay(t)
  BY <1>2, <1>1 DEF TakeTask, goto, fiberVars, localVars, DomOK, OthersStay
<1>3. ASSUME NoTask(t) PROVE OthersStay(t)
  BY <1>3, <1>1 DEF NoTask, goto, fiberVars, localVars, DomOK, OthersStay
<1>4. ASSUME RunFiber(t) PROVE OthersStay(t)
  BY <1>4, <1>1 DEF RunFiber, goto, swapIn, fiberVars, localVars, DomOK, OthersStay
<1>5. ASSUME DropFinished(t) PROVE OthersStay(t)
  BY <1>5, <1>1 DEF DropFinished, goto, fiberVars, localVars, DomOK, OthersStay
<1>6. ASSUME RunCb(t) PROVE OthersStay(t)
  BY <1>6, <1>1 DEF RunCb, goto, swapIn, fiberVars, localVars, DomOK, OthersStay
<1>7. ASSUME Arm(t) PROVE OthersStay(t)
  BY <1>7, <1>1 DEF Arm, goto, fiberVars, localVars, DomOK, OthersStay
<1>8. ASSUME YieldToHold(t) PROVE OthersStay(t)
  BY <1>8, <1>1 DEF YieldToHold, goto, setState, fiberVars, localVars, DomOK, OthersStay
<1>9. ASSUME YieldToReady(t) PROVE OthersStay(t)
  BY <1>9, <1>1 DEF YieldToReady, goto, setState, fiberVars, localVars, DomOK, OthersStay
<1>10. ASSUME MainFunc(t) PROVE OthersStay(t)
  BY <1>10, <1>1 DEF MainFunc, goto, setState, fiberVars, localVars, DomOK, OthersStay
<1>11. ASSUME swapOut(t) PROVE OthersStay(t)
  BY <1>11, <1>1 DEF swapOut, goto, fiberVars, localVars, DomOK, OthersStay
<1>12. ASSUME Deactivate(t) PROVE OthersStay(t)
  BY <1>12, <1>1 DEF Deactivate, goto, fiberVars, localVars, DomOK, OthersStay
<1>13. ASSUME SettleFiber(t) PROVE OthersStay(t)
  BY <1>13, <1>1 DEF SettleFiber, goto, fiberVars, localVars, DomOK, OthersStay
<1>14. ASSUME SettleCb(t) PROVE OthersStay(t)
  BY <1>14, <1>1 DEF SettleCb, goto, reset, ReleaseCbFiber, fiberVars, localVars, DomOK,
     OthersStay
<1>15. ASSUME EnterIdle(t) PROVE OthersStay(t)
  BY <1>15, <1>1 DEF EnterIdle, goto, fiberVars, localVars, DomOK, OthersStay
<1>16. ASSUME idle(t) PROVE OthersStay(t)
  BY <1>16, <1>1 DEF idle, goto, fiberVars, localVars, DomOK, OthersStay
<1>17. ASSUME LeaveIdle(t) PROVE OthersStay(t)
  BY <1>17, <1>1 DEF LeaveIdle, goto, fiberVars, localVars, DomOK, OthersStay
<1>18. ASSUME ExitRun(t) PROVE OthersStay(t)
  BY <1>18, <1>1 DEF ExitRun, goto, fiberVars, localVars, DomOK, OthersStay
<1>19. QED  BY <1>2, <1>3, <1>4, <1>5, <1>6, <1>7, <1>8, <1>9, <1>10, <1>11, <1>12, <1>13,
      <1>14, <1>15, <1>16, <1>17, <1>18, RunStep(t) DEF RunStep

WritesOwn(t) ==
    \A f \in Fibers : ~Owns(t, f) /\ m_state[f] # "NONE" => Untouched(f)

\* A step of run() writes only a fiber in its thread's hands, or one it builds.
LEMMA RunWrites ==
  ASSUME JobInv, NEW t \in Threads, RunStep(t)
  PROVE  WritesOwn(t)
<1>1. DomOK
  BY JobTypes
<1>2. ASSUME TakeTask(t) PROVE WritesOwn(t)
  BY <1>2 DEF TakeTask, goto, fiberVars, localVars, Untouched, WritesOwn
<1>3. ASSUME NoTask(t) PROVE WritesOwn(t)
  BY <1>3 DEF NoTask, goto, fiberVars, localVars, Untouched, WritesOwn
<1>4. ASSUME RunFiber(t) PROVE WritesOwn(t)
  BY <1>4, <1>1, NullAssumption DEF RunFiber, goto, swapIn, fiberVars, localVars, DomOK, Owns,
     Untouched, WritesOwn
<1>5. ASSUME DropFinished(t) PROVE WritesOwn(t)
  BY <1>5 DEF DropFinished, goto, fiberVars, localVars, Untouched, WritesOwn
<1>6. ASSUME RunCb(t) PROVE WritesOwn(t)
  <2>1. PICK g \in Fibers :
            /\ IF cb_fiber[t] # NoFiber THEN g = cb_fiber[t] ELSE m_state[g] = "NONE"
            /\ m_state' = [m_state EXCEPT ![g] = "EXEC"]
            /\ m_cb' = [m_cb EXCEPT ![g] = ft[t].cb]
    BY <1>6 DEF RunCb
  <2>2. QED  BY <1>6, <1>1, <2>1 DEF RunCb, DomOK, Owns, Untouched, WritesOwn
<1>7. ASSUME Arm(t) PROVE WritesOwn(t)
  <2>1. Switched(t) \in Fibers /\ Owns(t, Switched(t))
    BY <1>7, SwitchedAlone DEF Arm, goto, fiberVars, localVars, Within, After
  <2>2. \A f \in Fibers \ {Switched(t)} : Untouched(f)
    BY <1>7, <1>1, OnSwitched DEF Arm, goto, fiberVars, localVars, DomOK, Untouched, WritesOwn,
       Switched
  <2>3. QED  BY <2>1, <2>2 DEF WritesOwn
<1>8. ASSUME YieldToHold(t) PROVE WritesOwn(t)
  <2>1. Switched(t) \in Fibers /\ Owns(t, Switched(t))
    BY <1>8, SwitchedAlone DEF YieldToHold, goto, setState, fiberVars, localVars, Within, After
  <2>2. \A f \in Fibers \ {Switched(t)} : Untouched(f)
    BY <1>8, <1>1, OnSwitched DEF YieldToHold, goto, setState, fiberVars, localVars, DomOK,
       Untouched, WritesOwn, Switched
  <2>3. QED  BY <2>1, <2>2 DEF WritesOwn
<1>9. ASSUME YieldToReady(t) PROVE WritesOwn(t)
  <2>1. Switched(t) \in Fibers /\ Owns(t, Switched(t))
    BY <1>9, SwitchedAlone DEF YieldToReady, goto, setState, fiberVars, localVars, Within, After
  <2>2. \A f \in Fibers \ {Switched(t)} : Untouched(f)
    BY <1>9, <1>1, OnSwitched DEF YieldToReady, goto, setState, fiberVars, localVars, DomOK,
       Untouched, WritesOwn, Switched
  <2>3. QED  BY <2>1, <2>2 DEF WritesOwn
<1>10. ASSUME MainFunc(t) PROVE WritesOwn(t)
  <2>1. Switched(t) \in Fibers /\ Owns(t, Switched(t))
    BY <1>10, SwitchedAlone DEF MainFunc, goto, setState, fiberVars, localVars, Within, After
  <2>2. \A f \in Fibers \ {Switched(t)} : Untouched(f)
    BY <1>10, <1>1, OnSwitched DEF MainFunc, goto, setState, fiberVars, localVars, DomOK,
       Untouched, WritesOwn, Switched
  <2>3. QED  BY <2>1, <2>2 DEF WritesOwn
<1>11. ASSUME swapOut(t) PROVE WritesOwn(t)
  BY <1>11 DEF swapOut, goto, fiberVars, localVars, Untouched, WritesOwn
<1>12. ASSUME Deactivate(t) PROVE WritesOwn(t)
  BY <1>12 DEF Deactivate, goto, fiberVars, localVars, Untouched, WritesOwn
<1>13. ASSUME SettleFiber(t) PROVE WritesOwn(t)
  <2>1. Switched(t) \in Fibers /\ Owns(t, Switched(t))
    BY <1>13, SwitchedAlone DEF SettleFiber, goto, fiberVars, localVars, Within, After
  <2>2. \A f \in Fibers \ {Switched(t)} : Untouched(f)
    BY <1>13, <1>1, OnSwitched DEF SettleFiber, goto, fiberVars, localVars, DomOK, Untouched,
       WritesOwn,
       Switched
  <2>3. QED  BY <2>1, <2>2 DEF WritesOwn
<1>14. ASSUME SettleCb(t) PROVE WritesOwn(t)
  <2>1. Switched(t) \in Fibers /\ Owns(t, Switched(t))
    BY <1>14, SwitchedAlone DEF SettleCb, goto, reset, ReleaseCbFiber, fiberVars, localVars,
       Within, After
  <2>2. \A f \in Fibers \ {Switched(t)} : Untouched(f)
    BY <1>14, <1>1, OnSwitched DEF SettleCb, goto, reset, ReleaseCbFiber, fiberVars, localVars,
       DomOK, Untouched, WritesOwn, Switched
  <2>3. QED  BY <2>1, <2>2 DEF WritesOwn
<1>15. ASSUME EnterIdle(t) PROVE WritesOwn(t)
  BY <1>15 DEF EnterIdle, goto, fiberVars, localVars, Untouched, WritesOwn
<1>16. ASSUME idle(t) PROVE WritesOwn(t)
  BY <1>16 DEF idle, goto, fiberVars, localVars, Untouched, WritesOwn
<1>17. ASSUME LeaveIdle(t) PROVE WritesOwn(t)
  BY <1>17 DEF LeaveIdle, goto, fiberVars, localVars, Untouched, WritesOwn
<1>18. ASSUME ExitRun(t) PROVE WritesOwn(t)
  BY <1>18 DEF ExitRun, goto, fiberVars, localVars, Untouched, WritesOwn
<1>19. QED  BY <1>2, <1>3, <1>4, <1>5, <1>6, <1>7, <1>8, <1>9, <1>10, <1>11, <1>12, <1>13,
      <1>14, <1>15, <1>16, <1>17, <1>18, RunStep(t) DEF RunStep

\* What FiberOK says of a thread that has the fiber and is not on its way out of it.
LEMMA HeldAlone ==
  ASSUME JobInv, NEW t \in Threads, NEW f \in Fibers, Owns(t, f),
         ~Arming(t, f), ~Parking(t, f)
  PROVE  /\ m_state[f] # "NONE" /\ ~Queued(f) /\ f \notin armed
         /\ \A u \in Threads \ {t} : Owns(u, f) => Dispatched(t, f) /\ Parking(u, f)
<1>1. Shares(t, f)
  BY DEF JobInv, FiberOK
<1>2. QED  BY <1>1 DEF Shares

\* Two threads have a fiber only when its state is HOLD.
LEMMA SharedHolds ==
  ASSUME JobInv, NEW t \in Threads, NEW u \in Threads, u # t, NEW f \in Fibers,
         Owns(t, f), Owns(u, f)
  PROVE  /\ m_state[f] = "HOLD" /\ ~Queued(f) /\ f \notin armed
         /\ \/ Dispatched(t, f) /\ Parking(u, f)
            \/ Dispatched(u, f) /\ Parking(t, f)
<1>1. Shares(t, f)
  BY DEF JobInv, FiberOK
<1>2. QED  BY <1>1 DEF Shares, Parking

\* A cb_fiber that is kept is in one thread's hands alone.
LEMMA KeptAlone ==
  ASSUME JobInv, NEW t \in Threads, NEW f \in Fibers, Keeps(t), cb_fiber[t] = f
  PROVE  /\ m_state[f] # "NONE" /\ ~Queued(f) /\ f \notin armed
         /\ \A u \in Threads : Owns(u, f) => u = t
<1>1. m_state[f] = "INIT" /\ PointAt(t) /\ Owns(t, f)
  BY DEF JobInv, ThreadOK, KeptAt, Owns
<1>2. ~Arming(t, f) /\ ~Parking(t, f)
  BY <1>1 DEF Arming, Parking, PointAt
<1>3. \A u \in Threads : ~Parking(u, f)
  BY <1>1 DEF Parking
<1>4. QED  BY <1>1, <1>2, <1>3, HeldAlone

\* A fiber that two threads have is not written, unless one switches to it.
LEMMA RunUntouched ==
  ASSUME JobInv, NEW t \in Threads, RunStep(t), ~torn', NEW u \in Threads, u # t,
         NEW f \in Fibers, Owns(u, f)
  PROVE  Untouched(f)
<1> USE NullAssumption
<1>1. DomOK /\ FiberOK(f)
  BY JobTypes DEF JobInv
<1>2. CASE ~Owns(t, f)
  BY <1>1, <1>2, RunWrites DEF FiberOK, Shares, WritesOwn
<1>3. CASE Owns(t, f) /\ Dispatched(t, f)
  <2>1. pc[t] = "dispatch" /\ ft[t].fiber = f
    BY <1>3 DEF Dispatched
  <2>2. ~RunFiber(t)
    BY <2>1 DEF RunFiber
  <2>3. DropFinished(t) \/ TakeTask(t) \/ NoTask(t)
    BY <2>1, <2>2, RunStep(t) DEF RunStep, RunCb, Arm, YieldToHold, YieldToReady, MainFunc,
       swapOut, Deactivate, SettleFiber, SettleCb, EnterIdle, idle, LeaveIdle, ExitRun
  <2>4. QED  BY <2>3 DEF DropFinished, TakeTask, NoTask, fiberVars, Untouched
<1>4. CASE Owns(t, f) /\ Parking(t, f)
  <2>1. pc[t] \in After /\ Switched(t) = f /\ m_state[f] = "HOLD"
    BY <1>4 DEF Parking
  <2>2. swapOut(t) \/ Deactivate(t) \/ SettleFiber(t) \/ SettleCb(t)
    BY <2>1, RunStep(t) DEF RunStep, TakeTask, NoTask, RunFiber, DropFinished, RunCb, Arm,
       YieldToHold, YieldToReady, MainFunc, EnterIdle, idle, LeaveIdle, ExitRun, After
  <2>3. CASE swapOut(t) \/ Deactivate(t)
    BY <2>3 DEF swapOut, Deactivate, fiberVars, Untouched
  <2>4. CASE SettleFiber(t)
    BY <1>1, <2>1, <2>4 DEF SettleFiber, Switched, DomOK, Untouched
  <2>5. CASE SettleCb(t)
    BY <1>1, <2>1, <2>5 DEF SettleCb, reset, Finished, Switched, DomOK, Untouched
  <2>6. QED  BY <2>2, <2>3, <2>4, <2>5
<1>5. QED  BY <1>2, <1>3, <1>4, SharedHolds

\* The thread stays where it is, or outside of dispatch and what follows.
PointStays(u) ==
    \/ pc'[u] = pc[u]
    \/ pc[u] \notin Within \cup {"dispatch"} /\ pc'[u] \notin Within \cup {"dispatch"}

\* A thread whose locals and whose fibers stay is as it was.
LEMMA ThreadStays ==
  ASSUME DomOK, NEW u \in Threads, ThreadOK(u),
         LocalOK, PointStays(u),
         ft'[u] = ft[u], cb_fiber'[u] = cb_fiber[u], cur'[u] = cur[u],
         \A f \in Fibers : Owns(u, f) => Untouched(f)
  PROVE  ThreadOK(u)'
<1>1. TaskAt(u)'
  BY DEF ThreadOK, TaskAt, Within, PointStays
<1>2. KeptAt(u)'
  BY NullAssumption DEF ThreadOK, KeptAt, Keeps, DomOK, Owns, Untouched, Within, PointStays
<1>3. PointAt(u)'
  <2>1. Switched(u)' = Switched(u)
    BY DEF Switched
  <2>2. pc[u] \in Within => Switched(u) \in Fibers /\ Owns(u, Switched(u))
    BY DEF DomOK, LocalOK, Switched, Owns, Within, After
  <2>3. pc[u] \in Within => Untouched(Switched(u)) /\ pc'[u] = pc[u]
    BY <2>2 DEF PointStays, Within
  <2>4. QED  BY <2>1, <2>2, <2>3 DEF ThreadOK, PointAt, Untouched, Within, After, PointStays
<1>4. QED  BY <1>1, <1>2, <1>3 DEF ThreadOK

\* A step of run() leaves the other threads as they were.
LEMMA RunOthers ==
  ASSUME JobInv, NEW t \in Threads, RunStep(t), ~torn', NEW u \in Threads, u # t
  PROVE  ThreadOK(u)'
<1>1. DomOK /\ OthersStay(t)
  BY JobTypes, RunLocals
<1>2. LocalOK /\ ThreadOK(u)
  BY DEF JobInv, CountInv
<1>3. \A f \in Fibers : Owns(u, f) => Untouched(f)
  BY RunUntouched
<1>4. PointStays(u) /\ ft'[u] = ft[u] /\ cb_fiber'[u] = cb_fiber[u] /\ cur'[u] = cur[u]
  BY <1>1 DEF OthersStay, PointStays
<1>5. QED  BY <1>1, <1>2, <1>3, <1>4, ThreadStays

\* The task of the thread that steps.
LEMMA OwnTask ==
  ASSUME JobInv, NEW t \in Threads, RunStep(t)
  PROVE  TaskAt(t)'
<1> USE NullAssumption
<1>1. DomOK
  BY JobTypes
<1>2. TaskAt(t)
  BY DEF JobInv, ThreadOK
<1>3. ASSUME TakeTask(t) PROVE TaskAt(t)'
  BY <1>3, <1>1, <1>2 DEF TakeTask, goto, fiberVars, localVars, JobInv, EmptyOK, DomOK, TaskAt,
     Within, After
<1>4. ASSUME NoTask(t) PROVE TaskAt(t)'
  BY <1>4, <1>1, <1>2 DEF NoTask, goto, fiberVars, localVars, DomOK, TaskAt, Within, After
<1>5. ASSUME RunFiber(t) PROVE TaskAt(t)'
  BY <1>5, <1>1, <1>2 DEF RunFiber, goto, swapIn, fiberVars, localVars, DomOK, TaskAt, Within,
     After
<1>6. ASSUME DropFinished(t) PROVE TaskAt(t)'
  BY <1>6, <1>1, <1>2 DEF DropFinished, goto, fiberVars, localVars, DomOK, TaskAt, Within, After
<1>7. ASSUME RunCb(t) PROVE TaskAt(t)'
  BY <1>7, <1>1, <1>2 DEF RunCb, goto, swapIn, fiberVars, localVars, DomOK, TaskAt, Within, After
<1>8. ASSUME Arm(t) PROVE TaskAt(t)'
  BY <1>8, <1>1, <1>2 DEF Arm, goto, fiberVars, localVars, DomOK, TaskAt, Within, After
<1>9. ASSUME YieldToHold(t) PROVE TaskAt(t)'
  BY <1>9, <1>1, <1>2 DEF YieldToHold, goto, setState, fiberVars, localVars, DomOK, TaskAt,
     Within, After
<1>10. ASSUME YieldToReady(t) PROVE TaskAt(t)'
  BY <1>10, <1>1, <1>2 DEF YieldToReady, goto, setState, fiberVars, localVars, DomOK, TaskAt,
     Within, After
<1>11. ASSUME MainFunc(t) PROVE TaskAt(t)'
  BY <1>11, <1>1, <1>2 DEF MainFunc, goto, setState, fiberVars, localVars, DomOK, TaskAt,
     Within, After
<1>12. ASSUME swapOut(t) PROVE TaskAt(t)'
  BY <1>12, <1>1, <1>2 DEF swapOut, goto, fiberVars, localVars, DomOK, TaskAt, Within, After
<1>13. ASSUME Deactivate(t) PROVE TaskAt(t)'
  BY <1>13, <1>1, <1>2 DEF Deactivate, goto, fiberVars, localVars, DomOK, TaskAt, Within, After
<1>14. ASSUME SettleFiber(t) PROVE TaskAt(t)'
  BY <1>14, <1>1, <1>2 DEF SettleFiber, goto, fiberVars, localVars, DomOK, TaskAt, Within, After
<1>15. ASSUME SettleCb(t) PROVE TaskAt(t)'
  BY <1>15, <1>1, <1>2 DEF SettleCb, goto, reset, ReleaseCbFiber, fiberVars, localVars, DomOK,
     TaskAt, Within, After
<1>16. ASSUME EnterIdle(t) PROVE TaskAt(t)'
  BY <1>16, <1>1, <1>2 DEF EnterIdle, goto, fiberVars, localVars, DomOK, TaskAt, Within, After
<1>17. ASSUME idle(t) PROVE TaskAt(t)'
  BY <1>17, <1>1, <1>2 DEF idle, goto, fiberVars, localVars, DomOK, TaskAt, Within, After
<1>18. ASSUME LeaveIdle(t) PROVE TaskAt(t)'
  BY <1>18, <1>1, <1>2 DEF LeaveIdle, goto, fiberVars, localVars, DomOK, TaskAt, Within, After
<1>19. ASSUME ExitRun(t) PROVE TaskAt(t)'
  BY <1>19, <1>1, <1>2 DEF ExitRun, goto, fiberVars, localVars, DomOK, TaskAt, Within, After
<1>20. QED  BY <1>3, <1>4, <1>5, <1>6, <1>7, <1>8, <1>9, <1>10, <1>11, <1>12, <1>13, <1>14,
      <1>15, <1>16, <1>17, <1>18, <1>19, RunStep(t) DEF RunStep

\* The cb_fiber that the thread that steps keeps.
LEMMA OwnKept ==
  ASSUME JobInv, NEW t \in Threads, RunStep(t)
  PROVE  KeptAt(t)'
<1> USE NullAssumption
<1>1. DomOK
  BY JobTypes
<1>2. KeptAt(t)
  BY DEF JobInv, ThreadOK
<1>3. ft[t].fiber = cb_fiber[t] => cb_fiber[t] = NoFiber
  BY <1>2 DEF KeptAt
<1>4. ASSUME TakeTask(t) PROVE KeptAt(t)'
  <2>1. PICK i \in DOMAIN m_fibers : ft' = [ft EXCEPT ![t] = m_fibers[i]]
    BY <1>4 DEF TakeTask
  <2>2. cb_fiber[t] # NoFiber => Keeps(t) /\ cb_fiber[t] \in Fibers
    BY <1>4, <1>1 DEF TakeTask, Keeps, Within, After, DomOK
  <2>3. m_fibers[i].fiber = cb_fiber[t] => cb_fiber[t] = NoFiber
    BY <2>2, KeptAlone DEF Queued
  <2>4. ft'[t].fiber = m_fibers[i].fiber /\ UNCHANGED <<cb_fiber, m_state, m_cb>>
    BY <1>4, <1>1, <2>1 DEF TakeTask, fiberVars, DomOK
  <2>5. cb_fiber[t] # NoFiber => m_state[cb_fiber[t]] = "INIT" /\ m_cb[cb_fiber[t]] = NoJob
    BY <1>2, <2>2 DEF KeptAt
  <2>6. ft'[t].fiber = cb_fiber'[t] => cb_fiber'[t] = NoFiber
    BY <2>3, <2>4
  <2>7. Keeps(t)' => m_state'[cb_fiber'[t]] = "INIT" /\ m_cb'[cb_fiber'[t]] = NoJob
    BY <2>4, <2>5 DEF Keeps
  <2>8. QED  BY <2>6, <2>7 DEF KeptAt
<1>5. ASSUME NoTask(t) PROVE KeptAt(t)'
  BY <1>5, <1>1, <1>2 DEF NoTask, goto, fiberVars, localVars, DomOK, KeptAt, Keeps, Within, After
<1>6. ASSUME RunFiber(t) PROVE KeptAt(t)'
  BY <1>6, <1>1, <1>2, <1>3, OnSwitched DEF RunFiber, goto, swapIn, fiberVars, localVars,
     Switched, DomOK, KeptAt, Keeps, Within, After
<1>7. ASSUME DropFinished(t) PROVE KeptAt(t)'
  BY <1>7, <1>1, <1>2 DEF DropFinished, goto, fiberVars, localVars, DomOK, KeptAt, Keeps,
     Within, After
<1>8. ASSUME RunCb(t) PROVE KeptAt(t)'
  BY <1>8, <1>1, <1>2 DEF RunCb, goto, swapIn, fiberVars, localVars, DomOK, KeptAt, Keeps,
     Within, After
<1>9. ASSUME Arm(t) PROVE KeptAt(t)'
  BY <1>9, <1>1, <1>2, <1>3, OnSwitched DEF Arm, goto, fiberVars, localVars, Switched, DomOK,
     KeptAt, Keeps, Within, After
<1>10. ASSUME YieldToHold(t) PROVE KeptAt(t)'
  BY <1>10, <1>1, <1>2, <1>3, OnSwitched DEF YieldToHold, goto, setState, fiberVars, localVars,
     Switched, DomOK, KeptAt, Keeps, Within, After
<1>11. ASSUME YieldToReady(t) PROVE KeptAt(t)'
  BY <1>11, <1>1, <1>2, <1>3, OnSwitched DEF YieldToReady, goto, setState, fiberVars,
     localVars, Switched, DomOK, KeptAt, Keeps, Within, After
<1>12. ASSUME MainFunc(t) PROVE KeptAt(t)'
  BY <1>12, <1>1, <1>2, <1>3, OnSwitched DEF MainFunc, goto, setState, fiberVars, localVars,
     Switched, DomOK, KeptAt, Keeps, Within, After
<1>13. ASSUME swapOut(t) PROVE KeptAt(t)'
  BY <1>13, <1>1, <1>2 DEF swapOut, goto, fiberVars, localVars, DomOK, KeptAt, Keeps, Within,
     After
<1>14. ASSUME Deactivate(t) PROVE KeptAt(t)'
  BY <1>14, <1>1, <1>2 DEF Deactivate, goto, fiberVars, localVars, DomOK, KeptAt, Keeps,
     Within, After
<1>15. ASSUME SettleFiber(t) PROVE KeptAt(t)'
  BY <1>15, <1>1, <1>2, <1>3, OnSwitched DEF SettleFiber, goto, fiberVars, localVars, Switched,
     DomOK, KeptAt, Keeps, Within, After
<1>16. ASSUME SettleCb(t) PROVE KeptAt(t)'
  BY <1>16, <1>1, <1>2, <1>3, OnSwitched DEF SettleCb, goto, reset, ReleaseCbFiber, fiberVars,
     localVars, Switched, DomOK, KeptAt, Keeps, Within, After
<1>17. ASSUME EnterIdle(t) PROVE KeptAt(t)'
  BY <1>17, <1>1, <1>2 DEF EnterIdle, goto, fiberVars, localVars, DomOK, KeptAt, Keeps, Within,
     After
<1>18. ASSUME idle(t) PROVE KeptAt(t)'
  BY <1>18, <1>1, <1>2 DEF idle, goto, fiberVars, localVars, DomOK, KeptAt, Keeps, Within, After
<1>19. ASSUME LeaveIdle(t) PROVE KeptAt(t)'
  BY <1>19, <1>1, <1>2 DEF LeaveIdle, goto, fiberVars, localVars, DomOK, KeptAt, Keeps, Within,
     After
<1>20. ASSUME ExitRun(t) PROVE KeptAt(t)'
  BY <1>20, <1>1, <1>2 DEF ExitRun, goto, fiberVars, localVars, DomOK, KeptAt, Keeps, Within,
     After
<1>21. QED  BY <1>4, <1>5, <1>6, <1>7, <1>8, <1>9, <1>10, <1>11, <1>12, <1>13, <1>14, <1>15,
      <1>16, <1>17, <1>18, <1>19, <1>20, RunStep(t) DEF RunStep

\* The fiber that the thread that steps has switched to.
LEMMA OwnPoint ==
  ASSUME JobInv, NEW t \in Threads, RunStep(t)
  PROVE  PointAt(t)'
<1> USE NullAssumption
<1>1. DomOK
  BY JobTypes
<1>2. PointAt(t)
  BY DEF JobInv, ThreadOK
<1>3. pc[t] \notin {"user", "armed", "swapOut"} => cur[t] = NoFiber
  BY DEF JobInv, CountInv, LocalOK
<1>4. ASSUME TakeTask(t) PROVE PointAt(t)'
  BY <1>4, <1>1, <1>2, <1>3 DEF TakeTask, goto, fiberVars, localVars, DomOK, PointAt, Switched,
     Within, After
<1>5. ASSUME NoTask(t) PROVE PointAt(t)'
  BY <1>5, <1>1, <1>2 DEF NoTask, goto, fiberVars, localVars, DomOK, PointAt, Switched, Within,
     After
<1>6. ASSUME RunFiber(t) PROVE PointAt(t)'
  BY <1>6, <1>1, <1>2 DEF RunFiber, goto, swapIn, fiberVars, localVars, DomOK, PointAt,
     Switched, Within, After
<1>7. ASSUME DropFinished(t) PROVE PointAt(t)'
  BY <1>7, <1>1, <1>2, <1>3 DEF DropFinished, goto, fiberVars, localVars, DomOK, PointAt,
     Switched, Within, After
<1>8. ASSUME RunCb(t) PROVE PointAt(t)'
  BY <1>8, <1>1, <1>2 DEF RunCb, goto, swapIn, fiberVars, localVars, DomOK, PointAt, Switched,
     Within, After
<1>9. ASSUME Arm(t) PROVE PointAt(t)'
  BY <1>9, <1>1, <1>2, OnSwitched, SwitchedAlone DEF Arm, goto, fiberVars, localVars, DomOK,
     PointAt, Switched, Within, After
<1>10. ASSUME YieldToHold(t) PROVE PointAt(t)'
  BY <1>10, <1>1, <1>2, OnSwitched, SwitchedAlone DEF YieldToHold, goto, setState, fiberVars,
     localVars, DomOK, PointAt, Switched, Within, After
<1>11. ASSUME YieldToReady(t) PROVE PointAt(t)'
  BY <1>11, <1>1, <1>2, OnSwitched, SwitchedAlone DEF YieldToReady, goto, setState, fiberVars,
     localVars, DomOK, PointAt, Switched, Within, After
<1>12. ASSUME MainFunc(t) PROVE PointAt(t)'
  BY <1>12, <1>1, <1>2, OnSwitched, SwitchedAlone DEF MainFunc, goto, setState, fiberVars,
     localVars, DomOK, PointAt, Switched, Within, After
<1>13. ASSUME swapOut(t) PROVE PointAt(t)'
  BY <1>13, <1>1, <1>2, OnSwitched, SwitchedAlone DEF swapOut, goto, fiberVars, localVars,
     DomOK, PointAt, Switched, Within, After
<1>14. ASSUME Deactivate(t) PROVE PointAt(t)'
  BY <1>14, <1>1, <1>2, OnSwitched, SwitchedAlone DEF Deactivate, goto, fiberVars, localVars,
     DomOK, PointAt, Switched, Within, After
<1>15. ASSUME SettleFiber(t) PROVE PointAt(t)'
  BY <1>15, <1>1, <1>2, <1>3 DEF SettleFiber, goto, fiberVars, localVars, DomOK, PointAt,
     Switched, Within, After
<1>16. ASSUME SettleCb(t) PROVE PointAt(t)'
  BY <1>16, <1>1, <1>2, <1>3 DEF SettleCb, goto, reset, ReleaseCbFiber, fiberVars, localVars,
     DomOK, PointAt, Switched, Within, After
<1>17. ASSUME EnterIdle(t) PROVE PointAt(t)'
  BY <1>17, <1>1, <1>2 DEF EnterIdle, goto, fiberVars, localVars, DomOK, PointAt, Switched,
     Within, After
<1>18. ASSUME idle(t) PROVE PointAt(t)'
  BY <1>18, <1>1, <1>2 DEF idle, goto, fiberVars, localVars, DomOK, PointAt, Switched, Within,
     After
<1>19. ASSUME LeaveIdle(t) PROVE PointAt(t)'
  BY <1>19, <1>1, <1>2 DEF LeaveIdle, goto, fiberVars, localVars, DomOK, PointAt, Switched,
     Within, After
<1>20. ASSUME ExitRun(t) PROVE PointAt(t)'
  BY <1>20, <1>1, <1>2 DEF ExitRun, goto, fiberVars, localVars, DomOK, PointAt, Switched,
     Within, After
<1>21. QED  BY <1>4, <1>5, <1>6, <1>7, <1>8, <1>9, <1>10, <1>11, <1>12, <1>13, <1>14, <1>15,
      <1>16, <1>17, <1>18, <1>19, <1>20, RunStep(t) DEF RunStep

\* Submitting work moves no thread and writes no fiber in a thread's hands.
LEMMA SubmitWrites ==
  ASSUME JobInv, Submit
  PROVE  /\ UNCHANGED <<pc, ft, cb_fiber, cur, idleTerm>>
         /\ \A u \in Threads, f \in Fibers : Owns(u, f) => Untouched(f)
<1>1. DomOK
  BY JobTypes
<1>2. ASSUME NEW j \in Jobs, ScheduleCb(j)
      PROVE  UNCHANGED <<pc, ft, cb_fiber, cur, idleTerm>> /\ \A f \in Fibers : Untouched(f)
  BY <1>2 DEF ScheduleCb, localVars, fiberVars, Untouched
<1>3. ASSUME NEW g \in Fibers, NEW j \in Jobs, ScheduleFiber(g, j)
      PROVE  /\ UNCHANGED <<pc, ft, cb_fiber, cur, idleTerm>>
             /\ \A u \in Threads, f \in Fibers : Owns(u, f) => Untouched(f)
  <2>1. m_state[g] = "NONE" /\ \A u \in Threads : ~Owns(u, g)
    BY <1>3 DEF ScheduleFiber, NewFiber, JobInv, FiberOK, Shares
  <2>2. \A f \in Fibers \ {g} : Untouched(f)
    BY <1>1, <1>3 DEF ScheduleFiber, NewFiber, DomOK, Untouched
  <2>3. QED  BY <1>3, <2>1, <2>2 DEF ScheduleFiber, localVars
<1>4. ASSUME NEW g \in Fibers, Wake(g) \/ ScheduleEnded(g)
      PROVE  UNCHANGED <<pc, ft, cb_fiber, cur, idleTerm>> /\ \A f \in Fibers : Untouched(f)
  BY <1>4 DEF Wake, ScheduleEnded, localVars, Untouched
<1>5. QED  BY <1>2, <1>3, <1>4, Submit DEF Submit

\* Starting and stopping write no fiber and move only threads that are off.
LEMMA StopWrites ==
  ASSUME JobInv, start \/ StopRequest \/ StopStep \/ UNCHANGED vars
  PROVE  /\ UNCHANGED <<ft, cb_fiber, cur, idleTerm>>
         /\ UNCHANGED <<m_state, m_cb, armed, m_fibers, issued, done>>
         /\ \A u \in Threads : pc'[u] = pc[u] \/ (pc[u] = "off" /\ pc'[u] = "scan")
<1>1. DomOK /\ StartOK
  BY JobTypes DEF JobInv, CountInv
<1> USE DEF localVars, fiberVars, jobVars
<1>2. CASE start
  BY <1>1, <1>2 DEF start, StartOK
<1>3. CASE StopRequest
  BY <1>3 DEF StopRequest
<1>4. CASE StopFlags \/ RootDone \/ Join
  BY <1>4 DEF StopFlags, RootDone, Join
<1>5. CASE StopTest
  BY <1>1, <1>5 DEF StopTest, StartOK, DomOK, goto
<1>6. CASE UNCHANGED vars
  BY <1>6 DEF vars
<1>7. QED  BY <1>2, <1>3, <1>4, <1>5, <1>6 DEF StopStep

\* What each thread holds stays in order.
LEMMA ThreadStep ==
  ASSUME JobInv, [Next]_vars, ~torn', NEW u \in Threads
  PROVE  ThreadOK(u)'
<1>1. DomOK /\ LocalOK /\ ThreadOK(u)
  BY JobTypes DEF JobInv, CountInv
<1>2. CASE Submit
  <2>1. \A f \in Fibers : Owns(u, f) => Untouched(f)
    BY <1>2, SubmitWrites
  <2>2. PointStays(u) /\ ft'[u] = ft[u] /\ cb_fiber'[u] = cb_fiber[u] /\ cur'[u] = cur[u]
    BY <1>2, SubmitWrites DEF PointStays
  <2>3. QED  BY <1>1, <2>1, <2>2, ThreadStays
<1>3. ASSUME NEW t \in Threads, RunStep(t) PROVE ThreadOK(u)'
  <2>1. CASE u = t
    BY <1>3, <2>1, OwnTask, OwnKept, OwnPoint DEF ThreadOK
  <2>2. QED  BY <1>3, <2>1, RunOthers
<1>4. CASE start \/ StopRequest \/ StopStep \/ UNCHANGED vars
  <2>1. \A f \in Fibers : Owns(u, f) => Untouched(f)
    BY <1>4, StopWrites DEF Untouched
  <2>2. PointStays(u) /\ ft'[u] = ft[u] /\ cb_fiber'[u] = cb_fiber[u] /\ cur'[u] = cur[u]
    <3>1. pc'[u] = pc[u] \/ (pc[u] = "off" /\ pc'[u] = "scan")
      BY <1>4, StopWrites, Zenon
    <3>2. QED  BY <1>4, <3>1, StopWrites DEF PointStays, Within, After
  <2>3. QED  BY <1>1, <2>1, <2>2, ThreadStays
<1>5. QED  BY <1>2, <1>3, <1>4 DEF Next, Stopped

-----------------------------------------------------------------------------
(* The queue after a step *)

\* A task is appended.
LEMMA AppendView ==
  ASSUME DomOK, NEW g, NEW j, NEW p, scheduleNoLock(g, j, p)
  PROVE  \E n \in Nat :
            /\ DOMAIN m_fibers = 1 .. n /\ DOMAIN m_fibers' = 1 .. n + 1
            /\ \A i \in 1 .. n : m_fibers'[i] = m_fibers[i]
            /\ m_fibers'[n + 1].fiber = g /\ m_fibers'[n + 1].cb = j
            /\ m_fibers'[n + 1].thread = p
<1> DEFINE e == [fiber |-> g, cb |-> j, thread |-> p]
<1>1. m_fibers \in Seq(FiberAndThread) /\ Len(m_fibers) \in Nat
      /\ DOMAIN m_fibers = 1 .. Len(m_fibers) /\ m_fibers' = Append(m_fibers, e)
  BY DEF DomOK, scheduleNoLock
<1>2. e.fiber = g /\ e.cb = j /\ e.thread = p
  OBVIOUS
<1> HIDE DEF e
<1>3. DOMAIN m_fibers' = 1 .. Len(m_fibers) + 1
  BY <1>1
<1>4. /\ \A i \in 1 .. Len(m_fibers) : m_fibers'[i] = m_fibers[i]
      /\ m_fibers'[Len(m_fibers) + 1] = e
  BY <1>1
<1>5. QED  BY <1>1, <1>2, <1>3, <1>4

\* The task at i is erased, and the others keep their order.
LEMMA EraseView ==
  ASSUME DomOK, NEW i \in DOMAIN m_fibers, m_fibers' = EraseAt(m_fibers, i)
  PROVE  \E n \in Nat : \E old \in [1 .. n - 1 -> 1 .. n] :
            /\ DOMAIN m_fibers = 1 .. n /\ DOMAIN m_fibers' = 1 .. n - 1
            /\ \A k \in 1 .. n - 1 : m_fibers'[k] = m_fibers[old[k]] /\ old[k] # i
            /\ \A k, m \in 1 .. n - 1 : old[k] = old[m] => k = m
            /\ \A m \in 1 .. n : m # i => \E k \in 1 .. n - 1 : old[k] = m
<1> DEFINE n == Len(m_fibers)
           old == [k \in 1 .. n - 1 |-> IF k < i THEN k ELSE k + 1]
<1>1. n \in Nat /\ DOMAIN m_fibers = 1 .. n /\ i \in 1 .. n
  BY DEF DomOK
<1>2. /\ DOMAIN m_fibers' = 1 .. n - 1
      /\ \A k \in 1 .. n - 1 : m_fibers'[k] = m_fibers[old[k]]
  BY EraseAtType DEF DomOK
<1> HIDE DEF n
<1>3. old \in [1 .. n - 1 -> 1 .. n] /\ \A k \in 1 .. n - 1 : old[k] # i
  BY <1>1
<1>4. \A k, m \in 1 .. n - 1 : old[k] = old[m] => k = m
  BY <1>1
<1>5. ASSUME NEW m \in 1 .. n, m # i PROVE \E k \in 1 .. n - 1 : old[k] = m
  <2>1. CASE m < i
    BY <1>1, <2>1
  <2>2. CASE m > i
    <3>1. m - 1 \in 1 .. n - 1 /\ old[m - 1] = m
      BY <1>1, <2>2
    <3>2. QED  BY <3>1
  <2>3. QED  BY <1>1, <1>5, <2>1, <2>2
<1> HIDE DEF old
<1>6. QED  BY <1>1, <1>2, <1>3, <1>4, <1>5

\* Appending adds one fiber and one job to those in the queue.
LEMMA AppendQueue ==
  ASSUME DomOK, NEW g, NEW c, NEW p, scheduleNoLock(g, c, p)
  PROVE  /\ \A f \in Fibers : Queued(f)' <=> Queued(f) \/ f = g
         /\ \A j \in Jobs : InQueue(j)' <=> InQueue(j) \/ j = c
         /\ \A j \in Jobs : QueueOnce(j) /\ (j # c \/ ~InQueue(j)) => QueueOnce(j)'
<1>1. PICK n \in Nat :
            /\ DOMAIN m_fibers = 1 .. n /\ DOMAIN m_fibers' = 1 .. n + 1
            /\ \A i \in 1 .. n : m_fibers'[i] = m_fibers[i]
            /\ m_fibers'[n + 1].fiber = g /\ m_fibers'[n + 1].cb = c
            /\ m_fibers'[n + 1].thread = p
  BY AppendView
<1>2. \A f \in Fibers : Queued(f)' <=> Queued(f) \/ f = g
  BY <1>1 DEF Queued
<1>3. \A j \in Jobs : InQueue(j)' <=> InQueue(j) \/ j = c
  BY <1>1 DEF InQueue
<1>4. \A j \in Jobs : QueueOnce(j) /\ (j # c \/ ~InQueue(j)) => QueueOnce(j)'
  BY <1>1 DEF InQueue, QueueOnce
<1>5. QED  BY <1>2, <1>3, <1>4

\* Erasing removes one fiber and one job from those in the queue.
LEMMA EraseQueue ==
  ASSUME DomOK, NEW i \in DOMAIN m_fibers, m_fibers' = EraseAt(m_fibers, i)
  PROVE  /\ \A f \in Fibers : Queued(f) => Queued(f)' \/ f = m_fibers[i].fiber
         /\ \A j \in Jobs : QueueOnce(j) =>
                QueueOnce(j)' /\ (InQueue(j)' <=> InQueue(j) /\ j # m_fibers[i].cb)
<1>1. PICK n \in Nat : \E old \in [1 .. n - 1 -> 1 .. n] :
            /\ DOMAIN m_fibers = 1 .. n /\ DOMAIN m_fibers' = 1 .. n - 1
            /\ \A k \in 1 .. n - 1 : m_fibers'[k] = m_fibers[old[k]] /\ old[k] # i
            /\ \A k, m \in 1 .. n - 1 : old[k] = old[m] => k = m
            /\ \A m \in 1 .. n : m # i => \E k \in 1 .. n - 1 : old[k] = m
  BY EraseView
<1>2. PICK old \in [1 .. n - 1 -> 1 .. n] :
            /\ DOMAIN m_fibers = 1 .. n /\ DOMAIN m_fibers' = 1 .. n - 1
            /\ \A k \in 1 .. n - 1 : m_fibers'[k] = m_fibers[old[k]] /\ old[k] # i
            /\ \A k, m \in 1 .. n - 1 : old[k] = old[m] => k = m
            /\ \A m \in 1 .. n : m # i => \E k \in 1 .. n - 1 : old[k] = m
  BY <1>1
<1>3. ASSUME NEW f \in Fibers, Queued(f) PROVE Queued(f)' \/ f = m_fibers[i].fiber
  <2>1. PICK m \in 1 .. n : m_fibers[m].fiber = f
    BY <1>2, <1>3 DEF Queued
  <2>2. CASE m # i
    <3>1. PICK k \in 1 .. n - 1 : old[k] = m
      BY <1>2, <2>2
    <3>2. QED  BY <1>2, <2>1, <3>1 DEF Queued
  <2>3. QED  BY <2>1, <2>2
<1>4. ASSUME NEW j \in Jobs, QueueOnce(j)
      PROVE QueueOnce(j)' /\ (InQueue(j)' <=> InQueue(j) /\ j # m_fibers[i].cb)
  <2>1. QueueOnce(j)'
    BY <1>2, <1>4 DEF QueueOnce
  <2>2. ASSUME InQueue(j)' PROVE InQueue(j) /\ j # m_fibers[i].cb
    BY <1>2, <1>4, <2>2 DEF QueueOnce, InQueue
  <2>3. ASSUME InQueue(j), j # m_fibers[i].cb PROVE InQueue(j)'
    <3>1. PICK m \in 1 .. n : m_fibers[m].cb = j
      BY <1>2, <2>3 DEF InQueue
    <3>2. PICK k \in 1 .. n - 1 : old[k] = m
      BY <1>2, <2>3, <3>1
    <3>3. QED  BY <1>2, <3>1, <3>2 DEF InQueue
  <2>4. QED  BY <2>1, <2>2, <2>3
<1>5. QED  BY <1>3, <1>4

-----------------------------------------------------------------------------
(* Who has a fiber after a step *)

\* Nobody but t has f, and neither a waker nor the queue.
LEMMA LoneOK ==
  ASSUME NEW f \in Fibers, NEW t \in Threads, m_state'[f] # "NONE",
         ~Queued(f)', f \notin armed', \A u \in Threads : Owns(u, f)' => u = t
  PROVE  FiberOK(f)'
<1>1. \A u \in Threads : Owns(u, f)' => Shares(u, f)'
  BY DEF Shares
<1>2. QED  BY <1>1 DEF FiberOK

\* No thread has f: it is queued, waits for its waker, or has ended.
LEMMA FreeOK ==
  ASSUME NEW f \in Fibers, m_state'[f] \notin {"NONE", "EXEC"},
         \A u \in Threads : ~Owns(u, f)',
         f \in armed' => m_state'[f] = "HOLD" /\ ~Queued(f)'
  PROVE  FiberOK(f)'
BY DEF FiberOK

\* Thread t alone has f, on its way out.
LEMMA OutOK ==
  ASSUME NEW f \in Fibers, NEW t \in Threads, \A u \in Threads : Owns(u, f)' => u = t,
         \/ Arming(t, f)' /\ m_state'[f] = "EXEC"
         \/ Parking(t, f)' /\ m_state'[f] = "HOLD",
         Queued(f)' => f \notin armed'
  PROVE  FiberOK(f)'
<1>1. \A u \in Threads : Owns(u, f)' => Shares(u, f)'
  BY DEF Shares
<1>2. QED  BY <1>1 DEF FiberOK

\* Nothing of f changes.
LEMMA SameOK ==
  ASSUME NEW f \in Fibers, FiberOK(f), m_state'[f] = m_state[f],
         f \in armed' <=> f \in armed, Queued(f)' <=> Queued(f),
         \A u \in Threads : /\ Owns(u, f)' <=> Owns(u, f)
                            /\ Arming(u, f)' <=> Arming(u, f)
                            /\ Parking(u, f)' <=> Parking(u, f)
                            /\ Dispatched(u, f)' <=> Dispatched(u, f)
  PROVE  FiberOK(f)'
<1>1. \A u \in Threads : Shares(u, f) => Shares(u, f)'
  BY DEF Shares
<1>2. QED  BY <1>1 DEF FiberOK

\* The points of a thread with respect to f make it an owner of f.
LEMMA PointsOwn ==
  ASSUME NEW u \in Threads, NEW f \in Fibers
  PROVE  /\ Arming(u, f) \/ Parking(u, f) \/ Dispatched(u, f) => Owns(u, f)
         /\ (Arming(u, f) \/ Parking(u, f) \/ Dispatched(u, f) => Owns(u, f))'
BY DEF Arming, Parking, Dispatched, Switched, Owns

\* What a thread that does not step has stays.
LEMMA OthersHave ==
  ASSUME NEW t \in Threads, OthersStay(t), NEW u \in Threads, u # t, NEW f \in Fibers,
         m_state'[f] = m_state[f]
  PROVE  /\ Owns(u, f)' <=> Owns(u, f)
         /\ Arming(u, f)' <=> Arming(u, f)
         /\ Parking(u, f)' <=> Parking(u, f)
         /\ Dispatched(u, f)' <=> Dispatched(u, f)
BY DEF OthersStay, Owns, Arming, Parking, Dispatched, Switched

\* A fiber that is not the one the step is about: thread t keeps it or has nothing of it.
LEMMA OtherFiber ==
  ASSUME JobInv, NEW t \in Threads, OthersStay(t), NEW f \in Fibers,
         m_state'[f] = m_state[f], f \in armed' <=> f \in armed, Queued(f)' <=> Queued(f),
         Owns(t, f) \/ Owns(t, f)' => Keeps(t) /\ cb_fiber[t] = f
  PROVE  FiberOK(f)'
<1>1. FiberOK(f)
  BY DEF JobInv
<1>2. \A u \in Threads \ {t} :
            /\ Owns(u, f)' <=> Owns(u, f)
            /\ Arming(u, f)' <=> Arming(u, f)
            /\ Parking(u, f)' <=> Parking(u, f)
            /\ Dispatched(u, f)' <=> Dispatched(u, f)
  BY OthersHave
<1>3. CASE Owns(t, f) \/ Owns(t, f)'
  <2>1. /\ m_state[f] # "NONE" /\ ~Queued(f) /\ f \notin armed
        /\ \A u \in Threads : Owns(u, f) => u = t
    BY <1>3, KeptAlone
  <2>2. \A u \in Threads : Owns(u, f)' => u = t
    BY <1>2, <2>1
  <2>3. QED  BY <2>1, <2>2, LoneOK
<1>4. CASE ~Owns(t, f) /\ ~Owns(t, f)'
  <2>1. /\ Owns(t, f)' <=> Owns(t, f)
        /\ Arming(t, f)' <=> Arming(t, f)
        /\ Parking(t, f)' <=> Parking(t, f)
        /\ Dispatched(t, f)' <=> Dispatched(t, f)
    BY <1>4, PointsOwn
  <2>2. \A u \in Threads :
            /\ Owns(u, f)' <=> Owns(u, f)
            /\ Arming(u, f)' <=> Arming(u, f)
            /\ Parking(u, f)' <=> Parking(u, f)
            /\ Dispatched(u, f)' <=> Dispatched(u, f)
    BY <1>2, <2>1
  <2>3. QED  BY <1>1, <2>2, SameOK
<1>5. QED  BY <1>3, <1>4

\* A fiber that a step of t does not write, and that t has only if it keeps it.
Aside(t, f) ==
    /\ m_state'[f] = m_state[f] /\ (f \in armed' <=> f \in armed)
    /\ Queued(f)' <=> Queued(f)
    /\ Owns(t, f) \/ Owns(t, f)' => Keeps(t) /\ cb_fiber[t] = f

\* Moving outside of dispatch and what follows.
LEMMA RestFibers ==
  ASSUME JobInv, NEW t \in Threads, NEW f \in Fibers, OthersStay(t),
         NoTask(t) \/ EnterIdle(t) \/ idle(t) \/ LeaveIdle(t) \/ ExitRun(t)
  PROVE  FiberOK(f)'
<1>1. /\ UNCHANGED <<m_fibers, m_state, armed, ft, cb_fiber>>
      /\ pc[t] \in {"scan", "noTask", "idle", "idleOut"}
  BY DEF NoTask, EnterIdle, idle, LeaveIdle, ExitRun, fiberVars, localVars
<1>2. ft[t].fiber = NoFiber /\ pc[t] \notin Within
  BY <1>1 DEF JobInv, ThreadOK, TaskAt, Within, After
<1>3. Aside(t, f)
  BY <1>1, <1>2, NullAssumption DEF Aside, Queued, Owns, Keeps
<1>4. QED  BY <1>3, OtherFiber DEF Aside

\* Taking a task: its fiber was with nobody, or with a thread that leaves it.
LEMMA TakeFibers ==
  ASSUME JobInv, NEW t \in Threads, NEW f \in Fibers, OthersStay(t), TakeTask(t)
  PROVE  FiberOK(f)'
<1>1. DomOK /\ TypeOK /\ QueueDistinct
  BY JobTypes DEF JobInv, CountInv
<1>2. PICK i \in DOMAIN m_fibers :
            /\ Eligible(t, i)
            /\ ft' = [ft EXCEPT ![t] = m_fibers[i]]
            /\ m_fibers' = EraseAt(m_fibers, i)
  BY DEF TakeTask
<1>3. PICK g : g = m_fibers[i].fiber
  OBVIOUS
<1>4. Queued(f)' <=> Queued(f) /\ f # g
  BY <1>1, <1>2, <1>3, EraseHolder
<1>5. ft'[t].fiber = g /\ pc[t] = "scan" /\ pc'[t] = "dispatch"
  BY <1>1, <1>2, <1>3 DEF TakeTask, DomOK, goto
<1>6. UNCHANGED <<cb_fiber, m_state, armed>>
  BY DEF TakeTask, fiberVars
<1>7. ft[t].fiber = NoFiber
  BY <1>5 DEF JobInv, ThreadOK, TaskAt, Within, After
<1>8. CASE f # g
  <2>1. Aside(t, f)
    BY <1>4, <1>5, <1>6, <1>7, <1>8, NullAssumption DEF Aside, Owns, Keeps, Within, After
  <2>2. QED  BY <2>1, OtherFiber DEF Aside
<1>9. CASE f = g
  <2>1. Queued(f) /\ m_state[f] # "EXEC" /\ FiberOK(f)
    BY <1>2, <1>3, <1>9, NullAssumption DEF Queued, Eligible, JobInv
  <2>2. m_state[f] # "NONE" /\ f \notin armed
    BY <2>1 DEF FiberOK
  <2>3. \A u \in Threads : Owns(u, f) => Arming(u, f) \/ Parking(u, f)
    BY <2>1 DEF FiberOK, Shares
  <2>4. \A u \in Threads : ~Arming(u, f)
    BY <2>1 DEF JobInv, ThreadOK, PointAt, Arming
  <2>5. ~Owns(t, f)
    BY <1>5, <2>3, <2>4 DEF Parking, After
  <2>6. \A u, v \in Threads : Owns(u, f) /\ Owns(v, f) => u = v
    BY <2>1 DEF FiberOK, Shares
  <2>7. \A u \in Threads \ {t} : /\ Owns(u, f)' <=> Owns(u, f)
                                 /\ Parking(u, f)' <=> Parking(u, f)
    BY <1>6, OthersHave
  <2>8. Dispatched(t, f)' /\ ~Queued(f)' /\ f \notin armed' /\ m_state'[f] # "NONE"
    BY <1>4, <1>5, <1>6, <1>9, <2>2 DEF Dispatched
  <2>9. \A u \in Threads \ {t} : Owns(u, f)' => Parking(u, f)'
    BY <2>3, <2>4, <2>7
  <2>10. \A u, v \in Threads \ {t} : Owns(u, f)' /\ Owns(v, f)' => u = v
    BY <2>6, <2>7
  <2>11. ASSUME NEW u \in Threads, Owns(u, f)' PROVE Shares(u, f)'
    BY <2>8, <2>9, <2>10, <2>11 DEF Shares
  <2>12. QED  BY <2>8, <2>11 DEF FiberOK
<1>10. QED  BY <1>8, <1>9

\* Switching a fiber in, where no other thread has it.
LEMMA EnterFibers ==
  ASSUME JobInv, NEW t \in Threads, NEW f \in Fibers, OthersStay(t),
         (RunFiber(t) /\ ~torn') \/ RunCb(t)
  PROVE  FiberOK(f)'
<1>1. DomOK
  BY JobTypes
<1>2. PICK g \in Fibers :
            /\ m_state' = [m_state EXCEPT ![g] = "EXEC"]
            /\ m_state[g] # "NONE" => Owns(t, g)
            /\ \A u \in Threads \ {t} : ~Owns(u, g)
            /\ ~Queued(g) /\ g \notin armed
            /\ \A h \in Fibers \ {g} : Owns(t, h) \/ Owns(t, h)' => Keeps(t) /\ cb_fiber[t] = h
  <2>1. CASE RunFiber(t) /\ ~torn'
    <3>1. PICK g \in Fibers : g = ft[t].fiber
      BY <1>1, <2>1 DEF RunFiber, DomOK
    <3>2. \A u \in Threads \ {t} : ~Owns(u, g)
      BY <2>1, <3>1 DEF RunFiber
    <3>3. Owns(t, g) /\ pc[t] = "dispatch" /\ UNCHANGED <<ft, cb_fiber>>
      BY <2>1, <3>1 DEF RunFiber, Owns
    <3>4. ~Queued(g) /\ g \notin armed
      BY <3>3, HeldAlone DEF Arming, Parking, After
    <3>5. \A h \in Fibers \ {g} : Owns(t, h) \/ Owns(t, h)' => Keeps(t) /\ cb_fiber[t] = h
      BY <3>1, <3>3, NullAssumption DEF Owns, Keeps, Within, After
    <3>6. m_state' = [m_state EXCEPT ![g] = "EXEC"]
      BY <2>1, <3>1 DEF RunFiber
    <3>7. QED  BY <3>2, <3>3, <3>4, <3>5, <3>6
  <2>2. CASE RunCb(t)
    <3>1. PICK g \in Fibers :
            /\ IF cb_fiber[t] # NoFiber THEN g = cb_fiber[t] ELSE m_state[g] = "NONE"
            /\ m_state' = [m_state EXCEPT ![g] = "EXEC"]
            /\ cb_fiber' = [cb_fiber EXCEPT ![t] = g]
      BY <2>2 DEF RunCb
    <3>2. pc[t] = "dispatch" /\ ft[t].fiber = NoFiber /\ ft'[t].fiber = NoFiber
      BY <1>1, <2>2 DEF RunCb, DomOK
    <3>3. CASE cb_fiber[t] # NoFiber
      <4>1. Keeps(t) /\ cb_fiber[t] = g
        BY <3>1, <3>2, <3>3 DEF Keeps, Within, After
      <4>2. ~Queued(g) /\ g \notin armed /\ \A u \in Threads : Owns(u, g) => u = t
        BY <4>1, KeptAlone
      <4>3. Owns(t, g) /\ cb_fiber'[t] = g
        BY <1>1, <3>1, <4>1 DEF Owns, DomOK
      <4>4. \A h \in Fibers \ {g} : ~Owns(t, h) /\ ~Owns(t, h)'
        BY <3>2, <4>1, <4>3, NullAssumption DEF Owns
      <4>5. QED  BY <3>1, <4>2, <4>3, <4>4
    <3>4. CASE cb_fiber[t] = NoFiber
      <4>1. m_state[g] = "NONE" /\ FiberOK(g)
        BY <3>1, <3>4 DEF JobInv
      <4>2. ~Queued(g) /\ g \notin armed /\ \A u \in Threads : ~Owns(u, g)
        BY <4>1 DEF FiberOK, Shares
      <4>3. cb_fiber'[t] = g
        BY <1>1, <3>1 DEF DomOK
      <4>4. \A h \in Fibers \ {g} : ~Owns(t, h) /\ ~Owns(t, h)'
        BY <3>2, <3>4, <4>3, NullAssumption DEF Owns
      <4>5. QED  BY <3>1, <4>1, <4>2, <4>4
    <3>5. QED  BY <3>3, <3>4
  <2>3. QED  BY <2>1, <2>2
<1>3. UNCHANGED <<m_fibers, armed>>
  BY DEF RunFiber, RunCb
<1>4. Queued(f)' <=> Queued(f)
  BY <1>3 DEF Queued
<1>5. CASE f # g
  <2>1. Aside(t, f)
    BY <1>1, <1>2, <1>3, <1>4, <1>5 DEF Aside, DomOK
  <2>2. QED  BY <2>1, OtherFiber DEF Aside
<1>6. CASE f = g
  <2>1. m_state'[f] = "EXEC" /\ ~Queued(f)' /\ f \notin armed'
    BY <1>1, <1>2, <1>3, <1>4, <1>6 DEF DomOK
  <2>2. \A u \in Threads : Owns(u, f)' => u = t
    BY <1>2, <1>6 DEF OthersStay, Owns
  <2>3. QED  BY <2>1, <2>2, LoneOK
<1>7. QED  BY <1>5, <1>6

\* Dropping a fiber that has ended.
LEMMA DropFibers ==
  ASSUME JobInv, NEW t \in Threads, NEW f \in Fibers, OthersStay(t), DropFinished(t)
  PROVE  FiberOK(f)'
<1>1. DomOK
  BY JobTypes
<1>2. /\ UNCHANGED <<m_fibers, armed, m_state, cb_fiber>> /\ pc[t] = "dispatch"
      /\ ft'[t].fiber = NoFiber /\ Finished(ft[t].fiber)
  BY <1>1 DEF DropFinished, fiberVars, DomOK
<1>3. Queued(f)' <=> Queued(f)
  BY <1>2 DEF Queued
<1>4. CASE f # ft[t].fiber
  <2>1. Aside(t, f)
    BY <1>2, <1>3, <1>4, NullAssumption DEF Aside, Owns, Keeps, Within, After
  <2>2. QED  BY <2>1, OtherFiber DEF Aside
<1>5. CASE f = ft[t].fiber
  <2>1. Owns(t, f) /\ ~Arming(t, f) /\ \A u \in Threads : ~Parking(u, f)
    BY <1>2, <1>5 DEF Owns, Arming, Parking, Finished
  <2>2. /\ m_state[f] # "NONE" /\ ~Queued(f) /\ f \notin armed
        /\ \A u \in Threads \ {t} : ~Owns(u, f)
    BY <2>1, HeldAlone
  <2>3. \A u \in Threads : Owns(u, f)' => u = t
    BY <2>2 DEF OthersStay, Owns
  <2>4. QED  BY <1>2, <1>3, <2>2, <2>3, LoneOK
<1>6. QED  BY <1>4, <1>5

\* The thread has one fiber besides the one it switched to: the cb_fiber it keeps.
LEMMA BesideSwitched ==
  ASSUME JobInv, NEW t \in Threads, pc[t] \in Within, NEW f \in Fibers, f # Switched(t)
  PROVE  Owns(t, f) => Keeps(t) /\ cb_fiber[t] = f
BY NullAssumption DEF Owns, Switched, Keeps

\* User code: the fiber gets a waker, publishes HOLD, or leaves with READY or at its end.
LEMMA UserFibers ==
  ASSUME JobInv, NEW t \in Threads, NEW f \in Fibers, OthersStay(t),
         Arm(t) \/ YieldToHold(t) \/ YieldToReady(t) \/ MainFunc(t)
  PROVE  FiberOK(f)'
<1>1. DomOK
  BY JobTypes
<1>2. pc[t] \in {"user", "armed"} /\ UNCHANGED <<m_fibers, ft, cb_fiber, cur>>
  BY DEF Arm, YieldToHold, YieldToReady, MainFunc, localVars
<1>3. PICK g \in Fibers : g = Switched(t) /\ Owns(t, g) /\ cur[t] = g /\ m_state[g] = "EXEC"
  BY <1>2, SwitchedAlone, OnSwitched DEF Within
<1>4. /\ Queued(f)' <=> Queued(f)
      /\ Owns(t, f)' <=> Owns(t, f)
  BY <1>2 DEF Queued, Owns
<1>5. CASE f # g
  <2>1. m_state'[f] = m_state[f] /\ (f \in armed' <=> f \in armed)
    BY <1>1, <1>3, <1>5 DEF Arm, YieldToHold, YieldToReady, MainFunc, setState, DomOK
  <2>2. Owns(t, f) => Keeps(t) /\ cb_fiber[t] = f
    BY <1>2, <1>3, <1>5, BesideSwitched DEF Within
  <2>3. Aside(t, f)
    BY <1>4, <2>1, <2>2 DEF Aside
  <2>4. QED  BY <2>3, OtherFiber DEF Aside
<1>6. CASE f = g
  <2>1. \A u \in Threads : Owns(u, f) => u = t
    BY <1>3, <1>6, SharedHolds
  <2>2. \A u \in Threads : Owns(u, f)' => u = t
    BY <2>1 DEF OthersStay, Owns
  <2>3. Switched(t)' = f
    BY <1>2, <1>3, <1>6 DEF Switched
  <2>4. pc[t] = "user" => ~Queued(f) /\ f \notin armed
    BY <1>3, <1>6, HeldAlone DEF Arming, Parking, After
  <2>5. CASE Arm(t)
    <3>1. pc'[t] = "armed" /\ m_state'[f] = "EXEC" /\ pc[t] = "user"
      BY <1>1, <1>3, <1>6, <2>5 DEF Arm, goto, DomOK
    <3>2. Arming(t, f)' /\ ~Queued(f)'
      BY <1>4, <2>3, <2>4, <3>1 DEF Arming
    <3>3. QED  BY <2>2, <3>1, <3>2, OutOK
  <2>6. CASE YieldToHold(t)
    <3>1. pc'[t] = "swapOut" /\ m_state'[f] = "HOLD" /\ UNCHANGED armed
      BY <1>1, <1>3, <1>6, <2>6 DEF YieldToHold, setState, goto, DomOK
    <3>2. Parking(t, f)'
      BY <2>3, <3>1 DEF Parking, After
    <3>3. Queued(f)' => f \notin armed'
      BY <1>4, <3>1 DEF JobInv, FiberOK
    <3>4. QED  BY <2>2, <3>1, <3>2, <3>3, OutOK
  <2>7. CASE YieldToReady(t) \/ MainFunc(t)
    <3>1. pc[t] = "user" /\ m_state'[f] # "NONE" /\ UNCHANGED armed
      BY <1>1, <1>3, <1>6, <2>7 DEF YieldToReady, MainFunc, setState, DomOK
    <3>2. QED  BY <1>4, <2>2, <2>4, <3>1, LoneOK
  <2>8. QED  BY <2>5, <2>6, <2>7
<1>7. QED  BY <1>5, <1>6

\* Switching out and giving the count back: run() still has the fiber.
LEMMA LeaveFibers ==
  ASSUME JobInv, NEW t \in Threads, NEW f \in Fibers, OthersStay(t),
         swapOut(t) \/ Deactivate(t)
  PROVE  FiberOK(f)'
<1>1. DomOK /\ FiberOK(f)
  BY JobTypes DEF JobInv
<1>2. /\ UNCHANGED <<m_fibers, m_state, armed, ft, cb_fiber>>
      /\ pc[t] \in After /\ pc'[t] \in After
  BY <1>1 DEF swapOut, Deactivate, fiberVars, localVars, goto, DomOK, After
<1>3. Queued(f)' <=> Queued(f)
  BY <1>2 DEF Queued
<1>4. /\ Owns(t, f)' <=> Owns(t, f)
      /\ Arming(t, f)' <=> Arming(t, f)
      /\ Parking(t, f)' <=> Parking(t, f)
      /\ Dispatched(t, f)' <=> Dispatched(t, f)
  BY <1>2 DEF Owns, Arming, Parking, Dispatched, Switched, After
<1>5. \A u \in Threads : /\ Owns(u, f)' <=> Owns(u, f)
                         /\ Arming(u, f)' <=> Arming(u, f)
                         /\ Parking(u, f)' <=> Parking(u, f)
                         /\ Dispatched(u, f)' <=> Dispatched(u, f)
  BY <1>2, <1>4, OthersHave
<1>6. QED  BY <1>1, <1>2, <1>3, <1>5, SameOK

\* run() lets go of a fiber that yielded to HOLD: whoever else has it keeps it.
LEMMA LetGo ==
  ASSUME JobInv, NEW t \in Threads, NEW f \in Fibers, OthersStay(t), ~Owns(t, f)',
         Owns(t, f), m_state[f] = "HOLD", m_state'[f] = "HOLD",
         f \in armed' <=> f \in armed, Queued(f)' <=> Queued(f)
  PROVE  FiberOK(f)'
<1>1. \A u \in Threads \ {t} : Owns(u, f)' <=> Owns(u, f)
  BY DEF OthersStay, Owns
<1>2. CASE \A u \in Threads \ {t} : ~Owns(u, f)
  <2>1. f \in armed' => ~Queued(f)'
    BY DEF JobInv, FiberOK
  <2>2. QED  BY <1>1, <1>2, <2>1, FreeOK
<1>3. ASSUME NEW u \in Threads \ {t}, Owns(u, f) PROVE FiberOK(f)'
  <2>1. /\ (Dispatched(u, f) /\ Parking(t, f)) \/ (Dispatched(t, f) /\ Parking(u, f))
        /\ ~Queued(f) /\ f \notin armed
    <3>1. u \in Threads /\ u # t
      BY <1>3
    <3>2. QED  BY <1>3, <3>1, SharedHolds
  <2>2. ASSUME NEW v \in Threads \ {t}, Owns(v, f), v # u PROVE FALSE
    <3>1. v \in Threads /\ v # t /\ u \in Threads
      BY <1>3, <2>2
    <3>2. (Dispatched(u, f) /\ Parking(v, f)) \/ (Dispatched(v, f) /\ Parking(u, f))
      BY <1>3, <2>2, <3>1, SharedHolds
    <3>3. (Dispatched(v, f) /\ Parking(t, f)) \/ (Dispatched(t, f) /\ Parking(v, f))
      BY <2>2, <3>1, SharedHolds
    <3>4. QED  BY <2>1, <3>2, <3>3 DEF Dispatched, Parking, After
  <2>3. \A v \in Threads : Owns(v, f)' => v = u
    BY <1>1, <2>2
  <2>4. ~Queued(f)' /\ f \notin armed' /\ m_state'[f] # "NONE"
    BY <2>1
  <2>5. QED  BY <1>3, <2>3, <2>4, LoneOK
<1>4. QED  BY <1>2, <1>3

\* run() settles the fiber it switched out of.
LEMMA SettleFibers ==
  ASSUME JobInv, NEW t \in Threads, NEW f \in Fibers, OthersStay(t),
         SettleFiber(t) \/ SettleCb(t)
  PROVE  FiberOK(f)'
<1> USE NullAssumption
<1>1. DomOK /\ ThreadOK(t)
  BY JobTypes DEF JobInv
<1>2. pc[t] = "settle" /\ UNCHANGED armed
  BY DEF SettleFiber, SettleCb
<1>3. PICK g \in Fibers : g = Switched(t) /\ Owns(t, g)
  BY <1>2, SwitchedAlone DEF Within, After
<1>4. m_state[g] \in {"HOLD", "READY", "TERM", "EXCEPT"}
  BY <1>1, <1>2, <1>3 DEF ThreadOK, PointAt, After
\* What becomes of the fiber and of the thread's reference to it.
<1>5. /\ \A h \in Fibers \ {g} : m_state'[h] = m_state[h] /\ (Owns(t, h)' <=> Owns(t, h))
      /\ \/ m_state[g] = "READY" /\ m_state'[g] = "READY" /\ Reschedule(g) /\ ~Owns(t, g)'
         \/ m_state[g] = "HOLD" /\ m_state'[g] = "HOLD" /\ UNCHANGED m_fibers /\ ~Owns(t, g)'
         \/ Finished(g) /\ m_state'[g] \notin {"NONE", "EXEC"} /\ UNCHANGED m_fibers
  <2>1. CASE SettleFiber(t)
    <3>1. g = ft[t].fiber /\ g # cb_fiber[t]
      BY <1>1, <1>3, <2>1 DEF SettleFiber, Switched, ThreadOK, KeptAt
    <3>2. ft'[t].fiber = NoFiber /\ UNCHANGED cb_fiber
      BY <1>1, <2>1 DEF SettleFiber, DomOK
    <3>3. /\ \A h \in Fibers \ {g} : Owns(t, h)' <=> Owns(t, h)
          /\ ~Owns(t, g)'
      BY <3>1, <3>2 DEF Owns
    <3>4. \A h \in Fibers \ {g} : m_state'[h] = m_state[h]
      BY <1>1, <2>1, <3>1 DEF SettleFiber, DomOK
    <3>5. \/ m_state[g] = "READY" /\ m_state'[g] = "READY" /\ Reschedule(g)
          \/ m_state[g] = "HOLD" /\ m_state'[g] = "HOLD" /\ UNCHANGED m_fibers
          \/ Finished(g) /\ m_state'[g] \notin {"NONE", "EXEC"} /\ UNCHANGED m_fibers
      BY <1>1, <1>4, <2>1, <3>1 DEF SettleFiber, DomOK, Finished
    <3>6. QED  BY <3>3, <3>4, <3>5
  <2>2. CASE SettleCb(t)
    <3>1. g = cb_fiber[t] /\ ft[t].fiber = NoFiber /\ UNCHANGED ft
      BY <1>1, <1>3, <2>2 DEF SettleCb, Switched
    <3>2. cb_fiber'[t] \in {g, NoFiber} /\ (~Finished(g) => cb_fiber'[t] = NoFiber)
      BY <1>1, <2>2, <3>1 DEF SettleCb, ReleaseCbFiber, DomOK, reset
    <3>3. /\ \A h \in Fibers \ {g} : Owns(t, h)' <=> Owns(t, h)
          /\ ~Finished(g) => ~Owns(t, g)'
      BY <3>1, <3>2 DEF Owns
    <3>4. \A h \in Fibers \ {g} : m_state'[h] = m_state[h]
      BY <1>1, <2>2, <3>1 DEF SettleCb, reset, DomOK
    <3>5. \/ m_state[g] = "READY" /\ m_state'[g] = "READY" /\ Reschedule(g)
          \/ m_state[g] = "HOLD" /\ m_state'[g] = "HOLD" /\ UNCHANGED m_fibers
          \/ Finished(g) /\ m_state'[g] \notin {"NONE", "EXEC"} /\ UNCHANGED m_fibers
      BY <1>1, <1>4, <2>2, <3>1 DEF SettleCb, reset, DomOK, Finished
    <3>6. QED  BY <3>3, <3>4, <3>5 DEF Finished
  <2>3. QED  BY <2>1, <2>2
<1>6. /\ m_state[g] # "HOLD" =>
            /\ ~Queued(g) /\ g \notin armed
            /\ \A u \in Threads \ {t} : ~Owns(u, g)
  <2>1. ASSUME m_state[g] # "HOLD"
        PROVE  ~Arming(t, g) /\ \A u \in Threads : ~Parking(u, g)
    BY <1>2, <2>1 DEF Arming, Parking
  <2>2. QED  BY <1>2, <1>3, <2>1, HeldAlone
<1>7. CASE f # g
  <2>1. Queued(f)' <=> Queued(f)
    <3>1. CASE UNCHANGED m_fibers
      BY <3>1 DEF Queued
    <3>2. CASE Reschedule(g)
      BY <1>1, <1>7, <3>2, AppendQueue DEF Reschedule
    <3>3. QED  BY <1>5, <3>1, <3>2
  <2>2. Owns(t, f) => Keeps(t) /\ cb_fiber[t] = f
    BY <1>2, <1>3, <1>7, BesideSwitched DEF Within, After
  <2>3. Aside(t, f)
    BY <1>2, <1>5, <1>7, <2>1, <2>2 DEF Aside
  <2>4. QED  BY <2>3, OtherFiber DEF Aside
<1>8. CASE f = g
  <2>1. \A u \in Threads \ {t} : Owns(u, f)' <=> Owns(u, f)
    BY DEF OthersStay, Owns
  <2>2. CASE m_state[g] = "HOLD"
    <3>1. ~Owns(t, f)' /\ m_state'[f] = "HOLD" /\ UNCHANGED m_fibers
      BY <1>5, <1>8, <2>2 DEF Finished
    <3>2. Queued(f)' <=> Queued(f)
      BY <3>1 DEF Queued
    <3>3. QED  BY <1>2, <1>3, <1>8, <2>2, <3>1, <3>2, LetGo
  <2>3. CASE m_state[g] = "READY"
    <3>1. ~Owns(t, f)' /\ m_state'[f] = "READY"
      BY <1>5, <1>8, <2>3 DEF Finished
    <3>2. QED  BY <1>2, <1>6, <1>8, <2>1, <2>3, <3>1, FreeOK
  <2>4. CASE Finished(g)
    <3>1. m_state'[f] \notin {"NONE", "EXEC"} /\ UNCHANGED m_fibers
      BY <1>5, <1>8, <2>4 DEF Finished
    <3>2. ~Queued(f)' /\ f \notin armed'
      BY <1>2, <1>6, <1>8, <2>4, <3>1 DEF Finished, Queued
    <3>3. \A u \in Threads : Owns(u, f)' => u = t
      BY <1>6, <1>8, <2>1, <2>4 DEF Finished
    <3>4. QED  BY <3>1, <3>2, <3>3, LoneOK
  <2>5. QED  BY <1>4, <2>2, <2>3, <2>4 DEF Finished
<1>9. QED  BY <1>7, <1>8

\* Submitting work: only fibers without an owner, and fibers whose thread leaves them.
LEMMA SubmitFibers ==
  ASSUME JobInv, Submit, NEW f \in Fibers
  PROVE  FiberOK(f)'
<1> USE NullAssumption
<1>1. DomOK /\ FiberOK(f)
  BY JobTypes DEF JobInv
<1>2. UNCHANGED <<pc, ft, cb_fiber>>
  BY SubmitWrites
<1>3. ASSUME m_state'[f] = m_state[f]
      PROVE  \A u \in Threads : /\ Owns(u, f)' <=> Owns(u, f)
                                /\ Arming(u, f)' <=> Arming(u, f)
                                /\ Parking(u, f)' <=> Parking(u, f)
                                /\ Dispatched(u, f)' <=> Dispatched(u, f)
  BY <1>2, <1>3 DEF Owns, Arming, Parking, Dispatched, Switched
<1>4. ASSUME m_state'[f] = m_state[f], f \in armed' <=> f \in armed, Queued(f)' <=> Queued(f)
      PROVE  FiberOK(f)'
  BY <1>1, <1>3, <1>4, SameOK
<1>5. ASSUME NEW j \in Jobs, ScheduleCb(j) PROVE FiberOK(f)'
  <2>1. Queued(f)' <=> Queued(f)
    BY <1>1, <1>5, AppendQueue DEF ScheduleCb
  <2>2. QED  BY <1>4, <1>5, <2>1 DEF ScheduleCb, fiberVars
<1>6. ASSUME NEW g \in Fibers, NEW j \in Jobs, ScheduleFiber(g, j) PROVE FiberOK(f)'
  <2>1. Queued(f)' <=> Queued(f) \/ f = g
    BY <1>1, <1>6, AppendQueue DEF ScheduleFiber
  <2>2. CASE f # g
    <3>1. m_state'[f] = m_state[f] /\ UNCHANGED armed
      BY <1>1, <1>6, <2>2 DEF ScheduleFiber, NewFiber, DomOK
    <3>2. QED  BY <1>4, <2>1, <2>2, <3>1
  <2>3. CASE f = g
    <3>1. m_state[f] = "NONE" /\ m_state'[f] = "INIT" /\ UNCHANGED armed
      BY <1>1, <1>6, <2>3 DEF ScheduleFiber, NewFiber, DomOK
    <3>2. f \notin armed /\ \A u \in Threads : ~Owns(u, f)
      BY <1>1, <3>1 DEF FiberOK, Shares
    <3>3. \A u \in Threads : ~Owns(u, f)'
      BY <1>2, <3>2 DEF Owns
    <3>4. QED  BY <3>1, <3>2, <3>3, FreeOK
  <2>4. QED  BY <2>2, <2>3
<1>7. ASSUME NEW g \in Fibers, Wake(g) PROVE FiberOK(f)'
  <2>1. Queued(f)' <=> Queued(f) \/ f = g
    BY <1>1, <1>7, AppendQueue DEF Wake
  <2>2. UNCHANGED m_state /\ g \in armed /\ armed' = armed \ {g}
    BY <1>7 DEF Wake
  <2>3. CASE f # g
    BY <1>4, <2>1, <2>2, <2>3
  <2>4. CASE f = g
    <3>1. \A u \in Threads : Shares(u, f) => Shares(u, f)'
      BY <1>3, <2>2, <2>4 DEF Shares
    <3>2. QED  BY <1>1, <1>3, <2>2, <2>4, <3>1 DEF FiberOK
  <2>5. QED  BY <2>3, <2>4
<1>8. ASSUME NEW g \in Fibers, ScheduleEnded(g) PROVE FiberOK(f)'
  <2>1. Queued(f)' <=> Queued(f) \/ f = g
    BY <1>1, <1>8, AppendQueue DEF ScheduleEnded
  <2>2. UNCHANGED <<m_state, armed>> /\ Finished(g) /\ \A u \in Threads : ~Owns(u, g)
    BY <1>8 DEF ScheduleEnded
  <2>3. CASE f # g
    BY <1>4, <2>1, <2>2, <2>3
  <2>4. CASE f = g
    <3>1. f \notin armed' /\ m_state'[f] \notin {"NONE", "EXEC"}
      BY <1>1, <2>2, <2>4 DEF FiberOK, Finished
    <3>2. \A u \in Threads : ~Owns(u, f)'
      BY <1>2, <2>2, <2>4 DEF Owns
    <3>3. QED  BY <3>1, <3>2, FreeOK
  <2>5. QED  BY <2>3, <2>4
<1>9. QED  BY <1>5, <1>6, <1>7, <1>8, Submit DEF Submit

\* Every step keeps the account of who has a fiber, until one is torn.
LEMMA FiberStep ==
  ASSUME JobInv, [Next]_vars, ~torn', NEW f \in Fibers
  PROVE  FiberOK(f)'
<1>1. ASSUME NEW t \in Threads, RunStep(t) PROVE FiberOK(f)'
  <2>1. OthersStay(t)
    BY <1>1, RunLocals
  <2>2. QED
    BY <1>1, <2>1, RestFibers, TakeFibers, EnterFibers, DropFibers, UserFibers, LeaveFibers,
       SettleFibers DEF RunStep
<1>2. CASE start \/ StopRequest \/ StopStep \/ UNCHANGED vars
  <2>1. UNCHANGED <<ft, cb_fiber, m_state, armed, m_fibers>>
    BY <1>2, StopWrites
  <2>2. \A u \in Threads : pc'[u] = pc[u] \/ (pc[u] = "off" /\ pc'[u] = "scan")
    BY <1>2, StopWrites
  <2>3. Queued(f)' <=> Queued(f)
    BY <2>1 DEF Queued
  <2>4. \A u \in Threads : /\ Owns(u, f)' <=> Owns(u, f)
                           /\ Arming(u, f)' <=> Arming(u, f)
                           /\ Parking(u, f)' <=> Parking(u, f)
                           /\ Dispatched(u, f)' <=> Dispatched(u, f)
    BY <2>1, <2>2 DEF Owns, Arming, Parking, Dispatched, Switched, After
  <2>5. FiberOK(f)
    BY DEF JobInv
  <2>6. QED  BY <2>1, <2>3, <2>4, <2>5, SameOK
<1>3. CASE Submit
  BY <1>3, SubmitFibers
<1>4. QED  BY <1>1, <1>2, <1>3 DEF Next, Stopped

\* A fiber is queued once.
LEMMA DistinctStep ==
  ASSUME JobInv, [Next]_vars
  PROVE  QueueDistinct'
<1> USE NullAssumption
<1>1. DomOK /\ TypeOK /\ QueueDistinct
  BY JobTypes DEF JobInv, CountInv
<1>2. ASSUME NEW g \in Fibers \cup {NoFiber}, NEW j, NEW p, scheduleNoLock(g, j, p),
             ~Queued(g) \/ g = NoFiber
      PROVE  QueueDistinct'
  BY <1>1, <1>2, AppendHolder DEF scheduleNoLock
<1>3. ASSUME UNCHANGED m_fibers PROVE QueueDistinct'
  BY <1>1, <1>3 DEF QueueDistinct
<1>4. CASE Submit
  <2>1. ASSUME NEW j \in Jobs, ScheduleCb(j) PROVE QueueDistinct'
    BY <1>2, <2>1 DEF ScheduleCb
  <2>2. ASSUME NEW g \in Fibers, NEW j \in Jobs, ScheduleFiber(g, j) PROVE QueueDistinct'
    <3>1. ~Queued(g)
      BY <2>2 DEF ScheduleFiber, NewFiber, JobInv, FiberOK
    <3>2. QED  BY <1>2, <2>2, <3>1 DEF ScheduleFiber
  <2>3. ASSUME NEW g \in Fibers, Wake(g) PROVE QueueDistinct'
    <3>1. ~Queued(g)
      BY <2>3 DEF Wake, JobInv, FiberOK
    <3>2. QED  BY <1>2, <2>3, <3>1 DEF Wake
  <2>4. ASSUME NEW g \in Fibers, ScheduleEnded(g) PROVE QueueDistinct'
    BY <1>2, <2>4 DEF ScheduleEnded
  <2>5. QED  BY <1>4, <2>1, <2>2, <2>3, <2>4 DEF Submit
<1>5. ASSUME NEW t \in Threads, RunStep(t) PROVE QueueDistinct'
  <2>1. CASE TakeTask(t)
    BY <1>1, <2>1, EraseHolder DEF TakeTask
  <2>2. CASE SettleFiber(t) \/ SettleCb(t)
    <3>1. pc[t] = "settle"
      BY <2>2 DEF SettleFiber, SettleCb
    <3>2. PICK g \in Fibers : g = Switched(t) /\ Owns(t, g)
      BY <3>1, SwitchedAlone DEF Within, After
    <3>3. UNCHANGED m_fibers \/ (m_state[g] = "READY" /\ Reschedule(g))
      BY <2>2, <3>2 DEF SettleFiber, SettleCb, Switched
    <3>4. m_state[g] = "READY" => ~Queued(g)
      BY <3>1, <3>2, HeldAlone DEF Arming, Parking
    <3>5. QED  BY <1>2, <1>3, <3>3, <3>4 DEF Reschedule
  <2>3. CASE UNCHANGED m_fibers
    BY <1>3, <2>3
  <2>4. QED
    BY <1>5, <2>1, <2>2, <2>3 DEF RunStep, NoTask, RunFiber, DropFinished, RunCb, Arm,
       YieldToHold, YieldToReady, MainFunc, swapOut, Deactivate, EnterIdle, idle,
       LeaveIdle, ExitRun
<1>6. CASE start \/ StopRequest \/ StopStep \/ UNCHANGED vars
  BY <1>3, <1>6, StopWrites
<1>7. QED  BY <1>4, <1>5, <1>6 DEF Next, Stopped

-----------------------------------------------------------------------------
(* A fiber that its thread leaves for a waker comes back *)

\* Its waker, the queue and a thread that took it pass it on, and to switch to it or to
\* drop it is to tear it or to find it ended.
LEMMA TokenStays ==
  ASSUME JobInv, [Next]_vars, ~torn', NEW f \in Fibers, NEW u \in Threads,
         Arming(u, f) \/ Parking(u, f), Token(f)
  PROVE  Token(f)'
<1> USE NullAssumption
<1>1. DomOK /\ TypeOK
  BY JobTypes DEF JobInv, CountInv
<1>2. Owns(u, f) /\ ~Finished(f) /\ ~Dispatched(u, f)
  <2>1. Owns(u, f) /\ ~Dispatched(u, f)
    BY PointsOwn DEF Arming, Parking, Dispatched, After
  <2>2. m_state[f] \in {"EXEC", "HOLD"}
    BY DEF Arming, Parking, JobInv, ThreadOK, PointAt
  <2>3. QED  BY <2>1, <2>2 DEF Finished
<1>3. CASE Submit
  <2>1. UNCHANGED <<pc, ft>>
    BY <1>3, SubmitWrites
  <2>2. ASSUME NEW j \in Jobs, ScheduleCb(j) PROVE Token(f)'
    <3>1. Queued(f)' <=> Queued(f)
      BY <1>1, <2>2, AppendQueue DEF ScheduleCb
    <3>2. QED  BY <2>1, <2>2, <3>1 DEF ScheduleCb, fiberVars, Token, Dispatched
  <2>3. ASSUME NEW g \in Fibers, NEW j \in Jobs, ScheduleFiber(g, j) PROVE Token(f)'
    <3>1. Queued(f)' <=> Queued(f) \/ f = g
      BY <1>1, <2>3, AppendQueue DEF ScheduleFiber
    <3>2. QED  BY <2>1, <2>3, <3>1 DEF ScheduleFiber, Token, Dispatched
  <2>4. ASSUME NEW g \in Fibers, Wake(g) \/ ScheduleEnded(g) PROVE Token(f)'
    <3>1. Queued(f)' <=> Queued(f) \/ f = g
      BY <1>1, <2>4, AppendQueue DEF Wake, ScheduleEnded
    <3>2. QED  BY <2>1, <2>4, <3>1 DEF Wake, ScheduleEnded, Token, Dispatched
  <2>5. QED  BY <1>3, <2>2, <2>3, <2>4 DEF Submit
<1>4. ASSUME NEW t \in Threads, RunStep(t) PROVE Token(f)'
  <2>1. OthersStay(t)
    BY <1>4, RunLocals
  <2>2. CASE f \in armed
    <3>1. f \in armed'
      BY <1>4, <2>2 DEF RunStep, TakeTask, NoTask, RunFiber, DropFinished, RunCb, Arm,
         YieldToHold, YieldToReady, MainFunc, swapOut, Deactivate, SettleFiber, SettleCb,
         EnterIdle, idle, LeaveIdle, ExitRun, fiberVars
    <3>2. QED  BY <3>1 DEF Token
  <2>3. CASE Queued(f)
    <3>1. CASE TakeTask(t)
      <4>1. PICK i \in DOMAIN m_fibers : /\ ft' = [ft EXCEPT ![t] = m_fibers[i]]
                                        /\ m_fibers' = EraseAt(m_fibers, i)
        BY <3>1 DEF TakeTask
      <4>2. Queued(f)' \/ f = m_fibers[i].fiber
        BY <1>1, <2>3, <4>1, EraseQueue
      <4>3. f = m_fibers[i].fiber => Dispatched(t, f)'
        BY <1>1, <3>1, <4>1 DEF TakeTask, goto, DomOK, Dispatched
      <4>4. QED  BY <4>2, <4>3 DEF Token
    <3>2. CASE SettleFiber(t) \/ SettleCb(t)
      <4>1. UNCHANGED m_fibers \/ \E g : Reschedule(g)
        BY <3>2 DEF SettleFiber, SettleCb
      <4>2. Queued(f)'
        BY <1>1, <2>3, <4>1, AppendQueue DEF Reschedule, Queued
      <4>3. QED  BY <4>2 DEF Token
    <3>3. CASE UNCHANGED m_fibers
      BY <2>3, <3>3 DEF Queued, Token
    <3>4. QED
      BY <1>4, <3>1, <3>2, <3>3 DEF RunStep, NoTask, RunFiber, DropFinished, RunCb, Arm,
         YieldToHold, YieldToReady, MainFunc, swapOut, Deactivate, EnterIdle, idle,
         LeaveIdle, ExitRun
  <2>4. ASSUME NEW v \in Threads, Dispatched(v, f) PROVE Token(f)'
    <3>1. CASE v # t
      <4>1. Dispatched(v, f)'
        BY <2>1, <2>4, <3>1 DEF OthersStay, Dispatched
      <4>2. QED  BY <4>1 DEF Token
    <3>2. CASE v = t
      <4>1. pc[t] = "dispatch" /\ ft[t].fiber = f /\ u # t
        BY <1>2, <2>4, <3>2 DEF Dispatched
      <4>2. ~RunFiber(t) /\ ~DropFinished(t) /\ ~RunCb(t)
        BY <1>2, <4>1 DEF RunFiber, DropFinished, RunCb
      <4>3. QED
        BY <1>4, <4>1, <4>2 DEF RunStep, TakeTask, NoTask, Arm, YieldToHold, YieldToReady,
           MainFunc, swapOut, Deactivate, SettleFiber, SettleCb, EnterIdle, idle, LeaveIdle,
           ExitRun
    <3>3. QED  BY <3>1, <3>2
  <2>5. QED  BY <2>2, <2>3, <2>4 DEF Token
<1>5. CASE start \/ StopRequest \/ StopStep \/ UNCHANGED vars
  <2>1. UNCHANGED <<ft, armed, m_fibers>>
    BY <1>5, StopWrites
  <2>2. \A v \in Threads : pc'[v] = pc[v] \/ (pc[v] = "off" /\ pc'[v] = "scan")
    BY <1>5, StopWrites
  <2>3. \A v \in Threads : Dispatched(v, f)' <=> Dispatched(v, f)
    BY <2>1, <2>2 DEF Dispatched
  <2>4. QED  BY <2>1, <2>3 DEF Token, Queued
<1>6. QED  BY <1>3, <1>4, <1>5 DEF Next, Stopped

\* The thread leaves its fiber for a waker.
Awaits(t) == pc[t] = "armed" \/ (pc[t] \in After /\ m_state[Switched(t)] = "HOLD")

\* Every step keeps a fiber that was left for its waker within reach of it.
LEMMA AwaitedStep ==
  ASSUME JobInv, [Next]_vars, ~torn', NEW u \in Threads
  PROVE  AwaitedAt(u)'
<1> SUFFICES ASSUME Awaits(u)' PROVE Token(Switched(u))'
  BY DEF AwaitedAt, Awaits
<1>1. DomOK /\ AwaitedAt(u)
  BY JobTypes DEF JobInv
<1>2. ASSUME Awaits(u), Switched(u)' = Switched(u) PROVE Token(Switched(u))'
  <2>1. PICK f \in Fibers : f = Switched(u)
    BY <1>2, SwitchedAlone DEF Awaits, Within, After
  <2>2. (Arming(u, f) \/ Parking(u, f)) /\ Token(f)
    BY <1>1, <1>2, <2>1 DEF Awaits, Arming, Parking, AwaitedAt
  <2>3. Token(f)'
    BY <2>2, TokenStays
  <2>4. f = Switched(u)'
    BY <1>2, <2>1
  <2>5. QED  BY <2>3, <2>4 DEF Token, Queued, Dispatched
\* A step of another actor.
<1>3. ASSUME pc'[u] = pc[u], ft'[u] = ft[u], cb_fiber'[u] = cb_fiber[u],
             \A f \in Fibers : Owns(u, f) => Untouched(f)
      PROVE  Token(Switched(u))'
  <2>1. Switched(u)' = Switched(u)
    BY <1>3 DEF Switched
  <2>2. pc[u] \in Within
    BY <1>3 DEF Awaits, Within, After
  <2>3. Untouched(Switched(u))
    BY <1>3, <2>2, SwitchedAlone
  <2>4. Awaits(u)
    BY <1>3, <2>1, <2>3 DEF Awaits, Untouched
  <2>5. QED  BY <1>2, <2>1, <2>4
<1>4. CASE Submit
  BY <1>3, <1>4, SubmitWrites
<1>5. ASSUME NEW t \in Threads, RunStep(t) PROVE Token(Switched(u))'
  <2>1. CASE u # t
    <3>1. \A f \in Fibers : Owns(u, f) => Untouched(f)
      BY <1>5, <2>1, RunUntouched
    <3>2. QED  BY <1>3, <1>5, <2>1, <3>1, RunLocals DEF OthersStay
  <2>2. CASE u = t
    <3>1. CASE Arm(t)
      <4>1. cur[t] = Switched(t) /\ UNCHANGED <<ft, cb_fiber>> /\ armed' = armed \cup {cur[t]}
        BY <3>1, OnSwitched DEF Arm, localVars
      <4>2. Switched(t)' \in armed'
        BY <4>1 DEF Switched
      <4>3. QED  BY <2>2, <4>2 DEF Token
    <3>2. CASE YieldToHold(t) \/ swapOut(t) \/ Deactivate(t)
      <4>1. UNCHANGED <<ft, cb_fiber>>
        BY <3>2 DEF YieldToHold, swapOut, Deactivate, localVars
      <4>2. Switched(u)' = Switched(u)
        BY <4>1 DEF Switched
      <4>3. CASE YieldToHold(t)
        BY <1>2, <2>2, <4>2, <4>3 DEF YieldToHold, Awaits
      <4>4. CASE swapOut(t) \/ Deactivate(t)
        <5>1. pc[t] \in After /\ pc'[t] \in After /\ UNCHANGED m_state
          BY <1>1, <4>4 DEF swapOut, Deactivate, goto, fiberVars, DomOK, After
        <5>2. Awaits(u)
          BY <2>2, <4>2, <5>1 DEF Awaits, After
        <5>3. QED  BY <1>2, <4>2, <5>2
      <4>5. QED  BY <3>2, <4>3, <4>4
    <3>3. CASE YieldToReady(t) \/ MainFunc(t)
      <4>1. PICK g \in Fibers : g = Switched(t) /\ cur[t] = g
        BY <3>3, OnSwitched, SwitchedAlone DEF YieldToReady, MainFunc, Within
      <4>2. pc'[t] = "swapOut" /\ m_state'[g] # "HOLD" /\ UNCHANGED <<ft, cb_fiber>>
        BY <1>1, <3>3, <4>1 DEF YieldToReady, MainFunc, setState, goto, localVars, DomOK
      <4>3. Switched(t)' = g
        BY <4>1, <4>2 DEF Switched
      <4>4. QED  BY <2>2, <4>2, <4>3 DEF Awaits
    <3>4. CASE ~Arm(t) /\ ~YieldToHold(t) /\ ~swapOut(t) /\ ~Deactivate(t)
               /\ ~YieldToReady(t) /\ ~MainFunc(t)
      <4>1. pc'[t] \notin After \cup {"armed"}
        BY <1>1, <1>5, <3>4 DEF RunStep, TakeTask, NoTask, RunFiber, DropFinished, RunCb,
           SettleFiber, SettleCb, EnterIdle, idle, LeaveIdle, ExitRun, goto, swapIn, DomOK,
           After
      <4>2. QED  BY <2>2, <4>1 DEF Awaits
    <3>5. QED  BY <3>1, <3>2, <3>3, <3>4
  <2>3. QED  BY <2>1, <2>2
<1>6. CASE start \/ StopRequest \/ StopStep \/ UNCHANGED vars
  <2>1. pc'[u] = pc[u] \/ (pc[u] = "off" /\ pc'[u] = "scan")
    BY <1>6, StopWrites, Zenon
  <2>2. pc'[u] = pc[u]
    BY <2>1 DEF Awaits, After
  <2>3. \A f \in Fibers : Untouched(f)
    BY <1>6, StopWrites DEF Untouched
  <2>4. QED  BY <1>3, <1>6, <2>2, <2>3, StopWrites
<1>7. QED  BY <1>4, <1>5, <1>6 DEF Next, Stopped

-----------------------------------------------------------------------------
(* No fiber is lost *)

\* A fiber that is not written is reached if what holds it does not let go of it.
LEMMA ReachStays ==
  ASSUME NEW f \in Fibers, Reached(f), m_state'[f] = m_state[f], f \in armed => f \in armed',
         Queued(f) => Reached(f)',
         \A u \in Threads : Owns(u, f) => Owns(u, f)'
  PROVE  Reached(f)'
BY DEF Reached, Finished

\* Submitting work loses no fiber.
LEMMA SubmitLost ==
  ASSUME JobInv, Submit, NEW f \in Fibers
  PROVE  Reached(f)'
<1>1. DomOK
  BY JobTypes
<1>2. Reached(f)
  BY DEF JobInv
<1>3. \A u \in Threads : Owns(u, f) => Owns(u, f)'
  BY SubmitWrites DEF Owns
<1>4. ASSUME NEW j \in Jobs, ScheduleCb(j) PROVE Reached(f)'
  <2>1. Queued(f)' <=> Queued(f)
    BY <1>1, <1>4, AppendQueue, NullAssumption DEF ScheduleCb
  <2>2. QED  BY <1>2, <1>3, <1>4, <2>1 DEF ScheduleCb, fiberVars, Reached, Finished
<1>5. ASSUME NEW g \in Fibers, NEW j \in Jobs, ScheduleFiber(g, j) PROVE Reached(f)'
  <2>1. Queued(f)' <=> Queued(f) \/ f = g
    BY <1>1, <1>5, AppendQueue DEF ScheduleFiber
  <2>2. QED  BY <1>1, <1>2, <1>3, <1>5, <2>1 DEF ScheduleFiber, NewFiber, DomOK, Reached, Finished
<1>6. ASSUME NEW g \in Fibers, Wake(g) \/ ScheduleEnded(g) PROVE Reached(f)'
  <2>1. Queued(f)' <=> Queued(f) \/ f = g
    BY <1>1, <1>6, AppendQueue DEF Wake, ScheduleEnded
  <2>2. QED  BY <1>2, <1>3, <1>6, <2>1 DEF Wake, ScheduleEnded, Reached, Finished
<1>7. QED  BY <1>4, <1>5, <1>6, Submit DEF Submit

\* run() loses no fiber: it passes it on, keeps it, ends it, or leaves it to the
\* waker it registered with.
LEMMA RunLost ==
  ASSUME JobInv, NEW t \in Threads, RunStep(t), NEW f \in Fibers
  PROVE  Reached(f)'
<1>1. DomOK
  BY JobTypes
<1>2. Reached(f)
  BY DEF JobInv
<1>3. TaskAt(t) /\ PointAt(t) /\ AwaitedAt(t) /\ OthersStay(t)
  BY RunLocals DEF JobInv, ThreadOK
<1>4. ASSUME TakeTask(t) PROVE Reached(f)'
  <2>1. PICK i \in DOMAIN m_fibers : /\ ft' = [ft EXCEPT ![t] = m_fibers[i]]
                                    /\ m_fibers' = EraseAt(m_fibers, i)
    BY <1>4 DEF TakeTask
  <2>2. Queued(f) => Queued(f)' \/ f = m_fibers[i].fiber
    BY <1>1, <2>1, EraseQueue
  <2>3. ft[t].fiber = NoFiber
    BY <1>4, <1>3 DEF TakeTask, TaskAt, Within, After
  <2>4. \A u \in Threads : Owns(u, f) => Owns(u, f)'
    BY <1>4, <1>1, <2>1, <2>3, NullAssumption DEF TakeTask, DomOK, Owns
  <2>5. f = m_fibers[i].fiber => Owns(t, f)'
    BY <1>1, <2>1 DEF DomOK, Owns
  <2>6. QED  BY <1>4, <1>2, <2>2, <2>4, <2>5 DEF TakeTask, fiberVars, Reached, Finished
<1>5. ASSUME NoTask(t) PROVE Reached(f)'
  <2>1. \A u \in Threads : Owns(u, f) => Owns(u, f)'
    BY <1>5 DEF NoTask, goto, fiberVars, localVars, Owns
  <2>2. QED  BY <1>5, <1>1, <1>2, <2>1 DEF NoTask, goto, fiberVars, localVars, Reached,
        Finished, Queued
<1>6. ASSUME RunFiber(t) PROVE Reached(f)'
  <2>1. \A u \in Threads : Owns(u, f) => Owns(u, f)'
    BY <1>6 DEF RunFiber, goto, swapIn, fiberVars, localVars, Owns
  <2>2. CASE f # ft[t].fiber
    BY <1>6, <1>1, <1>2, <2>1, <2>2 DEF RunFiber, goto, swapIn, fiberVars, localVars, DomOK,
       Reached, Finished, Queued
  <2>3. QED  BY <2>1, <2>2 DEF Reached, Owns
<1>7. ASSUME DropFinished(t) PROVE Reached(f)'
  <2>1. \A u \in Threads : Owns(u, f) => Owns(u, f)' \/ f = ft[t].fiber
    BY <1>7, <1>1 DEF DropFinished, goto, fiberVars, localVars, DomOK, Owns
  <2>2. QED  BY <1>7, <1>1, <1>2, <2>1 DEF DropFinished, goto, fiberVars, localVars, Reached,
        Finished, Queued
<1>8. ASSUME RunCb(t) PROVE Reached(f)'
  <2>1. PICK g \in Fibers :
            /\ IF cb_fiber[t] # NoFiber THEN g = cb_fiber[t] ELSE m_state[g] = "NONE"
            /\ m_state' = [m_state EXCEPT ![g] = "EXEC"]
            /\ cb_fiber' = [cb_fiber EXCEPT ![t] = g]
    BY <1>8 DEF RunCb
  <2>2. \A u \in Threads : Owns(u, f) => Owns(u, f)'
    BY <1>8, <1>1, <2>1, NullAssumption DEF RunCb, DomOK, Owns
  <2>3. f = g => Owns(t, f)'
    BY <1>1, <2>1 DEF DomOK, Owns
  <2>4. f # g => m_state'[f] = m_state[f]
    BY <1>1, <2>1 DEF DomOK
  <2>5. QED  BY <1>8, <1>2, <2>2, <2>3, <2>4 DEF RunCb, Reached, Finished, Queued
<1>9. ASSUME Arm(t) PROVE Reached(f)'
  <2>1. \A u \in Threads : Owns(u, f) => Owns(u, f)'
    BY <1>9 DEF Arm, goto, fiberVars, localVars, Owns
  <2>2. QED  BY <1>9, <1>1, <1>2, <2>1 DEF Arm, goto, fiberVars, localVars, Reached, Finished,
        Queued
<1>10. ASSUME YieldToHold(t) PROVE Reached(f)'
  <2>1. \A u \in Threads : Owns(u, f) => Owns(u, f)'
    BY <1>10 DEF YieldToHold, goto, setState, fiberVars, localVars, Owns
  <2>2. Switched(t) \in Fibers /\ Owns(t, Switched(t)) /\ cur[t] = Switched(t)
    BY <1>10, SwitchedAlone, OnSwitched DEF YieldToHold, goto, setState, fiberVars, localVars,
       Within
  <2>3. CASE f # Switched(t)
    BY <1>10, <1>1, <1>2, <2>1, <2>2, <2>3 DEF YieldToHold, goto, setState, fiberVars,
       localVars, DomOK, Reached, Finished, Queued
  <2>4. QED  BY <2>1, <2>2, <2>3 DEF Reached
<1>11. ASSUME YieldToReady(t) PROVE Reached(f)'
  <2>1. \A u \in Threads : Owns(u, f) => Owns(u, f)'
    BY <1>11 DEF YieldToReady, goto, setState, fiberVars, localVars, Owns
  <2>2. Switched(t) \in Fibers /\ Owns(t, Switched(t)) /\ cur[t] = Switched(t)
    BY <1>11, SwitchedAlone, OnSwitched DEF YieldToReady, goto, setState, fiberVars, localVars,
       Within
  <2>3. CASE f # Switched(t)
    BY <1>11, <1>1, <1>2, <2>1, <2>2, <2>3 DEF YieldToReady, goto, setState, fiberVars,
       localVars, DomOK, Reached, Finished, Queued
  <2>4. QED  BY <2>1, <2>2, <2>3 DEF Reached
<1>12. ASSUME MainFunc(t) PROVE Reached(f)'
  <2>1. \A u \in Threads : Owns(u, f) => Owns(u, f)'
    BY <1>12 DEF MainFunc, goto, setState, fiberVars, localVars, Owns
  <2>2. Switched(t) \in Fibers /\ Owns(t, Switched(t)) /\ cur[t] = Switched(t)
    BY <1>12, SwitchedAlone, OnSwitched DEF MainFunc, goto, setState, fiberVars, localVars, Within
  <2>3. CASE f # Switched(t)
    BY <1>12, <1>1, <1>2, <2>1, <2>2, <2>3 DEF MainFunc, goto, setState, fiberVars, localVars,
       DomOK, Reached, Finished, Queued
  <2>4. QED  BY <2>1, <2>2, <2>3 DEF Reached
<1>13. ASSUME swapOut(t) PROVE Reached(f)'
  <2>1. \A u \in Threads : Owns(u, f) => Owns(u, f)'
    BY <1>13 DEF swapOut, goto, fiberVars, localVars, Owns
  <2>2. QED  BY <1>13, <1>1, <1>2, <2>1 DEF swapOut, goto, fiberVars, localVars, Reached,
        Finished, Queued
<1>14. ASSUME Deactivate(t) PROVE Reached(f)'
  <2>1. \A u \in Threads : Owns(u, f) => Owns(u, f)'
    BY <1>14 DEF Deactivate, goto, fiberVars, localVars, Owns
  <2>2. QED  BY <1>14, <1>1, <1>2, <2>1 DEF Deactivate, goto, fiberVars, localVars, Reached,
        Finished, Queued
<1>15. ASSUME SettleFiber(t) PROVE Reached(f)'
  <2>1. /\ Switched(t) = ft[t].fiber
        /\ pc[t] \in After /\ Switched(t) \in Fibers
    BY <1>15, SwitchedAlone DEF SettleFiber, goto, fiberVars, localVars, Switched, After, Within
  <2>2. /\ m_state[Switched(t)] \in {"HOLD", "READY", "TERM", "EXCEPT"}
        /\ m_state[Switched(t)] = "HOLD" => Token(Switched(t))
    BY <1>3, <2>1 DEF PointAt, AwaitedAt
  <2>3. \A u \in Threads : Owns(u, f) => Owns(u, f)' \/ f = Switched(t)
    BY <1>15, <1>1, <2>1 DEF SettleFiber, goto, fiberVars, localVars, DomOK, Owns
  <2>4. \/ UNCHANGED m_fibers \/ Reschedule(Switched(t))
    BY <1>15, <2>1 DEF SettleFiber, goto, fiberVars, localVars
  <2>5. Queued(f) => Queued(f)'
    BY <1>1, <2>4, AppendQueue DEF Reschedule, Queued
  <2>6. CASE f # Switched(t)
    <3>1. m_state'[f] = m_state[f] /\ (f \in armed => f \in armed')
      BY <1>15, <1>1, <2>1, <2>6 DEF SettleFiber, goto, fiberVars, localVars, DomOK
    <3>2. QED  BY <1>2, <2>3, <2>5, <2>6, <3>1, ReachStays DEF Reached
  <2>7. CASE f = Switched(t)
    <3>1. CASE m_state[f] = "READY"
      <4>1. Reschedule(f)
        BY <1>15, <2>1, <2>7, <3>1 DEF SettleFiber, goto, fiberVars, localVars, Finished
      <4>2. Queued(f)'
        BY <1>1, <4>1, AppendQueue DEF Reschedule
      <4>3. QED  BY <4>2 DEF Reached
    <3>2. CASE m_state[f] = "HOLD"
      <4>1. m_state'[f] = "HOLD" /\ UNCHANGED armed /\ Token(f)
        BY <1>15, <1>1, <2>1, <2>2, <2>7, <3>2 DEF SettleFiber, goto, fiberVars, localVars,
           DomOK, Finished
      <4>2. ASSUME NEW u \in Threads, Dispatched(u, f) PROVE Owns(u, f)'
        BY <1>3, <2>1, <4>2 DEF Dispatched, OthersStay, Owns, After
      <4>3. QED  BY <2>5, <4>1, <4>2 DEF Reached, Token
    <3>3. CASE Finished(f)
      <4>1. UNCHANGED m_state
        BY <1>15, <2>1, <2>7, <3>3 DEF SettleFiber, goto, fiberVars, localVars, Finished
      <4>2. QED  BY <3>3, <4>1 DEF Finished, Reached
    <3>4. QED  BY <2>2, <2>7, <3>1, <3>2, <3>3 DEF Finished
  <2>8. QED  BY <2>6, <2>7
<1>16. ASSUME SettleCb(t) PROVE Reached(f)'
  <2>1. /\ Switched(t) = cb_fiber[t]
        /\ pc[t] \in After /\ Switched(t) \in Fibers
    BY <1>16, SwitchedAlone DEF SettleCb, goto, reset, ReleaseCbFiber, fiberVars, localVars,
       Switched, After, Within
  <2>2. /\ m_state[Switched(t)] \in {"HOLD", "READY", "TERM", "EXCEPT"}
        /\ m_state[Switched(t)] = "HOLD" => Token(Switched(t))
    BY <1>3, <2>1 DEF PointAt, AwaitedAt
  <2>3. \A u \in Threads : Owns(u, f) => Owns(u, f)' \/ f = Switched(t)
    BY <1>16, <1>1, <2>1 DEF SettleCb, goto, reset, ReleaseCbFiber, fiberVars, localVars,
       DomOK, Owns
  <2>4. \/ UNCHANGED m_fibers \/ Reschedule(Switched(t))
    BY <1>16, <2>1 DEF SettleCb, goto, reset, ReleaseCbFiber, fiberVars, localVars
  <2>5. Queued(f) => Queued(f)'
    BY <1>1, <2>4, AppendQueue DEF Reschedule, Queued
  <2>6. CASE f # Switched(t)
    <3>1. m_state'[f] = m_state[f] /\ (f \in armed => f \in armed')
      BY <1>16, <1>1, <2>1, <2>6 DEF SettleCb, goto, reset, ReleaseCbFiber, fiberVars,
         localVars, DomOK
    <3>2. QED  BY <1>2, <2>3, <2>5, <2>6, <3>1, ReachStays DEF Reached
  <2>7. CASE f = Switched(t)
    <3>1. CASE m_state[f] = "READY"
      <4>1. Reschedule(f)
        BY <1>16, <2>1, <2>7, <3>1 DEF SettleCb, goto, reset, ReleaseCbFiber, fiberVars,
           localVars, Finished
      <4>2. Queued(f)'
        BY <1>1, <4>1, AppendQueue DEF Reschedule
      <4>3. QED  BY <4>2 DEF Reached
    <3>2. CASE m_state[f] = "HOLD"
      <4>1. m_state'[f] = "HOLD" /\ UNCHANGED armed /\ Token(f)
        BY <1>16, <1>1, <2>1, <2>2, <2>7, <3>2 DEF SettleCb, goto, reset, ReleaseCbFiber,
           fiberVars, localVars, DomOK, Finished
      <4>2. ASSUME NEW u \in Threads, Dispatched(u, f) PROVE Owns(u, f)'
        BY <1>3, <2>1, <4>2 DEF Dispatched, OthersStay, Owns, After
      <4>3. QED  BY <2>5, <4>1, <4>2 DEF Reached, Token
    <3>3. CASE Finished(f)
      <4>1. cb_fiber'[t] = f
        BY <1>16, <2>1, <2>7, <3>3 DEF SettleCb, goto, reset, ReleaseCbFiber, fiberVars,
           localVars, Finished
      <4>2. QED  BY <4>1 DEF Owns, Reached
    <3>4. QED  BY <2>2, <2>7, <3>1, <3>2, <3>3 DEF Finished
  <2>8. QED  BY <2>6, <2>7
<1>17. ASSUME EnterIdle(t) PROVE Reached(f)'
  <2>1. \A u \in Threads : Owns(u, f) => Owns(u, f)'
    BY <1>17 DEF EnterIdle, goto, fiberVars, localVars, Owns
  <2>2. QED  BY <1>17, <1>1, <1>2, <2>1 DEF EnterIdle, goto, fiberVars, localVars, Reached,
        Finished, Queued
<1>18. ASSUME idle(t) PROVE Reached(f)'
  <2>1. \A u \in Threads : Owns(u, f) => Owns(u, f)'
    BY <1>18 DEF idle, goto, fiberVars, localVars, Owns
  <2>2. QED  BY <1>18, <1>1, <1>2, <2>1 DEF idle, goto, fiberVars, localVars, Reached,
        Finished, Queued
<1>19. ASSUME LeaveIdle(t) PROVE Reached(f)'
  <2>1. \A u \in Threads : Owns(u, f) => Owns(u, f)'
    BY <1>19 DEF LeaveIdle, goto, fiberVars, localVars, Owns
  <2>2. QED  BY <1>19, <1>1, <1>2, <2>1 DEF LeaveIdle, goto, fiberVars, localVars, Reached,
        Finished, Queued
<1>20. ASSUME ExitRun(t) PROVE Reached(f)'
  <2>1. \A u \in Threads : Owns(u, f) => Owns(u, f)'
    BY <1>20 DEF ExitRun, goto, fiberVars, localVars, Owns
  <2>2. QED  BY <1>20, <1>1, <1>2, <2>1 DEF ExitRun, goto, fiberVars, localVars, Reached,
        Finished, Queued
<1>21. QED  BY <1>4, <1>5, <1>6, <1>7, <1>8, <1>9, <1>10, <1>11, <1>12, <1>13, <1>14, <1>15,
      <1>16, <1>17, <1>18, <1>19, <1>20, RunStep(t) DEF RunStep

\* No step loses a fiber.
LEMMA LostStep ==
  ASSUME JobInv, [Next]_vars, NEW f \in Fibers
  PROVE  Reached(f)'
<1>1. CASE start \/ StopRequest \/ StopStep \/ UNCHANGED vars
  <2>1. Reached(f) /\ UNCHANGED <<m_state, m_fibers, ft, cb_fiber, armed>>
    BY <1>1, StopWrites DEF JobInv
  <2>2. QED  BY <2>1 DEF Reached, Finished, Queued, Owns
<1>2. QED  BY <1>1, SubmitLost, RunLost DEF Next, Stopped

-----------------------------------------------------------------------------
(* Every job is in one place *)

\* A queued task is a fiber or a callback.
EntryOK == \A i \in DOMAIN m_fibers : m_fibers[i].fiber # NoFiber => m_fibers[i].cb = NoJob

\* Appending a fiber or a callback.
LEMMA AppendEntry ==
  ASSUME DomOK, EntryOK, NEW g, NEW c, NEW p, scheduleNoLock(g, c, p), g = NoFiber \/ c = NoJob
  PROVE  EntryOK'
<1>1. PICK n \in Nat :
            /\ DOMAIN m_fibers = 1 .. n /\ DOMAIN m_fibers' = 1 .. n + 1
            /\ \A i \in 1 .. n : m_fibers'[i] = m_fibers[i]
            /\ m_fibers'[n + 1].fiber = g /\ m_fibers'[n + 1].cb = c
            /\ m_fibers'[n + 1].thread = p
  BY AppendView
<1>2. QED  BY <1>1 DEF EntryOK

\* Erasing a task.
LEMMA EraseEntry ==
  ASSUME DomOK, EntryOK, NEW i \in DOMAIN m_fibers, m_fibers' = EraseAt(m_fibers, i)
  PROVE  EntryOK'
<1>1. PICK n \in Nat : \E old \in [1 .. n - 1 -> 1 .. n] :
            /\ DOMAIN m_fibers = 1 .. n /\ DOMAIN m_fibers' = 1 .. n - 1
            /\ \A k \in 1 .. n - 1 : m_fibers'[k] = m_fibers[old[k]] /\ old[k] # i
            /\ \A k, m \in 1 .. n - 1 : old[k] = old[m] => k = m
            /\ \A m \in 1 .. n : m # i => \E k \in 1 .. n - 1 : old[k] = m
  BY EraseView
<1>2. QED  BY <1>1 DEF EntryOK

\* The shape of tasks and of fibers that are not built.
LEMMA EmptyStep ==
  ASSUME JobInv, [Next]_vars
  PROVE  EmptyOK'
<1>1. DomOK
  BY JobTypes
<1>2. EntryOK /\ \A f \in Fibers : m_state[f] = "NONE" => m_cb[f] = NoJob
  BY DEF JobInv, EmptyOK, EntryOK
<1> USE NullAssumption
<1>3. CASE Submit
  <2>1. ASSUME NEW j \in Jobs, ScheduleCb(j) PROVE EmptyOK'
    <3>1. EntryOK'
      BY <1>1, <1>2, <2>1, AppendEntry DEF ScheduleCb
    <3>2. QED  BY <1>2, <2>1, <3>1 DEF ScheduleCb, fiberVars, EmptyOK, EntryOK
  <2>2. ASSUME NEW g \in Fibers, NEW j \in Jobs, ScheduleFiber(g, j) PROVE EmptyOK'
    <3>1. EntryOK'
      BY <1>1, <1>2, <2>2, AppendEntry DEF ScheduleFiber
    <3>2. QED  BY <1>1, <1>2, <2>2, <3>1 DEF ScheduleFiber, NewFiber, DomOK, EmptyOK, EntryOK
  <2>3. ASSUME NEW g \in Fibers, Wake(g) \/ ScheduleEnded(g) PROVE EmptyOK'
    <3>1. EntryOK'
      BY <1>1, <1>2, <2>3, AppendEntry DEF Wake, ScheduleEnded
    <3>2. QED  BY <1>2, <2>3, <3>1 DEF Wake, ScheduleEnded, EmptyOK, EntryOK
  <2>4. QED  BY <1>3, <2>1, <2>2, <2>3 DEF Submit
<1>4. ASSUME NEW t \in Threads, RunStep(t) PROVE EmptyOK'
  <2>1. EntryOK'
    <3>1. CASE TakeTask(t)
      BY <1>1, <1>2, <3>1, EraseEntry DEF TakeTask
    <3>2. CASE SettleFiber(t) \/ SettleCb(t)
      <4>1. \/ UNCHANGED m_fibers
            \/ \E g \in Fibers \cup {NoFiber} : scheduleNoLock(g, NoJob, AnyThread)
        BY <1>1, <3>2 DEF SettleFiber, SettleCb, Reschedule, DomOK
      <4>2. CASE UNCHANGED m_fibers
        BY <1>2, <4>2 DEF EntryOK
      <4>3. QED  BY <1>1, <1>2, <4>1, <4>2, AppendEntry
    <3>3. CASE UNCHANGED m_fibers
      BY <1>2, <3>3 DEF EntryOK
    <3>4. QED
      BY <1>4, <3>1, <3>2, <3>3 DEF RunStep, NoTask, RunFiber, DropFinished, RunCb, Arm,
         YieldToHold, YieldToReady, MainFunc, swapOut, Deactivate, EnterIdle, idle,
         LeaveIdle, ExitRun
  <2>2. ASSUME NEW f \in Fibers, m_state'[f] = "NONE" PROVE m_cb'[f] = NoJob
    <3>1. CASE RunFiber(t) \/ RunCb(t)
      BY <1>1, <1>2, <2>2, <3>1 DEF RunFiber, RunCb, DomOK
    <3>2. CASE YieldToHold(t) \/ YieldToReady(t) \/ MainFunc(t)
      BY <1>1, <1>2, <2>2, <3>2 DEF YieldToHold, YieldToReady, MainFunc, setState, DomOK
    <3>3. CASE SettleFiber(t) \/ SettleCb(t)
      BY <1>1, <1>2, <2>2, <3>3 DEF SettleFiber, SettleCb, reset, DomOK
    <3>4. CASE UNCHANGED <<m_state, m_cb>>
      BY <1>2, <2>2, <3>4
    <3>5. QED
      BY <1>4, <3>1, <3>2, <3>3, <3>4 DEF RunStep, TakeTask, NoTask, DropFinished, Arm,
         swapOut, Deactivate, EnterIdle, idle, LeaveIdle, ExitRun, fiberVars
  <2>3. QED  BY <2>1, <2>2 DEF EmptyOK, EntryOK
<1>5. CASE start \/ StopRequest \/ StopStep \/ UNCHANGED vars
  BY <1>5, StopWrites DEF JobInv, EmptyOK
<1>6. QED  BY <1>3, <1>4, <1>5 DEF Next, Stopped

\* The jobs of run()'s tasks are where they were.
ThreadJobsStay(j) == \A t \in Threads : ft'[t].cb = j <=> ft[t].cb = j

\* The jobs that fibers bear are where they were.
FiberJobsStay(j) == \A f \in Fibers : Bears(f, j)' <=> Bears(f, j)

\* A step that moves no job.
LEMMA PlaceStays ==
  ASSUME NEW j \in Jobs, PlaceAt(j), QueueOnce(j)', InQueue(j)' <=> InQueue(j),
         ThreadJobsStay(j), FiberJobsStay(j),
         j \in issued' <=> j \in issued, j \in done' <=> j \in done
  PROVE  PlaceAt(j)'
<1>1. ThreadOnce(j)' /\ (InThread(j)' <=> InThread(j))
  BY DEF PlaceAt, ThreadOnce, InThread, ThreadJobsStay
<1>2. FiberOnce(j)' /\ (InFiber(j)' <=> InFiber(j))
  BY DEF PlaceAt, FiberOnce, InFiber, FiberJobsStay
<1>3. QED  BY <1>1, <1>2 DEF PlaceAt

\* The queue is not written.
LEMMA SameQueue ==
  ASSUME NEW j \in Jobs, PlaceAt(j), UNCHANGED m_fibers
  PROVE  QueueOnce(j)' /\ (InQueue(j)' <=> InQueue(j))
BY DEF PlaceAt, QueueOnce, InQueue

\* A fiber without a callback is appended.
LEMMA FiberQueued ==
  ASSUME DomOK, NEW j \in Jobs, PlaceAt(j), NEW g, NEW p, scheduleNoLock(g, NoJob, p)
  PROVE  QueueOnce(j)' /\ (InQueue(j)' <=> InQueue(j))
BY AppendQueue, NullAssumption DEF PlaceAt

\* Submitting puts the job in the queue, or in a new fiber, and moves no other.
LEMMA SubmitPlace ==
  ASSUME JobInv, Submit, NEW j \in Jobs
  PROVE  PlaceAt(j)'
<1> USE NullAssumption
<1>1. DomOK
  BY JobTypes
<1>2. PlaceAt(j) /\ QueueOnce(j)
  BY DEF JobInv, PlaceAt
<1>3. ThreadJobsStay(j) /\ UNCHANGED ft
  BY SubmitWrites DEF ThreadJobsStay
<1>4. ASSUME NEW c \in Jobs, ScheduleCb(c) PROVE PlaceAt(j)'
  <2>1. FiberJobsStay(j) /\ UNCHANGED <<m_state, m_cb>>
    BY <1>4 DEF ScheduleCb, fiberVars, FiberJobsStay, Bears, Finished
  <2>2. InQueue(j)' <=> InQueue(j) \/ j = c
    BY <1>1, <1>4, AppendQueue DEF ScheduleCb
  <2>3. (j # c \/ ~InQueue(j)) => QueueOnce(j)'
    BY <1>1, <1>2, <1>4, AppendQueue DEF ScheduleCb
  <2>4. issued' = issued \cup {c} /\ c \notin issued /\ done' = done
    BY <1>4 DEF ScheduleCb
  <2>5. CASE j # c
    BY <1>2, <1>3, <2>1, <2>2, <2>3, <2>4, <2>5, PlaceStays
  <2>6. CASE j = c
    <3>1. ~InQueue(j) /\ ~InThread(j) /\ ~InFiber(j) /\ j \notin done
      BY <1>2, <2>4, <2>6 DEF PlaceAt
    <3>2. ~InThread(j)' /\ ThreadOnce(j)'
      BY <1>3, <3>1 DEF InThread, ThreadOnce
    <3>3. ~InFiber(j)' /\ FiberOnce(j)'
      BY <2>1, <3>1 DEF InFiber, FiberOnce, Bears, Finished
    <3>4. QED  BY <2>2, <2>3, <2>4, <2>6, <3>1, <3>2, <3>3 DEF PlaceAt
  <2>7. QED  BY <2>5, <2>6
<1>5. ASSUME NEW g \in Fibers, NEW c \in Jobs, ScheduleFiber(g, c) PROVE PlaceAt(j)'
  <2>1. QueueOnce(j)' /\ (InQueue(j)' <=> InQueue(j))
    BY <1>1, <1>2, <1>5, FiberQueued DEF ScheduleFiber
  <2>2. issued' = issued \cup {c} /\ c \notin issued /\ done' = done
    BY <1>5 DEF ScheduleFiber
  <2>3. m_cb[g] = NoJob /\ ~Bears(g, j)
    BY <1>5 DEF ScheduleFiber, NewFiber, JobInv, EmptyOK, Bears
  <2>4. \A f \in Fibers \ {g} : Bears(f, j)' <=> Bears(f, j)
    BY <1>1, <1>5 DEF ScheduleFiber, NewFiber, DomOK, Bears, Finished
  <2>5. Bears(g, j)' <=> j = c
    BY <1>1, <1>5 DEF ScheduleFiber, NewFiber, DomOK, Bears, Finished
  <2>6. CASE j # c
    <3>1. FiberJobsStay(j)
      BY <2>3, <2>4, <2>5, <2>6 DEF FiberJobsStay
    <3>2. QED  BY <1>2, <1>3, <2>1, <2>2, <2>6, <3>1, PlaceStays
  <2>7. CASE j = c
    <3>1. ~InQueue(j) /\ ~InThread(j) /\ ~InFiber(j) /\ j \notin done
      BY <1>2, <2>2, <2>7 DEF PlaceAt
    <3>2. ~InThread(j)' /\ ThreadOnce(j)'
      BY <1>3, <3>1 DEF InThread, ThreadOnce
    <3>3. InFiber(j)' /\ FiberOnce(j)'
      BY <2>4, <2>5, <2>7, <3>1 DEF InFiber, FiberOnce
    <3>4. QED  BY <2>1, <2>2, <2>7, <3>1, <3>2, <3>3 DEF PlaceAt
  <2>8. QED  BY <2>6, <2>7
<1>6. ASSUME NEW g \in Fibers, Wake(g) \/ ScheduleEnded(g) PROVE PlaceAt(j)'
  <2>1. QueueOnce(j)' /\ (InQueue(j)' <=> InQueue(j))
    BY <1>1, <1>2, <1>6, FiberQueued DEF Wake, ScheduleEnded
  <2>2. FiberJobsStay(j) /\ UNCHANGED <<issued, done>>
    BY <1>6 DEF Wake, ScheduleEnded, jobVars, FiberJobsStay, Bears, Finished
  <2>3. QED  BY <1>2, <1>3, <2>1, <2>2, PlaceStays
<1>7. QED  BY <1>4, <1>5, <1>6, Submit DEF Submit

\* run() takes a job from the queue to its task, from the task to the cb_fiber, and
\* drops it when the callback has ended.
LEMMA RunPlace ==
  ASSUME JobInv, NEW t \in Threads, RunStep(t), NEW j \in Jobs
  PROVE  PlaceAt(j)'
<1> USE NullAssumption
<1>1. DomOK
  BY JobTypes
<1>2. PlaceAt(j)
  BY DEF JobInv
<1>3. TaskAt(t) /\ KeptAt(t)
  BY DEF JobInv, ThreadOK
<1>4. ASSUME TakeTask(t) PROVE PlaceAt(j)'
  <2>1. PICK i \in DOMAIN m_fibers : /\ ft' = [ft EXCEPT ![t] = m_fibers[i]]
                                    /\ m_fibers' = EraseAt(m_fibers, i)
    BY <1>4 DEF TakeTask
  <2>2. QueueOnce(j)' /\ (InQueue(j)' <=> InQueue(j) /\ j # m_fibers[i].cb)
    BY <1>1, <1>2, <2>1, EraseQueue DEF PlaceAt
  <2>3. ft[t].cb = NoJob
    BY <1>4, <1>3 DEF TakeTask, TaskAt
  <2>4. ft'[t].cb = m_fibers[i].cb /\ \A u \in Threads \ {t} : ft'[u] = ft[u]
    BY <1>1, <2>1 DEF DomOK
  <2>5. FiberJobsStay(j) /\ UNCHANGED <<issued, done, m_state, m_cb>>
    BY <1>4 DEF TakeTask, goto, fiberVars, localVars, jobVars, FiberJobsStay, Bears, Finished
  <2>6. CASE j # m_fibers[i].cb
    <3>1. ThreadJobsStay(j)
      BY <2>3, <2>4, <2>6 DEF ThreadJobsStay
    <3>2. QED  BY <1>2, <2>2, <2>5, <2>6, <3>1, PlaceStays
  <2>7. CASE j = m_fibers[i].cb
    <3>1. InQueue(j) /\ ~InThread(j) /\ ~InFiber(j)
      BY <1>2, <2>7 DEF PlaceAt, InQueue
    <3>2. InThread(j)' /\ ThreadOnce(j)'
      BY <2>4, <2>7, <3>1 DEF InThread, ThreadOnce
    <3>3. ~InFiber(j)' /\ FiberOnce(j)'
      BY <2>5, <3>1 DEF InFiber, FiberOnce, FiberJobsStay
    <3>4. QED  BY <1>2, <2>2, <2>5, <2>7, <3>1, <3>2, <3>3 DEF PlaceAt
  <2>8. QED  BY <2>6, <2>7
<1>5. ASSUME NoTask(t) PROVE PlaceAt(j)'
  <2>1. QueueOnce(j)' /\ (InQueue(j)' <=> InQueue(j))
    BY <1>5, <1>2, SameQueue DEF NoTask, goto, fiberVars, localVars
  <2>2. UNCHANGED <<issued, done>>
    BY <1>5 DEF NoTask, goto, fiberVars, localVars, jobVars
  <2>3. ThreadJobsStay(j)
    BY <1>5 DEF NoTask, goto, fiberVars, localVars, ThreadJobsStay
  <2>4. FiberJobsStay(j)
    BY <1>5 DEF NoTask, goto, fiberVars, localVars, FiberJobsStay, Bears, Finished
  <2>5. QED  BY <1>2, <2>1, <2>2, <2>3, <2>4, PlaceStays
<1>6. ASSUME RunFiber(t) PROVE PlaceAt(j)'
  <2>1. QueueOnce(j)' /\ (InQueue(j)' <=> InQueue(j))
    BY <1>6, <1>2, SameQueue DEF RunFiber, goto, swapIn, fiberVars, localVars
  <2>2. UNCHANGED <<issued, done>>
    BY <1>6 DEF RunFiber, goto, swapIn, fiberVars, localVars, jobVars
  <2>3. ThreadJobsStay(j)
    BY <1>6 DEF RunFiber, goto, swapIn, fiberVars, localVars, ThreadJobsStay
  <2>4. FiberJobsStay(j)
    BY <1>6, <1>1 DEF RunFiber, goto, swapIn, fiberVars, localVars, DomOK, FiberJobsStay,
       Bears, Finished
  <2>5. QED  BY <1>2, <2>1, <2>2, <2>3, <2>4, PlaceStays
<1>7. ASSUME DropFinished(t) PROVE PlaceAt(j)'
  <2>1. QueueOnce(j)' /\ (InQueue(j)' <=> InQueue(j))
    BY <1>7, <1>2, SameQueue DEF DropFinished, goto, fiberVars, localVars
  <2>2. UNCHANGED <<issued, done>>
    BY <1>7 DEF DropFinished, goto, fiberVars, localVars, jobVars
  <2>3. ThreadJobsStay(j)
    BY <1>7, <1>1, <1>3 DEF DropFinished, goto, fiberVars, localVars, DomOK, TaskAt,
       ThreadJobsStay
  <2>4. FiberJobsStay(j)
    BY <1>7 DEF DropFinished, goto, fiberVars, localVars, FiberJobsStay, Bears, Finished
  <2>5. QED  BY <1>2, <2>1, <2>2, <2>3, <2>4, PlaceStays
<1>8. ASSUME RunCb(t) PROVE PlaceAt(j)'
  <2>1. PICK g \in Fibers :
            /\ IF cb_fiber[t] # NoFiber THEN g = cb_fiber[t] ELSE m_state[g] = "NONE"
            /\ m_state' = [m_state EXCEPT ![g] = "EXEC"]
            /\ m_cb' = [m_cb EXCEPT ![g] = ft[t].cb]
    BY <1>8 DEF RunCb
  <2>2. m_cb[g] = NoJob
    BY <1>8, <1>3, <2>1 DEF RunCb, KeptAt, Keeps, Within, After, JobInv, EmptyOK
  <2>3. ~Bears(g, j) /\ (Bears(g, j)' <=> j = ft[t].cb)
    BY <1>1, <2>1, <2>2 DEF DomOK, Bears, Finished
  <2>4. \A f \in Fibers \ {g} : Bears(f, j)' <=> Bears(f, j)
    BY <1>1, <2>1 DEF DomOK, Bears, Finished
  <2>5. ft'[t].cb = NoJob /\ \A u \in Threads \ {t} : ft'[u] = ft[u]
    BY <1>8, <1>1 DEF RunCb, DomOK
  <2>6. UNCHANGED <<issued, done>>
    BY <1>8 DEF RunCb, jobVars
  <2>7. QueueOnce(j)' /\ (InQueue(j)' <=> InQueue(j))
    BY <1>8, <1>2, SameQueue DEF RunCb
  <2>8. CASE j # ft[t].cb
    <3>1. ThreadJobsStay(j) /\ FiberJobsStay(j)
      BY <2>3, <2>4, <2>5, <2>8 DEF ThreadJobsStay, FiberJobsStay
    <3>2. QED  BY <1>2, <2>6, <2>7, <3>1, PlaceStays
  <2>9. CASE j = ft[t].cb
    <3>1. InThread(j) /\ ~InQueue(j) /\ ~InFiber(j) /\ ThreadOnce(j)
      BY <1>2, <2>9 DEF PlaceAt, InThread
    <3>2. ~InThread(j)' /\ ThreadOnce(j)'
      BY <2>5, <2>9, <3>1 DEF InThread, ThreadOnce
    <3>3. InFiber(j)' /\ FiberOnce(j)'
      BY <2>3, <2>4, <2>9, <3>1 DEF InFiber, FiberOnce
    <3>4. QED  BY <1>2, <2>6, <2>7, <3>1, <3>2, <3>3 DEF PlaceAt
  <2>10. QED  BY <2>8, <2>9
<1>9. ASSUME Arm(t) PROVE PlaceAt(j)'
  <2>1. QueueOnce(j)' /\ (InQueue(j)' <=> InQueue(j))
    BY <1>9, <1>2, SameQueue DEF Arm, goto, fiberVars, localVars
  <2>2. UNCHANGED <<issued, done>>
    BY <1>9 DEF Arm, goto, fiberVars, localVars, jobVars
  <2>3. ThreadJobsStay(j)
    BY <1>9 DEF Arm, goto, fiberVars, localVars, ThreadJobsStay
  <2>4. FiberJobsStay(j)
    BY <1>9 DEF Arm, goto, fiberVars, localVars, FiberJobsStay, Bears, Finished
  <2>5. QED  BY <1>2, <2>1, <2>2, <2>3, <2>4, PlaceStays
<1>10. ASSUME YieldToHold(t) PROVE PlaceAt(j)'
  <2>1. QueueOnce(j)' /\ (InQueue(j)' <=> InQueue(j))
    BY <1>10, <1>2, SameQueue DEF YieldToHold, goto, setState, fiberVars, localVars
  <2>2. UNCHANGED <<issued, done>>
    BY <1>10 DEF YieldToHold, goto, setState, fiberVars, localVars, jobVars
  <2>3. ThreadJobsStay(j)
    BY <1>10 DEF YieldToHold, goto, setState, fiberVars, localVars, ThreadJobsStay
  <2>4. FiberJobsStay(j)
    <3>1. m_state[cur[t]] = "EXEC"
      BY <1>10, OnSwitched DEF YieldToHold, goto, setState, fiberVars, localVars
    <3>2. QED  BY <1>10, <1>1, <3>1 DEF YieldToHold, goto, setState, fiberVars, localVars,
          DomOK, FiberJobsStay, Bears, Finished
  <2>5. QED  BY <1>2, <2>1, <2>2, <2>3, <2>4, PlaceStays
<1>11. ASSUME YieldToReady(t) PROVE PlaceAt(j)'
  <2>1. QueueOnce(j)' /\ (InQueue(j)' <=> InQueue(j))
    BY <1>11, <1>2, SameQueue DEF YieldToReady, goto, setState, fiberVars, localVars
  <2>2. UNCHANGED <<issued, done>>
    BY <1>11 DEF YieldToReady, goto, setState, fiberVars, localVars, jobVars
  <2>3. ThreadJobsStay(j)
    BY <1>11 DEF YieldToReady, goto, setState, fiberVars, localVars, ThreadJobsStay
  <2>4. FiberJobsStay(j)
    <3>1. m_state[cur[t]] = "EXEC"
      BY <1>11, OnSwitched DEF YieldToReady, goto, setState, fiberVars, localVars
    <3>2. QED  BY <1>11, <1>1, <3>1 DEF YieldToReady, goto, setState, fiberVars, localVars,
          DomOK, FiberJobsStay, Bears, Finished
  <2>5. QED  BY <1>2, <2>1, <2>2, <2>3, <2>4, PlaceStays
<1>12. ASSUME MainFunc(t) PROVE PlaceAt(j)'
  <2>1. QueueOnce(j)' /\ (InQueue(j)' <=> InQueue(j))
    BY <1>12, <1>2, SameQueue DEF MainFunc, goto, setState, fiberVars, localVars
  <2>2. ThreadJobsStay(j) /\ UNCHANGED <<ft, issued>>
    BY <1>12 DEF MainFunc, goto, setState, fiberVars, localVars, ThreadJobsStay
  <2>3. PICK g \in Fibers : g = cur[t] /\ m_state[g] = "EXEC"
    BY <1>12, OnSwitched, SwitchedAlone DEF MainFunc, Within
  <2>4. Bears(g, j) <=> j = m_cb[g]
    BY <2>3 DEF Bears, Finished
  <2>5. ~Bears(g, j)'
    BY <1>12, <1>1, <2>3 DEF MainFunc, setState, DomOK, Bears, Finished
  <2>6. \A f \in Fibers \ {g} : Bears(f, j)' <=> Bears(f, j)
    BY <1>12, <1>1, <2>3 DEF MainFunc, setState, DomOK, Bears, Finished
  <2>7. done' = done \cup {m_cb[g]}
    BY <1>12, <2>3 DEF MainFunc
  <2>8. CASE j # m_cb[g]
    <3>1. FiberJobsStay(j)
      BY <2>3, <2>4, <2>5, <2>6, <2>8 DEF FiberJobsStay
    <3>2. QED  BY <1>2, <2>1, <2>2, <2>7, <2>8, <3>1, PlaceStays
  <2>9. CASE j = m_cb[g]
    <3>1. InFiber(j) /\ ~InQueue(j) /\ ~InThread(j) /\ FiberOnce(j) /\ j \in issued
      BY <1>2, <2>3, <2>4, <2>9 DEF PlaceAt, InFiber
    <3>2. ~InThread(j)' /\ ThreadOnce(j)'
      BY <2>2, <3>1 DEF InThread, ThreadOnce
    <3>3. ~InFiber(j)' /\ FiberOnce(j)'
      BY <2>3, <2>4, <2>5, <2>6, <2>9, <3>1 DEF InFiber, FiberOnce
    <3>4. QED  BY <2>1, <2>2, <2>7, <2>9, <3>1, <3>2, <3>3 DEF PlaceAt
  <2>10. QED  BY <2>8, <2>9
<1>13. ASSUME swapOut(t) PROVE PlaceAt(j)'
  <2>1. QueueOnce(j)' /\ (InQueue(j)' <=> InQueue(j))
    BY <1>13, <1>2, SameQueue DEF swapOut, goto, fiberVars, localVars
  <2>2. UNCHANGED <<issued, done>>
    BY <1>13 DEF swapOut, goto, fiberVars, localVars, jobVars
  <2>3. ThreadJobsStay(j)
    BY <1>13 DEF swapOut, goto, fiberVars, localVars, ThreadJobsStay
  <2>4. FiberJobsStay(j)
    BY <1>13 DEF swapOut, goto, fiberVars, localVars, FiberJobsStay, Bears, Finished
  <2>5. QED  BY <1>2, <2>1, <2>2, <2>3, <2>4, PlaceStays
<1>14. ASSUME Deactivate(t) PROVE PlaceAt(j)'
  <2>1. QueueOnce(j)' /\ (InQueue(j)' <=> InQueue(j))
    BY <1>14, <1>2, SameQueue DEF Deactivate, goto, fiberVars, localVars
  <2>2. UNCHANGED <<issued, done>>
    BY <1>14 DEF Deactivate, goto, fiberVars, localVars, jobVars
  <2>3. ThreadJobsStay(j)
    BY <1>14 DEF Deactivate, goto, fiberVars, localVars, ThreadJobsStay
  <2>4. FiberJobsStay(j)
    BY <1>14 DEF Deactivate, goto, fiberVars, localVars, FiberJobsStay, Bears, Finished
  <2>5. QED  BY <1>2, <2>1, <2>2, <2>3, <2>4, PlaceStays
<1>15. ASSUME SettleFiber(t) PROVE PlaceAt(j)'
  <2>1. QueueOnce(j)' /\ (InQueue(j)' <=> InQueue(j))
    <3>1. UNCHANGED m_fibers \/ Reschedule(ft[t].fiber)
      BY <1>15 DEF SettleFiber, goto, fiberVars, localVars
    <3>2. QED  BY <1>1, <1>2, <3>1, SameQueue, FiberQueued DEF Reschedule
  <2>2. UNCHANGED <<issued, done>>
    BY <1>15 DEF SettleFiber, goto, fiberVars, localVars, jobVars
  <2>3. ThreadJobsStay(j)
    BY <1>15, <1>1, <1>3 DEF SettleFiber, goto, fiberVars, localVars, DomOK, TaskAt,
       ThreadJobsStay
  <2>4. FiberJobsStay(j)
    BY <1>15, <1>1 DEF SettleFiber, goto, fiberVars, localVars, DomOK, FiberJobsStay, Bears,
       Finished
  <2>5. QED  BY <1>2, <2>1, <2>2, <2>3, <2>4, PlaceStays
<1>16. ASSUME SettleCb(t) PROVE PlaceAt(j)'
  <2>1. QueueOnce(j)' /\ (InQueue(j)' <=> InQueue(j))
    <3>1. UNCHANGED m_fibers \/ Reschedule(cb_fiber[t])
      BY <1>16 DEF SettleCb, goto, reset, ReleaseCbFiber, fiberVars, localVars
    <3>2. QED  BY <1>1, <1>2, <3>1, SameQueue, FiberQueued DEF Reschedule
  <2>2. UNCHANGED <<issued, done>>
    BY <1>16 DEF SettleCb, goto, reset, ReleaseCbFiber, fiberVars, localVars, jobVars
  <2>3. ThreadJobsStay(j)
    BY <1>16, <1>1, <1>3 DEF SettleCb, goto, reset, ReleaseCbFiber, fiberVars, localVars,
       DomOK, TaskAt, ThreadJobsStay
  <2>4. FiberJobsStay(j)
    BY <1>16, <1>1 DEF SettleCb, goto, reset, ReleaseCbFiber, fiberVars, localVars, DomOK,
       FiberJobsStay, Bears, Finished
  <2>5. QED  BY <1>2, <2>1, <2>2, <2>3, <2>4, PlaceStays
<1>17. ASSUME EnterIdle(t) PROVE PlaceAt(j)'
  <2>1. QueueOnce(j)' /\ (InQueue(j)' <=> InQueue(j))
    BY <1>17, <1>2, SameQueue DEF EnterIdle, goto, fiberVars, localVars
  <2>2. UNCHANGED <<issued, done>>
    BY <1>17 DEF EnterIdle, goto, fiberVars, localVars, jobVars
  <2>3. ThreadJobsStay(j)
    BY <1>17 DEF EnterIdle, goto, fiberVars, localVars, ThreadJobsStay
  <2>4. FiberJobsStay(j)
    BY <1>17 DEF EnterIdle, goto, fiberVars, localVars, FiberJobsStay, Bears, Finished
  <2>5. QED  BY <1>2, <2>1, <2>2, <2>3, <2>4, PlaceStays
<1>18. ASSUME idle(t) PROVE PlaceAt(j)'
  <2>1. QueueOnce(j)' /\ (InQueue(j)' <=> InQueue(j))
    BY <1>18, <1>2, SameQueue DEF idle, goto, fiberVars, localVars
  <2>2. UNCHANGED <<issued, done>>
    BY <1>18 DEF idle, goto, fiberVars, localVars, jobVars
  <2>3. ThreadJobsStay(j)
    BY <1>18 DEF idle, goto, fiberVars, localVars, ThreadJobsStay
  <2>4. FiberJobsStay(j)
    BY <1>18 DEF idle, goto, fiberVars, localVars, FiberJobsStay, Bears, Finished
  <2>5. QED  BY <1>2, <2>1, <2>2, <2>3, <2>4, PlaceStays
<1>19. ASSUME LeaveIdle(t) PROVE PlaceAt(j)'
  <2>1. QueueOnce(j)' /\ (InQueue(j)' <=> InQueue(j))
    BY <1>19, <1>2, SameQueue DEF LeaveIdle, goto, fiberVars, localVars
  <2>2. UNCHANGED <<issued, done>>
    BY <1>19 DEF LeaveIdle, goto, fiberVars, localVars, jobVars
  <2>3. ThreadJobsStay(j)
    BY <1>19 DEF LeaveIdle, goto, fiberVars, localVars, ThreadJobsStay
  <2>4. FiberJobsStay(j)
    BY <1>19 DEF LeaveIdle, goto, fiberVars, localVars, FiberJobsStay, Bears, Finished
  <2>5. QED  BY <1>2, <2>1, <2>2, <2>3, <2>4, PlaceStays
<1>20. ASSUME ExitRun(t) PROVE PlaceAt(j)'
  <2>1. QueueOnce(j)' /\ (InQueue(j)' <=> InQueue(j))
    BY <1>20, <1>2, SameQueue DEF ExitRun, goto, fiberVars, localVars
  <2>2. UNCHANGED <<issued, done>>
    BY <1>20 DEF ExitRun, goto, fiberVars, localVars, jobVars
  <2>3. ThreadJobsStay(j)
    BY <1>20 DEF ExitRun, goto, fiberVars, localVars, ThreadJobsStay
  <2>4. FiberJobsStay(j)
    BY <1>20 DEF ExitRun, goto, fiberVars, localVars, FiberJobsStay, Bears, Finished
  <2>5. QED  BY <1>2, <2>1, <2>2, <2>3, <2>4, PlaceStays
<1>21. QED  BY <1>4, <1>5, <1>6, <1>7, <1>8, <1>9, <1>10, <1>11, <1>12, <1>13, <1>14, <1>15,
      <1>16, <1>17, <1>18, <1>19, <1>20, RunStep(t) DEF RunStep

\* Every step keeps each job in its one place.
LEMMA PlaceStep ==
  ASSUME JobInv, [Next]_vars, NEW j \in Jobs
  PROVE  PlaceAt(j)'
<1>1. CASE start \/ StopRequest \/ StopStep \/ UNCHANGED vars
  <2>1. PlaceAt(j) /\ UNCHANGED <<ft, m_state, m_cb, m_fibers, issued, done>>
    BY <1>1, StopWrites DEF JobInv
  <2>2. ThreadJobsStay(j) /\ FiberJobsStay(j)
    BY <2>1 DEF ThreadJobsStay, FiberJobsStay, Bears, Finished
  <2>3. QueueOnce(j)' /\ (InQueue(j)' <=> InQueue(j))
    BY <2>1, SameQueue
  <2>4. QED  BY <2>1, <2>2, <2>3, PlaceStays
<1>2. QED  BY <1>1, SubmitPlace, RunPlace DEF Next, Stopped

-----------------------------------------------------------------------------
(* stop() *)

\* A step of run() is one of a thread that runs, which exits only when its idle
\* fiber has ended, and ends its idle fiber only when stopping() holds.
MovesOn(t) ==
    /\ pc[t] \notin {"off", "exit"} /\ pc'[t] # "off"
    /\ pc'[t] = "exit" => idleTerm[t] = TRUE
    /\ idleTerm[t] = FALSE /\ ~stopping => idleTerm'[t] = FALSE
    /\ UNCHANGED <<mpc, m_stopping>>

\* Every step of run() moves on.
LEMMA RunPoint ==
  ASSUME JobInv, NEW t \in Threads, RunStep(t)
  PROVE  MovesOn(t)
<1>1. DomOK
  BY JobTypes
<1>2. idleTerm[t] = TRUE \/ idleTerm[t] = FALSE
  BY <1>1 DEF DomOK
<1> USE DEF stopVars
<1>3. ASSUME TakeTask(t) PROVE MovesOn(t)
  BY <1>3, <1>1, <1>2 DEF TakeTask, goto, fiberVars, localVars, DomOK, MovesOn
<1>4. ASSUME NoTask(t) PROVE MovesOn(t)
  BY <1>4, <1>1, <1>2 DEF NoTask, goto, fiberVars, localVars, DomOK, MovesOn
<1>5. ASSUME RunFiber(t) PROVE MovesOn(t)
  BY <1>5, <1>1, <1>2 DEF RunFiber, goto, swapIn, fiberVars, localVars, DomOK, MovesOn
<1>6. ASSUME DropFinished(t) PROVE MovesOn(t)
  BY <1>6, <1>1, <1>2 DEF DropFinished, goto, fiberVars, localVars, DomOK, MovesOn
<1>7. ASSUME RunCb(t) PROVE MovesOn(t)
  BY <1>7, <1>1, <1>2 DEF RunCb, goto, swapIn, fiberVars, localVars, DomOK, MovesOn
<1>8. ASSUME Arm(t) PROVE MovesOn(t)
  BY <1>8, <1>1, <1>2 DEF Arm, goto, fiberVars, localVars, DomOK, MovesOn
<1>9. ASSUME YieldToHold(t) PROVE MovesOn(t)
  BY <1>9, <1>1, <1>2 DEF YieldToHold, goto, setState, fiberVars, localVars, DomOK, MovesOn
<1>10. ASSUME YieldToReady(t) PROVE MovesOn(t)
  BY <1>10, <1>1, <1>2 DEF YieldToReady, goto, setState, fiberVars, localVars, DomOK, MovesOn
<1>11. ASSUME MainFunc(t) PROVE MovesOn(t)
  BY <1>11, <1>1, <1>2 DEF MainFunc, goto, setState, fiberVars, localVars, DomOK, MovesOn
<1>12. ASSUME swapOut(t) PROVE MovesOn(t)
  BY <1>12, <1>1, <1>2 DEF swapOut, goto, fiberVars, localVars, DomOK, MovesOn
<1>13. ASSUME Deactivate(t) PROVE MovesOn(t)
  BY <1>13, <1>1, <1>2 DEF Deactivate, goto, fiberVars, localVars, DomOK, MovesOn
<1>14. ASSUME SettleFiber(t) PROVE MovesOn(t)
  BY <1>14, <1>1, <1>2 DEF SettleFiber, goto, fiberVars, localVars, DomOK, MovesOn
<1>15. ASSUME SettleCb(t) PROVE MovesOn(t)
  BY <1>15, <1>1, <1>2 DEF SettleCb, goto, reset, ReleaseCbFiber, fiberVars, localVars, DomOK,
     MovesOn
<1>16. ASSUME EnterIdle(t) PROVE MovesOn(t)
  BY <1>16, <1>1, <1>2 DEF EnterIdle, goto, fiberVars, localVars, DomOK, MovesOn
<1>17. ASSUME idle(t) PROVE MovesOn(t)
  BY <1>17, <1>1, <1>2 DEF idle, goto, fiberVars, localVars, DomOK, MovesOn, stopping
<1>18. ASSUME LeaveIdle(t) PROVE MovesOn(t)
  BY <1>18, <1>1, <1>2 DEF LeaveIdle, goto, fiberVars, localVars, DomOK, MovesOn
<1>19. ASSUME ExitRun(t) PROVE MovesOn(t)
  <2>1. idleTerm[t] = TRUE
    <3>1. idleTerm[t]
      BY <1>19 DEF ExitRun
    <3>2. QED  BY <1>2, <3>1
  <2>2. pc[t] = "noTask" /\ pc'[t] = "exit" /\ UNCHANGED idleTerm /\ UNCHANGED <<mpc, m_stopping>>
    BY <1>19, <1>1 DEF ExitRun, goto, fiberVars, localVars, DomOK
  <2>3. QED  BY <2>1, <2>2 DEF MovesOn
<1>20. QED  BY <1>3, <1>4, <1>5, <1>6, <1>7, <1>8, <1>9, <1>10, <1>11, <1>12, <1>13, <1>14,
      <1>15, <1>16, <1>17, <1>18, <1>19, RunStep(t) DEF RunStep

\* Threads leave only while stop() waits for them.
LEMMA StopOKStep ==
  ASSUME JobInv, [Next]_vars
  PROVE  StopOK'
<1>1. DomOK /\ StopOK /\ StartOK
  BY JobTypes DEF JobInv, CountInv
<1> USE ThreadsAssumption
<1>2. CASE Submit
  <2>1. UNCHANGED <<pc, idleTerm, mpc, m_stopping>>
    BY <1>2, SubmitWrites DEF Submit, ScheduleCb, ScheduleFiber, Wake, ScheduleEnded, stopVars
  <2>2. QED  BY <1>1, <2>1 DEF StopOK
<1>3. ASSUME NEW t \in Threads, RunStep(t) PROVE StopOK'
  <2>1. /\ pc[t] \notin {"off", "exit"} /\ pc'[t] # "off"
        /\ pc'[t] = "exit" => idleTerm[t] = TRUE
        /\ idleTerm[t] = FALSE /\ ~stopping => idleTerm'[t] = FALSE
        /\ UNCHANGED <<mpc, m_stopping>>
    BY <1>3, RunPoint DEF MovesOn
  <2>2. \A u \in Threads \ {t} : pc'[u] = pc[u] /\ idleTerm'[u] = idleTerm[u]
    BY <1>3, RunLocals DEF OthersStay
  <2>3. mpc \in {"new", "up", "stopRequested"} => ~stopping
    BY <1>1, <2>1 DEF StopOK, StartOK, stopping
  <2>4. mpc \in {"new", "up", "stopRequested"} =>
            \A u \in Threads : pc'[u] # "exit" /\ idleTerm'[u] = FALSE
    BY <1>1, <2>1, <2>2, <2>3 DEF StopOK
  <2>5. mpc # "new" => \A u \in Workers : pc'[u] # "off"
    BY <1>1, <2>1, <2>2 DEF StopOK, Threads
  <2>6. UseCaller /\ mpc \in {"join", "down"} => pc'[Caller] = pc[Caller]
    BY <1>1, <2>1, <2>2 DEF StopOK, Threads
  <2>7. mpc = "down" => \A u \in Workers : pc'[u] = pc[u]
    BY <1>1, <2>1, <2>2 DEF StopOK, Threads
  <2>8. QED  BY <1>1, <2>1, <2>4, <2>5, <2>6, <2>7 DEF StopOK
<1>4. CASE start
  BY <1>1, <1>4 DEF start, StopOK, StartOK, Threads, localVars
<1>5. CASE StopRequest
  BY <1>1, <1>5 DEF StopRequest, StopOK, localVars
<1>6. CASE StopFlags
  BY <1>1, <1>6 DEF StopFlags, StopOK, localVars
<1>7. CASE StopTest
  <2>1. \A u \in Workers : pc'[u] = pc[u]
    BY <1>1, <1>7 DEF StopTest, goto, DomOK, Threads
  <2>2. mpc = "stopTest" /\ mpc' \in {"root", "join", "down"} /\ (mpc' = "down" => Workers = {})
    BY <1>7 DEF StopTest
  <2>3. UseCaller /\ mpc' \in {"join", "down"} => pc'[Caller] = "off"
    BY <1>1, <1>7 DEF StopTest, StartOK
  <2>4. QED  BY <1>1, <2>1, <2>2, <2>3 DEF StopOK
<1>8. CASE RootDone
  BY <1>1, <1>8 DEF RootDone, StopOK, localVars
<1>9. CASE Join
  BY <1>1, <1>9 DEF Join, StopOK, localVars
<1>10. CASE UNCHANGED vars
  BY <1>1, <1>10 DEF vars, StopOK
<1>11. QED
  BY <1>2, <1>3, <1>4, <1>5, <1>6, <1>7, <1>8, <1>9, <1>10 DEF Next, Stopped, StopStep

\* The scan passes over a queued task that is not pinned only when some thread has
\* handed it to its waker and has yet to publish HOLD.
LEMMA PassedOver ==
  ASSUME JobInv, NEW t \in Threads, NEW i \in DOMAIN m_fibers, m_fibers[i].thread = AnyThread,
         ~Eligible(t, i)
  PROVE  \E u \in Threads : pc[u] = "armed"
<1>1. DomOK
  BY JobTypes
<1>2. PICK f \in Fibers : f = m_fibers[i].fiber /\ m_state[f] = "EXEC"
  BY <1>1 DEF DomOK, FiberAndThread, Eligible
<1>3. Queued(f) /\ FiberOK(f)
  BY <1>2 DEF Queued, JobInv
<1>4. QED  BY <1>2, <1>3 DEF FiberOK, Arming

\* Once started, a pool that has not been asked to stop has a thread that looks at
\* the queue, unless its only thread is the caller.
LEMMA PoolLooks ==
  ASSUME JobInv, mpc = "up"
  PROVE  Workers = {} \/ \E t \in Threads : ~Leaves(t)
BY DEF JobInv, StopOK, Leaves, Threads

\* A task that any thread may take is not left behind.
LEMMA DrainStep ==
  ASSUME JobInv, [Next]_vars
  PROVE  DrainOK'
<1>1. DomOK /\ DrainOK /\ StopOK /\ StartOK
  BY JobTypes DEF JobInv, CountInv
<1> USE ThreadsAssumption
<1>2. CASE Submit
  <2>1. UNCHANGED <<pc, idleTerm, mpc>>
    BY <1>2, SubmitWrites DEF Submit, ScheduleCb, ScheduleFiber, Wake, ScheduleEnded, stopVars
  <2>2. UserRuns \/ \E t \in Threads : pc[t] = "idle"
    BY <1>2 DEF Submit, ScheduleCb, ScheduleFiber, Wake, ScheduleEnded
  <2>3. mpc \in {"new", "up"} \/ \E t \in Threads : ~Leaves(t)
    BY <2>2 DEF UserRuns, Leaves
  <2>4. mpc = "new" \/ (Workers = {} /\ mpc = "up") \/ \E t \in Threads : ~Leaves(t)
    BY <2>3, PoolLooks
  <2>5. QED  BY <2>1, <2>4 DEF DrainOK, Leaves
<1>3. ASSUME NEW t \in Threads, RunStep(t) PROVE DrainOK'
  <2>1. UNCHANGED mpc /\ \A u \in Threads \ {t} : Leaves(u)' <=> Leaves(u)
    BY <1>3, RunPoint, RunLocals DEF MovesOn, OthersStay, Leaves
  <2>2. CASE NoTask(t)
    <3>1. ASSUME NEW i \in DOMAIN m_fibers, m_fibers[i].thread = AnyThread
          PROVE  \E u \in Threads : ~Leaves(u)'
      <4>1. PICK u \in Threads : pc[u] = "armed"
        BY <2>2, <3>1, PassedOver DEF NoTask
      <4>2. u # t /\ ~Leaves(u)
        BY <2>2, <4>1 DEF NoTask, Leaves
      <4>3. QED  BY <2>1, <4>2
    <3>2. UNCHANGED m_fibers
      BY <2>2 DEF NoTask
    <3>3. QED  BY <3>1, <3>2 DEF DrainOK
  <2>3. CASE ExitRun(t)
    <3>1. Leaves(t) /\ UNCHANGED m_fibers
      <4>1. idleTerm[t] /\ pc[t] = "noTask" /\ UNCHANGED m_fibers
        BY <2>3 DEF ExitRun
      <4>2. idleTerm[t] = TRUE
        BY <1>1, <4>1 DEF DomOK
      <4>3. QED  BY <4>1, <4>2 DEF Leaves
    <3>2. QED  BY <1>1, <2>1, <3>1 DEF DrainOK
  <2>4. CASE ~NoTask(t) /\ ~ExitRun(t)
    <3>1. pc'[t] \notin {"off", "exit", "noTask"}
      BY <1>1, <1>3, <2>4 DEF RunStep, TakeTask, RunFiber, DropFinished, RunCb, Arm,
         YieldToHold, YieldToReady, MainFunc, swapOut, Deactivate, SettleFiber, SettleCb,
         EnterIdle, idle, LeaveIdle, goto, swapIn, DomOK
    <3>2. ~Leaves(t)'
      BY <3>1 DEF Leaves
    <3>3. QED  BY <3>2 DEF DrainOK
  <2>5. QED  BY <2>2, <2>3, <2>4
<1>4. CASE start
  <2>1. Workers = {} \/ \E t \in Threads : pc'[t] = "scan"
    BY <1>4 DEF start, Threads
  <2>2. QED  BY <1>4, <2>1 DEF start, DrainOK, Leaves
<1>5. CASE StopRequest
  BY <1>1, <1>5 DEF StopRequest, DrainOK, Leaves, localVars
<1>6. CASE StopFlags
  BY <1>1, <1>6 DEF StopFlags, DrainOK, Leaves, localVars
<1>7. CASE StopTest
  <2>1. CASE UseCaller /\ ~stopping
    <3>1. Caller \in Threads /\ pc'[Caller] = "scan"
      BY <1>1, <1>7, <2>1 DEF StopTest, goto, DomOK, Threads
    <3>2. QED  BY <3>1 DEF DrainOK, Leaves
  <2>2. CASE stopping
    BY <1>7, <2>2 DEF StopTest, stopping, DrainOK
  <2>3. CASE ~UseCaller
    <3>1. Workers # {} /\ mpc = "stopTest" /\ UNCHANGED <<pc, m_fibers, idleTerm>>
      BY <1>7, <2>3 DEF StopTest, localVars
    <3>2. QED  BY <1>1, <3>1 DEF DrainOK, Leaves
  <2>4. QED  BY <2>1, <2>2, <2>3
<1>8. CASE RootDone
  BY <1>1, <1>8 DEF RootDone, DrainOK, Leaves, localVars
<1>9. CASE Join
  BY <1>1, <1>9 DEF Join, DrainOK, Leaves, localVars
<1>10. CASE UNCHANGED vars
  BY <1>1, <1>10 DEF vars, DrainOK, Leaves
<1>11. QED
  BY <1>2, <1>3, <1>4, <1>5, <1>6, <1>7, <1>8, <1>9, <1>10 DEF Next, Stopped, StopStep

-----------------------------------------------------------------------------
(* JobInv is inductive and implies NothingLost and QuiescentStop *)

\* The initial state: no job, no fiber, no thread that runs.
LEMMA InitJob == Init => JobInv
<1> SUFFICES ASSUME Init PROVE JobInv
  OBVIOUS
<1> USE NullAssumption
<1>1. CountInv
  BY InitCount
<1>2. DOMAIN m_fibers = {} /\ \A t \in Threads : ft[t].fiber = NoFiber /\ ft[t].cb = NoJob
  BY DEF Init, NullTask
<1>3. EmptyOK /\ DrainOK /\ QueueDistinct
  BY <1>2 DEF Init, EmptyOK, DrainOK, QueueDistinct
<1>4. StopOK
  BY ThreadsAssumption DEF Init, StopOK, Threads
<1>5. \A t \in Threads : ThreadOK(t) /\ AwaitedAt(t)
  BY <1>2 DEF Init, ThreadOK, TaskAt, KeptAt, Keeps, PointAt, AwaitedAt, Within, After
<1>6. ASSUME NEW j \in Jobs PROVE PlaceAt(j)
  BY <1>2 DEF Init, PlaceAt, QueueOnce, ThreadOnce, FiberOnce, InQueue, InThread, InFiber, Bears
<1>7. ASSUME NEW f \in Fibers PROVE FiberOK(f) /\ Reached(f)
  BY <1>2 DEF Init, FiberOK, Reached, Queued, Owns
<1>8. QED  BY <1>1, <1>3, <1>4, <1>5, <1>6, <1>7 DEF JobInv

\* A torn fiber stays on record.
LEMMA TornStays == torn /\ [Next]_vars => torn'
<1> SUFFICES ASSUME torn, [Next]_vars PROVE torn'
  OBVIOUS
<1>1. CASE Submit \/ start \/ StopRequest \/ StopStep \/ UNCHANGED vars
  BY <1>1 DEF Submit, ScheduleCb, ScheduleFiber, Wake, ScheduleEnded, start, StopRequest,
     StopStep, StopFlags, StopTest, RootDone, Join, jobVars, vars
<1>2. ASSUME NEW t \in Threads, RunStep(t) PROVE torn'
  <2>1. CASE RunFiber(t)
    BY <2>1 DEF RunFiber
  <2>2. CASE UNCHANGED torn
    BY <2>2
  <2>3. QED
    BY <1>2, <2>1, <2>2 DEF RunStep, TakeTask, NoTask, DropFinished, RunCb, Arm, YieldToHold,
       YieldToReady, MainFunc, swapOut, Deactivate, SettleFiber, SettleCb, EnterIdle, idle,
       LeaveIdle, ExitRun, jobVars
<1>3. QED  BY <1>1, <1>2 DEF Next, Stopped

\* Every step that tears no fiber keeps JobInv.
LEMMA NextJob ==
  ASSUME JobInv, [Next]_vars, ~torn'
  PROVE  JobInv'
<1>1. CountInv'
  BY NextCount DEF JobInv
<1>2. EmptyOK' /\ StopOK' /\ DrainOK' /\ QueueDistinct'
  BY EmptyStep, StopOKStep, DrainStep, DistinctStep
<1>3. \A t \in Threads : ThreadOK(t)' /\ AwaitedAt(t)'
  BY ThreadStep, AwaitedStep
<1>4. \A j \in Jobs : PlaceAt(j)'
  BY PlaceStep
<1>5. \A f \in Fibers : FiberOK(f)' /\ Reached(f)'
  BY FiberStep, LostStep
<1>6. QED  BY <1>1, <1>2, <1>3, <1>4, <1>5 DEF JobInv

\* JobInv counts carriers: one for a job that has to run, none for one that has.
LEMMA HeldOnce == JobInv => JobHeldOnce
<1> SUFFICES ASSUME JobInv, NEW j \in issued
             PROVE  Cardinality(Carriers(j)) = (IF j \in done THEN 0 ELSE 1)
  BY DEF JobHeldOnce
<1> DEFINE Q == {<<"queue", i>> : i \in {k \in DOMAIN m_fibers : m_fibers[k].cb = j}}
           R == {<<"thread", t>> : t \in {u \in Threads : ft[u].cb = j}}
           F == {<<"fiber", f>> : f \in {g \in Fibers : m_cb[g] = j /\ ~Finished(g)}}
<1>1. j \in Jobs /\ PlaceAt(j)
  BY DEF JobInv, CountInv, TypeOK
<1>2. /\ ~InQueue(j) => Q = {}
      /\ ~InThread(j) => R = {}
      /\ ~InFiber(j) => F = {}
  BY DEF InQueue, InThread, InFiber, Bears
<1>3. ASSUME InQueue(j) PROVE \E x : Q = {x}
  <2>1. PICK i \in DOMAIN m_fibers : m_fibers[i].cb = j
    BY <1>3 DEF InQueue
  <2>2. {k \in DOMAIN m_fibers : m_fibers[k].cb = j} = {i}
    BY <1>1, <2>1 DEF PlaceAt, QueueOnce
  <2>3. Q = {<<"queue", i>>}
    BY <2>2
  <2>4. QED  BY <2>3
<1>4. ASSUME InThread(j) PROVE \E x : R = {x}
  <2>1. PICK t \in Threads : ft[t].cb = j
    BY <1>4 DEF InThread
  <2>2. {k \in Threads : ft[k].cb = j} = {t}
    BY <1>1, <2>1 DEF PlaceAt, ThreadOnce
  <2>3. R = {<<"thread", t>>}
    BY <2>2
  <2>4. QED  BY <2>3
<1>5. InFiber(j) => \E x : F = {x}
  BY <1>1 DEF PlaceAt, FiberOnce, InFiber, Bears
<1>6. Carriers(j) = Q \cup R \cup F
  BY DEF Carriers
<1> HIDE DEF Q, R, F
<1>7. CASE j \in done
  <2>1. Carriers(j) = {}
    BY <1>1, <1>2, <1>6, <1>7 DEF PlaceAt
  <2>2. QED  BY <1>7, <2>1, FS_EmptySet
<1>8. CASE j \notin done
  <2>1. \E x : Carriers(j) = {x}
    BY <1>1, <1>2, <1>3, <1>4, <1>5, <1>6, <1>8 DEF PlaceAt
  <2>2. QED  BY <1>8, <2>1, FS_Singleton
<1>9. QED  BY <1>7, <1>8

\* stopping() has held for the thread: its idle fiber has ended, or stop() has not
\* let it into run().
Saw(t) == idleTerm[t] = TRUE \/ (t = Caller /\ mpc \in {"join", "down"} /\ pc[t] = "off")

\* Nothing can come back: no task, no waiting fiber, no thread with one.
Quiet ==
    /\ m_fibers = <<>> /\ armed = {} /\ mpc \notin {"new", "up"}
    /\ \A t \in Threads : pc[t] \notin Busy \cup {"settle"}

\* A thread that saw stopping() hold while nothing was pending leaves a pool that
\* has come to rest, and only threads that saw it leave.
EarlyOK ==
    /\ \A t \in Threads : pc[t] = "exit" => idleTerm[t] = TRUE
    /\ (\E t \in Threads \ early : Saw(t)) => Quiet

\* With stopping(), an exact count and nothing pending the pool is at rest.
LEMMA CalmQuiet ==
  ASSUME JobInv, stopping, ~Pending, mpc \notin {"new", "up"}
  PROVE  Quiet
<1> DEFINE B == {t \in Threads : pc[t] \in Busy}
<1>1. IsFiniteSet(B)
  BY ThreadsFinite, FS_Subset
<1>2. Cardinality(B) = 0
  BY DEF JobInv, CountInv, ActiveCountExact, stopping
<1>3. B = {}
  BY <1>1, <1>2, FS_EmptySet
<1>4. QED  BY <1>3 DEF Quiet, Pending, stopping

\* Only idle() ends an idle fiber or notes that it was early.
LEMMA SeesInIdle ==
  ASSUME NEW t \in Threads, RunStep(t), ~idle(t)
  PROVE  UNCHANGED <<idleTerm, early>>
<1> USE DEF stopVars, localVars
<1>1. CASE TakeTask(t) \/ NoTask(t) \/ RunFiber(t) \/ DropFinished(t) \/ RunCb(t)
  BY <1>1 DEF TakeTask, NoTask, RunFiber, DropFinished, RunCb
<1>2. CASE Arm(t) \/ YieldToHold(t) \/ YieldToReady(t) \/ MainFunc(t) \/ swapOut(t)
  BY <1>2 DEF Arm, YieldToHold, YieldToReady, MainFunc, swapOut
<1>3. CASE Deactivate(t) \/ SettleFiber(t) \/ SettleCb(t)
  BY <1>3 DEF Deactivate, SettleFiber, SettleCb
<1>4. CASE EnterIdle(t) \/ LeaveIdle(t) \/ ExitRun(t)
  BY <1>4 DEF EnterIdle, LeaveIdle, ExitRun
<1>5. QED  BY <1>1, <1>2, <1>3, <1>4 DEF RunStep

\* A pool at rest takes no task, and no thread leaves user code.
LEMMA RunQuiet ==
  ASSUME JobInv, Quiet, NEW t \in Threads, RunStep(t)
  PROVE  Quiet'
<1>1. DomOK
  BY JobTypes
<1>2. ~TakeTask(t)
  BY DEF Quiet, TakeTask
<1>3. pc[t] \notin {"dispatch", "user", "armed", "swapOut", "swapped", "settle"}
  BY DEF Quiet, Busy
<1>4. NoTask(t) \/ EnterIdle(t) \/ idle(t) \/ LeaveIdle(t) \/ ExitRun(t)
  BY <1>2, <1>3 DEF RunStep, RunFiber, DropFinished, RunCb, Arm, YieldToHold, YieldToReady,
     MainFunc, swapOut, Deactivate, SettleFiber, SettleCb
<1>5. /\ UNCHANGED <<m_fibers, armed, mpc>>
      /\ \E l \in {"noTask", "idle", "idleOut", "scan", "exit"} : goto(t, l)
  BY <1>4 DEF NoTask, EnterIdle, idle, LeaveIdle, ExitRun, fiberVars, stopVars
<1>6. \A u \in Threads : pc'[u] = pc[u] \/ pc'[u] \in {"noTask", "idle", "idleOut", "scan", "exit"}
  BY <1>1, <1>5 DEF goto, DomOK
<1>7. QED  BY <1>5, <1>6 DEF Quiet, Busy

\* Every step keeps EarlyOK.
LEMMA EarlyStep ==
  ASSUME JobInv, EarlyOK, [Next]_vars
  PROVE  EarlyOK'
<1>1. DomOK /\ StopOK /\ StartOK
  BY JobTypes DEF JobInv, CountInv
<1>2. CASE Submit
  <2>1. UNCHANGED <<pc, idleTerm, mpc, early>>
    BY <1>2, SubmitWrites DEF Submit, ScheduleCb, ScheduleFiber, Wake, ScheduleEnded, stopVars
  <2>2. ~Quiet
    BY <1>2 DEF Submit, ScheduleCb, ScheduleFiber, Wake, ScheduleEnded, UserRuns, Quiet,
       Busy
  <2>3. QED  BY <2>1, <2>2 DEF EarlyOK, Saw
<1>3. ASSUME NEW t \in Threads, RunStep(t) PROVE EarlyOK'
  <2>1. MovesOn(t) /\ \A u \in Threads \ {t} : pc'[u] = pc[u] /\ idleTerm'[u] = idleTerm[u]
    BY <1>3, RunPoint, RunLocals DEF OthersStay
  <2>2. \A u \in Threads \ {t} : Saw(u)' => Saw(u)
    BY <2>1 DEF MovesOn, Saw
  <2>3. CASE ~idle(t)
    <3>1. UNCHANGED <<idleTerm, early>>
      BY <1>3, <2>3, SeesInIdle
    <3>2. Saw(t)' => Saw(t)
      BY <2>1, <3>1 DEF MovesOn, Saw
    <3>3. (\E u \in Threads \ early : Saw(u))' => Quiet'
      BY <1>3, <2>2, <3>1, <3>2, RunQuiet DEF EarlyOK
    <3>4. QED  BY <2>1, <3>1, <3>3 DEF EarlyOK, MovesOn
  <2>4. CASE idle(t)
    <3>1. pc[t] = "idle" /\ pc'[t] = "idleOut" /\ mpc # "new"
      BY <1>1, <2>4 DEF idle, goto, DomOK, StartOK
    <3>2. early \subseteq early' /\ (stopping /\ Pending => t \in early')
      BY <2>4 DEF idle, NoteEarly
    <3>3. idleTerm'[t] = TRUE => stopping
      BY <1>1, <2>4 DEF idle, DomOK
    <3>4. Saw(t)' => stopping
      BY <3>1, <3>3 DEF Saw
    <3>5. stopping => mpc \notin {"new", "up"}
      BY <1>1, <3>1 DEF StopOK, stopping
    <3>6. ASSUME NEW u \in Threads \ early', Saw(u)' PROVE Quiet
      <4>1. CASE u = t
        BY <3>2, <3>4, <3>5, <3>6, <4>1, CalmQuiet
      <4>2. CASE u # t
        BY <2>2, <3>2, <3>6, <4>2 DEF EarlyOK
      <4>3. QED  BY <4>1, <4>2
    <3>7. (\E u \in Threads \ early : Saw(u))' => Quiet'
      BY <1>3, <3>6, RunQuiet
    <3>8. QED  BY <2>1, <3>1, <3>7 DEF EarlyOK
  <2>5. QED  BY <2>3, <2>4
<1>4. CASE start
  <2>1. /\ mpc = "new" /\ mpc' = "up" /\ UNCHANGED <<idleTerm, early>>
        /\ \A t \in Threads : pc'[t] # "exit"
    BY <1>4 DEF start, localVars
  <2>2. \A t \in Threads : Saw(t)' => Saw(t)
    BY <2>1 DEF Saw
  <2>3. QED  BY <2>1, <2>2 DEF EarlyOK, Quiet
<1>5. CASE StopRequest \/ StopFlags \/ RootDone \/ Join \/ UNCHANGED vars
  <2>1. UNCHANGED <<pc, idleTerm, m_fibers, armed, early>>
    BY <1>5 DEF StopRequest, StopFlags, RootDone, Join, vars, localVars, fiberVars
  <2>2. \A t \in Threads : Saw(t)' => Saw(t)
    BY <1>5, <2>1 DEF StopRequest, StopFlags, RootDone, Join, vars, Saw
  <2>3. Quiet => Quiet'
    BY <1>5, <2>1 DEF StopRequest, StopFlags, RootDone, Join, vars, Quiet
  <2>4. QED  BY <2>1, <2>2, <2>3 DEF EarlyOK
<1>6. CASE StopTest
  <2>1. /\ UNCHANGED <<idleTerm, m_fibers, armed>> /\ early \subseteq early'
        /\ mpc = "stopTest" /\ mpc' \in {"root", "join", "down"}
    BY <1>6 DEF StopTest, NoteEarly, localVars, fiberVars
  <2>2. \A t \in Threads : pc'[t] = pc[t] \/ pc'[t] = "scan"
    BY <1>1, <1>6 DEF StopTest, goto, DomOK
  <2>3. Quiet => Quiet'
    BY <2>1, <2>2 DEF Quiet, Busy
  <2>4. ASSUME NEW t \in Threads \ early', Saw(t)' PROVE Quiet
    <3>1. CASE idleTerm[t] = TRUE
      BY <2>1, <3>1 DEF EarlyOK, Saw
    <3>2. CASE idleTerm[t] # TRUE
      <4>1. t = Caller /\ mpc' \in {"join", "down"} /\ UseCaller
        BY <2>1, <2>4, <3>2, ThreadsAssumption DEF Saw, Threads
      <4>2. stopping /\ NoteEarly(t)
        BY <1>6, <4>1 DEF StopTest
      <4>3. stopping /\ ~Pending
        BY <2>4, <4>2 DEF NoteEarly
      <4>4. QED  BY <2>1, <4>3, CalmQuiet
    <3>3. QED  BY <3>1, <3>2
  <2>5. QED  BY <2>1, <2>2, <2>3, <2>4 DEF EarlyOK
<1>7. QED
  BY <1>2, <1>3, <1>4, <1>5, <1>6 DEF Next, Stopped, StopStep

\* What stop() leaves behind, in a state in which no fiber has been torn.
LEMMA StopLeaves ==
  ASSUME JobInv, EarlyOK, mpc = "down"
  PROVE  /\ \A i \in DOMAIN m_fibers : m_fibers[i].thread \in early
         /\ \A t \in Threads : pc[t] \in {"off", "exit"}
         /\ \A j \in issued : j \in done \/ JobParked(j) \/ Stranded(j)
<1>1. DomOK
  BY JobTypes
<1>2. \A t \in Threads : pc[t] \in {"off", "exit"}
  BY ThreadsAssumption DEF JobInv, StopOK, Threads
<1>3. \A i \in DOMAIN m_fibers : m_fibers[i].thread # AnyThread
  BY <1>2 DEF JobInv, DrainOK, Leaves
<1>4. ASSUME NEW j \in issued, j \notin done PROVE JobParked(j) \/ Stranded(j)
  <2>1. j \in Jobs /\ (InQueue(j) \/ InThread(j) \/ InFiber(j)) /\ j # NoJob
    BY <1>4, NullAssumption DEF JobInv, PlaceAt, CountInv, TypeOK
  <2>2. ~InThread(j)
    BY <1>2, <2>1 DEF JobInv, ThreadOK, TaskAt, InThread
  <2>3. CASE InQueue(j)
    BY <1>3, <2>3 DEF InQueue, Stranded
  <2>4. ASSUME NEW f \in Fibers, Bears(f, j) PROVE JobParked(j) \/ Stranded(j)
    <3>1. m_cb[f] = j /\ ~Finished(f) /\ m_state[f] # "NONE"
      BY <2>1, <2>4 DEF Bears, JobInv, EmptyOK
    <3>2. \A t \in Threads : ~Owns(t, f)
      <4> SUFFICES ASSUME NEW t \in Threads, Owns(t, f) PROVE FALSE
        OBVIOUS
      <4>1. ThreadOK(t) /\ pc[t] \notin Within \cup {"dispatch"}
        BY <1>2 DEF JobInv, Within, After
      <4>2. cb_fiber[t] = f /\ Keeps(t)
        BY <4>1, NullAssumption DEF Owns, ThreadOK, TaskAt, Keeps
      <4>3. QED  BY <2>1, <3>1, <4>1, <4>2 DEF ThreadOK, KeptAt
    <3>3. CASE Queued(f)
      BY <1>3, <3>1, <3>3, NullAssumption DEF Queued, Stranded
    <3>4. CASE ~Queued(f)
      <4>1. Reached(f)
        BY DEF JobInv
      <4>2. m_state[f] = "HOLD"
        BY <3>1, <3>2, <3>4, <4>1 DEF Reached
      <4>3. QED  BY <3>1, <3>2, <3>4, <4>2 DEF JobParked, Parked
    <3>5. QED  BY <3>3, <3>4
  <2>5. QED  BY <2>1, <2>2, <2>3, <2>4 DEF InFiber
<1>5. ASSUME NEW i \in DOMAIN m_fibers PROVE m_fibers[i].thread \in early
  <2>1. ~Quiet
    BY <1>1, <1>5 DEF Quiet
  <2>2. \A t \in Threads : Saw(t)
    BY <1>2, ThreadsAssumption DEF JobInv, StopOK, EarlyOK, Saw, Threads
  <2>3. Threads \subseteq early
    BY <2>1, <2>2 DEF EarlyOK
  <2>4. m_fibers[i].thread \in Threads
    BY <1>1, <1>3, <1>5 DEF DomOK, FiberAndThread
  <2>5. QED  BY <2>3, <2>4
<1>6. QED  BY <1>2, <1>4, <1>5

-----------------------------------------------------------------------------
(* The theorems *)

\* What holds in every reachable state: all of the above, until a fiber is torn.
SafeInv == ~torn => JobInv /\ EarlyOK

\* SafeInv is an invariant of the scheduler, whenever its wakers come.
LEMMA SafeInvariant == Spec => []SafeInv
<1>1. Init => SafeInv
  <2>1. Init => EarlyOK
    BY DEF Init, EarlyOK, Saw
  <2>2. QED  BY <2>1, InitJob DEF SafeInv
<1>2. SafeInv /\ [Next]_vars => SafeInv'
  <2> SUFFICES ASSUME SafeInv, [Next]_vars, ~torn' PROVE JobInv' /\ EarlyOK'
    BY DEF SafeInv
  <2>1. ~torn
    BY TornStays
  <2>2. JobInv /\ EarlyOK
    BY <2>1 DEF SafeInv
  <2>3. QED  BY <2>2, NextJob, EarlyStep
<1>3. QED  BY <1>1, <1>2, PTL DEF Spec

\* However early wakers come, a fiber has at most one queue entry, one thread that was
\* given it and one thread that is still leaving it, and user code shares its fiber with
\* nobody, until run() switches into a fiber another thread has (scheduler.cc 248-310).
THEOREM HolderCorrect == Spec => []OneHolder
<1>1. SafeInv => OneHolder
  <2> SUFFICES ASSUME SafeInv, ~torn
               PROVE  /\ QueueDistinct
                      /\ \A f \in Fibers : Queued(f) => m_state[f] # "NONE"
                      /\ \A f \in Fibers, t \in Threads : Owns(t, f) =>
                            /\ m_state[f] # "NONE"
                            /\ Queued(f) => Leaving(t) /\ f \notin armed
                            /\ \A u \in Threads \ {t} : Owns(u, f) =>
                                /\ ~Queued(f) /\ f \notin armed
                                /\ \/ pc[t] = "dispatch" /\ Leaving(u)
                                   \/ pc[u] = "dispatch" /\ Leaving(t)
                      /\ \A t \in Threads : ft[t].fiber = cb_fiber[t] => cb_fiber[t] = NoFiber
    BY Zenon DEF OneHolder, QueueDistinct
  <2>1. JobInv
    BY DEF SafeInv
  <2>2. QueueDistinct /\ \A f \in Fibers : FiberOK(f)
    BY <2>1 DEF JobInv
  <2>3. \A f \in Fibers, t \in Threads : Arming(t, f) \/ Parking(t, f) => Leaving(t)
    BY DEF Arming, Parking, Leaving, After
  <2>4. \A f \in Fibers : Queued(f) => m_state[f] # "NONE" /\ f \notin armed
    BY <2>2 DEF FiberOK
  <2>5. ASSUME NEW f \in Fibers, NEW t \in Threads, Owns(t, f)
        PROVE  /\ m_state[f] # "NONE"
               /\ Queued(f) => Leaving(t) /\ f \notin armed
               /\ \A u \in Threads \ {t} : Owns(u, f) =>
                    /\ ~Queued(f) /\ f \notin armed
                    /\ \/ pc[t] = "dispatch" /\ Leaving(u)
                       \/ pc[u] = "dispatch" /\ Leaving(t)
    <3>1. Shares(t, f)
      BY <2>2, <2>5 DEF FiberOK
    <3>2. QED  BY <2>3, <2>4, <3>1 DEF Shares, Dispatched
  <2>6. \A t \in Threads : ft[t].fiber = cb_fiber[t] => cb_fiber[t] = NoFiber
    BY <2>1 DEF JobInv, ThreadOK, KeptAt
  <2>7. QED  BY <2>2, <2>4, <2>5, <2>6
<1>2. QED  BY <1>1, SafeInvariant, PTL

\* A submitted callback is carried by exactly one place of the scheduler until it has
\* run and by none afterwards, and a fiber that has not ended is queued, in a thread's
\* hands, or parked with a waker that can schedule it: run() and reset() lose, repeat and
\* overwrite nothing before a fiber is torn, also when wakers come early.
THEOREM NothingLostCorrect == Spec => []NothingLost
<1>1. SafeInv => NothingLost
  <2>1. JobInv => \A f \in Fibers : Reached(f)
    BY DEF JobInv
  <2>2. (\A f \in Fibers : Reached(f)) => NoFiberLost
    BY Zenon DEF NoFiberLost, Reached
  <2>3. ~torn \/ NothingLost
    BY DEF NothingLost, JobHeldOnce, NoFiberLost
  <2>4. QED  BY <2>1, <2>2, <2>3, HeldOnce DEF NothingLost, SafeInv
<1>2. QED  BY <1>1, SafeInvariant, PTL

\* When stop() returns and no fiber was torn, every thread has left run(), the queue holds
\* only tasks pinned to threads that left early, and every job has ended, waits in a parked
\* fiber, or is in such a task (scheduler.cc 106-200, 262-343, 367-378).
THEOREM StopCorrect == Spec => []QuiescentStop
<1>1. SafeInv => QuiescentStop
  BY StopLeaves DEF SafeInv, QuiescentStop
<1>2. QED  BY <1>1, SafeInvariant, PTL
=============================================================================
