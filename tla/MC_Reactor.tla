----------------------------- MODULE MC_Reactor -----------------------------
(* The reactor and its timers, for TLC.  The two share no state here (IOManager *)
(* has an abstraction of the timers), so a behaviour exercises one of them.     *)
EXTENDS IOManager, TimerManager, TLC

VARIABLE part

reactorVars == <<part, vars, timerMgrVars>>

\* While the timers are exercised, the pool has nothing to do.
ReactorInit ==
    /\ TimerInit
    /\ \/ part = "io" /\ Init
       \/ part = "timer" /\ Started({})

InPart(p, A) == part = p /\ A /\ UNCHANGED part

ReactorNext ==
    \/ InPart("io", Next) /\ UNCHANGED timerMgrVars
    \/ InPart("timer", TimerNext) /\ UNCHANGED vars

ReactorSpec == ReactorInit /\ [][ReactorNext]_reactorVars

\* The fairness of FairSpec and TimerFairSpec, of the part that runs.
ReactorFairSpec ==
    /\ ReactorSpec
    /\ \A t \in Threads : WF_reactorVars(InPart("io", ThreadStep(t)) /\ UNCHANGED timerMgrVars)
    /\ WF_reactorVars(InPart("io", ~crashed /\ TickleOutside) /\ UNCHANGED timerMgrVars)
    /\ \A w \in Tasks :
        WF_reactorVars(InPart("io", ~crashed /\ TimerDue(w)) /\ UNCHANGED timerMgrVars)
    /\ WF_reactorVars(InPart("timer", ClockStep) /\ UNCHANGED vars)
    /\ WF_reactorVars(InPart("timer", AddStep) /\ UNCHANGED vars)
    /\ \A p \in Pollers : WF_reactorVars(InPart("timer", PollStep(p)) /\ UNCHANGED vars)

Symmetry ==
    Permutations(Threads) \cup Permutations(Tasks) \cup Permutations(Pollers)
        \cup Permutations(Timers)
=============================================================================
