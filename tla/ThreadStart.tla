---------------------------- MODULE ThreadStart -----------------------------
(***************************************************************************)
(* Creation, start-up and end of a Thread: sylar/thread.{h,cc}.              *)
(*                                                                         *)
(* The constructor hands `this` to pthread_create and waits on m_semaphore; *)
(* run() fills the object in, swaps the callback out and notifies.  From     *)
(* then on the creator may join, or drop the object, which detaches the      *)
(* thread.  A mutex guard (ScopedLockImpl) protects what callbacks share.    *)
(***************************************************************************)
EXTENDS Integers, FiniteSets

CONSTANTS
    Creators      \* threads, each of which creates one Thread

VARIABLES
    creatorPc,    \* new, waiting, built, joining, gone
    runPc,        \* the new thread in run()
    m_semaphore,
    m_id,         \* the object's m_id is set
    m_cbFull,     \* the object's m_cb still holds the callback
    localCb,      \* run()'s local cb holds it
    joined,       \* pthread_join succeeded: m_thread = 0
    runs,         \* how often the callback ran
    guard,        \* ScopedLockImpl of the callback: m_locked
    lockedBy,     \* kernel mutex: who holds it
    freedUse,     \* history: run() touched a Thread that was destroyed
    badUnlock     \* history: a mutex was unlocked that its guard did not hold

threadVars == <<creatorPc, runPc, m_semaphore, m_id, m_cbFull, localCb, joined, runs, guard,
                lockedBy, freedUse, badUnlock>>

ThreadInit ==
    /\ creatorPc = [c \in Creators |-> "new"]
    /\ runPc = [c \in Creators |-> "none"]
    /\ m_semaphore = [c \in Creators |-> 0]
    /\ m_id = [c \in Creators |-> FALSE]
    /\ m_cbFull = [c \in Creators |-> TRUE]
    /\ localCb = [c \in Creators |-> FALSE]
    /\ joined = [c \in Creators |-> FALSE]
    /\ runs = [c \in Creators |-> 0]
    /\ guard = [c \in Creators |-> FALSE]
    /\ lockedBy = {}
    /\ freedUse = FALSE /\ badUnlock = FALSE

lockVars == <<guard, lockedBy, badUnlock>>

\* The constructor up to pthread_create; a failure of it throws and nothing starts.
CreateThread(c) ==
    /\ creatorPc[c] = "new"
    /\ \/ creatorPc' = [creatorPc EXCEPT ![c] = "waiting"] /\ runPc' = [runPc EXCEPT ![c] = "enter"]
       \/ creatorPc' = [creatorPc EXCEPT ![c] = "gone"] /\ UNCHANGED runPc
    /\ UNCHANGED <<m_semaphore, m_id, m_cbFull, localCb, joined, runs, lockVars, freedUse>>

\* m_semaphore.wait(), the end of the constructor.
ConstructorReturns(c) ==
    /\ creatorPc[c] = "waiting" /\ m_semaphore[c] > 0
    /\ m_semaphore' = [m_semaphore EXCEPT ![c] = @ - 1]
    /\ creatorPc' = [creatorPc EXCEPT ![c] = "built"]
    /\ UNCHANGED <<runPc, m_id, m_cbFull, localCb, joined, runs, lockVars, freedUse>>

\* join() blocks until run() has returned.
JoinThread(c) ==
    /\ creatorPc[c] = "built" /\ ~joined[c] /\ runPc[c] = "ended"
    /\ joined' = [joined EXCEPT ![c] = TRUE]
    /\ UNCHANGED <<creatorPc, runPc, m_semaphore, m_id, m_cbFull, localCb, runs, lockVars, freedUse>>

\* The destructor detaches a thread that was not joined.
DestroyThread(c) ==
    /\ creatorPc[c] = "built"
    /\ creatorPc' = [creatorPc EXCEPT ![c] = "gone"]
    /\ UNCHANGED <<runPc, m_semaphore, m_id, m_cbFull, localCb, joined, runs, lockVars, freedUse>>

-----------------------------------------------------------------------------
(* Thread::run                                                              *)

Touch(c) == freedUse' = (freedUse \/ creatorPc[c] = "gone")

\* Mutant: the semaphore is notified before the callback is swapped out.
NotifyFirst == <<"enter", "notify", "swap", "call">>

\* The order of run(): t_thread and m_id, the swap of m_cb, notify, cb().
RunOrder == <<"enter", "swap", "notify", "call">>

RunThen(c, l) ==
    runPc' = [runPc EXCEPT ![c] = RunOrder[1 + CHOOSE i \in 1 .. 3 : RunOrder[i] = l]]

RunEnter(c) ==
    /\ runPc[c] = "enter"
    /\ m_id' = [m_id EXCEPT ![c] = TRUE]
    /\ Touch(c) /\ RunThen(c, "enter")
    /\ UNCHANGED <<creatorPc, m_semaphore, m_cbFull, localCb, joined, runs, lockVars>>

RunSwap(c) ==
    /\ runPc[c] = "swap"
    /\ localCb' = [localCb EXCEPT ![c] = m_cbFull[c]]
    /\ m_cbFull' = [m_cbFull EXCEPT ![c] = localCb[c]]
    /\ Touch(c) /\ RunThen(c, "swap")
    /\ UNCHANGED <<creatorPc, m_semaphore, m_id, joined, runs, lockVars>>

RunNotify(c) ==
    /\ runPc[c] = "notify"
    /\ m_semaphore' = [m_semaphore EXCEPT ![c] = @ + 1]
    /\ Touch(c) /\ RunThen(c, "notify")
    /\ UNCHANGED <<creatorPc, m_id, m_cbFull, localCb, joined, runs, lockVars>>

\* cb() starts and takes a ScopedLockImpl on a shared mutex.
RunCall(c) ==
    /\ runPc[c] = "call" /\ localCb[c]
    /\ lockedBy = {}
    /\ lockedBy' = {c} /\ guard' = [guard EXCEPT ![c] = TRUE]
    /\ runs' = [runs EXCEPT ![c] = @ + 1]
    /\ runPc' = [runPc EXCEPT ![c] = "guarded"]
    /\ UNCHANGED <<creatorPc, m_semaphore, m_id, m_cbFull, localCb, joined, freedUse, badUnlock>>

\* ScopedLockImpl::unlock: once, whether called or by the destructor.
GuardUnlock(c) ==
    /\ lockedBy' = IF guard[c] THEN {} ELSE lockedBy
    /\ guard' = [guard EXCEPT ![c] = FALSE]
    /\ badUnlock' = (badUnlock \/ (guard[c] /\ c \notin lockedBy))

\* The callback may unlock early, and lock again.
EarlyUnlock(c) ==
    /\ runPc[c] = "guarded" /\ guard[c]
    /\ GuardUnlock(c)
    /\ UNCHANGED <<creatorPc, runPc, m_semaphore, m_id, m_cbFull, localCb, joined, runs, freedUse>>

LockAgain(c) ==
    /\ runPc[c] = "guarded" /\ ~guard[c]
    /\ lockedBy = {}
    /\ lockedBy' = {c} /\ guard' = [guard EXCEPT ![c] = TRUE]
    /\ UNCHANGED <<creatorPc, runPc, m_semaphore, m_id, m_cbFull, localCb, joined, runs, freedUse,
                   badUnlock>>

\* The guard's destructor, and the end of run().
RunReturns(c) ==
    /\ runPc[c] = "guarded"
    /\ GuardUnlock(c)
    /\ runPc' = [runPc EXCEPT ![c] = "ended"]
    /\ UNCHANGED <<creatorPc, m_semaphore, m_id, m_cbFull, localCb, joined, runs, freedUse>>

ThreadNext ==
    \E c \in Creators :
        \/ CreateThread(c) \/ ConstructorReturns(c) \/ JoinThread(c) \/ DestroyThread(c)
        \/ RunEnter(c) \/ RunSwap(c) \/ RunNotify(c) \/ RunCall(c) \/ EarlyUnlock(c) \/ LockAgain(c)
        \/ RunReturns(c)

-----------------------------------------------------------------------------
(* Properties                                                               *)

\* run() never touches the Thread object after its creator destroyed it, though
\* the creator may drop it as soon as the constructor has returned; and when it
\* returns, the id is known and the callback is out of the object
\* (thread.cc 76-97, 108-137; the scheduler reads getId() then).
StartHandshake ==
    /\ ~freedUse
    /\ \A c \in Creators : creatorPc[c] = "built" => m_id[c] /\ ~m_cbFull[c]

\* A guard unlocks only what it holds: of an early unlock() and the destructor
\* one is without effect, so no thread's lock is taken from it
\* (thread.h 42-81).
GuardsBalanced ==
    /\ ~badUnlock /\ Cardinality(lockedBy) <= 1
    /\ \A c \in Creators : guard[c] <=> c \in lockedBy

\* The handshake of a new thread, and the guards it uses.
ThreadsConsistent == StartHandshake /\ GuardsBalanced
=============================================================================
