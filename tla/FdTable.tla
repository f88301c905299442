------------------------------ MODULE FdTable -------------------------------
(***************************************************************************)
(* The two tables indexed by descriptor: FdManager::m_datas (fd_manager.cc) *)
(* and IOManager::m_fdContexts (iomanager.cc).  Both are read under a read  *)
(* lock, which is given up before the write lock that grows them is taken.  *)
(* A descriptor number is reused as soon as the kernel has closed it, by    *)
(* whichever thread opens a socket next; threads outside the scheduler are  *)
(* not hooked and bypass FdManager.                                         *)
(***************************************************************************)
EXTENDS Integers

CONSTANTS
    FdUsers,      \* threads
    HookedUsers,  \* those with t_hook_enable
    MaxFd,        \* descriptors are 0 .. MaxFd
    FirstSize,    \* initial size of both tables (64 and 32 in the code)
    MaxFdOps      \* bound on the calls made

ASSUME FdTableAssumption ==
    /\ HookedUsers \subseteq FdUsers
    /\ MaxFd \in Nat /\ MaxFdOps \in Nat
    /\ FirstSize \in Nat /\ FirstSize >= 2

FdRange == 0 .. MaxFd

VARIABLES
    opened,       \* kernel: number of the socket behind fd, 0 if closed
    hookedFd,     \* descriptors opened by a hooked thread
    sockets,      \* kernel: sockets opened so far
    m_datas,      \* FdManager: the socket an FdCtx was built for, 0 if none
    datasSize,
    contexts,     \* IOManager: identity of the FdContext at an index, 0 if none
    contextsSize,
    made,         \* FdContexts built so far
    registered,   \* <<fd, FdContext>> with an event registered
    fdPc, fdArg,  \* where each thread is, its descriptor
    fdPtr,        \* its FdContext pointer
    decided,      \* size addEvent saw under the read lock
    fdOps,
    leaked,       \* history: descriptors closed by an unhooked thread
    staleGrowth,  \* history: a table was grown on an outdated decision
    outOfBounds   \* history: an index past the end was used

fdTableVars == <<opened, hookedFd, sockets, m_datas, datasSize, contexts, contextsSize, made,
                 registered, fdPc, fdArg, fdPtr, decided, fdOps, leaked, staleGrowth,
                 outOfBounds>>

FdInit ==
    /\ opened = [fd \in FdRange |-> 0] /\ hookedFd = {} /\ sockets = 0
    /\ m_datas = [fd \in FdRange |-> 0] /\ datasSize = FirstSize
    /\ contexts = [fd \in FdRange |-> IF fd < FirstSize THEN 1 ELSE 0]
    /\ contextsSize = FirstSize /\ made = 1
    /\ registered = {}
    /\ fdPc = [t \in FdUsers |-> "idle"] /\ fdArg = [t \in FdUsers |-> 0]
    /\ fdPtr = [t \in FdUsers |-> 0] /\ decided = [t \in FdUsers |-> 0]
    /\ fdOps = 0 /\ leaked = {} /\ staleGrowth = FALSE /\ outOfBounds = FALSE

fdGoto(t, l) == fdPc' = [fdPc EXCEPT ![t] = l]

FdCall(t, fd) ==
    /\ fdPc[t] = "idle" /\ fdOps < MaxFdOps
    /\ fdOps' = fdOps + 1
    /\ fdArg' = [fdArg EXCEPT ![t] = fd]

InUse(fd) == \E t \in FdUsers : fdPc[t] # "idle" /\ fdArg[t] = fd

-----------------------------------------------------------------------------
(* FdManager                                                                *)

\* socket() and accept() return any free descriptor; get(fd, true) follows on
\* a hooked thread.
OpenSocket(t, fd) ==
    /\ FdCall(t, fd)
    /\ opened[fd] = 0
    /\ opened' = [opened EXCEPT ![fd] = sockets + 1]
    /\ sockets' = sockets + 1
    /\ hookedFd' = IF t \in HookedUsers THEN hookedFd \cup {fd} ELSE hookedFd \ {fd}
    /\ fdGoto(t, IF t \in HookedUsers THEN "get" ELSE "idle")
    /\ UNCHANGED <<m_datas, datasSize, contexts, contextsSize, made, registered, fdPtr, decided,
                   leaked, staleGrowth, outOfBounds>>

\* FdManager::get under the read lock: an FdCtx that is there is returned.
GetRead(t) ==
    LET fd == fdArg[t] IN
    /\ fdPc[t] = "get"
    /\ fdGoto(t, IF fd < datasSize /\ m_datas[fd] # 0 THEN "idle" ELSE "create")
    /\ UNCHANGED <<opened, hookedFd, sockets, m_datas, datasSize, contexts, contextsSize, made,
                   registered, fdArg, fdPtr, decided, fdOps, leaked, staleGrowth, outOfBounds>>

\* resize(fd * 1.5)
GrownSize(fd) == (3 * fd) \div 2

\* FdManager::get under the write lock.
GetCreate(t) ==
    LET fd == fdArg[t]
        size == IF fd >= datasSize THEN GrownSize(fd) ELSE datasSize
    IN
    /\ fdPc[t] = "create"
    /\ datasSize' = size
    /\ m_datas' = [m_datas EXCEPT ![fd] = opened[fd]]
    /\ outOfBounds' = (outOfBounds \/ fd >= size)
    /\ fdGoto(t, "idle")
    /\ UNCHANGED <<opened, hookedFd, sockets, contexts, contextsSize, made, registered, fdArg,
                   fdPtr, decided, fdOps, leaked, staleGrowth>>

\* Mutant: the descriptor is closed first, and forgotten after.
KernelFirst(hooked) == IF hooked THEN <<"close_f", "del">> ELSE <<"close_f">>

\* close(): FdMgr::del before close_f, after the cancelAll that module HookIo has;
\* an unhooked thread only closes.
CloseSteps(hooked) == IF hooked THEN <<"del", "close_f">> ELSE <<"close_f">>

\* The program closes a descriptor when no other call on it is under way.
CloseBegin(t, fd) ==
    /\ FdCall(t, fd)
    /\ opened[fd] # 0 /\ ~InUse(fd)
    /\ leaked' = IF t \in HookedUsers THEN leaked ELSE leaked \cup {fd}
    /\ fdGoto(t, CloseSteps(t \in HookedUsers)[1])
    /\ UNCHANGED <<opened, hookedFd, sockets, m_datas, datasSize, contexts, contextsSize, made,
                   registered, fdPtr, decided, staleGrowth, outOfBounds>>

CloseThen(t, l) ==
    LET s == CloseSteps(t \in HookedUsers) IN
    fdGoto(t, IF \E i \in DOMAIN s : i > 1 /\ s[i - 1] = l
              THEN s[CHOOSE i \in DOMAIN s : i > 1 /\ s[i - 1] = l] ELSE "idle")

CloseDel(t) ==
    /\ fdPc[t] = "del"
    /\ m_datas' = [m_datas EXCEPT ![fdArg[t]] = 0]
    /\ CloseThen(t, "del")
    /\ UNCHANGED <<opened, hookedFd, sockets, datasSize, contexts, contextsSize, made,
                   registered, fdArg, fdPtr, decided, fdOps, leaked, staleGrowth, outOfBounds>>

CloseKernel(t) ==
    /\ fdPc[t] = "close_f"
    /\ opened' = [opened EXCEPT ![fdArg[t]] = 0]
    /\ CloseThen(t, "close_f")
    /\ UNCHANGED <<hookedFd, sockets, m_datas, datasSize, contexts, contextsSize, made,
                   registered, fdArg, fdPtr, decided, fdOps, leaked, staleGrowth, outOfBounds>>

-----------------------------------------------------------------------------
(* IOManager::m_fdContexts                                                   *)

\* addEvent under the read lock.
ContextRead(t, fd) ==
    /\ FdCall(t, fd)
    /\ opened[fd] # 0 /\ ~InUse(fd)
    /\ decided' = [decided EXCEPT ![t] = contextsSize]
    /\ IF fd < contextsSize
       THEN fdPtr' = [fdPtr EXCEPT ![t] = contexts[fd]] /\ fdGoto(t, "register")
       ELSE fdGoto(t, "resize") /\ UNCHANGED fdPtr
    /\ UNCHANGED <<opened, hookedFd, sockets, m_datas, datasSize, contexts, contextsSize, made,
                   registered, leaked, staleGrowth, outOfBounds>>

\* vector::resize, then a new FdContext wherever there is none.
Resized(size) ==
    [i \in FdRange |-> IF i >= size THEN 0
                       ELSE IF i < contextsSize THEN contexts[i] ELSE made + 1]

\* addEvent under the write lock: contextResize(fd * 1.5), whatever the size is now.
contextResize(t) ==
    LET fd == fdArg[t]  size == GrownSize(fd)  table == Resized(size) IN
    /\ fdPc[t] = "resize"
    /\ contextsSize' = size
    /\ contexts' = table
    /\ made' = made + 1
    /\ fdPtr' = [fdPtr EXCEPT ![t] = table[fd]]
    /\ outOfBounds' = (outOfBounds \/ fd >= size)
    /\ staleGrowth' = (staleGrowth \/ contextsSize # decided[t])
    /\ fdGoto(t, "register")
    /\ UNCHANGED <<opened, hookedFd, sockets, m_datas, datasSize, registered, fdArg, decided,
                   fdOps, leaked>>

\* The rest of addEvent, on the FdContext it has a pointer to.
RegisterEvent(t) ==
    /\ fdPc[t] = "register"
    /\ registered' = registered \cup {<<fdArg[t], fdPtr[t]>>}
    /\ fdGoto(t, "idle")
    /\ UNCHANGED <<opened, hookedFd, sockets, m_datas, datasSize, contexts, contextsSize, made,
                   fdArg, fdPtr, decided, fdOps, leaked, staleGrowth, outOfBounds>>

\* cancelEvent, cancelAll and delEvent look the FdContext up by index.
CancelEvents(t, fd) ==
    /\ FdCall(t, fd)
    /\ fd < contextsSize /\ <<fd, contexts[fd]>> \in registered
    /\ registered' = registered \ {<<fd, contexts[fd]>>}
    /\ UNCHANGED <<opened, hookedFd, sockets, m_datas, datasSize, contexts, contextsSize, made,
                   fdPc, fdPtr, decided, leaked, staleGrowth, outOfBounds>>

FdNext ==
    \E t \in FdUsers :
        \/ \E fd \in FdRange : OpenSocket(t, fd) \/ CloseBegin(t, fd) \/ ContextRead(t, fd)
                               \/ CancelEvents(t, fd)
        \/ GetRead(t) \/ GetCreate(t) \/ CloseDel(t) \/ CloseKernel(t) \/ contextResize(t)
        \/ RegisterEvent(t)

-----------------------------------------------------------------------------
(* Properties                                                               *)

\* Once socket() has returned on a hooked thread, FdManager has the FdCtx that
\* was built for this socket and none of an earlier one with its number,
\* however opening and closing interleave, unless an unhooked thread closed
\* the number before (hook.cc 295-310, 488-506; fd_manager.cc 101-147).
ContextIsCurrent ==
    \A fd \in hookedFd \ leaked :
        opened[fd] # 0 /\ ~InUse(fd) => m_datas[fd] = opened[fd]

\* Neither table is indexed past its end, by whatever thread and on whatever
\* decision it was grown (fd_manager.cc 128-133, iomanager.cc 148-149).
NoOutOfBounds == ~outOfBounds

\* A registered FdContext stays the one its index leads to, so that cancelEvent
\* and close() find it, unless a thread resized on an outdated size
\* (iomanager.cc 136-150).
RegisteredInTable ==
    ~staleGrowth => \A r \in registered : r[1] < contextsSize /\ contexts[r[1]] = r[2]

\* Both tables lead from a descriptor to what was made for it.
FdTablesConsistent == ContextIsCurrent /\ NoOutOfBounds /\ RegisteredInTable
=============================================================================
