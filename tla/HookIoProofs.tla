------------------------------ MODULE HookIoProofs ------------------------------
(***************************************************************************)
(* Proofs about HookIo, for every set of fibers and descriptors and every     *)
(* bound on the calls.                                                       *)
(*                                                                         *)
(* HookInv is the inductive invariant.  The wait of a call leaves a           *)
(* registration, a timer and a place in the run queue behind; WaitOK, SleepOK *)
(* and TimerOK say which of them can exist for the state the call is in.       *)
(* ConnOK follows a connection under a connect(): its state goes back only     *)
(* through a close() that the history `closed` records.                       *)
(***************************************************************************)
EXTENDS HookIo, TLAPS

PcStates == {"user", "try", "plain", "blocked", "arm", "add", "parked", "check", "so_error",
             "cancelAll", "del", "close_f"}
SockStates == {"closed", "fresh", "connecting", "connected", "refused"}
Kinds == {"none", "recv", "connect", "sleep", "close"}
TimerRecords == [f : Fibers, id : 1 .. MaxOps, fd : Fds, ev : Event \cup {"SLEEP"},
                 st : {"armed", "handed", "marked"}]
Infos == Fibers \X (1 .. MaxOps)

KernelType ==
    /\ sock \in [Fds -> SockStates] /\ inbox \in [Fds -> 0 .. MaxData]
    /\ nonblock \in [Fds -> BOOLEAN]
    /\ fdctx \in [Fds -> [user : BOOLEAN, timed : BOOLEAN, there : BOOLEAN]]

EventType ==
    /\ reg \in [Fds -> [Event -> Fibers \cup {NoFiber}]]
    /\ inEpoll \subseteq Fds /\ woken \subseteq Fibers

CallType ==
    /\ pc \in [Fibers -> PcStates]
    /\ call \in [Fibers -> [kind : Kinds, fd : Fds, ev : Event, to : BOOLEAN]]
    /\ id \in [Fibers -> Nat] /\ ops \in 0 .. MaxOps
    /\ DOMAIN ret = Fibers /\ crashed \in BOOLEAN

HistoryType ==
    /\ timers \subseteq TimerRecords
    /\ cancelled \subseteq Infos /\ expired \subseteq Infos /\ missed \subseteq Infos
    /\ closed \subseteq Infos /\ stray \subseteq Infos

\* Calls are numbered from one, and none is made without using up an operation.
IdOK == \A f \in Fibers : id[f] <= ops /\ (InCall(f) => id[f] >= 1)

\* The step a call is in tells its kind, and the kind its event.
KindOK ==
    \A f \in Fibers :
        /\ call[f].kind = "recv" => call[f].ev = "READ"
        /\ call[f].kind = "connect" => call[f].ev = "WRITE"
        /\ pc[f] \in {"try", "plain", "blocked"} => call[f].kind = "recv"
        /\ pc[f] \in {"arm", "add", "check"} => call[f].kind \in {"recv", "connect"}
        /\ pc[f] = "so_error" => call[f].kind = "connect"
        /\ pc[f] = "parked" => call[f].kind \in {"recv", "connect", "sleep"}
        /\ pc[f] \in {"cancelAll", "del", "close_f"} => call[f].kind = "close"

\* Who is registered waits for that event in recv or connect and is not queued.
WaitOK ==
    /\ \A fd \in Fds, e \in Event : reg[fd][e] # NoFiber =>
          /\ pc[reg[fd][e]] = "parked" /\ call[reg[fd][e]].fd = fd /\ call[reg[fd][e]].ev = e
          /\ reg[fd][e] \notin woken /\ call[reg[fd][e]].kind # "sleep"
    /\ \A f \in woken : pc[f] = "parked"

\* The timer of a sleep is the only thing that wakes it, and there is one.
SleepOK ==
    /\ \A tm \in timers : tm.ev = "SLEEP" =>
          /\ tm.st # "marked" /\ tm.id = id[tm.f] /\ pc[tm.f] = "parked"
          /\ call[tm.f].kind = "sleep" /\ tm.f \notin woken
    /\ \A tm, tn \in timers : tm.ev = "SLEEP" /\ tn.ev = "SLEEP" /\ tm.f = tn.f => tm = tn

\* A timer is of the present call or an older one; once handed out it has
\* expired, and once it has marked a call the call knows.
TimerOK ==
    /\ \A tm \in timers :
          /\ tm.id <= id[tm.f]
          /\ tm.st # "armed" /\ tm.id = id[tm.f] => <<tm.f, tm.id>> \in expired
          /\ tm.st = "marked" /\ tm.id = id[tm.f] => <<tm.f, tm.id>> \in cancelled
    /\ NoTimerLeft
    /\ cancelled \subseteq expired

\* The kernel's flag is off only where it was cleared past FdCtx.
BlockOK ==
    /\ \A fd \in Fds : nonblock[fd] = FALSE => fd \in cleared
    /\ BlocksOnlyIfCleared

Calling(f, k) == InCall(f) /\ call[f].kind = k

\* Under a connect() the socket is neither fresh nor closed, unless another
\* fiber closed it; so two of them are on one descriptor only after a close.
ConnOK ==
    /\ \A f \in Fibers : Calling(f, "connect") /\ tinfo(f) \notin closed =>
          sock[call[f].fd] \in {"connecting", "connected", "refused"}
    /\ \A f, g \in Fibers : Calling(f, "connect") /\ Calling(g, "connect") /\ call[f].fd = call[g].fd =>
          f = g \/ tinfo(f) \in closed \/ tinfo(g) \in closed
    /\ \A f, g \in Fibers : Calling(f, "recv") /\ Calling(g, "recv") /\ call[f].fd = call[g].fd => f = g

\* A connect() that was woken by its own event finds the connection decided.
WokenDecided ==
    \A f \in Fibers : call[f].kind = "connect" /\ tinfo(f) \notin stray \cup closed =>
        /\ f \in woken \/ pc[f] = "check" =>
              sock[call[f].fd] \in {"connected", "refused"} \/ tinfo(f) \in cancelled
        /\ pc[f] = "so_error" => sock[call[f].fd] \in {"connected", "refused"}

HookType == KernelType /\ EventType /\ CallType /\ HistoryType /\ IdOK
HookInv ==
    /\ HookType /\ KindOK /\ WaitOK /\ SleepOK /\ TimerOK /\ BlockOK /\ ConnOK /\ WokenDecided
    /\ TimeoutIsReal /\ AbortNeedsClose

-----------------------------------------------------------------------------
(* Steps                                                                    *)

\* The steps of Next; none is left once an assertion has failed.
LEMMA NextCases ==
  ASSUME [Next]_vars
  PROVE  \/ /\ ~crashed
            /\ \/ \E f \in Fibers, fd \in Fds, s \in {"fresh", "connected"} : Open(f, fd, s)
               \/ \E f \in Fibers, fd \in Fds, user \in BOOLEAN : fcntl(f, fd, user) \/ ioctl(f, fd, user)
               \/ \E f \in Fibers, fd \in Fds :
                     setsockopt(f, fd) \/ do_io(f, fd) \/ connect(f, fd) \/ close(f, fd)
               \/ \E f \in Fibers :
                     \/ sleep(f) \/ Receive(f) \/ Unblock(f) \/ Arm(f) \/ AddEvent(f) \/ Resume(f)
                     \/ Check(f) \/ SoError(f) \/ cancelAll(f) \/ del(f) \/ close_f(f)
               \/ \E tm \in timers :
                     Expire(tm) \/ CallbackMarks(tm) \/ CallbackCancels(tm) \/ SleepEnds(tm)
               \/ \E fd \in Fds : Arrive(fd)
               \/ \E fd \in Fds, s \in {"connected", "refused"} : Decide(fd, s)
               \/ \E fd \in Fds, e \in Event : Trigger(fd, e)
         \/ UNCHANGED vars
<1>1. ASSUME NEW f \in Fibers, UserNext(f)
      PROVE  /\ ~crashed
             /\ \/ \E fd \in Fds, s \in {"fresh", "connected"} : Open(f, fd, s)
                \/ \E fd \in Fds, user \in BOOLEAN : fcntl(f, fd, user) \/ ioctl(f, fd, user)
                \/ \E fd \in Fds : setsockopt(f, fd) \/ do_io(f, fd) \/ connect(f, fd) \/ close(f, fd)
                \/ sleep(f)
  <2>1. ~crashed
    BY <1>1 DEF UserNext, Open, fcntl, ioctl, setsockopt, do_io, connect, close, sleep, UserOp
  <2>2. QED  BY <1>1, <2>1, Zenon DEF UserNext
<1>2. QED
  BY <1>1, ZenonT(60) DEF Next, Step, TimerNext, TimerStep, KernelNext, TriggerNext

\* What the start of a call changes.
Begun(f, k, fd, e) ==
    /\ call' \in [Fibers -> [kind : Kinds, fd : Fds, ev : Event, to : BOOLEAN]]
    /\ id' \in [Fibers -> Nat]
    /\ call'[f].kind = k /\ call'[f].fd = fd /\ call'[f].ev = e /\ id'[f] = id[f] + 1
    /\ \A g \in Fibers : g # f => call'[g] = call[g] /\ id'[g] = id[g]
    /\ cancelled' = {c \in cancelled : c[1] # f} /\ expired' = {c \in expired : c[1] # f}
    /\ missed' = {c \in missed : c[1] # f} /\ closed' = {c \in closed : c[1] # f}
    /\ stray' = {c \in stray : c[1] # f}

\* Begin does it.
LEMMA BeginIs ==
  ASSUME CallType, NEW f \in Fibers, NEW k \in Kinds, NEW fd \in Fds, NEW e \in Event,
         NEW to \in BOOLEAN, Begin(f, k, fd, e, to)
  PROVE  Begun(f, k, fd, e)
<1> DEFINE c == [kind |-> k, fd |-> fd, ev |-> e, to |-> to]
<1>1. c \in [kind : Kinds, fd : Fds, ev : Event, to : BOOLEAN]
  OBVIOUS
<1>2. c.kind = k /\ c.fd = fd /\ c.ev = e
  OBVIOUS
<1>3. call' = [call EXCEPT ![f] = c] /\ id' = [id EXCEPT ![f] = id[f] + 1]
  BY DEF Begin
<1>4. /\ cancelled' = {x \in cancelled : x[1] # f} /\ expired' = {x \in expired : x[1] # f}
      /\ missed' = {x \in missed : x[1] # f} /\ closed' = {x \in closed : x[1] # f}
      /\ stray' = {x \in stray : x[1] # f}
  BY Zenon DEF Begin
<1> HIDE DEF c
<1>5. QED  BY <1>1, <1>2, <1>3, <1>4 DEF CallType, Begun

\* A sleep names no descriptor; the record holds any.
LEMMA NoCallFd == NoCall.fd \in Fds
BY HookAssumption DEF NoCall

\* The four kinds of calls.
LEMMA Begins ==
  ASSUME KernelType, CallType, NEW f \in Fibers, NEW fd \in Fds
  PROVE  /\ do_io(f, fd) => Begun(f, "recv", fd, "READ")
         /\ connect(f, fd) => Begun(f, "connect", fd, "WRITE")
         /\ close(f, fd) => Begun(f, "close", fd, "READ")
         /\ sleep(f) => Begun(f, "sleep", NoCall.fd, "READ")
<1>1. fdctx[fd].timed \in BOOLEAN
  BY DEF KernelType
<1>2. \A k \in {"recv", "connect", "close", "sleep"} : k \in Kinds
  BY DEF Kinds
<1>3. "READ" \in Event /\ "WRITE" \in Event
  BY DEF Event
<1>4. QED  BY <1>1, <1>2, <1>3, NoCallFd, BeginIs DEF do_io, connect, close, sleep

\* What triggerEvent changes.
LEMMA WakeIs ==
  ASSUME EventType, NEW fd \in Fds, NEW es \in SUBSET Event, \A e \in es : reg[fd][e] # NoFiber,
         Wake(fd, es)
  PROVE  /\ EventType'
         /\ \A gd \in Fds, d \in Event :
               reg'[gd][d] = IF gd = fd /\ d \in es THEN NoFiber ELSE reg[gd][d]
         /\ woken' = woken \cup {reg[fd][e] : e \in es}
<1>1. woken' = woken \cup {reg[fd][e] : e \in es} /\ inEpoll' \subseteq inEpoll
  BY DEF Wake
<1> DEFINE r == [e \in Event |-> IF e \in es THEN NoFiber ELSE reg[fd][e]]
<1>2. reg' = [reg EXCEPT ![fd] = r]
  BY DEF Wake
<1>3. r \in [Event -> Fibers \cup {NoFiber}]
  BY DEF EventType
<1>4. reg' \in [Fds -> [Event -> Fibers \cup {NoFiber}]]
  BY <1>2, <1>3 DEF EventType
<1>5. woken' \subseteq Fibers
  BY <1>1 DEF EventType
<1>6. EventType'
  BY <1>1, <1>4, <1>5 DEF EventType
<1>7. QED  BY <1>1, <1>2, <1>6 DEF EventType

\* Three steps wake fibers: whom, and on which descriptor.
Woke(fd, es) ==
    /\ EventType' /\ fd \in Fds /\ es \in SUBSET Event /\ \A e \in es : reg[fd][e] # NoFiber
    /\ \A gd \in Fds, d \in Event :
          reg'[gd][d] = IF gd = fd /\ d \in es THEN NoFiber ELSE reg[gd][d]
    /\ woken' = woken \cup {reg[fd][e] : e \in es}

\* Those three steps.
LEMMA Wakes ==
  ASSUME HookInv
  PROVE  /\ \A f \in Fibers : cancelAll(f) =>
               UNCHANGED eventVars \/ Woke(call[f].fd, Registered(call[f].fd))
         /\ \A tm \in timers : CallbackCancels(tm) =>
               UNCHANGED eventVars \/ Woke(tm.fd, {tm.ev})
         /\ \A fd \in Fds, e \in Event : Trigger(fd, e) => Woke(fd, {e})
<1>1. ASSUME NEW f \in Fibers, cancelAll(f)
      PROVE UNCHANGED eventVars \/ Woke(call[f].fd, Registered(call[f].fd))
  <2>1. call[f].fd \in Fds /\ EventType
    BY DEF HookInv, HookType, CallType
  <2>2. Registered(call[f].fd) \in SUBSET Event
        /\ \A e \in Registered(call[f].fd) : reg[call[f].fd][e] # NoFiber
    BY DEF Registered
  <2>3. UNCHANGED eventVars \/ Wake(call[f].fd, Registered(call[f].fd))
    BY <1>1 DEF cancelAll
  <2>4. QED  BY <2>1, <2>2, <2>3, WakeIs DEF Woke
<1>2. ASSUME NEW tm \in timers,
      CallbackCancels(tm) PROVE UNCHANGED eventVars \/ Woke(tm.fd, {tm.ev})
  <2>1. tm.fd \in Fds /\ tm.ev \in Event /\ EventType
    BY <1>2 DEF CallbackCancels, HookInv, HookType, HistoryType, TimerRecords, SleepOK
  <2>2. UNCHANGED eventVars \/ (reg[tm.fd][tm.ev] # NoFiber /\ Wake(tm.fd, {tm.ev}))
    BY <1>2 DEF CallbackCancels
  <2>3. QED  BY <2>1, <2>2, WakeIs DEF Woke
<1>3. ASSUME NEW fd \in Fds, NEW e \in Event, Trigger(fd, e) PROVE Woke(fd, {e})
  BY <1>3, WakeIs DEF Trigger, Woke, HookInv, HookType
<1>4. QED  BY <1>1, <1>2, <1>3

\* The parts of a timer, and what it becomes when it expires or marks a call.
LEMMA TimerParts ==
  ASSUME NEW tm \in TimerRecords
  PROVE  /\ tm.f \in Fibers /\ tm.id \in 1 .. MaxOps /\ tm.fd \in Fds /\ tm.ev \in Event \cup {"SLEEP"}
         /\ tm.st \in {"armed", "handed", "marked"}
         /\ <<tm.f, tm.id>> \in Infos
         /\ \A s \in {"armed", "handed", "marked"} :
               LET tn == [tm EXCEPT !.st = s] IN
               /\ tn \in TimerRecords /\ tn.st = s
               /\ tn.f = tm.f /\ tn.id = tm.id /\ tn.fd = tm.fd /\ tn.ev = tm.ev
<1>1. /\ tm.f \in Fibers /\ tm.id \in 1 .. MaxOps /\ tm.fd \in Fds /\ tm.ev \in Event \cup {"SLEEP"}
      /\ tm.st \in {"armed", "handed", "marked"}
  BY DEF TimerRecords
<1>2. <<tm.f, tm.id>> \in Infos
  BY <1>1 DEF Infos
<1>3. QED  BY <1>1, <1>2 DEF TimerRecords

\* The timer_info of a call under way is one of a call that was made.
LEMMA InfoOfCall ==
  ASSUME HookInv, NEW f \in Fibers, InCall(f)
  PROVE  tinfo(f) \in Infos
BY HookAssumption DEF HookInv, HookType, CallType, IdOK, Infos, tinfo

\* The timers of a new wait and of a sleep.
LEMMA NewTimers ==
  ASSUME HookInv, NEW f \in Fibers
  PROVE  /\ pc[f] # "user" => NewTimer(f, call[f].ev) \in TimerRecords
         /\ UserOp(f) => [f |-> f, id |-> id[f] + 1, fd |-> NoCall.fd, ev |-> "SLEEP",
                          st |-> "armed"] \in TimerRecords
<1>1. pc[f] # "user" => id[f] \in 1 .. MaxOps
  BY HookAssumption DEF HookInv, HookType, CallType, IdOK, InCall
<1>2. UserOp(f) => id[f] + 1 \in 1 .. MaxOps
  BY HookAssumption DEF HookInv, HookType, CallType, IdOK, UserOp
<1>3. call[f].fd \in Fds /\ call[f].ev \in Event
  BY DEF HookInv, HookType, CallType
<1>4. QED  BY <1>1, <1>2, <1>3, NoCallFd DEF NewTimer, TimerRecords

\* Sockets and their flags.
LEMMA KernelTypeStep == HookInv /\ [Next]_vars => KernelType'
<1> SUFFICES ASSUME HookInv, [Next]_vars PROVE KernelType'
  OBVIOUS
<1> USE HookAssumption DEF HookInv, HookType, KernelType, CallType, SockStates, NewCtx, NoCtx
<1>1. ASSUME NEW f \in Fibers, NEW fd \in Fds, NEW s \in {"fresh", "connected"}, ~crashed,
      Open(f, fd, s) PROVE KernelType'
  BY <1>1 DEF Open, kernelVars, eventVars, timerVars, callVars, histVars
<1>2. ASSUME NEW f \in Fibers, NEW fd \in Fds, NEW user \in BOOLEAN, ~crashed,
      fcntl(f, fd, user) PROVE KernelType'
  <2>1. sock' = sock /\ inbox' = inbox
    BY <1>2 DEF fcntl
  <2>2. nonblock' \in [Fds -> BOOLEAN]
    BY <1>2 DEF fcntl, PassFlag, SysFlag
  <2>3. fdctx' \in [Fds -> [user : BOOLEAN, timed : BOOLEAN, there : BOOLEAN]]
    <3>1. fdctx' = fdctx \/ fdctx' = [fdctx EXCEPT ![fd].user = user]
      BY <1>2 DEF fcntl
    <3>2. QED  BY <3>1
  <2>4. QED  BY <2>1, <2>2, <2>3
<1>3. ASSUME NEW f \in Fibers, NEW fd \in Fds, NEW user \in BOOLEAN, ~crashed,
      ioctl(f, fd, user) PROVE KernelType'
  BY <1>3 DEF ioctl, UserOp, PassFlag, kernelVars, eventVars, timerVars, callVars, histVars
<1>4. ASSUME NEW f \in Fibers, NEW fd \in Fds, ~crashed, setsockopt(f, fd) PROVE KernelType'
  BY <1>4 DEF setsockopt, UserOp, kernelVars, eventVars, timerVars, callVars, histVars
<1>5. ASSUME NEW f \in Fibers, NEW fd \in Fds, ~crashed, do_io(f, fd) PROVE KernelType'
  <2>1. Begun(f, "recv", fd, "READ")
    BY <1>5, Begins, NoCallFd
  <2>2. QED  BY <1>5, <2>1 DEF do_io, UserOp, goto, kernelVars, eventVars, timerVars, callVars,
        histVars
<1>6. ASSUME NEW f \in Fibers, NEW fd \in Fds, ~crashed, connect(f, fd) PROVE KernelType'
  <2>1. Begun(f, "connect", fd, "WRITE")
    BY <1>6, Begins, NoCallFd
  <2>2. QED  BY <1>6, <2>1 DEF connect, UserOp, goto, Return, kernelVars, eventVars, timerVars,
        callVars, histVars
<1>7. ASSUME NEW f \in Fibers, NEW fd \in Fds, ~crashed, close(f, fd) PROVE KernelType'
  <2>1. Begun(f, "close", fd, "READ")
    BY <1>7, Begins, NoCallFd
  <2>2. QED  BY <1>7, <2>1 DEF close, UserOp, goto, kernelVars, eventVars, timerVars, callVars,
        histVars
<1>8. ASSUME NEW f \in Fibers, ~crashed, sleep(f) PROVE KernelType'
  <2>1. Begun(f, "sleep", NoCall.fd, "READ")
    BY <1>8, Begins, NoCallFd
  <2>2. QED  BY <1>8, <2>1 DEF sleep, UserOp, goto, kernelVars, eventVars, timerVars, callVars,
        histVars
<1>9. ASSUME NEW f \in Fibers, ~crashed, Receive(f) PROVE KernelType'
  BY <1>9 DEF Receive, goto, Return, Dead, kernelVars, eventVars, timerVars, callVars, histVars
<1>10. ASSUME NEW f \in Fibers, ~crashed, Unblock(f) PROVE KernelType'
  BY <1>10 DEF Unblock, goto, Return, kernelVars, eventVars, timerVars, callVars, histVars
<1>11. ASSUME NEW f \in Fibers, ~crashed, Arm(f) PROVE KernelType'
  BY <1>11 DEF Arm, goto, kernelVars, eventVars, timerVars, callVars, histVars
<1>12. ASSUME NEW f \in Fibers, ~crashed, AddEvent(f) PROVE KernelType'
  BY <1>12 DEF AddEvent, goto, Return, kernelVars, eventVars, timerVars, callVars, histVars
<1>13. ASSUME NEW f \in Fibers, ~crashed, Resume(f) PROVE KernelType'
  BY <1>13 DEF Resume, goto, Return, kernelVars, eventVars, timerVars, callVars, histVars
<1>14. ASSUME NEW f \in Fibers, ~crashed, Check(f) PROVE KernelType'
  BY <1>14 DEF Check, goto, Return, kernelVars, eventVars, timerVars, callVars, histVars
<1>15. ASSUME NEW f \in Fibers, ~crashed, SoError(f) PROVE KernelType'
  BY <1>15 DEF SoError, goto, Return, kernelVars, eventVars, timerVars, callVars, histVars
<1>16. ASSUME NEW f \in Fibers, ~crashed, cancelAll(f) PROVE KernelType'
  <2>1. UNCHANGED eventVars \/ Woke(call[f].fd, Registered(call[f].fd))
    BY <1>16, Wakes
  <2>2. QED  BY <1>16, <2>1 DEF cancelAll, goto, kernelVars, eventVars, timerVars, callVars,
        histVars
<1>17. ASSUME NEW f \in Fibers, ~crashed, del(f) PROVE KernelType'
  BY <1>17 DEF del, goto, kernelVars, eventVars, timerVars, callVars, histVars
<1>18. ASSUME NEW f \in Fibers, ~crashed, close_f(f) PROVE KernelType'
  BY <1>18 DEF close_f, goto, Return, kernelVars, eventVars, timerVars, callVars, histVars
<1>19. ASSUME NEW tm \in timers, ~crashed, Expire(tm) PROVE KernelType'
  BY <1>19 DEF Expire, kernelVars, eventVars, timerVars, callVars, histVars
<1>20. ASSUME NEW tm \in timers, ~crashed, CallbackMarks(tm) PROVE KernelType'
  BY <1>20 DEF CallbackMarks, kernelVars, eventVars, timerVars, callVars, histVars
<1>21. ASSUME NEW tm \in timers, ~crashed, CallbackCancels(tm) PROVE KernelType'
  <2>1. UNCHANGED eventVars \/ Woke(tm.fd, {tm.ev})
    BY <1>21, Wakes
  <2>2. QED  BY <1>21, <2>1 DEF CallbackCancels, kernelVars, eventVars, timerVars, callVars,
        histVars
<1>22. ASSUME NEW tm \in timers, ~crashed, SleepEnds(tm) PROVE KernelType'
  BY <1>22 DEF SleepEnds, kernelVars, eventVars, timerVars, callVars, histVars
<1>23. ASSUME NEW fd \in Fds, ~crashed, Arrive(fd) PROVE KernelType'
  BY <1>23 DEF Arrive, kernelVars, eventVars, timerVars, callVars, histVars
<1>24. ASSUME NEW fd \in Fds, NEW s \in {"connected", "refused"}, ~crashed,
      Decide(fd, s) PROVE KernelType'
  BY <1>24 DEF Decide, kernelVars, eventVars, timerVars, callVars, histVars
<1>25. ASSUME NEW fd \in Fds, NEW e \in Event, ~crashed, Trigger(fd, e) PROVE KernelType'
  <2>1. Woke(fd, {e})
    BY <1>25, Wakes
  <2>2. QED  BY <1>25, <2>1 DEF Trigger, kernelVars, eventVars, timerVars, callVars, histVars
<1>26. CASE UNCHANGED vars
  BY <1>26 DEF vars, kernelVars, eventVars, timerVars, callVars, histVars
<1> HIDE DEF HookInv, HookType, KernelType, CallType, SockStates, NewCtx, NoCtx
<1>27. QED
  BY <1>1, <1>2, <1>3, <1>4, <1>5, <1>6, <1>7, <1>8, <1>9, <1>10, <1>11, <1>12, <1>13, <1>14,
     <1>15, <1>16, <1>17, <1>18, <1>19, <1>20, <1>21, <1>22, <1>23, <1>24, <1>25, <1>26, NextCases

\* Registrations and the run queue.
LEMMA EventTypeStep == HookInv /\ [Next]_vars => EventType'
<1> SUFFICES ASSUME HookInv, [Next]_vars PROVE EventType'
  OBVIOUS
<1> USE HookAssumption DEF HookInv, HookType, EventType, KernelType, CallType, HistoryType,
      TimerRecords
<1>1. ASSUME NEW f \in Fibers, NEW fd \in Fds, NEW s \in {"fresh", "connected"}, ~crashed,
      Open(f, fd, s) PROVE EventType'
  BY <1>1 DEF Open, kernelVars, eventVars, timerVars, callVars, histVars
<1>2. ASSUME NEW f \in Fibers, NEW fd \in Fds, NEW user \in BOOLEAN, ~crashed,
      fcntl(f, fd, user) PROVE EventType'
  BY <1>2 DEF fcntl, UserOp, PassFlag, SysFlag, kernelVars, eventVars, timerVars, callVars,
     histVars
<1>3. ASSUME NEW f \in Fibers, NEW fd \in Fds, NEW user \in BOOLEAN, ~crashed,
      ioctl(f, fd, user) PROVE EventType'
  BY <1>3 DEF ioctl, UserOp, PassFlag, kernelVars, eventVars, timerVars, callVars, histVars
<1>4. ASSUME NEW f \in Fibers, NEW fd \in Fds, ~crashed, setsockopt(f, fd) PROVE EventType'
  BY <1>4 DEF setsockopt, UserOp, kernelVars, eventVars, timerVars, callVars, histVars
<1>5. ASSUME NEW f \in Fibers, NEW fd \in Fds, ~crashed, do_io(f, fd) PROVE EventType'
  <2>1. Begun(f, "recv", fd, "READ")
    BY <1>5, Begins, NoCallFd
  <2>2. QED  BY <1>5, <2>1 DEF do_io, UserOp, kernelVars, eventVars, timerVars, callVars, histVars
<1>6. ASSUME NEW f \in Fibers, NEW fd \in Fds, ~crashed, connect(f, fd) PROVE EventType'
  <2>1. Begun(f, "connect", fd, "WRITE")
    BY <1>6, Begins, NoCallFd
  <2>2. QED  BY <1>6, <2>1 DEF connect, UserOp, kernelVars, eventVars, timerVars, callVars,
        histVars
<1>7. ASSUME NEW f \in Fibers, NEW fd \in Fds, ~crashed, close(f, fd) PROVE EventType'
  <2>1. Begun(f, "close", fd, "READ")
    BY <1>7, Begins, NoCallFd
  <2>2. QED  BY <1>7, <2>1 DEF close, UserOp, kernelVars, eventVars, timerVars, callVars, histVars
<1>8. ASSUME NEW f \in Fibers, ~crashed, sleep(f) PROVE EventType'
  <2>1. Begun(f, "sleep", NoCall.fd, "READ")
    BY <1>8, Begins, NoCallFd
  <2>2. QED  BY <1>8, <2>1 DEF sleep, UserOp, kernelVars, eventVars, timerVars, callVars, histVars
<1>9. ASSUME NEW f \in Fibers, ~crashed, Receive(f) PROVE EventType'
  BY <1>9 DEF Receive, kernelVars, eventVars, timerVars, callVars, histVars
<1>10. ASSUME NEW f \in Fibers, ~crashed, Unblock(f) PROVE EventType'
  BY <1>10 DEF Unblock, kernelVars, eventVars, timerVars, callVars, histVars
<1>11. ASSUME NEW f \in Fibers, ~crashed, Arm(f) PROVE EventType'
  BY <1>11 DEF Arm, kernelVars, eventVars, timerVars, callVars, histVars
<1>12. ASSUME NEW f \in Fibers, ~crashed, AddEvent(f) PROVE EventType'
  <2>1. call[f].fd \in Fds /\ call[f].ev \in Event
    OBVIOUS
  <2>2. [reg EXCEPT ![call[f].fd][call[f].ev] = f] \in [Fds -> [Event -> Fibers \cup {NoFiber}]]
    BY <2>1
  <2>3. QED  BY <1>12, <2>1, <2>2 DEF AddEvent
<1>13. ASSUME NEW f \in Fibers, ~crashed, Resume(f) PROVE EventType'
  BY <1>13 DEF Resume, kernelVars, eventVars, timerVars, callVars, histVars
<1>14. ASSUME NEW f \in Fibers, ~crashed, Check(f) PROVE EventType'
  BY <1>14 DEF Check, kernelVars, eventVars, timerVars, callVars, histVars
<1>15. ASSUME NEW f \in Fibers, ~crashed, SoError(f) PROVE EventType'
  BY <1>15 DEF SoError, kernelVars, eventVars, timerVars, callVars, histVars
<1>16. ASSUME NEW f \in Fibers, ~crashed, cancelAll(f) PROVE EventType'
  BY <1>16, Wakes DEF Woke, eventVars
<1>17. ASSUME NEW f \in Fibers, ~crashed, del(f) PROVE EventType'
  BY <1>17 DEF del, kernelVars, eventVars, timerVars, callVars, histVars
<1>18. ASSUME NEW f \in Fibers, ~crashed, close_f(f) PROVE EventType'
  BY <1>18 DEF close_f, kernelVars, eventVars, timerVars, callVars, histVars
<1>19. ASSUME NEW tm \in timers, ~crashed, Expire(tm) PROVE EventType'
  BY <1>19 DEF Expire, kernelVars, eventVars, timerVars, callVars, histVars
<1>20. ASSUME NEW tm \in timers, ~crashed, CallbackMarks(tm) PROVE EventType'
  BY <1>20 DEF CallbackMarks, FlagOf, kernelVars, eventVars, timerVars, callVars, histVars
<1>21. ASSUME NEW tm \in timers, ~crashed, CallbackCancels(tm) PROVE EventType'
  BY <1>21, Wakes DEF Woke, eventVars
<1>22. ASSUME NEW tm \in timers, ~crashed, SleepEnds(tm) PROVE EventType'
  BY <1>22 DEF SleepEnds, kernelVars, eventVars, timerVars, callVars, histVars
<1>23. ASSUME NEW fd \in Fds, ~crashed, Arrive(fd) PROVE EventType'
  BY <1>23 DEF Arrive, kernelVars, eventVars, timerVars, callVars, histVars
<1>24. ASSUME NEW fd \in Fds, NEW s \in {"connected", "refused"}, ~crashed,
      Decide(fd, s) PROVE EventType'
  BY <1>24 DEF Decide, kernelVars, eventVars, timerVars, callVars, histVars
<1>25. ASSUME NEW fd \in Fds, NEW e \in Event, ~crashed, Trigger(fd, e) PROVE EventType'
  BY <1>25, Wakes DEF Woke
<1>26. CASE UNCHANGED vars
  BY <1>26 DEF vars, kernelVars, eventVars, timerVars, callVars, histVars
<1> HIDE DEF HookInv, HookType, EventType, KernelType, CallType, HistoryType, TimerRecords
<1>27. QED
  BY <1>1, <1>2, <1>3, <1>4, <1>5, <1>6, <1>7, <1>8, <1>9, <1>10, <1>11, <1>12, <1>13, <1>14,
     <1>15, <1>16, <1>17, <1>18, <1>19, <1>20, <1>21, <1>22, <1>23, <1>24, <1>25, <1>26, NextCases

\* Where the calls are.
LEMMA CallTypeStep == HookInv /\ [Next]_vars => CallType'
<1> SUFFICES ASSUME HookInv, [Next]_vars PROVE CallType'
  OBVIOUS
<1> USE HookAssumption DEF HookInv, HookType, CallType, KernelType, PcStates, Kinds
<1>1. ASSUME NEW f \in Fibers, NEW fd \in Fds, NEW s \in {"fresh", "connected"}, ~crashed,
      Open(f, fd, s) PROVE CallType'
  BY <1>1 DEF Open, kernelVars, eventVars, timerVars, callVars, histVars
<1>2. ASSUME NEW f \in Fibers, NEW fd \in Fds, NEW user \in BOOLEAN, ~crashed,
      fcntl(f, fd, user) PROVE CallType'
  BY <1>2 DEF fcntl, UserOp, PassFlag, SysFlag, kernelVars, eventVars, timerVars, callVars,
     histVars
<1>3. ASSUME NEW f \in Fibers, NEW fd \in Fds, NEW user \in BOOLEAN, ~crashed,
      ioctl(f, fd, user) PROVE CallType'
  BY <1>3 DEF ioctl, UserOp, PassFlag, kernelVars, eventVars, timerVars, callVars, histVars
<1>4. ASSUME NEW f \in Fibers, NEW fd \in Fds, ~crashed, setsockopt(f, fd) PROVE CallType'
  BY <1>4 DEF setsockopt, UserOp, kernelVars, eventVars, timerVars, callVars, histVars
<1>5. ASSUME NEW f \in Fibers, NEW fd \in Fds, ~crashed, do_io(f, fd) PROVE CallType'
  <2>1. call' \in [Fibers -> [kind : Kinds, fd : Fds, ev : Event, to : BOOLEAN]] /\ id' \in [Fibers -> Nat]
    BY <1>5, Begins, NoCallFd DEF Begun
  <2>2. pc' \in [Fibers -> PcStates] /\ DOMAIN ret' = Fibers
    BY <1>5 DEF do_io, goto, Return
  <2>3. ops' \in 0 .. MaxOps /\ crashed' = crashed
    BY <1>5 DEF do_io, UserOp
  <2>4. QED  BY <2>1, <2>2, <2>3
<1>6. ASSUME NEW f \in Fibers, NEW fd \in Fds, ~crashed, connect(f, fd) PROVE CallType'
  <2>1. call' \in [Fibers -> [kind : Kinds, fd : Fds, ev : Event, to : BOOLEAN]] /\ id' \in [Fibers -> Nat]
    BY <1>6, Begins, NoCallFd DEF Begun
  <2>2. pc' \in [Fibers -> PcStates] /\ DOMAIN ret' = Fibers
    BY <1>6 DEF connect, goto, Return
  <2>3. ops' \in 0 .. MaxOps /\ crashed' = crashed
    BY <1>6 DEF connect, UserOp
  <2>4. QED  BY <2>1, <2>2, <2>3
<1>7. ASSUME NEW f \in Fibers, NEW fd \in Fds, ~crashed, close(f, fd) PROVE CallType'
  <2>1. call' \in [Fibers -> [kind : Kinds, fd : Fds, ev : Event, to : BOOLEAN]] /\ id' \in [Fibers -> Nat]
    BY <1>7, Begins, NoCallFd DEF Begun
  <2>2. pc' \in [Fibers -> PcStates] /\ DOMAIN ret' = Fibers
    BY <1>7 DEF close, goto, Return
  <2>3. ops' \in 0 .. MaxOps /\ crashed' = crashed
    BY <1>7 DEF close, UserOp
  <2>4. QED  BY <2>1, <2>2, <2>3
<1>8. ASSUME NEW f \in Fibers, ~crashed, sleep(f) PROVE CallType'
  <2>1. call' \in [Fibers -> [kind : Kinds, fd : Fds, ev : Event, to : BOOLEAN]] /\ id' \in [Fibers -> Nat]
    BY <1>8, Begins, NoCallFd DEF Begun
  <2>2. pc' \in [Fibers -> PcStates] /\ DOMAIN ret' = Fibers
    BY <1>8 DEF sleep, goto, Return
  <2>3. ops' \in 0 .. MaxOps /\ crashed' = crashed
    BY <1>8 DEF sleep, UserOp
  <2>4. QED  BY <2>1, <2>2, <2>3
<1>9. ASSUME NEW f \in Fibers, ~crashed, Receive(f) PROVE CallType'
  BY <1>9 DEF Receive, goto, Return, kernelVars, eventVars, timerVars, callVars, histVars
<1>10. ASSUME NEW f \in Fibers, ~crashed, Unblock(f) PROVE CallType'
  BY <1>10 DEF Unblock, goto, Return, kernelVars, eventVars, timerVars, callVars, histVars
<1>11. ASSUME NEW f \in Fibers, ~crashed, Arm(f) PROVE CallType'
  BY <1>11 DEF Arm, goto, kernelVars, eventVars, timerVars, callVars, histVars
<1>12. ASSUME NEW f \in Fibers, ~crashed, AddEvent(f) PROVE CallType'
  BY <1>12 DEF AddEvent, goto, Return, kernelVars, eventVars, timerVars, callVars, histVars
<1>13. ASSUME NEW f \in Fibers, ~crashed, Resume(f) PROVE CallType'
  BY <1>13 DEF Resume, goto, Return, kernelVars, eventVars, timerVars, callVars, histVars
<1>14. ASSUME NEW f \in Fibers, ~crashed, Check(f) PROVE CallType'
  BY <1>14 DEF Check, goto, Return, kernelVars, eventVars, timerVars, callVars, histVars
<1>15. ASSUME NEW f \in Fibers, ~crashed, SoError(f) PROVE CallType'
  BY <1>15 DEF SoError, goto, Return, kernelVars, eventVars, timerVars, callVars, histVars
<1>16. ASSUME NEW f \in Fibers, ~crashed, cancelAll(f) PROVE CallType'
  <2>1. UNCHANGED eventVars \/ Woke(call[f].fd, Registered(call[f].fd))
    BY <1>16, Wakes
  <2>2. QED  BY <1>16, <2>1 DEF cancelAll, goto, kernelVars, eventVars, timerVars, callVars,
        histVars
<1>17. ASSUME NEW f \in Fibers, ~crashed, del(f) PROVE CallType'
  BY <1>17 DEF del, goto, kernelVars, eventVars, timerVars, callVars, histVars
<1>18. ASSUME NEW f \in Fibers, ~crashed, close_f(f) PROVE CallType'
  BY <1>18 DEF close_f, goto, Return, kernelVars, eventVars, timerVars, callVars, histVars
<1>19. ASSUME NEW tm \in timers, ~crashed, Expire(tm) PROVE CallType'
  BY <1>19 DEF Expire, kernelVars, eventVars, timerVars, callVars, histVars
<1>20. ASSUME NEW tm \in timers, ~crashed, CallbackMarks(tm) PROVE CallType'
  BY <1>20 DEF CallbackMarks, kernelVars, eventVars, timerVars, callVars, histVars
<1>21. ASSUME NEW tm \in timers, ~crashed, CallbackCancels(tm) PROVE CallType'
  <2>1. UNCHANGED eventVars \/ Woke(tm.fd, {tm.ev})
    BY <1>21, Wakes
  <2>2. QED  BY <1>21, <2>1 DEF CallbackCancels, kernelVars, eventVars, timerVars, callVars,
        histVars
<1>22. ASSUME NEW tm \in timers, ~crashed, SleepEnds(tm) PROVE CallType'
  BY <1>22 DEF SleepEnds, kernelVars, eventVars, timerVars, callVars, histVars
<1>23. ASSUME NEW fd \in Fds, ~crashed, Arrive(fd) PROVE CallType'
  BY <1>23 DEF Arrive, kernelVars, eventVars, timerVars, callVars, histVars
<1>24. ASSUME NEW fd \in Fds, NEW s \in {"connected", "refused"}, ~crashed,
      Decide(fd, s) PROVE CallType'
  BY <1>24 DEF Decide, kernelVars, eventVars, timerVars, callVars, histVars
<1>25. ASSUME NEW fd \in Fds, NEW e \in Event, ~crashed, Trigger(fd, e) PROVE CallType'
  <2>1. Woke(fd, {e})
    BY <1>25, Wakes
  <2>2. QED  BY <1>25, <2>1 DEF Trigger, kernelVars, eventVars, timerVars, callVars, histVars
<1>26. CASE UNCHANGED vars
  BY <1>26 DEF vars, kernelVars, eventVars, timerVars, callVars, histVars
<1> HIDE DEF HookInv, HookType, CallType, KernelType, PcStates, Kinds
<1>27. QED
  BY <1>1, <1>2, <1>3, <1>4, <1>5, <1>6, <1>7, <1>8, <1>9, <1>10, <1>11, <1>12, <1>13, <1>14,
     <1>15, <1>16, <1>17, <1>18, <1>19, <1>20, <1>21, <1>22, <1>23, <1>24, <1>25, <1>26, NextCases

\* Timers and histories belong to calls that were made.
LEMMA HistoryTypeStep == HookInv /\ [Next]_vars => HistoryType'
<1> SUFFICES ASSUME HookInv, [Next]_vars PROVE HistoryType'
  OBVIOUS
<1>1. ASSUME NEW f \in Fibers, NEW fd \in Fds, NEW s \in {"fresh", "connected"}, ~crashed,
      Open(f, fd, s) PROVE HistoryType'
  BY <1>1 DEF Open, timerVars, histVars, HookInv, HookType, HistoryType
<1>2. ASSUME NEW f \in Fibers, NEW fd \in Fds, NEW user \in BOOLEAN, ~crashed,
      fcntl(f, fd, user) PROVE HistoryType'
  BY <1>2 DEF fcntl, timerVars, histVars, HookInv, HookType, HistoryType
<1>3. ASSUME NEW f \in Fibers, NEW fd \in Fds, NEW user \in BOOLEAN, ~crashed,
      ioctl(f, fd, user) PROVE HistoryType'
  BY <1>3 DEF ioctl, timerVars, histVars, HookInv, HookType, HistoryType
<1>4. ASSUME NEW f \in Fibers, NEW fd \in Fds, ~crashed, setsockopt(f, fd) PROVE HistoryType'
  BY <1>4 DEF setsockopt, timerVars, histVars, HookInv, HookType, HistoryType
<1>5. ASSUME NEW f \in Fibers, NEW fd \in Fds, ~crashed, do_io(f, fd) PROVE HistoryType'
  <2>1. Begun(f, "recv", fd, "READ")
    BY <1>5, Begins, NoCallFd DEF HookInv, HookType
  <2>2. timers' = timers
    BY <1>5 DEF do_io
  <2>3. QED  BY <2>1, <2>2 DEF Begun, HookInv, HookType, HistoryType
<1>6. ASSUME NEW f \in Fibers, NEW fd \in Fds, ~crashed, connect(f, fd) PROVE HistoryType'
  <2>1. Begun(f, "connect", fd, "WRITE")
    BY <1>6, Begins, NoCallFd DEF HookInv, HookType
  <2>2. timers' = timers
    BY <1>6 DEF connect
  <2>3. QED  BY <2>1, <2>2 DEF Begun, HookInv, HookType, HistoryType
<1>7. ASSUME NEW f \in Fibers, NEW fd \in Fds, ~crashed, close(f, fd) PROVE HistoryType'
  <2>1. Begun(f, "close", fd, "READ")
    BY <1>7, Begins, NoCallFd DEF HookInv, HookType
  <2>2. timers' = timers
    BY <1>7 DEF close
  <2>3. QED  BY <2>1, <2>2 DEF Begun, HookInv, HookType, HistoryType
<1>8. ASSUME NEW f \in Fibers, ~crashed, sleep(f) PROVE HistoryType'
  <2>1. Begun(f, "sleep", NoCall.fd, "READ")
    BY <1>8, Begins, NoCallFd DEF HookInv, HookType
  <2>2. timers' \subseteq TimerRecords
    BY <1>8, NewTimers DEF sleep, HookInv, HookType, HistoryType
  <2>3. QED  BY <2>1, <2>2 DEF Begun, HookInv, HookType, HistoryType
<1>9. ASSUME NEW f \in Fibers, ~crashed, Receive(f) PROVE HistoryType'
  BY <1>9 DEF Receive, timerVars, histVars, HookInv, HookType, HistoryType
<1>10. ASSUME NEW f \in Fibers, ~crashed, Unblock(f) PROVE HistoryType'
  BY <1>10 DEF Unblock, timerVars, histVars, HookInv, HookType, HistoryType
<1>11. ASSUME NEW f \in Fibers, ~crashed, Arm(f) PROVE HistoryType'
  <2>1. timers' \subseteq TimerRecords
    BY <1>11, NewTimers DEF Arm, HookInv, HookType, HistoryType
  <2>2. QED  BY <1>11, <2>1 DEF Arm, histVars, HookInv, HookType, HistoryType
<1>12. ASSUME NEW f \in Fibers, ~crashed, AddEvent(f) PROVE HistoryType'
  <2>1. timers' \subseteq timers /\ tinfo(f) \in Infos
    BY <1>12, InfoOfCall DEF AddEvent, CancelTimer, InCall
  <2>2. stray' \subseteq stray \cup {tinfo(f)} /\ UNCHANGED <<cancelled, expired, missed, closed>>
    BY <1>12 DEF AddEvent
  <2>3. QED  BY <2>1, <2>2 DEF HookInv, HookType, HistoryType
<1>13. ASSUME NEW f \in Fibers, ~crashed, Resume(f) PROVE HistoryType'
  <2>1. timers' \subseteq timers
    BY <1>13 DEF Resume, CancelTimer
  <2>2. QED  BY <1>13, <2>1 DEF Resume, histVars, HookInv, HookType, HistoryType
<1>14. ASSUME NEW f \in Fibers, ~crashed, Check(f) PROVE HistoryType'
  BY <1>14 DEF Check, timerVars, histVars, HookInv, HookType, HistoryType
<1>15. ASSUME NEW f \in Fibers, ~crashed, SoError(f) PROVE HistoryType'
  BY <1>15 DEF SoError, timerVars, histVars, HookInv, HookType, HistoryType
<1>16. ASSUME NEW f \in Fibers, ~crashed, cancelAll(f) PROVE HistoryType'
  <2>1. \A g \in woken' \ woken : g \in Fibers /\ InCall(g)
    BY <1>16, Wakes DEF HookInv, HookType, EventType, WaitOK, Woke, InCall, eventVars
  <2>2. \A g \in woken' \ woken : tinfo(g) \in Infos
    BY <2>1, InfoOfCall
  <2>3. QED  BY <1>16, <2>2 DEF cancelAll, timerVars, HookInv, HookType, HistoryType
<1>17. ASSUME NEW f \in Fibers, ~crashed, del(f) PROVE HistoryType'
  BY <1>17 DEF del, timerVars, histVars, HookInv, HookType, HistoryType
<1>18. ASSUME NEW f \in Fibers, ~crashed, close_f(f) PROVE HistoryType'
  <2>1. \A g \in {h \in Fibers \ {f} : InCall(h) /\ call[h].fd = call[f].fd} : tinfo(g) \in Infos
    BY InfoOfCall
  <2>2. QED  BY <1>18, <2>1 DEF close_f, timerVars, HookInv, HookType, HistoryType
<1>19. ASSUME NEW tm \in timers, ~crashed, Expire(tm) PROVE HistoryType'
  <2>1. tm \in TimerRecords
    BY DEF HookInv, HookType, HistoryType
  <2>2. [tm EXCEPT !.st = "handed"] \in TimerRecords /\ <<tm.f, tm.id>> \in Infos
    BY <2>1, TimerParts
  <2>3. QED  BY <1>19, <2>2 DEF Expire, HookInv, HookType, HistoryType
<1>20. ASSUME NEW tm \in timers, ~crashed, CallbackMarks(tm) PROVE HistoryType'
  <2>1. tm \in TimerRecords
    BY DEF HookInv, HookType, HistoryType
  <2>2. [tm EXCEPT !.st = "marked"] \in TimerRecords /\ <<tm.f, tm.id>> \in Infos
    BY <2>1, TimerParts
  <2>3. timers' \subseteq timers \cup {[tm EXCEPT !.st = "marked"]} /\ cancelled' \subseteq cancelled \cup {<<tm.f, tm.id>>}
    BY <1>20 DEF CallbackMarks, FlagOf
  <2>4. QED  BY <1>20, <2>2, <2>3 DEF CallbackMarks, histVars, HookInv, HookType, HistoryType
<1>21. ASSUME NEW tm \in timers, ~crashed, CallbackCancels(tm) PROVE HistoryType'
  <2>1. \A g \in woken' \ woken : g \in Fibers /\ InCall(g)
    BY <1>21, Wakes DEF HookInv, HookType, EventType, WaitOK, Woke, InCall, eventVars
  <2>2. \A g \in woken' \ woken : tinfo(g) \in Infos
    BY <2>1, InfoOfCall
  <2>3. FlagOf(tm) \in Infos
    BY TimerParts DEF FlagOf, HookInv, HookType, HistoryType
  <2>4. missed' \subseteq missed \cup {FlagOf(tm)} /\ timers' \subseteq timers
    BY <1>21 DEF CallbackCancels
  <2>5. stray' \subseteq stray \cup {tinfo(g) : g \in woken' \ woken}
        /\ UNCHANGED <<cancelled, expired, closed>>
    BY <1>21 DEF CallbackCancels
  <2>6. QED  BY <2>2, <2>3, <2>4, <2>5 DEF HookInv, HookType, HistoryType
<1>22. ASSUME NEW tm \in timers, ~crashed, SleepEnds(tm) PROVE HistoryType'
  BY <1>22 DEF SleepEnds, timerVars, histVars, HookInv, HookType, HistoryType
<1>23. ASSUME NEW fd \in Fds, ~crashed, Arrive(fd) PROVE HistoryType'
  BY <1>23 DEF Arrive, timerVars, histVars, HookInv, HookType, HistoryType
<1>24. ASSUME NEW fd \in Fds, NEW s \in {"connected", "refused"}, ~crashed,
      Decide(fd, s) PROVE HistoryType'
  BY <1>24 DEF Decide, timerVars, histVars, HookInv, HookType, HistoryType
<1>25. ASSUME NEW fd \in Fds, NEW e \in Event, ~crashed, Trigger(fd, e) PROVE HistoryType'
  BY <1>25 DEF Trigger, timerVars, histVars, HookInv, HookType, HistoryType
<1>26. CASE UNCHANGED vars
  BY <1>26 DEF HookInv, HookType, HistoryType, vars, kernelVars, eventVars, timerVars,
     callVars, histVars
<1>27. QED
  BY <1>1, <1>2, <1>3, <1>4, <1>5, <1>6, <1>7, <1>8, <1>9, <1>10, <1>11, <1>12, <1>13, <1>14,
     <1>15, <1>16, <1>17, <1>18, <1>19, <1>20, <1>21, <1>22, <1>23, <1>24, <1>25, <1>26, NextCases

\* A call that begins uses up an operation and the next number.
LEMMA IdBegun ==
  ASSUME CallType, ops \in Nat, IdOK, NEW f \in Fibers, ops' = ops + 1, id'[f] = id[f] + 1,
         \A g \in Fibers : g # f => id'[g] = id[g] /\ pc'[g] = pc[g]
  PROVE  IdOK'
BY DEF CallType, IdOK, InCall

\* The numbers of the calls.
LEMMA IdStep == HookInv /\ [Next]_vars => IdOK'
<1> SUFFICES ASSUME HookInv, [Next]_vars PROVE IdOK'
  OBVIOUS
<1> USE HookAssumption DEF HookInv, HookType, CallType, KernelType, IdOK, InCall
<1>1. ASSUME NEW f \in Fibers, NEW fd \in Fds, NEW s \in {"fresh", "connected"}, ~crashed,
      Open(f, fd, s) PROVE IdOK'
  BY <1>1 DEF Open, kernelVars, eventVars, timerVars, callVars, histVars
<1>2. ASSUME NEW f \in Fibers, NEW fd \in Fds, NEW user \in BOOLEAN, ~crashed,
      fcntl(f, fd, user) PROVE IdOK'
  BY <1>2 DEF fcntl, UserOp, PassFlag, SysFlag, kernelVars, eventVars, timerVars, callVars,
     histVars
<1>3. ASSUME NEW f \in Fibers, NEW fd \in Fds, NEW user \in BOOLEAN, ~crashed,
      ioctl(f, fd, user) PROVE IdOK'
  BY <1>3 DEF ioctl, UserOp, PassFlag, kernelVars, eventVars, timerVars, callVars, histVars
<1>4. ASSUME NEW f \in Fibers, NEW fd \in Fds, ~crashed, setsockopt(f, fd) PROVE IdOK'
  BY <1>4 DEF setsockopt, UserOp, kernelVars, eventVars, timerVars, callVars, histVars
<1>5. ASSUME NEW f \in Fibers, NEW fd \in Fds, ~crashed, do_io(f, fd) PROVE IdOK'
  <2>1. Begun(f, "recv", fd, "READ")
    BY <1>5, Begins, NoCallFd
  <2>2. ops' = ops + 1 /\ \A g \in Fibers : g # f => pc'[g] = pc[g]
    BY <1>5 DEF do_io, UserOp, goto
  <2>3. id'[f] = id[f] + 1 /\ \A g \in Fibers : g # f => id'[g] = id[g]
    BY <2>1 DEF Begun
  <2>4. QED  BY <2>2, <2>3, IdBegun
<1>6. ASSUME NEW f \in Fibers, NEW fd \in Fds, ~crashed, connect(f, fd) PROVE IdOK'
  <2>1. Begun(f, "connect", fd, "WRITE")
    BY <1>6, Begins, NoCallFd
  <2>2. ops' = ops + 1 /\ \A g \in Fibers : g # f => pc'[g] = pc[g]
    BY <1>6 DEF connect, UserOp, goto, Return
  <2>3. id'[f] = id[f] + 1 /\ \A g \in Fibers : g # f => id'[g] = id[g]
    BY <2>1 DEF Begun
  <2>4. QED  BY <2>2, <2>3, IdBegun
<1>7. ASSUME NEW f \in Fibers, NEW fd \in Fds, ~crashed, close(f, fd) PROVE IdOK'
  <2>1. Begun(f, "close", fd, "READ")
    BY <1>7, Begins, NoCallFd
  <2>2. ops' = ops + 1 /\ \A g \in Fibers : g # f => pc'[g] = pc[g]
    BY <1>7 DEF close, UserOp, goto
  <2>3. id'[f] = id[f] + 1 /\ \A g \in Fibers : g # f => id'[g] = id[g]
    BY <2>1 DEF Begun
  <2>4. QED  BY <2>2, <2>3, IdBegun
<1>8. ASSUME NEW f \in Fibers, ~crashed, sleep(f) PROVE IdOK'
  <2>1. Begun(f, "sleep", NoCall.fd, "READ")
    BY <1>8, Begins, NoCallFd
  <2>2. ops' = ops + 1 /\ \A g \in Fibers : g # f => pc'[g] = pc[g]
    BY <1>8 DEF sleep, UserOp, goto
  <2>3. id'[f] = id[f] + 1 /\ \A g \in Fibers : g # f => id'[g] = id[g]
    BY <2>1 DEF Begun
  <2>4. QED  BY <2>2, <2>3, IdBegun
<1>9. ASSUME NEW f \in Fibers, ~crashed, Receive(f) PROVE IdOK'
  BY <1>9 DEF Receive, goto, Return, kernelVars, eventVars, timerVars, callVars, histVars
<1>10. ASSUME NEW f \in Fibers, ~crashed, Unblock(f) PROVE IdOK'
  BY <1>10 DEF Unblock, goto, Return, kernelVars, eventVars, timerVars, callVars, histVars
<1>11. ASSUME NEW f \in Fibers, ~crashed, Arm(f) PROVE IdOK'
  BY <1>11 DEF Arm, goto, kernelVars, eventVars, timerVars, callVars, histVars
<1>12. ASSUME NEW f \in Fibers, ~crashed, AddEvent(f) PROVE IdOK'
  BY <1>12 DEF AddEvent, goto, Return, kernelVars, eventVars, timerVars, callVars, histVars
<1>13. ASSUME NEW f \in Fibers, ~crashed, Resume(f) PROVE IdOK'
  BY <1>13 DEF Resume, goto, Return, kernelVars, eventVars, timerVars, callVars, histVars
<1>14. ASSUME NEW f \in Fibers, ~crashed, Check(f) PROVE IdOK'
  BY <1>14 DEF Check, goto, Return, kernelVars, eventVars, timerVars, callVars, histVars
<1>15. ASSUME NEW f \in Fibers, ~crashed, SoError(f) PROVE IdOK'
  BY <1>15 DEF SoError, goto, Return, kernelVars, eventVars, timerVars, callVars, histVars
<1>16. ASSUME NEW f \in Fibers, ~crashed, cancelAll(f) PROVE IdOK'
  <2>1. UNCHANGED eventVars \/ Woke(call[f].fd, Registered(call[f].fd))
    BY <1>16, Wakes
  <2>2. QED  BY <1>16, <2>1 DEF cancelAll, goto, kernelVars, eventVars, timerVars, callVars,
        histVars
<1>17. ASSUME NEW f \in Fibers, ~crashed, del(f) PROVE IdOK'
  BY <1>17 DEF del, goto, kernelVars, eventVars, timerVars, callVars, histVars
<1>18. ASSUME NEW f \in Fibers, ~crashed, close_f(f) PROVE IdOK'
  BY <1>18 DEF close_f, goto, Return, kernelVars, eventVars, timerVars, callVars, histVars
<1>19. ASSUME NEW tm \in timers, ~crashed, Expire(tm) PROVE IdOK'
  BY <1>19 DEF Expire, kernelVars, eventVars, timerVars, callVars, histVars
<1>20. ASSUME NEW tm \in timers, ~crashed, CallbackMarks(tm) PROVE IdOK'
  BY <1>20 DEF CallbackMarks, kernelVars, eventVars, timerVars, callVars, histVars
<1>21. ASSUME NEW tm \in timers, ~crashed, CallbackCancels(tm) PROVE IdOK'
  <2>1. UNCHANGED eventVars \/ Woke(tm.fd, {tm.ev})
    BY <1>21, Wakes
  <2>2. QED  BY <1>21, <2>1 DEF CallbackCancels, kernelVars, eventVars, timerVars, callVars,
        histVars
<1>22. ASSUME NEW tm \in timers, ~crashed, SleepEnds(tm) PROVE IdOK'
  BY <1>22 DEF SleepEnds, kernelVars, eventVars, timerVars, callVars, histVars
<1>23. ASSUME NEW fd \in Fds, ~crashed, Arrive(fd) PROVE IdOK'
  BY <1>23 DEF Arrive, kernelVars, eventVars, timerVars, callVars, histVars
<1>24. ASSUME NEW fd \in Fds, NEW s \in {"connected", "refused"}, ~crashed,
      Decide(fd, s) PROVE IdOK'
  BY <1>24 DEF Decide, kernelVars, eventVars, timerVars, callVars, histVars
<1>25. ASSUME NEW fd \in Fds, NEW e \in Event, ~crashed, Trigger(fd, e) PROVE IdOK'
  <2>1. Woke(fd, {e})
    BY <1>25, Wakes
  <2>2. QED  BY <1>25, <2>1 DEF Trigger, kernelVars, eventVars, timerVars, callVars, histVars
<1>26. CASE UNCHANGED vars
  BY <1>26 DEF vars, kernelVars, eventVars, timerVars, callVars, histVars
<1> HIDE DEF HookInv, HookType, CallType, KernelType, IdOK, InCall
<1>27. QED
  BY <1>1, <1>2, <1>3, <1>4, <1>5, <1>6, <1>7, <1>8, <1>9, <1>10, <1>11, <1>12, <1>13, <1>14,
     <1>15, <1>16, <1>17, <1>18, <1>19, <1>20, <1>21, <1>22, <1>23, <1>24, <1>25, <1>26, NextCases

\* Each step of a call leads to one of its kind.
LEMMA KindStep == HookInv /\ [Next]_vars => KindOK'
<1> SUFFICES ASSUME HookInv, [Next]_vars PROVE KindOK'
  OBVIOUS
<1> USE HookAssumption DEF HookInv, HookType, CallType, KernelType, Kinds, PcStates, KindOK
<1>1. ASSUME NEW f \in Fibers, NEW fd \in Fds, NEW s \in {"fresh", "connected"}, ~crashed,
      Open(f, fd, s) PROVE KindOK'
  BY <1>1 DEF Open, kernelVars, eventVars, timerVars, callVars, histVars
<1>2. ASSUME NEW f \in Fibers, NEW fd \in Fds, NEW user \in BOOLEAN, ~crashed,
      fcntl(f, fd, user) PROVE KindOK'
  BY <1>2 DEF fcntl, UserOp, PassFlag, SysFlag, kernelVars, eventVars, timerVars, callVars,
     histVars
<1>3. ASSUME NEW f \in Fibers, NEW fd \in Fds, NEW user \in BOOLEAN, ~crashed,
      ioctl(f, fd, user) PROVE KindOK'
  BY <1>3 DEF ioctl, UserOp, PassFlag, kernelVars, eventVars, timerVars, callVars, histVars
<1>4. ASSUME NEW f \in Fibers, NEW fd \in Fds, ~crashed, setsockopt(f, fd) PROVE KindOK'
  BY <1>4 DEF setsockopt, UserOp, kernelVars, eventVars, timerVars, callVars, histVars
<1>5. ASSUME NEW f \in Fibers, NEW fd \in Fds, ~crashed, do_io(f, fd) PROVE KindOK'
  <2>1. Begun(f, "recv", fd, "READ")
    BY <1>5, Begins, NoCallFd
  <2>2. QED  BY <1>5, <2>1 DEF do_io, UserOp, goto, Begun, kernelVars, eventVars, timerVars,
        callVars, histVars
<1>6. ASSUME NEW f \in Fibers, NEW fd \in Fds, ~crashed, connect(f, fd) PROVE KindOK'
  <2>1. Begun(f, "connect", fd, "WRITE")
    BY <1>6, Begins, NoCallFd
  <2>2. pc'[f] \in {"user", "arm"} /\ \A g \in Fibers : g # f => pc'[g] = pc[g]
    BY <1>6 DEF connect, UserOp, goto, Return
  <2>3. /\ call'[f].kind = "connect" /\ call'[f].ev = "WRITE"
        /\ \A g \in Fibers : g # f => call'[g] = call[g]
    BY <2>1 DEF Begun
  <2>4. QED  BY <2>2, <2>3
<1>7. ASSUME NEW f \in Fibers, NEW fd \in Fds, ~crashed, close(f, fd) PROVE KindOK'
  <2>1. Begun(f, "close", fd, "READ")
    BY <1>7, Begins, NoCallFd
  <2>2. QED  BY <1>7, <2>1 DEF close, UserOp, goto, Begun, kernelVars, eventVars, timerVars,
        callVars, histVars
<1>8. ASSUME NEW f \in Fibers, ~crashed, sleep(f) PROVE KindOK'
  <2>1. Begun(f, "sleep", NoCall.fd, "READ")
    BY <1>8, Begins, NoCallFd
  <2>2. QED  BY <1>8, <2>1 DEF sleep, UserOp, goto, Begun, kernelVars, eventVars, timerVars,
        callVars, histVars
<1>9. ASSUME NEW f \in Fibers, ~crashed, Receive(f) PROVE KindOK'
  BY <1>9 DEF Receive, goto, Return, kernelVars, eventVars, timerVars, callVars, histVars
<1>10. ASSUME NEW f \in Fibers, ~crashed, Unblock(f) PROVE KindOK'
  BY <1>10 DEF Unblock, goto, Return, kernelVars, eventVars, timerVars, callVars, histVars
<1>11. ASSUME NEW f \in Fibers, ~crashed, Arm(f) PROVE KindOK'
  BY <1>11 DEF Arm, goto, kernelVars, eventVars, timerVars, callVars, histVars
<1>12. ASSUME NEW f \in Fibers, ~crashed, AddEvent(f) PROVE KindOK'
  BY <1>12 DEF AddEvent, goto, Return, kernelVars, eventVars, timerVars, callVars, histVars
<1>13. ASSUME NEW f \in Fibers, ~crashed, Resume(f) PROVE KindOK'
  BY <1>13 DEF Resume, goto, Return, kernelVars, eventVars, timerVars, callVars, histVars
<1>14. ASSUME NEW f \in Fibers, ~crashed, Check(f) PROVE KindOK'
  BY <1>14 DEF Check, goto, Return, kernelVars, eventVars, timerVars, callVars, histVars
<1>15. ASSUME NEW f \in Fibers, ~crashed, SoError(f) PROVE KindOK'
  BY <1>15 DEF SoError, goto, Return, kernelVars, eventVars, timerVars, callVars, histVars
<1>16. ASSUME NEW f \in Fibers, ~crashed, cancelAll(f) PROVE KindOK'
  <2>1. UNCHANGED eventVars \/ Woke(call[f].fd, Registered(call[f].fd))
    BY <1>16, Wakes
  <2>2. QED  BY <1>16, <2>1 DEF cancelAll, goto, kernelVars, eventVars, timerVars, callVars,
        histVars
<1>17. ASSUME NEW f \in Fibers, ~crashed, del(f) PROVE KindOK'
  BY <1>17 DEF del, goto, kernelVars, eventVars, timerVars, callVars, histVars
<1>18. ASSUME NEW f \in Fibers, ~crashed, close_f(f) PROVE KindOK'
  BY <1>18 DEF close_f, goto, Return, kernelVars, eventVars, timerVars, callVars, histVars
<1>19. ASSUME NEW tm \in timers, ~crashed, Expire(tm) PROVE KindOK'
  BY <1>19 DEF Expire, kernelVars, eventVars, timerVars, callVars, histVars
<1>20. ASSUME NEW tm \in timers, ~crashed, CallbackMarks(tm) PROVE KindOK'
  BY <1>20 DEF CallbackMarks, kernelVars, eventVars, timerVars, callVars, histVars
<1>21. ASSUME NEW tm \in timers, ~crashed, CallbackCancels(tm) PROVE KindOK'
  <2>1. UNCHANGED eventVars \/ Woke(tm.fd, {tm.ev})
    BY <1>21, Wakes
  <2>2. QED  BY <1>21, <2>1 DEF CallbackCancels, kernelVars, eventVars, timerVars, callVars,
        histVars
<1>22. ASSUME NEW tm \in timers, ~crashed, SleepEnds(tm) PROVE KindOK'
  BY <1>22 DEF SleepEnds, kernelVars, eventVars, timerVars, callVars, histVars
<1>23. ASSUME NEW fd \in Fds, ~crashed, Arrive(fd) PROVE KindOK'
  BY <1>23 DEF Arrive, kernelVars, eventVars, timerVars, callVars, histVars
<1>24. ASSUME NEW fd \in Fds, NEW s \in {"connected", "refused"}, ~crashed,
      Decide(fd, s) PROVE KindOK'
  BY <1>24 DEF Decide, kernelVars, eventVars, timerVars, callVars, histVars
<1>25. ASSUME NEW fd \in Fds, NEW e \in Event, ~crashed, Trigger(fd, e) PROVE KindOK'
  <2>1. Woke(fd, {e})
    BY <1>25, Wakes
  <2>2. QED  BY <1>25, <2>1 DEF Trigger, kernelVars, eventVars, timerVars, callVars, histVars
<1>26. CASE UNCHANGED vars
  BY <1>26 DEF vars, kernelVars, eventVars, timerVars, callVars, histVars
<1> HIDE DEF HookInv, HookType, CallType, KernelType, Kinds, PcStates, KindOK
<1>27. QED
  BY <1>1, <1>2, <1>3, <1>4, <1>5, <1>6, <1>7, <1>8, <1>9, <1>10, <1>11, <1>12, <1>13, <1>14,
     <1>15, <1>16, <1>17, <1>18, <1>19, <1>20, <1>21, <1>22, <1>23, <1>24, <1>25, <1>26, NextCases

\* Only ioctl and a closing descriptor let a call block.
LEMMA BlockStep == HookInv /\ [Next]_vars => BlockOK'
<1> SUFFICES ASSUME HookInv, [Next]_vars PROVE BlockOK'
  OBVIOUS
<1> USE HookAssumption DEF HookInv, HookType, CallType, KernelType, PcStates, KindOK, BlockOK,
      BlocksOnlyIfCleared
<1>1. ASSUME NEW f \in Fibers, NEW fd \in Fds, NEW s \in {"fresh", "connected"}, ~crashed,
      Open(f, fd, s) PROVE BlockOK'
  BY <1>1 DEF Open, kernelVars, eventVars, timerVars, callVars, histVars
<1>2. ASSUME NEW f \in Fibers, NEW fd \in Fds, NEW user \in BOOLEAN, ~crashed,
      fcntl(f, fd, user) PROVE BlockOK'
  BY <1>2 DEF fcntl, UserOp, PassFlag, SysFlag, kernelVars, eventVars, timerVars, callVars,
     histVars
<1>3. ASSUME NEW f \in Fibers, NEW fd \in Fds, NEW user \in BOOLEAN, ~crashed,
      ioctl(f, fd, user) PROVE BlockOK'
  BY <1>3 DEF ioctl, UserOp, PassFlag, kernelVars, eventVars, timerVars, callVars, histVars
<1>4. ASSUME NEW f \in Fibers, NEW fd \in Fds, ~crashed, setsockopt(f, fd) PROVE BlockOK'
  BY <1>4 DEF setsockopt, UserOp, kernelVars, eventVars, timerVars, callVars, histVars
<1>5. ASSUME NEW f \in Fibers, NEW fd \in Fds, ~crashed, do_io(f, fd) PROVE BlockOK'
  <2>1. Begun(f, "recv", fd, "READ")
    BY <1>5, Begins, NoCallFd
  <2>2. QED  BY <1>5, <2>1 DEF do_io, UserOp, goto, Begun, kernelVars, eventVars, timerVars,
        callVars, histVars
<1>6. ASSUME NEW f \in Fibers, NEW fd \in Fds, ~crashed, connect(f, fd) PROVE BlockOK'
  <2>1. Begun(f, "connect", fd, "WRITE")
    BY <1>6, Begins, NoCallFd
  <2>2. QED  BY <1>6, <2>1 DEF connect, UserOp, goto, Return, Begun, kernelVars, eventVars,
        timerVars, callVars, histVars
<1>7. ASSUME NEW f \in Fibers, NEW fd \in Fds, ~crashed, close(f, fd) PROVE BlockOK'
  <2>1. Begun(f, "close", fd, "READ")
    BY <1>7, Begins, NoCallFd
  <2>2. QED  BY <1>7, <2>1 DEF close, UserOp, goto, Begun, kernelVars, eventVars, timerVars,
        callVars, histVars
<1>8. ASSUME NEW f \in Fibers, ~crashed, sleep(f) PROVE BlockOK'
  <2>1. Begun(f, "sleep", NoCall.fd, "READ")
    BY <1>8, Begins, NoCallFd
  <2>2. QED  BY <1>8, <2>1 DEF sleep, UserOp, goto, Begun, kernelVars, eventVars, timerVars,
        callVars, histVars
<1>9. ASSUME NEW f \in Fibers, ~crashed, Receive(f) PROVE BlockOK'
  BY <1>9 DEF Receive, goto, Return, kernelVars, eventVars, timerVars, callVars, histVars
<1>10. ASSUME NEW f \in Fibers, ~crashed, Unblock(f) PROVE BlockOK'
  BY <1>10 DEF Unblock, goto, Return, kernelVars, eventVars, timerVars, callVars, histVars
<1>11. ASSUME NEW f \in Fibers, ~crashed, Arm(f) PROVE BlockOK'
  BY <1>11 DEF Arm, goto, kernelVars, eventVars, timerVars, callVars, histVars
<1>12. ASSUME NEW f \in Fibers, ~crashed, AddEvent(f) PROVE BlockOK'
  BY <1>12 DEF AddEvent, goto, Return, kernelVars, eventVars, timerVars, callVars, histVars
<1>13. ASSUME NEW f \in Fibers, ~crashed, Resume(f) PROVE BlockOK'
  BY <1>13 DEF Resume, goto, Return, kernelVars, eventVars, timerVars, callVars, histVars
<1>14. ASSUME NEW f \in Fibers, ~crashed, Check(f) PROVE BlockOK'
  BY <1>14 DEF Check, goto, Return, kernelVars, eventVars, timerVars, callVars, histVars
<1>15. ASSUME NEW f \in Fibers, ~crashed, SoError(f) PROVE BlockOK'
  BY <1>15 DEF SoError, goto, Return, kernelVars, eventVars, timerVars, callVars, histVars
<1>16. ASSUME NEW f \in Fibers, ~crashed, cancelAll(f) PROVE BlockOK'
  <2>1. UNCHANGED eventVars \/ Woke(call[f].fd, Registered(call[f].fd))
    BY <1>16, Wakes
  <2>2. QED  BY <1>16, <2>1 DEF cancelAll, goto, kernelVars, eventVars, timerVars, callVars,
        histVars
<1>17. ASSUME NEW f \in Fibers, ~crashed, del(f) PROVE BlockOK'
  BY <1>17 DEF del, goto, kernelVars, eventVars, timerVars, callVars, histVars
<1>18. ASSUME NEW f \in Fibers, ~crashed, close_f(f) PROVE BlockOK'
  BY <1>18 DEF close_f, goto, Return, kernelVars, eventVars, timerVars, callVars, histVars
<1>19. ASSUME NEW tm \in timers, ~crashed, Expire(tm) PROVE BlockOK'
  BY <1>19 DEF Expire, kernelVars, eventVars, timerVars, callVars, histVars
<1>20. ASSUME NEW tm \in timers, ~crashed, CallbackMarks(tm) PROVE BlockOK'
  BY <1>20 DEF CallbackMarks, kernelVars, eventVars, timerVars, callVars, histVars
<1>21. ASSUME NEW tm \in timers, ~crashed, CallbackCancels(tm) PROVE BlockOK'
  <2>1. UNCHANGED eventVars \/ Woke(tm.fd, {tm.ev})
    BY <1>21, Wakes
  <2>2. QED  BY <1>21, <2>1 DEF CallbackCancels, kernelVars, eventVars, timerVars, callVars,
        histVars
<1>22. ASSUME NEW tm \in timers, ~crashed, SleepEnds(tm) PROVE BlockOK'
  BY <1>22 DEF SleepEnds, kernelVars, eventVars, timerVars, callVars, histVars
<1>23. ASSUME NEW fd \in Fds, ~crashed, Arrive(fd) PROVE BlockOK'
  BY <1>23 DEF Arrive, kernelVars, eventVars, timerVars, callVars, histVars
<1>24. ASSUME NEW fd \in Fds, NEW s \in {"connected", "refused"}, ~crashed,
      Decide(fd, s) PROVE BlockOK'
  BY <1>24 DEF Decide, kernelVars, eventVars, timerVars, callVars, histVars
<1>25. ASSUME NEW fd \in Fds, NEW e \in Event, ~crashed, Trigger(fd, e) PROVE BlockOK'
  <2>1. Woke(fd, {e})
    BY <1>25, Wakes
  <2>2. QED  BY <1>25, <2>1 DEF Trigger, kernelVars, eventVars, timerVars, callVars, histVars
<1>26. CASE UNCHANGED vars
  BY <1>26 DEF vars, kernelVars, eventVars, timerVars, callVars, histVars
<1> HIDE DEF HookInv, HookType, CallType, KernelType, PcStates, KindOK, BlockOK,
      BlocksOnlyIfCleared
<1>27. QED
  BY <1>1, <1>2, <1>3, <1>4, <1>5, <1>6, <1>7, <1>8, <1>9, <1>10, <1>11, <1>12, <1>13, <1>14,
     <1>15, <1>16, <1>17, <1>18, <1>19, <1>20, <1>21, <1>22, <1>23, <1>24, <1>25, <1>26, NextCases

-----------------------------------------------------------------------------
(* Registrations and the run queue                                          *)

\* Where parked calls are left alone, and with them what others hold of them.
ParkedKept == \A g \in Fibers : pc[g] = "parked" => pc'[g] = "parked" /\ call'[g] = call[g]

\* Nobody is woken or registered.
LEMMA WaitKept ==
  ASSUME HookInv, UNCHANGED <<reg, woken>>, ParkedKept
  PROVE  WaitOK'
BY DEF HookInv, HookType, EventType, WaitOK, ParkedKept

\* Waking the fibers registered for some events of a descriptor.
LEMMA WaitWoken ==
  ASSUME HookInv, ParkedKept, NEW fd, NEW es, Woke(fd, es)
  PROVE  WaitOK'
<1>1. \A g \in woken' : pc'[g] = "parked"
  BY DEF HookInv, HookType, EventType, WaitOK, ParkedKept, Woke
<1>2. ASSUME NEW gd \in Fds, NEW d \in Event, reg'[gd][d] # NoFiber
      PROVE  /\ pc'[reg'[gd][d]] = "parked" /\ call'[reg'[gd][d]].fd = gd
             /\ call'[reg'[gd][d]].ev = d /\ reg'[gd][d] \notin woken'
             /\ call'[reg'[gd][d]].kind # "sleep"
  <2>1. reg'[gd][d] = reg[gd][d] /\ ~(gd = fd /\ d \in es)
    BY <1>2 DEF Woke
  <2>2. \A e \in es : reg[fd][e] # reg[gd][d]
    BY <1>2, <2>1 DEF HookInv, WaitOK, Woke
  <2>3. reg[gd][d] \in Fibers
    BY <1>2, <2>1 DEF HookInv, HookType, EventType
  <2>4. QED  BY <1>2, <2>1, <2>2, <2>3 DEF HookInv, WaitOK, ParkedKept, Woke
<1>3. QED  BY <1>1, <1>2 DEF WaitOK

\* Registrations, the run queue and the waiting calls agree.
LEMMA WaitStep == HookInv /\ [Next]_vars => WaitOK'
<1> SUFFICES ASSUME HookInv, [Next]_vars PROVE WaitOK'
  OBVIOUS
<1>1. ASSUME NEW f \in Fibers, NEW fd \in Fds, NEW s \in {"fresh", "connected"}, ~crashed,
      Open(f, fd, s) PROVE WaitOK'
  <2>1. UNCHANGED <<reg, woken>> /\ ParkedKept
    BY <1>1 DEF Open, kernelVars, eventVars, timerVars, callVars, histVars, HookInv, HookType,
       CallType, ParkedKept
  <2>2. QED  BY <2>1, WaitKept
<1>2. ASSUME NEW f \in Fibers, NEW fd \in Fds, NEW user \in BOOLEAN, ~crashed,
      fcntl(f, fd, user) PROVE WaitOK'
  <2>1. UNCHANGED <<reg, woken>> /\ ParkedKept
    BY <1>2 DEF fcntl, UserOp, PassFlag, kernelVars, eventVars, timerVars, callVars, histVars,
       HookInv, HookType, CallType, ParkedKept
  <2>2. QED  BY <2>1, WaitKept
<1>3. ASSUME NEW f \in Fibers, NEW fd \in Fds, NEW user \in BOOLEAN, ~crashed,
      ioctl(f, fd, user) PROVE WaitOK'
  <2>1. UNCHANGED <<reg, woken>> /\ ParkedKept
    BY <1>3 DEF ioctl, UserOp, PassFlag, kernelVars, eventVars, timerVars, callVars, histVars,
       HookInv, HookType, CallType, ParkedKept
  <2>2. QED  BY <2>1, WaitKept
<1>4. ASSUME NEW f \in Fibers, NEW fd \in Fds, ~crashed, setsockopt(f, fd) PROVE WaitOK'
  <2>1. UNCHANGED <<reg, woken>> /\ ParkedKept
    BY <1>4 DEF setsockopt, UserOp, kernelVars, eventVars, timerVars, callVars, histVars,
       HookInv, HookType, CallType, ParkedKept
  <2>2. QED  BY <2>1, WaitKept
<1>5. ASSUME NEW f \in Fibers, NEW fd \in Fds, ~crashed, do_io(f, fd) PROVE WaitOK'
  <2>1. Begun(f, "recv", fd, "READ")
    BY <1>5, Begins, NoCallFd DEF HookInv, HookType
  <2>2. UNCHANGED <<reg, woken>> /\ ParkedKept
    BY <1>5, <2>1 DEF Begun, do_io, UserOp, goto, kernelVars, eventVars, timerVars, callVars,
       histVars, HookInv, HookType, CallType, ParkedKept
  <2>3. QED  BY <2>2, WaitKept
<1>6. ASSUME NEW f \in Fibers, NEW fd \in Fds, ~crashed, connect(f, fd) PROVE WaitOK'
  <2>1. Begun(f, "connect", fd, "WRITE")
    BY <1>6, Begins, NoCallFd DEF HookInv, HookType
  <2>2. UNCHANGED <<reg, woken>> /\ ParkedKept
    BY <1>6, <2>1 DEF Begun, connect, UserOp, goto, Return, kernelVars, eventVars, timerVars,
       callVars, histVars, HookInv, HookType, CallType, ParkedKept
  <2>3. QED  BY <2>2, WaitKept
<1>7. ASSUME NEW f \in Fibers, NEW fd \in Fds, ~crashed, close(f, fd) PROVE WaitOK'
  <2>1. Begun(f, "close", fd, "READ")
    BY <1>7, Begins, NoCallFd DEF HookInv, HookType
  <2>2. UNCHANGED <<reg, woken>> /\ ParkedKept
    BY <1>7, <2>1 DEF Begun, close, UserOp, goto, kernelVars, eventVars, timerVars, callVars,
       histVars, HookInv, HookType, CallType, ParkedKept
  <2>3. QED  BY <2>2, WaitKept
<1>8. ASSUME NEW f \in Fibers, ~crashed, sleep(f) PROVE WaitOK'
  <2>1. Begun(f, "sleep", NoCall.fd, "READ")
    BY <1>8, Begins, NoCallFd DEF HookInv, HookType
  <2>2. UNCHANGED <<reg, woken>> /\ ParkedKept
    BY <1>8, <2>1 DEF Begun, sleep, UserOp, goto, kernelVars, eventVars, timerVars, callVars,
       histVars, HookInv, HookType, CallType, ParkedKept
  <2>3. QED  BY <2>2, WaitKept
<1>9. ASSUME NEW f \in Fibers, ~crashed, Receive(f) PROVE WaitOK'
  <2>1. UNCHANGED <<reg, woken>> /\ ParkedKept
    BY <1>9 DEF Receive, goto, Return, kernelVars, eventVars, timerVars, callVars, histVars,
       HookInv, HookType, CallType, ParkedKept
  <2>2. QED  BY <2>1, WaitKept
<1>10. ASSUME NEW f \in Fibers, ~crashed, Unblock(f) PROVE WaitOK'
  <2>1. UNCHANGED <<reg, woken>> /\ ParkedKept
    BY <1>10 DEF Unblock, goto, Return, kernelVars, eventVars, timerVars, callVars, histVars,
       HookInv, HookType, CallType, ParkedKept
  <2>2. QED  BY <2>1, WaitKept
<1>11. ASSUME NEW f \in Fibers, ~crashed, Arm(f) PROVE WaitOK'
  <2>1. UNCHANGED <<reg, woken>> /\ ParkedKept
    BY <1>11 DEF Arm, goto, kernelVars, eventVars, timerVars, callVars, histVars, HookInv,
       HookType, CallType, ParkedKept
  <2>2. QED  BY <2>1, WaitKept
<1>12. ASSUME NEW f \in Fibers, ~crashed, AddEvent(f) PROVE WaitOK'
  <2>1. ParkedKept /\ woken' = woken /\ call[f].fd \in Fds /\ call[f].ev \in Event
    BY <1>12 DEF AddEvent, goto, Return, callVars, HookInv, HookType, CallType, ParkedKept
  <2>2. CASE reg' = reg
    BY <2>1, <2>2, WaitKept
  <2>3. CASE /\ reg[call[f].fd][call[f].ev] = NoFiber
             /\ reg' = [reg EXCEPT ![call[f].fd][call[f].ev] = f]
             /\ pc' = [pc EXCEPT ![f] = "parked"]
    <3>1. \A g \in woken' : pc'[g] = "parked"
      BY <2>1 DEF HookInv, HookType, EventType, WaitOK, ParkedKept
    <3>2. pc'[f] = "parked" /\ call' = call /\ f \notin woken /\ call[f].kind # "sleep"
      BY <1>12, <2>3 DEF AddEvent, callVars, HookInv, HookType, CallType, WaitOK, KindOK
    <3>3. \A gd \in Fds, d \in Event : reg'[gd][d] =
             IF gd = call[f].fd /\ d = call[f].ev THEN f ELSE reg[gd][d]
      BY <2>1, <2>3 DEF HookInv, HookType, EventType
    <3>4. \A gd \in Fds, d \in Event : reg[gd][d] # NoFiber => reg[gd][d] \in Fibers
      BY DEF HookInv, HookType, EventType
    <3>5. QED  BY <2>1, <3>1, <3>2, <3>3, <3>4 DEF HookInv, WaitOK, ParkedKept
  <2>4. QED  BY <1>12, <2>2, <2>3 DEF AddEvent, goto
<1>13. ASSUME NEW f \in Fibers, ~crashed, Resume(f) PROVE WaitOK'
  <2>1. reg' = reg /\ woken' = woken \ {f} /\ call' = call /\ f \in woken
    BY <1>13 DEF Resume, callVars
  <2>2. \A g \in Fibers : g # f => pc'[g] = pc[g]
    BY <1>13 DEF Resume, goto, Return, HookInv, HookType, CallType
  <2>3. QED  BY <2>1, <2>2 DEF HookInv, HookType, EventType, WaitOK
<1>14. ASSUME NEW f \in Fibers, ~crashed, Check(f) PROVE WaitOK'
  <2>1. UNCHANGED <<reg, woken>> /\ ParkedKept
    BY <1>14 DEF Check, goto, Return, kernelVars, eventVars, timerVars, callVars, histVars,
       HookInv, HookType, CallType, ParkedKept
  <2>2. QED  BY <2>1, WaitKept
<1>15. ASSUME NEW f \in Fibers, ~crashed, SoError(f) PROVE WaitOK'
  <2>1. UNCHANGED <<reg, woken>> /\ ParkedKept
    BY <1>15 DEF SoError, goto, Return, kernelVars, eventVars, timerVars, callVars, histVars,
       HookInv, HookType, CallType, ParkedKept
  <2>2. QED  BY <2>1, WaitKept
<1>16. ASSUME NEW f \in Fibers, ~crashed, cancelAll(f) PROVE WaitOK'
  <2>1. ParkedKept
    BY <1>16 DEF cancelAll, goto, callVars, HookInv, HookType, CallType, ParkedKept
  <2>2. UNCHANGED eventVars \/ Woke(call[f].fd, Registered(call[f].fd))
    BY <1>16, Wakes
  <2>3. QED  BY <2>1, <2>2, WaitKept, WaitWoken DEF eventVars
<1>17. ASSUME NEW f \in Fibers, ~crashed, del(f) PROVE WaitOK'
  <2>1. UNCHANGED <<reg, woken>> /\ ParkedKept
    BY <1>17 DEF del, goto, kernelVars, eventVars, timerVars, callVars, histVars, HookInv,
       HookType, CallType, ParkedKept
  <2>2. QED  BY <2>1, WaitKept
<1>18. ASSUME NEW f \in Fibers, ~crashed, close_f(f) PROVE WaitOK'
  <2>1. UNCHANGED <<reg, woken>> /\ ParkedKept
    BY <1>18 DEF close_f, goto, Return, kernelVars, eventVars, timerVars, callVars, histVars,
       HookInv, HookType, CallType, ParkedKept
  <2>2. QED  BY <2>1, WaitKept
<1>19. ASSUME NEW tm \in timers, ~crashed, Expire(tm) PROVE WaitOK'
  <2>1. UNCHANGED <<reg, woken>> /\ ParkedKept
    BY <1>19 DEF Expire, kernelVars, eventVars, timerVars, callVars, histVars, HookInv,
       HookType, CallType, ParkedKept
  <2>2. QED  BY <2>1, WaitKept
<1>20. ASSUME NEW tm \in timers, ~crashed, CallbackMarks(tm) PROVE WaitOK'
  <2>1. UNCHANGED <<reg, woken>> /\ ParkedKept
    BY <1>20 DEF CallbackMarks, kernelVars, eventVars, timerVars, callVars, histVars, HookInv,
       HookType, CallType, ParkedKept
  <2>2. QED  BY <2>1, WaitKept
<1>21. ASSUME NEW tm \in timers, ~crashed, CallbackCancels(tm) PROVE WaitOK'
  <2>1. ParkedKept
    BY <1>21 DEF CallbackCancels, goto, callVars, HookInv, HookType, CallType, ParkedKept
  <2>2. UNCHANGED eventVars \/ Woke(tm.fd, {tm.ev})
    BY <1>21, Wakes
  <2>3. QED  BY <2>1, <2>2, WaitKept, WaitWoken DEF eventVars
<1>22. ASSUME NEW tm \in timers, ~crashed, SleepEnds(tm) PROVE WaitOK'
  <2>1. /\ UNCHANGED <<reg, pc, call>> /\ woken' = woken \cup {tm.f} /\ tm.ev = "SLEEP"
        /\ tm.f \in Fibers
    BY <1>22, TimerParts DEF SleepEnds, callVars, HookInv, HookType, HistoryType
  <2>2. pc[tm.f] = "parked" /\ call[tm.f].kind = "sleep"
    BY <2>1 DEF HookInv, SleepOK
  <2>3. QED  BY <2>1, <2>2 DEF HookInv, HookType, EventType, WaitOK
<1>23. ASSUME NEW fd \in Fds, ~crashed, Arrive(fd) PROVE WaitOK'
  <2>1. UNCHANGED <<reg, woken>> /\ ParkedKept
    BY <1>23 DEF Arrive, kernelVars, eventVars, timerVars, callVars, histVars, HookInv,
       HookType, CallType, ParkedKept
  <2>2. QED  BY <2>1, WaitKept
<1>24. ASSUME NEW fd \in Fds, NEW s \in {"connected", "refused"}, ~crashed,
      Decide(fd, s) PROVE WaitOK'
  <2>1. UNCHANGED <<reg, woken>> /\ ParkedKept
    BY <1>24 DEF Decide, kernelVars, eventVars, timerVars, callVars, histVars, HookInv,
       HookType, CallType, ParkedKept
  <2>2. QED  BY <2>1, WaitKept
<1>25. ASSUME NEW fd \in Fds, NEW e \in Event, ~crashed, Trigger(fd, e) PROVE WaitOK'
  <2>1. ParkedKept
    BY <1>25 DEF Trigger, goto, callVars, HookInv, HookType, CallType, ParkedKept
  <2>2. Woke(fd, {e})
    BY <1>25, Wakes
  <2>3. QED  BY <2>1, <2>2, WaitKept, WaitWoken DEF eventVars
<1>26. CASE UNCHANGED vars
  BY <1>26 DEF HookInv, WaitOK, vars, kernelVars, eventVars, timerVars, callVars, histVars
<1>27. QED
  BY <1>1, <1>2, <1>3, <1>4, <1>5, <1>6, <1>7, <1>8, <1>9, <1>10, <1>11, <1>12, <1>13, <1>14,
     <1>15, <1>16, <1>17, <1>18, <1>19, <1>20, <1>21, <1>22, <1>23, <1>24, <1>25, <1>26, NextCases

-----------------------------------------------------------------------------
(* Timers                                                                   *)

\* A fiber asleep stays so, and no new timer of a sleep appears.
Asleep(g) == pc[g] = "parked" /\ call[g].kind = "sleep" /\ g \notin woken
SleepKept ==
    /\ \A g \in Fibers : Asleep(g) => Asleep(g)' /\ id'[g] = id[g]
    /\ \A tm \in timers' : tm.ev = "SLEEP" => tm \in timers

\* So the sleeps stay as they are.
LEMMA SleepStays ==
  ASSUME HookInv, SleepKept
  PROVE  SleepOK'
<1>1. \A tm \in timers : tm.f \in Fibers
  BY TimerParts DEF HookInv, HookType, HistoryType
<1>2. QED  BY <1>1 DEF HookInv, SleepOK, SleepKept, Asleep

\* A sleeping fiber has its own timer until that wakes it.
LEMMA SleepStep == HookInv /\ [Next]_vars => SleepOK'
<1> SUFFICES ASSUME HookInv, [Next]_vars PROVE SleepOK'
  OBVIOUS
<1>1. ASSUME NEW f \in Fibers, NEW fd \in Fds, NEW s \in {"fresh", "connected"}, ~crashed,
      Open(f, fd, s) PROVE SleepOK'
  <2>1. SleepKept
    BY <1>1 DEF Open, kernelVars, eventVars, timerVars, callVars, histVars, HookInv, HookType,
       CallType, Asleep, SleepKept
  <2>2. QED  BY <2>1, SleepStays
<1>2. ASSUME NEW f \in Fibers, NEW fd \in Fds, NEW user \in BOOLEAN, ~crashed,
      fcntl(f, fd, user) PROVE SleepOK'
  <2>1. SleepKept
    BY <1>2 DEF fcntl, UserOp, PassFlag, kernelVars, eventVars, timerVars, callVars, histVars,
       HookInv, HookType, CallType, Asleep, SleepKept
  <2>2. QED  BY <2>1, SleepStays
<1>3. ASSUME NEW f \in Fibers, NEW fd \in Fds, NEW user \in BOOLEAN, ~crashed,
      ioctl(f, fd, user) PROVE SleepOK'
  <2>1. SleepKept
    BY <1>3 DEF ioctl, UserOp, PassFlag, kernelVars, eventVars, timerVars, callVars, histVars,
       HookInv, HookType, CallType, Asleep, SleepKept
  <2>2. QED  BY <2>1, SleepStays
<1>4. ASSUME NEW f \in Fibers, NEW fd \in Fds, ~crashed, setsockopt(f, fd) PROVE SleepOK'
  <2>1. SleepKept
    BY <1>4 DEF setsockopt, UserOp, kernelVars, eventVars, timerVars, callVars, histVars,
       HookInv, HookType, CallType, Asleep, SleepKept
  <2>2. QED  BY <2>1, SleepStays
<1>5. ASSUME NEW f \in Fibers, NEW fd \in Fds, ~crashed, do_io(f, fd) PROVE SleepOK'
  <2>1. Begun(f, "recv", fd, "READ")
    BY <1>5, Begins, NoCallFd DEF HookInv, HookType
  <2>2. SleepKept
    BY <1>5, <2>1 DEF Begun, do_io, UserOp, goto, kernelVars, eventVars, timerVars, callVars,
       histVars, HookInv, HookType, CallType, Asleep, SleepKept
  <2>3. QED  BY <2>2, SleepStays
<1>6. ASSUME NEW f \in Fibers, NEW fd \in Fds, ~crashed, connect(f, fd) PROVE SleepOK'
  <2>1. Begun(f, "connect", fd, "WRITE")
    BY <1>6, Begins, NoCallFd DEF HookInv, HookType
  <2>2. SleepKept
    BY <1>6, <2>1 DEF Begun, connect, UserOp, goto, Return, kernelVars, eventVars, timerVars,
       callVars, histVars, HookInv, HookType, CallType, Asleep, SleepKept
  <2>3. QED  BY <2>2, SleepStays
<1>7. ASSUME NEW f \in Fibers, NEW fd \in Fds, ~crashed, close(f, fd) PROVE SleepOK'
  <2>1. Begun(f, "close", fd, "READ")
    BY <1>7, Begins, NoCallFd DEF HookInv, HookType
  <2>2. SleepKept
    BY <1>7, <2>1 DEF Begun, close, UserOp, goto, kernelVars, eventVars, timerVars, callVars,
       histVars, HookInv, HookType, CallType, Asleep, SleepKept
  <2>3. QED  BY <2>2, SleepStays
<1>8. ASSUME NEW f \in Fibers, ~crashed, sleep(f) PROVE SleepOK'
  <2>1. Begun(f, "sleep", NoCall.fd, "READ")
    BY <1>8, Begins, NoCallFd DEF HookInv, HookType
  <2> DEFINE tn == [f |-> f, id |-> id[f] + 1, fd |-> NoCall.fd, ev |-> "SLEEP", st |-> "armed"]
  <2>2. tn.f = f /\ tn.id = id[f] + 1 /\ tn.ev = "SLEEP" /\ tn.st = "armed"
    OBVIOUS
  <2>3. timers' = timers \cup {tn} /\ woken' = woken
    BY <1>8 DEF sleep, eventVars
  <2> HIDE DEF tn
  <2>4. pc[f] = "user" /\ pc'[f] = "parked" /\ \A g \in Fibers : g # f => pc'[g] = pc[g]
    BY <1>8 DEF sleep, UserOp, goto, HookInv, HookType, CallType
  <2>5. f \notin woken
    BY <2>4 DEF HookInv, WaitOK
  <2>6. \A tm \in timers : tm.f \in Fibers
    BY TimerParts DEF HookInv, HookType, HistoryType
  <2>7. \A tm \in timers : tm.ev = "SLEEP" => tm.f # f
    BY <2>4 DEF HookInv, SleepOK
  <2>8. QED  BY <2>1, <2>2, <2>3, <2>4, <2>5, <2>6, <2>7 DEF Begun, HookInv, SleepOK
<1>9. ASSUME NEW f \in Fibers, ~crashed, Receive(f) PROVE SleepOK'
  <2>1. SleepKept
    BY <1>9 DEF Receive, goto, Return, kernelVars, eventVars, timerVars, callVars, histVars,
       HookInv, HookType, CallType, Asleep, SleepKept
  <2>2. QED  BY <2>1, SleepStays
<1>10. ASSUME NEW f \in Fibers, ~crashed, Unblock(f) PROVE SleepOK'
  <2>1. SleepKept
    BY <1>10 DEF Unblock, goto, Return, kernelVars, eventVars, timerVars, callVars, histVars,
       HookInv, HookType, CallType, Asleep, SleepKept
  <2>2. QED  BY <2>1, SleepStays
<1>11. ASSUME NEW f \in Fibers, ~crashed, Arm(f) PROVE SleepOK'
  <2>1. \A g \in Fibers : Asleep(g) => Asleep(g)' /\ id'[g] = id[g]
    BY <1>11 DEF Arm, goto, callVars, eventVars, Asleep, HookInv, HookType, CallType
  <2>2. NewTimer(f, call[f].ev).ev # "SLEEP"
    BY DEF NewTimer, HookInv, HookType, CallType, Event
  <2>3. timers' \subseteq timers \cup {NewTimer(f, call[f].ev)}
    BY <1>11 DEF Arm
  <2>4. QED  BY <2>1, <2>2, <2>3, SleepStays DEF SleepKept
<1>12. ASSUME NEW f \in Fibers, ~crashed, AddEvent(f) PROVE SleepOK'
  <2>1. SleepKept
    BY <1>12 DEF AddEvent, goto, Return, CancelTimer, kernelVars, eventVars, timerVars,
       callVars, histVars, HookInv, HookType, CallType, Asleep, SleepKept
  <2>2. QED  BY <2>1, SleepStays
<1>13. ASSUME NEW f \in Fibers, ~crashed, Resume(f) PROVE SleepOK'
  <2>1. SleepKept
    BY <1>13 DEF Resume, goto, Return, CancelTimer, kernelVars, eventVars, timerVars, callVars,
       histVars, HookInv, HookType, CallType, Asleep, SleepKept
  <2>2. QED  BY <2>1, SleepStays
<1>14. ASSUME NEW f \in Fibers, ~crashed, Check(f) PROVE SleepOK'
  <2>1. SleepKept
    BY <1>14 DEF Check, goto, Return, kernelVars, eventVars, timerVars, callVars, histVars,
       HookInv, HookType, CallType, Asleep, SleepKept
  <2>2. QED  BY <2>1, SleepStays
<1>15. ASSUME NEW f \in Fibers, ~crashed, SoError(f) PROVE SleepOK'
  <2>1. SleepKept
    BY <1>15 DEF SoError, goto, Return, kernelVars, eventVars, timerVars, callVars, histVars,
       HookInv, HookType, CallType, Asleep, SleepKept
  <2>2. QED  BY <2>1, SleepStays
<1>16. ASSUME NEW f \in Fibers, ~crashed, cancelAll(f) PROVE SleepOK'
  <2>1. UNCHANGED eventVars \/ Woke(call[f].fd, Registered(call[f].fd))
    BY <1>16, Wakes
  <2>2. \A g \in woken' \ woken : call[g].kind # "sleep"
    BY <2>1 DEF HookInv, WaitOK, Woke, eventVars
  <2>3. SleepKept
    BY <1>16, <2>2 DEF cancelAll, goto, callVars, timerVars, Asleep, SleepKept, HookInv,
       HookType, CallType
  <2>4. QED  BY <2>3, SleepStays
<1>17. ASSUME NEW f \in Fibers, ~crashed, del(f) PROVE SleepOK'
  <2>1. SleepKept
    BY <1>17 DEF del, goto, kernelVars, eventVars, timerVars, callVars, histVars, HookInv,
       HookType, CallType, Asleep, SleepKept
  <2>2. QED  BY <2>1, SleepStays
<1>18. ASSUME NEW f \in Fibers, ~crashed, close_f(f) PROVE SleepOK'
  <2>1. SleepKept
    BY <1>18 DEF close_f, goto, Return, kernelVars, eventVars, timerVars, callVars, histVars,
       HookInv, HookType, CallType, Asleep, SleepKept
  <2>2. QED  BY <2>1, SleepStays
<1>19. ASSUME NEW tm \in timers, ~crashed, Expire(tm) PROVE SleepOK'
  <2> DEFINE tn == [tm EXCEPT !.st = "handed"]
  <2>1. tn.f = tm.f /\ tn.id = tm.id /\ tn.ev = tm.ev /\ tn.st = "handed" /\ tm.f \in Fibers
    <3>1. tm \in TimerRecords
      BY DEF HookInv, HookType, HistoryType
    <3>2. QED  BY <3>1 DEF TimerRecords
  <2>2. timers' = (timers \ {tm}) \cup {tn} /\ UNCHANGED <<pc, call, id, woken>>
    BY <1>19 DEF Expire, callVars, eventVars
  <2> HIDE DEF tn
  <2>3. QED  BY <2>1, <2>2 DEF HookInv, SleepOK
<1>20. ASSUME NEW tm \in timers, ~crashed, CallbackMarks(tm) PROVE SleepOK'
  <2> DEFINE tn == [tm EXCEPT !.st = "marked"]
  <2>1. tn.ev = tm.ev
    BY TimerParts DEF HookInv, HookType, HistoryType
  <2>2. timers' \subseteq timers \cup {tn} /\ UNCHANGED <<pc, call, id, woken>> /\ tm.ev # "SLEEP"
    BY <1>20 DEF CallbackMarks, callVars, eventVars
  <2> HIDE DEF tn
  <2>3. QED  BY <2>1, <2>2, SleepStays DEF SleepKept, Asleep
<1>21. ASSUME NEW tm \in timers, ~crashed, CallbackCancels(tm) PROVE SleepOK'
  <2>1. UNCHANGED eventVars \/ Woke(tm.fd, {tm.ev})
    BY <1>21, Wakes
  <2>2. \A g \in woken' \ woken : call[g].kind # "sleep"
    BY <2>1 DEF HookInv, WaitOK, Woke, eventVars
  <2>3. SleepKept
    BY <1>21, <2>2 DEF CallbackCancels, goto, callVars, timerVars, Asleep, SleepKept, HookInv,
       HookType, CallType
  <2>4. QED  BY <2>3, SleepStays
<1>22. ASSUME NEW tm \in timers, ~crashed, SleepEnds(tm) PROVE SleepOK'
  <2>1. timers' = timers \ {tm} /\ woken' = woken \cup {tm.f} /\ UNCHANGED <<pc, call, id>> /\ tm.ev = "SLEEP"
    BY <1>22 DEF SleepEnds, callVars
  <2>2. QED  BY <2>1 DEF HookInv, SleepOK
<1>23. ASSUME NEW fd \in Fds, ~crashed, Arrive(fd) PROVE SleepOK'
  <2>1. SleepKept
    BY <1>23 DEF Arrive, kernelVars, eventVars, timerVars, callVars, histVars, HookInv,
       HookType, CallType, Asleep, SleepKept
  <2>2. QED  BY <2>1, SleepStays
<1>24. ASSUME NEW fd \in Fds, NEW s \in {"connected", "refused"}, ~crashed,
      Decide(fd, s) PROVE SleepOK'
  <2>1. SleepKept
    BY <1>24 DEF Decide, kernelVars, eventVars, timerVars, callVars, histVars, HookInv,
       HookType, CallType, Asleep, SleepKept
  <2>2. QED  BY <2>1, SleepStays
<1>25. ASSUME NEW fd \in Fds, NEW e \in Event, ~crashed, Trigger(fd, e) PROVE SleepOK'
  <2>1. Woke(fd, {e})
    BY <1>25, Wakes
  <2>2. \A g \in woken' \ woken : call[g].kind # "sleep"
    BY <2>1 DEF HookInv, WaitOK, Woke, eventVars
  <2>3. SleepKept
    BY <1>25, <2>2 DEF Trigger, goto, callVars, timerVars, Asleep, SleepKept, HookInv,
       HookType, CallType
  <2>4. QED  BY <2>3, SleepStays
<1>26. CASE UNCHANGED vars
  BY <1>26 DEF HookInv, SleepOK, vars, kernelVars, eventVars, timerVars, callVars, histVars
<1>27. QED
  BY <1>1, <1>2, <1>3, <1>4, <1>5, <1>6, <1>7, <1>8, <1>9, <1>10, <1>11, <1>12, <1>13, <1>14,
     <1>15, <1>16, <1>17, <1>18, <1>19, <1>20, <1>21, <1>22, <1>23, <1>24, <1>25, <1>26, NextCases

\* Timers only go away, calls keep their numbers, and no call leaves its wait
\* with a timer armed.
TimerKept ==
    /\ timers' \subseteq timers /\ UNCHANGED <<id, cancelled, expired>>
    /\ \A g \in Fibers : pc'[g] \in {"add", "parked"} \/ pc'[g] = pc[g]
                            \/ \A tm \in timers' : tm.f = g => tm.st # "armed"

\* So the timers stay as they are.
LEMMA TimerStays ==
  ASSUME HookInv, TimerKept
  PROVE  TimerOK'
<1>1. \A tm \in timers : tm.f \in Fibers
  BY TimerParts DEF HookInv, HookType, HistoryType
<1>2. QED  BY <1>1 DEF HookInv, TimerOK, NoTimerLeft, TimerKept

\* A new call makes the timers of the last one old; none of them is armed.
LEMMA TimerBegun ==
  ASSUME HookInv, NEW f \in Fibers, pc[f] = "user", NEW k, NEW fd, NEW e, Begun(f, k, fd, e),
         \A tm \in timers' : tm \in timers \/ (tm.f = f /\ tm.id = id'[f] /\ tm.st = "armed"
                                                /\ pc'[f] \in {"add", "parked"}),
         \A g \in Fibers : g # f => pc'[g] = pc[g]
  PROVE  TimerOK'
<1>1. \A tm \in timers : tm.f \in Fibers /\ tm.id \in Nat
  <2>1. \A tm \in timers : tm.f \in Fibers /\ tm.id \in 1 .. MaxOps
    BY TimerParts DEF HookInv, HookType, HistoryType
  <2>2. QED  BY <2>1, HookAssumption
<1>2. \A tm \in timers : tm.f = f => tm.st # "armed" /\ tm.id < id'[f]
  <2>1. id[f] \in Nat /\ id'[f] = id[f] + 1
    BY DEF HookInv, HookType, CallType, Begun
  <2>2. \A tm \in timers : tm.id <= id[tm.f] /\ (tm.st = "armed" => pc[tm.f] \in {"add", "parked"})
    BY DEF HookInv, TimerOK, NoTimerLeft
  <2>3. QED  BY <1>1, <2>1, <2>2
<1>3. \A tm \in timers : tm.f # f =>
         /\ id'[tm.f] = id[tm.f] /\ pc'[tm.f] = pc[tm.f]
         /\ <<tm.f, tm.id>>[1] = tm.f
         /\ <<tm.f, tm.id>> \in expired => <<tm.f, tm.id>> \in expired'
         /\ <<tm.f, tm.id>> \in cancelled => <<tm.f, tm.id>> \in cancelled'
  BY <1>1 DEF Begun
<1>4. id'[f] \in Nat /\ cancelled' \subseteq expired'
  BY DEF HookInv, TimerOK, Begun
<1>5. ASSUME NEW tm \in timers'
      PROVE  /\ tm.id <= id'[tm.f]
             /\ tm.st # "armed" /\ tm.id = id'[tm.f] => <<tm.f, tm.id>> \in expired'
             /\ tm.st = "marked" /\ tm.id = id'[tm.f] => <<tm.f, tm.id>> \in cancelled'
             /\ tm.st = "armed" => tm.id = id'[tm.f] /\ pc'[tm.f] \in {"add", "parked"}
  <2>1. CASE tm \in timers /\ tm.f # f
    BY <2>1, <1>3 DEF HookInv, TimerOK, NoTimerLeft
  <2>2. CASE tm \in timers /\ tm.f = f
    BY <2>2, <1>1, <1>2, <1>4
  <2>3. CASE tm \notin timers
    BY <2>3, <1>4
  <2>4. QED  BY <2>1, <2>2, <2>3
<1>6. QED  BY <1>4, <1>5 DEF TimerOK, NoTimerLeft

\* Timers belong to their calls, and what they did is known.
LEMMA TimersStep == HookInv /\ [Next]_vars => TimerOK'
<1> SUFFICES ASSUME HookInv, [Next]_vars PROVE TimerOK'
  OBVIOUS
<1>1. ASSUME NEW f \in Fibers, NEW fd \in Fds, NEW s \in {"fresh", "connected"}, ~crashed,
      Open(f, fd, s) PROVE TimerOK'
  <2>1. TimerKept
    BY <1>1 DEF Open, kernelVars, eventVars, timerVars, callVars, histVars, HookInv, HookType,
       CallType, TimerOK, NoTimerLeft, TimerKept
  <2>2. QED  BY <2>1, TimerStays
<1>2. ASSUME NEW f \in Fibers, NEW fd \in Fds, NEW user \in BOOLEAN, ~crashed,
      fcntl(f, fd, user) PROVE TimerOK'
  <2>1. TimerKept
    BY <1>2 DEF fcntl, UserOp, PassFlag, kernelVars, eventVars, timerVars, callVars, histVars,
       HookInv, HookType, CallType, TimerOK, NoTimerLeft, TimerKept
  <2>2. QED  BY <2>1, TimerStays
<1>3. ASSUME NEW f \in Fibers, NEW fd \in Fds, NEW user \in BOOLEAN, ~crashed,
      ioctl(f, fd, user) PROVE TimerOK'
  <2>1. TimerKept
    BY <1>3 DEF ioctl, UserOp, PassFlag, kernelVars, eventVars, timerVars, callVars, histVars,
       HookInv, HookType, CallType, TimerOK, NoTimerLeft, TimerKept
  <2>2. QED  BY <2>1, TimerStays
<1>4. ASSUME NEW f \in Fibers, NEW fd \in Fds, ~crashed, setsockopt(f, fd) PROVE TimerOK'
  <2>1. TimerKept
    BY <1>4 DEF setsockopt, UserOp, kernelVars, eventVars, timerVars, callVars, histVars,
       HookInv, HookType, CallType, TimerOK, NoTimerLeft, TimerKept
  <2>2. QED  BY <2>1, TimerStays
<1>5. ASSUME NEW f \in Fibers, NEW fd \in Fds, ~crashed, do_io(f, fd) PROVE TimerOK'
  <2>1. Begun(f, "recv", fd, "READ")
    BY <1>5, Begins, NoCallFd DEF HookInv, HookType
  <2>2. pc[f] = "user" /\ timers' = timers /\ \A g \in Fibers : g # f => pc'[g] = pc[g]
    BY <1>5 DEF do_io, UserOp, goto, Return, HookInv, HookType, CallType
  <2>3. QED  BY <2>1, <2>2, TimerBegun
<1>6. ASSUME NEW f \in Fibers, NEW fd \in Fds, ~crashed, connect(f, fd) PROVE TimerOK'
  <2>1. Begun(f, "connect", fd, "WRITE")
    BY <1>6, Begins, NoCallFd DEF HookInv, HookType
  <2>2. pc[f] = "user" /\ timers' = timers /\ \A g \in Fibers : g # f => pc'[g] = pc[g]
    BY <1>6 DEF connect, UserOp, goto, Return, HookInv, HookType, CallType
  <2>3. QED  BY <2>1, <2>2, TimerBegun
<1>7. ASSUME NEW f \in Fibers, NEW fd \in Fds, ~crashed, close(f, fd) PROVE TimerOK'
  <2>1. Begun(f, "close", fd, "READ")
    BY <1>7, Begins, NoCallFd DEF HookInv, HookType
  <2>2. pc[f] = "user" /\ timers' = timers /\ \A g \in Fibers : g # f => pc'[g] = pc[g]
    BY <1>7 DEF close, UserOp, goto, Return, HookInv, HookType, CallType
  <2>3. QED  BY <2>1, <2>2, TimerBegun
<1>8. ASSUME NEW f \in Fibers, ~crashed, sleep(f) PROVE TimerOK'
  <2>1. Begun(f, "sleep", NoCall.fd, "READ")
    BY <1>8, Begins, NoCallFd DEF HookInv, HookType
  <2> DEFINE tn == [f |-> f, id |-> id[f] + 1, fd |-> NoCall.fd, ev |-> "SLEEP", st |-> "armed"]
  <2>2. tn.f = f /\ tn.id = id[f] + 1 /\ tn.st = "armed"
    OBVIOUS
  <2>3. timers' = timers \cup {tn}
    BY <1>8 DEF sleep
  <2> HIDE DEF tn
  <2>4. pc[f] = "user" /\ pc'[f] = "parked" /\ \A g \in Fibers : g # f => pc'[g] = pc[g]
    BY <1>8 DEF sleep, UserOp, goto, HookInv, HookType, CallType
  <2>5. id'[f] = id[f] + 1
    BY <2>1 DEF Begun
  <2>6. QED  BY <2>1, <2>2, <2>3, <2>4, <2>5, TimerBegun
<1>9. ASSUME NEW f \in Fibers, ~crashed, Receive(f) PROVE TimerOK'
  <2>1. TimerKept
    BY <1>9 DEF Receive, goto, Return, kernelVars, eventVars, timerVars, callVars, histVars,
       HookInv, HookType, CallType, TimerOK, NoTimerLeft, TimerKept
  <2>2. QED  BY <2>1, TimerStays
<1>10. ASSUME NEW f \in Fibers, ~crashed, Unblock(f) PROVE TimerOK'
  <2>1. TimerKept
    BY <1>10 DEF Unblock, goto, Return, kernelVars, eventVars, timerVars, callVars, histVars,
       HookInv, HookType, CallType, TimerOK, NoTimerLeft, TimerKept
  <2>2. QED  BY <2>1, TimerStays
<1>11. ASSUME NEW f \in Fibers, ~crashed, Arm(f) PROVE TimerOK'
  <2> DEFINE tn == NewTimer(f, call[f].ev)
  <2>1. tn.f = f /\ tn.id = id[f] /\ tn.st = "armed"
    BY DEF NewTimer
  <2>2. timers' \subseteq timers \cup {tn} /\ UNCHANGED <<id, cancelled, expired>>
    BY <1>11 DEF Arm, callVars, histVars
  <2>3. pc[f] = "arm" /\ pc'[f] = "add" /\ \A g \in Fibers : g # f => pc'[g] = pc[g]
    BY <1>11 DEF Arm, goto, HookInv, HookType, CallType
  <2>4. id[f] \in Nat
    BY DEF HookInv, HookType, CallType
  <2>5. \A tm \in timers : tm.f \in Fibers
    BY TimerParts DEF HookInv, HookType, HistoryType
  <2> HIDE DEF tn
  <2>6. QED  BY <2>1, <2>2, <2>3, <2>4, <2>5 DEF HookInv, TimerOK, NoTimerLeft
<1>12. ASSUME NEW f \in Fibers, ~crashed, AddEvent(f) PROVE TimerOK'
  <2>1. UNCHANGED <<id, cancelled, expired>> /\ timers' \subseteq timers
    BY <1>12 DEF AddEvent, callVars, CancelTimer
  <2>2. \A g \in Fibers : g # f => pc'[g] = pc[g]
    BY <1>12 DEF AddEvent, goto, Return, HookInv, HookType, CallType
  <2>3. pc'[f] \in {"add", "parked"} \/ \A tm \in timers' : tm.f = f => tm.st # "armed"
    BY <1>12 DEF AddEvent, goto, CancelTimer, HookInv, HookType, CallType
  <2>4. QED  BY <2>1, <2>2, <2>3, TimerStays DEF TimerKept
<1>13. ASSUME NEW f \in Fibers, ~crashed, Resume(f) PROVE TimerOK'
  <2>1. UNCHANGED <<id, cancelled, expired>> /\ timers' \subseteq timers
    BY <1>13 DEF Resume, callVars, histVars, CancelTimer
  <2>2. \A g \in Fibers : g # f => pc'[g] = pc[g]
    BY <1>13 DEF Resume, goto, Return, HookInv, HookType, CallType
  <2>3. pc'[f] \in {"add", "parked"} \/ \A tm \in timers' : tm.f = f => tm.st # "armed"
    BY <1>13 DEF Resume, goto, CancelTimer, HookInv, HookType, CallType
  <2>4. QED  BY <2>1, <2>2, <2>3, TimerStays DEF TimerKept
<1>14. ASSUME NEW f \in Fibers, ~crashed, Check(f) PROVE TimerOK'
  <2>1. TimerKept
    BY <1>14 DEF Check, goto, Return, kernelVars, eventVars, timerVars, callVars, histVars,
       HookInv, HookType, CallType, TimerOK, NoTimerLeft, TimerKept
  <2>2. QED  BY <2>1, TimerStays
<1>15. ASSUME NEW f \in Fibers, ~crashed, SoError(f) PROVE TimerOK'
  <2>1. TimerKept
    BY <1>15 DEF SoError, goto, Return, kernelVars, eventVars, timerVars, callVars, histVars,
       HookInv, HookType, CallType, TimerOK, NoTimerLeft, TimerKept
  <2>2. QED  BY <2>1, TimerStays
<1>16. ASSUME NEW f \in Fibers, ~crashed, cancelAll(f) PROVE TimerOK'
  <2>1. TimerKept
    BY <1>16 DEF cancelAll, goto, kernelVars, eventVars, timerVars, callVars, histVars,
       HookInv, HookType, CallType, TimerOK, NoTimerLeft, TimerKept
  <2>2. QED  BY <2>1, TimerStays
<1>17. ASSUME NEW f \in Fibers, ~crashed, del(f) PROVE TimerOK'
  <2>1. TimerKept
    BY <1>17 DEF del, goto, kernelVars, eventVars, timerVars, callVars, histVars, HookInv,
       HookType, CallType, TimerOK, NoTimerLeft, TimerKept
  <2>2. QED  BY <2>1, TimerStays
<1>18. ASSUME NEW f \in Fibers, ~crashed, close_f(f) PROVE TimerOK'
  <2>1. TimerKept
    BY <1>18 DEF close_f, goto, Return, kernelVars, eventVars, timerVars, callVars, histVars,
       HookInv, HookType, CallType, TimerOK, NoTimerLeft, TimerKept
  <2>2. QED  BY <2>1, TimerStays
<1>19. ASSUME NEW tm \in timers, ~crashed, Expire(tm) PROVE TimerOK'
  <2> DEFINE tn == [tm EXCEPT !.st = "handed"]
  <2>1. tn.f = tm.f /\ tn.id = tm.id /\ tn.st = "handed"
    BY TimerParts DEF HookInv, HookType, HistoryType
  <2>2. timers' = (timers \ {tm}) \cup {tn} /\ UNCHANGED <<pc, id, cancelled>>
        /\ expired' = expired \cup {<<tm.f, tm.id>>}
    BY <1>19 DEF Expire, callVars
  <2> HIDE DEF tn
  <2>3. QED  BY <2>1, <2>2 DEF HookInv, TimerOK, NoTimerLeft
<1>20. ASSUME NEW tm \in timers, ~crashed, CallbackMarks(tm) PROVE TimerOK'
  <2> DEFINE tn == [tm EXCEPT !.st = "marked"]
  <2>1. tn.f = tm.f /\ tn.id = tm.id /\ tn.st = "marked"
    BY TimerParts DEF HookInv, HookType, HistoryType
  <2>2. UNCHANGED <<pc, id, expired>> /\ tm.st = "handed"
    BY <1>20 DEF CallbackMarks, callVars, histVars
  <2>3. CASE timers' = timers \ {tm} /\ UNCHANGED cancelled
    BY <2>2, <2>3, TimerStays DEF TimerKept
  <2>4. CASE /\ Alive(tm) /\ cancelled' = cancelled \cup {<<tm.f, tm.id>>}
             /\ timers' = (timers \ {tm}) \cup {tn}
    <3>1. tm.id = id[tm.f]
      BY <2>4 DEF Alive, FlagOf, tinfo
    <3> HIDE DEF tn
    <3>2. QED  BY <2>1, <2>2, <2>4, <3>1 DEF HookInv, TimerOK, NoTimerLeft
  <2>5. QED  BY <1>20, <2>3, <2>4 DEF CallbackMarks, FlagOf
<1>21. ASSUME NEW tm \in timers, ~crashed, CallbackCancels(tm) PROVE TimerOK'
  <2>1. TimerKept
    BY <1>21 DEF CallbackCancels, kernelVars, eventVars, timerVars, callVars, histVars,
       HookInv, HookType, CallType, TimerOK, NoTimerLeft, TimerKept
  <2>2. QED  BY <2>1, TimerStays
<1>22. ASSUME NEW tm \in timers, ~crashed, SleepEnds(tm) PROVE TimerOK'
  <2>1. TimerKept
    BY <1>22 DEF SleepEnds, kernelVars, eventVars, timerVars, callVars, histVars, HookInv,
       HookType, CallType, TimerOK, NoTimerLeft, TimerKept
  <2>2. QED  BY <2>1, TimerStays
<1>23. ASSUME NEW fd \in Fds, ~crashed, Arrive(fd) PROVE TimerOK'
  <2>1. TimerKept
    BY <1>23 DEF Arrive, kernelVars, eventVars, timerVars, callVars, histVars, HookInv,
       HookType, CallType, TimerOK, NoTimerLeft, TimerKept
  <2>2. QED  BY <2>1, TimerStays
<1>24. ASSUME NEW fd \in Fds, NEW s \in {"connected", "refused"}, ~crashed,
      Decide(fd, s) PROVE TimerOK'
  <2>1. TimerKept
    BY <1>24 DEF Decide, kernelVars, eventVars, timerVars, callVars, histVars, HookInv,
       HookType, CallType, TimerOK, NoTimerLeft, TimerKept
  <2>2. QED  BY <2>1, TimerStays
<1>25. ASSUME NEW fd \in Fds, NEW e \in Event, ~crashed, Trigger(fd, e) PROVE TimerOK'
  <2>1. TimerKept
    BY <1>25 DEF Trigger, kernelVars, eventVars, timerVars, callVars, histVars, HookInv,
       HookType, CallType, TimerOK, NoTimerLeft, TimerKept
  <2>2. QED  BY <2>1, TimerStays
<1>26. CASE UNCHANGED vars
  BY <1>26 DEF HookInv, TimerOK, NoTimerLeft, vars, kernelVars, eventVars, timerVars, callVars,
     histVars
<1>27. QED
  BY <1>1, <1>2, <1>3, <1>4, <1>5, <1>6, <1>7, <1>8, <1>9, <1>10, <1>11, <1>12, <1>13, <1>14,
     <1>15, <1>16, <1>17, <1>18, <1>19, <1>20, <1>21, <1>22, <1>23, <1>24, <1>25, <1>26, NextCases

-----------------------------------------------------------------------------
(* Timeouts, connections and the assertion of addEvent                      *)

\* Only Check returns ETIMEDOUT; a call that has begun has not returned.
NoNewTimeout ==
    /\ UNCHANGED id /\ expired \subseteq expired'
    /\ \A g \in Fibers : ret'[g] = "ETIMEDOUT" /\ pc'[g] = "user" => ret[g] = "ETIMEDOUT" /\ pc[g] = "user"

\* So no timeout is new, or it is a real one.
LEMMA TimeoutKept ==
  ASSUME HookInv, UNCHANGED id, expired \subseteq expired',
         \A g \in Fibers : ret'[g] = "ETIMEDOUT" /\ pc'[g] = "user" =>
             (ret[g] = "ETIMEDOUT" /\ pc[g] = "user") \/ tinfo(g) \in expired
  PROVE  TimeoutIsReal'
BY DEF HookInv, TimeoutIsReal, InCall, tinfo

\* Who returned ETIMEDOUT was marked by a timer of that call.
LEMMA TimeoutStep == HookInv /\ [Next]_vars => TimeoutIsReal'
<1> SUFFICES ASSUME HookInv, [Next]_vars PROVE TimeoutIsReal'
  OBVIOUS
<1>1. ASSUME NEW f \in Fibers, NEW fd \in Fds, NEW s \in {"fresh", "connected"}, ~crashed,
      Open(f, fd, s) PROVE TimeoutIsReal'
  <2>1. NoNewTimeout
    BY <1>1 DEF Open, kernelVars, eventVars, timerVars, callVars, histVars, HookInv, HookType,
       CallType, NoNewTimeout
  <2>2. QED  BY <2>1, TimeoutKept DEF NoNewTimeout
<1>2. ASSUME NEW f \in Fibers, NEW fd \in Fds, NEW user \in BOOLEAN, ~crashed,
      fcntl(f, fd, user) PROVE TimeoutIsReal'
  <2>1. NoNewTimeout
    BY <1>2 DEF fcntl, UserOp, PassFlag, kernelVars, eventVars, timerVars, callVars, histVars,
       HookInv, HookType, CallType, NoNewTimeout
  <2>2. QED  BY <2>1, TimeoutKept DEF NoNewTimeout
<1>3. ASSUME NEW f \in Fibers, NEW fd \in Fds, NEW user \in BOOLEAN, ~crashed,
      ioctl(f, fd, user) PROVE TimeoutIsReal'
  <2>1. NoNewTimeout
    BY <1>3 DEF ioctl, UserOp, PassFlag, kernelVars, eventVars, timerVars, callVars, histVars,
       HookInv, HookType, CallType, NoNewTimeout
  <2>2. QED  BY <2>1, TimeoutKept DEF NoNewTimeout
<1>4. ASSUME NEW f \in Fibers, NEW fd \in Fds, ~crashed, setsockopt(f, fd) PROVE TimeoutIsReal'
  <2>1. NoNewTimeout
    BY <1>4 DEF setsockopt, UserOp, kernelVars, eventVars, timerVars, callVars, histVars,
       HookInv, HookType, CallType, NoNewTimeout
  <2>2. QED  BY <2>1, TimeoutKept DEF NoNewTimeout
<1>5. ASSUME NEW f \in Fibers, NEW fd \in Fds, ~crashed, do_io(f, fd) PROVE TimeoutIsReal'
  <2>1. Begun(f, "recv", fd, "READ")
    BY <1>5, Begins, NoCallFd DEF HookInv, HookType
  <2>2. \A g \in Fibers : g # f => pc'[g] = pc[g] /\ ret'[g] = ret[g]
    BY <1>5 DEF do_io, goto, Return, HookInv, HookType, CallType
  <2>3. pc'[f] # "user" \/ ret'[f] # "ETIMEDOUT"
    BY <1>5 DEF do_io, goto, Return, HookInv, HookType, CallType
  <2>4. \A g \in Fibers : g # f => tinfo(g)' = tinfo(g) /\ (tinfo(g) \in expired => tinfo(g) \in expired')
    BY <2>1 DEF Begun, tinfo
  <2>5. QED  BY <2>2, <2>3, <2>4 DEF HookInv, TimeoutIsReal, InCall
<1>6. ASSUME NEW f \in Fibers, NEW fd \in Fds, ~crashed, connect(f, fd) PROVE TimeoutIsReal'
  <2>1. Begun(f, "connect", fd, "WRITE")
    BY <1>6, Begins, NoCallFd DEF HookInv, HookType
  <2>2. \A g \in Fibers : g # f => pc'[g] = pc[g] /\ ret'[g] = ret[g]
    BY <1>6 DEF connect, goto, Return, HookInv, HookType, CallType
  <2>3. pc'[f] # "user" \/ ret'[f] # "ETIMEDOUT"
    BY <1>6 DEF connect, goto, Return, HookInv, HookType, CallType
  <2>4. \A g \in Fibers : g # f => tinfo(g)' = tinfo(g) /\ (tinfo(g) \in expired => tinfo(g) \in expired')
    BY <2>1 DEF Begun, tinfo
  <2>5. QED  BY <2>2, <2>3, <2>4 DEF HookInv, TimeoutIsReal, InCall
<1>7. ASSUME NEW f \in Fibers, NEW fd \in Fds, ~crashed, close(f, fd) PROVE TimeoutIsReal'
  <2>1. Begun(f, "close", fd, "READ")
    BY <1>7, Begins, NoCallFd DEF HookInv, HookType
  <2>2. \A g \in Fibers : g # f => pc'[g] = pc[g] /\ ret'[g] = ret[g]
    BY <1>7 DEF close, goto, Return, HookInv, HookType, CallType
  <2>3. pc'[f] # "user" \/ ret'[f] # "ETIMEDOUT"
    BY <1>7 DEF close, goto, Return, HookInv, HookType, CallType
  <2>4. \A g \in Fibers : g # f => tinfo(g)' = tinfo(g) /\ (tinfo(g) \in expired => tinfo(g) \in expired')
    BY <2>1 DEF Begun, tinfo
  <2>5. QED  BY <2>2, <2>3, <2>4 DEF HookInv, TimeoutIsReal, InCall
<1>8. ASSUME NEW f \in Fibers, ~crashed, sleep(f) PROVE TimeoutIsReal'
  <2>1. Begun(f, "sleep", NoCall.fd, "READ")
    BY <1>8, Begins, NoCallFd DEF HookInv, HookType
  <2>2. \A g \in Fibers : g # f => pc'[g] = pc[g] /\ ret'[g] = ret[g]
    BY <1>8 DEF sleep, goto, Return, HookInv, HookType, CallType
  <2>3. pc'[f] # "user" \/ ret'[f] # "ETIMEDOUT"
    BY <1>8 DEF sleep, goto, Return, HookInv, HookType, CallType
  <2>4. \A g \in Fibers : g # f => tinfo(g)' = tinfo(g) /\ (tinfo(g) \in expired => tinfo(g) \in expired')
    BY <2>1 DEF Begun, tinfo
  <2>5. QED  BY <2>2, <2>3, <2>4 DEF HookInv, TimeoutIsReal, InCall
<1>9. ASSUME NEW f \in Fibers, ~crashed, Receive(f) PROVE TimeoutIsReal'
  <2>1. NoNewTimeout
    BY <1>9 DEF Receive, goto, Return, kernelVars, eventVars, timerVars, callVars, histVars,
       HookInv, HookType, CallType, NoNewTimeout
  <2>2. QED  BY <2>1, TimeoutKept DEF NoNewTimeout
<1>10. ASSUME NEW f \in Fibers, ~crashed, Unblock(f) PROVE TimeoutIsReal'
  <2>1. NoNewTimeout
    BY <1>10 DEF Unblock, goto, Return, kernelVars, eventVars, timerVars, callVars, histVars,
       HookInv, HookType, CallType, NoNewTimeout
  <2>2. QED  BY <2>1, TimeoutKept DEF NoNewTimeout
<1>11. ASSUME NEW f \in Fibers, ~crashed, Arm(f) PROVE TimeoutIsReal'
  <2>1. NoNewTimeout
    BY <1>11 DEF Arm, goto, kernelVars, eventVars, timerVars, callVars, histVars, HookInv,
       HookType, CallType, NoNewTimeout
  <2>2. QED  BY <2>1, TimeoutKept DEF NoNewTimeout
<1>12. ASSUME NEW f \in Fibers, ~crashed, AddEvent(f) PROVE TimeoutIsReal'
  <2>1. NoNewTimeout
    BY <1>12 DEF AddEvent, goto, Return, CancelTimer, kernelVars, eventVars, timerVars,
       callVars, histVars, HookInv, HookType, CallType, NoNewTimeout
  <2>2. QED  BY <2>1, TimeoutKept DEF NoNewTimeout
<1>13. ASSUME NEW f \in Fibers, ~crashed, Resume(f) PROVE TimeoutIsReal'
  <2>1. NoNewTimeout
    BY <1>13 DEF Resume, goto, Return, CancelTimer, kernelVars, eventVars, timerVars, callVars,
       histVars, HookInv, HookType, CallType, NoNewTimeout
  <2>2. QED  BY <2>1, TimeoutKept DEF NoNewTimeout
<1>14. ASSUME NEW f \in Fibers, ~crashed, Check(f) PROVE TimeoutIsReal'
  <2>1. UNCHANGED <<id, expired>> /\ \A g \in Fibers : g # f => pc'[g] = pc[g] /\ ret'[g] = ret[g]
    BY <1>14 DEF Check, goto, Return, callVars, histVars, HookInv, HookType, CallType
  <2>2. TimedOut(f) \/ pc'[f] # "user"
    BY <1>14 DEF Check, goto, HookInv, HookType, CallType
  <2>3. TimedOut(f) => tinfo(f) \in expired
    BY DEF TimedOut, HookInv, TimerOK
  <2>4. QED  BY <2>1, <2>2, <2>3, TimeoutKept
<1>15. ASSUME NEW f \in Fibers, ~crashed, SoError(f) PROVE TimeoutIsReal'
  <2>1. NoNewTimeout
    BY <1>15 DEF SoError, goto, Return, kernelVars, eventVars, timerVars, callVars, histVars,
       HookInv, HookType, CallType, NoNewTimeout
  <2>2. QED  BY <2>1, TimeoutKept DEF NoNewTimeout
<1>16. ASSUME NEW f \in Fibers, ~crashed, cancelAll(f) PROVE TimeoutIsReal'
  <2>1. NoNewTimeout
    BY <1>16 DEF cancelAll, goto, kernelVars, eventVars, timerVars, callVars, histVars,
       HookInv, HookType, CallType, NoNewTimeout
  <2>2. QED  BY <2>1, TimeoutKept DEF NoNewTimeout
<1>17. ASSUME NEW f \in Fibers, ~crashed, del(f) PROVE TimeoutIsReal'
  <2>1. NoNewTimeout
    BY <1>17 DEF del, goto, kernelVars, eventVars, timerVars, callVars, histVars, HookInv,
       HookType, CallType, NoNewTimeout
  <2>2. QED  BY <2>1, TimeoutKept DEF NoNewTimeout
<1>18. ASSUME NEW f \in Fibers, ~crashed, close_f(f) PROVE TimeoutIsReal'
  <2>1. NoNewTimeout
    BY <1>18 DEF close_f, goto, Return, kernelVars, eventVars, timerVars, callVars, histVars,
       HookInv, HookType, CallType, NoNewTimeout
  <2>2. QED  BY <2>1, TimeoutKept DEF NoNewTimeout
<1>19. ASSUME NEW tm \in timers, ~crashed, Expire(tm) PROVE TimeoutIsReal'
  <2>1. NoNewTimeout
    BY <1>19 DEF Expire, kernelVars, eventVars, timerVars, callVars, histVars, HookInv,
       HookType, CallType, NoNewTimeout
  <2>2. QED  BY <2>1, TimeoutKept DEF NoNewTimeout
<1>20. ASSUME NEW tm \in timers, ~crashed, CallbackMarks(tm) PROVE TimeoutIsReal'
  <2>1. NoNewTimeout
    BY <1>20 DEF CallbackMarks, kernelVars, eventVars, timerVars, callVars, histVars, HookInv,
       HookType, CallType, NoNewTimeout
  <2>2. QED  BY <2>1, TimeoutKept DEF NoNewTimeout
<1>21. ASSUME NEW tm \in timers, ~crashed, CallbackCancels(tm) PROVE TimeoutIsReal'
  <2>1. NoNewTimeout
    BY <1>21 DEF CallbackCancels, kernelVars, eventVars, timerVars, callVars, histVars,
       HookInv, HookType, CallType, NoNewTimeout
  <2>2. QED  BY <2>1, TimeoutKept DEF NoNewTimeout
<1>22. ASSUME NEW tm \in timers, ~crashed, SleepEnds(tm) PROVE TimeoutIsReal'
  <2>1. NoNewTimeout
    BY <1>22 DEF SleepEnds, kernelVars, eventVars, timerVars, callVars, histVars, HookInv,
       HookType, CallType, NoNewTimeout
  <2>2. QED  BY <2>1, TimeoutKept DEF NoNewTimeout
<1>23. ASSUME NEW fd \in Fds, ~crashed, Arrive(fd) PROVE TimeoutIsReal'
  <2>1. NoNewTimeout
    BY <1>23 DEF Arrive, kernelVars, eventVars, timerVars, callVars, histVars, HookInv,
       HookType, CallType, NoNewTimeout
  <2>2. QED  BY <2>1, TimeoutKept DEF NoNewTimeout
<1>24. ASSUME NEW fd \in Fds, NEW s \in {"connected", "refused"}, ~crashed,
      Decide(fd, s) PROVE TimeoutIsReal'
  <2>1. NoNewTimeout
    BY <1>24 DEF Decide, kernelVars, eventVars, timerVars, callVars, histVars, HookInv,
       HookType, CallType, NoNewTimeout
  <2>2. QED  BY <2>1, TimeoutKept DEF NoNewTimeout
<1>25. ASSUME NEW fd \in Fds, NEW e \in Event, ~crashed, Trigger(fd, e) PROVE TimeoutIsReal'
  <2>1. NoNewTimeout
    BY <1>25 DEF Trigger, kernelVars, eventVars, timerVars, callVars, histVars, HookInv,
       HookType, CallType, NoNewTimeout
  <2>2. QED  BY <2>1, TimeoutKept DEF NoNewTimeout
<1>26. CASE UNCHANGED vars
  BY <1>26 DEF HookInv, TimeoutIsReal, InCall, tinfo, vars, kernelVars, eventVars, timerVars,
     callVars, histVars
<1>27. QED
  BY <1>1, <1>2, <1>3, <1>4, <1>5, <1>6, <1>7, <1>8, <1>9, <1>10, <1>11, <1>12, <1>13, <1>14,
     <1>15, <1>16, <1>17, <1>18, <1>19, <1>20, <1>21, <1>22, <1>23, <1>24, <1>25, <1>26, NextCases

\* The sockets and the calls under way stay, or calls return.
ConnKept ==
    /\ UNCHANGED <<sock, call, id>> /\ closed \subseteq closed'
    /\ \A g \in Fibers : pc'[g] # "user" => pc[g] # "user"

\* So the connections stay as they are.
LEMMA ConnStays ==
  ASSUME HookInv, ConnKept
  PROVE  ConnOK'
BY DEF HookInv, ConnOK, ConnKept, Calling, InCall, tinfo

\* What a new call leaves of the others.
LEMMA OthersCall ==
  ASSUME NEW f \in Fibers, NEW k, NEW fd, NEW e, Begun(f, k, fd, e),
         \A g \in Fibers : g # f => pc'[g] = pc[g], NEW g \in Fibers, g # f
  PROVE  /\ tinfo(g)' = tinfo(g) /\ call'[g] = call[g] /\ pc'[g] = pc[g]
         /\ tinfo(g) \in closed <=> tinfo(g) \in closed'
         /\ tinfo(g) \in stray <=> tinfo(g) \in stray'
         /\ tinfo(g) \in cancelled <=> tinfo(g) \in cancelled'
BY DEF Begun, tinfo

\* Connections under way.
LEMMA ConnStep == HookInv /\ [Next]_vars => ConnOK'
<1> SUFFICES ASSUME HookInv, [Next]_vars PROVE ConnOK'
  OBVIOUS
<1>1. ASSUME NEW f \in Fibers, NEW fd \in Fds, NEW s \in {"fresh", "connected"}, ~crashed,
      Open(f, fd, s) PROVE ConnOK'
  <2>1. UNCHANGED <<call, id, pc, closed>> /\ \A g \in Fibers : call[g].fd \in Fds
    BY <1>1 DEF Open, callVars, histVars, HookInv, HookType, CallType
  <2>2. sock[fd] = "closed" /\ \A gd \in Fds : gd # fd => sock'[gd] = sock[gd]
    BY <1>1 DEF Open, HookInv, HookType, KernelType
  <2>3. QED  BY <2>1, <2>2 DEF HookInv, ConnOK, Calling, InCall, tinfo
<1>2. ASSUME NEW f \in Fibers, NEW fd \in Fds, NEW user \in BOOLEAN, ~crashed,
      fcntl(f, fd, user) PROVE ConnOK'
  <2>1. ConnKept
    BY <1>2 DEF fcntl, UserOp, PassFlag, kernelVars, eventVars, timerVars, callVars, histVars,
       HookInv, HookType, CallType, ConnKept
  <2>2. QED  BY <2>1, ConnStays
<1>3. ASSUME NEW f \in Fibers, NEW fd \in Fds, NEW user \in BOOLEAN, ~crashed,
      ioctl(f, fd, user) PROVE ConnOK'
  <2>1. ConnKept
    BY <1>3 DEF ioctl, UserOp, PassFlag, kernelVars, eventVars, timerVars, callVars, histVars,
       HookInv, HookType, CallType, ConnKept
  <2>2. QED  BY <2>1, ConnStays
<1>4. ASSUME NEW f \in Fibers, NEW fd \in Fds, ~crashed, setsockopt(f, fd) PROVE ConnOK'
  <2>1. ConnKept
    BY <1>4 DEF setsockopt, UserOp, kernelVars, eventVars, timerVars, callVars, histVars,
       HookInv, HookType, CallType, ConnKept
  <2>2. QED  BY <2>1, ConnStays
<1>5. ASSUME NEW f \in Fibers, NEW fd \in Fds, ~crashed, do_io(f, fd) PROVE ConnOK'
  <2>1. Begun(f, "recv", fd, "READ")
    BY <1>5, Begins, NoCallFd DEF HookInv, HookType
  <2>2. pc[f] = "user" /\ \A g \in Fibers : g # f => pc'[g] = pc[g]
    BY <1>5 DEF do_io, UserOp, goto, Return, HookInv, HookType, CallType
  <2>3. \A g \in Fibers : g # f =>
           /\ tinfo(g)' = tinfo(g) /\ call'[g] = call[g] /\ pc'[g] = pc[g]
           /\ tinfo(g) \in closed <=> tinfo(g) \in closed'
    BY <2>1, <2>2, OthersCall
  <2>4. call'[f].kind = "recv" /\ call'[f].fd = fd
    BY <2>1 DEF Begun
  <2>5. sock' = sock /\ \A g \in Fibers \ {f} : InCall(g) => call[g].fd # fd \/ call[g].kind # "recv"
    BY <1>5 DEF do_io, kernelVars
  <2>6. QED  BY <2>3, <2>4, <2>5 DEF HookInv, ConnOK, Calling, InCall
<1>6. ASSUME NEW f \in Fibers, NEW fd \in Fds, ~crashed, connect(f, fd) PROVE ConnOK'
  <2>1. Begun(f, "connect", fd, "WRITE")
    BY <1>6, Begins, NoCallFd DEF HookInv, HookType
  <2>2. pc[f] = "user" /\ \A g \in Fibers : g # f => pc'[g] = pc[g]
    BY <1>6 DEF connect, UserOp, goto, Return, HookInv, HookType, CallType
  <2>3. \A g \in Fibers : g # f =>
           /\ tinfo(g)' = tinfo(g) /\ call'[g] = call[g] /\ pc'[g] = pc[g]
           /\ tinfo(g) \in closed <=> tinfo(g) \in closed'
    BY <2>1, <2>2, OthersCall
  <2>4. call'[f].kind = "connect" /\ call'[f].fd = fd
    BY <2>1 DEF Begun
  <2>5. \A g \in Fibers : Calling(g, "connect") /\ call[g].fd = fd => tinfo(g) \in closed
    BY <1>6 DEF connect, HookInv, ConnOK
  <2>6. /\ \A gd \in Fds : gd # fd => sock'[gd] = sock[gd]
        /\ pc'[f] # "user" => sock'[fd] = "connecting"
    BY <1>6 DEF connect, goto, Return, HookInv, HookType, KernelType, CallType
  <2>7. \A g \in Fibers : call[g].fd \in Fds
    BY DEF HookInv, HookType, CallType
  <2>8. \A g \in Fibers : Calling(g, "connect")' /\ g # f => Calling(g, "connect")
    BY <2>3 DEF Calling, InCall
  <2>9. \A g \in Fibers : Calling(g, "recv")' => Calling(g, "recv") /\ g # f
    BY <2>3, <2>4 DEF Calling, InCall
  <2>10. ASSUME NEW g \in Fibers, Calling(g, "connect")', tinfo(g)' \notin closed'
         PROVE  sock'[call'[g].fd] \in {"connecting", "connected", "refused"}
    <3>1. CASE g = f
      BY <3>1, <2>10, <2>4, <2>6 DEF Calling, InCall
    <3>2. CASE g # f
      BY <3>2, <2>10, <2>3, <2>5, <2>6, <2>7, <2>8 DEF HookInv, ConnOK
    <3>3. QED  BY <3>1, <3>2
  <2>11. ASSUME NEW g \in Fibers, NEW h \in Fibers, Calling(g, "connect")',
        Calling(h, "connect")',
                call'[g].fd = call'[h].fd
         PROVE  g = h \/ tinfo(g)' \in closed' \/ tinfo(h)' \in closed'
    BY <2>11, <2>3, <2>4, <2>5, <2>8 DEF HookInv, ConnOK
  <2>12. \A g, h \in Fibers : Calling(g, "recv")' /\ Calling(h, "recv")' /\ call'[g].fd = call'[h].fd => g = h
    BY <2>3, <2>9 DEF HookInv, ConnOK
  <2>13. QED  BY <2>10, <2>11, <2>12 DEF ConnOK
<1>7. ASSUME NEW f \in Fibers, NEW fd \in Fds, ~crashed, close(f, fd) PROVE ConnOK'
  <2>1. Begun(f, "close", fd, "READ")
    BY <1>7, Begins, NoCallFd DEF HookInv, HookType
  <2>2. pc[f] = "user" /\ \A g \in Fibers : g # f => pc'[g] = pc[g]
    BY <1>7 DEF close, UserOp, goto, Return, HookInv, HookType, CallType
  <2>3. \A g \in Fibers : g # f =>
           /\ tinfo(g)' = tinfo(g) /\ call'[g] = call[g] /\ pc'[g] = pc[g]
           /\ tinfo(g) \in closed <=> tinfo(g) \in closed'
    BY <2>1, <2>2, OthersCall
  <2>4. call'[f].kind = "close" /\ call'[f].fd = fd
    BY <2>1 DEF Begun
  <2>5. sock' = sock
    BY <1>7 DEF close, kernelVars
  <2>6. QED  BY <2>3, <2>4, <2>5 DEF HookInv, ConnOK, Calling, InCall
<1>8. ASSUME NEW f \in Fibers, ~crashed, sleep(f) PROVE ConnOK'
  <2>1. Begun(f, "sleep", NoCall.fd, "READ")
    BY <1>8, Begins, NoCallFd DEF HookInv, HookType
  <2>2. pc[f] = "user" /\ \A g \in Fibers : g # f => pc'[g] = pc[g]
    BY <1>8 DEF sleep, UserOp, goto, Return, HookInv, HookType, CallType
  <2>3. \A g \in Fibers : g # f =>
           /\ tinfo(g)' = tinfo(g) /\ call'[g] = call[g] /\ pc'[g] = pc[g]
           /\ tinfo(g) \in closed <=> tinfo(g) \in closed'
    BY <2>1, <2>2, OthersCall
  <2>4. call'[f].kind = "sleep" /\ call'[f].fd = NoCall.fd
    BY <2>1 DEF Begun
  <2>5. sock' = sock
    BY <1>8 DEF sleep, kernelVars
  <2>6. QED  BY <2>3, <2>4, <2>5 DEF HookInv, ConnOK, Calling, InCall
<1>9. ASSUME NEW f \in Fibers, ~crashed, Receive(f) PROVE ConnOK'
  <2>1. ConnKept
    BY <1>9 DEF Receive, goto, Return, kernelVars, eventVars, timerVars, callVars, histVars,
       HookInv, HookType, CallType, ConnKept
  <2>2. QED  BY <2>1, ConnStays
<1>10. ASSUME NEW f \in Fibers, ~crashed, Unblock(f) PROVE ConnOK'
  <2>1. ConnKept
    BY <1>10 DEF Unblock, goto, Return, kernelVars, eventVars, timerVars, callVars, histVars,
       HookInv, HookType, CallType, ConnKept
  <2>2. QED  BY <2>1, ConnStays
<1>11. ASSUME NEW f \in Fibers, ~crashed, Arm(f) PROVE ConnOK'
  <2>1. ConnKept
    BY <1>11 DEF Arm, goto, kernelVars, eventVars, timerVars, callVars, histVars, HookInv,
       HookType, CallType, ConnKept
  <2>2. QED  BY <2>1, ConnStays
<1>12. ASSUME NEW f \in Fibers, ~crashed, AddEvent(f) PROVE ConnOK'
  <2>1. ConnKept
    BY <1>12 DEF AddEvent, goto, Return, CancelTimer, kernelVars, eventVars, timerVars,
       callVars, histVars, HookInv, HookType, CallType, ConnKept
  <2>2. QED  BY <2>1, ConnStays
<1>13. ASSUME NEW f \in Fibers, ~crashed, Resume(f) PROVE ConnOK'
  <2>1. ConnKept
    BY <1>13 DEF Resume, goto, Return, CancelTimer, kernelVars, eventVars, timerVars, callVars,
       histVars, HookInv, HookType, CallType, ConnKept
  <2>2. QED  BY <2>1, ConnStays
<1>14. ASSUME NEW f \in Fibers, ~crashed, Check(f) PROVE ConnOK'
  <2>1. ConnKept
    BY <1>14 DEF Check, goto, Return, kernelVars, eventVars, timerVars, callVars, histVars,
       HookInv, HookType, CallType, ConnKept
  <2>2. QED  BY <2>1, ConnStays
<1>15. ASSUME NEW f \in Fibers, ~crashed, SoError(f) PROVE ConnOK'
  <2>1. ConnKept
    BY <1>15 DEF SoError, goto, Return, kernelVars, eventVars, timerVars, callVars, histVars,
       HookInv, HookType, CallType, ConnKept
  <2>2. QED  BY <2>1, ConnStays
<1>16. ASSUME NEW f \in Fibers, ~crashed, cancelAll(f) PROVE ConnOK'
  <2>1. ConnKept
    BY <1>16 DEF cancelAll, goto, kernelVars, eventVars, timerVars, callVars, histVars,
       HookInv, HookType, CallType, ConnKept
  <2>2. QED  BY <2>1, ConnStays
<1>17. ASSUME NEW f \in Fibers, ~crashed, del(f) PROVE ConnOK'
  <2>1. ConnKept
    BY <1>17 DEF del, goto, kernelVars, eventVars, timerVars, callVars, histVars, HookInv,
       HookType, CallType, ConnKept
  <2>2. QED  BY <2>1, ConnStays
<1>18. ASSUME NEW f \in Fibers, ~crashed, close_f(f) PROVE ConnOK'
  <2>1. UNCHANGED <<call, id>> /\ closed \subseteq closed' /\ \A g \in Fibers : call[g].fd \in Fds
    BY <1>18 DEF close_f, callVars, HookInv, HookType, CallType
  <2>2. \A gd \in Fds : gd # call[f].fd => sock'[gd] = sock[gd]
    BY <1>18 DEF close_f, HookInv, HookType, KernelType
  <2>3. pc'[f] = "user" /\ \A g \in Fibers : g # f => pc'[g] = pc[g]
    BY <1>18 DEF close_f, goto, Return, HookInv, HookType, CallType
  <2>4. \A g \in Fibers \ {f} : InCall(g) /\ call[g].fd = call[f].fd => tinfo(g) \in closed'
    BY <1>18 DEF close_f
  <2>5. \A g \in Fibers : InCall(g)' => g # f /\ InCall(g)
    BY <2>3 DEF InCall
  <2>6. QED  BY <2>1, <2>2, <2>4, <2>5 DEF HookInv, ConnOK, Calling, tinfo
<1>19. ASSUME NEW tm \in timers, ~crashed, Expire(tm) PROVE ConnOK'
  <2>1. ConnKept
    BY <1>19 DEF Expire, kernelVars, eventVars, timerVars, callVars, histVars, HookInv,
       HookType, CallType, ConnKept
  <2>2. QED  BY <2>1, ConnStays
<1>20. ASSUME NEW tm \in timers, ~crashed, CallbackMarks(tm) PROVE ConnOK'
  <2>1. ConnKept
    BY <1>20 DEF CallbackMarks, kernelVars, eventVars, timerVars, callVars, histVars, HookInv,
       HookType, CallType, ConnKept
  <2>2. QED  BY <2>1, ConnStays
<1>21. ASSUME NEW tm \in timers, ~crashed, CallbackCancels(tm) PROVE ConnOK'
  <2>1. ConnKept
    BY <1>21 DEF CallbackCancels, kernelVars, eventVars, timerVars, callVars, histVars,
       HookInv, HookType, CallType, ConnKept
  <2>2. QED  BY <2>1, ConnStays
<1>22. ASSUME NEW tm \in timers, ~crashed, SleepEnds(tm) PROVE ConnOK'
  <2>1. ConnKept
    BY <1>22 DEF SleepEnds, kernelVars, eventVars, timerVars, callVars, histVars, HookInv,
       HookType, CallType, ConnKept
  <2>2. QED  BY <2>1, ConnStays
<1>23. ASSUME NEW fd \in Fds, ~crashed, Arrive(fd) PROVE ConnOK'
  <2>1. ConnKept
    BY <1>23 DEF Arrive, kernelVars, eventVars, timerVars, callVars, histVars, HookInv,
       HookType, CallType, ConnKept
  <2>2. QED  BY <2>1, ConnStays
<1>24. ASSUME NEW fd \in Fds, NEW s \in {"connected", "refused"}, ~crashed,
      Decide(fd, s) PROVE ConnOK'
  <2>1. UNCHANGED <<call, id, pc, closed>> /\ \A g \in Fibers : call[g].fd \in Fds
    BY <1>24 DEF Decide, callVars, histVars, HookInv, HookType, CallType
  <2>2. \A gd \in Fds : sock'[gd] = sock[gd] \/ sock'[gd] \in {"connected", "refused"}
    BY <1>24 DEF Decide, HookInv, HookType, KernelType
  <2>3. QED  BY <2>1, <2>2 DEF HookInv, ConnOK, Calling, InCall, tinfo
<1>25. ASSUME NEW fd \in Fds, NEW e \in Event, ~crashed, Trigger(fd, e) PROVE ConnOK'
  <2>1. ConnKept
    BY <1>25 DEF Trigger, kernelVars, eventVars, timerVars, callVars, histVars, HookInv,
       HookType, CallType, ConnKept
  <2>2. QED  BY <2>1, ConnStays
<1>26. CASE UNCHANGED vars
  BY <1>26 DEF HookInv, ConnOK, Calling, InCall, tinfo, vars, kernelVars, eventVars, timerVars,
     callVars, histVars
<1>27. QED
  BY <1>1, <1>2, <1>3, <1>4, <1>5, <1>6, <1>7, <1>8, <1>9, <1>10, <1>11, <1>12, <1>13, <1>14,
     <1>15, <1>16, <1>17, <1>18, <1>19, <1>20, <1>21, <1>22, <1>23, <1>24, <1>25, <1>26, NextCases

\* A call woken or past its wait was so before, and its connection is as it was.
DecidedKept ==
    /\ cancelled \subseteq cancelled' /\ closed \subseteq closed' /\ stray \subseteq stray'
    /\ UNCHANGED <<call, id>>
    /\ \A g \in Fibers : g \in woken' \/ pc'[g] = "check" => g \in woken \/ pc[g] = "check"
    /\ \A g \in Fibers : pc'[g] = "so_error" => pc[g] = "so_error"
    /\ \A g \in Fibers : pc[g] # "user" /\ call[g].kind = "connect" /\ tinfo(g) \notin closed' =>
          sock'[call[g].fd] = sock[call[g].fd] \/ sock'[call[g].fd] \in {"connected", "refused"}

\* So what woke a connect() still holds.
LEMMA DecidedStays ==
  ASSUME HookInv, DecidedKept
  PROVE  WokenDecided'
<1>1. \A g \in Fibers : g \in woken => pc[g] = "parked"
  BY DEF HookInv, WaitOK
<1>2. \A g \in Fibers : tinfo(g)' = tinfo(g)
  BY DEF DecidedKept, tinfo
<1>3. QED  BY <1>1, <1>2 DEF HookInv, WokenDecided, DecidedKept

\* A new call is neither woken nor past its wait, and leaves the others alone.
LEMMA DecidedBegun ==
  ASSUME HookInv, NEW f \in Fibers, pc[f] = "user", NEW k, NEW fd, NEW e, Begun(f, k, fd, e),
         pc'[f] \notin {"check", "so_error"}, woken' = woken,
         \A g \in Fibers : g # f => pc'[g] = pc[g],
         \A g \in Fibers : pc[g] # "user" /\ call[g].kind = "connect" /\ tinfo(g) \notin closed =>
             sock'[call[g].fd] = sock[call[g].fd]
  PROVE  WokenDecided'
<1>1. \A g \in woken : pc[g] = "parked"
  BY DEF HookInv, WaitOK
<1>2. ASSUME NEW g \in Fibers, g # f
      PROVE  /\ tinfo(g)' = tinfo(g) /\ call'[g] = call[g] /\ pc'[g] = pc[g]
             /\ tinfo(g) \in closed <=> tinfo(g) \in closed'
             /\ tinfo(g) \in stray <=> tinfo(g) \in stray'
             /\ tinfo(g) \in cancelled <=> tinfo(g) \in cancelled'
  BY <1>2, OthersCall
<1>3. QED  BY <1>1, <1>2 DEF HookInv, WokenDecided

\* What wakes a connect() finds it decided, or is recorded.
LEMMA DecidedStep == HookInv /\ [Next]_vars => WokenDecided'
<1> SUFFICES ASSUME HookInv, [Next]_vars PROVE WokenDecided'
  OBVIOUS
<1>1. ASSUME NEW f \in Fibers, NEW fd \in Fds, NEW s \in {"fresh", "connected"}, ~crashed,
      Open(f, fd, s) PROVE WokenDecided'
  <2>1. UNCHANGED <<call, id, pc, woken, cancelled, closed, stray>>
    BY <1>1 DEF Open, callVars, histVars, timerVars, eventVars
  <2>2. /\ sock[fd] = "closed" /\ \A gd \in Fds : gd # fd => sock'[gd] = sock[gd]
        /\ \A g \in Fibers : call[g].fd \in Fds
    BY <1>1 DEF Open, HookInv, HookType, KernelType, CallType
  <2>3. \A g \in Fibers : pc[g] # "user" /\ call[g].kind = "connect" /\ tinfo(g) \notin closed =>
           sock'[call[g].fd] = sock[call[g].fd]
    BY <2>2 DEF HookInv, ConnOK, Calling, InCall
  <2>4. QED  BY <2>1, <2>3, DecidedStays DEF DecidedKept
<1>2. ASSUME NEW f \in Fibers, NEW fd \in Fds, NEW user \in BOOLEAN, ~crashed,
      fcntl(f, fd, user) PROVE WokenDecided'
  <2>1. DecidedKept
    BY <1>2 DEF fcntl, UserOp, PassFlag, kernelVars, eventVars, timerVars, callVars, histVars,
       HookInv, HookType, CallType, DecidedKept
  <2>2. QED  BY <2>1, DecidedStays
<1>3. ASSUME NEW f \in Fibers, NEW fd \in Fds, NEW user \in BOOLEAN, ~crashed,
      ioctl(f, fd, user) PROVE WokenDecided'
  <2>1. DecidedKept
    BY <1>3 DEF ioctl, UserOp, PassFlag, kernelVars, eventVars, timerVars, callVars, histVars,
       HookInv, HookType, CallType, DecidedKept
  <2>2. QED  BY <2>1, DecidedStays
<1>4. ASSUME NEW f \in Fibers, NEW fd \in Fds, ~crashed, setsockopt(f, fd) PROVE WokenDecided'
  <2>1. DecidedKept
    BY <1>4 DEF setsockopt, UserOp, kernelVars, eventVars, timerVars, callVars, histVars,
       HookInv, HookType, CallType, DecidedKept
  <2>2. QED  BY <2>1, DecidedStays
<1>5. ASSUME NEW f \in Fibers, NEW fd \in Fds, ~crashed, do_io(f, fd) PROVE WokenDecided'
  <2>1. Begun(f, "recv", fd, "READ")
    BY <1>5, Begins, NoCallFd DEF HookInv, HookType
  <2>2. pc[f] = "user" /\ \A g \in Fibers : g # f => pc'[g] = pc[g]
    BY <1>5 DEF do_io, UserOp, goto, Return, HookInv, HookType, CallType
  <2>3. woken' = woken /\ pc'[f] \notin {"check", "so_error"}
    BY <1>5 DEF do_io, goto, Return, eventVars, HookInv, HookType, CallType
  <2>4. sock' = sock
    BY <1>5 DEF do_io, kernelVars
  <2>5. QED  BY <2>1, <2>2, <2>3, <2>4, DecidedBegun
<1>6. ASSUME NEW f \in Fibers, NEW fd \in Fds, ~crashed, connect(f, fd) PROVE WokenDecided'
  <2>1. Begun(f, "connect", fd, "WRITE")
    BY <1>6, Begins, NoCallFd DEF HookInv, HookType
  <2>2. pc[f] = "user" /\ \A g \in Fibers : g # f => pc'[g] = pc[g]
    BY <1>6 DEF connect, UserOp, goto, Return, HookInv, HookType, CallType
  <2>3. woken' = woken /\ pc'[f] \notin {"check", "so_error"}
    BY <1>6 DEF connect, goto, Return, eventVars, HookInv, HookType, CallType
  <2>4. /\ sock[fd] = "fresh" /\ \A gd \in Fds : gd # fd => sock'[gd] = sock[gd]
        /\ \A g \in Fibers : call[g].fd \in Fds
    BY <1>6 DEF connect, HookInv, HookType, KernelType, CallType
  <2>5. \A g \in Fibers : pc[g] # "user" /\ call[g].kind = "connect" /\ tinfo(g) \notin closed =>
           sock'[call[g].fd] = sock[call[g].fd]
    BY <2>4 DEF HookInv, ConnOK, Calling, InCall
  <2>6. QED  BY <2>1, <2>2, <2>3, <2>5, DecidedBegun
<1>7. ASSUME NEW f \in Fibers, NEW fd \in Fds, ~crashed, close(f, fd) PROVE WokenDecided'
  <2>1. Begun(f, "close", fd, "READ")
    BY <1>7, Begins, NoCallFd DEF HookInv, HookType
  <2>2. pc[f] = "user" /\ \A g \in Fibers : g # f => pc'[g] = pc[g]
    BY <1>7 DEF close, UserOp, goto, Return, HookInv, HookType, CallType
  <2>3. woken' = woken /\ pc'[f] \notin {"check", "so_error"}
    BY <1>7 DEF close, goto, Return, eventVars, HookInv, HookType, CallType
  <2>4. sock' = sock
    BY <1>7 DEF close, kernelVars
  <2>5. QED  BY <2>1, <2>2, <2>3, <2>4, DecidedBegun
<1>8. ASSUME NEW f \in Fibers, ~crashed, sleep(f) PROVE WokenDecided'
  <2>1. Begun(f, "sleep", NoCall.fd, "READ")
    BY <1>8, Begins, NoCallFd DEF HookInv, HookType
  <2>2. pc[f] = "user" /\ \A g \in Fibers : g # f => pc'[g] = pc[g]
    BY <1>8 DEF sleep, UserOp, goto, Return, HookInv, HookType, CallType
  <2>3. woken' = woken /\ pc'[f] \notin {"check", "so_error"}
    BY <1>8 DEF sleep, goto, Return, eventVars, HookInv, HookType, CallType
  <2>4. sock' = sock
    BY <1>8 DEF sleep, kernelVars
  <2>5. QED  BY <2>1, <2>2, <2>3, <2>4, DecidedBegun
<1>9. ASSUME NEW f \in Fibers, ~crashed, Receive(f) PROVE WokenDecided'
  <2>1. DecidedKept
    BY <1>9 DEF Receive, goto, Return, kernelVars, eventVars, timerVars, callVars, histVars,
       HookInv, HookType, CallType, DecidedKept
  <2>2. QED  BY <2>1, DecidedStays
<1>10. ASSUME NEW f \in Fibers, ~crashed, Unblock(f) PROVE WokenDecided'
  <2>1. DecidedKept
    BY <1>10 DEF Unblock, goto, Return, kernelVars, eventVars, timerVars, callVars, histVars,
       HookInv, HookType, CallType, DecidedKept
  <2>2. QED  BY <2>1, DecidedStays
<1>11. ASSUME NEW f \in Fibers, ~crashed, Arm(f) PROVE WokenDecided'
  <2>1. DecidedKept
    BY <1>11 DEF Arm, goto, kernelVars, eventVars, timerVars, callVars, histVars, HookInv,
       HookType, CallType, DecidedKept
  <2>2. QED  BY <2>1, DecidedStays
<1>12. ASSUME NEW f \in Fibers, ~crashed, AddEvent(f) PROVE WokenDecided'
  <2>1. /\ UNCHANGED <<call, id, woken, cancelled, closed, sock>> /\ stray \subseteq stray'
        /\ pc[f] = "add" /\ \A g \in Fibers : g # f => pc'[g] = pc[g]
    BY <1>12 DEF AddEvent, goto, Return, callVars, kernelVars, HookInv, HookType, CallType
  <2>2. pc'[f] # "check" /\ (pc'[f] = "so_error" => tinfo(f) \in stray')
    BY <1>12 DEF AddEvent, goto, Return, HookInv, HookType, CallType
  <2>3. \A g \in Fibers : tinfo(g)' = tinfo(g)
    BY <2>1 DEF tinfo
  <2>4. QED  BY <2>1, <2>2, <2>3 DEF HookInv, WaitOK, WokenDecided
<1>13. ASSUME NEW f \in Fibers, ~crashed, Resume(f) PROVE WokenDecided'
  <2>1. /\ UNCHANGED <<call, id, cancelled, closed, stray, sock>> /\ woken' \subseteq woken
        /\ pc'[f] # "so_error" /\ f \in woken /\ \A g \in Fibers : g # f => pc'[g] = pc[g]
    BY <1>13 DEF Resume, goto, Return, callVars, kernelVars, histVars, HookInv, HookType, CallType
  <2>2. QED  BY <2>1, DecidedStays DEF DecidedKept
<1>14. ASSUME NEW f \in Fibers, ~crashed, Check(f) PROVE WokenDecided'
  <2>1. /\ UNCHANGED <<call, id, woken, cancelled, closed, stray, sock>> /\ pc[f] = "check"
        /\ pc'[f] # "check" /\ \A g \in Fibers : g # f => pc'[g] = pc[g]
    BY <1>14 DEF Check, goto, Return, callVars, kernelVars, eventVars, timerVars, histVars,
       HookInv, HookType, CallType
  <2>2. pc'[f] = "so_error" => tinfo(f) \notin cancelled
    BY <1>14 DEF Check, Return, goto, TimedOut, HookInv, HookType, CallType
  <2>3. \A g \in Fibers : tinfo(g)' = tinfo(g)
    BY <2>1 DEF tinfo
  <2>4. QED  BY <2>1, <2>2, <2>3 DEF HookInv, WaitOK, WokenDecided
<1>15. ASSUME NEW f \in Fibers, ~crashed, SoError(f) PROVE WokenDecided'
  <2>1. DecidedKept
    BY <1>15 DEF SoError, goto, Return, kernelVars, eventVars, timerVars, callVars, histVars,
       HookInv, HookType, CallType, DecidedKept
  <2>2. QED  BY <2>1, DecidedStays
<1>16. ASSUME NEW f \in Fibers, ~crashed, cancelAll(f) PROVE WokenDecided'
  <2>1. UNCHANGED eventVars \/ Woke(call[f].fd, Registered(call[f].fd))
    BY <1>16, Wakes
  <2>2. \A g \in Fibers : pc'[g] \in {"check", "so_error"} => pc'[g] = pc[g]
    BY <1>16 DEF cancelAll, goto, HookInv, HookType, CallType
  <2>3. UNCHANGED <<call, id, cancelled, closed, sock>> /\ stray \subseteq stray'
    BY <1>16 DEF cancelAll, callVars, kernelVars, timerVars, histVars
  <2>4. \A g \in Fibers : tinfo(g)' = tinfo(g)
    BY <2>3 DEF tinfo
  <2>5. \A g \in woken' \ woken : tinfo(g) \in stray'
    BY <1>16 DEF cancelAll
  <2>6. QED  BY <2>2, <2>3, <2>4, <2>5 DEF HookInv, WokenDecided
<1>17. ASSUME NEW f \in Fibers, ~crashed, del(f) PROVE WokenDecided'
  <2>1. DecidedKept
    BY <1>17 DEF del, goto, kernelVars, eventVars, timerVars, callVars, histVars, HookInv,
       HookType, CallType, DecidedKept
  <2>2. QED  BY <2>1, DecidedStays
<1>18. ASSUME NEW f \in Fibers, ~crashed, close_f(f) PROVE WokenDecided'
  <2>1. /\ UNCHANGED <<call, id, woken, cancelled, stray>> /\ closed \subseteq closed'
        /\ \A g \in Fibers : call[g].fd \in Fds
    BY <1>18 DEF close_f, callVars, timerVars, HookInv, HookType, CallType
  <2>2. \A gd \in Fds : gd # call[f].fd => sock'[gd] = sock[gd]
    BY <1>18 DEF close_f, HookInv, HookType, KernelType
  <2>3. pc'[f] = "user" /\ pc[f] = "close_f" /\ \A g \in Fibers : g # f => pc'[g] = pc[g]
    BY <1>18 DEF close_f, goto, Return, HookInv, HookType, CallType
  <2>4. call[f].kind = "close"
    BY <2>3 DEF HookInv, KindOK
  <2>5. \A g \in Fibers \ {f} : pc[g] # "user" /\ call[g].fd = call[f].fd => tinfo(g) \in closed'
    BY <1>18 DEF close_f, InCall
  <2>6. QED  BY <2>1, <2>2, <2>3, <2>4, <2>5, DecidedStays DEF DecidedKept
<1>19. ASSUME NEW tm \in timers, ~crashed, Expire(tm) PROVE WokenDecided'
  <2>1. DecidedKept
    BY <1>19 DEF Expire, kernelVars, eventVars, timerVars, callVars, histVars, HookInv,
       HookType, CallType, DecidedKept
  <2>2. QED  BY <2>1, DecidedStays
<1>20. ASSUME NEW tm \in timers, ~crashed, CallbackMarks(tm) PROVE WokenDecided'
  <2>1. DecidedKept
    BY <1>20 DEF CallbackMarks, kernelVars, eventVars, timerVars, callVars, histVars, HookInv,
       HookType, CallType, DecidedKept
  <2>2. QED  BY <2>1, DecidedStays
<1>21. ASSUME NEW tm \in timers, ~crashed, CallbackCancels(tm) PROVE WokenDecided'
  <2>1. UNCHANGED eventVars \/ Woke(tm.fd, {tm.ev})
    BY <1>21, Wakes
  <2>2. \A g \in Fibers : pc'[g] \in {"check", "so_error"} => pc'[g] = pc[g]
    BY <1>21 DEF CallbackCancels, goto, HookInv, HookType, CallType
  <2>3. UNCHANGED <<call, id, cancelled, closed, sock>> /\ stray \subseteq stray'
    BY <1>21 DEF CallbackCancels, callVars, kernelVars, timerVars, histVars
  <2>4. \A g \in Fibers : tinfo(g)' = tinfo(g)
    BY <2>3 DEF tinfo
  <2>5. \A g \in woken' \ woken : tinfo(g) \in stray' \/ tinfo(g) = FlagOf(tm)
    BY <1>21 DEF CallbackCancels
  <2>6. \A g \in Fibers : tinfo(g) = FlagOf(tm) => tinfo(g) \in cancelled
    BY <1>21 DEF CallbackCancels, FlagOf, tinfo, HookInv, TimerOK
  <2>7. QED  BY <2>2, <2>3, <2>4, <2>5, <2>6 DEF HookInv, WokenDecided
<1>22. ASSUME NEW tm \in timers, ~crashed, SleepEnds(tm) PROVE WokenDecided'
  <2>1. UNCHANGED <<call, id, pc, cancelled, closed, stray, sock>> /\ woken' = woken \cup {tm.f}
    BY <1>22 DEF SleepEnds, callVars, kernelVars, histVars
  <2>2. call[tm.f].kind = "sleep"
    BY <1>22 DEF SleepEnds, HookInv, SleepOK
  <2>3. \A g \in Fibers : tinfo(g)' = tinfo(g)
    BY <2>1 DEF tinfo
  <2>4. QED  BY <2>1, <2>2, <2>3 DEF HookInv, WokenDecided
<1>23. ASSUME NEW fd \in Fds, ~crashed, Arrive(fd) PROVE WokenDecided'
  <2>1. DecidedKept
    BY <1>23 DEF Arrive, kernelVars, eventVars, timerVars, callVars, histVars, HookInv,
       HookType, CallType, DecidedKept
  <2>2. QED  BY <2>1, DecidedStays
<1>24. ASSUME NEW fd \in Fds, NEW s \in {"connected", "refused"}, ~crashed,
      Decide(fd, s) PROVE WokenDecided'
  <2>1. UNCHANGED <<call, id, pc, woken, cancelled, closed, stray>> /\ \A g \in Fibers : call[g].fd \in Fds
    BY <1>24 DEF Decide, callVars, histVars, timerVars, eventVars, HookInv, HookType, CallType
  <2>2. \A gd \in Fds : sock'[gd] = sock[gd] \/ sock'[gd] \in {"connected", "refused"}
    BY <1>24 DEF Decide, HookInv, HookType, KernelType
  <2>3. QED  BY <2>1, <2>2, DecidedStays DEF DecidedKept
<1>25. ASSUME NEW fd \in Fds, NEW e \in Event, ~crashed, Trigger(fd, e) PROVE WokenDecided'
  <2>1. Woke(fd, {e})
    BY <1>25, Wakes
  <2>2. \A g \in Fibers : pc'[g] \in {"check", "so_error"} => pc'[g] = pc[g]
    BY <1>25 DEF Trigger, goto, HookInv, HookType, CallType
  <2>3. UNCHANGED <<call, id, cancelled, closed, sock>> /\ stray \subseteq stray'
    BY <1>25 DEF Trigger, callVars, kernelVars, timerVars, histVars
  <2>4. \A g \in Fibers : tinfo(g)' = tinfo(g)
    BY <2>3 DEF tinfo
  <2>5. \A g \in woken' \ woken : call[g].fd = fd /\ call[g].ev = e
    BY <2>1 DEF Woke, HookInv, WaitOK
  <2>6. \A g \in Fibers : call[g].kind = "connect" => call[g].ev = "WRITE"
    BY DEF HookInv, KindOK
  <2>7. e = "WRITE" => sock[fd] \in {"connected", "refused"}
    BY <1>25 DEF Trigger, Ready
  <2>8. QED  BY <2>2, <2>3, <2>4, <2>5, <2>6, <2>7 DEF HookInv, WokenDecided
<1>26. CASE UNCHANGED vars
  BY <1>26 DEF HookInv, WokenDecided, tinfo, vars, kernelVars, eventVars, timerVars, callVars,
     histVars
<1>27. QED
  BY <1>1, <1>2, <1>3, <1>4, <1>5, <1>6, <1>7, <1>8, <1>9, <1>10, <1>11, <1>12, <1>13, <1>14,
     <1>15, <1>16, <1>17, <1>18, <1>19, <1>20, <1>21, <1>22, <1>23, <1>24, <1>25, <1>26, NextCases

\* A second registration takes a descriptor closed under a call.
LEMMA AbortStep == HookInv /\ [Next]_vars => AbortNeedsClose'
<1> SUFFICES ASSUME HookInv, [Next]_vars PROVE AbortNeedsClose'
  OBVIOUS
<1>1. ASSUME NEW f \in Fibers, NEW fd \in Fds, NEW s \in {"fresh", "connected"}, ~crashed,
      Open(f, fd, s) PROVE AbortNeedsClose'
  BY <1>1 DEF Open, AbortNeedsClose
<1>2. ASSUME NEW f \in Fibers, NEW fd \in Fds, NEW user \in BOOLEAN, ~crashed,
      fcntl(f, fd, user) PROVE AbortNeedsClose'
  BY <1>2 DEF fcntl, AbortNeedsClose
<1>3. ASSUME NEW f \in Fibers, NEW fd \in Fds, NEW user \in BOOLEAN, ~crashed,
      ioctl(f, fd, user) PROVE AbortNeedsClose'
  BY <1>3 DEF ioctl, AbortNeedsClose
<1>4. ASSUME NEW f \in Fibers, NEW fd \in Fds, ~crashed, setsockopt(f, fd) PROVE AbortNeedsClose'
  BY <1>4 DEF setsockopt, AbortNeedsClose
<1>5. ASSUME NEW f \in Fibers, NEW fd \in Fds, ~crashed, do_io(f, fd) PROVE AbortNeedsClose'
  BY <1>5 DEF do_io, AbortNeedsClose
<1>6. ASSUME NEW f \in Fibers, NEW fd \in Fds, ~crashed, connect(f, fd) PROVE AbortNeedsClose'
  BY <1>6 DEF connect, AbortNeedsClose
<1>7. ASSUME NEW f \in Fibers, NEW fd \in Fds, ~crashed, close(f, fd) PROVE AbortNeedsClose'
  BY <1>7 DEF close, AbortNeedsClose
<1>8. ASSUME NEW f \in Fibers, ~crashed, sleep(f) PROVE AbortNeedsClose'
  BY <1>8 DEF sleep, AbortNeedsClose
<1>9. ASSUME NEW f \in Fibers, ~crashed, Receive(f) PROVE AbortNeedsClose'
  BY <1>9 DEF Receive, AbortNeedsClose
<1>10. ASSUME NEW f \in Fibers, ~crashed, Unblock(f) PROVE AbortNeedsClose'
  BY <1>10 DEF Unblock, AbortNeedsClose
<1>11. ASSUME NEW f \in Fibers, ~crashed, Arm(f) PROVE AbortNeedsClose'
  BY <1>11 DEF Arm, AbortNeedsClose
<1>12. ASSUME NEW f \in Fibers, ~crashed, AddEvent(f) PROVE AbortNeedsClose'
  <2> DEFINE fd == call[f].fd  e == call[f].ev
  <2>1. SUFFICES ASSUME reg[fd][e] # NoFiber PROVE closed # {}
    BY <1>12 DEF AddEvent, AbortNeedsClose
  <2>2. fd \in Fds /\ e \in Event /\ pc[f] = "add"
    BY <1>12 DEF AddEvent, HookInv, HookType, CallType
  <2>3. PICK g \in Fibers : g = reg[fd][e]
    BY <2>1, <2>2 DEF HookInv, HookType, EventType
  <2>4. pc[g] = "parked" /\ call[g].fd = fd /\ call[g].ev = e /\ call[g].kind # "sleep"
    BY <2>1, <2>2, <2>3 DEF HookInv, WaitOK
  <2>5. \/ call[f].kind = "recv" /\ call[g].kind = "recv"
        \/ call[f].kind = "connect" /\ call[g].kind = "connect"
    BY <2>2, <2>4 DEF HookInv, KindOK
  <2>6. f # g /\ InCall(f) /\ InCall(g)
    BY <2>2, <2>4 DEF InCall
  <2>7. QED  BY <2>4, <2>5, <2>6 DEF HookInv, ConnOK, Calling
<1>13. ASSUME NEW f \in Fibers, ~crashed, Resume(f) PROVE AbortNeedsClose'
  BY <1>13 DEF Resume, AbortNeedsClose
<1>14. ASSUME NEW f \in Fibers, ~crashed, Check(f) PROVE AbortNeedsClose'
  BY <1>14 DEF Check, AbortNeedsClose
<1>15. ASSUME NEW f \in Fibers, ~crashed, SoError(f) PROVE AbortNeedsClose'
  BY <1>15 DEF SoError, AbortNeedsClose
<1>16. ASSUME NEW f \in Fibers, ~crashed, cancelAll(f) PROVE AbortNeedsClose'
  BY <1>16 DEF cancelAll, AbortNeedsClose
<1>17. ASSUME NEW f \in Fibers, ~crashed, del(f) PROVE AbortNeedsClose'
  BY <1>17 DEF del, AbortNeedsClose
<1>18. ASSUME NEW f \in Fibers, ~crashed, close_f(f) PROVE AbortNeedsClose'
  BY <1>18 DEF close_f, AbortNeedsClose
<1>19. ASSUME NEW tm \in timers, ~crashed, Expire(tm) PROVE AbortNeedsClose'
  BY <1>19 DEF Expire, AbortNeedsClose
<1>20. ASSUME NEW tm \in timers, ~crashed, CallbackMarks(tm) PROVE AbortNeedsClose'
  BY <1>20 DEF CallbackMarks, AbortNeedsClose
<1>21. ASSUME NEW tm \in timers, ~crashed, CallbackCancels(tm) PROVE AbortNeedsClose'
  BY <1>21 DEF CallbackCancels, AbortNeedsClose
<1>22. ASSUME NEW tm \in timers, ~crashed, SleepEnds(tm) PROVE AbortNeedsClose'
  BY <1>22 DEF SleepEnds, AbortNeedsClose
<1>23. ASSUME NEW fd \in Fds, ~crashed, Arrive(fd) PROVE AbortNeedsClose'
  BY <1>23 DEF Arrive, AbortNeedsClose
<1>24. ASSUME NEW fd \in Fds, NEW s \in {"connected", "refused"}, ~crashed,
      Decide(fd, s) PROVE AbortNeedsClose'
  BY <1>24 DEF Decide, AbortNeedsClose
<1>25. ASSUME NEW fd \in Fds, NEW e \in Event, ~crashed, Trigger(fd, e) PROVE AbortNeedsClose'
  BY <1>25 DEF Trigger, AbortNeedsClose
<1>26. CASE UNCHANGED vars
  BY <1>26 DEF HookInv, AbortNeedsClose, vars, kernelVars, eventVars, timerVars, callVars,
     histVars
<1>27. QED
  BY <1>1, <1>2, <1>3, <1>4, <1>5, <1>6, <1>7, <1>8, <1>9, <1>10, <1>11, <1>12, <1>13, <1>14,
     <1>15, <1>16, <1>17, <1>18, <1>19, <1>20, <1>21, <1>22, <1>23, <1>24, <1>25, <1>26, NextCases

\* A call that is about to ask for SO_ERROR does so before anything else.
AsksStill == \A g \in Fibers : pc[g] = "so_error" => pc'[g] = "so_error" \/ SoError(g)

\* Nothing else moves a call at that step.
LEMMA AskedOnce == HookInv /\ [Next]_vars => AsksStill
<1> SUFFICES ASSUME HookInv, [Next]_vars PROVE AsksStill
  OBVIOUS
<1>1. ASSUME NEW f \in Fibers, NEW fd \in Fds, NEW s \in {"fresh", "connected"}, ~crashed,
      Open(f, fd, s) PROVE AsksStill
  BY <1>1 DEF Open, kernelVars, eventVars, timerVars, callVars, histVars, AsksStill, HookInv,
     HookType, CallType
<1>2. ASSUME NEW f \in Fibers, NEW fd \in Fds, NEW user \in BOOLEAN, ~crashed,
      fcntl(f, fd, user) PROVE AsksStill
  BY <1>2 DEF fcntl, UserOp, kernelVars, eventVars, timerVars, callVars, histVars, AsksStill,
     HookInv, HookType, CallType
<1>3. ASSUME NEW f \in Fibers, NEW fd \in Fds, NEW user \in BOOLEAN, ~crashed,
      ioctl(f, fd, user) PROVE AsksStill
  BY <1>3 DEF ioctl, UserOp, kernelVars, eventVars, timerVars, callVars, histVars, AsksStill,
     HookInv, HookType, CallType
<1>4. ASSUME NEW f \in Fibers, NEW fd \in Fds, ~crashed, setsockopt(f, fd) PROVE AsksStill
  BY <1>4 DEF setsockopt, UserOp, kernelVars, eventVars, timerVars, callVars, histVars,
     AsksStill, HookInv, HookType, CallType
<1>5. ASSUME NEW f \in Fibers, NEW fd \in Fds, ~crashed, do_io(f, fd) PROVE AsksStill
  BY <1>5 DEF do_io, UserOp, goto, kernelVars, eventVars, timerVars, callVars, histVars,
     AsksStill, HookInv, HookType, CallType
<1>6. ASSUME NEW f \in Fibers, NEW fd \in Fds, ~crashed, connect(f, fd) PROVE AsksStill
  BY <1>6 DEF connect, UserOp, goto, Return, kernelVars, eventVars, timerVars, callVars,
     histVars, AsksStill, HookInv, HookType, CallType
<1>7. ASSUME NEW f \in Fibers, NEW fd \in Fds, ~crashed, close(f, fd) PROVE AsksStill
  BY <1>7 DEF close, UserOp, goto, kernelVars, eventVars, timerVars, callVars, histVars,
     AsksStill, HookInv, HookType, CallType
<1>8. ASSUME NEW f \in Fibers, ~crashed, sleep(f) PROVE AsksStill
  BY <1>8 DEF sleep, UserOp, goto, kernelVars, eventVars, timerVars, callVars, histVars,
     AsksStill, HookInv, HookType, CallType
<1>9. ASSUME NEW f \in Fibers, ~crashed, Receive(f) PROVE AsksStill
  BY <1>9 DEF Receive, goto, Return, kernelVars, eventVars, timerVars, callVars, histVars,
     AsksStill, HookInv, HookType, CallType
<1>10. ASSUME NEW f \in Fibers, ~crashed, Unblock(f) PROVE AsksStill
  BY <1>10 DEF Unblock, goto, Return, kernelVars, eventVars, timerVars, callVars, histVars,
     AsksStill, HookInv, HookType, CallType
<1>11. ASSUME NEW f \in Fibers, ~crashed, Arm(f) PROVE AsksStill
  BY <1>11 DEF Arm, goto, kernelVars, eventVars, timerVars, callVars, histVars, AsksStill,
     HookInv, HookType, CallType
<1>12. ASSUME NEW f \in Fibers, ~crashed, AddEvent(f) PROVE AsksStill
  BY <1>12 DEF AddEvent, goto, Return, kernelVars, eventVars, timerVars, callVars, histVars,
     AsksStill, HookInv, HookType, CallType
<1>13. ASSUME NEW f \in Fibers, ~crashed, Resume(f) PROVE AsksStill
  BY <1>13 DEF Resume, goto, Return, kernelVars, eventVars, timerVars, callVars, histVars,
     AsksStill, HookInv, HookType, CallType
<1>14. ASSUME NEW f \in Fibers, ~crashed, Check(f) PROVE AsksStill
  BY <1>14 DEF Check, goto, Return, kernelVars, eventVars, timerVars, callVars, histVars,
     AsksStill, HookInv, HookType, CallType
<1>15. ASSUME NEW f \in Fibers, ~crashed, SoError(f) PROVE AsksStill
  <2>1. \A g \in Fibers : g # f => pc'[g] = pc[g]
    BY <1>15 DEF SoError, Return, goto, HookInv, HookType, CallType
  <2>2. QED  BY <1>15, <2>1 DEF AsksStill
<1>16. ASSUME NEW f \in Fibers, ~crashed, cancelAll(f) PROVE AsksStill
  BY <1>16 DEF cancelAll, goto, kernelVars, eventVars, timerVars, callVars, histVars,
     AsksStill, HookInv, HookType, CallType
<1>17. ASSUME NEW f \in Fibers, ~crashed, del(f) PROVE AsksStill
  BY <1>17 DEF del, goto, kernelVars, eventVars, timerVars, callVars, histVars, AsksStill,
     HookInv, HookType, CallType
<1>18. ASSUME NEW f \in Fibers, ~crashed, close_f(f) PROVE AsksStill
  BY <1>18 DEF close_f, goto, Return, kernelVars, eventVars, timerVars, callVars, histVars,
     AsksStill, HookInv, HookType, CallType
<1>19. ASSUME NEW tm \in timers, ~crashed, Expire(tm) PROVE AsksStill
  BY <1>19 DEF Expire, kernelVars, eventVars, timerVars, callVars, histVars, AsksStill,
     HookInv, HookType, CallType
<1>20. ASSUME NEW tm \in timers, ~crashed, CallbackMarks(tm) PROVE AsksStill
  BY <1>20 DEF CallbackMarks, kernelVars, eventVars, timerVars, callVars, histVars, AsksStill,
     HookInv, HookType, CallType
<1>21. ASSUME NEW tm \in timers, ~crashed, CallbackCancels(tm) PROVE AsksStill
  BY <1>21 DEF CallbackCancels, kernelVars, eventVars, timerVars, callVars, histVars,
     AsksStill, HookInv, HookType, CallType
<1>22. ASSUME NEW tm \in timers, ~crashed, SleepEnds(tm) PROVE AsksStill
  BY <1>22 DEF SleepEnds, kernelVars, eventVars, timerVars, callVars, histVars, AsksStill,
     HookInv, HookType, CallType
<1>23. ASSUME NEW fd \in Fds, ~crashed, Arrive(fd) PROVE AsksStill
  BY <1>23 DEF Arrive, kernelVars, eventVars, timerVars, callVars, histVars, AsksStill,
     HookInv, HookType, CallType
<1>24. ASSUME NEW fd \in Fds, NEW s \in {"connected", "refused"}, ~crashed,
      Decide(fd, s) PROVE AsksStill
  BY <1>24 DEF Decide, kernelVars, eventVars, timerVars, callVars, histVars, AsksStill,
     HookInv, HookType, CallType
<1>25. ASSUME NEW fd \in Fds, NEW e \in Event, ~crashed, Trigger(fd, e) PROVE AsksStill
  BY <1>25 DEF Trigger, kernelVars, eventVars, timerVars, callVars, histVars, AsksStill,
     HookInv, HookType, CallType
<1>26. CASE UNCHANGED vars
  BY <1>26 DEF AsksStill, vars, kernelVars, eventVars, timerVars, callVars, histVars
<1>27. QED
  BY <1>1, <1>2, <1>3, <1>4, <1>5, <1>6, <1>7, <1>8, <1>9, <1>10, <1>11, <1>12, <1>13, <1>14,
     <1>15, <1>16, <1>17, <1>18, <1>19, <1>20, <1>21, <1>22, <1>23, <1>24, <1>25, <1>26, NextCases

-----------------------------------------------------------------------------
(* The theorems                                                             *)

\* The invariant holds initially.
LEMMA InitInv == Init => HookInv
<1> SUFFICES ASSUME Init PROVE HookInv
  OBVIOUS
<1>1. KernelType
  <2>1. sock \in [Fds -> SockStates]
    BY DEF Init, SockStates
  <2>2. inbox \in [Fds -> 0 .. MaxData]
    <3>1. 0 \in 0 .. MaxData
      BY HookAssumption
    <3>2. QED  BY <3>1 DEF Init
  <2>3. nonblock \in [Fds -> BOOLEAN]
    BY DEF Init
  <2>4. fdctx \in [Fds -> [user : BOOLEAN, timed : BOOLEAN, there : BOOLEAN]]
    <3> DEFINE R == [user : BOOLEAN, timed : BOOLEAN, there : BOOLEAN]
    <3>1. NewCtx \in R
      BY DEF NewCtx
    <3>2. [NewCtx EXCEPT !.timed = TRUE] \in R
      BY <3>1
    <3>3. {NewCtx, [NewCtx EXCEPT !.timed = TRUE]} \subseteq R
      BY <3>1, <3>2
    <3>4. fdctx \in [Fds -> {NewCtx, [NewCtx EXCEPT !.timed = TRUE]}]
      BY DEF Init
    <3> HIDE DEF R
    <3>5. fdctx \in [Fds -> R]
      BY <3>3, <3>4
    <3>6. QED  BY <3>5 DEF R
  <2>5. QED  BY <2>1, <2>2, <2>3, <2>4 DEF KernelType
<1>2. EventType
  BY DEF Init, EventType
<1>3. CallType
  <2>1. pc \in [Fibers -> PcStates] /\ DOMAIN ret = Fibers
    BY DEF Init, PcStates
  <2>2. NoCall \in [kind : Kinds, fd : Fds, ev : Event, to : BOOLEAN]
    BY HookAssumption DEF NoCall, Kinds, Event
  <2>3. call \in [Fibers -> [kind : Kinds, fd : Fds, ev : Event, to : BOOLEAN]]
    BY <2>2 DEF Init
  <2>4. id \in [Fibers -> Nat] /\ ops \in 0 .. MaxOps
    BY HookAssumption DEF Init
  <2>5. crashed \in BOOLEAN
    BY DEF Init
  <2>6. QED  BY <2>1, <2>3, <2>4, <2>5 DEF CallType
<1>4. HistoryType
  BY DEF Init, HistoryType
<1>5. \A f \in Fibers : pc[f] = "user" /\ id[f] = 0 /\ ret[f] = "none" /\ call[f] = NoCall
  BY DEF Init
<1>6. NoCall.kind = "none"
  BY DEF NoCall
<1>7. IdOK
  BY <1>5 DEF Init, IdOK, InCall
<1>8. KindOK
  BY <1>5, <1>6 DEF KindOK
<1>9. WaitOK /\ SleepOK /\ TimerOK
  BY DEF Init, WaitOK, SleepOK, TimerOK, NoTimerLeft
<1>10. BlockOK
  BY <1>5 DEF Init, BlockOK, BlocksOnlyIfCleared
<1>11. ConnOK /\ WokenDecided
  BY <1>5, <1>6 DEF ConnOK, Calling, InCall, WokenDecided
<1>12. TimeoutIsReal /\ AbortNeedsClose
  BY <1>5 DEF Init, TimeoutIsReal, AbortNeedsClose
<1>13. QED
  BY <1>1, <1>2, <1>3, <1>4, <1>7, <1>8, <1>9, <1>10, <1>11, <1>12 DEF HookInv, HookType

\* Every step preserves it.
LEMMA InvAlways == Spec => []HookInv
<1>1. HookInv /\ [Next]_vars => HookInv'
  BY KernelTypeStep, EventTypeStep, CallTypeStep, HistoryTypeStep, IdStep, KindStep, WaitStep,
     SleepStep, TimersStep, BlockStep, ConnStep, DecidedStep, TimeoutStep, AbortStep
     DEF HookInv, HookType
<1>2. QED  BY InitInv, <1>1, PTL DEF Spec

\* A registered fiber waits for exactly that event and is queued by no one else,
\* no call ends with its timer armed, a call blocks its thread only where
\* O_NONBLOCK was cleared past FdCtx, and addEvent's assertion fails only after a
\* close() under a waiting call (hook.cc 99-212, 319-413, 488-507; fd_manager.cc 48-57).
THEOREM WaitsCorrect == Spec => []WaitsConsistent
<1>1. HookInv => TypeOK
  <2> SUFFICES ASSUME HookInv PROVE TypeOK
    OBVIOUS
  <2>1. id \in [Fibers -> 0 .. MaxOps]
    BY HookAssumption DEF HookInv, HookType, CallType, IdOK
  <2>2. \A h \in {cancelled, expired, missed, closed, stray} : h \subseteq Fibers \X (1 .. MaxOps)
    BY DEF HookInv, HookType, HistoryType, Infos
  <2>3. timers \subseteq TimerRecords
    BY DEF HookInv, HookType, HistoryType
  <2>4. KernelType /\ EventType /\ CallType
    BY DEF HookInv, HookType
  <2>5. QED
    BY <2>1, <2>2, <2>3, <2>4
       DEF TypeOK, KernelType, EventType, CallType, TimerRecords, SockStates, PcStates
<1>2. HookInv => OneWaker
  BY DEF HookInv, WaitOK, OneWaker
<1>3. HookInv => NoTimerLeft /\ BlocksOnlyIfCleared /\ AbortNeedsClose
  BY DEF HookInv, TimerOK, BlockOK
<1>4. HookInv => WaitsConsistent
  BY <1>1, <1>2, <1>3 DEF WaitsConsistent
<1>5. QED  BY InvAlways, <1>4, PTL

\* A call returns ETIMEDOUT only if a timer of that very call has expired, with
\* any number of late callbacks of earlier waits and calls under way
\* (hook.cc 155-168, 198-203).
THEOREM TimeoutCorrect == Spec => []TimeoutIsReal
<1>1. HookInv => TimeoutIsReal
  BY DEF HookInv
<1>2. QED  BY InvAlways, <1>1, PTL

\* connect() reports success only on an established connection, unless the call
\* was woken by neither its event nor its timer, could not wait, or lost its
\* descriptor meanwhile (hook.cc 346-413).
THEOREM ConnectCorrect == Spec => ConnectTruthful
<1> DEFINE Truthful == \A f \in Fibers :
       pc[f] = "so_error" /\ tinfo(f) \notin stray \cup closed /\ ret'[f] = "connected"
           => pc'[f] = "so_error" \/ sock[call[f].fd] = "connected"
<1>1. HookInv /\ [Next]_vars => [Truthful]_vars
  <2> SUFFICES ASSUME HookInv, [Next]_vars, NEW f \in Fibers, pc[f] = "so_error",
                      tinfo(f) \notin stray \cup closed, ret'[f] = "connected", pc'[f] # "so_error"
               PROVE  sock[call[f].fd] = "connected"
    OBVIOUS
  <2>1. SoError(f)
    BY AskedOnce DEF AsksStill
  <2>2. sock[call[f].fd] # "refused"
    BY <2>1 DEF SoError, Return, HookInv, HookType, CallType
  <2>3. sock[call[f].fd] \in {"connected", "refused"}
    BY DEF HookInv, KindOK, WokenDecided
  <2>4. QED  BY <2>2, <2>3
<1>2. QED  BY InvAlways, <1>1, PTL DEF Spec, ConnectTruthful
================================================================================
