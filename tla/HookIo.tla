------------------------------- MODULE HookIo -------------------------------
(***************************************************************************)
(* The hooked system calls: sylar/hook.cc, with FdCtx of fd_manager.cc.     *)
(*                                                                         *)
(* A fiber that would block arms a condition timer, registers an event and  *)
(* yields; the event, the timer's callback on another thread, or a close()  *)
(* of the descriptor wakes it.  do_io shares one timer_info over all its     *)
(* retries, and a callback reaches it through a weak pointer: a timer_info   *)
(* is named here by the fiber and the number of its call.  IOManager is      *)
(* reduced to the registered events (module IOManager has their protocol),  *)
(* the scheduler to the set of woken fibers, time to the choice of when an   *)
(* armed timer expires.                                                     *)
(***************************************************************************)
EXTENDS Integers, FiniteSets

CONSTANTS
    Fibers,
    NoFiber,      \* no fiber registered for an event
    Fds,
    MaxOps,       \* bound on the calls user code makes on open descriptors
    MaxData       \* bound on unread data of a descriptor

ASSUME HookAssumption ==
    /\ IsFiniteSet(Fibers) /\ IsFiniteSet(Fds) /\ Fds # {}
    /\ NoFiber \notin Fibers
    /\ MaxOps \in Nat /\ MaxData \in Nat

Event == {"READ", "WRITE"}
NoCtx == [user |-> FALSE, timed |-> FALSE, there |-> FALSE]

VARIABLES
    sock,        \* kernel: state of the socket behind a descriptor
    inbox,       \* kernel: unread data
    nonblock,    \* kernel: O_NONBLOCK
    fdctx,       \* FdManager: userNonblock and whether a timeout is set
    reg,         \* FdContext: the fiber registered for an event
    inEpoll,     \* descriptors in m_epfd
    timers,      \* condition timers and the callbacks under way
    cancelled,   \* timer_infos with cancelled = ETIMEDOUT
    woken,       \* fibers in the run queue
    pc,          \* where each fiber is
    call,        \* its current or last call, with `to`
    id,          \* number of calls it has made
    ret,         \* what the last call returned
    ops,         \* user operations so far (bound only)
    expired,     \* history: calls one of whose timers expired
    missed,      \* history: calls whose callback found them not registered
    closed,      \* history: calls whose descriptor was closed meanwhile
    stray,       \* history: calls woken by neither their event nor their timer
    cleared,     \* history: descriptors whose O_NONBLOCK was cleared past FdCtx
    crashed      \* an assertion failed

kernelVars == <<sock, inbox, nonblock>>
eventVars == <<reg, inEpoll, woken>>
timerVars == <<timers, cancelled>>
callVars == <<call, id, ops>>
histVars == <<expired, missed, closed, stray, cleared>>

vars == <<kernelVars, fdctx, eventVars, timerVars, pc, callVars, ret, histVars, crashed>>

NoCall == [kind |-> "none", fd |-> CHOOSE fd \in Fds : TRUE, ev |-> "READ", to |-> FALSE]

NewCtx == [user |-> FALSE, timed |-> FALSE, there |-> TRUE]

\* The program has a socket open, new or connected, with or without a timeout.
Init ==
    /\ sock \in [Fds -> {"fresh", "connected"}]
    /\ inbox = [fd \in Fds |-> 0]
    /\ nonblock = [fd \in Fds |-> TRUE]
    /\ fdctx \in [Fds -> {NewCtx, [NewCtx EXCEPT !.timed = TRUE]}]
    /\ reg = [fd \in Fds |-> [e \in Event |-> NoFiber]]
    /\ inEpoll = {} /\ woken = {}
    /\ timers = {} /\ cancelled = {}
    /\ pc = [f \in Fibers |-> "user"]
    /\ call = [f \in Fibers |-> NoCall]
    /\ id = [f \in Fibers |-> 0]
    /\ ret = [f \in Fibers |-> "none"]
    /\ ops = 0
    /\ expired = {} /\ missed = {} /\ closed = {} /\ stray = {} /\ cleared = {}
    /\ crashed = FALSE

goto(f, l) == pc' = [pc EXCEPT ![f] = l]
Return(f, r) == goto(f, "user") /\ ret' = [ret EXCEPT ![f] = r]

\* The timer_info of f's current call, and of a timer's call.
tinfo(f) == <<f, id[f]>>
InCall(f) == pc[f] # "user"

UserOp(f) ==
    /\ pc[f] = "user" /\ ~crashed
    /\ ops < MaxOps
    /\ ops' = ops + 1

\* A call starts with a new timer_info; nobody asks about f's last one again.
Begin(f, k, fd, e, to) ==
    LET Others(S) == {c \in S : c[1] # f} IN
    /\ call' = [call EXCEPT ![f] = [kind |-> k, fd |-> fd, ev |-> e, to |-> to]]
    /\ id' = [id EXCEPT ![f] = @ + 1]
    /\ cancelled' = Others(cancelled)
    /\ expired' = Others(expired) /\ missed' = Others(missed)
    /\ closed' = Others(closed) /\ stray' = Others(stray)

Registered(fd) == {e \in Event : reg[fd][e] # NoFiber}

-----------------------------------------------------------------------------
(* Descriptors: socket(), accept(), fcntl(), ioctl(), setsockopt()           *)

\* socket() and accept(): FdMgr::get(fd, true) builds an FdCtx, whose init()
\* makes the descriptor non-blocking.
Open(f, fd, s) ==
    /\ pc[f] = "user" /\ ~crashed
    /\ sock[fd] = "closed" /\ ~fdctx[fd].there
    /\ sock' = [sock EXCEPT ![fd] = s]
    /\ inbox' = [inbox EXCEPT ![fd] = 0]
    /\ nonblock' = [nonblock EXCEPT ![fd] = TRUE]
    /\ fdctx' = [fdctx EXCEPT ![fd] = NewCtx]
    /\ UNCHANGED <<eventVars, timerVars, pc, callVars, ret, histVars, crashed>>

\* fcntl(F_SETFL): the kernel's flag follows m_sysNonblock, not the user's.
SysFlag(fd, user) == TRUE

\* The kernel gets the user's flag as it is.
PassFlag(fd, user) ==
    /\ nonblock' = [nonblock EXCEPT ![fd] = user]
    /\ cleared' = IF user THEN cleared ELSE cleared \cup {fd}

fcntl(f, fd, user) ==
    /\ UserOp(f)
    /\ sock[fd] # "closed"
    /\ IF fdctx[fd].there
       THEN /\ fdctx' = [fdctx EXCEPT ![fd].user = user]
            /\ nonblock' = [nonblock EXCEPT ![fd] = SysFlag(fd, user)]
            /\ UNCHANGED cleared
       ELSE PassFlag(fd, user) /\ UNCHANGED fdctx
    /\ UNCHANGED <<sock, inbox, eventVars, timerVars, pc, call, id, ret, expired, missed,
                   closed, stray, crashed>>

\* ioctl(FIONBIO) sets the user's flag and passes the request on unchanged.
ioctl(f, fd, user) ==
    /\ UserOp(f)
    /\ sock[fd] # "closed"
    /\ fdctx' = [fdctx EXCEPT ![fd].user = fdctx[fd].there /\ user]
    /\ PassFlag(fd, user)
    /\ UNCHANGED <<sock, inbox, eventVars, timerVars, pc, call, id, ret, expired, missed,
                   closed, stray, crashed>>

\* setsockopt(SO_RCVTIMEO): only later calls see the new timeout.
setsockopt(f, fd) ==
    /\ UserOp(f)
    /\ fdctx[fd].there
    /\ fdctx' = [fdctx EXCEPT ![fd].timed = TRUE]
    /\ UNCHANGED <<kernelVars, eventVars, timerVars, pc, call, id, ret, histVars, crashed>>

-----------------------------------------------------------------------------
(* do_io                                                                    *)

\* Without a context, or if the user asked for non-blocking calls, the
\* original function decides ("plain"); else the loop of do_io starts.  The
\* functions that receive are modelled; those that send run the same template with
\* WRITE, the event connect() waits for here.  Two
\* fibers never receive on one descriptor at a time (a second registration of
\* an event is a misuse that addEvent aborts on).
do_io(f, fd) ==
    /\ UserOp(f)
    /\ sock[fd] \in {"connected", "closed"}
    /\ \A g \in Fibers \ {f} : InCall(g) => call[g].fd # fd \/ call[g].kind # "recv"
    /\ Begin(f, "recv", fd, "READ", fdctx[fd].timed)
    /\ goto(f, IF fdctx[fd].there /\ ~fdctx[fd].user THEN "try" ELSE "plain")
    /\ UNCHANGED <<kernelVars, fdctx, eventVars, timers, ret, cleared, crashed>>

\* Sockets on which a receive fails at once: EBADF, ENOTCONN or the connection's error.
Dead == {"closed", "fresh", "refused"}

\* One call of the original function, in the loop or plain.
Receive(f) ==
    LET fd == call[f].fd IN
    /\ pc[f] \in {"try", "plain"}
    /\ \/ /\ sock[fd] \in Dead
          /\ Return(f, "error")
          /\ UNCHANGED inbox
       \/ /\ sock[fd] \notin Dead /\ inbox[fd] > 0
          /\ inbox' = [inbox EXCEPT ![fd] = @ - 1]
          /\ Return(f, "data")
       \/ /\ sock[fd] \notin Dead /\ inbox[fd] = 0 /\ nonblock[fd]
          /\ IF pc[f] = "try" THEN goto(f, "arm") /\ UNCHANGED ret
                              ELSE Return(f, "EAGAIN")
          /\ UNCHANGED inbox
       \/ /\ sock[fd] \notin Dead /\ inbox[fd] = 0 /\ ~nonblock[fd]
          /\ goto(f, "blocked")
          /\ UNCHANGED <<inbox, ret>>
    /\ UNCHANGED <<sock, nonblock, fdctx, eventVars, timerVars, callVars, histVars, crashed>>

\* The kernel lets a thread go that was blocked in the call itself.
Unblock(f) ==
    LET fd == call[f].fd IN
    /\ pc[f] = "blocked"
    /\ inbox[fd] > 0
    /\ inbox' = [inbox EXCEPT ![fd] = @ - 1]
    /\ Return(f, "data")
    /\ UNCHANGED <<sock, nonblock, fdctx, eventVars, timerVars, callVars, histVars, crashed>>

\* Mutant: connect waits without a timer.
OnlyIoTimed(f) == call[f].to /\ call[f].kind = "recv"

\* Every wait of the call has a timer if a timeout is set.
NeedsTimer(f) == call[f].to

NewTimer(f, e) ==
    [f |-> f, id |-> id[f], fd |-> call[f].fd, ev |-> e, st |-> "armed"]

\* addConditionTimer
Arm(f) ==
    /\ pc[f] = "arm"
    /\ timers' = timers \cup (IF NeedsTimer(f) THEN {NewTimer(f, call[f].ev)} ELSE {})
    /\ goto(f, "add")
    /\ UNCHANGED <<kernelVars, fdctx, eventVars, cancelled, callVars, ret, histVars, crashed>>

\* Mutant: the timer is not cancelled.
KeepTimer(f) == UNCHANGED timers

\* timer->cancel(): no effect once the callback was handed out.
CancelTimer(f) ==
    timers' = timers \ {tm \in timers : tm.f = f /\ tm.st = "armed"}

\* epoll_ctl fails on a closed descriptor, ADD on one that is in the set and
\* MOD or DEL on one that is not.
CtlFails(fd) == sock[fd] = "closed" \/ (Registered(fd) = {}) = (fd \in inEpoll)

\* addEvent and the yield in one step (module IOManager has the steps between
\* them), and do_io's or connect's error path.
AddEvent(f) ==
    LET fd == call[f].fd  e == call[f].ev IN
    /\ pc[f] = "add"
    /\ \/ /\ reg[fd][e] # NoFiber
          /\ crashed' = TRUE
          /\ UNCHANGED <<reg, inEpoll, timers, pc, ret, stray>>
       \/ /\ reg[fd][e] = NoFiber /\ ~CtlFails(fd)
          /\ reg' = [reg EXCEPT ![fd][e] = f]
          /\ inEpoll' = inEpoll \cup {fd}
          /\ goto(f, "parked")
          /\ UNCHANGED <<timers, ret, stray, crashed>>
       \/ /\ reg[fd][e] = NoFiber /\ CtlFails(fd)
          /\ CancelTimer(f)
          /\ IF call[f].kind = "recv" THEN Return(f, "error")
                                      ELSE goto(f, "so_error") /\ UNCHANGED ret
          /\ stray' = stray \cup {tinfo(f)}
          /\ UNCHANGED <<reg, inEpoll, crashed>>
    /\ UNCHANGED <<kernelVars, fdctx, woken, cancelled, callVars, expired, missed, closed,
                   cleared>>

\* The fiber runs again: timer->cancel().
Resume(f) ==
    /\ pc[f] = "parked" /\ f \in woken
    /\ woken' = woken \ {f}
    /\ CancelTimer(f)
    /\ IF call[f].kind = "sleep" THEN Return(f, "slept") ELSE goto(f, "check") /\ UNCHANGED ret
    /\ UNCHANGED <<kernelVars, fdctx, reg, inEpoll, cancelled, callVars, histVars, crashed>>

\* Mutant: a timeout is not told from an event.
NotTimedOut(f) == FALSE

TimedOut(f) == tinfo(f) \in cancelled

\* tinfo->cancelled tells a timeout from an event; recv retries, connect asks
\* for SO_ERROR.
Check(f) ==
    /\ pc[f] = "check"
    /\ \/ TimedOut(f) /\ Return(f, "ETIMEDOUT")
       \/ /\ ~TimedOut(f)
          /\ goto(f, IF call[f].kind = "recv" THEN "try" ELSE "so_error")
          /\ UNCHANGED ret
    /\ UNCHANGED <<kernelVars, fdctx, eventVars, timerVars, callVars, histVars, crashed>>

-----------------------------------------------------------------------------
(* The timer's callback                                                     *)

\* listExpiredCb hands the callback out.
Expire(tm) ==
    /\ tm \in timers /\ tm.st = "armed"
    /\ timers' = (timers \ {tm}) \cup {[tm EXCEPT !.st = "handed"]}
    /\ expired' = expired \cup {<<tm.f, tm.id>>}
    /\ UNCHANGED <<kernelVars, fdctx, eventVars, cancelled, pc, callVars, ret, missed,
                   closed, stray, cleared, crashed>>

\* Mutant: the flag belongs to the fiber, not to the call.
FlagOfFiber(tm) == <<tm.f, id[tm.f]>>

\* What the callback marks: the timer_info its weak pointer leads to.
FlagOf(tm) == <<tm.f, tm.id>>

\* The weak pointer can be locked while the call lasts.
Alive(tm) == LET c == FlagOf(tm) IN InCall(c[1]) /\ c = tinfo(c[1])

\* winfo.lock(), the test and t->cancelled = ETIMEDOUT.
CallbackMarks(tm) ==
    /\ tm \in timers /\ tm.st = "handed" /\ tm.ev # "SLEEP"
    /\ IF Alive(tm) /\ FlagOf(tm) \notin cancelled
       THEN /\ cancelled' = cancelled \cup {FlagOf(tm)}
            /\ timers' = (timers \ {tm}) \cup {[tm EXCEPT !.st = "marked"]}
       ELSE timers' = timers \ {tm} /\ UNCHANGED cancelled
    /\ UNCHANGED <<kernelVars, fdctx, eventVars, pc, callVars, ret, histVars, crashed>>

\* triggerEvent for the events es, after epoll_ctl.
Wake(fd, es) ==
    /\ woken' = woken \cup {reg[fd][e] : e \in es}
    /\ reg' = [reg EXCEPT ![fd] = [e \in Event |-> IF e \in es THEN NoFiber ELSE @[e]]]
    /\ inEpoll' = IF Registered(fd) = es THEN inEpoll \ {fd} ELSE inEpoll

\* iom->cancelEvent(fd, event): whoever is registered by now is woken.
CallbackCancels(tm) ==
    /\ tm \in timers /\ tm.st = "marked"
    /\ timers' = timers \ {tm}
    /\ IF reg[tm.fd][tm.ev] # NoFiber /\ ~CtlFails(tm.fd)
       THEN Wake(tm.fd, {tm.ev})
       ELSE UNCHANGED eventVars
    /\ missed' = missed \cup (IF reg[tm.fd][tm.ev] # tm.f THEN {FlagOf(tm)} ELSE {})
    /\ stray' = stray \cup ({tinfo(g) : g \in woken' \ woken} \ {FlagOf(tm)})
    /\ UNCHANGED <<kernelVars, fdctx, cancelled, pc, callVars, ret, expired, closed,
                   cleared, crashed>>

-----------------------------------------------------------------------------
(* connect(), sleep() and close()                                           *)

\* connect_with_timeout, up to what the original function returns: success,
\* another error, or EINPROGRESS.  s_connect_timeout is always set.
connect(f, fd) ==
    /\ UserOp(f)
    /\ sock[fd] = "fresh"
    /\ Begin(f, "connect", fd, "WRITE", TRUE)
    /\ \/ Return(f, "error") /\ UNCHANGED sock
       \/ /\ fdctx[fd].there
          /\ sock' = [sock EXCEPT ![fd] = "connected"]
          /\ Return(f, "connected")
       \/ /\ fdctx[fd].there /\ nonblock[fd]
          /\ sock' = [sock EXCEPT ![fd] = "connecting"]
          /\ IF fdctx[fd].user THEN Return(f, "EINPROGRESS")
                               ELSE goto(f, "arm") /\ UNCHANGED ret
    /\ UNCHANGED <<inbox, nonblock, fdctx, eventVars, timers, cleared, crashed>>

\* getsockopt(SO_ERROR): no error is reported while the connection is not
\* decided.
SoError(f) ==
    LET fd == call[f].fd IN
    /\ pc[f] = "so_error"
    /\ Return(f, CASE sock[fd] = "closed" -> "error"
                   [] sock[fd] = "refused" -> "error"
                   [] OTHER -> "connected")
    /\ UNCHANGED <<kernelVars, fdctx, eventVars, timerVars, callVars, histVars, crashed>>

\* sleep, usleep, nanosleep: a timer that schedules the fiber, and a yield.
sleep(f) ==
    /\ UserOp(f)
    /\ Begin(f, "sleep", NoCall.fd, "READ", TRUE)
    /\ timers' = timers \cup {[f |-> f, id |-> id[f] + 1, fd |-> NoCall.fd, ev |-> "SLEEP",
                               st |-> "armed"]}
    /\ goto(f, "parked")
    /\ UNCHANGED <<kernelVars, fdctx, eventVars, ret, cleared, crashed>>

SleepEnds(tm) ==
    /\ tm \in timers /\ tm.st = "handed" /\ tm.ev = "SLEEP"
    /\ timers' = timers \ {tm}
    /\ woken' = woken \cup {tm.f}
    /\ UNCHANGED <<kernelVars, fdctx, reg, inEpoll, cancelled, pc, callVars, ret, histVars,
                   crashed>>

\* close(): cancelAll, FdMgr::del and close_f are three steps.
close(f, fd) ==
    /\ UserOp(f)
    /\ sock[fd] # "closed"
    /\ \A g \in Fibers \ {f} : InCall(g) => call[g].fd # fd \/ call[g].kind # "close"
    /\ Begin(f, "close", fd, "READ", FALSE)
    /\ goto(f, IF fdctx[fd].there THEN "cancelAll" ELSE "close_f")
    /\ UNCHANGED <<kernelVars, fdctx, eventVars, timers, ret, cleared, crashed>>

cancelAll(f) ==
    LET fd == call[f].fd IN
    /\ pc[f] = "cancelAll"
    /\ IF Registered(fd) # {} /\ ~CtlFails(fd) THEN Wake(fd, Registered(fd))
                                               ELSE UNCHANGED eventVars
    /\ stray' = stray \cup {tinfo(g) : g \in woken' \ woken}
    /\ goto(f, "del")
    /\ UNCHANGED <<kernelVars, fdctx, timerVars, callVars, ret, expired, missed, closed,
                   cleared, crashed>>

del(f) ==
    /\ pc[f] = "del"
    /\ fdctx' = [fdctx EXCEPT ![call[f].fd] = NoCtx]
    /\ goto(f, "close_f")
    /\ UNCHANGED <<kernelVars, eventVars, timerVars, callVars, ret, histVars, crashed>>

\* The kernel takes the closed descriptor out of epoll; FdContext keeps its
\* events.
close_f(f) ==
    LET fd == call[f].fd IN
    /\ pc[f] = "close_f"
    /\ sock' = [sock EXCEPT ![fd] = "closed"]
    /\ inbox' = [inbox EXCEPT ![fd] = 0]
    /\ inEpoll' = inEpoll \ {fd}
    /\ closed' = closed \cup {tinfo(g) : g \in {h \in Fibers \ {f} : InCall(h) /\ call[h].fd = fd}}
    /\ Return(f, "closed")
    /\ UNCHANGED <<nonblock, fdctx, reg, woken, timerVars, callVars, expired, missed, stray,
                   cleared, crashed>>

-----------------------------------------------------------------------------
(* The kernel and the polling threads                                       *)

Ready(fd, e) == IF e = "READ" THEN inbox[fd] > 0 \/ sock[fd] = "refused"
                              ELSE sock[fd] \in {"connected", "refused"}

\* idle() triggers a registered event that epoll reports.
Trigger(fd, e) ==
    /\ fd \in inEpoll /\ reg[fd][e] # NoFiber
    /\ Ready(fd, e)
    /\ Wake(fd, {e})
    /\ UNCHANGED <<kernelVars, fdctx, timerVars, pc, callVars, ret, histVars, crashed>>

Arrive(fd) ==
    /\ sock[fd] = "connected" /\ inbox[fd] < MaxData
    /\ inbox' = [inbox EXCEPT ![fd] = @ + 1]
    /\ UNCHANGED <<sock, nonblock, fdctx, eventVars, timerVars, pc, callVars, ret, histVars,
                   crashed>>

Decide(fd, s) ==
    /\ sock[fd] = "connecting"
    /\ sock' = [sock EXCEPT ![fd] = s]
    /\ UNCHANGED <<inbox, nonblock, fdctx, eventVars, timerVars, pc, callVars, ret, histVars,
                   crashed>>

-----------------------------------------------------------------------------
UserNext(f) ==
    \/ \E fd \in Fds :
          \/ \E s \in {"fresh", "connected"} : Open(f, fd, s)
          \/ \E user \in BOOLEAN : fcntl(f, fd, user) \/ ioctl(f, fd, user)
          \/ setsockopt(f, fd) \/ do_io(f, fd) \/ connect(f, fd) \/ close(f, fd)
    \/ sleep(f)

Step(f) ==
    ~crashed /\
    (\/ Receive(f) \/ Unblock(f) \/ Arm(f) \/ AddEvent(f) \/ Resume(f) \/ Check(f)
     \/ SoError(f) \/ cancelAll(f) \/ del(f) \/ close_f(f))

TimerStep(tm) ==
    ~crashed /\ (Expire(tm) \/ CallbackMarks(tm) \/ CallbackCancels(tm) \/ SleepEnds(tm))

TimerNext == \E tm \in timers : TimerStep(tm)

TriggerNext(fd, e) == ~crashed /\ Trigger(fd, e)

KernelNext ==
    ~crashed /\ \E fd \in Fds : Arrive(fd) \/ \E s \in {"connected", "refused"} : Decide(fd, s)

Next ==
    \/ \E f \in Fibers : UserNext(f) \/ Step(f)
    \/ TimerNext \/ KernelNext
    \/ \E fd \in Fds, e \in Event : TriggerNext(fd, e)

\* The scheduler runs every woken fiber, timers expire and their callbacks
\* are executed, epoll reports what is ready.  Peers need not answer.
Fairness ==
    /\ \A f \in Fibers : WF_vars(Step(f))
    /\ WF_vars(TimerNext)
    /\ \A fd \in Fds, e \in Event : WF_vars(TriggerNext(fd, e))

Spec == Init /\ [][Next]_vars /\ Fairness

-----------------------------------------------------------------------------
(* Properties                                                               *)

\* Every variable has its type; every timer belongs to a call that was made.
TypeOK ==
    /\ sock \in [Fds -> {"closed", "fresh", "connecting", "connected", "refused"}]
    /\ inbox \in [Fds -> 0 .. MaxData]
    /\ nonblock \in [Fds -> BOOLEAN]
    /\ fdctx \in [Fds -> [user : BOOLEAN, timed : BOOLEAN, there : BOOLEAN]]
    /\ reg \in [Fds -> [Event -> Fibers \cup {NoFiber}]]
    /\ inEpoll \subseteq Fds /\ woken \subseteq Fibers
    /\ timers \subseteq [f : Fibers, id : 1 .. MaxOps, fd : Fds, ev : Event \cup {"SLEEP"},
                         st : {"armed", "handed", "marked"}]
    /\ pc \in [Fibers -> {"user", "try", "plain", "blocked", "arm", "add", "parked", "check",
                          "so_error", "cancelAll", "del", "close_f"}]
    /\ id \in [Fibers -> 0 .. MaxOps]
    /\ \A h \in {cancelled, expired, missed, closed, stray} : h \subseteq Fibers \X (1 .. MaxOps)
    /\ crashed \in BOOLEAN

\* A call returns ETIMEDOUT only if a timer of that very call expired, although
\* callbacks of earlier waits and earlier calls may still be under way
\* (hook.cc 155-168, 198-203).
TimeoutIsReal == \A f \in Fibers : ret[f] = "ETIMEDOUT" /\ ~InCall(f) => tinfo(f) \in expired

\* A registered fiber waits for exactly that event and is not in the run queue,
\* and a queued one waits: event, timer and close() never schedule one wait
\* twice, and no call ends with its event registered.
OneWaker ==
    /\ \A fd \in Fds, e \in Event : LET f == reg[fd][e] IN
          f # NoFiber => pc[f] = "parked" /\ call[f].fd = fd /\ call[f].ev = e /\ f \notin woken
    /\ \A f \in woken : pc[f] = "parked"

\* No call leaves its timer armed behind, on any return path (hook.cc 176-182,
\* 193-196, 377-380, 389-392).
NoTimerLeft ==
    \A tm \in timers : tm.st = "armed" =>
        tm.id = id[tm.f] /\ pc[tm.f] \in {"add", "parked"}

\* A hooked call blocks its whole thread only on a descriptor whose O_NONBLOCK
\* was cleared past FdCtx, by ioctl or during close() (fd_manager.cc 48-57).
BlocksOnlyIfCleared == \A f \in Fibers : pc[f] = "blocked" => call[f].fd \in cleared

\* addEvent's assertion against a second registration fails only after a
\* descriptor was closed under a waiting call, whose event FdContext keeps.
AbortNeedsClose == crashed => closed # {}

\* connect() reports success only on an established connection, unless the
\* call was woken by neither its event nor its timer, could not wait, or lost
\* its descriptor meanwhile (hook.cc 346-413).
ConnectTruthful ==
    [][\A f \in Fibers : pc[f] = "so_error" /\ tinfo(f) \notin stray \cup closed /\ ret'[f] = "connected"
           => pc'[f] = "so_error" \/ sock[call[f].fd] = "connected"]_vars

\* A call with a timeout returns, although nobody sends, unless its callback
\* came before addEvent or its descriptor was closed meanwhile.
CallReturns ==
    \A f \in Fibers : \A n \in 1 .. MaxOps :
        (InCall(f) /\ id[f] = n /\ call[f].to)
            ~> (~InCall(f) \/ id[f] # n \/ <<f, n>> \in missed \cup closed
                \/ pc[f] = "blocked" \/ crashed)

\* What the comment at hook.cc:165 says of do_io's callback: it forces the wake-up
\* of a call that has timed out.
TimeoutWakes ==
    \A f \in Fibers : \A n \in 1 .. MaxOps :
        (InCall(f) /\ id[f] = n /\ call[f].kind = "recv" /\ <<f, n>> \in cancelled)
            ~> (~InCall(f) \/ id[f] # n \/ <<f, n>> \in closed \/ crashed)

\* What a blocked call leaves with others, its event, its timer and its place in
\* the run queue, agrees with where the call is; it blocks its thread, or fails
\* an assertion, only where the comment of the part says.
WaitsConsistent ==
    TypeOK /\ OneWaker /\ NoTimerLeft /\ BlocksOnlyIfCleared /\ AbortNeedsClose
=============================================================================
