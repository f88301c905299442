------------------------------ MODULE TcpServer -----------------------------
(***************************************************************************)
(* TcpServer and the listening sockets it owns (sylar/tcp_server.cc,         *)
(* socket.cc): bind, start, the accepting fibers, stop.                      *)
(*                                                                         *)
(* The two workers are one IOManager: each of its threads takes the first    *)
(* task and runs it until it blocks or ends.  bind, start and stop are       *)
(* called by any thread.  An accepting fiber is named by its socket and the  *)
(* start() that made it.  The sockets have no lock: it is assumed that no    *)
(* bind and no second task of stop() runs while one of stop() does.          *)
(***************************************************************************)
EXTENDS Integers, Sequences, FiniteSets, SequencesExt

CONSTANTS
    ServerThreads, \* the threads of the IOManager
    Socks,         \* the sockets that can be created, one address each
    MaxClients,    \* bound on the clients
    MaxCalls,      \* bound on the calls of bind, start and stop
    MaxStarts,     \* bound on the calls of start that take effect
    MaxErrors      \* bound on the errors of accept on an open socket

ASSUME TcpServerAssumption ==
    {MaxClients, MaxCalls, MaxStarts, MaxErrors} \subseteq Nat /\ IsFiniteSet(Socks)

VARIABLES
    m_socks,       \* the sockets the server keeps
    listening,     \* the sockets that are open
    m_isStop,
    acceptor,      \* fiber -> "none", "loop", "accept", "again", "blocked" or "ended"
    tasks,         \* the queue of the IOManager
    running,       \* thread -> the fiber or task on it, or Nobody
    toClose,       \* the sockets the task of stop() has not come to
    closing,       \* the socket it is at, and what is next, or Nobody
    backlog,       \* per socket: clients that wait to be accepted
    arrived, accepted, handledClients,
    tcpAborted,    \* an assertion has failed
    late,          \* history: the clients a fiber has accepted after stop()
    slipped,       \* history: the fibers that registered too late to be cancelled
    tcpCalls,      \* calls so far (bound only)
    starts,        \* effective calls of start
    acceptErrors,  \* errors so far (bound only)
    restarted,     \* history: start() was called before the last stop() was through
    forgotten      \* history: a bind failed while fibers were accepting

callVars == <<tcpCalls, starts, acceptErrors, restarted, forgotten>>
clientVars == <<arrived, accepted, handledClients, late>>
closeVars == <<toClose, closing>>
tcpVars == <<m_socks, listening, m_isStop, acceptor, tasks, running, backlog, tcpAborted, slipped,
             clientVars, closeVars, callVars>>

AcceptFibers == Socks \X (1 .. MaxStarts)
Nobody == <<>>
StopTask == <<"stop">>
ClientTask == <<"client">>

TcpInit ==
    /\ m_socks = {} /\ listening = {} /\ m_isStop = TRUE
    /\ acceptor = [a \in AcceptFibers |-> "none"] /\ tasks = <<>>
    /\ running = [t \in ServerThreads |-> Nobody] /\ toClose = {} /\ closing = Nobody
    /\ backlog = [s \in Socks |-> 0] /\ arrived = 0 /\ accepted = 0 /\ handledClients = 0
    /\ tcpAborted = FALSE /\ late = [a \in AcceptFibers |-> 0] /\ slipped = {}
    /\ tcpCalls = 0 /\ starts = 0 /\ acceptErrors = 0 /\ restarted = FALSE /\ forgotten = FALSE

LiveFibers == {a \in AcceptFibers : acceptor[a] \in {"loop", "accept", "again", "blocked"}}
HeldSocks == {a[1] : a \in LiveFibers}
Stopping == \E t \in ServerThreads : running[t] = StopTask

-----------------------------------------------------------------------------
(* The calls                                                                *)

TcpCall == ~tcpAborted /\ tcpCalls < MaxCalls /\ tcpCalls' = tcpCalls + 1

\* m_socks after bind: one failure gives up all, those of earlier calls too; a
\* socket nobody holds any more is closed by its destructor.
bind(addrs, fails) ==
    /\ TcpCall /\ ~Stopping
    /\ addrs # {} /\ fails \subseteq addrs
    /\ addrs \cap (listening \cup HeldSocks) = {}
    /\ m_socks' = IF fails = {} THEN m_socks \cup addrs ELSE {}
    /\ listening' = {s \in listening \cup addrs : s \in m_socks' \cup HeldSocks}
    /\ backlog' = [s \in Socks |-> IF s \in listening' THEN backlog[s] ELSE 0]
    /\ forgotten' = (forgotten \/ (fails # {} /\ LiveFibers # {}))
    /\ UNCHANGED <<m_isStop, acceptor, tasks, running, tcpAborted, slipped, clientVars, closeVars,
                   starts, acceptErrors, restarted>>

\* start(), when it is stopped: a fiber for every socket.
start ==
    LET new == m_socks \X {starts + 1} IN
    /\ TcpCall
    /\ m_isStop /\ starts < MaxStarts
    /\ m_isStop' = FALSE /\ starts' = starts + 1
    /\ acceptor' = [a \in AcceptFibers |-> IF a \in new THEN "loop" ELSE acceptor[a]]
    /\ tasks' = tasks \o SetToSeq(new)
    /\ restarted' = (restarted \/ LiveFibers # {} \/ Contains(tasks, StopTask) \/ Stopping)
    /\ UNCHANGED <<m_socks, listening, running, backlog, tcpAborted, slipped, clientVars, closeVars,
                   acceptErrors, forgotten>>

\* Mutant: the flag is left to the task.
FlagLater == m_isStop

StopFlag == TRUE

\* stop(): the flag, and a task that closes the sockets.
stop ==
    /\ TcpCall
    /\ m_isStop' = StopFlag
    /\ tasks' = Append(tasks, StopTask)
    /\ UNCHANGED <<m_socks, listening, acceptor, running, backlog, tcpAborted, slipped, clientVars,
                   closeVars, starts, acceptErrors, restarted, forgotten>>

-----------------------------------------------------------------------------
(* The task of stop()                                                       *)

\* The thread takes the first task.
Takes(t) == ~tcpAborted /\ running[t] = Nobody /\ tasks # <<>> /\ tasks' = Tail(tasks)

RunStopTask(t) ==
    /\ Takes(t) /\ Head(tasks) = StopTask /\ ~Stopping
    /\ running' = [running EXCEPT ![t] = StopTask]
    /\ toClose' = m_socks
    /\ UNCHANGED <<m_socks, listening, m_isStop, acceptor, backlog, tcpAborted, slipped, closing,
                   clientVars, callVars>>

\* Mutant: the sockets are closed without waking the fibers that wait on them.
NobodyWoken(socks) == {}

\* The fibers that wait on the sockets.
Woken(socks) == {a \in AcceptFibers : acceptor[a] = "blocked" /\ a[1] \in socks}

WakeUp(socks) ==
    /\ acceptor' = [a \in AcceptFibers |-> IF a \in Woken(socks) THEN "accept" ELSE acceptor[a]]
    /\ tasks' = tasks \o SetToSeq(Woken(socks))

\* sock->cancelAll()
CancelSock(t, s) ==
    /\ ~tcpAborted /\ running[t] = StopTask /\ closing = Nobody /\ s \in toClose
    /\ WakeUp({s})
    /\ toClose' = toClose \ {s} /\ closing' = <<s, "cancel">>
    /\ UNCHANGED <<m_socks, listening, m_isStop, running, backlog, tcpAborted, slipped, clientVars,
                   callVars>>

\* sock->close(): cancelAll() again ...
CloseCancels(t, s) ==
    /\ ~tcpAborted /\ running[t] = StopTask /\ closing = <<s, "cancel">>
    /\ WakeUp({s})
    /\ closing' = <<s, "close">>
    /\ UNCHANGED <<m_socks, listening, m_isStop, running, backlog, tcpAborted, slipped, toClose,
                   clientVars, callVars>>

\* ... and, later, the descriptor is closed.
CloseCloses(t, s) ==
    /\ ~tcpAborted /\ running[t] = StopTask /\ closing = <<s, "close">>
    /\ listening' = listening \ {s} /\ backlog' = [backlog EXCEPT ![s] = 0]
    /\ closing' = Nobody
    /\ UNCHANGED <<m_socks, m_isStop, acceptor, tasks, running, tcpAborted, slipped, toClose,
                   clientVars, callVars>>

\* m_socks.clear()
StopTaskEnds(t) ==
    /\ ~tcpAborted /\ running[t] = StopTask /\ closing = Nobody /\ toClose = {}
    /\ m_socks' = {} /\ running' = [running EXCEPT ![t] = Nobody]
    /\ UNCHANGED <<listening, m_isStop, acceptor, tasks, backlog, tcpAborted, slipped, clientVars,
                   closeVars, callVars>>

-----------------------------------------------------------------------------
(* The accepting fibers                                                     *)

RunAcceptor(t) ==
    /\ Takes(t) /\ Head(tasks) \in AcceptFibers
    /\ running' = [running EXCEPT ![t] = Head(tasks)]
    /\ UNCHANGED <<m_socks, listening, m_isStop, acceptor, backlog, tcpAborted, slipped, clientVars,
                   closeVars, callVars>>

\* handleClient, up to its first wait.
RunClient(t) ==
    /\ Takes(t) /\ Head(tasks) = ClientTask
    /\ handledClients' = handledClients + 1
    /\ UNCHANGED <<m_socks, listening, m_isStop, acceptor, running, backlog, tcpAborted, slipped,
                   arrived, accepted, late, closeVars, callVars>>

\* Fiber a is on thread t, at pc.
FiberAt(t, a, pc) == ~tcpAborted /\ running[t] = a /\ acceptor[a] = pc

GoesTo(a, pc) == acceptor' = [acceptor EXCEPT ![a] = pc]
GivesUp(t) == running' = [running EXCEPT ![t] = Nobody]

\* while(!m_isStop)
Loops(a) == ~m_isStop

TestStop(t, a) ==
    /\ FiberAt(t, a, "loop")
    /\ IF Loops(a) THEN GoesTo(a, "accept") /\ UNCHANGED running
                   ELSE GoesTo(a, "ended") /\ GivesUp(t)
    /\ UNCHANGED <<m_socks, listening, m_isStop, tasks, backlog, tcpAborted, slipped, clientVars,
                   closeVars, callVars>>

\* m_worker->schedule(handleClient)
Scheduled(q) == Append(q, ClientTask)

\* sock->accept() returns a client, which becomes a task.
AcceptClient(t, a) ==
    /\ FiberAt(t, a, "accept") /\ backlog[a[1]] > 0
    /\ backlog' = [backlog EXCEPT ![a[1]] = @ - 1]
    /\ accepted' = accepted + 1
    /\ tasks' = Scheduled(tasks)
    /\ GoesTo(a, "loop")
    /\ late' = IF m_isStop THEN [late EXCEPT ![a] = @ + 1] ELSE late
    /\ UNCHANGED <<m_socks, listening, m_isStop, running, tcpAborted, slipped, arrived,
                   handledClients, closeVars, callVars>>

\* It returns nullptr at once: the socket is closed, the hook knows it no more and
\* nobody is there, or the kernel has an error.
AcceptNull(t, a) ==
    /\ FiberAt(t, a, "accept")
    /\ \/ /\ a[1] \notin listening \/ (closing = <<a[1], "close">> /\ backlog[a[1]] = 0)
          /\ UNCHANGED acceptErrors
       \/ acceptErrors < MaxErrors /\ acceptErrors' = acceptErrors + 1
    /\ GoesTo(a, "loop")
    /\ UNCHANGED <<m_socks, listening, m_isStop, tasks, running, backlog, tcpAborted, slipped,
                   clientVars, closeVars, tcpCalls, starts, restarted, forgotten>>

\* Nobody is there: the hook will register the fiber ...
AcceptAgain(t, a) ==
    /\ FiberAt(t, a, "accept")
    /\ a[1] \in listening /\ backlog[a[1]] = 0
    /\ GoesTo(a, "again")
    /\ UNCHANGED <<m_socks, listening, m_isStop, tasks, running, backlog, tcpAborted, slipped,
                   clientVars, closeVars, callVars>>

\* ... which fails if the socket was closed meanwhile, asserts that no other waits
\* there, and else gives up the thread, to be woken at once if a client has come.
AcceptRegisters(t, a) ==
    /\ FiberAt(t, a, "again")
    /\ \/ /\ a[1] \notin listening
          /\ GoesTo(a, "loop") /\ UNCHANGED <<tasks, running, slipped, tcpAborted>>
       \/ /\ a[1] \in listening /\ Woken({a[1]}) # {}
          /\ tcpAborted' = TRUE /\ UNCHANGED <<acceptor, tasks, running, slipped>>
       \/ /\ a[1] \in listening /\ Woken({a[1]}) = {} /\ backlog[a[1]] > 0
          /\ GoesTo(a, "accept") /\ GivesUp(t) /\ tasks' = Append(tasks, a)
          /\ UNCHANGED <<slipped, tcpAborted>>
       \/ /\ a[1] \in listening /\ Woken({a[1]}) = {}
          /\ backlog[a[1]] = 0 \/ closing = <<a[1], "close">>
          /\ GoesTo(a, "blocked") /\ GivesUp(t)
          /\ slipped' = IF closing = <<a[1], "close">> THEN slipped \cup {a} ELSE slipped
          /\ UNCHANGED <<tasks, tcpAborted>>
    /\ UNCHANGED <<m_socks, listening, m_isStop, backlog, clientVars, closeVars, callVars>>

\* A client connects, and the fiber that waits on the socket is scheduled.
ClientArrives(s) ==
    /\ s \in listening /\ arrived < MaxClients
    /\ arrived' = arrived + 1
    /\ backlog' = [backlog EXCEPT ![s] = @ + 1]
    /\ WakeUp({s})
    /\ UNCHANGED <<m_socks, listening, m_isStop, running, tcpAborted, slipped, accepted,
                   handledClients, late, closeVars, callVars>>

AcceptorStep(t, a) ==
    TestStop(t, a) \/ AcceptClient(t, a) \/ AcceptNull(t, a) \/ AcceptAgain(t, a)
        \/ AcceptRegisters(t, a)

ServerThread(t) ==
    \/ RunStopTask(t) \/ StopTaskEnds(t) \/ RunAcceptor(t) \/ RunClient(t)
    \/ \E s \in Socks : CancelSock(t, s) \/ CloseCancels(t, s) \/ CloseCloses(t, s)
    \/ \E a \in AcceptFibers : AcceptorStep(t, a)

TcpNext ==
    \/ \E addrs \in SUBSET Socks : \E fails \in SUBSET addrs : bind(addrs, fails)
    \/ start \/ stop
    \/ \E t \in ServerThreads : ServerThread(t)
    \/ \E s \in Socks : ClientArrives(s)

-----------------------------------------------------------------------------
(* Properties                                                               *)

\* stop() may come while a fiber is in accept: it still takes the client that
\* is there, but not a second one.
OneLateClient ==
    ~restarted => \A a \in AcceptFibers : late[a] <= 1

\* On a stopped server, or one whose sockets are open, a fiber does not turn in
\* accept on a closed socket: that takes a start() before stop() is through.
NoBusyLoop ==
    \A a \in AcceptFibers :
        acceptor[a] = "loop" /\ a[1] \notin listening => m_isStop \/ restarted

\* Once stop() is called, every accepting fiber ends, except one that registered
\* with epoll between the last cancelAll and the close of its socket (hook.cc 501
\* and 505), unless the server is started again or a failed bind has made it
\* forget its sockets.
StopEndsAcceptors ==
    (m_isStop /\ LiveFibers # {})
        ~> (LiveFibers \subseteq slipped \/ ~m_isStop \/ forgotten \/ tcpAborted)

\* Every accepted client is handed to handleClient, unless a restarted server
\* keeps the threads busy.
ClientsHandled ==
    (handledClients < accepted) ~> (handledClients = accepted \/ restarted)

\* A fiber that is not blocked is on one thread or once in the queue, and not both;
\* a blocked one is nowhere: two threads never accept for one fiber.
FiberInOnePlace ==
    \A a \in AcceptFibers :
        LET queued == {i \in 1 .. Len(tasks) : tasks[i] = a}
            on == {t \in ServerThreads : running[t] = a}
        IN IF acceptor[a] \in {"loop", "accept", "again"}
           THEN \/ on = {} /\ \E i \in queued : queued = {i}
                \/ queued = {} /\ \E t \in on : on = {t}
           ELSE queued = {} /\ on = {}

\* What a fiber may do between stop() and its end.
AcceptorsConsistent == OneLateClient /\ NoBusyLoop /\ FiberInOnePlace

\* A stopping server comes to an end and loses no client it has accepted.
ServerProgress == StopEndsAcceptors /\ ClientsHandled
=============================================================================
