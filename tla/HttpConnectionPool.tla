------------------------- MODULE HttpConnectionPool -------------------------
(***************************************************************************)
(* HttpConnectionPool of sylar/http/http_connection.{h,cc}: getConnection,   *)
(* doRequest and the deleter ReleasePtr, called by several fibers.           *)
(*                                                                         *)
(* m_mutex guards m_conns only; m_total is an atomic counter that is         *)
(* adjusted outside of it.  m_createTime stays 0, so that the two tests of a *)
(* connection's age never apply.  An exchange is HttpConnection's, seen from *)
(* outside: it leaves the connection open or closed.                         *)
(***************************************************************************)
EXTENDS Integers, Sequences, FiniteSets, SequencesExt

CONSTANTS
    Callers,       \* the fibers that call doRequest
    ConnIds,       \* connections that can be made (bound)
    NoConn,
    MaxRequest     \* m_maxRequest

ASSUME PoolAssumption ==
    MaxRequest \in Nat /\ IsFiniteSet(Callers) /\ NoConn \notin ConnIds

VARIABLES
    m_conns,       \* idle connections, oldest first
    m_total,
    made,          \* the connections made so far
    connected,     \* those whose socket is open
    m_request,     \* exchanges of a connection
    call           \* per caller: the step of doRequest, and its connection

poolVars == <<m_conns, m_total, made, connected, m_request, call>>

PoolInit ==
    /\ m_conns = <<>> /\ m_total = 0 /\ made = {} /\ connected = {}
    /\ m_request = [x \in ConnIds |-> 0]
    /\ call = [u \in Callers |-> [at |-> "out", conn |-> NoConn, invalid |-> 0]]

At(u, step, x) == call' = [call EXCEPT ![u].at = step, ![u].conn = x]

\* getConnection, up to unlock(): the first connected one, the others are to be
\* deleted.
TakeIdle(u) ==
    LET good == {i \in 1 .. Len(m_conns) : m_conns[i] \in connected}
        first == IF good = {} THEN Len(m_conns) + 1 ELSE CHOOSE i \in good : \A j \in good : i <= j
    IN /\ call[u].at = "out"
       /\ m_conns' = SubSeq(m_conns, first + 1, Len(m_conns))
       /\ call' = [call EXCEPT ![u] = [at |-> "taken", invalid |-> first - 1,
                       conn |-> IF good = {} THEN NoConn ELSE m_conns[first]]]
       /\ UNCHANGED <<m_total, made, connected, m_request>>

\* m_total -= invalid_conns.size(), and on to the request or to a new connection.
DropInvalid(u) ==
    /\ call[u].at = "taken"
    /\ m_total' = m_total - call[u].invalid
    /\ At(u, IF call[u].conn = NoConn THEN "making" ELSE "using", call[u].conn)
    /\ UNCHANGED <<m_conns, made, connected, m_request>>

\* Lookup, CreateTCP and connect succeed.
Connects(u) ==
    /\ call[u].at = "making"
    /\ \E x \in ConnIds \ made :
        /\ made' = made \cup {x} /\ connected' = connected \cup {x}
        /\ At(u, "counting", x)
    /\ UNCHANGED <<m_conns, m_total, m_request>>

ConnectFails(u) ==
    /\ call[u].at = "making"
    /\ At(u, "out", NoConn)
    /\ UNCHANGED <<m_conns, m_total, made, connected, m_request>>

\* ++ m_total
CountNew(u) ==
    /\ call[u].at = "counting"
    /\ m_total' = m_total + 1
    /\ At(u, "using", call[u].conn)
    /\ UNCHANGED <<m_conns, made, connected, m_request>>

\* sendRequest and recvResponse: a response, or nullptr after close(), or an
\* exception that unwinds doRequest and leaves the connection open.
Exchange(u) ==
    LET x == call[u].conn IN
    /\ call[u].at = "using"
    /\ connected' \in {connected, connected \ {x}}
    /\ At(u, "releasing", x)
    /\ UNCHANGED <<m_conns, m_total, made, m_request>>

\* ++ m_request has been done when it is compared.
WornOut(x) == m_request[x] + 1 >= MaxRequest

\* ReleasePtr: back into the pool, or deleted.
Release(u) ==
    LET x == call[u].conn IN
    /\ call[u].at = "releasing"
    /\ m_request' = [m_request EXCEPT ![x] = @ + 1]
    /\ IF x \notin connected \/ WornOut(x)
       THEN /\ connected' = connected \ {x}
            /\ At(u, "deleted", x) /\ UNCHANGED m_conns
       ELSE /\ m_conns' = Append(m_conns, x)
            /\ At(u, "out", NoConn) /\ UNCHANGED connected
    /\ UNCHANGED <<m_total, made>>

\* Mutant: the counter is left alone.
NotUncounted(n) == n

\* --pool->m_total
Uncounted(n) == n - 1

CountDeleted(u) ==
    /\ call[u].at = "deleted"
    /\ m_total' = Uncounted(m_total)
    /\ At(u, "out", NoConn)
    /\ UNCHANGED <<m_conns, made, connected, m_request>>

PoolNext ==
    \E u \in Callers :
        \/ TakeIdle(u) \/ DropInvalid(u) \/ Connects(u) \/ ConnectFails(u) \/ CountNew(u)
        \/ Exchange(u) \/ Release(u) \/ CountDeleted(u)

-----------------------------------------------------------------------------
(* Properties                                                               *)

\* The connections a caller holds that m_total counts.
Counted(u) ==
    IF call[u].conn # NoConn /\ call[u].at # "counting" THEN 1 ELSE 0

\* m_total counts the idle connections and those in use, at every step of every
\* caller, although it is changed outside of the lock.
TotalExact ==
    m_total = Len(m_conns) + Cardinality({u \in Callers : Counted(u) = 1})

\* A connection is idle or used by one caller; an idle one is open and may serve
\* another request.
PoolExclusive ==
    /\ IsInjective(m_conns)
    /\ \A u \in Callers : call[u].conn # NoConn =>
        /\ call[u].conn \notin ToSet(m_conns)
        /\ \A v \in Callers \ {u} : call[v].conn # call[u].conn
    /\ \A i \in 1 .. Len(m_conns) : m_conns[i] \in connected /\ m_request[m_conns[i]] < MaxRequest

\* The pool counts its connections and gives each to one caller.
PoolConsistent == TotalExact /\ PoolExclusive
=============================================================================
