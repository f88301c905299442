------------------------------ MODULE MC_Serve ------------------------------
(* The parts of a server and of its clients, for TLC: a session, the servlet  *)
(* table, a client connection, the connection pool, the accepting server, the *)
(* launch.  A behaviour exercises one of them; the others stay as they are.   *)
EXTENDS HttpSession, ServletDispatch, HttpConnection, HttpConnectionPool, TcpServer, Application, TLC

VARIABLE part

MCRequests ==
    {[path |-> "a", body |-> 0, keep |-> TRUE], [path |-> "b", body |-> 2, keep |-> TRUE],
     [path |-> "a", body |-> 1, keep |-> FALSE]}

MCGlobs == "*" :> {"a", "b"} @@ "a*" :> {"a"}

\* A chunk of n bytes.
Chunk(n) == <<"size", "eol">> \o [i \in 1 .. n |-> "data"] \o <<"cr", "lf">>

MCResponses ==
    {[chunked |-> FALSE, body |-> <<"data", "data">>],
     [chunked |-> TRUE, body |-> Chunk(2) \o Chunk(1) \o Chunk(0)],
     [chunked |-> TRUE, body |-> Chunk(0)]}

\* Bound: four calls of bind, start and stop on one socket, three on two.
FewCalls ==
    tcpCalls' <= 3 \/ \A a, b \in AcceptFibers : acceptor'[a] # "none" /\ acceptor'[b] # "none" => a[1] = b[1]

Others(p) ==
    /\ p # "session" => UNCHANGED sessionVars
    /\ p # "servlet" => UNCHANGED servletVars
    /\ p # "connection" => UNCHANGED connVars
    /\ p # "pool" => UNCHANGED poolVars
    /\ p # "tcp" => UNCHANGED tcpVars
    /\ p # "app" => UNCHANGED appVars
    /\ UNCHANGED part

Init ==
    /\ part \in {"session", "servlet", "connection", "pool", "tcp", "app"}
    /\ SessionInit /\ ServletInit /\ ConnInit /\ PoolInit /\ TcpInit /\ AppInit
    /\ part # "app" => family = "ip"

Next ==
    \/ part = "session" /\ SessionNext /\ Others("session")
    \/ part = "servlet" /\ ServletNext /\ Others("servlet")
    \/ part = "connection" /\ ConnNext /\ Others("connection")
    \/ part = "pool" /\ PoolNext /\ Others("pool")
    \/ part = "tcp" /\ TcpNext /\ FewCalls /\ Others("tcp")
    \/ part = "app" /\ AppNext /\ Others("app")

vars == <<part, sessionVars, servletVars, connVars, poolVars, tcpVars, appVars>>

\* A thread or fiber that can go on does; a client, a server or the kernel need
\* not do anything.
Fairness ==
    /\ WF_vars(part = "session" /\ SessionStep /\ Others("session"))
    /\ WF_vars(part = "connection" /\ ConnStep /\ Others("connection"))
    /\ \A t \in ServerThreads : WF_vars(part = "tcp" /\ ServerThread(t) /\ Others("tcp"))
    /\ \A l \in Launches : WF_vars(part = "app" /\ LaunchStep(l) /\ Others("app"))

Spec == Init /\ [][Next]_vars
FairSpec == Spec /\ Fairness

\* The session answers or closes (http_server.cc 18-55), and a client that reads a
\* header or a chunk returns once its server is gone (http_connection.cc 46-158).
ExchangesEnd == RequestAnswered /\ CallEnds
=============================================================================
