----------------------------- MODULE ServeProofs -----------------------------
(***************************************************************************)
(* Proofs about the parts of a server that MC_Serve model-checks: the launch *)
(* and its pidfile, the connection pool, the accepting server, the servlet   *)
(* table and a session.  Each is proved for every number of launches,        *)
(* callers, connections, threads, sockets, starts, uris, patterns, changes   *)
(* and requests.  They share no variable.                                    *)
(***************************************************************************)
EXTENDS Application, HttpConnectionPool, TcpServer, ServletDispatch, HttpSession,
        TLAPS, FiniteSetTheorems, SequenceTheorems, WellFoundedInduction

-----------------------------------------------------------------------------
(* Application: the pidfile                                                 *)

\* The types of what the proof reads, and the pid written last: as long as no
\* two launches were under way at once, at most one is, and between the write
\* and its end the file names it.
AppInv ==
    /\ proc \in [Launches -> {"new", "checked", "main", "starting", "serving", "crashed", "ended"}]
    /\ restart_count \in [Launches -> Nat]
    /\ overlapped \in BOOLEAN
    /\ ~overlapped =>
        \A l \in Launches :
            /\ Under(l) => \A k \in Launches \ {l} : ~Under(k)
            /\ proc[l] \in {"starting", "serving"} => pidfile = Pid(l)

\* AppInv holds when nothing was launched.
LEMMA AppInvInit == AppInit => AppInv
<1> SUFFICES ASSUME AppInit PROVE AppInv
  OBVIOUS
<1>1. \A l \in Launches : proc[l] = "new"
  BY DEF AppInit
<1>2. QED
  BY <1>1 DEF AppInit, AppInv, Under

\* Every step of a launch keeps AppInv.
LEMMA AppInvNext == AppInv /\ [AppNext]_appVars => AppInv'
<1> SUFFICES ASSUME AppInv, [AppNext]_appVars PROVE AppInv'
  OBVIOUS
<1> USE DEF AppInv, Under, Pid, Goes
<1>1. ASSUME NEW l \in Launches, init(l) PROVE AppInv'
  <2>1. CASE IsRunning
    BY <1>1, <2>1 DEF init
  <2>2. CASE ~IsRunning
    BY <1>1, <2>2 DEF init
  <2>3. QED
    BY <2>1, <2>2
<1>2. ASSUME NEW l \in Launches, Fork(l) PROVE AppInv'
  BY <1>2 DEF Fork
<1>3. ASSUME NEW l \in Launches, WritePidfile(l) PROVE AppInv'
  BY <1>3 DEF WritePidfile, WrittenPid
<1>4. ASSUME NEW l \in Launches, run_fiber(l) PROVE AppInv'
  BY <1>4 DEF run_fiber
<1>5. ASSUME NEW l \in Launches, Restart(l) PROVE AppInv'
  BY <1>5 DEF Restart, LoopAgain
<1>6. ASSUME NEW l \in Launches, ForkFails(l) PROVE AppInv'
  BY <1>6 DEF ForkFails
<1>7. ASSUME NEW l \in Launches, PidfileFails(l) PROVE AppInv'
  BY <1>7 DEF PidfileFails
<1>8. ASSUME NEW l \in Launches, Crash(l) PROVE AppInv'
  BY <1>8 DEF Crash
<1>9. CASE UNCHANGED appVars
  BY <1>9 DEF appVars
<1>10. QED
  BY <1>1, <1>2, <1>3, <1>4, <1>5, <1>6, <1>7, <1>8, <1>9 DEF AppNext, LaunchStep

\* Whatever launches do, as long as no two of them were under way at once the
\* pidfile names the process that serves, after any number of crashes and
\* restarts (application.cc 84-161, daemon.cc 33-85).
THEOREM PidfileCorrect == AppInit /\ [][AppNext]_appVars => []PidfileNamesServer
<1>1. AppInv => PidfileNamesServer
  BY DEF AppInv, PidfileNamesServer
<1>2. QED
  BY AppInvInit, AppInvNext, <1>1, PTL

-----------------------------------------------------------------------------
(* HttpConnectionPool                                                       *)

PoolSteps == {"out", "taken", "making", "counting", "using", "releasing", "deleted"}

PoolType ==
    /\ m_conns \in Seq(ConnIds) /\ m_total \in Int
    /\ made \subseteq ConnIds /\ connected \subseteq ConnIds
    /\ m_request \in [ConnIds -> Nat]
    /\ call \in [Callers -> [at : PoolSteps, conn : ConnIds \cup {NoConn}, invalid : Nat]]

\* What a caller has at each step of doRequest.  getConnection never finds an
\* idle connection closed, so it has nothing to delete.
CallOK ==
    \A u \in Callers :
        /\ call[u].at \in {"out", "making"} => call[u].conn = NoConn
        /\ call[u].at \in {"counting", "using", "releasing", "deleted"} => call[u].conn # NoConn
        /\ call[u].at = "taken" => call[u].invalid = 0

\* A connection that is idle or in use was made, so a new one is neither.
KnownMade ==
    /\ \A i \in 1 .. Len(m_conns) : m_conns[i] \in made
    /\ \A u \in Callers : call[u].conn # NoConn => call[u].conn \in made

PoolInv == PoolType /\ CallOK /\ KnownMade /\ TotalExact /\ PoolExclusive

\* The callers whose connection m_total counts.
HoldersCounted == {u \in Callers : Counted(u) = 1}

\* TotalExact in terms of that set.
LEMMA TotalOfHolders == TotalExact <=> m_total = Len(m_conns) + Cardinality(HoldersCounted)
BY Zenon DEF TotalExact, HoldersCounted

\* A step of one caller changes the number of counted connections by what it
\* changes for that caller.
LEMMA CountedStep ==
  ASSUME NEW u \in Callers, \A v \in Callers \ {u} : call'[v] = call[v]
  PROVE  /\ Cardinality(HoldersCounted) \in Nat
         /\ Cardinality(HoldersCounted)' = Cardinality(HoldersCounted) + Counted(u)' - Counted(u)
<1> DEFINE H == HoldersCounted
<1>1. /\ IsFiniteSet(H) /\ IsFiniteSet(H') /\ Cardinality(H) \in Nat /\ Cardinality(H') \in Nat
  BY PoolAssumption, FS_Subset, FS_CardinalityType DEF HoldersCounted
<1>2. \A v \in Callers \ {u} : Counted(v)' = Counted(v)
  BY DEF Counted
<1>3. Counted(u) \in {0, 1} /\ Counted(u)' \in {0, 1}
  BY DEF Counted
<1>4. CASE Counted(u) = Counted(u)'
  <2>1. H' = H
    BY <1>2, <1>4 DEF HoldersCounted
  <2>2. QED
    BY <2>1, <1>1, <1>3, <1>4
<1>5. CASE Counted(u) = 0 /\ Counted(u)' = 1
  <2>1. H' = H \cup {u} /\ u \notin H
    BY <1>2, <1>5 DEF HoldersCounted
  <2>2. QED
    BY <2>1, <1>1, <1>5, FS_AddElement
<1>6. CASE Counted(u) = 1 /\ Counted(u)' = 0
  <2>1. H' = H \ {u} /\ u \in H
    BY <1>2, <1>6 DEF HoldersCounted
  <2>2. Cardinality(H \ {u}) = Cardinality(H) - 1
    BY <2>1, <1>1, FS_RemoveElement
  <2>3. QED
    BY <2>1, <2>2, <1>1, <1>6
<1>7. QED
  BY <1>3, <1>4, <1>5, <1>6

\* m_total stays exact when it changes by what the idle connections and the
\* caller's own change by.
LEMMA TotalStep ==
  ASSUME TotalExact, m_total \in Int, Len(m_conns) \in Nat, Len(m_conns)' \in Nat,
         NEW u \in Callers, \A v \in Callers \ {u} : call'[v] = call[v],
         m_total' = m_total + (Len(m_conns)' - Len(m_conns)) + (Counted(u)' - Counted(u))
  PROVE  TotalExact'
<1>1. Counted(u) \in Int /\ Counted(u)' \in Int
  BY DEF Counted
<1>2. m_total = Len(m_conns) + Cardinality(HoldersCounted)
  BY TotalOfHolders
<1>3. m_total' = Len(m_conns)' + Cardinality(HoldersCounted)'
  <2>1. /\ Cardinality(HoldersCounted) \in Nat
        /\ Cardinality(HoldersCounted)' = Cardinality(HoldersCounted) + Counted(u)' - Counted(u)
    BY CountedStep
  <2>2. QED
    BY <1>1, <1>2, <2>1
<1>4. QED
  BY <1>3, Zenon DEF TotalExact, HoldersCounted

\* PoolInv holds in an empty pool.
LEMMA PoolInvInit == PoolInit => PoolInv
<1> SUFFICES ASSUME PoolInit PROVE PoolInv
  OBVIOUS
<1>1. HoldersCounted = {}
  BY DEF PoolInit, HoldersCounted, Counted
<1>2. TotalExact
  BY <1>1, FS_EmptySet, TotalOfHolders DEF PoolInit
<1>3. PoolType
  <2>1. <<>> \in Seq(ConnIds)
    OBVIOUS
  <2>2. [at |-> "out", conn |-> NoConn, invalid |-> 0]
            \in [at : PoolSteps, conn : ConnIds \cup {NoConn}, invalid : Nat]
    BY DEF PoolSteps
  <2>3. call \in [Callers -> [at : PoolSteps, conn : ConnIds \cup {NoConn}, invalid : Nat]]
    BY <2>2 DEF PoolInit
  <2>4. QED
    BY <2>1, <2>3 DEF PoolInit, PoolType
<1>4. /\ \A u \in Callers : call[u].at = "out" /\ call[u].conn = NoConn
      /\ m_conns = <<>>
  BY DEF PoolInit
<1>5. CallOK /\ KnownMade /\ PoolExclusive
  BY <1>4 DEF CallOK, KnownMade, PoolExclusive, IsInjective
<1>6. QED
  BY <1>2, <1>3, <1>5 DEF PoolInv

\* Every idle connection is open, so getConnection takes the oldest, if there is
\* one, and leaves the others.
LEMMA TakeOldest ==
  ASSUME PoolInv, NEW u \in Callers, TakeIdle(u)
  PROVE  \/ /\ m_conns = <<>> /\ m_conns' = <<>>
            /\ call' = [call EXCEPT ![u] = [at |-> "taken", invalid |-> 0, conn |-> NoConn]]
         \/ /\ m_conns # <<>> /\ m_conns' = Tail(m_conns)
            /\ call' = [call EXCEPT ![u] = [at |-> "taken", invalid |-> 0, conn |-> m_conns[1]]]
<1> DEFINE good == {i \in 1 .. Len(m_conns) : m_conns[i] \in connected}
           first == IF good = {} THEN Len(m_conns) + 1
                    ELSE CHOOSE i \in good : \A j \in good : i <= j
<1>1. good = 1 .. Len(m_conns) /\ Len(m_conns) \in Nat /\ m_conns \in Seq(ConnIds)
  BY DEF PoolInv, PoolExclusive, PoolType
<1>2. /\ m_conns' = SubSeq(m_conns, first + 1, Len(m_conns))
      /\ call' = [call EXCEPT ![u] = [at |-> "taken", invalid |-> first - 1,
                     conn |-> IF good = {} THEN NoConn ELSE m_conns[first]]]
  BY DEF TakeIdle
<1>3. CASE m_conns = <<>>
  <2>1. good = {} /\ first = 1
    BY <1>1, <1>3
  <2>2. SubSeq(m_conns, 2, 0) = <<>>
    BY <1>3
  <2>3. QED
    BY <1>2, <1>3, <2>1, <2>2
<1>4. CASE m_conns # <<>>
  <2>1. Len(m_conns) >= 1 /\ 1 \in good
    BY <1>1, <1>4
  <2>2. first \in good /\ \A j \in good : first <= j
    <3>1. \E i \in good : \A j \in good : i <= j
      BY <1>1, <2>1
    <3>2. QED
      BY <2>1, <3>1
  <2>3. first = 1
    BY <1>1, <2>1, <2>2
  <2>4. SubSeq(m_conns, 2, Len(m_conns)) = Tail(m_conns)
    BY <1>1, <1>4, TailIsSubSeq
  <2>5. good # {} /\ first + 1 = 2 /\ first - 1 = 0
    BY <2>1, <2>3
  <2> HIDE DEF good, first
  <2>6. QED
    BY <1>2, <1>4, <2>3, <2>4, <2>5, Zenon
<1>5. QED
  BY <1>3, <1>4

\* A step that moves one caller changes nothing of the others.
LEMMA AtMoves ==
  ASSUME PoolType, NEW u \in Callers, NEW step \in PoolSteps,
         NEW x \in ConnIds \cup {NoConn}, At(u, step, x)
  PROVE  /\ call' \in [Callers -> [at : PoolSteps, conn : ConnIds \cup {NoConn}, invalid : Nat]]
         /\ call'[u].at = step /\ call'[u].conn = x
         /\ \A v \in Callers \ {u} : call'[v] = call[v]
BY DEF At, PoolType

\* A step that leaves the idle connections alone and moves one caller, whose
\* connection stays or is given up or new, keeps the pool exclusive.
LEMMA MoveExclusive ==
  ASSUME PoolInv, NEW u \in Callers, UNCHANGED m_conns,
         call'[u].conn \in {call[u].conn, NoConn} \/ call'[u].conn \notin made,
         \A v \in Callers \ {u} : call'[v] = call[v],
         \A i \in 1 .. Len(m_conns) : m_conns[i] \in connected'
                                     /\ m_request'[m_conns[i]] = m_request[m_conns[i]]
  PROVE  PoolExclusive'
<1> USE DEF PoolInv, PoolExclusive
<1>1. m_conns \in Seq(ConnIds) /\ DOMAIN m_conns = 1 .. Len(m_conns)
  BY DEF PoolType
<1>2. ASSUME NEW v \in Callers, call'[v].conn # NoConn
      PROVE  /\ call'[v].conn \notin ToSet(m_conns)
             /\ \A w \in Callers \ {v} : call'[w].conn # call'[v].conn
  BY <1>1, <1>2 DEF KnownMade, ToSet
<1>3. QED
  BY <1>1, <1>2 DEF ToSet

\* Every step of every caller keeps PoolInv.
LEMMA PoolInvNext == PoolInv /\ [PoolNext]_poolVars => PoolInv'
<1> SUFFICES ASSUME PoolInv, [PoolNext]_poolVars PROVE PoolInv'
  OBVIOUS
<1> USE DEF PoolInv
<1>0. Len(m_conns) \in Nat /\ DOMAIN m_conns = 1 .. Len(m_conns)
  BY DEF PoolType
<1> DEFINE Type == [Callers -> [at : PoolSteps, conn : ConnIds \cup {NoConn}, invalid : Nat]]
<1>1. ASSUME NEW u \in Callers, TakeIdle(u) PROVE PoolInv'
  <2> DEFINE x == IF m_conns = <<>> THEN NoConn ELSE m_conns[1]
  <2>1. /\ m_conns' = IF m_conns = <<>> THEN <<>> ELSE Tail(m_conns)
        /\ call' = [call EXCEPT ![u] = [at |-> "taken", invalid |-> 0, conn |-> x]]
        /\ call[u].at = "out" /\ UNCHANGED <<m_total, made, connected, m_request>>
    BY <1>1, TakeOldest DEF TakeIdle
  <2>2. x \in ConnIds \cup {NoConn} /\ (x = NoConn <=> m_conns = <<>>)
    BY PoolAssumption DEF PoolType
  <2>3. /\ call' \in Type /\ call'[u] = [at |-> "taken", invalid |-> 0, conn |-> x]
        /\ \A v \in Callers \ {u} : call'[v] = call[v]
    BY <2>1, <2>2 DEF PoolType, PoolSteps
  <2>4. /\ m_conns' \in Seq(ConnIds) /\ Len(m_conns') \in Nat
        /\ DOMAIN m_conns' = 1 .. Len(m_conns')
        /\ Len(m_conns') = IF m_conns = <<>> THEN 0 ELSE Len(m_conns) - 1
        /\ m_conns = <<>> <=> Len(m_conns) = 0
        /\ \A i \in 1 .. Len(m_conns') : i + 1 \in 1 .. Len(m_conns) /\ m_conns'[i] = m_conns[i + 1]
    <3>1. CASE m_conns = <<>>
      BY <2>1, <3>1
    <3>2. CASE m_conns # <<>>
      <4>1. Len(m_conns) # 0
        BY <3>2, EmptySeq DEF PoolType
      <4>2. QED
        BY <2>1, <3>2, <4>1, <1>0, HeadTailProperties DEF PoolType
    <3>3. QED
      BY <3>1, <3>2
  <2>5. PoolType'
    BY <2>1, <2>3, <2>4 DEF PoolType
  <2>6. CallOK'
    BY <2>3 DEF CallOK
  <2>7. KnownMade'
    BY <1>0, <2>1, <2>2, <2>3, <2>4 DEF KnownMade
  <2>8. Counted(u)' = (IF m_conns = <<>> THEN 0 ELSE 1) /\ Counted(u) = 0
    <3>1. Counted(u) = 0
      BY <2>1 DEF Counted, CallOK
    <3>2. call'[u].at = "taken" /\ (call'[u].conn = NoConn <=> m_conns = <<>>)
      BY <2>2, <2>3, SMTT(30)
    <3>3. QED
      BY <3>1, <3>2 DEF Counted
  <2>9. TotalExact'
    <3>1. m_total' = m_total + (Len(m_conns)' - Len(m_conns)) + (Counted(u)' - Counted(u))
      <4>1. CASE m_conns = <<>>
        BY <2>1, <2>4, <2>8, <4>1 DEF PoolType
      <4>2. CASE m_conns # <<>>
        BY <1>0, <2>1, <2>4, <2>8, <4>2 DEF PoolType
      <4>3. QED
        BY <4>1, <4>2
    <3>2. QED
      BY <1>0, <2>3, <2>4, <3>1, TotalStep DEF PoolType
  <2>10. PoolExclusive'
    <3> DEFINE n == Len(m_conns)
    <3>a. x # NoConn => x = m_conns[1] /\ 1 \in 1 .. Len(m_conns)
      <4>1. n \in Nat /\ (x # NoConn => n # 0)
        BY <1>0, <2>2, <2>4
      <4> HIDE DEF n
      <4>2. x # NoConn => 1 \in 1 .. n
        BY <4>1
      <4>3. x # NoConn => x = m_conns[1]
        OBVIOUS
      <4>4. QED
        BY <4>2, <4>3, Zenon DEF n
    <3>0. \A i, j \in 1 .. Len(m_conns) : m_conns[i] = m_conns[j] => i = j
      BY <1>0 DEF PoolExclusive, IsInjective
    <3>1. IsInjective(m_conns')
      <4>1. SUFFICES ASSUME NEW i \in 1 .. Len(m_conns'), NEW j \in 1 .. Len(m_conns'),
                            m_conns'[i] = m_conns'[j]
                     PROVE  i = j
        BY <2>4 DEF IsInjective
      <4>2. i + 1 = j + 1
        BY <2>4, <3>0, <4>1
      <4>3. QED
        BY <4>2
    <3>2. \A i \in 1 .. Len(m_conns') : m_conns'[i] \in connected' /\ m_request'[m_conns'[i]] < MaxRequest
      BY <2>1, <2>4 DEF PoolExclusive
    <3>3. x # NoConn => x \notin ToSet(m_conns')
      <4>1. SUFFICES ASSUME x # NoConn, NEW i \in 1 .. Len(m_conns'), m_conns'[i] = x PROVE FALSE
        BY <2>4 DEF ToSet
      <4>2. x = m_conns[1] /\ 1 \in 1 .. Len(m_conns) /\ i + 1 \in 1 .. Len(m_conns)
            /\ m_conns[i + 1] = m_conns[1]
        BY <2>4, <3>a, <4>1
      <4>3. i + 1 = 1
        BY <3>0, <4>2
      <4>4. QED
        BY <4>3
    <3>4. \A v \in Callers \ {u} : call[v].conn # NoConn =>
             call[v].conn \notin ToSet(m_conns') /\ call[v].conn # x
      <4>1. ToSet(m_conns') \subseteq ToSet(m_conns)
        BY <1>0, <2>4 DEF ToSet
      <4>2. x # NoConn => x \in ToSet(m_conns)
        <5>1. SUFFICES ASSUME x # NoConn PROVE x \in ToSet(m_conns)
          OBVIOUS
        <5>2. x = m_conns[1] /\ 1 \in DOMAIN m_conns
          BY <1>0, <3>a, <5>1
        <5>3. QED
          BY <5>2 DEF ToSet
      <4>3. \A v \in Callers : call[v].conn # NoConn => call[v].conn \notin ToSet(m_conns)
        BY DEF PoolExclusive
      <4>4. QED
        BY <4>1, <4>2, <4>3, Zenon
    <3>5. \A v \in Callers : call'[v].conn # NoConn =>
             /\ call'[v].conn \notin ToSet(m_conns')
             /\ \A w \in Callers \ {v} : call'[w].conn # call'[v].conn
      BY <2>3, <3>3, <3>4 DEF PoolExclusive
    <3>6. QED
      BY <3>1, <3>2, <3>5 DEF PoolExclusive
  <2>11. QED
    BY <2>5, <2>6, <2>7, <2>9, <2>10
<1>2. ASSUME NEW u \in Callers, DropInvalid(u) PROVE PoolInv'
  <2> DEFINE step == IF call[u].conn = NoConn THEN "making" ELSE "using"
  <2>1. /\ step \in PoolSteps /\ call[u].conn \in ConnIds \cup {NoConn}
        /\ At(u, step, call[u].conn)
    BY <1>2 DEF DropInvalid, PoolSteps, PoolType
  <2>2. /\ call' \in Type /\ call'[u].at = step /\ call'[u].conn = call[u].conn
        /\ \A v \in Callers \ {u} : call'[v] = call[v]
    BY <2>1, AtMoves
  <2>3. PoolType'
    BY <1>2, <2>2 DEF DropInvalid, PoolType, CallOK
  <2>4. CallOK'
    BY <1>2, <2>2 DEF DropInvalid, CallOK
  <2>5. KnownMade'
    BY <1>2, <2>2 DEF DropInvalid, KnownMade, CallOK
  <2>6. TotalExact'
    <3>1. m_total' = m_total + (Len(m_conns)' - Len(m_conns)) + (Counted(u)' - Counted(u))
      BY <1>0, <1>2, <2>2, PoolAssumption DEF DropInvalid, PoolType, CallOK, Counted
    <3>2. QED
      BY <1>0, <1>2, <2>2, <3>1, TotalStep DEF DropInvalid, PoolType
  <2>7. PoolExclusive'
    BY <1>2, <2>2, MoveExclusive DEF DropInvalid, PoolExclusive, ToSet
  <2>8. QED
    BY <2>3, <2>4, <2>5, <2>6, <2>7
<1>3. ASSUME NEW u \in Callers, Connects(u) PROVE PoolInv'
  <2>1. PICK x \in ConnIds \ made : /\ made' = made \cup {x} /\ connected' = connected \cup {x}
                                    /\ At(u, "counting", x)
    BY <1>3 DEF Connects
  <2>2. "counting" \in PoolSteps
    BY DEF PoolSteps
  <2>3. /\ call' \in Type /\ call'[u].at = "counting" /\ call'[u].conn = x
        /\ \A v \in Callers \ {u} : call'[v] = call[v]
    BY <2>1, <2>2, AtMoves
  <2>4. PoolType'
    BY <1>3, <2>1, <2>3 DEF Connects, PoolType
  <2>5. CallOK'
    BY <2>3, PoolAssumption DEF CallOK
  <2>6. KnownMade'
    BY <1>3, <2>1, <2>3 DEF Connects, KnownMade
  <2>7. TotalExact'
    <3>1. Counted(u) = 0 /\ Counted(u)' = 0
      BY <1>3, <2>3 DEF Connects, Counted, CallOK
    <3>2. m_total' = m_total + (Len(m_conns)' - Len(m_conns)) + (Counted(u)' - Counted(u))
      BY <1>0, <1>3, <3>1 DEF Connects, PoolType
    <3>3. QED
      BY <1>0, <1>3, <2>3, <3>2, TotalStep DEF Connects, PoolType
  <2>8. PoolExclusive'
    BY <1>3, <2>1, <2>3, MoveExclusive DEF Connects, PoolExclusive
  <2>9. QED
    BY <2>4, <2>5, <2>6, <2>7, <2>8
<1>4. ASSUME NEW u \in Callers, ConnectFails(u) PROVE PoolInv'
  <2>1. /\ "out" \in PoolSteps /\ NoConn \in ConnIds \cup {NoConn}
        /\ At(u, "out", NoConn)
    BY <1>4 DEF ConnectFails, PoolSteps, PoolType
  <2>2. /\ call' \in Type /\ call'[u].at = "out" /\ call'[u].conn = NoConn
        /\ \A v \in Callers \ {u} : call'[v] = call[v]
    BY <2>1, AtMoves
  <2>3. PoolType'
    BY <1>4, <2>2 DEF ConnectFails, PoolType, CallOK
  <2>4. CallOK'
    BY <1>4, <2>2 DEF ConnectFails, CallOK
  <2>5. KnownMade'
    BY <1>4, <2>2 DEF ConnectFails, KnownMade, CallOK
  <2>6. TotalExact'
    <3>1. m_total' = m_total + (Len(m_conns)' - Len(m_conns)) + (Counted(u)' - Counted(u))
      BY <1>0, <1>4, <2>2, PoolAssumption DEF ConnectFails, PoolType, CallOK, Counted
    <3>2. QED
      BY <1>0, <1>4, <2>2, <3>1, TotalStep DEF ConnectFails, PoolType
  <2>7. PoolExclusive'
    BY <1>4, <2>2, MoveExclusive DEF ConnectFails, PoolExclusive, ToSet
  <2>8. QED
    BY <2>3, <2>4, <2>5, <2>6, <2>7
<1>5. ASSUME NEW u \in Callers, CountNew(u) PROVE PoolInv'
  <2>1. /\ "using" \in PoolSteps /\ call[u].conn \in ConnIds \cup {NoConn}
        /\ At(u, "using", call[u].conn)
    BY <1>5 DEF CountNew, PoolSteps, PoolType
  <2>2. /\ call' \in Type /\ call'[u].at = "using" /\ call'[u].conn = call[u].conn
        /\ \A v \in Callers \ {u} : call'[v] = call[v]
    BY <2>1, AtMoves
  <2>3. PoolType'
    BY <1>5, <2>2 DEF CountNew, PoolType, CallOK
  <2>4. CallOK'
    BY <1>5, <2>2 DEF CountNew, CallOK
  <2>5. KnownMade'
    BY <1>5, <2>2 DEF CountNew, KnownMade, CallOK
  <2>6. TotalExact'
    <3>1. m_total' = m_total + (Len(m_conns)' - Len(m_conns)) + (Counted(u)' - Counted(u))
      BY <1>0, <1>5, <2>2, PoolAssumption DEF CountNew, PoolType, CallOK, Counted
    <3>2. QED
      BY <1>0, <1>5, <2>2, <3>1, TotalStep DEF CountNew, PoolType
  <2>7. PoolExclusive'
    BY <1>5, <2>2, MoveExclusive DEF CountNew, PoolExclusive, ToSet
  <2>8. QED
    BY <2>3, <2>4, <2>5, <2>6, <2>7
<1>6. ASSUME NEW u \in Callers, Exchange(u) PROVE PoolInv'
  <2>1. /\ "releasing" \in PoolSteps /\ call[u].conn \in ConnIds \cup {NoConn}
        /\ At(u, "releasing", call[u].conn)
    BY <1>6 DEF Exchange, PoolSteps, PoolType
  <2>2. /\ call' \in Type /\ call'[u].at = "releasing" /\ call'[u].conn = call[u].conn
        /\ \A v \in Callers \ {u} : call'[v] = call[v]
    BY <2>1, AtMoves
  <2>3. PoolType'
    BY <1>6, <2>2 DEF Exchange, PoolType, CallOK
  <2>4. CallOK'
    BY <1>6, <2>2 DEF Exchange, CallOK
  <2>5. KnownMade'
    BY <1>6, <2>2 DEF Exchange, KnownMade, CallOK
  <2>6. TotalExact'
    <3>1. m_total' = m_total + (Len(m_conns)' - Len(m_conns)) + (Counted(u)' - Counted(u))
      BY <1>0, <1>6, <2>2, PoolAssumption DEF Exchange, PoolType, CallOK, Counted
    <3>2. QED
      BY <1>0, <1>6, <2>2, <3>1, TotalStep DEF Exchange, PoolType
  <2>7. PoolExclusive'
    <3>1. \A i \in 1 .. Len(m_conns) : m_conns[i] # call[u].conn
      BY <1>0, <1>6 DEF Exchange, CallOK, PoolExclusive, ToSet
    <3>2. \A i \in 1 .. Len(m_conns) : m_conns[i] \in connected'
      BY <1>6, <3>1 DEF Exchange, PoolExclusive
    <3>3. QED
      BY <1>6, <2>2, <3>2, MoveExclusive DEF Exchange
  <2>8. QED
    BY <2>3, <2>4, <2>5, <2>6, <2>7
<1>7. ASSUME NEW u \in Callers, Release(u) PROVE PoolInv'
  <2> DEFINE x == call[u].conn
  <2>1. /\ x \in ConnIds /\ x \in made
        /\ m_request' = [m_request EXCEPT ![x] = @ + 1]
        /\ m_request' \in [ConnIds -> Nat] /\ m_request'[x] = m_request[x] + 1
        /\ m_total' = m_total /\ made' = made
    BY <1>7 DEF Release, PoolType, CallOK, KnownMade
  <2>2. \A i \in 1 .. Len(m_conns) : m_conns[i] # x
    BY <1>0, <1>7 DEF Release, CallOK, PoolExclusive, ToSet
  <2>3. CASE x \notin connected \/ WornOut(x)
    <3>1. /\ "deleted" \in PoolSteps /\ At(u, "deleted", x)
          /\ connected' = connected \ {x} /\ m_conns' = m_conns
      BY <1>7, <2>3 DEF Release, PoolSteps
    <3>2. /\ call' \in Type /\ call'[u].at = "deleted" /\ call'[u].conn = x
          /\ \A v \in Callers \ {u} : call'[v] = call[v]
      BY <2>1, <3>1, AtMoves
    <3>3. PoolType' /\ CallOK' /\ KnownMade'
      <4>1. PoolType'
        BY <2>1, <3>1, <3>2 DEF PoolType
      <4>2. CallOK'
        BY <2>1, <3>2, PoolAssumption DEF CallOK
      <4>3. KnownMade'
        BY <2>1, <3>1, <3>2 DEF KnownMade
      <4>4. QED
        BY <4>1, <4>2, <4>3
    <3>4. TotalExact'
      <4>1. Counted(u) = 1 /\ Counted(u)' = 1
        BY <1>7, <2>1, <3>2, PoolAssumption DEF Release, Counted
      <4>2. m_total' = m_total + (Len(m_conns)' - Len(m_conns)) + (Counted(u)' - Counted(u))
        BY <1>0, <2>1, <3>1, <4>1 DEF PoolType
      <4>3. QED
        BY <1>0, <3>1, <3>2, <4>2, TotalStep DEF PoolType
    <3>5. PoolExclusive'
      <4>1. \A i \in 1 .. Len(m_conns) : m_conns[i] \in connected'
                                        /\ m_request'[m_conns[i]] = m_request[m_conns[i]]
        BY <2>1, <2>2, <3>1 DEF PoolExclusive, PoolType
      <4>2. QED
        BY <3>1, <3>2, <4>1, MoveExclusive
    <3>6. QED
      BY <3>3, <3>4, <3>5
  <2>4. CASE ~(x \notin connected \/ WornOut(x))
    <3>1. /\ "out" \in PoolSteps /\ NoConn \in ConnIds \cup {NoConn} /\ At(u, "out", NoConn)
          /\ connected' = connected /\ m_conns' = Append(m_conns, x)
      BY <1>7, <2>4 DEF Release, PoolSteps
    <3>2. /\ call' \in Type /\ call'[u].at = "out" /\ call'[u].conn = NoConn
          /\ \A v \in Callers \ {u} : call'[v] = call[v]
      BY <3>1, AtMoves
    <3>3. /\ m_conns' \in Seq(ConnIds) /\ Len(m_conns') = Len(m_conns) + 1
          /\ DOMAIN m_conns' = 1 .. Len(m_conns) + 1
          /\ \A i \in 1 .. Len(m_conns) : m_conns'[i] = m_conns[i]
          /\ m_conns'[Len(m_conns) + 1] = x
      BY <1>0, <2>1, <3>1 DEF PoolType
    <3>4. PoolType' /\ CallOK'
      BY <2>1, <3>1, <3>2, <3>3 DEF PoolType, CallOK
    <3>5. KnownMade'
      <4>1. ASSUME NEW i \in 1 .. Len(m_conns') PROVE m_conns'[i] \in made'
        <5>1. i = Len(m_conns) + 1 \/ i \in 1 .. Len(m_conns)
          BY <1>0, <3>3
        <5>2. QED
          BY <2>1, <3>3, <5>1 DEF KnownMade
      <4>2. \A v \in Callers : call'[v].conn # NoConn => call'[v].conn \in made'
        BY <2>1, <3>2 DEF KnownMade
      <4>3. QED
        BY <4>1, <4>2 DEF KnownMade
    <3>6. TotalExact'
      <4>1. Counted(u) = 1 /\ Counted(u)' = 0
        BY <1>7, <2>1, <3>2, PoolAssumption DEF Release, Counted
      <4>2. m_total' = m_total + (Len(m_conns)' - Len(m_conns)) + (Counted(u)' - Counted(u))
        BY <1>0, <2>1, <3>3, <4>1 DEF PoolType
      <4>3. QED
        BY <1>0, <3>2, <3>3, <4>2, TotalStep DEF PoolType
    <3>7. PoolExclusive'
      <4>1. IsInjective(m_conns')
        BY <1>0, <2>2, <3>3 DEF PoolExclusive, IsInjective
      <4>2. ASSUME NEW i \in 1 .. Len(m_conns')
            PROVE m_conns'[i] \in connected' /\ m_request'[m_conns'[i]] < MaxRequest
        <5>1. CASE i = Len(m_conns) + 1
          BY <2>1, <2>4, <3>1, <3>3, <5>1, PoolAssumption DEF WornOut, PoolType
        <5>2. CASE i \in 1 .. Len(m_conns)
          BY <2>1, <2>2, <3>1, <3>3, <5>2 DEF PoolExclusive, PoolType
        <5>3. QED
          BY <1>0, <3>3, <5>1, <5>2
      <4>3. \A v \in Callers \ {u} : call[v].conn # NoConn => call[v].conn # x
        BY <1>7, <2>1, PoolAssumption DEF PoolExclusive
      <4>4. ToSet(m_conns') = ToSet(m_conns) \cup {x}
        BY <1>0, <3>3 DEF ToSet
      <4>5. \A v \in Callers : call'[v].conn # NoConn =>
             /\ call'[v].conn \notin ToSet(m_conns')
             /\ \A w \in Callers \ {v} : call'[w].conn # call'[v].conn
        BY <3>2, <4>3, <4>4 DEF PoolExclusive
      <4>6. QED
        BY <4>1, <4>2, <4>5 DEF PoolExclusive
    <3>8. QED
      BY <3>4, <3>5, <3>6, <3>7
  <2>5. QED
    BY <2>3, <2>4
<1>8. ASSUME NEW u \in Callers, CountDeleted(u) PROVE PoolInv'
  <2>1. /\ "out" \in PoolSteps /\ NoConn \in ConnIds \cup {NoConn}
        /\ At(u, "out", NoConn)
    BY <1>8 DEF CountDeleted, PoolSteps, PoolType
  <2>2. /\ call' \in Type /\ call'[u].at = "out" /\ call'[u].conn = NoConn
        /\ \A v \in Callers \ {u} : call'[v] = call[v]
    BY <2>1, AtMoves
  <2>3. PoolType'
    BY <1>8, <2>2 DEF CountDeleted, PoolType, CallOK, Uncounted
  <2>4. CallOK'
    BY <1>8, <2>2 DEF CountDeleted, CallOK
  <2>5. KnownMade'
    BY <1>8, <2>2 DEF CountDeleted, KnownMade, CallOK
  <2>6. TotalExact'
    <3>1. m_total' = m_total + (Len(m_conns)' - Len(m_conns)) + (Counted(u)' - Counted(u))
      BY <1>0, <1>8, <2>2, PoolAssumption DEF CountDeleted, PoolType, CallOK, Counted, Uncounted
    <3>2. QED
      BY <1>0, <1>8, <2>2, <3>1, TotalStep DEF CountDeleted, PoolType
  <2>7. PoolExclusive'
    BY <1>8, <2>2, MoveExclusive DEF CountDeleted, PoolExclusive, ToSet
  <2>8. QED
    BY <2>3, <2>4, <2>5, <2>6, <2>7
<1>9. CASE UNCHANGED poolVars
  BY <1>9 DEF poolVars, PoolType, CallOK, KnownMade, TotalExact, PoolExclusive, Counted
<1>10. QED
  BY <1>1, <1>2, <1>3, <1>4, <1>5, <1>6, <1>7, <1>8, <1>9 DEF PoolNext

\* For any number of callers and connections, m_total, which is changed outside
\* of m_mutex, counts exactly the idle connections and those in use, and no two
\* callers ever hold the same connection (http_connection.cc 392-470).
THEOREM PoolCorrect == PoolInit /\ [][PoolNext]_poolVars => []PoolConsistent
<1>1. PoolInv => PoolConsistent
  BY DEF PoolInv, PoolConsistent
<1>2. QED
  BY PoolInvInit, PoolInvNext, <1>1, PTL

-----------------------------------------------------------------------------
(* TcpServer                                                                *)

Tasks == AcceptFibers \cup {StopTask, ClientTask}

\* The states in which a fiber is queued or on a thread, and those before its end.
AwakeAt == {"loop", "accept", "again"}
LiveAt == {"loop", "accept", "again", "blocked"}

TcpType ==
    /\ m_socks \subseteq Socks /\ listening \subseteq Socks /\ m_isStop \in BOOLEAN
    /\ acceptor \in [AcceptFibers -> {"none", "loop", "accept", "again", "blocked", "ended"}]
    /\ tasks \in Seq(Tasks)
    /\ running \in [ServerThreads -> AcceptFibers \cup {StopTask, Nobody}]
    /\ late \in [AcceptFibers -> Nat]
    /\ starts \in Nat /\ restarted \in BOOLEAN

\* The fibers of a later start() do not exist yet.
NotStarted == \A a \in AcceptFibers : a[2] > starts => acceptor[a] = "none" /\ late[a] = 0

\* A fiber that took a client after stop() is about to leave its loop, or has.
LateEnds ==
    ~restarted =>
        \A a \in AcceptFibers :
            late[a] # 0 =>
                late[a] = 1 /\ (acceptor[a] = "ended" \/ (acceptor[a] = "loop" /\ m_isStop))

\* Task x is nowhere in queue q, or at one place of it.
NotIn(x, q) == \A i \in 1 .. Len(q) : q[i] # x
OnceIn(x, q) == \E i \in 1 .. Len(q) : \A j \in 1 .. Len(q) : q[j] = x <=> j = i

\* While the server runs no stop task is left, and every fiber's socket is open.
OpenWhileRunning ==
    /\ ~Stopping => m_socks \subseteq listening
    /\ ~restarted /\ ~m_isStop =>
        /\ ~Stopping /\ NotIn(StopTask, tasks)
        /\ \A a \in AcceptFibers : acceptor[a] \in LiveAt => a[1] \in listening

\* Fiber a is on no thread, or on one.
OnNone(a) == \A t \in ServerThreads : running[t] # a
OnOne(a) == \E t \in ServerThreads : \A u \in ServerThreads : running[u] = a <=> u = t

\* FiberInOnePlace for one fiber, without sets.
OnePlace(a) ==
    IF acceptor[a] \in AwakeAt
    THEN (OnNone(a) /\ OnceIn(a, tasks)) \/ (NotIn(a, tasks) /\ OnOne(a))
    ELSE NotIn(a, tasks) /\ OnNone(a)

Placed == \A a \in AcceptFibers : OnePlace(a)

TcpInv == TcpType /\ NotStarted /\ LateEnds /\ OpenWhileRunning /\ Placed

\* A finite set is turned into a sequence of its elements, each of them once.
LEMMA SetToSeqOnce ==
  ASSUME NEW S, IsFiniteSet(S)
  PROVE  SetToSeq(S) \in Seq(S) /\ \A x \in S : OnceIn(x, SetToSeq(S))
<1> DEFINE n == Cardinality(S)
           s == SetToSeq(S)
<1>1. n \in Nat /\ \E f : f \in Bijection(1 .. n, S)
  BY FS_CardinalityType DEF ExistsBijection
<1>2. PICK f : f \in Bijection(1 .. n, S)
  BY <1>1
<1>3. f \in [1 .. n -> S] /\ IsInjective(f)
  BY <1>2 DEF Bijection, Injection
<1>4. s \in [1 .. n -> S] /\ IsInjective(s)
  BY <1>3 DEF SetToSeq
<1>5. s \in Seq(S) /\ Len(s) = n
  BY <1>1, <1>4, SeqDef
<1>6. s \in Injection(1 .. n, S) /\ IsFiniteSet(1 .. n) /\ Cardinality(1 .. n) = n
  BY <1>1, <1>4, FS_Interval DEF Injection
<1>7. s \in Surjection(1 .. n, S)
  BY <1>6, FS_Injection, Zenon
<1>8. ASSUME NEW x \in S PROVE OnceIn(x, s)
  <2>1. PICK i \in 1 .. n : s[i] = x
    BY <1>7 DEF Surjection
  <2>2. \A j \in 1 .. n : s[j] = x <=> j = i
    BY <1>4, <2>1 DEF IsInjective
  <2>3. QED
    BY <1>5, <2>2 DEF OnceIn
<1>9. QED
  BY <1>5, <1>8

\* The kinds of tasks are different, and there are finitely many fibers.
LEMMA TaskKinds ==
  /\ StopTask \notin AcceptFibers /\ StopTask # ClientTask /\ ClientTask \notin AcceptFibers
  /\ Nobody \notin AcceptFibers /\ Nobody # StopTask
  /\ IsFiniteSet(AcceptFibers)
<1>1. /\ StopTask \notin AcceptFibers /\ StopTask # ClientTask /\ ClientTask \notin AcceptFibers
      /\ Nobody \notin AcceptFibers /\ Nobody # StopTask
  BY DEF StopTask, ClientTask, Nobody, AcceptFibers
<1>2. IsFiniteSet(1 .. MaxStarts)
  BY TcpServerAssumption, FS_Interval
<1>3. QED
  BY <1>1, <1>2, TcpServerAssumption, FS_Product DEF AcceptFibers

\* Where a task is in two queues after each other.
LEMMA ConcatPlaces ==
  ASSUME NEW q \in Seq(Tasks), NEW r \in Seq(Tasks), NEW x
  PROVE  /\ q \o r \in Seq(Tasks)
         /\ NotIn(x, q) /\ NotIn(x, r) => NotIn(x, q \o r)
         /\ OnceIn(x, q) /\ NotIn(x, r) => OnceIn(x, q \o r)
         /\ NotIn(x, q) /\ OnceIn(x, r) => OnceIn(x, q \o r)
<1> DEFINE m == Len(q)
           n == Len(r)
           c == q \o r
<1>1. /\ c \in Seq(Tasks) /\ m \in Nat /\ n \in Nat /\ Len(c) = m + n
      /\ \A i \in 1 .. m + n : c[i] = IF i <= m THEN q[i] ELSE r[i - m]
  BY ConcatProperties, LenProperties
<1> HIDE DEF c, m, n
<1>2. \A i \in 1 .. m + n : i \notin 1 .. m => ~(i <= m) /\ i - m \in 1 .. n
  BY <1>1
<1>3. \A i \in 1 .. m : i \in 1 .. m + n /\ c[i] = q[i]
  BY <1>1
<1>4. \A i \in 1 .. n : i + m \in 1 .. m + n /\ c[i + m] = r[i] /\ (i + m) - m = i
  BY <1>1
<1>5. \A i \in 1 .. m + n : i \notin 1 .. m => c[i] = r[i - m] /\ i - m \in 1 .. n
  BY <1>1, <1>2
<1>6. ASSUME NotIn(x, q), NotIn(x, r) PROVE NotIn(x, c)
  BY <1>1, <1>3, <1>5, <1>6 DEF NotIn, m, n
<1>7. ASSUME OnceIn(x, q), NotIn(x, r) PROVE OnceIn(x, c)
  <2>1. PICK i \in 1 .. m : \A j \in 1 .. m : q[j] = x <=> j = i
    BY <1>7 DEF OnceIn, m
  <2>2. \A j \in 1 .. m + n : c[j] = x <=> j = i
    BY <1>3, <1>5, <1>7, <2>1 DEF NotIn, n
  <2>3. i \in 1 .. Len(c)
    BY <1>1, <1>3, <2>1
  <2>4. \A j \in 1 .. Len(c) : c[j] = x <=> j = i
    BY <1>1, <2>2
  <2>5. QED
    BY <2>3, <2>4, Zenon DEF OnceIn
<1>8. ASSUME NotIn(x, q), OnceIn(x, r) PROVE OnceIn(x, c)
  <2>1. PICK i \in 1 .. n : \A j \in 1 .. n : r[j] = x <=> j = i
    BY <1>8 DEF OnceIn, n
  <2>2. ASSUME NEW j \in 1 .. m + n PROVE c[j] = x <=> j = i + m
    <3>1. CASE j \in 1 .. m
      <4>1. c[j] # x
        BY <1>3, <1>8, <3>1 DEF NotIn, m
      <4>2. j # i + m
        BY <1>1, <3>1
      <4>3. QED
        BY <4>1, <4>2
    <3>2. CASE j \notin 1 .. m
      <4>1. c[j] = x <=> j - m = i
        BY <1>5, <2>1, <3>2
      <4>2. QED
        BY <1>1, <4>1
    <3>3. QED
      BY <3>1, <3>2
  <2>3. i + m \in 1 .. Len(c)
    BY <1>1, <1>4, <2>1
  <2>4. \A j \in 1 .. Len(c) : c[j] = x <=> j = i + m
    BY <1>1, <2>2
  <2>5. QED
    BY <2>3, <2>4, Zenon DEF OnceIn
<1>9. QED
  BY <1>1, <1>6, <1>7, <1>8 DEF c

\* Queueing fibers queues each of them once, and no other task.
LEMMA QueueFibers ==
  ASSUME NEW q \in Seq(Tasks), NEW S \in SUBSET AcceptFibers, NEW x
  PROVE  /\ q \o SetToSeq(S) \in Seq(Tasks)
         /\ NotIn(x, q) /\ x \notin S => NotIn(x, q \o SetToSeq(S))
         /\ OnceIn(x, q) /\ x \notin S => OnceIn(x, q \o SetToSeq(S))
         /\ NotIn(x, q) /\ x \in S => OnceIn(x, q \o SetToSeq(S))
<1> DEFINE s == SetToSeq(S)
<1>1. IsFiniteSet(S)
  BY TaskKinds, FS_Subset
<1>2. s \in Seq(S) /\ (x \in S => OnceIn(x, s))
  BY <1>1, SetToSeqOnce
<1>3. s \in Seq(Tasks)
  BY <1>2, SeqMonotonic DEF Tasks
<1>4. x \notin S => NotIn(x, s)
  BY <1>2, ElementOfSeq DEF NotIn
<1>5. QED
  BY <1>2, <1>3, <1>4, ConcatPlaces

\* Where a task is after one more was queued.
LEMMA AppendPlaces ==
  ASSUME NEW q \in Seq(Tasks), NEW y \in Tasks, NEW x
  PROVE  /\ Append(q, y) \in Seq(Tasks)
         /\ NotIn(x, q) /\ x # y => NotIn(x, Append(q, y))
         /\ OnceIn(x, q) /\ x # y => OnceIn(x, Append(q, y))
         /\ NotIn(x, q) /\ x = y => OnceIn(x, Append(q, y))
<1> DEFINE m == Len(q)
           c == Append(q, y)
<1>1. /\ c \in Seq(Tasks) /\ m \in Nat /\ Len(c) = m + 1
      /\ \A i \in 1 .. m : c[i] = q[i]
      /\ c[m + 1] = y
  BY AppendProperties, LenProperties
<1> HIDE DEF c, m
<1>2. /\ \A i \in 1 .. m + 1 : i \in 1 .. m \/ i = m + 1
      /\ \A i \in 1 .. m : i \in 1 .. m + 1 /\ i # m + 1
      /\ m + 1 \in 1 .. m + 1
  BY <1>1
<1>3. ASSUME NotIn(x, q), x # y PROVE NotIn(x, c)
  BY <1>1, <1>2, <1>3 DEF NotIn, m
<1>4. ASSUME OnceIn(x, q), x # y PROVE OnceIn(x, c)
  <2>1. PICK i \in 1 .. m : \A j \in 1 .. m : q[j] = x <=> j = i
    BY <1>4 DEF OnceIn, m
  <2>2. \A j \in 1 .. m + 1 : c[j] = x <=> j = i
    BY <1>1, <1>2, <1>4, <2>1
  <2>3. i \in 1 .. Len(c)
    BY <1>1, <1>2, <2>1
  <2>4. \A j \in 1 .. Len(c) : c[j] = x <=> j = i
    BY <1>1, <2>2
  <2>5. QED
    BY <2>3, <2>4, Zenon DEF OnceIn
<1>5. ASSUME NotIn(x, q), x = y PROVE OnceIn(x, c)
  <2>1. \A j \in 1 .. m + 1 : c[j] = x <=> j = m + 1
    BY <1>1, <1>2, <1>5 DEF NotIn, m
  <2>2. \E k \in 1 .. Len(c) : \A j \in 1 .. Len(c) : c[j] = x <=> j = k
    BY <1>1, <1>2, <2>1
  <2>3. QED
    BY <2>2 DEF OnceIn
<1>6. QED
  BY <1>1, <1>3, <1>4, <1>5 DEF c

\* Where a task is after the first one was taken.
LEMMA TailPlaces ==
  ASSUME NEW q \in Seq(Tasks), q # <<>>, NEW x
  PROVE  /\ Tail(q) \in Seq(Tasks) /\ Head(q) \in Tasks /\ ~NotIn(Head(q), q)
         /\ NotIn(x, q) => NotIn(x, Tail(q))
         /\ OnceIn(x, q) /\ x # Head(q) => OnceIn(x, Tail(q))
         /\ OnceIn(x, q) /\ x = Head(q) => NotIn(x, Tail(q))
<1> DEFINE m == Len(q)
           c == Tail(q)
<1>1. /\ c \in Seq(Tasks) /\ m \in Nat /\ m > 0 /\ Len(c) = m - 1
      /\ \A i \in 1 .. m - 1 : c[i] = q[i + 1]
      /\ Head(q) = q[1] /\ Head(q) \in Tasks
  BY HeadTailProperties, EmptySeq, LenProperties
<1> HIDE DEF c, m
<1>2. /\ \A i \in 1 .. m - 1 : i + 1 \in 1 .. m /\ i + 1 # 1
      /\ \A i \in 1 .. m : i # 1 => i - 1 \in 1 .. m - 1 /\ (i - 1) + 1 = i
      /\ 1 \in 1 .. m
  BY <1>1
<1>3. ~NotIn(Head(q), q) /\ (NotIn(x, q) => NotIn(x, c))
  BY <1>1, <1>2 DEF NotIn, m
<1>4. ASSUME OnceIn(x, q)
      PROVE  (x # Head(q) => OnceIn(x, c)) /\ (x = Head(q) => NotIn(x, c))
  <2>1. PICK i \in 1 .. m : \A j \in 1 .. m : q[j] = x <=> j = i
    BY <1>4 DEF OnceIn, m
  <2>2. CASE x = Head(q)
    <3>1. i = 1
      BY <1>1, <1>2, <2>1, <2>2
    <3>2. QED
      BY <1>1, <1>2, <2>1, <2>2, <3>1 DEF NotIn
  <2>3. CASE x # Head(q)
    <3>1. i # 1
      BY <1>1, <1>2, <2>1, <2>3
    <3>2. i - 1 \in 1 .. m - 1
      BY <1>2, <3>1
    <3>3. \A j \in 1 .. m - 1 : c[j] = x <=> j = i - 1
      <4>1. SUFFICES ASSUME NEW j \in 1 .. m - 1 PROVE c[j] = x <=> j = i - 1
        OBVIOUS
      <4>2. c[j] = x <=> j + 1 = i
        BY <1>1, <1>2, <2>1
      <4>3. QED
        BY <4>2
    <3>4. i - 1 \in 1 .. Len(c) /\ \A j \in 1 .. Len(c) : c[j] = x <=> j = i - 1
      BY <1>1, <3>2, <3>3
    <3>5. OnceIn(x, c)
      BY <3>4, Zenon DEF OnceIn
    <3>6. QED
      BY <2>3, <3>5
  <2>4. QED
    BY <2>2, <2>3
<1>5. QED
  BY <1>1, <1>3, <1>4 DEF c

\* TcpInv holds before anything is bound.
LEMMA TcpInvInit == TcpInit => TcpInv
<1> SUFFICES ASSUME TcpInit PROVE TcpInv
  OBVIOUS
<1>1. tasks \in Seq(Tasks) /\ \A x : NotIn(x, tasks)
  BY EmptySeq DEF TcpInit, NotIn
<1>2. TcpType
  <2>1. acceptor \in [AcceptFibers -> {"none", "loop", "accept", "again", "blocked", "ended"}]
        /\ late \in [AcceptFibers -> Nat]
        /\ running \in [ServerThreads -> AcceptFibers \cup {StopTask, Nobody}]
    BY DEF TcpInit
  <2>2. QED
    BY <1>1, <2>1 DEF TcpInit, TcpType
<1>3. NotStarted /\ LateEnds
  BY DEF TcpInit, NotStarted, LateEnds
<1>4. OpenWhileRunning
  BY DEF TcpInit, OpenWhileRunning
<1>5. Placed
  BY <1>1, TaskKinds DEF TcpInit, Placed, OnePlace, OnNone, AwakeAt
<1>6. QED
  BY <1>2, <1>3, <1>4, <1>5 DEF TcpInv

\* Fibers that waited are queued by a cancelAll or a client.
LEMMA WakeUpKeeps ==
  ASSUME TcpInv, NEW s \in Socks, WakeUp({s}),
         UNCHANGED <<m_isStop, running, late, starts, restarted, m_socks, listening>>
  PROVE  TcpInv'
<1> USE DEF TcpInv
<1> DEFINE W == Woken({s})
<1>1. /\ W \in SUBSET AcceptFibers /\ \A a \in W : acceptor[a] = "blocked"
      /\ tasks' = tasks \o SetToSeq(W)
      /\ acceptor' = [a \in AcceptFibers |-> IF a \in W THEN "accept" ELSE acceptor[a]]
  BY DEF Woken, WakeUp
<1> HIDE DEF W
<1>2. tasks \in Seq(Tasks)
  BY DEF TcpType
<1>3. TcpType'
  <2>1. tasks' \in Seq(Tasks)
    BY <1>1, <1>2, QueueFibers
  <2>2. acceptor' \in [AcceptFibers -> {"none", "loop", "accept", "again", "blocked", "ended"}]
    BY <1>1 DEF TcpType
  <2>3. QED
    BY <2>1, <2>2 DEF TcpType
<1>4. NotStarted' /\ LateEnds'
  BY <1>1 DEF NotStarted, LateEnds
<1>5. OpenWhileRunning'
  <2>1. NotIn(StopTask, tasks) => NotIn(StopTask, tasks')
    BY <1>1, <1>2, QueueFibers, TaskKinds
  <2>2. \A a \in AcceptFibers : acceptor'[a] \in LiveAt => acceptor[a] \in LiveAt
    BY <1>1 DEF LiveAt
  <2>3. Stopping' <=> Stopping
    BY DEF Stopping
  <2>4. QED
    BY <2>1, <2>2, <2>3 DEF OpenWhileRunning
<1>6. Placed'
  <2>1. ASSUME NEW a \in AcceptFibers PROVE OnePlace(a)'
    <3>1. OnePlace(a) /\ (OnNone(a)' <=> OnNone(a)) /\ (OnOne(a)' <=> OnOne(a))
      BY DEF Placed, OnNone, OnOne
    <3>2. CASE a \in W
      <4>1. NotIn(a, tasks) /\ OnNone(a)
        BY <1>1, <3>1, <3>2 DEF OnePlace, AwakeAt
      <4>2. OnceIn(a, tasks') /\ OnNone(a)' /\ acceptor'[a] = "accept"
        BY <1>1, <1>2, <3>1, <3>2, <4>1, QueueFibers
      <4>3. QED
        BY <4>2 DEF OnePlace, AwakeAt
    <3>3. CASE a \notin W
      <4>1. /\ acceptor'[a] = acceptor[a]
            /\ NotIn(a, tasks) => NotIn(a, tasks')
            /\ OnceIn(a, tasks) => OnceIn(a, tasks')
        BY <1>1, <1>2, <3>3, QueueFibers
      <4>2. QED
        BY <3>1, <4>1 DEF OnePlace
    <3>4. QED
      BY <3>2, <3>3
  <2>2. QED
    BY <2>1 DEF Placed
<1>7. QED
  BY <1>3, <1>4, <1>5, <1>6

\* A thread takes the first task: the fiber is on it, or the task has no fiber.
LEMMA TakeKeeps ==
  ASSUME TcpInv, NEW t \in ServerThreads, Takes(t), Head(tasks) \in AcceptFibers \cup {ClientTask},
         running' = IF Head(tasks) = ClientTask THEN running
                    ELSE [running EXCEPT ![t] = Head(tasks)],
         UNCHANGED <<acceptor, m_isStop, late, starts, restarted, m_socks, listening>>
  PROVE  TcpInv'
<1> USE DEF TcpInv
<1>1. /\ tasks \in Seq(Tasks) /\ tasks # <<>> /\ tasks' = Tail(tasks) /\ running[t] = Nobody
      /\ running \in [ServerThreads -> AcceptFibers \cup {StopTask, Nobody}]
  BY DEF Takes, TcpType
<1>2. PICK x : x = Head(tasks)
  OBVIOUS
<1>3. /\ x \in AcceptFibers \/ x = ClientTask
      /\ running' = IF x = ClientTask THEN running ELSE [running EXCEPT ![t] = x]
      /\ x # StopTask
  BY <1>2, TaskKinds
<1>4. TcpType'
  BY <1>1, <1>3, TailPlaces DEF TcpType
<1>5. NotStarted' /\ LateEnds'
  BY DEF NotStarted, LateEnds
<1>6. OpenWhileRunning'
  <2>1. NotIn(StopTask, tasks) => NotIn(StopTask, tasks')
    BY <1>1, TailPlaces
  <2>2. Stopping' <=> Stopping
    BY <1>1, <1>3, TaskKinds DEF Stopping
  <2>3. QED
    BY <2>1, <2>2 DEF OpenWhileRunning
<1>7. Placed'
  <2>1. ASSUME NEW a \in AcceptFibers PROVE OnePlace(a)'
    <3>1. OnePlace(a) /\ a # ClientTask /\ a # Nobody
      BY TaskKinds DEF Placed
    <3>2. CASE a # x
      <4>1. OnNone(a) => OnNone(a)'
        BY <1>1, <1>3, <3>1, <3>2 DEF OnNone
      <4>2. OnOne(a) => OnOne(a)'
        BY <1>1, <1>3, <3>1, <3>2 DEF OnOne
      <4>3. /\ NotIn(a, tasks) => NotIn(a, tasks')
            /\ OnceIn(a, tasks) => OnceIn(a, tasks')
        BY <1>1, <1>2, <3>2, TailPlaces
      <4>4. QED
        BY <3>1, <4>1, <4>2, <4>3 DEF OnePlace
    <3>3. CASE a = x
      <4>1. ~NotIn(a, tasks)
        BY <1>1, <1>2, <3>3, TailPlaces
      <4>2. acceptor[a] \in AwakeAt /\ OnNone(a) /\ OnceIn(a, tasks)
        BY <3>1, <4>1 DEF OnePlace
      <4>3. NotIn(a, tasks')
        BY <1>1, <1>2, <3>3, <4>2, TailPlaces
      <4>4. OnOne(a)'
        BY <1>1, <1>3, <3>1, <3>3, <4>2 DEF OnOne, OnNone
      <4>5. QED
        BY <4>2, <4>3, <4>4 DEF OnePlace
    <3>4. QED
      BY <3>2, <3>3
  <2>2. QED
    BY <2>1 DEF Placed
<1>8. QED
  BY <1>4, <1>5, <1>6, <1>7

\* The fiber on a thread goes from one state to another, and keeps the thread,
\* leaves it to wait or end, or is queued again; it may have queued a client.
LEMMA FiberKeeps ==
  ASSUME TcpInv, NEW t \in ServerThreads, NEW a \in AcceptFibers, running[t] = a,
         acceptor[a] \in AwakeAt, NEW pc \in AwakeAt \cup {"blocked", "ended"},
         acceptor' = [acceptor EXCEPT ![a] = pc],
         \/ pc \in AwakeAt /\ running' = running /\ tasks' \in {tasks, Append(tasks, ClientTask)}
         \/ pc \in AwakeAt /\ GivesUp(t) /\ tasks' = Append(tasks, a)
         \/ pc \notin AwakeAt /\ GivesUp(t) /\ tasks' = tasks,
         UNCHANGED <<m_isStop, starts, restarted, m_socks, listening>>
  PROVE  /\ tasks' \in Seq(Tasks) /\ OpenWhileRunning' /\ Placed'
         /\ running' \in [ServerThreads -> AcceptFibers \cup {StopTask, Nobody}]
         /\ acceptor' \in
                [AcceptFibers -> {"none", "loop", "accept", "again", "blocked", "ended"}]
<1> USE DEF TcpInv
<1>1. /\ tasks \in Seq(Tasks) /\ ClientTask \in Tasks /\ a \in Tasks
      /\ running \in [ServerThreads -> AcceptFibers \cup {StopTask, Nobody}]
      /\ acceptor \in [AcceptFibers -> {"none", "loop", "accept", "again", "blocked", "ended"}]
  BY DEF TcpType, Tasks
<1>2. PICK y \in {ClientTask, a} : tasks' \in {tasks, Append(tasks, y)}
  OBVIOUS
<1>3. tasks' \in Seq(Tasks)
  BY <1>1, <1>2, AppendPlaces
<1>4. running' \in [ServerThreads -> AcceptFibers \cup {StopTask, Nobody}]
  BY <1>1 DEF GivesUp
<1>5. acceptor' \in [AcceptFibers -> {"none", "loop", "accept", "again", "blocked", "ended"}]
  BY <1>1 DEF AwakeAt
<1>6. OpenWhileRunning'
  <2>1. NotIn(StopTask, tasks) => NotIn(StopTask, tasks')
    <3>1. y \in Tasks /\ StopTask # y
      BY <1>1, <1>2, TaskKinds
    <3>2. NotIn(StopTask, tasks) => NotIn(StopTask, Append(tasks, y))
      BY <1>1, <3>1, AppendPlaces
    <3>3. QED
      BY <1>2, <3>2
  <2>2. Stopping' <=> Stopping
    BY <1>1, TaskKinds DEF Stopping, GivesUp
  <2>3. \A b \in AcceptFibers : acceptor'[b] \in LiveAt => acceptor[b] \in LiveAt
    BY <1>1 DEF LiveAt, AwakeAt
  <2>4. QED
    BY <2>1, <2>2, <2>3 DEF OpenWhileRunning
<1>7. OnePlace(a) /\ ~OnNone(a)
  BY DEF Placed, OnNone
<1>8. NotIn(a, tasks) /\ \A u \in ServerThreads : running[u] = a <=> u = t
  BY <1>7 DEF OnePlace, OnOne
<1>9. Placed'
  <2>1. ASSUME NEW b \in AcceptFibers, b # a PROVE OnePlace(b)'
    <3>1. OnePlace(b) /\ b # ClientTask /\ b # Nobody /\ acceptor'[b] = acceptor[b]
      BY <1>1, <2>1, TaskKinds DEF Placed
    <3>2. OnNone(b) => OnNone(b)'
      BY <1>1, <3>1 DEF OnNone, GivesUp
    <3>3. OnOne(b) => OnOne(b)'
      BY <1>1, <2>1, <3>1 DEF OnOne, GivesUp
    <3>4. /\ NotIn(b, tasks) => NotIn(b, tasks')
          /\ OnceIn(b, tasks) => OnceIn(b, tasks')
      BY <1>1, <1>2, <2>1, <3>1, AppendPlaces
    <3>5. QED
      BY <3>1, <3>2, <3>3, <3>4 DEF OnePlace
  <2>2. OnePlace(a)'
    <3>1. acceptor'[a] = pc /\ a # ClientTask /\ a # Nobody
      BY <1>1, TaskKinds
    <3>2. CASE pc \in AwakeAt /\ running' = running /\ tasks' \in {tasks, Append(tasks, ClientTask)}
      <4>1. NotIn(a, tasks')
        BY <1>1, <1>8, <3>1, <3>2, AppendPlaces
      <4>2. OnOne(a)'
        BY <1>8, <3>2 DEF OnOne
      <4>3. QED
        BY <3>1, <3>2, <4>1, <4>2 DEF OnePlace
    <3>3. CASE GivesUp(t)
      <4>1. OnNone(a)'
        BY <1>1, <1>8, <3>1, <3>3 DEF OnNone, GivesUp
      <4>2. CASE pc \in AwakeAt /\ tasks' = Append(tasks, a)
        <5>1. OnceIn(a, tasks')
          BY <1>1, <1>8, <4>2, AppendPlaces
        <5>2. QED
          BY <3>1, <4>1, <4>2, <5>1 DEF OnePlace
      <4>3. CASE pc \notin AwakeAt /\ tasks' = tasks
        BY <1>8, <3>1, <4>1, <4>3 DEF OnePlace
      <4>4. QED
        BY <4>2, <4>3, <3>2
    <3>4. QED
      BY <3>2, <3>3
  <2>3. QED
    BY <2>1, <2>2 DEF Placed
<1>10. QED
  BY <1>3, <1>4, <1>5, <1>6, <1>9

\* The steps of a fiber.
LEMMA AcceptorKeeps ==
  ASSUME TcpInv, NEW t \in ServerThreads, NEW a \in AcceptFibers, AcceptorStep(t, a)
  PROVE  TcpInv'
<1> USE DEF TcpInv
<1>0. /\ acceptor \in [AcceptFibers -> {"none", "loop", "accept", "again", "blocked", "ended"}]
      /\ late \in [AcceptFibers -> Nat]
  BY DEF TcpType
<1>1. CASE TestStop(t, a)
  <2>1. /\ running[t] = a /\ acceptor[a] = "loop"
        /\ UNCHANGED <<m_isStop, late, starts, restarted, m_socks, listening, tasks>>
        /\ \/ m_isStop /\ acceptor' = [acceptor EXCEPT ![a] = "ended"] /\ GivesUp(t)
           \/ ~m_isStop /\ acceptor' = [acceptor EXCEPT ![a] = "accept"] /\ running' = running
    BY <1>1 DEF TestStop, FiberAt, GoesTo, Loops, clientVars, callVars
  <2>2. TcpType' /\ OpenWhileRunning' /\ Placed'
    BY <2>1, FiberKeeps DEF AwakeAt, TcpType
  <2>3. NotStarted' /\ LateEnds'
    BY <1>0, <2>1 DEF NotStarted, LateEnds
  <2>4. QED
    BY <2>2, <2>3
<1>2. CASE AcceptClient(t, a)
  <2>1. /\ running[t] = a /\ acceptor[a] = "accept" /\ running' = running
        /\ acceptor' = [acceptor EXCEPT ![a] = "loop"] /\ tasks' = Append(tasks, ClientTask)
        /\ late' = IF m_isStop THEN [late EXCEPT ![a] = @ + 1] ELSE late
        /\ UNCHANGED <<m_isStop, starts, restarted, m_socks, listening>>
    BY <1>2 DEF AcceptClient, FiberAt, GoesTo, Scheduled, callVars
  <2>2. TcpType' /\ OpenWhileRunning' /\ Placed'
    <3>1. /\ tasks' \in Seq(Tasks) /\ OpenWhileRunning' /\ Placed'
          /\ running' \in [ServerThreads -> AcceptFibers \cup {StopTask, Nobody}]
          /\ acceptor' \in
                [AcceptFibers -> {"none", "loop", "accept", "again", "blocked", "ended"}]
      BY <2>1, FiberKeeps DEF AwakeAt
    <3>2. late' \in [AcceptFibers -> Nat]
      BY <1>0, <2>1
    <3>3. QED
      BY <2>1, <3>1, <3>2 DEF TcpType
  <2>3. NotStarted'
    BY <1>0, <2>1 DEF NotStarted
  <2>4. LateEnds'
    <3>1. ASSUME ~restarted, NEW b \in AcceptFibers, late'[b] # 0
          PROVE  late'[b] = 1 /\ (acceptor'[b] = "ended" \/ (acceptor'[b] = "loop" /\ m_isStop))
      <4>1. CASE b = a
        <5>1. late[b] = 0
          BY <2>1, <3>1, <4>1 DEF LateEnds
        <5>2. QED
          BY <1>0, <2>1, <3>1, <4>1, <5>1
      <4>2. CASE b # a
        BY <1>0, <2>1, <3>1, <4>2 DEF LateEnds
      <4>3. QED
        BY <4>1, <4>2
    <3>2. QED
      BY <2>1, <3>1 DEF LateEnds
  <2>5. QED
    BY <2>2, <2>3, <2>4
<1>3. CASE AcceptNull(t, a) \/ AcceptAgain(t, a)
  <2>1. /\ running[t] = a /\ acceptor[a] = "accept"
        /\ UNCHANGED <<m_isStop, late, starts, restarted, m_socks, listening, tasks, running>>
        /\ \E pc \in {"loop", "again"} : acceptor' = [acceptor EXCEPT ![a] = pc]
    BY <1>3 DEF AcceptNull, AcceptAgain, FiberAt, GoesTo, clientVars, callVars
  <2>2. TcpType' /\ OpenWhileRunning' /\ Placed'
    BY <2>1, FiberKeeps DEF AwakeAt, TcpType
  <2>3. NotStarted' /\ LateEnds'
    BY <1>0, <2>1 DEF NotStarted, LateEnds
  <2>4. QED
    BY <2>2, <2>3
<1>4. CASE AcceptRegisters(t, a)
  <2>1. /\ running[t] = a /\ acceptor[a] = "again"
        /\ UNCHANGED <<m_isStop, late, starts, restarted, m_socks, listening>>
        /\ \/ acceptor' = [acceptor EXCEPT ![a] = "loop"] /\ UNCHANGED <<tasks, running>>
           \/ UNCHANGED <<acceptor, tasks, running>>
           \/ acceptor' = [acceptor EXCEPT ![a] = "accept"] /\ GivesUp(t)
              /\ tasks' = Append(tasks, a)
           \/ acceptor' = [acceptor EXCEPT ![a] = "blocked"] /\ GivesUp(t) /\ tasks' = tasks
    BY <1>4, Zenon DEF AcceptRegisters, FiberAt, GoesTo, clientVars, callVars
  <2>2. CASE UNCHANGED <<acceptor, tasks, running>>
    <3>1. TcpType' /\ NotStarted' /\ LateEnds'
      BY <2>1, <2>2 DEF TcpType, NotStarted, LateEnds
    <3>2. OpenWhileRunning'
      BY <2>1, <2>2 DEF OpenWhileRunning, Stopping, NotIn
    <3>3. ASSUME NEW b \in AcceptFibers
          PROVE  OnePlace(b)'
      <4>1. OnePlace(b)
        BY DEF TcpInv, Placed
      <4>2. OnNone(b)' = OnNone(b) /\ OnOne(b)' = OnOne(b)
        BY <2>2 DEF OnNone, OnOne
      <4>3. NotIn(b, tasks)' = NotIn(b, tasks) /\ OnceIn(b, tasks)' = OnceIn(b, tasks)
        BY <2>2 DEF NotIn, OnceIn
      <4>4. QED
        BY <2>2, <4>1, <4>2, <4>3 DEF OnePlace
    <3>4. QED
      BY <3>1, <3>2, <3>3 DEF Placed
  <2>3. CASE ~UNCHANGED <<acceptor, tasks, running>>
    <3>1. TcpType' /\ OpenWhileRunning' /\ Placed'
      BY <2>1, <2>3, FiberKeeps DEF AwakeAt, TcpType
    <3>2. NotStarted' /\ LateEnds'
      BY <1>0, <2>1, <2>3 DEF NotStarted, LateEnds
    <3>3. QED
      BY <3>1, <3>2
  <2>4. QED
    BY <2>2, <2>3
<1>5. QED
  BY <1>1, <1>2, <1>3, <1>4 DEF AcceptorStep

\* A new start queues a fiber for every socket.
LEMMA StartKeeps ==
  ASSUME TcpInv, start
  PROVE  TcpInv'
<1> USE DEF TcpInv
<1> DEFINE new == m_socks \X {starts + 1}
<1>1. new \in SUBSET AcceptFibers
  BY TcpServerAssumption DEF start, AcceptFibers, TcpType
<1>2. /\ m_isStop /\ m_isStop' = FALSE /\ starts' = starts + 1
      /\ acceptor' = [a \in AcceptFibers |-> IF a \in new THEN "loop" ELSE acceptor[a]]
      /\ tasks' = tasks \o SetToSeq(new)
      /\ restarted' = (restarted \/ LiveFibers # {} \/ Contains(tasks, StopTask) \/ Stopping)
      /\ UNCHANGED <<m_socks, listening, running, late>>
  BY Zenon DEF start, clientVars
<1>3. \A a \in new : a[1] \in m_socks /\ a[2] = starts + 1
  OBVIOUS
<1> HIDE DEF new
<1>4. tasks \in Seq(Tasks) /\ starts \in Nat
  BY DEF TcpType
<1>5. \A a \in new : acceptor[a] = "none" /\ late[a] = 0
  <2>1. ASSUME NEW a \in new PROVE a[2] > starts /\ a \in AcceptFibers
    BY <1>1, <1>3, <1>4
  <2>2. QED
    BY <2>1 DEF NotStarted
<1>6. TcpType'
  <2>1. tasks' \in Seq(Tasks)
    BY <1>1, <1>2, <1>4, QueueFibers
  <2>2. /\ restarted' \in BOOLEAN /\ m_isStop' \in BOOLEAN /\ starts' = starts + 1
        /\ UNCHANGED <<m_socks, listening, running, late>>
    BY <1>2, Zenon
  <2>3. acceptor' \in [AcceptFibers -> {"none", "loop", "accept", "again", "blocked", "ended"}]
    BY <1>2 DEF TcpType
  <2>4. QED
    BY <2>1, <2>2, <2>3 DEF TcpType
<1>7. NotStarted'
  <2>1. ASSUME NEW a \in AcceptFibers, a[2] > starts'
        PROVE acceptor'[a] = "none" /\ late'[a] = 0
    <3>1. a[2] \in Int
      BY DEF AcceptFibers
    <3>2. a[2] > starts /\ a \notin new
      BY <1>2, <1>3, <1>4, <2>1, <3>1
    <3>3. QED
      BY <1>2, <3>2 DEF NotStarted
  <2>2. QED
    BY <2>1 DEF NotStarted
<1>8. ASSUME ~restarted'
      PROVE  /\ ~restarted /\ ~Stopping /\ NotIn(StopTask, tasks)
             /\ \A a \in AcceptFibers : acceptor[a] \notin LiveAt
  BY <1>2, <1>8 DEF LiveFibers, LiveAt, Contains, NotIn, TcpType
<1>9. LateEnds'
  BY <1>2, <1>5, <1>8 DEF LateEnds, LiveAt
<1>10. OpenWhileRunning'
  <2>1. NotIn(StopTask, tasks) => NotIn(StopTask, tasks')
    BY <1>1, <1>2, <1>4, QueueFibers, TaskKinds
  <2>2. Stopping' <=> Stopping
    BY <1>2 DEF Stopping
  <2>3. QED
    BY <1>2, <1>3, <1>8, <2>1, <2>2 DEF OpenWhileRunning
<1>11. Placed'
  <2>1. ASSUME NEW a \in AcceptFibers PROVE OnePlace(a)'
    <3>1. OnePlace(a) /\ (OnNone(a)' <=> OnNone(a)) /\ (OnOne(a)' <=> OnOne(a))
      BY <1>2 DEF Placed, OnNone, OnOne
    <3>2. CASE a \in new
      <4>1. NotIn(a, tasks) /\ OnNone(a)
        BY <1>5, <3>1, <3>2 DEF OnePlace, AwakeAt
      <4>2. OnceIn(a, tasks') /\ OnNone(a)' /\ acceptor'[a] = "loop"
        BY <1>1, <1>2, <1>4, <3>1, <3>2, <4>1, QueueFibers
      <4>3. QED
        BY <4>2 DEF OnePlace, AwakeAt
    <3>3. CASE a \notin new
      <4>1. /\ acceptor'[a] = acceptor[a]
            /\ NotIn(a, tasks) => NotIn(a, tasks')
            /\ OnceIn(a, tasks) => OnceIn(a, tasks')
        BY <1>1, <1>2, <1>4, <3>3, QueueFibers
      <4>2. QED
        BY <3>1, <4>1 DEF OnePlace
    <3>4. QED
      BY <3>2, <3>3
  <2>2. QED
    BY <2>1 DEF Placed
<1>12. QED
  BY <1>6, <1>7, <1>9, <1>10, <1>11

\* The task of stop() is taken, and ends.
LEMMA StopTaskKeeps ==
  ASSUME TcpInv, NEW t \in ServerThreads, RunStopTask(t) \/ StopTaskEnds(t)
  PROVE  TcpInv'
<1> USE DEF TcpInv
<1>0. /\ tasks \in Seq(Tasks)
      /\ running \in [ServerThreads -> AcceptFibers \cup {StopTask, Nobody}]
  BY DEF TcpType
<1>1. PICK y \in {StopTask, Nobody} :
      /\ running' = [running EXCEPT ![t] = y] /\ running[t] \in {StopTask, Nobody}
      /\ UNCHANGED <<m_isStop, late, starts, restarted, listening, acceptor>>
      /\ \/ y = StopTask /\ tasks # <<>> /\ Head(tasks) = StopTask /\ tasks' = Tail(tasks)
            /\ m_socks' = m_socks
         \/ y = Nobody /\ running[t] = StopTask /\ tasks' = tasks /\ m_socks' = {}
  BY DEF RunStopTask, StopTaskEnds, Takes, clientVars, callVars
<1>2. tasks' \in Seq(Tasks)
  BY <1>0, <1>1, TailPlaces
<1>3. TcpType'
  BY <1>0, <1>1, <1>2 DEF TcpType
<1>4. NotStarted' /\ LateEnds'
  BY <1>1 DEF NotStarted, LateEnds
<1>5. restarted \/ m_isStop
  <2>1. Stopping \/ ~NotIn(StopTask, tasks)
    BY <1>0, <1>1, TailPlaces DEF Stopping
  <2>2. QED
    BY <2>1 DEF OpenWhileRunning
<1>6. OpenWhileRunning'
  <2>1. m_socks' = {} \/ Stopping'
    BY <1>0, <1>1 DEF Stopping
  <2>2. QED
    BY <1>1, <1>5, <2>1 DEF OpenWhileRunning
<1>7. Placed'
  <2>1. ASSUME NEW a \in AcceptFibers PROVE OnePlace(a)'
    <3>1. OnePlace(a) /\ a # StopTask /\ a # Nobody
      BY TaskKinds DEF Placed
    <3>2. (OnNone(a)' <=> OnNone(a)) /\ (OnOne(a)' <=> OnOne(a))
      BY <1>0, <1>1, <3>1 DEF OnNone, OnOne
    <3>3. /\ NotIn(a, tasks) => NotIn(a, tasks')
          /\ OnceIn(a, tasks) => OnceIn(a, tasks')
      <4>1. CASE tasks' = tasks
        BY <4>1
      <4>2. CASE tasks # <<>> /\ Head(tasks) = StopTask /\ tasks' = Tail(tasks)
        BY <1>0, <3>1, <4>2, TailPlaces
      <4>3. QED
        BY <1>1, <4>1, <4>2
    <3>4. QED
      BY <1>1, <3>1, <3>2, <3>3 DEF OnePlace
  <2>2. QED
    BY <2>1 DEF Placed
<1>8. QED
  BY <1>3, <1>4, <1>6, <1>7

\* Every call, every step of a thread and every client keeps TcpInv.
LEMMA TcpInvNext == TcpInv /\ [TcpNext]_tcpVars => TcpInv'
<1> SUFFICES ASSUME TcpInv, [TcpNext]_tcpVars PROVE TcpInv'
  OBVIOUS
<1> USE DEF TcpInv
<1>1. ASSUME NEW addrs \in SUBSET Socks, NEW fails \in SUBSET addrs,
      bind(addrs, fails) PROVE TcpInv'
  <2>0. UNCHANGED <<m_isStop, acceptor, tasks, running, late, starts, restarted>> /\ ~Stopping
    BY <1>1 DEF bind, clientVars
  <2>1. TcpType'
    BY <1>1, <2>0 DEF bind, TcpType
  <2>2. NotStarted' /\ LateEnds' /\ Placed'
    BY <2>0 DEF NotStarted, LateEnds, Placed, OnePlace, OnNone, OnOne, NotIn, OnceIn
  <2>3. ASSUME NEW a \in AcceptFibers, acceptor[a] \in LiveAt, a[1] \in listening
        PROVE  a[1] \in listening'
    BY <1>1, <2>3 DEF bind, HeldSocks, LiveFibers, LiveAt
  <2>4. m_socks \subseteq listening => m_socks' \subseteq listening'
    BY <1>1 DEF bind
  <2>5. OpenWhileRunning'
    BY <2>0, <2>3, <2>4 DEF OpenWhileRunning, Stopping, NotIn
  <2>6. QED
    BY <2>1, <2>2, <2>5
<1>2. CASE start
  BY <1>2, StartKeeps
<1>3. ASSUME stop PROVE TcpInv'
  <2>1. /\ m_isStop' = TRUE /\ tasks' = Append(tasks, StopTask)
        /\ UNCHANGED <<acceptor, running, late, starts, restarted, m_socks, listening>>
    BY <1>3 DEF stop, StopFlag, clientVars
  <2>2. tasks \in Seq(Tasks) /\ StopTask \in Tasks
    BY DEF TcpType, Tasks
  <2>3. tasks' \in Seq(Tasks)
    BY <2>1, <2>2, AppendPlaces
  <2>4. TcpType'
    BY <2>1, <2>3 DEF TcpType
  <2>5. NotStarted' /\ LateEnds' /\ OpenWhileRunning'
    BY <2>1 DEF NotStarted, LateEnds, OpenWhileRunning, Stopping
  <2>6. ASSUME NEW a \in AcceptFibers PROVE OnePlace(a)'
    <3>1. OnePlace(a) /\ a # StopTask
      BY TaskKinds DEF Placed
    <3>2. /\ NotIn(a, tasks) => NotIn(a, tasks')
          /\ OnceIn(a, tasks) => OnceIn(a, tasks')
      BY <2>1, <2>2, <3>1, AppendPlaces
    <3>3. (OnNone(a)' <=> OnNone(a)) /\ (OnOne(a)' <=> OnOne(a))
      BY <2>1 DEF OnNone, OnOne
    <3>4. QED
      BY <2>1, <3>1, <3>2, <3>3 DEF OnePlace
  <2>7. QED
    BY <2>4, <2>5, <2>6 DEF Placed
<1>4. ASSUME NEW t \in ServerThreads, ServerThread(t) PROVE TcpInv'
  <2>1. CASE RunStopTask(t) \/ StopTaskEnds(t)
    BY <2>1, StopTaskKeeps
  <2>2. CASE RunAcceptor(t) \/ RunClient(t)
    <3>1. /\ Takes(t) /\ Head(tasks) \in AcceptFibers \cup {ClientTask}
          /\ running' = IF Head(tasks) = ClientTask THEN running
                        ELSE [running EXCEPT ![t] = Head(tasks)]
          /\ UNCHANGED <<acceptor, m_isStop, late, starts, restarted, m_socks, listening>>
      BY <2>2, TaskKinds DEF RunAcceptor, RunClient, clientVars, callVars
    <3>2. QED
      BY <3>1, TakeKeeps
  <2>3. ASSUME NEW s \in Socks, CancelSock(t, s) \/ CloseCancels(t, s) PROVE TcpInv'
    <3>1. /\ WakeUp({s})
          /\ UNCHANGED <<m_isStop, running, late, starts, restarted, m_socks, listening>>
      BY <2>3 DEF CancelSock, CloseCancels, clientVars, callVars
    <3>2. QED
      BY <3>1, WakeUpKeeps
  <2>4. ASSUME NEW s \in Socks, CloseCloses(t, s) PROVE TcpInv'
    <3>1. /\ listening' \subseteq listening /\ running[t] = StopTask
          /\ UNCHANGED <<m_isStop, acceptor, tasks, running, late, starts, restarted, m_socks>>
      BY <2>4 DEF CloseCloses, clientVars, callVars
    <3>2. TcpType'
      BY <3>1 DEF TcpType
    <3>3. NotStarted' /\ LateEnds' /\ Placed'
      BY <3>1 DEF NotStarted, LateEnds, Placed, OnePlace, OnNone, OnOne, NotIn, OnceIn
    <3>4. Stopping /\ Stopping'
      BY <3>1 DEF Stopping
    <3>5. OpenWhileRunning'
      BY <3>1, <3>4 DEF OpenWhileRunning
    <3>6. QED
      BY <3>2, <3>3, <3>5
  <2>5. ASSUME NEW a \in AcceptFibers, AcceptorStep(t, a) PROVE TcpInv'
    BY <2>5, AcceptorKeeps
  <2>6. QED
    BY <1>4, <2>1, <2>2, <2>3, <2>4, <2>5 DEF ServerThread
<1>5. ASSUME NEW s \in Socks, ClientArrives(s) PROVE TcpInv'
  <2>1. /\ WakeUp({s})
        /\ UNCHANGED <<m_isStop, running, late, starts, restarted, m_socks, listening>>
    BY <1>5 DEF ClientArrives, callVars
  <2>2. QED
    BY <2>1, WakeUpKeeps
<1>6. CASE UNCHANGED tcpVars
  <2>1. UNCHANGED <<m_socks, listening, m_isStop, acceptor, tasks, running, late, starts,
                    restarted>>
    BY <1>6 DEF tcpVars, clientVars, callVars
  <2>2. QED
    BY <2>1 DEF TcpType, NotStarted, LateEnds, OpenWhileRunning, Stopping, Placed, OnePlace,
                OnNone, OnOne, NotIn, OnceIn
<1>7. QED
  BY <1>1, <1>2, <1>3, <1>4, <1>5, <1>6 DEF TcpNext

\* For any number of threads, sockets and restarts: unless start() came before a
\* stop() was through, a fiber accepts at most one client after stop(), and none
\* turns in accept on a closed socket of a running server; and no fiber is ever
\* lost or on two threads, wherever the steps of stop()'s task fall between those
\* of accept (tcp_server.cc 35-131, hook.cc 495-506).
THEOREM AcceptorsCorrect == TcpInit /\ [][TcpNext]_tcpVars => []AcceptorsConsistent
<1>1. TcpInv => AcceptorsConsistent
  <2>1. SUFFICES ASSUME TcpInv PROVE OneLateClient /\ NoBusyLoop /\ FiberInOnePlace
    BY DEF AcceptorsConsistent
  <2>2. OneLateClient
    BY <2>1 DEF TcpInv, TcpType, LateEnds, OneLateClient
  <2>3. NoBusyLoop
    BY <2>1 DEF TcpInv, OpenWhileRunning, NoBusyLoop, LiveAt
  <2>4. FiberInOnePlace
    <3>1. SUFFICES ASSUME NEW a \in AcceptFibers
                   PROVE LET queued == {i \in 1 .. Len(tasks) : tasks[i] = a}
                             on == {t \in ServerThreads : running[t] = a}
                         IN IF acceptor[a] \in {"loop", "accept", "again"}
                            THEN \/ on = {} /\ \E i \in queued : queued = {i}
                                 \/ queued = {} /\ \E t \in on : on = {t}
                            ELSE queued = {} /\ on = {}
      BY DEF FiberInOnePlace
    <3> DEFINE queued == {i \in 1 .. Len(tasks) : tasks[i] = a}
               on == {t \in ServerThreads : running[t] = a}
    <3>2. OnePlace(a)
      BY <2>1 DEF TcpInv, Placed
    <3>3. (OnNone(a) => on = {}) /\ (NotIn(a, tasks) => queued = {})
      BY DEF OnNone, NotIn
    <3>4. OnOne(a) => \E t \in on : on = {t}
      BY DEF OnOne
    <3>5. OnceIn(a, tasks) => \E i \in queued : queued = {i}
      BY DEF OnceIn
    <3> HIDE DEF queued, on
    <3>6. IF acceptor[a] \in {"loop", "accept", "again"}
          THEN \/ on = {} /\ \E i \in queued : queued = {i}
               \/ queued = {} /\ \E t \in on : on = {t}
          ELSE queued = {} /\ on = {}
      BY <3>2, <3>3, <3>4, <3>5 DEF OnePlace, AwakeAt
    <3>7. QED
      BY <3>6 DEF queued, on
  <2>5. QED
    BY <2>2, <2>3, <2>4
<1>2. QED
  BY TcpInvInit, TcpInvNext, <1>1, PTL

-----------------------------------------------------------------------------
(* ServletDispatch: the table follows its changes                           *)

\* A set of naturals that is not empty has a least element.
LEMMA LeastNatural == \A S : S \subseteq Nat /\ S # {} => \E m \in S : \A y \in S : m <= y
<1> TAKE S
<1> HAVE S \subseteq Nat /\ S # {}
<1> DEFINE R == {ss \in Nat \X Nat : ss[1] < ss[2]}
<1>1. IsWellFoundedOn(R, Nat)
  BY NatLessThanWellFounded, Zenon DEF OpToRel
<1>2. ASSUME NEW x \in Nat, NEW y \in Nat, y < x PROVE <<y, x>> \in R
  <2>1. <<y, x>> \in Nat \X Nat
    OBVIOUS
  <2>2. <<y, x>>[1] = y /\ <<y, x>>[2] = x
    OBVIOUS
  <2> QED BY <1>2, <2>1, <2>2, Zenon
<1> HIDE DEF R
<1>3. PICK m \in S : \A y \in S : ~(<<y, m>> \in R)
  BY <1>1, WFMin
<1>4. ASSUME NEW y \in S PROVE m <= y
  <2>1. m \in Nat /\ y \in Nat
    OBVIOUS
  <2>2. ~(y < m)
    BY <1>2, <1>3, <2>1, Zenon
  <2> QED BY <2>1, <2>2
<1> QED BY <1>4

\* A bounded one has a greatest.
LEMMA GreatestNatural ==
    ASSUME NEW n \in Nat, NEW S, S \subseteq 1 .. n, S # {}
    PROVE  \E m \in S : \A y \in S : y <= m
<1> DEFINE T == {n - i : i \in S}
<1>1. T \subseteq Nat /\ T # {}
  <2>1. \A i \in S : n - i \in Nat
    OBVIOUS
  <2>2. PICK i \in S : TRUE
    OBVIOUS
  <2> QED BY <2>1, <2>2
<1>2. PICK t \in T : \A y \in T : t <= y
  BY <1>1, LeastNatural
<1>3. PICK m \in S : t = n - m
  OBVIOUS
<1>4. ASSUME NEW y \in S PROVE y <= m
  <2>1. n - m <= n - y
    BY <1>2, <1>3
  <2> QED BY <2>1
<1> QED BY <1>4

\* Change i of the changes p is one of uri or pattern u.
IsChange(p, i, op, u) == p[i].op = op /\ p[i].uri = u

\* i is the last change of u among the first n.
IsLast(p, i, op, u, n) ==
    /\ i \in 0 .. n
    /\ i # 0 => IsChange(p, i, op, u)
    /\ \A j \in 1 .. n : j > i => ~IsChange(p, j, op, u)

\* LastChange, for any sequence of changes.
LastIn(p, op, u, n) ==
    LET at == {i \in 1 .. n : p[i].op = op /\ p[i].uri = u}
    IN IF at = {} THEN 0 ELSE CHOOSE i \in at : \A j \in at : j <= i

\* It is that change, and no other is.
LEMMA LastInExact ==
    ASSUME NEW p, NEW n \in Nat, NEW op, NEW u
    PROVE  /\ IsLast(p, LastIn(p, op, u, n), op, u, n)
           /\ \A i : IsLast(p, i, op, u, n) => i = LastIn(p, op, u, n)
<1> DEFINE at == {i \in 1 .. n : p[i].op = op /\ p[i].uri = u}
           l == LastIn(p, op, u, n)
<1>1. l = IF at = {} THEN 0 ELSE CHOOSE i \in at : \A j \in at : j <= i
  BY DEF LastIn
<1>2. IsLast(p, l, op, u, n)
  <2>1. CASE at = {}
    BY <1>1, <2>1 DEF IsLast, IsChange
  <2>2. CASE at # {}
    <3>1. \E i \in at : \A j \in at : j <= i
      BY <2>2, GreatestNatural
    <3>2. l \in at /\ \A j \in at : j <= l
      <4> HIDE DEF at, l
      <4> QED BY <1>1, <2>2, <3>1
    <3> HIDE DEF l
    <3> QED BY <3>2 DEF IsLast, IsChange
  <2> QED BY <2>1, <2>2
<1>3. ASSUME NEW i, IsLast(p, i, op, u, n) PROVE i = l
  <2> HIDE DEF l
  <2> QED BY <1>2, <1>3 DEF IsLast
<1> QED BY <1>2, <1>3

Change == [op : {"add", "glob"}, uri : Uris \cup DOMAIN Globs, slt : Servlets \cup {NoServlet}]

\* The last change of u so far.
Latest(op, u) == LastIn(past, op, u, Len(past))

LiveIn(p, i) == i # 0 /\ p[i].slt # NoServlet

\* The last changes, among the first n, that leave a pattern matching u in the table.
LiveMatches(p, u, n) ==
    {i \in {LastIn(p, "glob", g, n) : g \in {x \in DOMAIN Globs : u \in Globs[x]}} : LiveIn(p, i)}

Earliest(l) == CHOOSE i \in l : \A j \in l : i <= j

\* What a request for u after the first n changes must get.
Promised(p, u, n) ==
    LET exact == LastIn(p, "add", u, n)
        live == LiveMatches(p, u, n)
    IN IF LiveIn(p, exact) THEN p[exact].slt
       ELSE IF live = {} THEN NoServlet
       ELSE p[Earliest(live)].slt

\* The types of the table and of its history.
ServletType ==
    /\ past \in Seq(Change)
    /\ m_datas \in [Uris -> Servlets \cup {NoServlet}]
    /\ m_globs \in Seq((DOMAIN Globs) \X Servlets)
    /\ \A h \in served : h.uri \in Uris /\ h.at \in 0 .. Len(past)

\* The map holds the servlet of the last change of each uri.
DatasCurrent ==
    \A u \in Uris :
        m_datas[u] = IF Latest("add", u) = 0 THEN NoServlet ELSE past[Latest("add", u)].slt

\* The vector holds the servlets of the last changes of the patterns, each pattern
\* once, in the order of those changes.
GlobsCurrent ==
    /\ \A k \in 1 .. Len(m_globs) :
          /\ Latest("glob", m_globs[k][1]) # 0
          /\ past[Latest("glob", m_globs[k][1])].slt = m_globs[k][2]
    /\ \A k, l \in 1 .. Len(m_globs) :
          k < l => Latest("glob", m_globs[k][1]) < Latest("glob", m_globs[l][1])
    /\ \A g \in DOMAIN Globs :
          LiveIn(past, Latest("glob", g)) => \E k \in 1 .. Len(m_globs) : m_globs[k][1] = g

\* The table is what its history says, and so was every lookup.
ServletInv ==
    /\ ServletType /\ DatasCurrent /\ GlobsCurrent
    /\ \A h \in served : h.slt = Promised(past, h.uri, h.at)

\* The empty table has no change to follow.
LEMMA ServletInvInit == ServletInit => ServletInv
<1> SUFFICES ASSUME ServletInit PROVE ServletInv
  OBVIOUS
<1>1. past = <<>> /\ Len(past) = 0 /\ m_globs = <<>> /\ Len(m_globs) = 0 /\ served = {}
  BY DEF ServletInit
<1>2. \A op, u : Latest(op, u) = 0
  <2> TAKE op, u
  <2>1. IsLast(past, Latest(op, u), op, u, 0)
    BY <1>1, LastInExact DEF Latest
  <2> QED BY <2>1 DEF IsLast
<1>3. ServletType
  BY <1>1 DEF ServletInit, ServletType
<1>4. DatasCurrent
  BY <1>2 DEF ServletInit, DatasCurrent
<1>5. GlobsCurrent
  BY <1>1, <1>2 DEF GlobsCurrent, LiveIn
<1> QED BY <1>1, <1>3, <1>4, <1>5 DEF ServletInv

\* A change appended leaves the past as it was.
LEMMA PastKept ==
    ASSUME NEW p \in Seq(Change), NEW c \in Change
    PROVE  /\ Append(p, c) \in Seq(Change) /\ Len(Append(p, c)) = Len(p) + 1 /\ Len(p) \in Nat
           /\ Append(p, c)[Len(p) + 1] = c /\ \A i \in 1 .. Len(p) : Append(p, c)[i] = p[i]
OBVIOUS

\* So what was the last change of u is, among the same changes.
LEMMA LastKept ==
    ASSUME NEW p \in Seq(Change), NEW c \in Change,
           NEW n \in 0 .. Len(p)
    PROVE  \A op, u : LastIn(Append(p, c), op, u, n) = LastIn(p, op, u, n)
<1> DEFINE q == Append(p, c)
<1> TAKE op, u
<1>1. Len(p) \in Nat /\ n \in Nat /\ \A i \in 1 .. Len(p) : q[i] = p[i]
  BY PastKept
<1>2. \A i \in 1 .. n : IsChange(q, i, op, u) <=> IsChange(p, i, op, u)
  BY <1>1 DEF IsChange
<1>3. IsLast(p, LastIn(q, op, u, n), op, u, n)
  <2>1. IsLast(q, LastIn(q, op, u, n), op, u, n)
    BY <1>1, LastInExact
  <2> QED BY <1>1, <1>2, <2>1 DEF IsLast
<1> QED BY <1>1, <1>3, LastInExact

\* The change is the last one of its own uri or pattern; the others keep theirs.
LEMMA LastAfterChange ==
    ASSUME NEW p \in Seq(Change), NEW c \in Change, NEW op, NEW u
    PROVE  LastIn(Append(p, c), op, u, Len(Append(p, c))) =
              IF c.op = op /\ c.uri = u THEN Len(p) + 1 ELSE LastIn(p, op, u, Len(p))
<1> DEFINE q == Append(p, c)
<1> DEFINE n == Len(p)
           l == LastIn(p, op, u, n)
<1>1. /\ q \in Seq(Change) /\ Len(q) = n + 1 /\ n \in Nat /\ n + 1 \in Nat
      /\ q[n + 1] = c /\ \A i \in 1 .. n : q[i] = p[i]
  BY PastKept
<1>2. IsLast(p, l, op, u, n)
  BY <1>1, LastInExact
<1>3. \A i \in 1 .. n : IsChange(q, i, op, u) <=> IsChange(p, i, op, u)
  BY <1>1 DEF IsChange
<1>4. IsChange(q, n + 1, op, u) <=> (c.op = op /\ c.uri = u)
  BY <1>1 DEF IsChange
<1> HIDE DEF n, l
<1>5. CASE c.op = op /\ c.uri = u
  <2>1. IsLast(q, n + 1, op, u, n + 1)
    BY <1>1, <1>4, <1>5 DEF IsLast
  <2> QED BY <1>1, <1>5, <2>1, LastInExact DEF n
<1>6. CASE ~(c.op = op /\ c.uri = u)
  <2>1. IsLast(q, l, op, u, n + 1)
    BY <1>1, <1>2, <1>3, <1>4, <1>6 DEF IsLast
  <2> QED BY <1>1, <1>6, <2>1, LastInExact DEF n, l
<1> QED BY <1>5, <1>6

\* The changes that may be promised from.
LEMMA LiveMatchesIndices ==
    ASSUME NEW p, NEW u, NEW n \in Nat
    PROVE  /\ LiveMatches(p, u, n) \subseteq 1 .. n
           /\ LiveMatches(p, u, n) # {} =>
                Earliest(LiveMatches(p, u, n)) \in 1 .. n
<1> DEFINE l == LiveMatches(p, u, n)
<1>1. ASSUME NEW i \in l PROVE i \in 1 .. n
  <2>1. PICK g \in DOMAIN Globs : i = LastIn(p, "glob", g, n)
    BY DEF LiveMatches
  <2>2. IsLast(p, i, "glob", g, n)
    BY <2>1, LastInExact
  <2>3. i # 0
    BY DEF LiveMatches, LiveIn
  <2> QED BY <2>2, <2>3 DEF IsLast
<1>2. ASSUME l # {} PROVE Earliest(l) \in l
  <2> HIDE DEF l
  <2>1. l \subseteq Nat
    BY <1>1
  <2>2. \E i \in l : \A j \in l : i <= j
    BY <1>2, <2>1, LeastNatural
  <2> QED BY <2>2 DEF Earliest
<1> HIDE DEF l
<1>3. l \subseteq 1 .. n /\ (l # {} => Earliest(l) \in 1 .. n)
  BY <1>1, <1>2
<1> QED BY <1>3 DEF l

\* What was promised before a change is promised after it.
LEMMA PromiseKept ==
    ASSUME NEW p \in Seq(Change), NEW c \in Change, NEW u,
           NEW n \in 0 .. Len(p)
    PROVE  Promised(Append(p, c), u, n) = Promised(p, u, n)
<1> DEFINE q == Append(p, c)
<1>1. /\ Len(p) \in Nat /\ \A i \in 1 .. Len(p) : q[i] = p[i]
      /\ \A op, v : LastIn(q, op, v, n) = LastIn(p, op, v, n)
  <2>1. Len(p) \in Nat /\ \A i \in 1 .. Len(p) : q[i] = p[i]
    BY PastKept
  <2>2. \A op, v : LastIn(q, op, v, n) = LastIn(p, op, v, n)
    BY LastKept
  <2> QED BY <2>1, <2>2
<1>2. n \in Nat /\ \A i \in 1 .. n : q[i] = p[i]
  BY <1>1
<1>3. \A i \in 0 .. n : LiveIn(q, i) <=> LiveIn(p, i)
  BY <1>2 DEF LiveIn
<1>4. \A op, v : LastIn(p, op, v, n) \in 0 .. n
  BY <1>2, LastInExact DEF IsLast
<1>5. LiveMatches(q, u, n) = LiveMatches(p, u, n)
  BY <1>1, <1>3, <1>4 DEF LiveMatches
<1> DEFINE exact == LastIn(p, "add", u, n)
           live == LiveMatches(p, u, n)
           first == Earliest(live)
<1>6. LiveIn(q, exact) <=> LiveIn(p, exact)
  BY <1>3, <1>4
<1>7. LiveIn(p, exact) => q[exact] = p[exact]
  <2> HIDE DEF exact
  <2>1. exact \in 0 .. n
    BY <1>4 DEF exact
  <2> QED BY <1>2, <2>1 DEF LiveIn
<1>8. live # {} => q[first] = p[first]
  <2>1. live # {} => first \in 1 .. n
    BY <1>2, LiveMatchesIndices
  <2> QED BY <1>2, <2>1
<1>9. Promised(q, u, n) = IF LiveIn(q, exact) THEN q[exact].slt
                          ELSE IF live = {} THEN NoServlet ELSE q[first].slt
  <2>1. LastIn(q, "add", u, n) = exact /\ LiveMatches(q, u, n) = live
    BY <1>1, <1>5
  <2> HIDE DEF exact, live
  <2> QED BY <2>1 DEF Promised
<1>10. Promised(p, u, n) = IF LiveIn(p, exact) THEN p[exact].slt
                           ELSE IF live = {} THEN NoServlet ELSE p[first].slt
  BY DEF Promised
<1> HIDE DEF q, exact, live, first
<1>11. Promised(q, u, n) = Promised(p, u, n)
  BY <1>6, <1>7, <1>8, <1>9, <1>10
<1> QED BY <1>11 DEF q

\* A sequence without its m-th element.
LEMMA RemoveAtExact ==
    ASSUME NEW S, NEW s \in Seq(S), NEW m \in 1 .. Len(s)
    PROVE  /\ RemoveAt(s, m) \in Seq(S) /\ Len(RemoveAt(s, m)) = Len(s) - 1
           /\ \A i \in 1 .. Len(s) - 1 : RemoveAt(s, m)[i] = IF i < m THEN s[i] ELSE s[i + 1]
<1> DEFINE a == SubSeq(s, 1, m - 1)
           b == SubSeq(s, m + 1, Len(s))
<1>1. a \in Seq(S) /\ Len(a) = m - 1 /\ \A i \in 1 .. m - 1 : a[i] = s[i]
  BY SubSeqProperties
<1>2. b \in Seq(S) /\ Len(b) = Len(s) - m /\ \A i \in 1 .. Len(s) - m : b[i] = s[m + i]
  BY SubSeqProperties
<1>3. RemoveAt(s, m) = a \o b
  BY DEF RemoveAt
<1> HIDE DEF a, b
<1>4. a \o b \in Seq(S) /\ Len(a \o b) = Len(s) - 1
  <2>1. a \o b \in Seq(S) /\ Len(a \o b) = Len(a) + Len(b)
    BY <1>1, <1>2, ConcatProperties
  <2> QED BY <1>1, <1>2, <2>1
<1>5. ASSUME NEW i \in 1 .. Len(s) - 1
      PROVE  (a \o b)[i] = IF i < m THEN s[i] ELSE s[i + 1]
  <2>1. CASE i < m
    <3>1. i \in 1 .. m - 1 /\ (a \o b)[i] = a[i]
      BY <1>1, <1>2, <2>1
    <3> QED BY <1>1, <2>1, <3>1
  <2>2. CASE ~(i < m)
    <3>1. i - (m - 1) \in 1 .. Len(s) - m /\ (a \o b)[i] = b[i - (m - 1)]
      BY <1>1, <1>2, <2>2
    <3>2. m + (i - (m - 1)) = i + 1
      OBVIOUS
    <3> QED BY <1>2, <2>2, <3>1, <3>2
  <2> QED BY <2>1, <2>2
<1> QED BY <1>3, <1>4, <1>5

\* The place of the first entry that passes a test, for the two tests of the table.
LEMMA FirstPlace ==
    ASSUME NEW n \in Nat, NEW I, I \subseteq 1 .. n, I # {}
    PROVE  Min(I) \in I /\ \A i \in I : Min(I) <= i
<1>0. I \subseteq Nat
  OBVIOUS
<1>1. \E m \in I : \A y \in I : m <= y
  BY <1>0, LeastNatural
<1> QED BY <1>1 DEF Min

\* After a change: the last changes, and the requests already served.
LEMMA AfterChange ==
    ASSUME ServletInv, NEW c \in Change, past' = Append(past, c), served' = served
    PROVE  /\ past' \in Seq(Change) /\ Len(past') = Len(past) + 1 /\ Len(past) \in Nat
           /\ past'[Len(past) + 1] = c /\ \A i \in 1 .. Len(past) : past'[i] = past[i]
           /\ \A op, u : Latest(op, u) \in 0 .. Len(past)
           /\ \A op, u : LastIn(past', op, u, Len(past')) =
                 IF c.op = op /\ c.uri = u THEN Len(past) + 1 ELSE Latest(op, u)
           /\ \A h \in served' : h.uri \in Uris /\ h.at \in 0 .. Len(past')
                                 /\ h.slt = Promised(past', h.uri, h.at)
<1>1. past \in Seq(Change)
  BY DEF ServletInv, ServletType
<1>2. /\ past' \in Seq(Change) /\ Len(past') = Len(past) + 1 /\ Len(past) \in Nat
      /\ past'[Len(past) + 1] = c /\ \A i \in 1 .. Len(past) : past'[i] = past[i]
  BY <1>1, PastKept
<1>3. ASSUME NEW op, NEW u PROVE Latest(op, u) \in 0 .. Len(past)
  BY <1>2, LastInExact DEF Latest, IsLast
<1>4. ASSUME NEW op, NEW u
      PROVE  LastIn(past', op, u, Len(past')) =
                IF c.op = op /\ c.uri = u THEN Len(past) + 1 ELSE Latest(op, u)
  BY <1>1, LastAfterChange DEF Latest
<1>5. ASSUME NEW h \in served'
      PROVE  h.uri \in Uris /\ h.at \in 0 .. Len(past') /\ h.slt = Promised(past', h.uri, h.at)
  <2>1. h.uri \in Uris /\ h.at \in 0 .. Len(past) /\ h.slt = Promised(past, h.uri, h.at)
    BY DEF ServletInv, ServletType
  <2>2. Promised(Append(past, c), h.uri, h.at) = Promised(past, h.uri, h.at)
    BY <1>1, <2>1, PromiseKept
  <2> QED BY <1>2, <2>1, <2>2
<1> QED BY <1>2, <1>3, <1>4, <1>5

\* A change of a uri: the map follows it, the vector has nothing to follow.
LEMMA UriChange ==
    ASSUME ServletInv, NEW u \in Uris, NEW s \in Servlets \cup {NoServlet},
           past' = Append(past, [op |-> "add", uri |-> u, slt |-> s]),
           m_datas' = [m_datas EXCEPT ![u] = s], UNCHANGED <<m_globs, served>>
    PROVE  ServletInv'
<1> DEFINE c == [op |-> "add", uri |-> u, slt |-> s]
           n == Len(past)
<1>1. c \in Change /\ c.op = "add" /\ c.uri = u /\ c.slt = s
  BY DEF Change
<1>2. /\ past' \in Seq(Change) /\ Len(past') = n + 1 /\ n \in Nat
      /\ past'[n + 1] = c /\ \A i \in 1 .. n : past'[i] = past[i]
      /\ \A op, v : Latest(op, v) \in 0 .. n
      /\ \A op, v : LastIn(past', op, v, Len(past')) =
            IF c.op = op /\ c.uri = v THEN n + 1 ELSE Latest(op, v)
      /\ \A h \in served' : h.uri \in Uris /\ h.at \in 0 .. Len(past')
                            /\ h.slt = Promised(past', h.uri, h.at)
  BY <1>1, AfterChange
<1> HIDE DEF c, n
<1>3. m_datas \in [Uris -> Servlets \cup {NoServlet}] /\ m_globs \in Seq((DOMAIN Globs) \X Servlets)
  BY DEF ServletInv, ServletType
<1>4. ServletType'
  BY <1>2, <1>3 DEF ServletType
<1>5. DatasCurrent'
  <2>1. ASSUME NEW v \in Uris
        PROVE  m_datas'[v] = IF LastIn(past', "add", v, Len(past')) = 0 THEN NoServlet
                             ELSE past'[LastIn(past', "add", v, Len(past'))].slt
    <3>1. CASE v = u
      BY <1>1, <1>2, <1>3, <3>1
    <3>2. CASE v # u
      <4>1. m_datas[v] = IF Latest("add", v) = 0 THEN NoServlet ELSE past[Latest("add", v)].slt
        BY DEF ServletInv, DatasCurrent
      <4>2. LastIn(past', "add", v, Len(past')) = Latest("add", v) /\ m_datas'[v] = m_datas[v]
        BY <1>1, <1>2, <1>3, <3>2
      <4>3. Latest("add", v) \in 0 .. n
        BY <1>2
      <4> QED BY <1>2, <4>1, <4>2, <4>3
    <3> QED BY <3>1, <3>2
  <2> QED BY <2>1 DEF DatasCurrent, Latest
<1>6. GlobsCurrent'
  <2>1. \A g : LastIn(past', "glob", g, Len(past')) = Latest("glob", g)
    BY <1>1, <1>2
  <2>2. \A g : Latest("glob", g) # 0 => past'[Latest("glob", g)] = past[Latest("glob", g)]
    BY <1>2
  <2>3. GlobsCurrent
    BY DEF ServletInv
  <2>5. \A k \in 1 .. Len(m_globs) : past'[Latest("glob", m_globs[k][1])].slt = m_globs[k][2]
    BY <2>2, <2>3 DEF GlobsCurrent
  <2>6. \A g : LiveIn(past', Latest("glob", g)) <=> LiveIn(past, Latest("glob", g))
    BY <2>2 DEF LiveIn
  <2> DEFINE L(g) == LastIn(past', "glob", g, Len(past'))
  <2>7. \A k \in 1 .. Len(m_globs) :
           L(m_globs[k][1]) # 0 /\ past'[L(m_globs[k][1])].slt = m_globs[k][2]
    BY <2>1, <2>3, <2>5 DEF GlobsCurrent
  <2>8. \A k, l \in 1 .. Len(m_globs) : k < l => L(m_globs[k][1]) < L(m_globs[l][1])
    BY <2>1, <2>3 DEF GlobsCurrent
  <2>9. \A g \in DOMAIN Globs :
           LiveIn(past', L(g)) => \E k \in 1 .. Len(m_globs) : m_globs[k][1] = g
    BY <2>1, <2>3, <2>6 DEF GlobsCurrent
  <2>10. m_globs' = m_globs
    OBVIOUS
  <2> QED BY <2>7, <2>8, <2>9, <2>10, Zenon DEF GlobsCurrent, Latest
<1> QED BY <1>2, <1>4, <1>5, <1>6 DEF ServletInv

\* A pattern is in the vector once.
LEMMA PatternOnce ==
    ASSUME ServletInv, NEW k \in 1 .. Len(m_globs), NEW l \in 1 .. Len(m_globs),
           m_globs[k][1] = m_globs[l][1]
    PROVE  k = l
<1>1. ASSUME NEW g PROVE Latest("glob", g) \in Nat
  <2>1. Len(past) \in Nat
    BY DEF ServletInv, ServletType
  <2>2. IsLast(past, Latest("glob", g), "glob", g, Len(past))
    BY <2>1, LastInExact DEF Latest
  <2> QED BY <2>1, <2>2 DEF IsLast
<1>2. \A i, j \in 1 .. Len(m_globs) :
         i < j => Latest("glob", m_globs[i][1]) < Latest("glob", m_globs[j][1])
  BY DEF ServletInv, GlobsCurrent
<1>3. ~(k < l)
  BY <1>1, <1>2
<1>4. ~(l < k)
  BY <1>1, <1>2
<1> QED BY <1>3, <1>4

\* Erasing a pattern keeps every other entry, in its order.
LEMMA ErasedExact ==
    ASSUME ServletInv, NEW g
    PROVE  LET e == Erased(g) IN
           /\ e \in Seq((DOMAIN Globs) \X Servlets)
           /\ \E f \in [1 .. Len(e) -> 1 .. Len(m_globs)] :
                /\ \A k \in 1 .. Len(e) : e[k] = m_globs[f[k]] /\ e[k][1] # g
                /\ \A k, l \in 1 .. Len(e) : k < l => f[k] < f[l]
                /\ \A k \in 1 .. Len(m_globs) :
                      m_globs[k][1] # g => \E l \in 1 .. Len(e) : f[l] = k
<1> DEFINE e == Erased(g)
           n == Len(m_globs)
           I == {i \in 1 .. n : m_globs[i][1] = g}
           m == Min(I)
           Good(f) ==
                /\ \A k \in 1 .. Len(e) : e[k] = m_globs[f[k]] /\ e[k][1] # g
                /\ \A k, l \in 1 .. Len(e) : k < l => f[k] < f[l]
                /\ \A k \in 1 .. n : m_globs[k][1] # g => \E l \in 1 .. Len(e) : f[l] = k
<1>1. m_globs \in Seq((DOMAIN Globs) \X Servlets) /\ n \in Nat
  BY DEF ServletInv, ServletType
<1>2. e = IF \E i \in 1 .. n : m_globs[i][1] = g THEN RemoveAt(m_globs, IF I # {} THEN m ELSE 0)
          ELSE m_globs
  BY DEF Erased, RemoveFirstMatch, SelectInSeq
<1>3. CASE I = {}
  <2>1. e = m_globs
    BY <1>2, <1>3
  <2> DEFINE f == [k \in 1 .. n |-> k]
  <2>2. f \in [1 .. Len(e) -> 1 .. n]
    BY <2>1
  <2>3. Good(f)
    BY <1>1, <1>3, <2>1
  <2> HIDE DEF f, Good
  <2>4. e \in Seq((DOMAIN Globs) \X Servlets) /\ \E h \in [1 .. Len(e) -> 1 .. n] : Good(h)
    BY <1>1, <2>1, <2>2, <2>3
  <2> QED BY <2>4 DEF Good
<1>4. CASE I # {}
  <2>1. m \in I /\ m \in 1 .. n
    <3>1. I \subseteq 1 .. n
      OBVIOUS
    <3> HIDE DEF I
    <3>2. m \in I
      BY <1>1, <1>4, <3>1, FirstPlace
    <3> QED BY <3>1, <3>2
  <2>2. m_globs[m][1] = g
    BY <2>1
  <2>3. e = RemoveAt(m_globs, m)
    <3>1. \E i \in 1 .. n : m_globs[i][1] = g
      BY <1>4
    <3> QED BY <1>2, <1>4, <3>1
  <2> HIDE DEF m, I, e
  <2>4. /\ e \in Seq((DOMAIN Globs) \X Servlets) /\ Len(e) = n - 1
        /\ \A i \in 1 .. n - 1 : e[i] = IF i < m THEN m_globs[i] ELSE m_globs[i + 1]
    BY <1>1, <2>1, <2>3, RemoveAtExact
  <2> DEFINE f == [k \in 1 .. n - 1 |-> IF k < m THEN k ELSE k + 1]
  <2>5. f \in [1 .. Len(e) -> 1 .. n]
    BY <1>1, <2>1, <2>4
  <2>6. ASSUME NEW k \in 1 .. Len(e) PROVE e[k] = m_globs[f[k]] /\ e[k][1] # g
    <3>1. f[k] = (IF k < m THEN k ELSE k + 1) /\ f[k] \in 1 .. n /\ f[k] # m
      BY <1>1, <2>1, <2>4
    <3>2. e[k] = m_globs[f[k]]
      BY <2>4, <3>1
    <3>3. m_globs[f[k]][1] # g
      BY <2>1, <2>2, <3>1, PatternOnce
    <3> QED BY <3>2, <3>3
  <2>7. \A k, l \in 1 .. Len(e) : k < l => f[k] < f[l]
    BY <1>1, <2>1, <2>4
  <2>8. ASSUME NEW k \in 1 .. n, m_globs[k][1] # g PROVE \E l \in 1 .. Len(e) : f[l] = k
    <3>1. k # m
      BY <2>2, <2>8
    <3>2. CASE k < m
      <4>1. k \in 1 .. Len(e) /\ f[k] = k
        BY <1>1, <2>1, <2>4, <3>2
      <4> QED BY <4>1
    <3>3. CASE ~(k < m)
      <4>1. k - 1 \in 1 .. Len(e) /\ f[k - 1] = k
        BY <1>1, <2>1, <2>4, <3>1, <3>3
      <4> QED BY <4>1
    <3> QED BY <3>2, <3>3
  <2> HIDE DEF f
  <2>9. Good(f)
    BY <2>6, <2>7, <2>8
  <2> HIDE DEF Good
  <2>10. \E h \in [1 .. Len(e) -> 1 .. n] : Good(h)
    BY <2>5, <2>9
  <2> QED BY <2>4, <2>10 DEF Good, e
<1> QED BY <1>3, <1>4

\* A change of a pattern: its old entry goes, a new one comes last.
LEMMA GlobChange ==
    ASSUME ServletInv, NEW g \in DOMAIN Globs, NEW s \in Servlets \cup {NoServlet},
           past' = Append(past, [op |-> "glob", uri |-> g, slt |-> s]),
           m_globs' = IF s = NoServlet THEN Erased(g) ELSE Append(Erased(g), <<g, s>>),
           UNCHANGED <<m_datas, served>>
    PROVE  ServletInv'
<1> DEFINE c == [op |-> "glob", uri |-> g, slt |-> s]
           n == Len(past)
           L(p) == LastIn(past', "glob", p, Len(past'))
           e == Erased(g)
           t == m_globs'
<1>1. c \in Change /\ c.op = "glob" /\ c.uri = g /\ c.slt = s
  BY DEF Change
<1>2. /\ past' \in Seq(Change) /\ Len(past') = n + 1 /\ n \in Nat
      /\ past'[n + 1] = c /\ \A i \in 1 .. n : past'[i] = past[i]
      /\ \A op, v : Latest(op, v) \in 0 .. n
      /\ \A op, v : LastIn(past', op, v, Len(past')) =
            IF c.op = op /\ c.uri = v THEN n + 1 ELSE Latest(op, v)
      /\ \A h \in served' : h.uri \in Uris /\ h.at \in 0 .. Len(past')
                            /\ h.slt = Promised(past', h.uri, h.at)
  BY <1>1, AfterChange
<1>3. m_datas \in [Uris -> Servlets \cup {NoServlet}] /\ m_globs \in Seq((DOMAIN Globs) \X Servlets)
  BY DEF ServletInv, ServletType
<1>4. PICK f \in [1 .. Len(e) -> 1 .. Len(m_globs)] :
        /\ \A k \in 1 .. Len(e) : e[k] = m_globs[f[k]] /\ e[k][1] # g
        /\ \A k, l \in 1 .. Len(e) : k < l => f[k] < f[l]
        /\ \A k \in 1 .. Len(m_globs) :
              m_globs[k][1] # g => \E l \in 1 .. Len(e) : f[l] = k
  BY ErasedExact
<1>5. e \in Seq((DOMAIN Globs) \X Servlets) /\ Len(e) \in Nat
  BY ErasedExact
<1> HIDE DEF c, n, e
<1>6. /\ t \in Seq((DOMAIN Globs) \X Servlets)
      /\ \A k \in 1 .. Len(e) : k \in 1 .. Len(t) /\ t[k] = e[k]
      /\ s = NoServlet => Len(t) = Len(e)
      /\ s # NoServlet => Len(t) = Len(e) + 1 /\ t[Len(e) + 1] = <<g, s>>
  <2>1. CASE s = NoServlet
    BY <1>5, <2>1 DEF e
  <2>2. CASE s # NoServlet
    <3>1. <<g, s>> \in (DOMAIN Globs) \X Servlets
      BY <2>2
    <3>2. t = Append(e, <<g, s>>)
      BY <2>2 DEF e
    <3> DEFINE x == <<g, s>>
    <3> HIDE DEF x, t
    <3>3. /\ t \in Seq((DOMAIN Globs) \X Servlets) /\ Len(t) = Len(e) + 1 /\ t[Len(e) + 1] = x
          /\ \A k \in 1 .. Len(e) : t[k] = e[k]
      BY <1>5, <3>1, <3>2, AppendProperties DEF x
    <3> QED BY <1>5, <2>2, <3>3 DEF x
  <2> QED BY <2>1, <2>2
<1>7. ServletType'
  BY <1>2, <1>3, <1>6 DEF ServletType
<1>8. DatasCurrent'
  <2>1. \A u : LastIn(past', "add", u, Len(past')) = Latest("add", u)
    BY <1>1, <1>2
  <2>2. \A u : Latest("add", u) # 0 => past'[Latest("add", u)] = past[Latest("add", u)]
    BY <1>2
  <2>3. \A u \in Uris :
           m_datas[u] = IF Latest("add", u) = 0 THEN NoServlet ELSE past[Latest("add", u)].slt
    BY DEF ServletInv, DatasCurrent
  <2>4. \A u \in Uris :
           m_datas'[u] = IF LastIn(past', "add", u, Len(past')) = 0 THEN NoServlet
                         ELSE past'[LastIn(past', "add", u, Len(past'))].slt
    BY <2>1, <2>2, <2>3
  <2> QED BY <2>4 DEF DatasCurrent, Latest
<1>9. L(g) = n + 1 /\ past'[n + 1].slt = s /\ n + 1 # 0
  BY <1>1, <1>2
<1>10. \A p : p # g => L(p) = Latest("glob", p)
  BY <1>1, <1>2
<1>11. \A p : Latest("glob", p) \in 0 .. n
  BY <1>2
<1> HIDE DEF L, t
<1>12. ASSUME NEW k \in 1 .. Len(e)
       PROVE  /\ L(t[k][1]) = Latest("glob", m_globs[f[k]][1]) /\ L(t[k][1]) # 0
              /\ L(t[k][1]) <= n /\ past'[L(t[k][1])].slt = t[k][2]
  <2>1. t[k] = m_globs[f[k]] /\ t[k][1] # g /\ f[k] \in 1 .. Len(m_globs)
    BY <1>4, <1>6
  <2>2. L(t[k][1]) = Latest("glob", m_globs[f[k]][1])
    BY <1>10, <2>1
  <2>3. /\ Latest("glob", m_globs[f[k]][1]) # 0
        /\ past[Latest("glob", m_globs[f[k]][1])].slt = m_globs[f[k]][2]
    BY <2>1 DEF ServletInv, GlobsCurrent
  <2>4. Latest("glob", m_globs[f[k]][1]) \in 0 .. n
    BY <1>11
  <2> QED BY <1>2, <2>1, <2>2, <2>3, <2>4
<1>13. ASSUME NEW k \in 1 .. Len(t)
       PROVE  L(t[k][1]) # 0 /\ past'[L(t[k][1])].slt = t[k][2]
  <2>1. CASE k \in 1 .. Len(e)
    BY <1>12, <2>1
  <2>2. CASE k \notin 1 .. Len(e)
    <3>1. s # NoServlet /\ k = Len(e) + 1
      BY <1>5, <1>6, <2>2
    <3>2. t[k][1] = g /\ t[k][2] = s
      BY <1>6, <3>1
    <3> QED BY <1>2, <1>9, <3>2
  <2> QED BY <2>1, <2>2
<1>14. ASSUME NEW k \in 1 .. Len(t), NEW l \in 1 .. Len(t), k < l
       PROVE  L(t[k][1]) < L(t[l][1])
  <2>1. k \in 1 .. Len(e)
    BY <1>5, <1>6, <1>14
  <2>2. CASE l \in 1 .. Len(e)
    <3>1. f[k] < f[l] /\ f[k] \in 1 .. Len(m_globs) /\ f[l] \in 1 .. Len(m_globs)
      BY <1>4, <1>14, <2>1, <2>2
    <3>2. Latest("glob", m_globs[f[k]][1]) < Latest("glob", m_globs[f[l]][1])
      BY <3>1 DEF ServletInv, GlobsCurrent
    <3> QED BY <1>12, <2>1, <2>2, <3>2
  <2>3. CASE l \notin 1 .. Len(e)
    <3>1. s # NoServlet /\ l = Len(e) + 1
      BY <1>5, <1>6, <2>3
    <3>2. L(t[l][1]) = n + 1
      BY <1>6, <1>9, <3>1
    <3>3. L(t[k][1]) \in 0 .. n
      BY <1>11, <1>12, <2>1
    <3> QED BY <1>2, <3>2, <3>3
  <2> QED BY <2>2, <2>3
<1>15. ASSUME NEW p \in DOMAIN Globs, LiveIn(past', L(p))
       PROVE  \E k \in 1 .. Len(t) : t[k][1] = p
  <2>1. CASE p = g
    <3>1. s # NoServlet
      BY <1>9, <1>15, <2>1 DEF LiveIn
    <3>2. Len(e) + 1 \in 1 .. Len(t) /\ t[Len(e) + 1][1] = g
      BY <1>5, <1>6, <3>1
    <3> QED BY <2>1, <3>2
  <2>2. CASE p # g
    <3>1. L(p) = Latest("glob", p) /\ Latest("glob", p) \in 0 .. n
      BY <1>10, <1>11, <2>2
    <3>2. LiveIn(past, Latest("glob", p))
      BY <1>2, <1>15, <3>1 DEF LiveIn
    <3>3. PICK k \in 1 .. Len(m_globs) : m_globs[k][1] = p
      BY <3>2 DEF ServletInv, GlobsCurrent
    <3>4. PICK l \in 1 .. Len(e) : f[l] = k
      BY <1>4, <2>2, <3>3
    <3>5. l \in 1 .. Len(t) /\ t[l][1] = p
      BY <1>4, <1>6, <3>3, <3>4
    <3> QED BY <3>5
  <2> QED BY <2>1, <2>2
<1>16. GlobsCurrent'
  BY <1>13, <1>14, <1>15, Zenon DEF GlobsCurrent, Latest, L, t
<1> QED BY <1>2, <1>7, <1>8, <1>16 DEF ServletInv

\* A lookup finds what the changes promise: the first matching entry is the one
\* whose change came first.
LEMMA LookupPromised ==
    ASSUME ServletInv, NEW u \in Uris
    PROVE  getMatchedServlet(u) = Promised(past, u, Len(past))
<1> DEFINE n == Len(past)
           exact == LastIn(past, "add", u, n)
           live == LiveMatches(past, u, n)
           I == {k \in 1 .. Len(m_globs) : u \in Globs[m_globs[k][1]]}
           m == Min(I)
<1>1. n \in Nat /\ m_globs \in Seq((DOMAIN Globs) \X Servlets) /\ Len(m_globs) \in Nat
  BY DEF ServletInv, ServletType
<1>2. m_datas[u] = IF exact = 0 THEN NoServlet ELSE past[exact].slt
  BY DEF ServletInv, DatasCurrent, Latest
<1>3. getMatchedServlet(u) =
        IF m_datas[u] # NoServlet THEN m_datas[u]
        ELSE IF (IF I # {} THEN m ELSE 0) # 0 THEN m_globs[IF I # {} THEN m ELSE 0][2]
        ELSE NoServlet
  BY DEF getMatchedServlet, SelectInSeq
<1>4. Promised(past, u, n) = IF LiveIn(past, exact) THEN past[exact].slt
                             ELSE IF live = {} THEN NoServlet ELSE past[Earliest(live)].slt
  BY DEF Promised
<1>5. LiveIn(past, exact) <=> m_datas[u] # NoServlet
  BY <1>2 DEF LiveIn
<1>6. ASSUME NEW i \in live
      PROVE  \E k \in I : i = Latest("glob", m_globs[k][1])
  <2>1. PICK g \in DOMAIN Globs : u \in Globs[g] /\ i = LastIn(past, "glob", g, n)
    BY DEF LiveMatches
  <2>2. LiveIn(past, Latest("glob", g))
    BY <2>1 DEF LiveMatches, Latest
  <2>3. PICK k \in 1 .. Len(m_globs) : m_globs[k][1] = g
    BY <2>2 DEF ServletInv, GlobsCurrent
  <2> QED BY <2>1, <2>3 DEF Latest
<1>7. CASE I = {}
  <2>1. live = {}
    BY <1>6, <1>7
  <2> HIDE DEF exact, live, I, m, n
  <2> QED BY <1>2, <1>3, <1>4, <1>5, <1>7, <2>1 DEF n
<1>8. CASE I # {}
  <2>1. m \in I /\ \A k \in I : m <= k
    <3>1. I \subseteq 1 .. Len(m_globs)
      OBVIOUS
    <3> HIDE DEF I
    <3> QED BY <1>1, <1>8, <3>1, FirstPlace
  <2>2. m \in 1 .. Len(m_globs) /\ u \in Globs[m_globs[m][1]] /\ m # 0
    <3> HIDE DEF m
    <3> QED BY <1>1, <2>1
  <2> DEFINE i0 == Latest("glob", m_globs[m][1])
  <2> HIDE DEF m
  <2>3. m_globs[m][1] \in DOMAIN Globs /\ m_globs[m][2] \in Servlets
    BY <1>1, <2>2
  <2>4. i0 # 0 /\ past[i0].slt = m_globs[m][2]
    BY <2>2 DEF ServletInv, GlobsCurrent
  <2>5. i0 \in live
    BY <2>2, <2>3, <2>4, ServletAssumption DEF LiveMatches, LiveIn, Latest
  <2>6. ASSUME NEW j \in live PROVE i0 <= j
    <3>1. PICK k \in I : j = Latest("glob", m_globs[k][1])
      BY <1>6
    <3>2. m <= k /\ k \in 1 .. Len(m_globs)
      BY <2>1
    <3>3. CASE m = k
      <4>1. j \in Nat
        BY <1>1, LiveMatchesIndices
      <4> QED BY <3>1, <3>3, <4>1
    <3>4. CASE m < k
      <4>1. i0 < j
        BY <2>2, <3>1, <3>2, <3>4 DEF ServletInv, GlobsCurrent
      <4>2. i0 \in Int /\ j \in Int
        BY <1>1, <2>5, LiveMatchesIndices
      <4> QED BY <4>1, <4>2
    <3> QED BY <1>1, <2>2, <3>2, <3>3, <3>4
  <2> HIDE DEF i0, live, exact, I, n
  <2>7. live \subseteq Int
    BY <1>1, LiveMatchesIndices DEF live
  <2>8. Earliest(live) = i0
    <3>1. \E i \in live : \A j \in live : i <= j
      BY <2>5, <2>6
    <3>2. Earliest(live) \in live /\ \A j \in live : Earliest(live) <= j
      BY <3>1 DEF Earliest
    <3>3. Earliest(live) <= i0 /\ i0 <= Earliest(live)
      BY <2>5, <2>6, <3>2
    <3>4. Earliest(live) \in Int /\ i0 \in Int
      BY <2>5, <2>7, <3>2
    <3> QED BY <3>3, <3>4
  <2> QED BY <1>2, <1>3, <1>4, <1>5, <1>8, <2>2, <2>4, <2>5, <2>8 DEF n
<1> QED BY <1>7, <1>8

\* Every step keeps the invariant.
LEMMA ServletInvNext == ServletInv /\ [ServletNext]_servletVars => ServletInv'
<1> SUFFICES ASSUME ServletInv, [ServletNext]_servletVars PROVE ServletInv'
  OBVIOUS
<1>1. ASSUME NEW u \in Uris, NEW s \in Servlets, addServlet(u, s) PROVE ServletInv'
  <2>1. /\ past' = Append(past, [op |-> "add", uri |-> u, slt |-> s])
        /\ m_datas' = [m_datas EXCEPT ![u] = s] /\ UNCHANGED <<m_globs, served>>
    BY <1>1 DEF addServlet, Changes
  <2> QED BY <2>1, UriChange
<1>2. ASSUME NEW u \in Uris, delServlet(u) PROVE ServletInv'
  <2>1. /\ past' = Append(past, [op |-> "add", uri |-> u, slt |-> NoServlet])
        /\ m_datas' = [m_datas EXCEPT ![u] = NoServlet] /\ UNCHANGED <<m_globs, served>>
    BY <1>2 DEF delServlet, Changes
  <2> QED BY <2>1, UriChange
<1>3. ASSUME NEW g \in DOMAIN Globs, NEW s \in Servlets, addGlobServlet(g, s) PROVE ServletInv'
  <2>1. /\ past' = Append(past, [op |-> "glob", uri |-> g, slt |-> s])
        /\ m_globs' = Append(Erased(g), <<g, s>>) /\ UNCHANGED <<m_datas, served>>
    BY <1>3 DEF addGlobServlet, Changes
  <2>2. s # NoServlet
    BY ServletAssumption
  <2> QED BY <2>1, <2>2, GlobChange
<1>4. ASSUME NEW g \in DOMAIN Globs, delGlobServlet(g) PROVE ServletInv'
  <2>1. /\ past' = Append(past, [op |-> "glob", uri |-> g, slt |-> NoServlet])
        /\ m_globs' = Erased(g) /\ UNCHANGED <<m_datas, served>>
    BY <1>4 DEF delGlobServlet, Changes
  <2> QED BY <2>1, GlobChange
<1>5. ASSUME NEW u \in Uris, Dispatch(u) PROVE ServletInv'
  <2> DEFINE h == [uri |-> u, slt |-> getMatchedServlet(u), at |-> Len(past)]
  <2>1. served' = {h} /\ UNCHANGED <<m_datas, m_globs, past>>
    BY <1>5 DEF Dispatch
  <2>2. h.uri = u /\ h.at = Len(past) /\ h.slt = Promised(past, u, Len(past))
    BY LookupPromised
  <2>3. Len(past) \in Nat
    BY DEF ServletInv, ServletType
  <2> HIDE DEF h
  <2>4. \A x \in served' : x.uri \in Uris /\ x.at \in 0 .. Len(past')
                           /\ x.slt = Promised(past', x.uri, x.at)
    BY <2>1, <2>2, <2>3
  <2>5. DatasCurrent' /\ GlobsCurrent'
    BY <2>1 DEF ServletInv, DatasCurrent, GlobsCurrent, Latest
  <2> QED BY <2>1, <2>4, <2>5 DEF ServletInv, ServletType
<1>6. CASE UNCHANGED servletVars
  BY <1>6 DEF servletVars, ServletInv, ServletType, DatasCurrent, GlobsCurrent, Latest
<1> QED BY <1>1, <1>2, <1>3, <1>4, <1>5, <1>6 DEF ServletNext

\* For any number of uris, patterns, servlets and changes: a request gets what the
\* changes before it promise, the exact uri first, then the matching pattern whose
\* servlet was added first (servlet.cc 40-137).
THEOREM DispatchCorrect ==
    ServletInit /\ [][ServletNext]_servletVars => []DispatchFollowsHistory
<1>1. ServletInv => DispatchFollowsHistory
  <2> SUFFICES ASSUME ServletInv, NEW h \in served
               PROVE  LET exact == LastChange("add", h.uri, h.at)
                          live == {i \in {LastChange("glob", g, h.at) :
                                             g \in {p \in DOMAIN Globs : h.uri \in Globs[p]}} :
                                      Live(i)}
                      IN h.slt = IF Live(exact) THEN past[exact].slt
                                 ELSE IF live = {} THEN NoServlet
                                 ELSE past[CHOOSE i \in live : \A j \in live : i <= j].slt
    BY DEF DispatchFollowsHistory
  <2>1. h.slt = Promised(past, h.uri, h.at)
    BY DEF ServletInv
  <2> QED BY <2>1, Zenon DEF Promised, LiveMatches, LiveIn, Live, LastIn, LastChange, Earliest
<1> QED BY ServletInvInit, ServletInvNext, <1>1, PTL

-----------------------------------------------------------------------------
(* HttpSession: requests reach their servlets whole and in order            *)

KindSet == {"method", "path", "version", "length", "connection", "end", "body"}

CellSet == [r : Nat, i : Nat, kind : KindSet]

\* The cells of the header of q.
HeaderSize(q) == 7 + (IF q.body > 0 THEN 2 ELSE 0) + (IF q.keep THEN 2 ELSE 0)

Size(q) == HeaderSize(q) + q.body

\* The i-th cell of the r-th of the requests s.
CellOf(s, r, i) == [r |-> r, i |-> i, kind |-> Kinds(s[r])[i]]

\* The cells w end the stream of the requests s: each is followed by the next one
\* of its request or by the first one of the next request.
Stream(s, w) ==
    /\ w \in Seq(CellSet)
    /\ \A k \in 1 .. Len(w) :
          /\ w[k].r \in 1 .. Len(s) /\ w[k].i \in 1 .. Size(s[w[k].r])
          /\ w[k] = CellOf(s, w[k].r, w[k].i)
          /\ w[k].i < Size(s[w[k].r]) =>
                k < Len(w) /\ w[k + 1].r = w[k].r /\ w[k + 1].i = w[k].i + 1
          /\ w[k].i = Size(s[w[k].r]) =>
                \/ k = Len(w) /\ w[k].r = Len(s)
                \/ k < Len(w) /\ w[k + 1].r = w[k].r + 1 /\ w[k + 1].i = 1

RequestOf == parsed[1].r

HandledSet ==
    [req : [r : Nat, path : {q.path : q \in Requests} \cup {"rest of the path"},
            keep : BOOLEAN, cut : SUBSET KindSet],
     body : Seq(CellSet), failed : BOOLEAN]

\* The types of the session.
SessionType ==
    /\ sent \in Seq(Requests) /\ Stream(sent, net)
    /\ phase \in {"reading", "body", "handling", "writing", "closed", "spinning", "corrupt"}
    /\ parsed \in Seq(CellSet) /\ cut \in SUBSET KindSet /\ body \in Seq(CellSet) /\ length \in Nat
    /\ handled \in Seq(HandledSet) /\ answered \in Nat
    /\ dropped \in BOOLEAN /\ pipelined \in BOOLEAN /\ failed \in BOOLEAN

\* The parser has the first cells of one request, and what is left of its header is
\* the next to be read.
HeaderRead ==
    phase # "closed" =>
        /\ phase # "reading" => parsed # <<>>
        /\ parsed # <<>> =>
            /\ RequestOf \in 1 .. Len(sent)
            /\ Len(parsed) <= HeaderSize(sent[RequestOf])
            /\ \A k \in 1 .. Len(parsed) : parsed[k] = CellOf(sent, RequestOf, k)
            /\ phase = "reading" =>
                /\ Len(parsed) < HeaderSize(sent[RequestOf])
                /\ net # <<>> /\ net[1].r = RequestOf /\ net[1].i = Len(parsed) + 1
            /\ phase # "reading" =>
                /\ Len(parsed) = HeaderSize(sent[RequestOf])
                /\ length = IF "length" \in cut THEN 0 ELSE sent[RequestOf].body

\* The body has the cells behind the header, unless a read of it timed out.
BodyRead ==
    phase \in {"body", "handling"} /\ ~failed =>
        /\ Len(body) <= length
        /\ \A k \in 1 .. Len(body) :
              body[k] = CellOf(sent, RequestOf, HeaderSize(sent[RequestOf]) + k)
        /\ phase = "handling" => Len(body) = length
        /\ phase = "body" =>
            /\ Len(body) < length
            /\ net # <<>> /\ net[1].r = RequestOf
            /\ net[1].i = HeaderSize(sent[RequestOf]) + Len(body) + 1

\* What the servlets got.
HandledFaithful ==
    \A k \in 1 .. Len(handled) :
        /\ handled[k].req.r \in 1 .. Len(sent)
        /\ handled[k].req.cut # {} \/ handled[k].failed \/ Sent(handled[k])

LengthCut == "length" \in (UNION {handled[k].req.cut : k \in 1 .. Len(handled)}) \cup cut

\* With a client that awaits each answer, the session is at request answered + 1, or
\* about to start it; nothing of it is unread in front of its first cell.
InStep ==
    ~pipelined =>
        /\ answered <= Len(sent) /\ Len(sent) <= answered + 1
        /\ \A k \in 1 .. Len(handled) : handled[k].req.r = k
        /\ phase \in {"writing", "spinning"} => Len(handled) = answered + 1
        /\ phase \in {"reading", "body", "handling", "corrupt"} => Len(handled) = answered
        /\ phase = "writing" => handled[Len(handled)].req.cut = cut
        /\ phase # "closed" /\ parsed # <<>> => RequestOf = answered + 1
        /\ phase # "closed" /\ net # <<>> =>
              LET at == IF parsed = <<>> THEN answered ELSE answered + 1
              IN net[1].r > at \/ (net[1].r = at /\ net[1].i > 1)
        /\ dropped => LengthCut

SessionInv == SessionType /\ HeaderRead /\ BodyRead /\ HandledFaithful /\ InStep

\* What a sequence put together of two has.
LEMMA JoinExact ==
    ASSUME NEW T, NEW a \in Seq(T), NEW b \in Seq(T)
    PROVE  /\ a \o b \in Seq(T) /\ Len(a \o b) = Len(a) + Len(b)
           /\ \A i \in 1 .. Len(a) : (a \o b)[i] = a[i]
           /\ \A i \in 1 .. Len(b) : (a \o b)[Len(a) + i] = b[i]
OBVIOUS

\* A sub-sequence, by its elements.
LEMMA PartExact ==
    ASSUME NEW T, NEW a \in Seq(T), NEW m \in 1 .. Len(a) + 1,
           NEW n \in Nat, n <= Len(a), m <= n + 1
    PROVE  /\ SubSeq(a, m, n) \in Seq(T) /\ Len(SubSeq(a, m, n)) = n - m + 1
           /\ \A i \in 1 .. n - m + 1 : SubSeq(a, m, n)[i] = a[m + i - 1]
OBVIOUS

\* The header of a request and the kinds of its cells: "end" closes it, and a length
\* or connection field is there exactly when the request has one.
LEMMA KindsExact ==
    ASSUME NEW q \in Requests
    PROVE  /\ HeaderSize(q) \in Nat /\ HeaderSize(q) >= 7 /\ q.body \in Nat
           /\ Size(q) = HeaderSize(q) + q.body /\ q.keep \in BOOLEAN
           /\ Kinds(q) \in Seq(KindSet) /\ Len(Kinds(q)) = Size(q)
           /\ Kinds(q)[HeaderSize(q)] = "end"
           /\ \A i \in 1 .. HeaderSize(q) - 1 : Kinds(q)[i] # "end"
           /\ (\E i \in 1 .. HeaderSize(q) : Kinds(q)[i] = "length") <=> q.body > 0
           /\ (\E i \in 1 .. HeaderSize(q) : Kinds(q)[i] = "connection") <=> q.keep
<1> DEFINE L == IF q.body > 0 THEN Pair("length") ELSE <<>>
           C == IF q.keep THEN Pair("connection") ELSE <<>>
           B == [i \in 1 .. q.body |-> "body"]
           h1 == Pair("method") \o Pair("path") \o Pair("version")
           h2 == h1 \o L
           h3 == h2 \o C
           e == <<"end">>
           h4 == h3 \o e
<1>1. q.body \in Nat /\ q.keep \in BOOLEAN
  BY HttpSessionAssumption
<1>2. Kinds(q) = h4 \o B
  BY DEF Kinds
<1>3. /\ h1 \in Seq(KindSet) /\ Len(h1) = 6
      /\ \A i \in 1 .. 6 : h1[i] \in {"method", "path", "version"}
  BY DEF Pair, KindSet
<1>4. /\ L \in Seq(KindSet) /\ Len(L) = (IF q.body > 0 THEN 2 ELSE 0)
      /\ \A i \in 1 .. Len(L) : L[i] = "length"
  <2>1. CASE q.body > 0
    <3>1. L = Pair("length")
      BY <2>1
    <3> HIDE DEF L
    <3> QED BY <3>1, <2>1 DEF Pair, KindSet
  <2>2. CASE ~(q.body > 0)
    <3>1. L = <<>>
      BY <2>2
    <3> HIDE DEF L
    <3> QED BY <3>1, <2>2
  <2> QED BY <2>1, <2>2
<1>5. /\ C \in Seq(KindSet) /\ Len(C) = (IF q.keep THEN 2 ELSE 0)
      /\ \A i \in 1 .. Len(C) : C[i] = "connection"
  <2>1. CASE q.keep
    <3>1. C = Pair("connection")
      BY <2>1
    <3> HIDE DEF C
    <3> QED BY <3>1, <2>1 DEF Pair, KindSet
  <2>2. CASE ~q.keep
    <3>1. C = <<>>
      BY <2>2
    <3> HIDE DEF C
    <3> QED BY <3>1, <2>2
  <2> QED BY <2>1, <2>2
<1>6. B \in Seq(KindSet) /\ Len(B) = q.body /\ \A i \in 1 .. q.body : B[i] = "body"
  BY <1>1 DEF KindSet
<1>7. e \in Seq(KindSet) /\ Len(e) = 1 /\ e[1] = "end"
  BY DEF KindSet
<1> HIDE DEF L, C, B, e, h1
<1>8. /\ h2 \in Seq(KindSet) /\ Len(h2) = 6 + Len(L)
      /\ \A i \in 1 .. 6 : h2[i] \in {"method", "path", "version"}
      /\ \A i \in 7 .. 6 + Len(L) : h2[i] = "length"
  <2>0. /\ h2 \in Seq(KindSet) /\ Len(h2) = Len(h1) + Len(L)
        /\ \A i \in 1 .. Len(h1) : h2[i] = h1[i]
        /\ \A i \in 1 .. Len(L) : h2[Len(h1) + i] = L[i]
    <3>1. h1 \in Seq(KindSet) /\ L \in Seq(KindSet)
      BY <1>3, <1>4
    <3> QED BY <3>1, JoinExact
  <2>1. /\ h2 \in Seq(KindSet) /\ Len(h2) = 6 + Len(L)
        /\ \A i \in 1 .. 6 : h2[i] = h1[i]
        /\ \A i \in 1 .. Len(L) : h2[6 + i] = L[i]
    BY <2>0, <1>3
  <2>2. ASSUME NEW i \in 7 .. 6 + Len(L) PROVE h2[i] = "length"
    <3>1. i - 6 \in 1 .. Len(L) /\ 6 + (i - 6) = i
      BY <1>4
    <3> QED BY <3>1, <2>1, <1>4
  <2> QED BY <2>1, <2>2, <1>3
<1> HIDE DEF h2
<1>9. /\ h3 \in Seq(KindSet) /\ Len(h3) = 6 + Len(L) + Len(C)
      /\ \A i \in 1 .. 6 : h3[i] \in {"method", "path", "version"}
      /\ \A i \in 7 .. 6 + Len(L) : h3[i] = "length"
      /\ \A i \in 7 + Len(L) .. 6 + Len(L) + Len(C) : h3[i] = "connection"
  <2>1. /\ h3 \in Seq(KindSet) /\ Len(h3) = 6 + Len(L) + Len(C)
        /\ \A i \in 1 .. Len(h2) : h3[i] = h2[i]
        /\ \A i \in 1 .. Len(C) : h3[Len(h2) + i] = C[i]
    <3>1. h2 \in Seq(KindSet) /\ C \in Seq(KindSet)
      BY <1>5, <1>8
    <3>2. /\ h3 \in Seq(KindSet) /\ Len(h3) = Len(h2) + Len(C)
          /\ \A i \in 1 .. Len(h2) : h3[i] = h2[i]
          /\ \A i \in 1 .. Len(C) : h3[Len(h2) + i] = C[i]
      BY <3>1, JoinExact
    <3> QED BY <3>2, <1>8
  <2>2. ASSUME NEW i \in 7 + Len(L) .. 6 + Len(L) + Len(C) PROVE h3[i] = "connection"
    <3>1. i - Len(h2) \in 1 .. Len(C) /\ Len(h2) + (i - Len(h2)) = i
      BY <1>4, <1>5, <1>8
    <3> QED BY <3>1, <2>1, <1>5
  <2>3. Len(L) \in Nat
    BY <1>4
  <2> QED BY <2>1, <2>2, <2>3, <1>8
<1> HIDE DEF h3
<1>10. HeaderSize(q) = 7 + Len(L) + Len(C) /\ Len(L) \in Nat /\ Len(C) \in Nat
  BY <1>4, <1>5 DEF HeaderSize
<1>11. /\ h4 \in Seq(KindSet) /\ Len(h4) = HeaderSize(q)
       /\ \A i \in 1 .. HeaderSize(q) - 1 : h4[i] = h3[i]
       /\ h4[HeaderSize(q)] = "end"
  <2>1. /\ h4 \in Seq(KindSet) /\ Len(h4) = Len(h3) + 1
        /\ \A i \in 1 .. Len(h3) : h4[i] = h3[i]
        /\ \A i \in 1 .. 1 : h4[Len(h3) + i] = e[i]
    <3>1. /\ h4 \in Seq(KindSet) /\ Len(h4) = Len(h3) + Len(e)
          /\ \A i \in 1 .. Len(h3) : h4[i] = h3[i]
          /\ \A i \in 1 .. Len(e) : h4[Len(h3) + i] = e[i]
      <4>1. h3 \in Seq(KindSet) /\ e \in Seq(KindSet)
        BY <1>9, <1>7
      <4> QED BY <4>1, JoinExact
    <3> QED BY <3>1, <1>7
  <2>2. h4[Len(h3) + 1] = "end"
    BY <2>1, <1>7
  <2>3. Len(h3) = HeaderSize(q) - 1 /\ Len(h3) + 1 = HeaderSize(q)
    BY <1>9, <1>10
  <2> QED BY <2>1, <2>2, <2>3
<1> HIDE DEF h4
<1>12. /\ Kinds(q) \in Seq(KindSet) /\ Len(Kinds(q)) = HeaderSize(q) + q.body
       /\ \A i \in 1 .. HeaderSize(q) : Kinds(q)[i] = h4[i]
  <2>1. /\ h4 \o B \in Seq(KindSet) /\ Len(h4 \o B) = Len(h4) + Len(B)
        /\ \A i \in 1 .. Len(h4) : (h4 \o B)[i] = h4[i]
    <3>1. h4 \in Seq(KindSet) /\ B \in Seq(KindSet)
      BY <1>6, <1>11
    <3> QED BY <3>1, JoinExact
  <2> QED BY <2>1, <1>2, <1>6, <1>11
<1>13. HeaderSize(q) \in Nat /\ HeaderSize(q) >= 7
  BY <1>10
<1>14. Kinds(q)[HeaderSize(q)] = "end"
  BY <1>11, <1>12, <1>13
<1>15. \A i \in 1 .. HeaderSize(q) - 1 : Kinds(q)[i] = h3[i]
  BY <1>11, <1>12, <1>13
<1>16. ASSUME NEW i \in 1 .. HeaderSize(q) - 1
       PROVE  /\ i \in 1 .. 6 \/ i \in 7 .. 6 + Len(L) \/ i \in 7 + Len(L) .. 6 + Len(L) + Len(C)
              /\ Kinds(q)[i] # "end"
              /\ Kinds(q)[i] = "length" => Len(L) # 0
              /\ Kinds(q)[i] = "connection" => Len(C) # 0
  <2>1. i \in 1 .. 6 \/ i \in 7 .. 6 + Len(L) \/ i \in 7 + Len(L) .. 6 + Len(L) + Len(C)
    BY <1>10
  <2>2. Kinds(q)[i] = h3[i]
    BY <1>15
  <2>3. CASE i \in 1 .. 6
    BY <2>1, <2>2, <2>3, <1>9
  <2>4. CASE i \in 7 .. 6 + Len(L)
    BY <2>1, <2>2, <2>4, <1>9, <1>10
  <2>5. CASE i \in 7 + Len(L) .. 6 + Len(L) + Len(C)
    BY <2>1, <2>2, <2>5, <1>9, <1>10
  <2> QED BY <2>1, <2>3, <2>4, <2>5
<1>17. (\E i \in 1 .. HeaderSize(q) : Kinds(q)[i] = "length") <=> q.body > 0
  <2>1. ASSUME NEW i \in 1 .. HeaderSize(q), Kinds(q)[i] = "length" PROVE q.body > 0
    <3>1. i \in 1 .. HeaderSize(q) - 1
      BY <2>1, <1>13, <1>14
    <3> QED BY <3>1, <2>1, <1>16, <1>4
  <2>2. ASSUME q.body > 0 PROVE \E i \in 1 .. HeaderSize(q) : Kinds(q)[i] = "length"
    <3>1. 7 \in 7 .. 6 + Len(L) /\ 7 \in 1 .. HeaderSize(q) - 1
      BY <2>2, <1>4, <1>10
    <3>2. Kinds(q)[7] = "length"
      BY <3>1, <1>9, <1>15
    <3> QED BY <3>1, <3>2, <1>13
  <2> QED BY <2>1, <2>2
<1>18. (\E i \in 1 .. HeaderSize(q) : Kinds(q)[i] = "connection") <=> q.keep
  <2>1. ASSUME NEW i \in 1 .. HeaderSize(q), Kinds(q)[i] = "connection" PROVE q.keep
    <3>1. i \in 1 .. HeaderSize(q) - 1
      BY <2>1, <1>13, <1>14
    <3> QED BY <3>1, <2>1, <1>16, <1>5
  <2>2. ASSUME q.keep PROVE \E i \in 1 .. HeaderSize(q) : Kinds(q)[i] = "connection"
    <3>1. /\ 7 + Len(L) \in 7 + Len(L) .. 6 + Len(L) + Len(C)
          /\ 7 + Len(L) \in 1 .. HeaderSize(q) - 1
      BY <2>2, <1>5, <1>10
    <3>2. Kinds(q)[7 + Len(L)] = "connection"
      BY <3>1, <1>9, <1>15
    <3> QED BY <3>1, <3>2, <1>13
  <2> QED BY <2>1, <2>2
<1> QED BY <1>1, <1>12, <1>13, <1>14, <1>16, <1>17, <1>18 DEF Size

\* A cell of a stream names a request that was sent and is a cell of it.
LEMMA StreamCell ==
    ASSUME NEW s \in Seq(Requests), NEW w, Stream(s, w), NEW k \in 1 .. Len(w)
    PROVE  /\ w \in Seq(CellSet) /\ w[k] \in CellSet
           /\ w[k].r \in 1 .. Len(s) /\ s[w[k].r] \in Requests
           /\ w[k].i \in 1 .. Size(s[w[k].r]) /\ Size(s[w[k].r]) \in Nat
           /\ w[k] = CellOf(s, w[k].r, w[k].i)
           /\ w[k].r \in Nat /\ w[k].i \in Nat /\ w[k].i >= 1
<1>1. w \in Seq(CellSet) /\ w[k].r \in 1 .. Len(s) /\ w[k].i \in 1 .. Size(s[w[k].r])
      /\ w[k] = CellOf(s, w[k].r, w[k].i)
  BY DEF Stream
<1>2. s[w[k].r] \in Requests
  BY <1>1
<1>3. Size(s[w[k].r]) \in Nat
  <2>1. /\ HeaderSize(s[w[k].r]) \in Nat /\ s[w[k].r].body \in Nat
        /\ Size(s[w[k].r]) = HeaderSize(s[w[k].r]) + s[w[k].r].body
    BY <1>2, KindsExact
  <2> QED BY <2>1
<1>4. w[k].r \in Nat /\ w[k].i \in Nat /\ w[k].i >= 1
  BY <1>1, <1>3
<1> QED BY <1>1, <1>2, <1>3, <1>4

\* The next cell of a stream.
LEMMA StreamNext ==
    ASSUME NEW s \in Seq(Requests), NEW w, Stream(s, w), NEW k \in 1 .. Len(w)
    PROVE  /\ w[k].i < Size(s[w[k].r]) =>
                k < Len(w) /\ w[k + 1].r = w[k].r /\ w[k + 1].i = w[k].i + 1
           /\ w[k].i = Size(s[w[k].r]) =>
                \/ k = Len(w) /\ w[k].r = Len(s)
                \/ k < Len(w) /\ w[k + 1].r = w[k].r + 1 /\ w[k + 1].i = 1
BY DEF Stream

\* The cells of a stream are in order: they belong to later requests, or they are
\* the next ones of the first cell's request.
LEMMA StreamOrder ==
    ASSUME NEW s \in Seq(Requests), NEW w, Stream(s, w), NEW k \in 1 .. Len(w)
    PROVE  w[k].r > w[1].r \/ (w[k].r = w[1].r /\ w[k].i = w[1].i + k - 1)
<1> DEFINE OK(j) == w[j].r > w[1].r \/ (w[j].r = w[1].r /\ w[j].i = w[1].i + j - 1)
           Bad == {j \in 1 .. Len(w) : ~OK(j)}
<1>0. w \in Seq(CellSet) /\ Len(w) \in Nat /\ 1 \in 1 .. Len(w)
  BY DEF Stream
<1>1. SUFFICES ASSUME Bad # {} PROVE FALSE
  BY <1>1
<1>2. PICK m \in Bad : \A y \in Bad : m <= y
  <2>1. Bad \subseteq Nat
    BY <1>0
  <2> QED BY <2>1, <1>1, LeastNatural
<1>3. m \in 1 .. Len(w) /\ ~OK(m)
  BY <1>2
<1>4. w[1].r \in Nat /\ w[1].i \in Nat
  BY <1>0, StreamCell
<1>5. m # 1
  BY <1>3, <1>4
<1>6. m - 1 \in 1 .. Len(w) /\ (m - 1) + 1 = m
  BY <1>0, <1>3, <1>5
<1>7. OK(m - 1)
  <2>1. ~(m <= m - 1)
    BY <1>3
  <2> QED BY <2>1, <1>2, <1>6
<1>8. /\ w[m - 1].r \in Nat /\ w[m - 1].i \in 1 .. Size(s[w[m - 1].r])
      /\ Size(s[w[m - 1].r]) \in Nat
  BY <1>6, StreamCell
<1>9. \/ w[m].r = w[m - 1].r /\ w[m].i = w[m - 1].i + 1
      \/ w[m].r = w[m - 1].r + 1
  <2>1. CASE w[m - 1].i < Size(s[w[m - 1].r])
    <3>1. w[(m - 1) + 1].r = w[m - 1].r /\ w[(m - 1) + 1].i = w[m - 1].i + 1
      BY <2>1, <1>6, StreamNext
    <3> QED BY <3>1, <1>6
  <2>2. CASE w[m - 1].i = Size(s[w[m - 1].r])
    <3>1. m - 1 # Len(w)
      BY <1>0, <1>3
    <3> QED BY <2>2, <3>1, <1>6, StreamNext
  <2> QED BY <2>1, <2>2, <1>8
<1>10. OK(m)
  <2>0. w[m - 1].i \in Nat /\ m \in Int
    BY <1>3, <1>8
  <2>1. CASE w[m - 1].r > w[1].r
    BY <2>1, <1>4, <1>8, <1>9
  <2>2. CASE w[m - 1].r = w[1].r /\ w[m - 1].i = w[1].i + (m - 1) - 1
    <3>1. CASE w[m].r = w[m - 1].r /\ w[m].i = w[m - 1].i + 1
      <4>1. (w[1].i + (m - 1) - 1) + 1 = w[1].i + m - 1
        BY <2>0, <1>4
      <4> QED BY <4>1, <3>1, <2>2
    <3>2. CASE w[m].r = w[m - 1].r + 1
      BY <3>2, <2>2, <1>4
    <3> QED BY <3>1, <3>2, <1>9
  <2> QED BY <2>1, <2>2, <1>7
<1> QED BY <1>3, <1>10

\* A stream has the whole rest of its first cell's request.
LEMMA StreamRun ==
    ASSUME NEW s \in Seq(Requests), NEW w, Stream(s, w), w # <<>>,
           NEW k \in 1 .. Size(s[w[1].r]) - w[1].i + 1
    PROVE  k <= Len(w) /\ w[k] = CellOf(s, w[1].r, w[1].i + k - 1)
<1> DEFINE n == Size(s[w[1].r]) - w[1].i + 1
           OK(j) == j <= Len(w) /\ w[j].r = w[1].r /\ w[j].i = w[1].i + j - 1
           Bad == {j \in 1 .. n : ~OK(j)}
<1>0. w \in Seq(CellSet) /\ Len(w) \in Nat /\ 1 \in 1 .. Len(w)
  BY DEF Stream
<1>1. w[1].r \in Nat /\ w[1].i \in 1 .. Size(s[w[1].r]) /\ Size(s[w[1].r]) \in Nat
  BY <1>0, StreamCell
<1>2. n \in Nat
  BY <1>1
<1>3. Bad = {}
  <2>1. SUFFICES ASSUME Bad # {} PROVE FALSE
    BY <2>1
  <2>2. PICK m \in Bad : \A y \in Bad : m <= y
    <3>1. Bad \subseteq Nat
      BY <1>2
    <3> QED BY <3>1, <2>1, LeastNatural
  <2>3. m \in 1 .. n /\ ~OK(m)
    BY <2>2
  <2>4. m # 1
    BY <2>3, <1>0, <1>1
  <2>5. m - 1 \in 1 .. n /\ (m - 1) + 1 = m
    BY <1>2, <2>3, <2>4
  <2>6. OK(m - 1)
    <3>1. ~(m <= m - 1)
      BY <2>3
    <3> QED BY <3>1, <2>2, <2>5
  <2>7. m - 1 \in 1 .. Len(w)
    BY <2>5, <2>6, <1>0, <1>2
  <2>8. w[m - 1].i < Size(s[w[m - 1].r])
    <3>1. w[m - 1].i = w[1].i + (m - 1) - 1 /\ w[m - 1].r = w[1].r
      BY <2>6
    <3>2. w[1].i + (m - 1) - 1 < Size(s[w[1].r])
      BY <1>1, <2>3, <2>5
    <3> QED BY <3>1, <3>2
  <2>9. m - 1 < Len(w) /\ w[m].r = w[m - 1].r /\ w[m].i = w[m - 1].i + 1
    BY <2>5, <2>7, <2>8, StreamNext
  <2>10. OK(m)
    <3>1. m <= Len(w) /\ m \in Int
      BY <1>0, <1>2, <2>3, <2>9
    <3>2. w[m].i = (w[1].i + (m - 1) - 1) + 1 /\ w[m].r = w[1].r
      BY <2>6, <2>9
    <3>3. (w[1].i + (m - 1) - 1) + 1 = w[1].i + m - 1
      <4>1. w[1].i \in Int
        BY <1>1
      <4> QED BY <3>1, <4>1
    <3> QED BY <3>1, <3>2, <3>3
  <2> QED BY <2>3, <2>10
<1>4. OK(k)
  BY <1>3
<1>5. k \in 1 .. Len(w)
  BY <1>0, <1>1, <1>4
<1>6. w[k] = CellOf(s, w[k].r, w[k].i)
  BY <1>5, StreamCell
<1> QED BY <1>4, <1>6

\* What is left of a stream after a read is a stream.
LEMMA StreamSuffix ==
    ASSUME NEW s \in Seq(Requests), NEW w, Stream(s, w), NEW n \in 0 .. Len(w)
    PROVE  /\ Stream(s, SubSeq(w, n + 1, Len(w)))
           /\ Len(SubSeq(w, n + 1, Len(w))) = Len(w) - n
           /\ \A k \in 1 .. Len(w) - n : SubSeq(w, n + 1, Len(w))[k] = w[n + k]
<1> DEFINE v == SubSeq(w, n + 1, Len(w))
<1>0. w \in Seq(CellSet) /\ Len(w) \in Nat /\ n \in Nat /\ n <= Len(w)
  <2>1. w \in Seq(CellSet)
    BY DEF Stream
  <2> QED BY <2>1
<1> HIDE DEF v
<1>1. /\ v \in Seq(CellSet) /\ Len(v) = Len(w) - n
      /\ \A k \in 1 .. Len(w) - n : v[k] = w[n + k]
  <2>1. /\ n + 1 \in 1 .. Len(w) + 1 /\ Len(w) <= Len(w) /\ n + 1 <= Len(w) + 1
        /\ Len(w) - (n + 1) + 1 = Len(w) - n
    BY <1>0
  <2>2. /\ v \in Seq(CellSet) /\ Len(v) = Len(w) - (n + 1) + 1
        /\ \A k \in 1 .. Len(w) - (n + 1) + 1 : v[k] = w[n + 1 + k - 1]
    <3>1. w \in Seq(CellSet) /\ Len(w) \in Nat
      BY <1>0
    <3> QED BY <3>1, <2>1, PartExact DEF v
  <2>3. \A k \in 1 .. Len(w) - n : n + 1 + k - 1 = n + k
    BY <1>0
  <2> QED BY <2>1, <2>2, <2>3
<1>2. ASSUME NEW k \in 1 .. Len(v)
      PROVE  /\ v[k].r \in 1 .. Len(s) /\ v[k].i \in 1 .. Size(s[v[k].r])
             /\ v[k] = CellOf(s, v[k].r, v[k].i)
             /\ v[k].i < Size(s[v[k].r]) =>
                   k < Len(v) /\ v[k + 1].r = v[k].r /\ v[k + 1].i = v[k].i + 1
             /\ v[k].i = Size(s[v[k].r]) =>
                   \/ k = Len(v) /\ v[k].r = Len(s)
                   \/ k < Len(v) /\ v[k + 1].r = v[k].r + 1 /\ v[k + 1].i = 1
  <2>1. n + k \in 1 .. Len(w) /\ v[k] = w[n + k]
    BY <1>0, <1>1
  <2>2. k < Len(v) => v[k + 1] = w[n + k + 1]
    <3>1. k < Len(v) => k + 1 \in 1 .. Len(w) - n /\ n + (k + 1) = n + k + 1
      BY <1>0, <1>1
    <3> QED BY <3>1, <1>1
  <2>3. (n + k < Len(w) => k < Len(v)) /\ (n + k = Len(w) => k = Len(v))
    <3>1. Len(v) = Len(w) - n /\ k \in Int
      BY <1>0, <1>1
    <3> QED BY <3>1, <1>0
  <2>4. /\ w[n + k].i < Size(s[w[n + k].r]) =>
                n + k < Len(w) /\ w[n + k + 1].r = w[n + k].r /\ w[n + k + 1].i = w[n + k].i + 1
        /\ w[n + k].i = Size(s[w[n + k].r]) =>
                \/ n + k = Len(w) /\ w[n + k].r = Len(s)
                \/ n + k < Len(w) /\ w[n + k + 1].r = w[n + k].r + 1 /\ w[n + k + 1].i = 1
    BY <2>1, StreamNext
  <2>5. /\ w[n + k].r \in 1 .. Len(s) /\ w[n + k].i \in 1 .. Size(s[w[n + k].r])
        /\ w[n + k] = CellOf(s, w[n + k].r, w[n + k].i)
    BY <2>1, StreamCell
  <2> QED BY <2>1, <2>2, <2>3, <2>4, <2>5
<1>3. Stream(s, v)
  BY <1>1, <1>2 DEF Stream
<1> QED BY <1>1, <1>3 DEF v

\* The cells of a request.
LEMMA CellsExact ==
    ASSUME NEW q \in Requests, NEW r \in Nat
    PROVE  /\ Cells(r, q) \in Seq(CellSet) /\ Len(Cells(r, q)) = Size(q)
           /\ \A k \in 1 .. Size(q) : Cells(r, q)[k] = [r |-> r, i |-> k, kind |-> Kinds(q)[k]]
<1>1. Kinds(q) \in Seq(KindSet) /\ Len(Kinds(q)) = Size(q) /\ Size(q) \in Nat
  BY KindsExact
<1>2. ASSUME NEW k \in 1 .. Size(q) PROVE [r |-> r, i |-> k, kind |-> Kinds(q)[k]] \in CellSet
  <2>1. Kinds(q)[k] \in KindSet /\ k \in Nat
    BY <1>1
  <2> QED BY <2>1 DEF CellSet
<1>3. Cells(r, q) = [k \in 1 .. Size(q) |-> [r |-> r, i |-> k, kind |-> Kinds(q)[k]]]
  BY <1>1 DEF Cells
<1> QED BY <1>1, <1>2, <1>3

\* A request more leaves the earlier ones as they are.
LEMMA MoreRequests ==
    ASSUME NEW s \in Seq(Requests), NEW q \in Requests
    PROVE  /\ Append(s, q) \in Seq(Requests) /\ Len(Append(s, q)) = Len(s) + 1
           /\ Append(s, q)[Len(s) + 1] = q
           /\ \A r \in 1 .. Len(s) : Append(s, q)[r] = s[r]
           /\ \A r \in 1 .. Len(s) : \A i : CellOf(Append(s, q), r, i) = CellOf(s, r, i)
<1>1. \A r \in 1 .. Len(s) : Append(s, q)[r] = s[r]
  OBVIOUS
<1> QED BY <1>1 DEF CellOf

\* What a client sends continues the stream.
LEMMA StreamGrows ==
    ASSUME NEW s \in Seq(Requests), NEW w, Stream(s, w), NEW q \in Requests
    PROVE  Stream(Append(s, q), w \o Cells(Len(s) + 1, q))
<1> DEFINE t == Append(s, q)
           c == Cells(Len(s) + 1, q)
           v == w \o c
<1>0. w \in Seq(CellSet) /\ Len(w) \in Nat /\ Len(s) \in Nat
  BY DEF Stream
<1>1. /\ t \in Seq(Requests) /\ Len(t) = Len(s) + 1 /\ t[Len(s) + 1] = q
      /\ \A r \in 1 .. Len(s) : t[r] = s[r]
      /\ \A r \in 1 .. Len(s) : \A i : CellOf(t, r, i) = CellOf(s, r, i)
  BY MoreRequests
<1>2. /\ c \in Seq(CellSet) /\ Len(c) = Size(q)
      /\ \A k \in 1 .. Size(q) : c[k] = [r |-> Len(s) + 1, i |-> k, kind |-> Kinds(q)[k]]
  <2>1. Len(s) + 1 \in Nat
    BY <1>0
  <2> QED BY <2>1, CellsExact
<1>3. Size(q) \in Nat /\ Size(q) >= 1
  <2>1. /\ HeaderSize(q) \in Nat /\ HeaderSize(q) >= 7 /\ q.body \in Nat
        /\ Size(q) = HeaderSize(q) + q.body
    BY KindsExact
  <2> QED BY <2>1
<1>4. /\ v \in Seq(CellSet) /\ Len(v) = Len(w) + Size(q)
      /\ \A k \in 1 .. Len(w) : v[k] = w[k]
      /\ \A k \in 1 .. Size(q) : v[Len(w) + k] = c[k]
  <2>1. c \in Seq(CellSet)
    BY <1>2
  <2> HIDE DEF c
  <2>2. /\ v \in Seq(CellSet) /\ Len(v) = Len(w) + Len(c)
        /\ \A k \in 1 .. Len(w) : v[k] = w[k]
        /\ \A k \in 1 .. Len(c) : v[Len(w) + k] = c[k]
    BY <1>0, <2>1, JoinExact
  <2> QED BY <2>2, <1>2
<1> HIDE DEF t, c, v
<1>5. ASSUME NEW k \in 1 .. Size(q)
      PROVE  /\ v[Len(w) + k].r = Len(s) + 1 /\ v[Len(w) + k].i = k
             /\ v[Len(w) + k] = CellOf(t, Len(s) + 1, k)
  BY <1>1, <1>2, <1>4 DEF CellOf
<1>6. ASSUME NEW k \in 1 .. Len(v)
      PROVE  /\ v[k].r \in 1 .. Len(t) /\ v[k].i \in 1 .. Size(t[v[k].r])
             /\ v[k] = CellOf(t, v[k].r, v[k].i)
             /\ v[k].i < Size(t[v[k].r]) =>
                   k < Len(v) /\ v[k + 1].r = v[k].r /\ v[k + 1].i = v[k].i + 1
             /\ v[k].i = Size(t[v[k].r]) =>
                   \/ k = Len(v) /\ v[k].r = Len(t)
                   \/ k < Len(v) /\ v[k + 1].r = v[k].r + 1 /\ v[k + 1].i = 1
  <2>1. CASE k \in 1 .. Len(w)
    <3>1. v[k] = w[k] /\ k < Len(v)
      BY <2>1, <1>0, <1>3, <1>4
    <3>2. /\ w[k].r \in 1 .. Len(s) /\ w[k].i \in 1 .. Size(s[w[k].r])
          /\ w[k] = CellOf(s, w[k].r, w[k].i)
      BY <2>1, StreamCell
    <3>3. t[w[k].r] = s[w[k].r] /\ w[k] = CellOf(t, w[k].r, w[k].i)
      BY <3>2, <1>1
    <3>4. w[k].r \in 1 .. Len(t)
      BY <3>2, <1>0, <1>1
    <3>5. w[k].i < Size(s[w[k].r]) =>
             v[k + 1].r = w[k].r /\ v[k + 1].i = w[k].i + 1
      <4>1. SUFFICES ASSUME w[k].i < Size(s[w[k].r])
                     PROVE  v[k + 1].r = w[k].r /\ v[k + 1].i = w[k].i + 1
        BY <4>1
      <4>2. k < Len(w) /\ w[k + 1].r = w[k].r /\ w[k + 1].i = w[k].i + 1
        BY <4>1, <2>1, StreamNext
      <4>3. k + 1 \in 1 .. Len(w)
        BY <4>2, <2>1, <1>0
      <4> QED BY <4>2, <4>3, <1>4
    <3>6. w[k].i = Size(s[w[k].r]) =>
             v[k + 1].r = w[k].r + 1 /\ v[k + 1].i = 1
      <4>1. SUFFICES ASSUME w[k].i = Size(s[w[k].r])
                     PROVE  v[k + 1].r = w[k].r + 1 /\ v[k + 1].i = 1
        BY <4>1
      <4>2. CASE k = Len(w) /\ w[k].r = Len(s)
        <5>1. 1 \in 1 .. Size(q)
          BY <1>3
        <5> QED BY <4>2, <5>1, <1>5
      <4>3. CASE k < Len(w) /\ w[k + 1].r = w[k].r + 1 /\ w[k + 1].i = 1
        <5>1. k + 1 \in 1 .. Len(w)
          BY <4>3, <2>1, <1>0
        <5> QED BY <4>3, <5>1, <1>4
      <4> QED BY <4>1, <4>2, <4>3, <2>1, StreamNext
    <3> QED BY <3>1, <3>2, <3>3, <3>4, <3>5, <3>6
  <2>2. CASE k \notin 1 .. Len(w)
    <3>1. PICK j \in 1 .. Size(q) : k = Len(w) + j
      <4>1. k - Len(w) \in 1 .. Size(q) /\ k = Len(w) + (k - Len(w))
        BY <2>2, <1>0, <1>3, <1>4
      <4> QED BY <4>1
    <3>2. v[k].r = Len(s) + 1 /\ v[k].i = j /\ v[k] = CellOf(t, v[k].r, v[k].i)
      BY <3>1, <1>5
    <3>3. t[v[k].r] = q /\ v[k].r = Len(t) /\ v[k].r \in 1 .. Len(t)
      BY <3>2, <1>0, <1>1
    <3>4. j < Size(q) => k < Len(v) /\ v[k + 1].r = v[k].r /\ v[k + 1].i = v[k].i + 1
      <4>1. SUFFICES ASSUME j < Size(q)
                     PROVE  k < Len(v) /\ v[k + 1].r = v[k].r /\ v[k + 1].i = v[k].i + 1
        BY <4>1
      <4>2. j + 1 \in 1 .. Size(q) /\ k + 1 = Len(w) + (j + 1) /\ k < Len(v)
        BY <4>1, <3>1, <1>0, <1>3, <1>4
      <4> QED BY <4>2, <3>2, <1>5
    <3>5. j = Size(q) => k = Len(v)
      BY <3>1, <1>0, <1>3, <1>4
    <3> QED BY <3>1, <3>2, <3>3, <3>4, <3>5
  <2> QED BY <2>1, <2>2
<1>7. Stream(t, v)
  BY <1>4, <1>6 DEF Stream
<1> QED BY <1>7 DEF t, c, v

\* execute() stops behind the first end of a header.
LEMMA ConsumedExact ==
    ASSUME NEW buf \in Seq(CellSet), NEW m \in Nat, m <= Len(buf),
           \A j \in 1 .. m - 1 : buf[j].kind # "end"
    PROVE  /\ m >= 1 /\ buf[m].kind = "end" => Consumed(buf) = m
           /\ m = Len(buf) => Consumed(buf) = m
<1> DEFINE P(i) == buf[i].kind = "end" /\ \A j \in 1 .. i - 1 : buf[j].kind # "end"
<1>1. CASE m >= 1 /\ buf[m].kind = "end"
  <2>1. m \in 1 .. Len(buf) /\ P(m)
    BY <1>1
  <2>2. \E i \in 1 .. Len(buf) : buf[i].kind = "end"
    BY <2>1
  <2>3. Consumed(buf) = CHOOSE i \in 1 .. Len(buf) : P(i)
    BY <2>2 DEF Consumed
  <2>4. Consumed(buf) \in 1 .. Len(buf) /\ P(Consumed(buf))
    BY <2>1, <2>3, Zenon
  <2>5. ~(Consumed(buf) < m) /\ ~(m < Consumed(buf))
    BY <2>1, <2>4
  <2> QED BY <2>1, <2>4, <2>5
<1>2. CASE ~(m >= 1 /\ buf[m].kind = "end") /\ m = Len(buf)
  <2>1. ~\E i \in 1 .. Len(buf) : buf[i].kind = "end"
    BY <1>2
  <2> QED BY <2>1, <1>2 DEF Consumed
<1> QED BY <1>1, <1>2

\* The fields of a cell.
LEMMA CellFields ==
    ASSUME NEW s, NEW r, NEW i
    PROVE  CellOf(s, r, i).r = r /\ CellOf(s, r, i).i = i /\ CellOf(s, r, i).kind = Kinds(s[r])[i]
BY DEF CellOf

\* What a parser with the cells p has after a read of n cells of w, and what of the
\* read is behind the header.
HeaderCells(p, w, n) == p \o SubSeq(SubSeq(w, 1, n), 1, Consumed(SubSeq(w, 1, n)))

RestCells(w, n) == SubSeq(SubSeq(w, 1, n), Consumed(SubSeq(w, 1, n)) + 1, n)

\* What the read has done: the parser has the first cells of the request, and the header
\* ends with the read or before it.
TurnDone(s, p, w, n) ==
    LET h == HeaderSize(s[w[1].r])
        c == HeaderCells(p, w, n)
        rest == RestCells(w, n)
    IN /\ c \in Seq(CellSet) /\ Len(c) \in 1 .. h
       /\ \A k \in 1 .. Len(c) : c[k] = CellOf(s, w[1].r, k)
       /\ Last(c).kind = "end" <=> Len(c) = h
       /\ Len(c) < h => Len(c) = Len(p) + n
       /\ Len(c) = h => /\ rest \in Seq(CellSet) /\ Len(rest) = Len(p) + n - h
                        /\ \A k \in 1 .. Len(rest) : rest[k] = w[h - Len(p) + k]

\* A parser that has the first cells of a request has more of them after a read:
\* all that were read, or those up to the end of the header.
LEMMA HeaderTurn ==
    ASSUME NEW s \in Seq(Requests), NEW w, Stream(s, w), NEW n \in 1 .. Len(w),
           NEW p \in Seq(CellSet), w[1].i = Len(p) + 1, Len(p) < HeaderSize(s[w[1].r]),
           \A k \in 1 .. Len(p) : p[k] = CellOf(s, w[1].r, k)
    PROVE  TurnDone(s, p, w, n)
<1> DEFINE q == s[w[1].r]
           h == HeaderSize(q)
           b == SubSeq(w, 1, n)
           m == h - Len(p)
           u == Consumed(b)
           d == SubSeq(b, 1, u)
           c == HeaderCells(p, w, n)
           rest == RestCells(w, n)
<1>0. /\ w \in Seq(CellSet) /\ Len(w) \in Nat /\ 1 \in 1 .. Len(w) /\ w # <<>>
      /\ Len(p) \in Nat /\ n \in Nat
  BY DEF Stream
<1>1. q \in Requests /\ w[1].r \in 1 .. Len(s)
  BY <1>0, StreamCell
<1>2. /\ h \in Nat /\ h >= 7 /\ q.body \in Nat /\ Size(q) = h + q.body
      /\ Kinds(q)[h] = "end" /\ \A k \in 1 .. h - 1 : Kinds(q)[k] # "end"
  BY <1>1, KindsExact
<1>3. \A k \in 1 .. m : k <= Len(w) /\ w[k] = CellOf(s, w[1].r, Len(p) + k)
  <2> SUFFICES ASSUME NEW k \in 1 .. m
               PROVE  k <= Len(w) /\ w[k] = CellOf(s, w[1].r, Len(p) + k)
    OBVIOUS
  <2>1. k \in 1 .. Size(q) - w[1].i + 1 /\ w[1].i + k - 1 = Len(p) + k
    <3>1. /\ k \in 1 .. h - Len(p) /\ Size(q) = h + q.body /\ h \in Nat /\ q.body \in Nat
          /\ w[1].i = Len(p) + 1
      BY <1>2
    <3> HIDE DEF q, h, m
    <3> QED BY <3>1, <1>0
  <2>2. k <= Len(w) /\ w[k] = CellOf(s, w[1].r, w[1].i + k - 1)
    BY <1>0, <2>1, StreamRun
  <2> QED BY <2>1, <2>2
<1>4. b \in Seq(CellSet) /\ Len(b) = n /\ \A k \in 1 .. n : b[k] = w[k]
  <2>1. 1 \in 1 .. Len(w) + 1 /\ n <= Len(w) /\ 1 <= n + 1 /\ n - 1 + 1 = n
    BY <1>0
  <2>2. /\ b \in Seq(CellSet) /\ Len(b) = n - 1 + 1
        /\ \A k \in 1 .. n - 1 + 1 : b[k] = w[1 + k - 1]
    BY <1>0, <2>1, PartExact
  <2>3. \A k \in 1 .. n : 1 + k - 1 = k
    BY <1>0
  <2> QED BY <2>1, <2>2, <2>3
<1>5. c = p \o d /\ rest = SubSeq(b, u + 1, n)
  BY DEF HeaderCells, RestCells
<1> HIDE DEF b, c, rest
<1>6. \A k \in 1 .. m : k <= n =>
         b[k] = CellOf(s, w[1].r, Len(p) + k) /\ b[k].kind = Kinds(q)[Len(p) + k]
  <2> SUFFICES ASSUME NEW k \in 1 .. m, k <= n
               PROVE  b[k] = CellOf(s, w[1].r, Len(p) + k) /\ b[k].kind = Kinds(q)[Len(p) + k]
    OBVIOUS
  <2>1. k \in 1 .. n
    BY <1>0, <1>2
  <2>2. b[k] = CellOf(s, w[1].r, Len(p) + k)
    BY <2>1, <1>3, <1>4
  <2> QED BY <2>2, CellFields
<1>7. m \in Nat /\ m >= 1 /\ m = h - Len(p) /\ h = Len(p) + m
  BY <1>0, <1>2
<1> HIDE DEF h, m
<1>8. \A k \in 1 .. m - 1 : k <= n => b[k].kind # "end"
  <2> SUFFICES ASSUME NEW k \in 1 .. m - 1, k <= n PROVE b[k].kind # "end"
    OBVIOUS
  <2>1. Len(p) + k \in 1 .. h - 1 /\ k \in 1 .. m
    <3>1. Len(p) \in Nat /\ h \in Nat /\ m \in Nat /\ m = h - Len(p)
      BY <1>0, <1>2, <1>7
    <3> QED BY <3>1
  <2> QED BY <2>1, <1>2, <1>6
<1>9. u = IF m <= n THEN m ELSE n
  <2>1. CASE m <= n
    <3>1. b[m].kind = "end"
      <4>1. m \in 1 .. m /\ Len(p) + m = h
        BY <1>0, <1>2, <1>7
      <4> QED BY <4>1, <2>1, <1>2, <1>6
    <3>2. \A j \in 1 .. m - 1 : b[j].kind # "end"
      BY <2>1, <1>0, <1>7, <1>8
    <3> QED BY <2>1, <3>1, <3>2, <1>4, <1>7, ConsumedExact
  <2>2. CASE n < m
    <3>1. \A j \in 1 .. n - 1 : b[j].kind # "end"
      BY <2>2, <1>0, <1>7, <1>8
    <3>2. Consumed(b) = n
      BY <3>1, <1>0, <1>4, ConsumedExact
    <3> QED BY <2>2, <3>2, <1>0, <1>7
  <2> QED BY <2>1, <2>2, <1>0, <1>7
<1> HIDE DEF u
<1>10. u \in 1 .. n /\ u <= m
  <2>1. n >= 1
    OBVIOUS
  <2> QED BY <2>1, <1>0, <1>7, <1>9
<1>11. d \in Seq(CellSet) /\ Len(d) = u /\ \A k \in 1 .. u : d[k] = b[k]
  <2>1. /\ 1 \in 1 .. Len(b) + 1 /\ u \in Nat /\ u <= Len(b) /\ 1 <= u + 1 /\ u - 1 + 1 = u
    BY <1>0, <1>4, <1>10
  <2>2. /\ d \in Seq(CellSet) /\ Len(d) = u - 1 + 1
        /\ \A k \in 1 .. u - 1 + 1 : d[k] = b[1 + k - 1]
    BY <1>4, <2>1, PartExact
  <2>3. \A k \in 1 .. u : 1 + k - 1 = k
    BY <2>1
  <2> QED BY <2>1, <2>2, <2>3
<1> HIDE DEF d
<1>12. /\ c \in Seq(CellSet) /\ Len(c) = Len(p) + u
       /\ \A k \in 1 .. Len(p) : c[k] = p[k]
       /\ \A k \in 1 .. u : c[Len(p) + k] = d[k]
  <2>1. d \in Seq(CellSet) /\ Len(d) = u
    BY <1>11
  <2>2. /\ c \in Seq(CellSet) /\ Len(c) = Len(p) + Len(d)
        /\ \A k \in 1 .. Len(p) : c[k] = p[k]
        /\ \A k \in 1 .. Len(d) : c[Len(p) + k] = d[k]
    <3>1. c = p \o d /\ d \in Seq(CellSet)
      BY <1>5, <2>1
    <3> QED BY <3>1, JoinExact
  <2> QED BY <2>1, <2>2
<1>13. Len(c) \in 1 .. h
  BY <1>0, <1>2, <1>7, <1>10, <1>12
<1>14. \A k \in 1 .. Len(c) : c[k] = CellOf(s, w[1].r, k)
  <2> SUFFICES ASSUME NEW k \in 1 .. Len(c) PROVE c[k] = CellOf(s, w[1].r, k)
    OBVIOUS
  <2>1. CASE k <= Len(p)
    BY <2>1, <1>0, <1>12
  <2>2. CASE k > Len(p)
    <3>1. k - Len(p) \in 1 .. u /\ k - Len(p) \in 1 .. m /\ k - Len(p) <= n
      BY <2>2, <1>0, <1>7, <1>10, <1>12
    <3>2. Len(p) + (k - Len(p)) = k
      BY <1>0, <1>13
    <3>3. c[k] = b[k - Len(p)]
      BY <3>1, <3>2, <1>11, <1>12
    <3>4. b[k - Len(p)] = CellOf(s, w[1].r, Len(p) + (k - Len(p)))
      BY <3>1, <1>6
    <3> QED BY <3>2, <3>3, <3>4
  <2> QED BY <2>1, <2>2, <1>0, <1>13
<1>15. Last(c).kind = "end" <=> Len(c) = h
  <2>1. Last(c) = c[Len(c)]
    BY DEF Last
  <2>2. Len(c) \in 1 .. Len(c)
    BY <1>13
  <2>3. Last(c).kind = Kinds(q)[Len(c)]
    <3>1. c[Len(c)] = CellOf(s, w[1].r, Len(c))
      BY <2>2, <1>14
    <3> QED BY <2>1, <3>1, CellFields
  <2>4. Len(c) # h => Len(c) \in 1 .. h - 1
    BY <1>2, <1>13
  <2> QED BY <2>3, <2>4, <1>2
<1>16. Len(c) < h => Len(c) = Len(p) + n
  BY <1>0, <1>2, <1>7, <1>9, <1>12
<1>17. ASSUME Len(c) = h
       PROVE  /\ rest \in Seq(CellSet) /\ Len(rest) = Len(p) + n - h
              /\ \A k \in 1 .. Len(rest) : rest[k] = w[h - Len(p) + k]
  <2>1. u = m
    BY <1>17, <1>0, <1>2, <1>7, <1>10, <1>12
  <2>2. /\ u + 1 \in 1 .. Len(b) + 1 /\ n \in Nat /\ n <= Len(b) /\ u + 1 <= n + 1
        /\ n - (u + 1) + 1 = Len(p) + n - h
    BY <2>1, <1>0, <1>2, <1>4, <1>7, <1>10
  <2>3. /\ rest \in Seq(CellSet) /\ Len(rest) = n - (u + 1) + 1
        /\ \A k \in 1 .. n - (u + 1) + 1 : rest[k] = b[u + 1 + k - 1]
    <3>1. rest = SubSeq(b, u + 1, n) /\ b \in Seq(CellSet)
      BY <1>4, <1>5
    <3> QED BY <3>1, <2>2, PartExact
  <2>4. ASSUME NEW k \in 1 .. Len(rest) PROVE rest[k] = w[h - Len(p) + k]
    <3>1. u + 1 + k - 1 = h - Len(p) + k /\ h - Len(p) + k \in 1 .. n
      BY <2>1, <2>2, <2>3, <1>0, <1>2, <1>7
    <3> QED BY <3>1, <2>2, <2>3, <1>4
  <2> QED BY <2>2, <2>3, <2>4
<1> QED BY <1>12, <1>13, <1>14, <1>15, <1>16, <1>17 DEF c, rest, h, TurnDone

\* A whole header has the fields of its request, those a read ended in excepted.
LEMMA FieldsExact ==
    ASSUME NEW s \in Seq(Requests), NEW r \in 1 .. Len(s), NEW c \in Seq(CellSet), NEW lost,
           Len(c) = HeaderSize(s[r]), \A k \in 1 .. Len(c) : c[k] = CellOf(s, r, k)
    PROVE  /\ Field("connection", c, lost) <=> "connection" \notin lost /\ s[r].keep
           /\ Field("length", c, lost) <=> "length" \notin lost /\ s[r].body > 0
<1>1. s[r] \in Requests
  OBVIOUS
<1>2. \A k \in 1 .. Len(c) : c[k].kind = Kinds(s[r])[k]
  BY DEF CellOf
<1>3. /\ (\E i \in 1 .. Len(c) : c[i].kind = "length") <=> s[r].body > 0
      /\ (\E i \in 1 .. Len(c) : c[i].kind = "connection") <=> s[r].keep
  <2>1. /\ (\E i \in 1 .. Len(c) : Kinds(s[r])[i] = "length") <=> s[r].body > 0
        /\ (\E i \in 1 .. Len(c) : Kinds(s[r])[i] = "connection") <=> s[r].keep
    BY <1>1, KindsExact
  <2> QED BY <2>1, <1>2
<1> QED BY <1>3 DEF Field

\* The body of a request, by its cells.
LEMMA BodyExact ==
    ASSUME NEW s \in Seq(Requests), NEW r \in 1 .. Len(s), NEW b \in Seq(CellSet),
           Len(b) = s[r].body,
           \A k \in 1 .. Len(b) : b[k] = CellOf(s, r, HeaderSize(s[r]) + k)
    PROVE  b = Body(r, s[r])
<1> DEFINE q == s[r]
           h == HeaderSize(q)
           c == Cells(r, q)
<1>1. q \in Requests /\ r \in Nat
  OBVIOUS
<1>2. h \in Nat /\ q.body \in Nat /\ Size(q) = h + q.body /\ Len(Kinds(q)) = Size(q)
  BY <1>1, KindsExact
<1>3. /\ c \in Seq(CellSet) /\ Len(c) = Size(q)
      /\ \A k \in 1 .. Size(q) : c[k] = [r |-> r, i |-> k, kind |-> Kinds(q)[k]]
  BY <1>1, CellsExact
<1>4. Body(r, q) = SubSeq(c, h + 1, Size(q))
  <2>1. Size(q) - q.body + 1 = h + 1
    BY <1>2
  <2> QED BY <2>1, <1>2 DEF Body
<1> HIDE DEF c
<1>5. /\ Body(r, q) \in Seq(CellSet) /\ Len(Body(r, q)) = q.body
      /\ \A k \in 1 .. q.body : Body(r, q)[k] = c[h + k]
  <2>1. /\ h + 1 \in 1 .. Len(c) + 1 /\ Size(q) \in Nat /\ Size(q) <= Len(c)
        /\ h + 1 <= Size(q) + 1 /\ Size(q) - (h + 1) + 1 = q.body
    BY <1>2, <1>3
  <2>2. /\ Body(r, q) \in Seq(CellSet) /\ Len(Body(r, q)) = Size(q) - (h + 1) + 1
        /\ \A k \in 1 .. Size(q) - (h + 1) + 1 : Body(r, q)[k] = c[h + 1 + k - 1]
    <3>1. Body(r, q) = SubSeq(c, h + 1, Size(q)) /\ c \in Seq(CellSet)
      BY <1>3, <1>4
    <3> HIDE DEF q, h
    <3> QED BY <3>1, <2>1, PartExact
  <2>3. \A k \in 1 .. q.body : h + 1 + k - 1 = h + k
    BY <1>2
  <2> QED BY <2>1, <2>2, <2>3
<1>6. ASSUME NEW k \in 1 .. Len(b) PROVE b[k] = Body(r, q)[k]
  <2>1. h + k \in 1 .. Size(q) /\ k \in 1 .. q.body
    BY <1>2
  <2> QED BY <2>1, <1>3, <1>5 DEF CellOf
<1> QED BY <1>5, <1>6, SeqEqual

\* Nothing was sent or read.
LEMMA SessionInvInit == SessionInit => SessionInv
<1> SUFFICES ASSUME SessionInit PROVE SessionInv
  OBVIOUS
<1> USE DEF SessionInit
<1>1. Stream(sent, net)
  BY DEF Stream
<1>2. SessionType
  <2>1. /\ sent \in Seq(Requests) /\ parsed \in Seq(CellSet) /\ body \in Seq(CellSet)
        /\ handled \in Seq(HandledSet)
    OBVIOUS
  <2>2. cut \in SUBSET KindSet /\ length \in Nat /\ answered \in Nat
    OBVIOUS
  <2>3. dropped \in BOOLEAN /\ pipelined \in BOOLEAN /\ failed \in BOOLEAN
    BY Zenon
  <2>4. phase \in {"reading", "body", "handling", "writing", "closed", "spinning", "corrupt"}
    OBVIOUS
  <2> QED BY <1>1, <2>1, <2>2, <2>3, <2>4, Zenon DEF SessionType
<1>3. HeaderRead /\ BodyRead /\ HandledFaithful
  BY DEF HeaderRead, BodyRead, HandledFaithful
<1>4. InStep
  BY DEF InStep
<1> QED BY <1>2, <1>3, <1>4 DEF SessionInv

\* The first cell in front of the session after a read.
LEMMA AfterRead ==
    ASSUME NEW s \in Seq(Requests), NEW w, Stream(s, w), NEW n \in 1 .. Len(w),
           SubSeq(w, n + 1, Len(w)) # <<>>
    PROVE  LET v == SubSeq(w, n + 1, Len(w))
           IN /\ n < Len(w) /\ v[1] = w[n + 1]
              /\ v[1].r > w[1].r \/ (v[1].r = w[1].r /\ v[1].i = w[1].i + n /\ v[1].i > 1)
<1> DEFINE v == SubSeq(w, n + 1, Len(w))
<1>0. Len(w) \in Nat /\ n \in 0 .. Len(w) /\ 1 \in 1 .. Len(w)
  BY DEF Stream
<1>1. v \in Seq(CellSet) /\ Len(v) = Len(w) - n /\ \A k \in 1 .. Len(w) - n : v[k] = w[n + k]
  BY <1>0, StreamSuffix DEF Stream
<1>2. n < Len(w)
  BY <1>0, <1>1
<1>3. v[1] = w[n + 1] /\ n + 1 \in 1 .. Len(w)
  BY <1>0, <1>1, <1>2
<1>4. w[n + 1].r > w[1].r \/ (w[n + 1].r = w[1].r /\ w[n + 1].i = w[1].i + (n + 1) - 1)
  BY <1>3, StreamOrder
<1>5. w[1].i \in Nat /\ w[1].i >= 1
  BY <1>0, StreamCell
<1>6. w[1].i + (n + 1) - 1 = w[1].i + n /\ w[1].i + n > 1
  BY <1>0, <1>5
<1> HIDE DEF v
<1>7. /\ n < Len(w) /\ v[1] = w[n + 1]
      /\ v[1].r > w[1].r \/ (v[1].r = w[1].r /\ v[1].i = w[1].i + n /\ v[1].i > 1)
  BY <1>2, <1>3, <1>4, <1>6
<1> QED BY <1>7 DEF v

\* A request more, and with a client that awaits each answer the session is idle.
LEMMA SendKeeps ==
    ASSUME SessionInv, NEW q \in Requests, ClientSends(q)
    PROVE  SessionInv'
<1> USE DEF SessionInv
<1>0. /\ sent \in Seq(Requests) /\ Stream(sent, net) /\ net \in Seq(CellSet)
      /\ Len(sent) \in Nat /\ Len(net) \in Nat
  <2>1. sent \in Seq(Requests) /\ Stream(sent, net)
    BY DEF SessionType
  <2>2. net \in Seq(CellSet)
    BY <2>1 DEF Stream
  <2> QED BY <2>1, <2>2
<1>1. /\ sent' = Append(sent, q) /\ net' = net \o Cells(Len(sent) + 1, q)
      /\ pipelined' = (pipelined \/ answered < Len(sent))
      /\ phase' = phase /\ parsed' = parsed /\ cut' = cut /\ body' = body /\ length' = length
      /\ handled' = handled /\ answered' = answered /\ dropped' = dropped /\ failed' = failed
  BY DEF ClientSends
<1>2. /\ sent' \in Seq(Requests) /\ Len(sent') = Len(sent) + 1
      /\ \A r \in 1 .. Len(sent) : sent'[r] = sent[r] /\ r \in 1 .. Len(sent')
      /\ \A r \in 1 .. Len(sent) : \A i : CellOf(sent', r, i) = CellOf(sent, r, i)
  BY <1>0, <1>1, MoreRequests
<1>3. Stream(sent', net')
  BY <1>0, <1>1, StreamGrows
<1>4. pipelined' \in BOOLEAN
  BY <1>1 DEF SessionType
<1>5. SessionType'
  BY <1>1, <1>2, <1>3, <1>4 DEF SessionType
<1>6. net # <<>> => net' # <<>> /\ net'[1] = net[1]
  <2>1. Cells(Len(sent) + 1, q) \in Seq(CellSet)
    BY <1>0, CellsExact
  <2> DEFINE c == Cells(Len(sent) + 1, q)
  <2> HIDE DEF c
  <2>2. c \in Seq(CellSet) /\ net' = net \o c
    BY <2>1, <1>1 DEF c
  <2>3. Len(net \o c) = Len(net) + Len(c) /\ \A i \in 1 .. Len(net) : (net \o c)[i] = net[i]
    BY <2>2, <1>0, JoinExact
  <2> QED BY <2>2, <2>3, <1>0
<1>7. net = <<>> => net' # <<>> /\ net'[1].r = Len(sent) + 1
  <2>1. /\ Cells(Len(sent) + 1, q) \in Seq(CellSet) /\ Len(Cells(Len(sent) + 1, q)) = Size(q)
        /\ \A k \in 1 .. Size(q) : Cells(Len(sent) + 1, q)[k]
              = [r |-> Len(sent) + 1, i |-> k, kind |-> Kinds(q)[k]]
    BY <1>0, CellsExact
  <2>2. Size(q) \in Nat /\ Size(q) >= 1
    BY KindsExact
  <2>3. net = <<>> => net' = Cells(Len(sent) + 1, q)
    BY <1>1, <2>1
  <2>4. 1 \in 1 .. Size(q)
    BY <2>2
  <2>5. Cells(Len(sent) + 1, q)[1].r = Len(sent) + 1 /\ Cells(Len(sent) + 1, q) # <<>>
    <3> DEFINE c == Cells(Len(sent) + 1, q)
    <3>1. c[1] = [r |-> Len(sent) + 1, i |-> 1, kind |-> Kinds(q)[1]]
      BY <2>1, <2>4
    <3>2. Len(c) # 0
      BY <2>1, <2>2
    <3> HIDE DEF c
    <3>3. c[1].r = Len(sent) + 1 /\ c # <<>>
      BY <3>1, <3>2
    <3> QED BY <3>3 DEF c
  <2> QED BY <2>3, <2>5
<1>8. phase # "closed" /\ parsed # <<>> =>
         /\ RequestOf \in 1 .. Len(sent) /\ RequestOf' = RequestOf
         /\ sent'[RequestOf] = sent[RequestOf]
         /\ RequestOf \in 1 .. Len(sent')
         /\ \A i : CellOf(sent', RequestOf, i) = CellOf(sent, RequestOf, i)
  <2>1. phase # "closed" /\ parsed # <<>> => RequestOf \in 1 .. Len(sent)
    BY DEF HeaderRead
  <2>2. RequestOf' = RequestOf
    BY <1>1 DEF RequestOf
  <2> QED BY <2>1, <2>2, <1>2
<1>9. HeaderRead'
  <2> SUFFICES ASSUME phase # "closed" PROVE HeaderRead'
    BY <1>1 DEF HeaderRead
  <2>1. phase # "reading" => parsed # <<>>
    BY DEF HeaderRead
  <2>2. CASE parsed = <<>>
    BY <2>1, <2>2, <1>1 DEF HeaderRead
  <2>3. CASE parsed # <<>>
    <3>1. /\ Len(parsed) <= HeaderSize(sent[RequestOf])
          /\ \A k \in 1 .. Len(parsed) : parsed[k] = CellOf(sent, RequestOf, k)
          /\ phase = "reading" =>
              /\ Len(parsed) < HeaderSize(sent[RequestOf])
              /\ net # <<>> /\ net[1].r = RequestOf /\ net[1].i = Len(parsed) + 1
          /\ phase # "reading" =>
              /\ Len(parsed) = HeaderSize(sent[RequestOf])
              /\ length = IF "length" \in cut THEN 0 ELSE sent[RequestOf].body
      BY <2>3 DEF HeaderRead
    <3> QED BY <3>1, <2>3, <1>1, <1>6, <1>8 DEF HeaderRead
  <2> QED BY <2>2, <2>3
<1>10. BodyRead'
  <2> SUFFICES ASSUME phase \in {"body", "handling"}, ~failed PROVE BodyRead'
    BY <1>1 DEF BodyRead
  <2>1. phase # "closed" /\ parsed # <<>>
    BY DEF HeaderRead
  <2>2. /\ Len(body) <= length
        /\ \A k \in 1 .. Len(body) :
              body[k] = CellOf(sent, RequestOf, HeaderSize(sent[RequestOf]) + k)
        /\ phase = "handling" => Len(body) = length
        /\ phase = "body" =>
            /\ Len(body) < length
            /\ net # <<>> /\ net[1].r = RequestOf
            /\ net[1].i = HeaderSize(sent[RequestOf]) + Len(body) + 1
    BY DEF BodyRead
  <2> QED BY <2>1, <2>2, <1>1, <1>6, <1>8 DEF BodyRead
<1>11. HandledFaithful'
  <2> SUFFICES ASSUME NEW k \in 1 .. Len(handled)
               PROVE  /\ handled[k].req.r \in 1 .. Len(sent')
                      /\ handled[k].req.cut # {} \/ handled[k].failed \/ Sent(handled[k])'
    BY <1>1 DEF HandledFaithful
  <2>1. /\ handled[k].req.r \in 1 .. Len(sent)
        /\ handled[k].req.cut # {} \/ handled[k].failed \/ Sent(handled[k])
    BY DEF HandledFaithful
  <2>2. sent'[handled[k].req.r] = sent[handled[k].req.r] /\ handled[k].req.r \in 1 .. Len(sent')
    BY <2>1, <1>2
  <2>3. Sent(handled[k]) => Sent(handled[k])'
    BY <2>2, <1>1 DEF Sent
  <2> QED BY <2>1, <2>2, <2>3
<1>12. InStep'
  <2> SUFFICES ASSUME ~pipelined' PROVE InStep'
    BY DEF InStep
  <2>1. ~pipelined /\ ~(answered < Len(sent))
    BY <1>1 DEF SessionType
  <2>2. answered = Len(sent)
    BY <2>1, <1>0 DEF InStep, SessionType
  <2>3. LengthCut => LengthCut'
    BY <1>1 DEF LengthCut
  <2>4. phase # "closed" => parsed = <<>>
    <3>1. SUFFICES ASSUME phase # "closed", parsed # <<>> PROVE FALSE
      BY <3>1
    <3>2. RequestOf = answered + 1
      BY <2>1, <3>1 DEF InStep
    <3> QED BY <3>1, <3>2, <2>2, <1>0, <1>8
  <2>5. phase # "closed" => net'[1].r > answered \/ (net'[1].r = answered /\ net'[1].i > 1)
    <3>1. CASE net = <<>>
      BY <3>1, <1>0, <1>7, <2>2
    <3>2. CASE net # <<>>
      BY <3>2, <1>6, <2>1, <2>4 DEF InStep
    <3> QED BY <3>1, <3>2
  <2>6. answered' <= Len(sent') /\ Len(sent') <= answered' + 1
    BY <2>2, <1>0, <1>1, <1>2
  <2> QED BY <2>1, <2>3, <2>4, <2>5, <2>6, <1>1 DEF InStep
<1> QED BY <1>5, <1>9, <1>10, <1>11, <1>12

\* The client's close and a stuttering step change nothing the invariant is about.
LEMMA SessionRests ==
    ASSUME SessionInv,
           UNCHANGED <<sent, net, phase, parsed, cut, body, length, handled, answered, dropped,
                       pipelined, failed>>
    PROVE  SessionInv'
<1> USE DEF SessionInv
<1>1. SessionType'
  BY DEF SessionType
<1>2. RequestOf' = RequestOf
  BY DEF RequestOf
<1>3. HeaderRead'
  BY <1>2 DEF HeaderRead
<1>4. BodyRead'
  BY <1>2 DEF BodyRead
<1>5. HandledFaithful'
  BY DEF HandledFaithful, Sent
<1>6. InStep'
  BY <1>2 DEF InStep, LengthCut
<1> QED BY <1>1, <1>3, <1>4, <1>5, <1>6

\* A session that ends, with an answer or without.
LEMMA CloseKeeps ==
    ASSUME SessionInv, phase' = "closed", Stream(sent, net'),
           UNCHANGED <<sent, parsed, cut, body, length, handled, dropped, pipelined, failed>>,
           answered' \in Nat, ~pipelined => answered' <= Len(sent) /\ Len(sent) <= answered' + 1
    PROVE  SessionInv'
<1> USE DEF SessionInv
<1>1. SessionType'
  BY DEF SessionType
<1>2. HeaderRead' /\ BodyRead'
  BY DEF HeaderRead, BodyRead
<1>3. HandledFaithful'
  BY DEF HandledFaithful, Sent
<1>4. InStep'
  BY DEF InStep, LengthCut
<1> QED BY <1>1, <1>2, <1>3, <1>4

\* A read of the header that fails ends the session.
LEMMA ReadHeaderFailsKeeps == ASSUME SessionInv, ReadHeaderFails PROVE SessionInv'
<1>1. /\ phase' = "closed"
      /\ UNCHANGED <<sent, net, parsed, cut, body, length, handled, answered, dropped, pipelined,
                     failed>>
  BY DEF ReadHeaderFails, Close, Client
<1>2. Stream(sent, net') /\ answered' \in Nat
  BY <1>1 DEF SessionInv, SessionType
<1>3. ~pipelined => answered' <= Len(sent) /\ Len(sent) <= answered' + 1
  BY <1>1 DEF SessionInv, InStep
<1> QED BY <1>1, <1>2, <1>3, CloseKeeps

\* A write that fails leaves the session where it is, for ever.
LEMMA AnswerFailsKeeps == ASSUME SessionInv, AnswerFails PROVE SessionInv'
<1> USE DEF SessionInv
<1>1. /\ phase = "writing" /\ phase' = "spinning"
      /\ UNCHANGED <<sent, net, parsed, cut, body, length, handled, answered, dropped, pipelined,
                     failed>>
  BY DEF AnswerFails, Client
<1>2. SessionType'
  BY <1>1 DEF SessionType
<1>3. RequestOf' = RequestOf
  BY <1>1 DEF RequestOf
<1>4. HeaderRead'
  BY <1>1, <1>3 DEF HeaderRead
<1>5. BodyRead'
  BY <1>1 DEF BodyRead
<1>6. HandledFaithful'
  BY <1>1 DEF HandledFaithful, Sent
<1>7. InStep'
  BY <1>1, <1>3 DEF InStep, LengthCut
<1> QED BY <1>2, <1>4, <1>5, <1>6, <1>7

\* A read of the body that times out.
LEMMA ReadBodyFailsKeeps == ASSUME SessionInv, ReadBodyFails PROVE SessionInv'
<1> USE DEF SessionInv
<1>1. /\ phase = "body" /\ phase' \in {"body", "corrupt"} /\ failed' = TRUE
      /\ UNCHANGED <<sent, net, parsed, cut, length, handled, answered, dropped, pipelined>>
  BY DEF ReadBodyFails, Client
<1>2. body' \in Seq(CellSet)
  <2>1. body \in Seq(CellSet)
    BY DEF SessionType
  <2>2. CASE body = <<>>
    BY <2>1, <2>2 DEF ReadBodyFails
  <2>3. CASE body # <<>>
    <3>1. body' = SubSeq(body, 1, Len(body) - 1)
      BY <2>3 DEF ReadBodyFails, Front
    <3> QED BY <2>1, <2>3, <3>1
  <2> QED BY <2>2, <2>3
<1>3. SessionType'
  BY <1>1, <1>2 DEF SessionType
<1>4. RequestOf' = RequestOf
  BY <1>1 DEF RequestOf
<1>5. HeaderRead'
  BY <1>1, <1>4 DEF HeaderRead
<1>6. BodyRead'
  BY <1>1 DEF BodyRead
<1>7. HandledFaithful'
  BY <1>1 DEF HandledFaithful, Sent
<1>8. InStep'
  BY <1>1, <1>4 DEF InStep, LengthCut
<1> QED BY <1>3, <1>5, <1>6, <1>7, <1>8

\* A servlet gets the request.
LEMMA HandleKeeps == ASSUME SessionInv, Handle PROVE SessionInv'
<1> USE DEF SessionInv
<1> DEFINE h == [req |-> req, body |-> body, failed |-> failed]
           q == sent[RequestOf]
<1>0. /\ sent \in Seq(Requests) /\ parsed \in Seq(CellSet) /\ body \in Seq(CellSet)
      /\ cut \in SUBSET KindSet /\ failed \in BOOLEAN /\ handled \in Seq(HandledSet)
      /\ Len(handled) \in Nat
  BY DEF SessionType
<1>1. /\ phase = "handling" /\ phase' = "writing" /\ handled' = Append(handled, h)
      /\ UNCHANGED <<sent, net, parsed, cut, body, length, answered, dropped, pipelined, failed>>
  BY DEF Handle, Client
<1>2. /\ parsed # <<>> /\ RequestOf \in 1 .. Len(sent) /\ Len(parsed) = HeaderSize(q)
      /\ \A k \in 1 .. Len(parsed) : parsed[k] = CellOf(sent, RequestOf, k)
      /\ length = IF "length" \in cut THEN 0 ELSE q.body
  BY <1>1 DEF HeaderRead
<1>3. q \in Requests /\ RequestOf \in Nat
  BY <1>0, <1>2
<1>4. Field("connection", parsed, cut) <=> "connection" \notin cut /\ q.keep
  BY <1>0, <1>2, FieldsExact
<1>5. Field("connection", parsed, cut) \in BOOLEAN
  BY Zenon DEF Field
<1>6. req = [r |-> RequestOf,
             path |-> IF "path" \in cut THEN "rest of the path" ELSE q.path,
             keep |-> Field("connection", parsed, cut), cut |-> cut]
  BY Zenon DEF req, Request, RequestOf
<1> DEFINE f == Field("connection", parsed, cut)
           pa == IF "path" \in cut THEN "rest of the path" ELSE q.path
<1>7. pa \in {x.path : x \in Requests} \cup {"rest of the path"}
  BY <1>3
<1>8. f \in BOOLEAN
  BY <1>5
<1>9. q.keep \in BOOLEAN
  BY <1>3, KindsExact
<1>10. cut = {} => f = q.keep
  <2>1. cut = {} => (f <=> q.keep)
    BY <1>4
  <2> HIDE DEF f, q
  <2>2. ASSUME NEW a \in BOOLEAN, NEW b \in BOOLEAN, a <=> b PROVE a = b
    BY <2>2
  <2> QED BY <2>1, <2>2, <1>8, <1>9
<1>11. cut = {} => pa = q.path
  OBVIOUS
<1>12. req = [r |-> RequestOf, path |-> pa, keep |-> f, cut |-> cut]
  BY <1>6, Zenon
<1> HIDE DEF f, pa
<1>13. /\ req.r = RequestOf /\ req.path = pa /\ req.keep = f /\ req.cut = cut
       /\ req \in [r : Nat, path : {x.path : x \in Requests} \cup {"rest of the path"},
                   keep : BOOLEAN, cut : SUBSET KindSet]
  BY <1>0, <1>3, <1>7, <1>8, <1>12
<1>14. /\ h.req = req /\ h.body = body /\ h.failed = failed /\ h \in HandledSet
  BY <1>0, <1>13 DEF HandledSet
<1> HIDE DEF h
<1>15. /\ handled' \in Seq(HandledSet) /\ Len(handled') = Len(handled) + 1
       /\ handled'[Len(handled) + 1] = h
       /\ \A k \in 1 .. Len(handled) : handled'[k] = handled[k]
  BY <1>0, <1>1, <1>14
<1>16. SessionType'
  BY <1>1, <1>15 DEF SessionType
<1>17. RequestOf' = RequestOf
  BY <1>1 DEF RequestOf
<1>18. HeaderRead'
  BY <1>1, <1>17 DEF HeaderRead
<1>19. BodyRead'
  BY <1>1 DEF BodyRead
<1>20. cut # {} \/ failed \/ Sent(h)
  <2> SUFFICES ASSUME cut = {}, ~failed PROVE Sent(h)
    OBVIOUS
  <2>1. Len(body) = q.body
    BY <1>1, <1>2 DEF BodyRead
  <2>2. \A k \in 1 .. Len(body) : body[k] = CellOf(sent, RequestOf, HeaderSize(q) + k)
    BY <1>1 DEF BodyRead
  <2>3. body = Body(RequestOf, q)
    BY <1>0, <1>2, <2>1, <2>2, BodyExact
  <2> HIDE DEF q
  <2>4. h.req.r = RequestOf /\ h.req.path = q.path /\ h.req.keep = q.keep /\ h.body = body
    BY <1>10, <1>11, <1>13, <1>14
  <2> QED BY <2>3, <2>4, Zenon DEF Sent, q
<1>21. HandledFaithful'
  <2> SUFFICES ASSUME NEW k \in 1 .. Len(handled')
               PROVE  /\ handled'[k].req.r \in 1 .. Len(sent)
                      /\ handled'[k].req.cut # {} \/ handled'[k].failed \/ Sent(handled[k])'
    BY <1>1 DEF HandledFaithful
  <2>1. Sent(handled[k])' <=> Sent(handled'[k])
    BY <1>1 DEF Sent
  <2>2. CASE k \in 1 .. Len(handled)
    BY <2>1, <2>2, <1>15 DEF HandledFaithful
  <2>3. CASE k = Len(handled) + 1
    BY <2>1, <2>3, <1>2, <1>13, <1>14, <1>15, <1>20
  <2> QED BY <2>2, <2>3, <1>0, <1>15
<1>22. InStep'
  <2> SUFFICES ASSUME ~pipelined PROVE InStep'
    BY <1>1 DEF InStep
  <2>1. /\ Len(handled) = answered /\ RequestOf = answered + 1
        /\ \A k \in 1 .. Len(handled) : handled[k].req.r = k
    BY <1>1, <1>2 DEF InStep
  <2>2. \A k \in 1 .. Len(handled') : handled'[k].req.r = k
    <3> SUFFICES ASSUME NEW k \in 1 .. Len(handled') PROVE handled'[k].req.r = k
      OBVIOUS
    <3>1. k \in 1 .. Len(handled) \/ k = Len(handled) + 1
      BY <1>0, <1>15
    <3> QED BY <3>1, <2>1, <1>13, <1>14, <1>15
  <2>3. handled'[Len(handled')].req.cut = cut
    BY <1>13, <1>14, <1>15
  <2>4. LengthCut => LengthCut'
    <3>1. \A k \in 1 .. Len(handled) : k \in 1 .. Len(handled')
      BY <1>0, <1>15
    <3> QED BY <3>1, <1>1, <1>15 DEF LengthCut
  <2> QED BY <2>1, <2>2, <2>3, <2>4, <1>1, <1>15, <1>17 DEF InStep
<1> QED BY <1>16, <1>18, <1>19, <1>21, <1>22

\* The answer, and the next turn of handleClient or its end.
LEMMA AnswerKeeps == ASSUME SessionInv, Answer PROVE SessionInv'
<1>0. /\ phase = "writing" /\ answered' = answered + 1 /\ answered \in Nat
      /\ UNCHANGED <<sent, net, handled, dropped, pipelined, failed>>
      /\ (phase' = "reading" /\ FreshParser) \/ Close
  BY DEF Answer, Client, SessionInv, SessionType
<1>1. parsed # <<>> /\ RequestOf \in 1 .. Len(sent) /\ Len(sent) \in Nat
  BY <1>0 DEF SessionInv, HeaderRead, SessionType
<1>2. ~pipelined => /\ answered' <= Len(sent) /\ Len(sent) <= answered' + 1
                    /\ RequestOf = answered + 1
  BY <1>0, <1>1 DEF SessionInv, InStep
<1>3. CASE Close
  <2>1. Stream(sent, net')
    BY <1>0 DEF SessionInv, SessionType
  <2> QED BY <1>0, <1>2, <1>3, <2>1, CloseKeeps DEF Close
<1>4. CASE phase' = "reading" /\ FreshParser
  <2> USE DEF SessionInv
  <2>1. /\ phase' = "reading" /\ parsed' = <<>> /\ cut' = {} /\ body' = <<>> /\ length' = 0
    BY <1>4 DEF FreshParser
  <2>2. SessionType'
    BY <1>0, <2>1 DEF SessionType
  <2>3. HeaderRead' /\ BodyRead'
    BY <2>1 DEF HeaderRead, BodyRead
  <2>4. HandledFaithful'
    BY <1>0 DEF HandledFaithful, Sent
  <2>5. InStep'
    <3> SUFFICES ASSUME ~pipelined PROVE InStep'
      BY <1>0 DEF InStep
    <3>1. Len(handled) = answered + 1 /\ handled[Len(handled)].req.cut = cut
      BY <1>0 DEF InStep
    <3>2. Len(handled) \in 1 .. Len(handled)
      BY <3>1, <1>0
    <3>3. LengthCut => LengthCut'
      <4>1. "length" \in cut => \E k \in 1 .. Len(handled) : "length" \in handled[k].req.cut
        BY <3>1, <3>2
      <4>2. LengthCut => \E k \in 1 .. Len(handled) : "length" \in handled[k].req.cut
        <5> DEFINE cuts == {handled[k].req.cut : k \in 1 .. Len(handled)}
        <5> SUFFICES ASSUME LengthCut, "length" \notin cut
                     PROVE  \E k \in 1 .. Len(handled) : "length" \in handled[k].req.cut
          BY <4>1
        <5>1. "length" \in UNION cuts
          BY DEF LengthCut
        <5>2. PICK c \in cuts : "length" \in c
          <6> HIDE DEF cuts
          <6> QED BY <5>1
        <5>3. PICK k \in 1 .. Len(handled) : c = handled[k].req.cut
          OBVIOUS
        <5> QED BY <5>2, <5>3
      <4>3. handled' = handled
        BY <1>0
      <4>4. (\E k \in 1 .. Len(handled') : "length" \in handled'[k].req.cut) => LengthCut'
        BY DEF LengthCut
      <4> QED BY <4>2, <4>3, <4>4
    <3>4. net # <<>> => net[1].r > answered + 1 \/ (net[1].r = answered + 1 /\ net[1].i > 1)
      BY <1>0, <1>1 DEF InStep
    <3> QED BY <3>1, <3>3, <3>4, <2>1, <1>0, <1>2 DEF InStep
  <2> QED BY <2>2, <2>3, <2>4, <2>5
<1> QED BY <1>0, <1>3, <1>4

\* The rest of the body, a read at a time.
LEMMA ReadBodyKeeps ==
    ASSUME SessionInv, NEW n \in 1 .. length, ReadBody(n)
    PROVE  SessionInv'
<1> USE DEF SessionInv
<1> DEFINE q == sent[RequestOf]
           h == HeaderSize(q)
           part == SubSeq(net, 1, n)
<1>0. /\ sent \in Seq(Requests) /\ Stream(sent, net) /\ body \in Seq(CellSet)
      /\ length \in Nat /\ answered \in Nat
  BY DEF SessionType
<1>1. /\ phase = "body" /\ n <= Len(net) /\ n <= length - Len(body)
      /\ body' = body \o part /\ net' = SubSeq(net, n + 1, Len(net))
      /\ phase' = IF Len(body') < length THEN "body" ELSE "handling"
      /\ UNCHANGED <<sent, parsed, cut, length, handled, answered, dropped, pipelined, failed>>
  BY DEF ReadBody, Client
<1>2. net \in Seq(CellSet) /\ Len(net) \in Nat /\ Len(body) \in Nat /\ n \in Nat
  BY <1>0 DEF Stream
<1>3. n \in 1 .. Len(net) /\ n \in 0 .. Len(net) /\ net # <<>>
  BY <1>1, <1>2
<1>4. Stream(sent, net')
  BY <1>0, <1>1, <1>3, StreamSuffix
<1>5. part \in Seq(CellSet) /\ Len(part) = n /\ \A k \in 1 .. n : part[k] = net[k]
  <2>1. 1 \in 1 .. Len(net) + 1 /\ n <= Len(net) /\ 1 <= n + 1 /\ n - 1 + 1 = n
    BY <1>2, <1>3
  <2>2. /\ part \in Seq(CellSet) /\ Len(part) = n - 1 + 1
        /\ \A k \in 1 .. n - 1 + 1 : part[k] = net[1 + k - 1]
    BY <1>2, <2>1, PartExact
  <2>3. \A k \in 1 .. n : 1 + k - 1 = k
    BY <1>2
  <2> QED BY <2>1, <2>2, <2>3
<1> HIDE DEF part
<1>6. /\ body' \in Seq(CellSet) /\ Len(body') = Len(body) + n
      /\ \A k \in 1 .. Len(body) : body'[k] = body[k]
      /\ \A k \in 1 .. n : body'[Len(body) + k] = net[k]
  <2>1. part \in Seq(CellSet) /\ Len(part) = n
    BY <1>5
  <2>2. /\ body' \in Seq(CellSet) /\ Len(body') = Len(body) + Len(part)
        /\ \A k \in 1 .. Len(body) : body'[k] = body[k]
        /\ \A k \in 1 .. Len(part) : body'[Len(body) + k] = part[k]
    <3>1. /\ Len(body \o part) = Len(body) + Len(part) /\ body \o part \in Seq(CellSet)
          /\ \A k \in 1 .. Len(body) : (body \o part)[k] = body[k]
          /\ \A k \in 1 .. Len(part) : (body \o part)[Len(body) + k] = part[k]
      <4>1. body \in Seq(CellSet) /\ part \in Seq(CellSet)
        BY <1>0, <2>1
      <4> QED BY <4>1, JoinExact
    <3>2. body' = body \o part
      BY <1>1
    <3> QED BY <3>1, <3>2
  <2> QED BY <2>1, <2>2, <1>5
<1>7. phase' \in {"body", "handling"}
  BY <1>1
<1>8. SessionType'
  BY <1>0, <1>1, <1>4, <1>6, <1>7 DEF SessionType
<1>9. RequestOf' = RequestOf
  BY <1>1 DEF RequestOf
<1>10. /\ parsed # <<>> /\ RequestOf \in 1 .. Len(sent) /\ RequestOf \in Nat /\ q \in Requests
       /\ length = IF "length" \in cut THEN 0 ELSE q.body
  <2>1. /\ parsed # <<>> /\ RequestOf \in 1 .. Len(sent)
        /\ length = IF "length" \in cut THEN 0 ELSE q.body
    BY <1>1 DEF HeaderRead
  <2> QED BY <2>1, <1>0
<1>11. HeaderRead'
  BY <1>1, <1>7, <1>9 DEF HeaderRead
<1>12. h \in Nat /\ q.body \in Nat /\ Size(q) = h + q.body
  BY <1>10, KindsExact
<1>13. length = q.body
  BY <1>1, <1>2, <1>10, <1>12
<1>14. BodyRead'
  <2> SUFFICES ASSUME ~failed PROVE BodyRead'
    BY <1>1 DEF BodyRead
  <2>1. /\ \A k \in 1 .. Len(body) : body[k] = CellOf(sent, RequestOf, h + k)
        /\ net[1].r = RequestOf /\ net[1].i = h + Len(body) + 1
    BY <1>1 DEF BodyRead
  <2>2. Len(body') <= length /\ (phase' = "handling" => Len(body') = length)
    <3>1. Len(body') = Len(body) + n /\ n <= length - Len(body)
      BY <1>1, <1>6
    <3>2. phase' = "handling" => ~(Len(body') < length)
      BY <1>1
    <3> QED BY <3>1, <3>2, <1>0, <1>2
  <2>3. \A k \in 1 .. Len(body') : body'[k] = CellOf(sent, RequestOf, h + k)
    <3> SUFFICES ASSUME NEW k \in 1 .. Len(body') PROVE body'[k] = CellOf(sent, RequestOf, h + k)
      OBVIOUS
    <3>1. CASE k <= Len(body)
      BY <3>1, <2>1, <1>2, <1>6
    <3>2. CASE k > Len(body)
      <4>1. /\ k - Len(body) \in 1 .. n /\ Len(body) + (k - Len(body)) = k
            /\ k - Len(body) \in 1 .. Size(q) - (h + Len(body) + 1) + 1
            /\ h + Len(body) + 1 + (k - Len(body)) - 1 = h + k
        <5>1. Len(body') = Len(body) + n /\ n <= q.body - Len(body) /\ k \in 1 .. Len(body) + n
          BY <1>1, <1>6, <1>13
        <5> HIDE DEF h, q
        <5> QED BY <5>1, <3>2, <1>2, <1>12
      <4>2. body'[k] = net[k - Len(body)]
        BY <4>1, <1>6
      <4>3. net[k - Len(body)] = CellOf(sent, net[1].r, net[1].i + (k - Len(body)) - 1)
        BY <4>1, <2>1, <1>0, <1>3, StreamRun
      <4> QED BY <4>1, <4>2, <4>3, <2>1
    <3> QED BY <3>1, <3>2, <1>2, <1>6
  <2>4. phase' = "body" =>
           /\ Len(body') < length /\ net' # <<>> /\ net'[1].r = RequestOf
           /\ net'[1].i = h + Len(body') + 1
    <3> SUFFICES ASSUME phase' = "body"
                 PROVE  /\ Len(body') < length /\ net' # <<>> /\ net'[1].r = RequestOf
                        /\ net'[1].i = h + Len(body') + 1
      OBVIOUS
    <3>1. Len(body') < length
      BY <1>1
    <3>2. /\ n + 1 \in 1 .. Size(q) - (h + Len(body) + 1) + 1
          /\ h + Len(body) + 1 + (n + 1) - 1 = h + (Len(body) + n) + 1
      <4>1. Len(body) + n < q.body
        BY <3>1, <1>6, <1>13
      <4> HIDE DEF h, q
      <4> QED BY <4>1, <1>2, <1>12
    <3>3. n + 1 <= Len(net) /\ net[n + 1] = CellOf(sent, net[1].r, net[1].i + (n + 1) - 1)
      BY <3>2, <2>1, <1>0, <1>3, StreamRun
    <3>4. net' # <<>> /\ net'[1] = net[n + 1]
      <4>1. /\ Len(net') = Len(net) - n
            /\ \A k \in 1 .. Len(net) - n : net'[k] = net[n + k]
        BY <1>0, <1>1, <1>3, StreamSuffix
      <4> QED BY <4>1, <3>3, <1>2
    <3>5. net[n + 1].r = RequestOf /\ net[n + 1].i = h + Len(body') + 1
      BY <3>2, <3>3, <2>1, <1>6, CellFields
    <3> QED BY <3>1, <3>4, <3>5
  <2> QED BY <2>2, <2>3, <2>4, <1>1, <1>9 DEF BodyRead
<1>15. HandledFaithful'
  BY <1>1 DEF HandledFaithful, Sent
<1>16. InStep'
  <2> SUFFICES ASSUME ~pipelined PROVE InStep'
    BY <1>1 DEF InStep
  <2>1. net[1].r > answered + 1 \/ (net[1].r = answered + 1 /\ net[1].i > 1)
    BY <1>1, <1>3, <1>10 DEF InStep
  <2>2. net' # <<>> => net'[1].r > answered + 1 \/ (net'[1].r = answered + 1 /\ net'[1].i > 1)
    <3> SUFFICES ASSUME net' # <<>>
                 PROVE  net'[1].r > answered + 1 \/ (net'[1].r = answered + 1 /\ net'[1].i > 1)
      OBVIOUS
    <3>1. net'[1].r > net[1].r \/ (net'[1].r = net[1].r /\ net'[1].i > 1)
      BY <1>0, <1>1, <1>3, AfterRead
    <3>2. net[1].r \in Nat /\ net'[1].r \in Nat
      <4>1. 1 \in 1 .. Len(net) /\ 1 \in 1 .. Len(net')
        BY <1>2, <1>3, <1>4 DEF Stream
      <4> QED BY <4>1, <1>0, <1>4, StreamCell
    <3> QED BY <3>1, <3>2, <2>1, <1>0
  <2>3. LengthCut => LengthCut'
    BY <1>1 DEF LengthCut
  <2> QED BY <2>2, <2>3, <1>1, <1>7, <1>9, <1>10 DEF InStep
<1> QED BY <1>8, <1>11, <1>14, <1>15, <1>16

\* A turn of the loop that reads a header: a parser in error, a header that goes on,
\* a header that is whole.
LEMMA ReadHeaderKeeps ==
    ASSUME SessionInv, NEW n \in 1 .. BuffSize, ReadHeader(n)
    PROVE  SessionInv'
<1> USE DEF SessionInv
<1> DEFINE buf == SubSeq(net, 1, n)
           lost == cut \cup NewlyCut(buf)
           c == HeaderCells(parsed, net, n)
           rest == RestCells(net, n)
           len == getContentLength(c, lost)
           early == EarlyBody(rest, len)
           r0 == net[1].r
           q == sent[r0]
           h == HeaderSize(q)
<1>0. /\ sent \in Seq(Requests) /\ Stream(sent, net) /\ parsed \in Seq(CellSet)
      /\ answered \in Nat /\ cut \in SUBSET KindSet /\ Len(sent) \in Nat /\ Len(parsed) \in Nat
  BY DEF SessionType
<1>1. /\ phase = "reading" /\ n <= Len(net) /\ net' = SubSeq(net, n + 1, Len(net))
      /\ UNCHANGED <<sent, handled, answered, pipelined, failed>>
  BY DEF ReadHeader, Client
<1>2. \/ Close /\ UNCHANGED dropped
      \/ /\ ~hasError(buf, lost) /\ parsed' = c /\ cut' = lost
         /\ IF Last(c).kind # "end"
            THEN UNCHANGED <<phase, body, length, dropped>>
            ELSE /\ length' = len /\ body' = early
                 /\ phase' = IF Len(early) < len THEN "body" ELSE "handling"
                 /\ dropped' = (dropped \/ Len(early) < Len(rest))
  BY Zenon DEF ReadHeader, HeaderCells, RestCells
<1>3. net \in Seq(CellSet) /\ Len(net) \in Nat /\ n \in Nat
  BY <1>0, HttpSessionAssumption DEF Stream
<1>4. n \in 1 .. Len(net) /\ n \in 0 .. Len(net) /\ net # <<>> /\ 1 \in 1 .. Len(net)
  BY <1>1, <1>3
<1>5. Stream(sent, net')
  BY <1>0, <1>1, <1>4, StreamSuffix
<1>6. CASE Close /\ UNCHANGED dropped
  <2>1. ~pipelined => answered' <= Len(sent) /\ Len(sent) <= answered' + 1
    BY <1>1 DEF InStep
  <2> QED BY <1>0, <1>1, <1>5, <1>6, <2>1, CloseKeeps DEF Close
<1>7. CASE /\ ~hasError(buf, lost) /\ parsed' = c /\ cut' = lost
           /\ IF Last(c).kind # "end"
              THEN UNCHANGED <<phase, body, length, dropped>>
              ELSE /\ length' = len /\ body' = early
                   /\ phase' = IF Len(early) < len THEN "body" ELSE "handling"
                   /\ dropped' = (dropped \/ Len(early) < Len(rest))
  <2>1. /\ r0 \in 1 .. Len(sent) /\ r0 \in Nat /\ q \in Requests /\ net[1] \in CellSet
        /\ net[1].i \in Nat
    BY <1>0, <1>4, StreamCell DEF CellSet
  <2>2. h \in Nat /\ h >= 7 /\ q.body \in Nat /\ Size(q) = h + q.body
    BY <2>1, KindsExact
  <2>3. buf[1] = net[1]
    BY <1>3, <1>4
  <2>4. parsed = <<>> => net[1].i = 1
    BY <1>7, <2>3 DEF hasError
  <2>5. /\ net[1].i = Len(parsed) + 1 /\ Len(parsed) < h
        /\ \A k \in 1 .. Len(parsed) : parsed[k] = CellOf(sent, r0, k)
    <3>1. CASE parsed = <<>>
      BY <3>1, <2>2, <2>4
    <3>2. CASE parsed # <<>>
      <4>1. /\ net[1].r = RequestOf /\ net[1].i = Len(parsed) + 1
            /\ Len(parsed) < HeaderSize(sent[RequestOf])
            /\ \A k \in 1 .. Len(parsed) : parsed[k] = CellOf(sent, RequestOf, k)
        BY <3>2, <1>1 DEF HeaderRead
      <4> QED BY <4>1
    <3> QED BY <3>1, <3>2
  <2>6. /\ c \in Seq(CellSet) /\ Len(c) \in 1 .. h
        /\ \A k \in 1 .. Len(c) : c[k] = CellOf(sent, r0, k)
        /\ Last(c).kind = "end" <=> Len(c) = h
        /\ Len(c) < h => Len(c) = Len(parsed) + n
        /\ Len(c) = h => /\ rest \in Seq(CellSet) /\ Len(rest) = Len(parsed) + n - h
                         /\ \A k \in 1 .. Len(rest) : rest[k] = net[h - Len(parsed) + k]
    <3>1. /\ sent \in Seq(Requests) /\ Stream(sent, net) /\ parsed \in Seq(CellSet)
          /\ n \in 1 .. Len(net)
      BY <1>0, <1>4
    <3>2. TurnDone(sent, parsed, net, n)
      BY <3>1, <2>5, HeaderTurn
    <3> QED BY <3>2, Zenon DEF TurnDone
  <2>7. lost \in SUBSET KindSet
    <3>1. net[1].kind \in KindSet
      BY <2>1 DEF CellSet
    <3> QED BY <3>1, <1>0, <2>3 DEF NewlyCut
  <2>8. cut \subseteq cut'
    BY <1>7
  <2> HIDE DEF lost, c, rest
  <2>9. c # <<>> /\ c[1].r = r0 /\ 1 \in 1 .. Len(c)
    <3>1. 1 \in 1 .. Len(c)
      BY <2>6
    <3>2. c[1] = CellOf(sent, r0, 1)
      BY <3>1, <2>6
    <3>3. c[1].r = r0
      BY <3>2, CellFields
    <3> QED BY <3>1, <3>3, <2>6
  <2>10. parsed' = c /\ cut' = lost /\ RequestOf' = r0
    BY <1>7, <2>9 DEF RequestOf
  <2>11. HandledFaithful'
    BY <1>1 DEF HandledFaithful, Sent
  <2>12. \A k \in 1 .. Size(q) - Len(parsed) :
            k <= Len(net) /\ net[k] = CellOf(sent, r0, Len(parsed) + k)
    <3> SUFFICES ASSUME NEW k \in 1 .. Size(q) - Len(parsed)
                 PROVE  k <= Len(net) /\ net[k] = CellOf(sent, r0, Len(parsed) + k)
      OBVIOUS
    <3>1. k \in 1 .. Size(q) - net[1].i + 1 /\ net[1].i + k - 1 = Len(parsed) + k
      <4> HIDE DEF q, h
      <4> QED BY <1>0, <2>2, <2>5
    <3>2. k <= Len(net) /\ net[k] = CellOf(sent, net[1].r, net[1].i + k - 1)
      BY <1>0, <1>4, <3>1, StreamRun
    <3> QED BY <3>1, <3>2
  <2>13. n < Len(net) => net' # <<>> /\ net'[1] = net[n + 1]
    <3>1. Len(net') = Len(net) - n /\ \A k \in 1 .. Len(net) - n : net'[k] = net[n + k]
      BY <1>0, <1>1, <1>4, StreamSuffix
    <3> QED BY <3>1, <1>3
  <2>14. n + 1 \in 1 .. Size(q) - Len(parsed) =>
            net' # <<>> /\ net'[1].r = r0 /\ net'[1].i = Len(parsed) + n + 1
    <3> SUFFICES ASSUME n + 1 \in 1 .. Size(q) - Len(parsed)
                 PROVE  net' # <<>> /\ net'[1].r = r0 /\ net'[1].i = Len(parsed) + n + 1
      OBVIOUS
    <3>1. n + 1 <= Len(net) /\ net[n + 1] = CellOf(sent, r0, Len(parsed) + (n + 1))
      BY <2>12
    <3>2. net[n + 1].r = r0 /\ net[n + 1].i = Len(parsed) + (n + 1)
      BY <3>1, CellFields
    <3>3. n < Len(net) /\ Len(parsed) + (n + 1) = Len(parsed) + n + 1
      BY <3>1, <1>0, <1>3
    <3> QED BY <3>2, <3>3, <2>13
  \* What the two ways on share of the order with the client.
  <2>15. ~pipelined =>
            /\ r0 = answered + 1 /\ r0 = Len(sent)
            /\ net' # <<>> => \/ net'[1].r > answered + 1
                              \/ net'[1].r = answered + 1 /\ net'[1].i > 1
    <3> SUFFICES ASSUME ~pipelined
                 PROVE  /\ r0 = answered + 1 /\ r0 = Len(sent)
                        /\ net' # <<>> => \/ net'[1].r > answered + 1
                                          \/ net'[1].r = answered + 1 /\ net'[1].i > 1
      OBVIOUS
    <3>1. answered <= Len(sent) /\ Len(sent) <= answered + 1
      BY DEF InStep
    <3>2. r0 >= answered + 1
      <4>1. CASE parsed = <<>>
        <5>1. net[1].r > answered \/ (net[1].r = answered /\ net[1].i > 1)
          BY <4>1, <1>1, <1>4 DEF InStep
        <5> QED BY <5>1, <4>1, <2>1, <2>4, <1>0
      <4>2. CASE parsed # <<>>
        <5>1. net[1].r > answered + 1 \/ net[1].r = answered + 1
          BY <4>2, <1>1, <1>4 DEF InStep
        <5> QED BY <5>1, <2>1, <1>0
      <4> QED BY <4>1, <4>2
    <3>3. r0 = answered + 1 /\ r0 = Len(sent)
      BY <3>1, <3>2, <2>1, <1>0
    <3>4. net' # <<>> => net'[1].r > r0 \/ (net'[1].r = r0 /\ net'[1].i > 1)
      BY <1>0, <1>1, <1>4, AfterRead
    <3> QED BY <3>3, <3>4
  <2>16. LengthCut => LengthCut'
    <3>1. cut \subseteq cut' /\ handled' = handled
      BY <2>8, <1>1
    <3> QED BY <3>1 DEF LengthCut
  <2>17. CASE Last(c).kind # "end"
    <3>1. UNCHANGED <<phase, body, length, dropped>>
      BY <1>7, <2>17
    <3>2. Len(c) < h /\ Len(c) = Len(parsed) + n
      <4>1. Len(c) # h
        BY <2>6, <2>17
      <4> QED BY <4>1, <2>2, <2>6
    <3>3. SessionType'
      BY <1>1, <1>5, <2>6, <2>7, <2>10, <3>1 DEF SessionType
    <3>4. net' # <<>> /\ net'[1].r = r0 /\ net'[1].i = Len(c) + 1
      <4>1. n + 1 \in 1 .. Size(q) - Len(parsed)
        <5> HIDE DEF q, h
        <5> QED BY <3>2, <2>2, <1>0, <1>3
      <4> QED BY <4>1, <3>2, <2>14
    <3>5. HeaderRead'
      <4>1. /\ phase' = "reading" /\ parsed' = c /\ sent' = sent /\ RequestOf' = r0
            /\ sent'[RequestOf'] = q
        BY <3>1, <2>10, <1>1
      <4>2. c # <<>> /\ Len(c) <= h /\ \A k \in 1 .. Len(c) : c[k] = CellOf(sent, r0, k)
        BY <2>2, <2>6, <2>9
      <4> QED BY <4>1, <4>2, <3>2, <3>4, <2>1 DEF HeaderRead
    <3>6. BodyRead'
      BY <3>1, <1>1 DEF BodyRead
    <3>7. InStep'
      BY <3>1, <2>9, <2>10, <2>15, <2>16, <1>1 DEF InStep
    <3> QED BY <3>3, <3>5, <3>6, <3>7, <2>11
  <2>18. CASE Last(c).kind = "end"
    <3>1. /\ length' = len /\ body' = early
          /\ phase' = IF Len(early) < len THEN "body" ELSE "handling"
          /\ dropped' = (dropped \/ Len(early) < Len(rest))
      BY <1>7, <2>18
    <3>2. /\ Len(c) = h /\ rest \in Seq(CellSet) /\ Len(rest) = Len(parsed) + n - h
          /\ Len(rest) \in Nat
          /\ \A k \in 1 .. Len(rest) : rest[k] = net[h - Len(parsed) + k]
      BY <2>6, <2>18
    <3>3. len = IF "length" \in lost THEN 0 ELSE q.body
      <4>1. Field("length", c, lost) <=> "length" \notin lost /\ q.body > 0
        BY <3>2, <2>1, <2>6, <1>0, FieldsExact
      <4>2. len = IF Field("length", c, lost) THEN q.body ELSE 0
        BY <2>9 DEF getContentLength
      <4> QED BY <4>1, <4>2, <2>2
    <3>4. len \in Nat /\ len <= q.body
      BY <3>3, <2>2
    <3> HIDE DEF len
    <3>5. /\ early \in Seq(CellSet) /\ Len(early) = (IF len >= Len(rest) THEN Len(rest) ELSE len)
          /\ \A k \in 1 .. Len(early) : k <= Len(rest) /\ early[k] = rest[k]
      <4>1. CASE len >= Len(rest)
        <5>1. early = rest
          BY <4>1 DEF EarlyBody
        <5> HIDE DEF early
        <5> QED BY <4>1, <5>1, <3>2
      <4>2. CASE ~(len >= Len(rest))
        <5>1. early = SubSeq(rest, 1, len)
          BY <4>2 DEF EarlyBody
        <5>2. 1 \in 1 .. Len(rest) + 1 /\ len <= Len(rest) /\ 1 <= len + 1 /\ len - 1 + 1 = len
          BY <4>2, <3>2, <3>4
        <5> HIDE DEF early
        <5>3. /\ early \in Seq(CellSet) /\ Len(early) = len - 1 + 1
              /\ \A k \in 1 .. len - 1 + 1 : early[k] = rest[1 + k - 1]
          BY <5>1, <5>2, <3>2, <3>4, PartExact
        <5>4. \A k \in 1 .. len : 1 + k - 1 = k /\ k <= Len(rest)
          BY <5>2, <3>2, <3>4
        <5> QED BY <4>2, <5>2, <5>3, <5>4
      <4> QED BY <4>1, <4>2
    <3> HIDE DEF early
    <3>6. Len(early) <= len /\ Len(early) \in Nat
      BY <3>2, <3>4, <3>5
    <3>7. phase' \in {"body", "handling"} /\ dropped' \in BOOLEAN
      BY <3>1 DEF SessionType
    <3>8. SessionType'
      BY <1>1, <1>5, <2>6, <2>7, <2>10, <3>1, <3>4, <3>5, <3>7 DEF SessionType
    <3>9. HeaderRead'
      BY <3>1, <3>2, <3>3, <3>7, <2>1, <2>2, <2>6, <2>9, <2>10, <1>1 DEF HeaderRead
    <3>10. BodyRead'
      <4>1. \A k \in 1 .. Len(early) : early[k] = CellOf(sent, r0, h + k)
        <5> SUFFICES ASSUME NEW k \in 1 .. Len(early) PROVE early[k] = CellOf(sent, r0, h + k)
          OBVIOUS
        <5>1. k \in 1 .. Len(rest)
          BY <3>2, <3>5, <3>6
        <5>2. early[k] = net[h - Len(parsed) + k]
          BY <5>1, <3>2, <3>5
        <5>3. /\ h - Len(parsed) + k \in 1 .. Size(q) - Len(parsed)
              /\ Len(parsed) + (h - Len(parsed) + k) = h + k
          <6>1. k \in Nat /\ k >= 1 /\ k <= q.body /\ Len(parsed) < h
            BY <3>4, <3>6, <2>2, <2>5
          <6> HIDE DEF h, q
          <6> QED BY <6>1, <2>2, <1>0
        <5> QED BY <5>2, <5>3, <2>12
      <4>2. Len(early) < len => /\ net' # <<>> /\ net'[1].r = r0
                                /\ net'[1].i = h + Len(early) + 1
        <5> SUFFICES ASSUME Len(early) < len
                     PROVE  net' # <<>> /\ net'[1].r = r0 /\ net'[1].i = h + Len(early) + 1
          OBVIOUS
        <5>1. Len(early) = Len(rest) /\ Len(rest) < q.body
          BY <3>2, <3>4, <3>5, <2>2
        <5>2. /\ n + 1 \in 1 .. Size(q) - Len(parsed)
              /\ Len(parsed) + n + 1 = h + Len(early) + 1
          <6>1. Len(rest) = Len(parsed) + n - h
            BY <3>2
          <6> HIDE DEF h, q
          <6> QED BY <5>1, <6>1, <2>2, <1>0, <1>3
        <5> QED BY <5>2, <2>14
      <4>3. /\ body' = early /\ length' = len /\ sent' = sent /\ RequestOf' = r0
            /\ sent'[RequestOf'] = q
        BY <3>1, <2>10, <1>1
      <4>4. phase' = "handling" => Len(early) = len
        BY <3>1, <3>4, <3>6
      <4>5. phase' = "body" => Len(early) < len
        BY <3>1
      <4> HIDE DEF h, q, r0
      <4> QED BY <4>1, <4>2, <4>3, <4>4, <4>5, <3>6 DEF BodyRead, h
    <3>11. InStep'
      <4> SUFFICES ASSUME ~pipelined PROVE InStep'
        BY <1>1 DEF InStep
      <4>1. Len(rest) <= q.body
        <5>1. Len(net) <= Size(q) - Len(parsed)
          <6> SUFFICES ASSUME Len(net) > Size(q) - Len(parsed) PROVE FALSE
            BY <1>0, <1>3, <2>2
          <6> DEFINE m == Size(q) - Len(parsed)
          <6>1. /\ m \in 1 .. m /\ m \in 1 .. Len(net) /\ m + 1 \in 1 .. Len(net)
                /\ Len(parsed) + m = Size(q)
            <7>1. Len(parsed) < h
              BY <2>5
            <7> HIDE DEF h, q
            <7> QED BY <7>1, <1>0, <1>3, <2>2
          <6>2. net[m] = CellOf(sent, r0, Size(q))
            BY <6>1, <2>12
          <6>3. net[m].r = r0 /\ net[m].i = Size(q)
            BY <6>2, CellFields
          <6>4. net[m].i = Size(sent[net[m].r]) /\ m # Len(net)
            BY <6>3, <1>3, <2>2, <1>0
          <6> HIDE DEF m
          <6>5. net[m + 1].r = net[m].r + 1
            <7>1. \/ m = Len(net) /\ net[m].r = Len(sent)
                  \/ m < Len(net) /\ net[m + 1].r = net[m].r + 1 /\ net[m + 1].i = 1
              <8>1. sent \in Seq(Requests) /\ Stream(sent, net) /\ m \in 1 .. Len(net)
                BY <6>1, <1>0
              <8> QED BY <8>1, <6>4, StreamNext
            <7> QED BY <7>1, <6>4
          <6>6. net[m + 1].r \in 1 .. Len(sent)
            BY <6>1, <1>0, StreamCell
          <6> QED BY <6>3, <6>5, <6>6, <2>1, <2>15, <1>0
        <5>2. Len(rest) = Len(parsed) + n - h /\ n <= Len(net)
          BY <3>2, <1>1
        <5> HIDE DEF h, q
        <5> QED BY <5>1, <5>2, <2>2, <1>0, <1>3
      <4>2. Len(early) < Len(rest) => "length" \in cut'
        <5>1. "length" \notin lost => len = q.body
          BY <3>3
        <5>2. "length" \notin lost => Len(early) = Len(rest)
          BY <5>1, <4>1, <3>2, <3>4, <3>5
        <5> QED BY <5>2, <2>10, <3>2
      <4>3. dropped' => LengthCut'
        <5>1. dropped => LengthCut
          BY DEF InStep
        <5>2. Len(early) < Len(rest) => LengthCut'
          BY <4>2 DEF LengthCut
        <5>3. dropped' => dropped \/ Len(early) < Len(rest)
          BY <3>1
        <5> QED BY <5>1, <5>2, <5>3, <2>16
      <4>4. /\ answered <= Len(sent) /\ Len(sent) <= answered + 1
            /\ Len(handled) = answered /\ \A k \in 1 .. Len(handled) : handled[k].req.r = k
        BY <1>1 DEF InStep
      <4> QED BY <4>3, <4>4, <3>7, <2>9, <2>10, <2>15, <1>1 DEF InStep
    <3> QED BY <3>8, <3>9, <3>10, <3>11, <2>11
  <2> QED BY <2>17, <2>18
<1> QED BY <1>2, <1>6, <1>7

\* Every step of the session, and of its client, keeps SessionInv.
LEMMA SessionInvNext == SessionInv /\ [SessionNext]_sessionVars => SessionInv'
<1> SUFFICES ASSUME SessionInv, [SessionNext]_sessionVars PROVE SessionInv'
  OBVIOUS
<1>1. ASSUME NEW q \in Requests, ClientSends(q) PROVE SessionInv'
  BY <1>1, SendKeeps
<1>2. CASE ClientCloses
  BY <1>2, SessionRests DEF ClientCloses
<1>3. ASSUME NEW n \in 1 .. BuffSize, ReadHeader(n) PROVE SessionInv'
  BY <1>3, ReadHeaderKeeps
<1>4. ASSUME NEW n \in 1 .. length, ReadBody(n) PROVE SessionInv'
  BY <1>4, ReadBodyKeeps
<1>5. CASE Handle
  BY <1>5, HandleKeeps
<1>6. CASE Answer
  BY <1>6, AnswerKeeps
<1>7. CASE ReadHeaderFails
  BY <1>7, ReadHeaderFailsKeeps
<1>8. CASE ReadBodyFails
  BY <1>8, ReadBodyFailsKeeps
<1>9. CASE AnswerFails
  BY <1>9, AnswerFailsKeeps
<1>10. CASE UNCHANGED sessionVars
  BY <1>10, SessionRests DEF sessionVars
<1> QED BY <1>1, <1>2, <1>3, <1>4, <1>5, <1>6, <1>7, <1>8, <1>9, <1>10 DEF SessionNext, SessionStep

\* However the bytes of its requests arrive, a client's requests reach the servlets whole
\* and in step with their answers, for every set of requests, every size of the buffer
\* and any number of requests and timeouts.
THEOREM SessionCorrect == SessionInit /\ [][SessionNext]_sessionVars => []SessionConsistent
<1>1. SessionInv => SessionConsistent
  <2> SUFFICES ASSUME SessionInv PROVE SessionConsistent
    OBVIOUS
  <2>1. RequestFaithful
    BY DEF SessionInv, HandledFaithful, RequestFaithful
  <2>2. AnswersPaired
    BY DEF SessionInv, InStep, LengthCut, AnswersPaired
  <2> QED BY <2>1, <2>2 DEF SessionConsistent
<1> QED BY <1>1, SessionInvInit, SessionInvNext, PTL
=============================================================================
