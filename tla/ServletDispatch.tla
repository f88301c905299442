-------------------------- MODULE ServletDispatch ---------------------------
(***************************************************************************)
(* The servlet table of sylar/http/servlet.cc: exact uris in a map, patterns *)
(* in a vector searched from the front, a default.  Every operation is one   *)
(* critical section of m_mutex, so operations of different threads follow    *)
(* each other; a request runs its servlet after it has given up the lock.    *)
(***************************************************************************)
EXTENDS Integers, Sequences, SequencesExt

CONSTANTS
    Uris,         \* the paths of requests
    Globs,        \* pattern -> the paths it matches (fnmatch)
    Servlets,
    NoServlet,    \* m_default
    MaxTableOps   \* bound on the changes of the table

ASSUME ServletAssumption == NoServlet \notin Servlets

VARIABLES
    m_datas,      \* uri -> servlet, NoServlet where there is none
    m_globs,      \* sequence of <<pattern, servlet>>
    past,         \* history: the changes, oldest first
    served        \* history: what a request got, with the changes before it

servletVars == <<m_datas, m_globs, past, served>>

ServletInit ==
    /\ m_datas = [u \in Uris |-> NoServlet] /\ m_globs = <<>>
    /\ past = <<>> /\ served = {}

Changes(op, u, s) == Len(past) < MaxTableOps /\ past' = Append(past, [op |-> op, uri |-> u, slt |-> s])

addServlet(u, s) ==
    /\ Changes("add", u, s)
    /\ m_datas' = [m_datas EXCEPT ![u] = s]
    /\ UNCHANGED <<m_globs, served>>

delServlet(u) ==
    /\ Changes("add", u, NoServlet)
    /\ m_datas' = [m_datas EXCEPT ![u] = NoServlet]
    /\ UNCHANGED <<m_globs, served>>

\* Mutant: the old entry of the pattern stays in front.
Kept(g) == m_globs

\* m_globs without the first entry of pattern g.
Erased(g) == RemoveFirstMatch(m_globs, LAMBDA e : e[1] = g)

addGlobServlet(g, s) ==
    /\ Changes("glob", g, s)
    /\ m_globs' = Append(Erased(g), <<g, s>>)
    /\ UNCHANGED <<m_datas, served>>

delGlobServlet(g) ==
    /\ Changes("glob", g, NoServlet)
    /\ m_globs' = Erased(g)
    /\ UNCHANGED <<m_datas, served>>

\* The exact uri, else the first pattern that matches, else the default.
getMatchedServlet(u) ==
    LET hit == SelectInSeq(m_globs, LAMBDA e : u \in Globs[e[1]])
    IN IF m_datas[u] # NoServlet THEN m_datas[u]
       ELSE IF hit # 0 THEN m_globs[hit][2] ELSE NoServlet

\* ServletDispatch::handle
Dispatch(u) ==
    /\ served' = {[uri |-> u, slt |-> getMatchedServlet(u), at |-> Len(past)]}
    /\ UNCHANGED <<m_datas, m_globs, past>>

ServletNext ==
    \/ \E u \in Uris : delServlet(u) \/ Dispatch(u) \/ \E s \in Servlets : addServlet(u, s)
    \/ \E g \in DOMAIN Globs : delGlobServlet(g) \/ \E s \in Servlets : addGlobServlet(g, s)

-----------------------------------------------------------------------------
(* Properties                                                               *)

\* The last change of a uri or pattern among the first n; 0 for none.
LastChange(op, u, n) ==
    LET at == {i \in 1 .. n : past[i].op = op /\ past[i].uri = u}
    IN IF at = {} THEN 0 ELSE CHOOSE i \in at : \A j \in at : j <= i

Live(i) == i # 0 /\ past[i].slt # NoServlet

\* A request gets what the changes before it say: the last servlet added for its
\* uri; else, of the patterns that match it, the one whose current servlet was
\* added first (adding a pattern again puts it behind the others); else none.
DispatchFollowsHistory ==
    \A h \in served :
        LET exact == LastChange("add", h.uri, h.at)
            live == {i \in {LastChange("glob", g, h.at) : g \in {p \in DOMAIN Globs : h.uri \in Globs[p]}} :
                        Live(i)}
        IN h.slt = IF Live(exact) THEN past[exact].slt
                   ELSE IF live = {} THEN NoServlet
                   ELSE past[CHOOSE i \in live : \A j \in live : i <= j].slt
=============================================================================
