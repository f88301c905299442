------------------------------ MODULE LogConfig -----------------------------
(***************************************************************************)
(* Loggers, their appenders and the listener that reconfigures them from    *)
(* the configuration variable "logs": sylar/log.cc.                          *)
(*                                                                         *)
(* The listener changes a logger in several steps, each under the logger's  *)
(* mutex, while other threads log through it.  A formatter is reduced to its *)
(* pattern, of which "bad" is one that LogFormatter::init rejects, and ""    *)
(* means that none is given.  A level is a number; 100 disables a logger.    *)
(* setValue calls the listener under a shared lock, so that calls of two      *)
(* threads may run together, and stores the value once no listener runs.      *)
(***************************************************************************)
EXTENDS Integers, Sequences

CONSTANTS
    LoggerNames,  \* the root logger and others
    LogDefines,   \* values of "logs": functions from names to a LogDefine or NoDefine
    NoDefine,
    LogThreads,   \* threads that log
    LogSetters,   \* threads that set the variable "logs"
    MaxLogOps     \* bound on reconfigurations, messages and API calls

Root == "root"
Off == 100
Default == "default"

ASSUME LogAssumption == Root \in LoggerNames /\ MaxLogOps \in Nat

VARIABLES
    logs,         \* the value of the variable
    call,         \* each setter's call of setValue
    level, formatter, appenders, \* Logger: m_level, m_formatter, m_appenders
    logPc, logMsg, \* a logging thread: its logger and level
    written,      \* what became of its last message
    touched,      \* history: loggers the program changed itself
    mixed,        \* history: two calls of setValue overlapped
    logOps

logVars == <<logs, call, level, formatter, appenders, logPc, logMsg, written,
             touched, mixed, logOps>>

NoLogger == "none"
Nowhere == [l |-> NoLogger, step |-> "none", n |-> 0]

\* A call: target is the new value, todo the loggers the listener still has to visit,
\* at the logger it is changing and how far it is.
NoCall == [pc |-> "idle", target |-> [l \in LoggerNames |-> NoDefine], todo |-> {}, at |-> Nowhere]

\* The root logger has a console appender; getLogger builds any other on first use
\* without one: it logs through the root logger.
FirstAppenders(l) == IF l = Root THEN <<[fmt |-> Default, own |-> FALSE, level |-> 1]>> ELSE <<>>

LogInit ==
    /\ logs = [l \in LoggerNames |-> NoDefine]
    /\ call = [r \in LogSetters |-> NoCall]
    /\ level = [l \in LoggerNames |-> 1]
    /\ formatter = [l \in LoggerNames |-> Default]
    /\ appenders = [l \in LoggerNames |-> FirstAppenders(l)]
    /\ logPc = [t \in LogThreads |-> "idle"]
    /\ logMsg = [t \in LogThreads |-> [l |-> NoLogger, lev |-> 0]]
    /\ written = [t \in LogThreads |-> "none"]
    /\ touched = {} /\ mixed = FALSE
    /\ logOps = 0

LogOp == logOps < MaxLogOps /\ logOps' = logOps + 1
msgVars == <<logPc, logMsg, written>>
setVars == <<logs, call, mixed>>

\* No thread is inside log() of l, which keeps l's mutex while the root logger writes.
Free(l) == \A t \in LogThreads : logPc[t] \in {"rootTest", "rootOutput"} => logMsg[t].l # l

-----------------------------------------------------------------------------
(* Logger                                                                   *)

\* Mutant: appenders without a formatter of their own keep the old one.
OnlyLogger(l, f) ==
    formatter' = [formatter EXCEPT ![l] = f] /\ UNCHANGED appenders

\* setFormatter(ptr): also for the appenders that use the logger's.
SetFormatterPtr(l, f) ==
    /\ formatter' = [formatter EXCEPT ![l] = f]
    /\ appenders' = [appenders EXCEPT ![l] =
          [i \in DOMAIN @ |-> IF @[i].own THEN @[i] ELSE [@[i] EXCEPT !.fmt = f]]]

\* setFormatter(string) refuses a pattern with an error.
setFormatter(l, f) ==
    IF f = "bad" THEN UNCHANGED <<formatter, appenders>> ELSE SetFormatterPtr(l, f)

\* addAppender: one without a formatter gets the logger's.
addAppender(l, f, lev) ==
    appenders' = [appenders EXCEPT ![l] =
        Append(@, IF f = "" THEN [fmt |-> formatter[l], own |-> FALSE, level |-> lev]
                            ELSE [fmt |-> f, own |-> TRUE, level |-> lev])]

clearAppenders(l) == appenders' = [appenders EXCEPT ![l] = <<>>]

RemoveAt(s, i) == [j \in 1 .. Len(s) - 1 |-> IF j < i THEN s[j] ELSE s[j + 1]]

\* The program changes a logger through its own methods; setLevel takes no lock.
UserChange(l) ==
    /\ LogOp
    /\ touched' = touched \cup {l}
    /\ \/ /\ Free(l)
          /\ \/ \E f \in {"A", "bad"} : setFormatter(l, f)
             \/ /\ \E f \in {"", "A"}, lev \in 1 .. 2 : addAppender(l, f, lev)
                /\ UNCHANGED formatter
             \/ /\ \E i \in DOMAIN appenders[l] :
                      appenders' = [appenders EXCEPT ![l] = RemoveAt(@, i)]
                /\ UNCHANGED formatter
          /\ UNCHANGED level
       \/ /\ \E lev \in 1 .. 2 : level' = [level EXCEPT ![l] = lev]
          /\ UNCHANGED <<formatter, appenders>>
    /\ UNCHANGED <<setVars, msgVars>>

\* log(): the level is read without the lock.
LogBegin(t, l, lev) ==
    /\ logPc[t] = "idle"
    /\ LogOp
    /\ logMsg' = [logMsg EXCEPT ![t] = [l |-> l, lev |-> lev]]
    /\ written' = [written EXCEPT ![t] = "none"]
    /\ logPc' = [logPc EXCEPT ![t] = IF lev < level[l] THEN "idle" ELSE "output"]
    /\ UNCHANGED <<setVars, level, formatter, appenders, touched>>

\* Every appender tests its own level; a logger with neither appenders nor a root drops.
Output(l, lev) ==
    IF appenders[l] = <<>> THEN "lost"
    ELSE IF \E i \in DOMAIN appenders[l] : lev >= appenders[l][i].level THEN "written"
    ELSE "filtered"

LogEnd(t, result) ==
    /\ written' = [written EXCEPT ![t] = result]
    /\ logPc' = [logPc EXCEPT ![t] = "idle"]

\* Under the logger's mutex: its appenders, or without any the root logger.
LogOutput(t) ==
    /\ logPc[t] = "output" /\ Free(logMsg[t].l)
    /\ IF appenders[logMsg[t].l] = <<>> /\ logMsg[t].l # Root
       THEN logPc' = [logPc EXCEPT ![t] = "rootTest"] /\ UNCHANGED written
       ELSE LogEnd(t, Output(logMsg[t].l, logMsg[t].lev))
    /\ UNCHANGED <<setVars, level, formatter, appenders, logMsg, touched, logOps>>

\* log() of the root logger: its level ...
RootTest(t) ==
    /\ logPc[t] = "rootTest"
    /\ IF logMsg[t].lev < level[Root]
       THEN LogEnd(t, "filtered")
       ELSE logPc' = [logPc EXCEPT ![t] = "rootOutput"] /\ UNCHANGED written
    /\ UNCHANGED <<setVars, level, formatter, appenders, logMsg, touched, logOps>>

\* ... and its appenders; it has no root of its own.
RootOutput(t) ==
    /\ logPc[t] = "rootOutput"
    /\ LogEnd(t, Output(Root, logMsg[t].lev))
    /\ UNCHANGED <<setVars, level, formatter, appenders, logMsg, touched, logOps>>

-----------------------------------------------------------------------------
(* setValue of "logs" and the listener of LogIniter                          *)

\* The read lock and the comparison: the listener runs if the value is another one.
ListenerBegin(r, new) ==
    /\ call[r].pc = "idle"
    /\ LogOp
    /\ new # logs
    /\ call' = [call EXCEPT ![r] =
          [pc |-> "run", target |-> new,
           todo |-> {l \in LoggerNames : new[l] # logs[l]}, at |-> Nowhere]]
    /\ mixed' = (mixed \/ \E q \in LogSetters : call[q].pc # "idle")
    /\ UNCHANGED <<logs, level, formatter, appenders, msgVars, touched>>

Disabled(r, l) == call[r].target[l] = NoDefine

MoveTo(r, place) == call' = [call EXCEPT ![r].at = place]

\* setLevel of a new, changed or deleted logger; new and changed ones come first.
ListenerLevel(r, l) ==
    /\ call[r].at = Nowhere /\ l \in call[r].todo
    /\ Disabled(r, l) => \A m \in call[r].todo : Disabled(r, m)
    /\ level' = [level EXCEPT ![l] = IF Disabled(r, l) THEN Off ELSE call[r].target[l].level]
    /\ call' = [call EXCEPT
          ![r].todo = @ \ {l},
          ![r].at = [l |-> l, step |-> IF Disabled(r, l) THEN "clear" ELSE "format", n |-> 0]]
    /\ UNCHANGED <<logs, mixed, formatter, appenders, msgVars, touched, logOps>>

ListenerFormat(r) ==
    LET l == call[r].at.l IN
    /\ call[r].at.step = "format" /\ Free(l)
    /\ IF call[r].target[l].fmt = "" THEN UNCHANGED <<formatter, appenders>>
                                     ELSE setFormatter(l, call[r].target[l].fmt)
    /\ MoveTo(r, [call[r].at EXCEPT !.step = "clear"])
    /\ UNCHANGED <<logs, mixed, level, msgVars, touched, logOps>>

ListenerClears(l) == clearAppenders(l)

ListenerClear(r) ==
    LET l == call[r].at.l IN
    /\ call[r].at.step = "clear" /\ Free(l)
    /\ ListenerClears(l)
    /\ MoveTo(r, IF Disabled(r, l) THEN Nowhere ELSE [call[r].at EXCEPT !.step = "append"])
    /\ UNCHANGED <<logs, mixed, level, formatter, msgVars, touched, logOps>>

\* The appender's own pattern is installed if it has an error (log.cc 1010),
\* and reported as invalid otherwise.
OwnPattern(f) == IF f = "bad" THEN "bad" ELSE ""

\* Appenders from the configuration have the level UNKNOW, which lets everything pass.
ListenerAppend(r) ==
    LET at == call[r].at IN
    /\ at.step = "append" /\ at.n < Len(call[r].target[at.l].appenders) /\ Free(at.l)
    /\ addAppender(at.l, OwnPattern(call[r].target[at.l].appenders[at.n + 1]), 0)
    /\ MoveTo(r, [at EXCEPT !.n = @ + 1])
    /\ UNCHANGED <<logs, mixed, level, formatter, msgVars, touched, logOps>>

ListenerNext(r) ==
    /\ call[r].at.step = "append"
    /\ call[r].at.n = Len(call[r].target[call[r].at.l].appenders)
    /\ MoveTo(r, Nowhere)
    /\ UNCHANGED <<logs, mixed, level, formatter, appenders, msgVars, touched, logOps>>

\* The listener returns and the read lock is released.
ListenerEnd(r) ==
    /\ call[r].pc = "run" /\ call[r].todo = {} /\ call[r].at = Nowhere
    /\ call' = [call EXCEPT ![r].pc = "store"]
    /\ UNCHANGED <<logs, mixed, level, formatter, appenders, msgVars, touched, logOps>>

\* The write lock waits for every reader.
StoreLogs(r) ==
    /\ call[r].pc = "store" /\ \A q \in LogSetters : call[q].pc # "run"
    /\ logs' = call[r].target
    /\ call' = [call EXCEPT ![r] = NoCall]
    /\ UNCHANGED <<mixed, level, formatter, appenders, msgVars, touched, logOps>>

LogNext ==
    \/ \E l \in LoggerNames : UserChange(l)
    \/ \E t \in LogThreads :
          \/ LogOutput(t) \/ RootTest(t) \/ RootOutput(t)
          \/ \E l \in LoggerNames, lev \in 1 .. 2 : LogBegin(t, l, lev)
    \/ \E r \in LogSetters :
          \/ \E new \in LogDefines : ListenerBegin(r, new)
          \/ \E l \in LoggerNames : ListenerLevel(r, l)
          \/ ListenerFormat(r) \/ ListenerClear(r) \/ ListenerAppend(r) \/ ListenerNext(r)
          \/ ListenerEnd(r) \/ StoreLogs(r)

-----------------------------------------------------------------------------
(* Properties                                                               *)

\* Every appender without a formatter of its own formats like its logger, through
\* setFormatter, addAppender and reconfigurations in any order, two at a time
\* (log.cc 301-316, 368-382).
InheritedInSync ==
    \A l \in LoggerNames : \A i \in DOMAIN appenders[l] :
        ~appenders[l][i].own => appenders[l][i].fmt = formatter[l]

\* A configuration value leaves the root logger without an appender.
NoneFor(value) == value[Root] # NoDefine /\ Len(value[Root].appenders) = 0

\* Why the root logger may have no appender: the program or two mixed reconfigurations
\* saw to it, a configuration says so or deleted it, or the listener is changing it.
RootBare ==
    \/ Root \in touched \/ mixed \/ level[Root] = Off
    \/ NoneFor(logs)
    \/ \E r \in LogSetters : call[r].pc # "idle" /\ (call[r].at.l = Root \/ NoneFor(call[r].target))

\* A message that passed the level tests on its way is lost only when the root logger
\* has no appender, and then for one of those reasons: a logger that has none in the
\* middle of its own reconfiguration loses nothing (log.cc 406-432, 992).
MessageWritten ==
    [][\A t \in LogThreads :
          written'[t] = "lost" /\ written[t] # "lost" => RootBare]_logVars

\* Between the calls of setValue, if no two overlapped, level and appenders of every
\* logger that only the configuration changes are a function of the present value,
\* whatever sequence of values led to it: a deleted logger is off and empty, a logger
\* that comes back has lost nothing (log.cc 962-1036).
ConfigurationDecides ==
    ~mixed /\ (\A r \in LogSetters : call[r].pc = "idle") =>
        \A l \in LoggerNames \ touched :
            IF logs[l] = NoDefine
            THEN \/ level[l] = 1 /\ appenders[l] = FirstAppenders(l)
                 \/ level[l] = Off /\ appenders[l] = <<>>
            ELSE /\ level[l] = logs[l].level
                 /\ Len(appenders[l]) = Len(logs[l].appenders)
                 /\ \A i \in DOMAIN appenders[l] :
                       appenders[l][i].own = (logs[l].appenders[i] = "bad")

\* A logger is as the configuration and its users left it, and loses no message
\* on the way there.
LogConsistent == [](InheritedInSync /\ ConfigurationDecides) /\ MessageWritten
=============================================================================
