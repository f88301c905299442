------------------------------ MODULE MC_Base -------------------------------
(* What every other part relies on, for TLC: descriptor tables, thread        *)
(* start-up, configuration, loggers, byte arrays, codings, parsers.  They share *)
(* no state, so a behaviour exercises one of them; the others stay as they are.  *)
EXTENDS FdTable, ThreadStart, Config, LogConfig, ByteArray, Coding, Parsers, TLC

VARIABLE part

Define(lev, f, as) == [level |-> lev, fmt |-> f, appenders |-> as]

\* Values of "logs": nothing or one appender for the root logger, and for the others
\* also another level with two appenders.
MCLogDefines ==
    {d \in [LoggerNames -> {NoDefine, Define(1, "", <<"">>), Define(2, "B", <<"bad", "">>)}] :
        d[Root] # Define(2, "B", <<"bad", "">>)}

Init ==
    /\ part \in {"fd", "thread", "config", "log", "bytes", "coding", "parse"}
    /\ FdInit /\ ThreadInit /\ ConfigInit /\ LogInit /\ ByteInit /\ CodingInit
    /\ IF part = "parse" THEN ParserInit ELSE ParserFailed

\* The variables of every part but this one stay as they are.
Others(own) ==
    /\ own # "fd" => UNCHANGED fdTableVars
    /\ own # "thread" => UNCHANGED threadVars
    /\ own # "config" => UNCHANGED configVars
    /\ own # "log" => UNCHANGED logVars
    /\ own # "bytes" => UNCHANGED byteVars
    /\ own # "coding" => UNCHANGED codingVars
    /\ own # "parse" => UNCHANGED parserVars

Next ==
    /\ UNCHANGED part
    /\ \/ part = "fd" /\ FdNext
       \/ part = "thread" /\ ThreadNext
       \/ part = "config" /\ ConfigNext
       \/ part = "log" /\ LogNext
       \/ part = "bytes" /\ ByteNext
       \/ part = "coding" /\ CodingNext
       \/ part = "parse" /\ ParserNext
    /\ Others(part)

Spec ==
    Init /\ [][Next]_<<part, fdTableVars, threadVars, configVars, logVars, byteVars, codingVars, parserVars>>

\* The actors of a part are interchangeable.
Symmetry == Permutations(HookedUsers) \cup Permutations(Creators) \cup Permutations(Setters)
=============================================================================
