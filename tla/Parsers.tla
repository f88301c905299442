------------------------------ MODULE Parsers -------------------------------
(***************************************************************************)
(* The three generated parsers against their grammars.  A machine reads its *)
(* input a character at a time; `derivations` are the ways its grammar can   *)
(* have read the same input, each with the positions on which it and the     *)
(* machine agree.  The input ends wherever a behaviour is cut off, so the    *)
(* invariants speak of every input of every length.                          *)
(***************************************************************************)
EXTENDS ParserGrammar, FiniteSetsExt

Req == INSTANCE HttpRequestMachine
Rsp == INSTANCE HttpResponseMachine
Uri == INSTANCE UriMachine

VARIABLES
    machine,       \* which parser
    cs,            \* its state
    derivations    \* [left, same, torn]: symbols to come, registers that agree,
                   \* whether a known flaw has come between

parserVars == <<machine, cs, derivations>>

RequestGrammar == http_parser(Req!Any)
ResponseGrammar == httpclient_parser(Rsp!Any)

grammar ==
    CASE machine = "request" -> RequestGrammar
      [] machine = "response" -> ResponseGrammar
      [] machine = "uri" -> uri_parser

Characters ==
    CASE machine = "request" -> Req!Any [] machine = "response" -> Rsp!Any [] machine = "uri" -> Uri!Any

edges ==
    CASE machine = "request" -> Req!states[cs]
      [] machine = "response" -> Rsp!states[cs]
      [] machine = "uri" -> Uri!states[cs]

has_error == cs = Req!http_parser_error

\* is_finished() of the request and the URI takes every final state, that of the
\* response only the first.
is_finished ==
    CASE machine = "request" -> cs >= Req!http_parser_first_final
      [] machine = "response" -> cs = Rsp!httpclient_parser_first_final
      [] machine = "uri" -> cs >= Uri!uri_parser_first_final

-----------------------------------------------------------------------------
(* Positions the actions keep in mark, field_start and query_start *)

Registers == {"mark", "field_start", "query_start"}

\* The register an action sets to the position read, and those it reads.
Sets == [mark |-> "mark", marku |-> "mark", markh |-> "mark", start_value |-> "mark",
         start_field |-> "field_start", start_query |-> "query_start"]

Reads ==
    [a \in {"request_method", "request_uri", "fragment", "http_version", "request_path",
            "reason_phrase", "status_code", "chunk_size", "write_content_len", "save_scheme",
            "save_port", "save_userinfo", "save_host", "save_path", "save_query", "save_fragment"}
        |-> {"mark"}]
    @@ [write_value |-> {"mark", "field_start"}, write_field |-> {"field_start"},
        query_string |-> {"query_start"}]

\* The actions of uri.rl that set mark to NULL when they are through.
Clears == {"save_scheme", "save_port", "save_userinfo", "save_path", "save_query", "save_fragment"}

\* Register r when the i-th action of the list runs: still what it was, this
\* position, or NULL.
Value(list, i, r) ==
    LET touched == {j \in 1 .. i - 1 :
                       \/ list[j] \in DOMAIN Sets /\ Sets[list[j]] = r
                       \/ list[j] \in Clears /\ r = "mark"}
    IN IF touched = {} THEN "kept" ELSE IF list[Max(touched)] \in Clears THEN "null" ELSE "here"

\* The machine before its i-th action and a derivation before its j-th have the
\* same position in r.
SameValue(done, i, due, j, r, same) ==
    /\ Value(done, i, r) = Value(due, j, r)
    /\ Value(due, j, r) = "kept" => r \in same

-----------------------------------------------------------------------------

\* The moves of all derivations; on a character, what a guard has ended is out.
AllMoves ==
    UNION {{[m |-> m, same |-> d.same, torn |-> d.torn] : m \in Moves(grammar, <<>>, {}, d.left)} :
           d \in derivations}

On(moves, c) ==
    LET able == {x \in moves : c \in x.m.on}
        passed == UNION {x.m.passed : x \in able}
    IN {x \in able : \A i \in 1 .. Len(x.m.rest) : x.m.rest[i] \notin passed}

\* The edge of the machine on c; there is none to the error.
Edge(c) == {e \in edges : c \in e.on}

\* Where a parser is known to tear a token.  Uri::Create takes a digit after a
\* colon for a port and moves mark, so that a userinfo such as u:8 loses its
\* beginning; a Content-Length or Transfer-Encoding whose value is on the next
\* line has field_start moved as for another field.
TornAt == {<<"uri", 489>>, <<"uri", 542>>, <<"response", 73>>, <<"response", 117>>}

\* And an action owed twice on one character runs once: mark is set once for an
\* empty port and the path after it, save_port clears it, and save_path reads NULL.
OwedTwice(x) == \E i, j \in 1 .. Len(x.m.do) : i < j /\ x.m.do[i] = x.m.do[j]

After(done, to, x) ==
    LET same == {r \in Registers : SameValue(done, Len(done) + 1, x.m.do, Len(x.m.do) + 1, r, x.same)}
    IN [left |-> x.m.rest, same |-> same,
        torn |-> x.torn \/ OwedTwice(x) \/ (<<machine, to>> \in TornAt /\ ~(x.same \subseteq same))]

ParserInit ==
    \E m \in {"request", "response", "uri"} :
        /\ machine = m
        /\ cs = CASE m = "request" -> Req!http_parser_start
                  [] m = "response" -> Rsp!httpclient_parser_start
                  [] m = "uri" -> Uri!uri_parser_start
        /\ derivations = {[left |-> <<"main">>, same |-> Registers, torn |-> FALSE]}

\* A parser that has failed reads no more.
ParserFailed == machine = "request" /\ cs = Req!http_parser_error /\ derivations = {}

\* A character is read.
Read(c, moves) ==
    /\ machine' = machine
    /\ IF Edge(c) = {}
       THEN cs' = Req!http_parser_error /\ derivations' = {After(<<>>, cs', x) : x \in On(moves, c)}
       ELSE \E e \in Edge(c) : /\ cs' = e.to
                               /\ derivations' = {After(e.do, e.to, x) : x \in On(moves, c)}

\* `done` leaves the loop (fbreak), and nobody calls a parser that is finished;
\* a URI is read to its end.
ParserNext ==
    /\ ~has_error
    /\ machine # "uri" => ~is_finished
    /\ LET moves == AllMoves IN \E c \in Characters : Read(c, moves)

-----------------------------------------------------------------------------
(* Properties *)

\* The actions `done` of the machine are those some derivation owes, each once
\* and in an order every derivation agrees with.
ActionsOwed(done, xs) ==
    /\ {done[i] : i \in 1 .. Len(done)} = UNION {{x.m.do[i] : i \in 1 .. Len(x.m.do)} : x \in xs}
    /\ \A i, j \in 1 .. Len(done) : done[i] = done[j] => i = j
    /\ \A x \in xs : \A i \in 1 .. Len(x.m.do) : \A j \in i + 1 .. Len(x.m.do) :
          (\A k \in 1 .. j - 1 : x.m.do[k] # x.m.do[j]) =>
              \E k, l \in 1 .. Len(done) : k < l /\ done[k] = x.m.do[i] /\ done[l] = x.m.do[j]

\* What an action reads is the position some derivation means, but for a torn token.
TokensMeant(done, xs) ==
    \A i \in 1 .. Len(done) : done[i] \in DOMAIN Reads =>
        \E x \in xs : \E j \in 1 .. Len(x.m.do) :
            /\ x.m.do[j] = done[i]
            /\ \/ x.torn \/ OwedTwice(x)
               \/ \A r \in Reads[done[i]] : SameValue(done, i, x.m.do, j, r, x.same)

AtEof(moves) == {x \in moves : x.m.on = {}}

\* Responses that end while an empty Connection, Content-Length or
\* Transfer-Encoding may still go on end in other final states.
MissedEnds == IF machine = "response" THEN {121, 122, 123} ELSE {}

\* A machine fails exactly when its grammar can read no more, and is finished
\* exactly when its grammar may end.
LanguageExact ==
    /\ has_error <=> derivations = {}
    /\ LET ends == AtEof(AllMoves) # {} IN
       /\ is_finished => ends
       /\ ends => is_finished \/ cs \in MissedEnds

\* On every character, and at the end of a URI, a machine runs the actions of its
\* grammar, and each gets the text it is for (http11_parser.rl 53-117).
ActionsExact ==
    ~has_error =>
        LET moves == AllMoves IN
        /\ \A c \in Characters : \A e \in Edge(c) :
              ActionsOwed(e.do, On(moves, c)) /\ TokensMeant(e.do, On(moves, c))
        /\ machine = "uri" /\ is_finished =>
              LET done == {e \in Uri!eof_actions : cs \in e.at}
                  list == IF done = {} THEN <<>> ELSE (CHOOSE e \in done : TRUE).do
              IN ActionsOwed(list, AtEof(moves)) /\ TokensMeant(list, AtEof(moves))

\* The generated code is that of the grammars beside it (http11_parser.rl,
\* httpclient_parser.rl, uri.rl), for every input.
ParsersConform == LanguageExact /\ ActionsExact
=============================================================================
