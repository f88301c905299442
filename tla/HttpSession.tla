---------------------------- MODULE HttpSession -----------------------------
(***************************************************************************)
(* One connection of the HTTP server: HttpServer::handleClient,              *)
(* HttpSession::recvRequest and sendResponse, Stream::readFixSize and        *)
(* writeFixSize, HttpRequestParser and the bookkeeping of http11_parser.     *)
(*                                                                         *)
(* A request is a sequence of cells.  A token (method, path, version) and a  *)
(* header field are two cells each, so that a read may end inside them; the  *)
(* grammar itself is left to ragel.  A read delivers any number of the cells *)
(* that the client has sent.                                                *)
(***************************************************************************)
EXTENDS Integers, Sequences, SequencesExt

CONSTANTS
    Requests,     \* what a client may send: [path, body (its length), keep]
    Keepalive,    \* m_isKeepalive
    BuffSize,     \* GetHttpRequestBufferSize(), in cells
    MaxRequests,  \* bound on the requests of a connection
    MaxTimeouts   \* bound on the reads that time out

ASSUME HttpSessionAssumption ==
    /\ \A q \in Requests : q.body \in Nat /\ q.keep \in BOOLEAN
    /\ Keepalive \in BOOLEAN
    /\ BuffSize \in Nat \ {0} /\ MaxRequests \in Nat /\ MaxTimeouts \in Nat

VARIABLES
    sent,         \* the requests the client has sent
    net,          \* the cells the server has not read
    peer,         \* "open" or "closed", the client's end
    phase,        \* where handleClient is
    parsed,       \* the cells the current parser has consumed
    cut,          \* the kinds of cells a read has ended inside of
    body,         \* the cells in the body so far
    length,       \* the length of the body
    handled,      \* the requests given to the servlets
    answered,     \* the number of responses sent
    dropped,      \* history: cells were left in a buffer that is gone
    pipelined,    \* history: a request was sent before the last answer
    timeouts,     \* reads that timed out
    failed        \* history: a read of the body timed out

sessionVars == <<sent, net, peer, phase, parsed, cut, body, length, handled, answered,
                 dropped, pipelined, timeouts, failed>>
Client == <<sent, peer, pipelined>>

Pair(kind) == <<kind, kind>>

\* The cells of request q, the r-th on its connection.
Kinds(q) ==
    Pair("method") \o Pair("path") \o Pair("version")
    \o (IF q.body > 0 THEN Pair("length") ELSE <<>>)
    \o (IF q.keep THEN Pair("connection") ELSE <<>>)
    \o <<"end">> \o [i \in 1 .. q.body |-> "body"]

Cells(r, q) == [i \in 1 .. Len(Kinds(q)) |-> [r |-> r, i |-> i, kind |-> Kinds(q)[i]]]

\* The cells of its body, the last ones.
Body(r, q) == SubSeq(Cells(r, q), Len(Kinds(q)) - q.body + 1, Len(Kinds(q)))

SessionInit ==
    /\ sent = <<>> /\ net = <<>> /\ peer = "open" /\ phase = "reading"
    /\ parsed = <<>> /\ cut = {} /\ body = <<>> /\ length = 0
    /\ handled = <<>> /\ answered = 0
    /\ dropped = FALSE /\ pipelined = FALSE /\ timeouts = 0 /\ failed = FALSE

-----------------------------------------------------------------------------
(* The client and the network                                               *)

ClientSends(q) ==
    /\ peer = "open" /\ Len(sent) < MaxRequests
    /\ sent' = Append(sent, q)
    /\ net' = net \o Cells(Len(sent) + 1, q)
    /\ pipelined' = (pipelined \/ answered < Len(sent))
    /\ UNCHANGED <<peer, phase, parsed, cut, body, length, handled, answered, dropped,
                   timeouts, failed>>

ClientCloses ==
    /\ peer = "open" /\ peer' = "closed"
    /\ UNCHANGED <<sent, net, phase, parsed, cut, body, length, handled, answered, dropped,
                   pipelined, timeouts, failed>>

-----------------------------------------------------------------------------
(* HttpRequestParser                                                        *)

\* http_parser_execute forgets its marks at every call: what a token or a field
\* has in the earlier read is not part of it.
NewlyCut(buf) ==
    IF parsed # <<>> /\ Last(parsed).kind = buf[1].kind THEN {buf[1].kind} ELSE {}

\* A fresh parser needs the start of a request; the rest of a method or of a
\* version is none.
hasError(buf, lost) ==
    \/ parsed = <<>> /\ buf[1].i # 1
    \/ lost \cap {"method", "version"} # {}

\* The cells execute() consumes: all, or those up to the end of the header.
Consumed(buf) ==
    IF \E i \in 1 .. Len(buf) : buf[i].kind = "end"
    THEN CHOOSE i \in 1 .. Len(buf) :
            buf[i].kind = "end" /\ \A j \in 1 .. i - 1 : buf[j].kind # "end"
    ELSE Len(buf)

\* A field whose name was in an earlier read has length 0 and is skipped.
Field(kind, cells, lost) == kind \notin lost /\ \E i \in 1 .. Len(cells) : cells[i].kind = kind

\* getData(), with the body so far.
Request(cells, lost) ==
    LET q == sent[cells[1].r] IN
    [r |-> cells[1].r,
     path |-> IF "path" \in lost THEN "rest of the path" ELSE q.path,
     keep |-> Field("connection", cells, lost),
     cut |-> lost]

getContentLength(cells, lost) ==
    IF Field("length", cells, lost) THEN sent[cells[1].r].body ELSE 0

-----------------------------------------------------------------------------
(* recvRequest                                                              *)

\* A new parser and a new buffer, at the top of recvRequest.
FreshParser == parsed' = <<>> /\ cut' = {} /\ body' = <<>> /\ length' = 0

Close == phase' = "closed" /\ UNCHANGED <<parsed, cut, body, length>>

\* Mutant: everything behind the header is taken for the body.
TakesAll(rest, len) == rest

\* The part of the body that came with the header.
EarlyBody(rest, len) == IF len >= Len(rest) THEN rest ELSE SubSeq(rest, 1, len)

\* One turn of the loop: read, execute, and the tests after it.  The parser
\* leaves nothing behind before it is finished, so every read starts at 0.
ReadHeader(n) ==
    LET buf == SubSeq(net, 1, n)
        lost == cut \cup NewlyCut(buf)
        used == Consumed(buf)
        cells == parsed \o SubSeq(buf, 1, used)
        rest == SubSeq(buf, used + 1, n)
        len == getContentLength(cells, lost)
        early == EarlyBody(rest, len)
    IN /\ phase = "reading" /\ n <= Len(net)
       /\ net' = SubSeq(net, n + 1, Len(net))
       /\ \/ hasError(buf, lost) /\ Close /\ UNCHANGED dropped
          \/ /\ ~hasError(buf, lost)
             /\ parsed' = cells /\ cut' = lost
             /\ IF Last(cells).kind # "end"
                THEN UNCHANGED <<phase, body, length, dropped>>
                ELSE /\ length' = len
                     /\ body' = early
                     /\ phase' = IF Len(early) < len THEN "body" ELSE "handling"
                     /\ dropped' = (dropped \/ Len(early) < Len(rest))
       /\ UNCHANGED <<Client, handled, answered, timeouts, failed>>

\* The peer has closed, or the receive timer has expired: read returns 0 or -1.
ReadHeaderFails ==
    /\ phase = "reading" /\ net = <<>>
    /\ \/ peer = "closed" /\ UNCHANGED timeouts
       \/ timeouts < MaxTimeouts /\ timeouts' = timeouts + 1
    /\ Close
    /\ UNCHANGED <<Client, net, handled, answered, dropped, failed>>

\* readFixSize.  A peer that has closed makes it read 0 for ever.
ReadBody(n) ==
    /\ phase = "body" /\ n <= Len(net) /\ n <= length - Len(body)
    /\ body' = body \o SubSeq(net, 1, n)
    /\ net' = SubSeq(net, n + 1, Len(net))
    /\ phase' = IF Len(body') < length THEN "body" ELSE "handling"
    /\ UNCHANGED <<Client, parsed, cut, length, handled, answered, dropped, timeouts, failed>>

\* len is unsigned, so -1 is not seen as an error: the offset moves back by one
\* (in front of an empty body: memory outside of it), and one more is awaited.
ReadBodyFails ==
    /\ phase = "body" /\ net = <<>> /\ timeouts < MaxTimeouts
    /\ timeouts' = timeouts + 1
    /\ failed' = TRUE
    /\ IF body = <<>> THEN phase' = "corrupt" /\ UNCHANGED body
                      ELSE body' = Front(body) /\ UNCHANGED phase
    /\ UNCHANGED <<Client, net, parsed, cut, length, handled, answered, dropped>>

-----------------------------------------------------------------------------
(* handleClient                                                             *)

req == Request(parsed, cut)

\* m_dispatch->handle(req, rsp, session)
Handle ==
    /\ phase = "handling"
    /\ handled' = Append(handled, [req |-> req, body |-> body, failed |-> failed])
    /\ phase' = "writing"
    /\ UNCHANGED <<Client, net, parsed, cut, body, length, answered, dropped, timeouts, failed>>

\* The loop goes on if both sides want it to.
KeepsAlive == Keepalive /\ req.keep

\* sendResponse, and the test at the end of the loop.
Answer ==
    /\ phase = "writing"
    /\ answered' = answered + 1
    /\ IF KeepsAlive THEN phase' = "reading" /\ FreshParser ELSE Close
    /\ UNCHANGED <<Client, net, handled, dropped, timeouts, failed>>

\* writeFixSize does not see -1 either, and writes for ever.
AnswerFails ==
    /\ phase = "writing" /\ peer = "closed"
    /\ phase' = "spinning"
    /\ UNCHANGED <<Client, net, parsed, cut, body, length, handled, answered, dropped,
                   timeouts, failed>>

SessionStep ==
    \/ \E n \in 1 .. BuffSize : ReadHeader(n)
    \/ \E n \in 1 .. length : ReadBody(n)
    \/ Handle \/ Answer

SessionNext ==
    \/ \E q \in Requests : ClientSends(q)
    \/ ClientCloses \/ SessionStep \/ ReadHeaderFails \/ ReadBodyFails \/ AnswerFails

-----------------------------------------------------------------------------
(* Properties                                                               *)

Sent(h) ==
    LET q == sent[h.req.r] IN
    /\ h.req.path = q.path /\ h.req.keep = q.keep
    /\ h.body = Body(h.req.r, q)

\* However the bytes arrive, a servlet gets the request that was sent, with its
\* whole body and nothing of the next request, unless a read ended inside a
\* token or timed out in the body.
RequestFaithful ==
    \A k \in 1 .. Len(handled) : handled[k].req.cut # {} \/ handled[k].failed \/ Sent(handled[k])

\* A client that awaits each answer gets the k-th answer for its k-th request,
\* and none of its bytes is thrown away unless a length field was cut.
AnswersPaired ==
    ~pipelined =>
        /\ \A k \in 1 .. Len(handled) : handled[k].req.r = k
        /\ dropped => "length" \in (UNION {handled[k].req.cut : k \in 1 .. Len(handled)}) \cup cut

\* A request is parsed however TCP cuts it: "http 可能要tcp来回几次的报文才会接收完整"
\* (http_parser.cc 203).
RequestWhole == \A k \in 1 .. Len(handled) : Sent(handled[k])

\* A client that awaits each answer and stays is answered or sees the connection
\* closed, unless a read of the body timed out.
RequestAnswered ==
    (answered < Len(sent)) ~>
        (answered = Len(sent) \/ phase = "closed" \/ peer = "closed" \/ pipelined \/ failed)

\* Requests reach their servlets whole and in step with their answers.
SessionConsistent == RequestFaithful /\ AnswersPaired
=============================================================================
