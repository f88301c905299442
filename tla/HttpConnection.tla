--------------------------- MODULE HttpConnection ---------------------------
(***************************************************************************)
(* One client connection: HttpConnection::sendRequest and recvResponse, the  *)
(* part of HttpConnectionPool::doRequest that calls them, and the            *)
(* bookkeeping of httpclient_parser.                                        *)
(*                                                                         *)
(* As in HttpSession a message is a sequence of cells.  A chunk is its size, *)
(* an end of line, the data, and a CR and an LF, which the code counts; the  *)
(* one without data is the last.  The server is external: it answers         *)
(* requests in order, and no body of it holds a status line.                 *)
(***************************************************************************)
EXTENDS Integers, Sequences, SequencesExt

CONSTANTS
    Responses,     \* [chunked, body]: the kinds of the body's cells
    RspBuffSize,   \* GetHttpResponseBufferSize(), in cells
    MaxExchanges,  \* bound on the requests sent over the connection
    MaxRspTimeouts \* bound on the reads that time out

\* A chunk of n bytes starts with cell i of b.
ChunkAt(b, i, n) ==
    /\ b[i] = "size" /\ b[i + 1] = "eol"
    /\ \A k \in 1 .. n : b[i + 1 + k] = "data"
    /\ b[i + n + 2] = "cr" /\ b[i + n + 3] = "lf"

ASSUME HttpConnectionAssumption ==
    /\ \A p \in Responses :
          /\ p.chunked \in BOOLEAN
          /\ p.body \in Seq({"size", "eol", "data", "cr", "lf"})
          /\ ~p.chunked => \A i \in 1 .. Len(p.body) : p.body[i] = "data"
          /\ p.chunked => \A i \in 1 .. Len(p.body) : p.body[i] = "size" =>
                \E n \in 0 .. Len(p.body) - i - 3 :
                    ChunkAt(p.body, i, n) /\ (n = 0 => i + 3 = Len(p.body))
    /\ RspBuffSize \in Nat \ {0} /\ MaxExchanges \in Nat /\ MaxRspTimeouts \in Nat

VARIABLES
    rspSent,       \* the responses the server has sent
    rspNet,        \* their cells that were not read
    remote,        \* "open" or "closed", the server's end
    asked,         \* requests sent
    conn,          \* where recvResponse is, "idle" between two calls
    head,          \* the cells of the header the parser has consumed
    rspCut,        \* the kinds of cells a read has ended inside of
    chunk,         \* the cells in the buffer, data[0 .. len)
    rspBody,       \* the body so far
    left,          \* the cells of the body, or of a chunk, still to be read
    results,       \* what the calls returned
    aligned,       \* history: every read of a chunk has brought exactly one
    threw,         \* history: the calls that ended with an exception
    rspTimeouts

connVars == <<rspSent, rspNet, remote, asked, conn, head, rspCut, chunk, rspBody, left, results,
              aligned, threw, rspTimeouts>>
Server == <<rspSent, remote>>

\* The kinds of a response's cells.
RspHead(p) ==
    <<"version", "version", "status", "status">>
    \o (IF p.chunked THEN <<"chunked", "chunked">> ELSE <<"length", "length">>)
    \o <<"end">>

RspKinds(p) == RspHead(p) \o p.body

RspCells(r, p) ==
    [i \in 1 .. Len(RspKinds(p)) |-> [r |-> r, i |-> i, kind |-> RspKinds(p)[i]]]

\* The size that the chunk starting with cell c announces: its data follows in
\* the response.
SizeOf(c) ==
    LET ks == RspKinds(rspSent[c.r])
        stop == CHOOSE j \in c.i + 2 .. Len(ks) :
                    ks[j] = "cr" /\ \A k \in c.i + 2 .. j - 1 : ks[k] # "cr"
    IN stop - c.i - 2

ConnInit ==
    /\ rspSent = <<>> /\ rspNet = <<>> /\ remote = "open" /\ asked = 0
    /\ conn = "idle" /\ head = <<>> /\ rspCut = {} /\ chunk = <<>> /\ rspBody = <<>> /\ left = 0
    /\ results = <<>> /\ aligned = TRUE /\ threw = {} /\ rspTimeouts = 0

-----------------------------------------------------------------------------
(* The server                                                               *)

ServerAnswers(p) ==
    /\ remote = "open" /\ Len(rspSent) < asked
    /\ rspSent' = Append(rspSent, p)
    /\ rspNet' = rspNet \o RspCells(Len(rspSent) + 1, p)
    /\ UNCHANGED <<remote, asked, conn, head, rspCut, chunk, rspBody, left, results, aligned, threw,
                   rspTimeouts>>

ServerCloses ==
    /\ remote = "open" /\ remote' = "closed"
    /\ UNCHANGED <<rspSent, rspNet, asked, conn, head, rspCut, chunk, rspBody, left, results, aligned,
                   threw, rspTimeouts>>

-----------------------------------------------------------------------------
(* doRequest                                                                *)

\* sendRequest, then recvResponse with a new parser and buffer.  A call that
\* ended with an exception leaves the connection usable, too.
sendRequest ==
    /\ conn \in {"idle", "thrown"} /\ asked < MaxExchanges
    /\ asked' = asked + 1
    /\ conn' = "header"
    /\ head' = <<>> /\ rspCut' = {} /\ chunk' = <<>> /\ rspBody' = <<>> /\ left' = 0 /\ aligned' = TRUE
    /\ UNCHANGED <<Server, rspNet, results, threw, rspTimeouts>>

\* Mutant: the connection stays open after a failed call.
FailKeepsOpen == conn' = "idle" /\ UNCHANGED <<head, rspCut, chunk, rspBody, left, results, aligned, threw>>

\* close(), and nullptr.
Fail == conn' = "closed" /\ UNCHANGED <<head, rspCut, chunk, rspBody, left, results, aligned, threw>>

Returns(h, lost, b) ==
    results' = Append(results, [call |-> asked, r |-> h[1].r, headless |-> h[1].i # 1, cut |-> lost,
                                body |-> b, aligned |-> aligned'])

\* What the parser loses when a read ends inside of a token; the match of
\* "Transfer-Encoding: chunked" is the automaton's, and survives.
RspNewlyCut(buf) ==
    IF head # <<>> /\ Last(head).kind = buf[1].kind THEN {buf[1].kind} \ {"chunked"} ELSE {}

\* The part of a plain body that came with the header.
RspEarly(rest, len) == IF len >= Len(rest) THEN rest ELSE SubSeq(rest, 1, len)

\* One turn of the loop that reads the header of a response.
ReadRspHeader(n) ==
    LET buf == SubSeq(rspNet, 1, n)
        lost == rspCut \cup RspNewlyCut(buf)
        ends == {i \in 1 .. n : buf[i].kind = "end"}
        used == IF ends = {} THEN n ELSE CHOOSE i \in ends : \A j \in ends : i <= j
        cells == head \o SubSeq(buf, 1, used)
        rest == SubSeq(buf, used + 1, n)
        p == rspSent[cells[1].r]
        len == IF p.chunked \/ "length" \in lost THEN 0 ELSE Len(p.body)
        early == RspEarly(rest, len)
    IN /\ conn = "header" /\ n <= Len(rspNet) /\ cells[1].i = 1
       /\ rspNet' = SubSeq(rspNet, n + 1, Len(rspNet))
       /\ \/ "version" \in lost /\ Fail
          \/ /\ "version" \notin lost
             /\ head' = cells /\ rspCut' = lost /\ UNCHANGED <<aligned, threw>>
             /\ \/ ends = {} /\ UNCHANGED <<conn, chunk, rspBody, left, results>>
                \/ /\ ends # {} /\ p.chunked
                   /\ conn' = "chunk" /\ chunk' = rest
                   /\ UNCHANGED <<rspBody, left, results>>
                \/ /\ ends # {} /\ ~p.chunked
                   /\ rspBody' = early /\ left' = len - Len(early)
                   /\ IF left' > 0 THEN conn' = "body" /\ UNCHANGED results
                                   ELSE conn' = "idle" /\ Returns(cells, lost, early)
                   /\ UNCHANGED chunk
       /\ UNCHANGED <<Server, asked, rspTimeouts>>

\* The grammar is Response | Chunked_Header, for every parser.  Bytes of these
\* kinds may happen to be hexadecimal digits, and may hold an end of line.
Opaque == {"data", "length", "chunked"}

\* The cells may be the start of a chunk's header, or a whole one.
SizeStarts(cells) ==
    \E n \in 1 .. Len(cells) :
        /\ \A i \in 1 .. n : cells[i].kind \in Opaque \cup {"size"}
        /\ [i \in 1 .. Len(cells) - n |-> cells[n + i].kind]
              \in {<<>>, <<"cr">>, <<"cr", "lf">>, <<"eol">>}

SizeEnds(cells) == SizeStarts(cells) /\ Last(cells).kind \in Opaque \cup {"lf", "eol"}

SizeOpen(cells) == SizeStarts(cells) /\ Last(cells).kind \notin {"lf", "eol"}

\* The loop meets what an earlier call has left: refused, or taken for the header
\* of a chunk, after which the response, without a status, counts as chunked.
ReadLeftovers(n) ==
    LET buf == SubSeq(rspNet, 1, n)
        cells == head \o buf
    IN /\ conn = "header" /\ n <= Len(rspNet) /\ cells[1].i # 1
       /\ rspNet' = SubSeq(rspNet, n + 1, Len(rspNet))
       /\ \/ cells[1].kind # "size" /\ Fail
          \/ /\ \/ SizeOpen(cells) /\ head' = cells /\ UNCHANGED <<conn, chunk>>
                \/ \E k \in 1 .. n :
                      /\ SizeEnds(head \o SubSeq(buf, 1, k))
                      /\ head' = head \o SubSeq(buf, 1, k)
                      /\ conn' = "chunk" /\ chunk' = SubSeq(buf, k + 1, n)
             /\ UNCHANGED <<rspCut, rspBody, left, results, aligned, threw>>
       /\ UNCHANGED <<Server, asked, rspTimeouts>>

\* A read returns 0 while the header or a chunk is read.
AtEnd == conn \in {"header", "chunk", "rest"} /\ rspNet = <<>> /\ remote = "closed"

\* Mutant: only a negative result counts as an error.
ZeroIgnored == AtEnd /\ UNCHANGED connVars

ReadRspEnds ==
    /\ AtEnd
    /\ Fail
    /\ UNCHANGED <<Server, rspNet, asked, rspTimeouts>>

\* The receive timer has expired.
ReadRspTimesOut ==
    /\ conn \in {"header", "chunk", "rest"} /\ rspNet = <<>>
    /\ rspTimeouts < MaxRspTimeouts /\ rspTimeouts' = rspTimeouts + 1
    /\ Fail
    /\ UNCHANGED <<Server, rspNet, asked>>

\* readFixSize for a plain body.
ReadRspBody(n) ==
    /\ conn = "body" /\ n <= Len(rspNet) /\ n <= left
    /\ rspBody' = rspBody \o SubSeq(rspNet, 1, n)
    /\ rspNet' = SubSeq(rspNet, n + 1, Len(rspNet))
    /\ left' = left - n
    /\ UNCHANGED <<aligned, threw>>
    /\ IF left' = 0 THEN conn' = "idle" /\ Returns(head, rspCut, rspBody') ELSE UNCHANGED <<conn, results>>
    /\ UNCHANGED <<Server, asked, head, rspCut, chunk, rspTimeouts>>

\* A read in it times out: -1 is no error for the unsigned len, so the offset
\* moves back by one (in front of an empty body: memory outside of it), and one
\* byte more is awaited.
ReadRspBodyFails ==
    /\ conn = "body" /\ rspNet = <<>>
    /\ rspTimeouts < MaxRspTimeouts /\ rspTimeouts' = rspTimeouts + 1
    /\ IF rspBody = <<>> THEN conn' = "corrupt" /\ UNCHANGED <<rspBody, left>>
                         ELSE rspBody' = Front(rspBody) /\ left' = left + 1 /\ UNCHANGED conn
    /\ UNCHANGED <<Server, rspNet, asked, head, rspCut, chunk, results, aligned, threw>>

-----------------------------------------------------------------------------
(* Chunks                                                                   *)

\* What a parser that starts anew may find at the start of the buffer: the cells
\* it takes, the size (of opaque bytes: nothing, a part or all of the buffer), and
\* whether it is the last chunk.  A response is taken, too, with the length it
\* announces, or -1.
ChunkHeads(all) ==
    CASE all[1].kind = "size" ->
           {[used |-> 2, size |-> SizeOf(all[1]), last |-> SizeOf(all[1]) = 0] : k \in 2 .. Len(all)}
      [] all[1].kind \in Opaque ->
           {[used |-> k, size |-> z, last |-> z = 0] :
               k \in {i \in 1 .. Len(all) : SizeEnds(SubSeq(all, 1, i))}, z \in {0, 1, RspBuffSize}}
      [] all[1].i = 1 ->
           LET p == rspSent[all[1].r] IN
           {[used |-> e, size |-> IF p.chunked THEN -1 ELSE Len(p.body), last |-> FALSE] :
               e \in {i \in 1 .. Len(all) : i = Len(RspHead(p))}}
      [] OTHER -> {}

\* "len -= 2"
WithoutEol(rest) == Len(rest) - 2

\* The data of a chunk, as far as it is in the buffer; body.append(data, len)
\* with a negative len throws.
TakeChunk(h, rest) ==
    LET len == WithoutEol(rest) IN
    \/ /\ 0 <= h.size /\ h.size <= len
       /\ rspBody' = rspBody \o SubSeq(rest, 1, h.size)
       /\ chunk' = SubSeq(rest, h.size + 1, len)
       /\ IF h.last THEN conn' = "idle" /\ Returns(head, rspCut, rspBody') ELSE conn' = "chunk" /\ UNCHANGED results
       /\ UNCHANGED <<left, threw>>
    \/ /\ h.size > len /\ len >= 0
       /\ rspBody' = rspBody \o SubSeq(rest, 1, len)
       /\ left' = h.size - len
       /\ conn' = "rest" /\ UNCHANGED <<chunk, results, threw>>
    \/ /\ h.size < 0 \/ (h.size > len /\ len < 0)
       /\ conn' = "thrown" /\ threw' = threw \cup {asked}
       /\ UNCHANGED <<chunk, rspBody, left, results>>

\* One read, always, even if the next chunk is in the buffer, and a parser that
\* starts anew.
ReadChunk(n) ==
    LET all == chunk \o SubSeq(rspNet, 1, n)
    IN /\ conn = "chunk" /\ n <= Len(rspNet) /\ n <= RspBuffSize - Len(chunk)
       /\ rspNet' = SubSeq(rspNet, n + 1, Len(rspNet))
       /\ \/ all[1].kind # "size" /\ all[1].i # 1 /\ Fail
          \/ \* no end yet: consumed, and forgotten by the next turn
             /\ SizeOpen(all) \/ (all[1].i = 1 /\ ChunkHeads(all) = {})
             /\ aligned' = FALSE /\ chunk' = <<>>
             /\ UNCHANGED <<conn, rspBody, left, results, head, rspCut, threw>>
          \/ \E h \in ChunkHeads(all) :
                /\ aligned' = (aligned /\ Len(all) = h.size + 4)
                /\ TakeChunk(h, SubSeq(all, h.used + 1, Len(all)))
                /\ UNCHANGED <<head, rspCut>>
       /\ UNCHANGED <<Server, asked, rspTimeouts>>

\* No room is left in the buffer: read returns 0.
ChunkBufferFull ==
    /\ conn = "chunk" /\ Len(chunk) = RspBuffSize
    /\ Fail
    /\ UNCHANGED <<Server, rspNet, asked, rspTimeouts>>

\* The rest of a chunk's data.
ReadChunkRest(n) ==
    /\ conn = "rest" /\ n <= Len(rspNet) /\ n <= left /\ n <= RspBuffSize
    /\ rspBody' = rspBody \o SubSeq(rspNet, 1, n)
    /\ rspNet' = SubSeq(rspNet, n + 1, Len(rspNet))
    /\ left' = left - n
    /\ IF left' = 0 THEN conn' = "chunk" /\ chunk' = <<>> ELSE UNCHANGED <<conn, chunk>>
    /\ UNCHANGED <<Server, asked, head, rspCut, results, aligned, threw, rspTimeouts>>

ConnStep ==
    \/ ReadRspEnds
    \/ \E n \in 1 .. RspBuffSize : ReadRspHeader(n) \/ ReadLeftovers(n) \/ ReadChunk(n) \/ ReadChunkRest(n)
    \/ \E n \in 1 .. left : ReadRspBody(n)
    \/ ChunkBufferFull

ConnNext ==
    \/ \E p \in Responses : ServerAnswers(p)
    \/ ServerCloses \/ sendRequest \/ ConnStep \/ ReadRspTimesOut \/ ReadRspBodyFails

-----------------------------------------------------------------------------
(* Properties                                                               *)

\* b is the data of response r, all of it and in order.
IsDataOf(b, r) ==
    LET data == {c \in Range(RspCells(r, rspSent[r])) : c.kind = "data"}
    IN Range(b) = data /\ \A k, l \in 1 .. Len(b) : k < l => b[k].i < b[l].i

\* Some call before x on this connection threw or lost its Content-Length, so that
\* a part of its response was still to be read.
LeftOver(x) ==
    \/ \E c \in threw : c < x.call
    \/ \E k \in 1 .. Len(results) : results[k].call < x.call /\ "length" \in results[k].cut

\* A call returns the response to its own request, never a late one or what is
\* left of an earlier one, and its body is the one sent, unless a read ended
\* inside of a token or did not bring exactly one chunk.  A response without a
\* status line is made up only from what such a call, or one that threw, has left.
ResponseFaithful ==
    \A k \in 1 .. Len(results) :
        LET x == results[k] IN
        \/ LeftOver(x)
        \/ /\ ~x.headless /\ x.r = x.call
           /\ x.cut = {} /\ x.aligned => IsDataOf(x.body, x.r)

\* Once the server has closed, a call that reads a header or a chunk ends, with
\* or without a response.  It says nothing of a plain body, where a closed server
\* is read for ever (stream.cc 13-21).
CallEnds ==
    LET reading == conn \in {"header", "chunk", "rest"}
    IN (reading /\ remote = "closed") ~> ~reading
=============================================================================
