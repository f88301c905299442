------------------------------ MODULE ByteArray -----------------------------
(***************************************************************************)
(* The chained buffer of sylar/bytearray.{h,cc}, with the two transfers of   *)
(* socket_stream.cc that work on its nodes directly.                         *)
(*                                                                         *)
(* Nodes of m_baseSize bytes form a list; m_cur is the node of m_position,   *)
(* NULL when the position is at the end of the last node.  Following NULL    *)
(* ends the program.  The loops that walk the nodes are given by the cells   *)
(* they touch.                                                              *)
(***************************************************************************)
EXTENDS Integers, Sequences

CONSTANTS
    BaseSize,     \* m_baseSize
    Byte,         \* the values of a byte; a new node holds any of them
    MaxLen,       \* bound on the bytes one operation moves
    MaxByteOps    \* bound on the operations

ASSUME ByteArrayAssumption ==
    /\ BaseSize \in Nat \ {0}
    /\ Byte # {} /\ MaxLen \in Nat /\ MaxByteOps \in Nat

VARIABLES
    nodes,        \* the list from m_root on
    m_cur,        \* index of the node, 0 for NULL
    m_position, m_size, m_capacity,
    out,          \* the bytes handed to the caller last
    byteOps,      \* operations so far (bound only)
    fault         \* "none", or the kind of access that followed NULL

byteVars == <<nodes, m_cur, m_position, m_size, m_capacity, out, byteOps, fault>>

NewNode == [i \in 1 .. BaseSize |-> CHOOSE b \in Byte : TRUE]

ByteInit ==
    /\ nodes = <<NewNode>> /\ m_cur = 1
    /\ m_position = 0 /\ m_size = 0 /\ m_capacity = BaseSize
    /\ out = <<>> /\ byteOps = 0 /\ fault = "none"

ByteOp == fault = "none" /\ byteOps < MaxByteOps /\ byteOps' = byteOps + 1

getCapacity == m_capacity - m_position
getReadSize == m_size - m_position

\* The cell k bytes after the position, reached from m_cur.
CellNode(cur, k) == cur + ((m_position % BaseSize) + k) \div BaseSize
CellOffset(k) == (((m_position % BaseSize) + k) % BaseSize) + 1

\* Mutant: the carry to the next node is only taken past its end.
AdvancedLate(list, cur, n) ==
    LET j == CellNode(cur, n - 1) IN IF j > Len(list) THEN 0 ELSE j

\* The node after n more bytes: the next one, or NULL, at the end of a node.
Advanced(list, cur, n) ==
    LET j == CellNode(cur, n) IN IF j > Len(list) THEN 0 ELSE j

\* n bytes can be walked over from cur without following NULL; even for no
\* byte the code looks at m_cur->size.
Reachable(list, cur, n) ==
    /\ cur # 0
    /\ n > 0 => CellNode(cur, n - 1) <= Len(list)

ReadFails ==
    fault' = "read" /\ UNCHANGED <<nodes, m_cur, m_position, m_size, m_capacity, out>>

WriteFails ==
    fault' = "write" /\ UNCHANGED <<nodes, m_cur, m_position, m_size, m_capacity, out>>

-----------------------------------------------------------------------------
(* Capacity and position                                                    *)

\* The number of nodes addCapacity appends: the remainder is compared with the
\* old free space, not with zero.
NodesToAdd(size, old) ==
    size \div BaseSize + (IF size % BaseSize > old THEN 1 ELSE 0)

\* addCapacity(size), as the new list, m_cur and m_capacity.
Extended(size) ==
    LET old == getCapacity
        n == NodesToAdd(size - old, old)
    IN IF size = 0 \/ old >= size
       THEN [list |-> nodes, cur |-> m_cur, cap |-> m_capacity]
       ELSE [list |-> nodes \o [i \in 1 .. n |-> NewNode],
             cur |-> IF old # 0 THEN m_cur ELSE IF n = 0 THEN 0 ELSE Len(nodes) + 1,
             cap |-> m_capacity + n * BaseSize]

\* Mutant: a position at the end of a node stays on that node.
NodeBefore(v) == IF v = 0 THEN 1 ELSE (v - 1) \div BaseSize + 1

\* Where setPosition's loop stops: at the end of a node it takes the next one.
NodeAt(v) == IF v \div BaseSize + 1 > Len(nodes) THEN 0 ELSE v \div BaseSize + 1

setPosition(v) ==
    /\ ByteOp
    /\ IF v > m_capacity
       THEN UNCHANGED <<m_cur, m_position, m_size>>
       ELSE /\ m_position' = v
            /\ m_size' = IF v > m_size THEN v ELSE m_size
            /\ m_cur' = NodeAt(v)
    /\ UNCHANGED <<nodes, m_capacity, out, fault>>

clear ==
    /\ ByteOp
    /\ nodes' = <<nodes[1]>> /\ m_cur' = 1
    /\ m_position' = 0 /\ m_size' = 0 /\ m_capacity' = BaseSize
    /\ UNCHANGED <<out, fault>>

-----------------------------------------------------------------------------
(* Writing and reading                                                      *)

\* The list with s stored from the position on.
StoredAt(list, cur, s) ==
    [j \in DOMAIN list |-> [o \in 1 .. BaseSize |->
        LET k == (j - cur) * BaseSize + o - 1 - (m_position % BaseSize)
        IN IF k \in 0 .. Len(s) - 1 THEN s[k + 1] ELSE list[j][o]]]

Loaded(n) == [i \in 1 .. n |-> nodes[CellNode(m_cur, i - 1)][CellOffset(i - 1)]]

\* write(buf, size), behind every writeF*, writeString and readFromFile.
write(s) ==
    LET e == Extended(Len(s)) IN
    /\ ByteOp
    /\ s # <<>>
    /\ IF Reachable(e.list, e.cur, Len(s))
       THEN /\ nodes' = StoredAt(e.list, e.cur, s)
            /\ m_cur' = Advanced(e.list, e.cur, Len(s))
            /\ m_capacity' = e.cap
            /\ m_position' = m_position + Len(s)
            /\ m_size' = IF m_position' > m_size THEN m_position' ELSE m_size
            /\ UNCHANGED <<out, fault>>
       ELSE WriteFails

\* read(buf, size), behind every readF* and readString; too few bytes throw.
read(n) ==
    /\ ByteOp
    /\ n <= getReadSize
    /\ IF Reachable(nodes, m_cur, n)
       THEN /\ out' = Loaded(n)
            /\ m_position' = m_position + n
            /\ m_cur' = Advanced(nodes, m_cur, n)
            /\ UNCHANGED <<nodes, m_size, m_capacity, fault>>
       ELSE ReadFails

\* toString(): the const read of all that is left, from m_position.
toString ==
    /\ ByteOp
    /\ IF getReadSize = 0 \/ Reachable(nodes, m_cur, getReadSize)
       THEN out' = Loaded(getReadSize) /\ UNCHANGED <<nodes, m_cur, m_position, m_size,
                                                     m_capacity, fault>>
       ELSE ReadFails

\* SocketStream::read(ba, len): getWriteBuffers reserves len bytes, the kernel
\* fills the first of them, setPosition moves behind them.
recvInto(len, s) ==
    LET e == Extended(len) IN
    /\ ByteOp
    /\ Len(s) <= len /\ len > 0
    /\ IF Reachable(e.list, e.cur, len)
       THEN /\ nodes' = StoredAt(e.list, e.cur, s)
            /\ m_cur' = IF s = <<>> THEN e.cur ELSE Advanced(e.list, e.cur, Len(s))
            /\ m_capacity' = e.cap
            /\ m_position' = m_position + Len(s)
            /\ m_size' = IF m_position' > m_size THEN m_position' ELSE m_size
            /\ UNCHANGED <<out, fault>>
       ELSE WriteFails

\* SocketStream::write(ba, len): getReadBuffers, of which the kernel takes n bytes.
sendFrom(len, n) ==
    LET avail == IF len > getReadSize THEN getReadSize ELSE len IN
    /\ ByteOp
    /\ n <= avail
    /\ IF avail = 0 \/ Reachable(nodes, m_cur, avail)
       THEN /\ out' = IF n = 0 THEN out ELSE Loaded(n)
            /\ m_position' = m_position + n
            /\ m_cur' = IF n = 0 THEN m_cur ELSE Advanced(nodes, m_cur, n)
            /\ UNCHANGED <<nodes, m_size, m_capacity, fault>>
       ELSE ReadFails

ByteChunks == UNION {[1 .. n -> Byte] : n \in 0 .. MaxLen}

ByteNext ==
    \/ \E v \in 0 .. m_capacity + 1 : setPosition(v)
    \/ clear \/ toString
    \/ \E s \in ByteChunks : write(s) \/ \E len \in 1 .. MaxLen : recvInto(len, s)
    \/ \E n \in 0 .. MaxLen : read(n) \/ \E len \in 0 .. MaxLen : sendFrom(len, n)

-----------------------------------------------------------------------------
(* Properties                                                               *)

\* The cursor is the node of the position, NULL exactly at the end of the last
\* node, and the capacity is that of the list: what every walk relies on.
CursorExact ==
    /\ m_capacity = BaseSize * Len(nodes)
    /\ m_position <= m_size /\ m_size <= m_capacity
    /\ IF m_position = m_capacity
       THEN m_cur = 0
       ELSE m_cur # 0 /\ m_position \in (m_cur - 1) * BaseSize .. m_cur * BaseSize - 1

\* A read follows NULL only when it is asked for nothing at the very end of the last
\* node (bytearray.cc 547); it never runs off the list for bytes that were written.
ReadsInside == fault = "read" => m_position = m_size /\ m_position = m_capacity

\* addCapacity makes sure that what is written fits (bytearray.cc 698): no write
\* follows NULL.
EnoughRoom == fault # "write"

\* With the nodes read as one string, a ByteArray is a ByteString: reads return
\* what was written, wherever the node boundaries fall, and transfers from and
\* to a socket count exactly the bytes the kernel moved.
String == INSTANCE ByteString WITH
    bytes <- [i \in 1 .. m_size |->
                 nodes[(i - 1) \div BaseSize + 1][((i - 1) % BaseSize) + 1]],
    position <- m_position,
    got <- out

ImplementsString == String!Spec

\* The cursor is exact, and what was written can be read.
BytesConsistent == CursorExact /\ ReadsInside
=============================================================================
