-------------------------- MODULE ByteArrayProofs --------------------------
(***************************************************************************)
(* Proofs about ByteArray.tla: the cursor of the chained buffer is exact for *)
(* every node size, and the chain read as one string is a ByteString.        *)
(***************************************************************************)
EXTENDS ByteArray, SequenceTheorems, TLAPS

Node == [1 .. BaseSize -> Byte]

\* p is a cell of node cur.
InNode(cur, p) ==
    cur \in Nat \ {0} /\ p \in BaseSize * (cur - 1) .. BaseSize * (cur - 1) + BaseSize - 1

\* The cursor of position p in a list: NULL exactly at the end of the last node.
CursorOf(list, cur, p) ==
    IF p = BaseSize * Len(list) THEN cur = 0 ELSE InNode(cur, p) /\ cur <= Len(list)

\* The i-th byte of a list of nodes.
Flat(list, i) == list[((i - 1) \div BaseSize) + 1][((i - 1) % BaseSize) + 1]

-----------------------------------------------------------------------------
(* Arithmetic of cells                                                      *)

\* A larger multiple is larger by a whole factor.
LEMMA MulGap == \A B \in Nat \ {0}, p, q \in Int : p < q => B * p + B <= B * q
OBVIOUS

\* Multiplication distributes: a cell j nodes on.
LEMMA MulDist == \A B, p, q \in Int : B * (p + q) = B * p + B * q /\ B * (p - q) = B * p - B * q
OBVIOUS

\* Products of naturals are naturals.
LEMMA MulNat == \A p, q \in Nat : p * q \in Nat
OBVIOUS

\* Quotient and remainder of a position by the node size.
LEMMA DivMod ==
    ASSUME NEW B \in Nat \ {0}, NEW a \in Nat
    PROVE  /\ a \div B \in Nat /\ a % B \in 0 .. B - 1
           /\ a = B * (a \div B) + (a % B)
OBVIOUS

\* They are the only pair with that sum.
LEMMA DivModUnique ==
    ASSUME NEW B \in Nat \ {0}, NEW q \in Int, NEW r \in 0 .. B - 1, NEW a \in Nat,
           a = B * q + r
    PROVE  a \div B = q /\ a % B = r
<1>1. a = B * (a \div B) + (a % B) /\ a \div B \in Int /\ a % B \in 0 .. B - 1
  BY DivMod
<1>2. ~(q < a \div B)
  BY <1>1, MulGap
<1>3. ~(q > a \div B)
  BY <1>1, MulGap
<1> QED BY <1>1, <1>2, <1>3

\* The node of position p is p / BaseSize, counted from one.
LEMMA NodeOfPosition ==
    ASSUME NEW p \in Nat
    PROVE  /\ InNode((p \div BaseSize) + 1, p)
           /\ \A cur : InNode(cur, p) => cur = (p \div BaseSize) + 1
<1> USE ByteArrayAssumption
<1>1. /\ p \div BaseSize \in Nat /\ p % BaseSize \in 0 .. BaseSize - 1
      /\ p = BaseSize * (p \div BaseSize) + (p % BaseSize)
  BY DivMod
<1>2. InNode((p \div BaseSize) + 1, p)
  <2> DEFINE q == p \div BaseSize
             m == BaseSize * q
  <2>1. m \in Nat /\ (q + 1) - 1 = q
    BY <1>1, MulNat
  <2> QED BY <1>1, <2>1 DEF InNode
<1>3. ASSUME NEW cur, InNode(cur, p) PROVE cur = (p \div BaseSize) + 1
  <2> DEFINE m == BaseSize * (cur - 1)
  <2>1. cur \in Nat \ {0} /\ m \in Nat /\ p \in m .. m + BaseSize - 1
    BY <1>3, MulNat DEF InNode
  <2>2. p - m \in 0 .. BaseSize - 1 /\ p = m + (p - m)
    BY <2>1
  <2>3. p \div BaseSize = cur - 1
    BY <2>1, <2>2, DivModUnique
  <2> QED BY <2>1, <2>3
<1> QED BY <1>2, <1>3

\* From the node of the position, the walk over k bytes arrives at the node and
\* the offset of m_position + k.
LEMMA CellExact ==
    ASSUME m_position \in Nat, NEW cur, InNode(cur, m_position), NEW k \in Nat
    PROVE  /\ CellNode(cur, k) = ((m_position + k) \div BaseSize) + 1
           /\ CellOffset(k) = ((m_position + k) % BaseSize) + 1
<1> USE ByteArrayAssumption
<1> DEFINE r == m_position % BaseSize
           c == cur - 1
           q == (r + k) \div BaseSize
           o == (r + k) % BaseSize
<1>1. cur \in Nat \ {0} /\ c \in Nat /\ cur = (m_position \div BaseSize) + 1
  BY NodeOfPosition DEF InNode
<1>2. r \in 0 .. BaseSize - 1 /\ m_position = BaseSize * c + r
  BY <1>1, DivMod
<1>3. r + k \in Nat
  BY <1>2
<1>4. q \in Nat /\ o \in 0 .. BaseSize - 1 /\ r + k = BaseSize * q + o
  BY <1>3, DivMod
<1>5. /\ BaseSize * (c + q) = BaseSize * c + BaseSize * q
      /\ BaseSize * c \in Nat /\ BaseSize * q \in Nat
  BY <1>1, <1>4, MulDist, MulNat
<1>6. m_position + k = BaseSize * (c + q) + o
  <2> DEFINE x == BaseSize * c
             y == BaseSize * q
             z == BaseSize * (c + q)
  <2>1. z = x + y /\ x \in Nat /\ y \in Nat /\ m_position = x + r /\ r + k = y + o
    BY <1>2, <1>4, <1>5
  <2>2. r \in Nat /\ o \in Nat
    BY <1>2, <1>4
  <2> HIDE DEF r, o, x, y, z
  <2>3. m_position + k = z + o
    BY <2>1, <2>2
  <2> QED BY <2>3 DEF z
<1>7. (m_position + k) \div BaseSize = c + q /\ (m_position + k) % BaseSize = o
  <2> DEFINE a == m_position + k
             w == c + q
  <2>1. a \in Nat /\ w \in Int /\ o \in 0 .. BaseSize - 1 /\ a = BaseSize * w + o
    BY <1>1, <1>4, <1>6
  <2> HIDE DEF a, w, o
  <2>2. a \div BaseSize = w /\ a % BaseSize = o
    BY <2>1, DivModUnique
  <2> QED BY <2>2 DEF a, w
<1>8. CellNode(cur, k) = cur + q /\ CellOffset(k) = o + 1
  BY DEF CellNode, CellOffset
<1> QED
  <2> HIDE DEF q, o
  <2> QED BY <1>1, <1>4, <1>7, <1>8

\* A position of the list lies in one of its nodes, and no other does.
LEMMA NodeBound ==
    ASSUME NEW p \in Nat, NEW len \in Nat
    PROVE  (p \div BaseSize) + 1 <= len <=> p < BaseSize * len
<1> USE ByteArrayAssumption
<1> DEFINE q == p \div BaseSize
<1>1. /\ q \in Nat /\ p % BaseSize \in 0 .. BaseSize - 1
      /\ p = BaseSize * q + (p % BaseSize) /\ BaseSize * q \in Nat /\ BaseSize * len \in Nat
  BY DivMod, MulNat
<1>2. q < len => BaseSize * q + BaseSize <= BaseSize * len
  BY <1>1, MulGap
<1>3. len <= q => BaseSize * len <= BaseSize * q
  BY <1>1, MulGap
<1> HIDE DEF q
<1>4. q < len => p < BaseSize * len
  BY <1>1, <1>2
<1>5. len <= q => ~(p < BaseSize * len)
  BY <1>1, <1>3
<1> QED BY <1>1, <1>4, <1>5 DEF q

\* The walk over n bytes stays in the list exactly when the list has them.
LEMMA ReachableExact ==
    ASSUME m_position \in Nat, NEW list \in Seq(Node), NEW cur, InNode(cur, m_position),
           NEW n \in Nat
    PROVE  Reachable(list, cur, n) <=> (n > 0 => m_position + n <= BaseSize * Len(list))
<1> USE ByteArrayAssumption
<1>1. cur # 0 /\ Len(list) \in Nat /\ BaseSize * Len(list) \in Nat
  BY MulNat DEF InNode
<1>2. ASSUME n > 0
      PROVE  CellNode(cur, n - 1) <= Len(list) <=> m_position + n <= BaseSize * Len(list)
  <2>1. n - 1 \in Nat /\ m_position + (n - 1) \in Nat
    BY <1>2
  <2>2. CellNode(cur, n - 1) = ((m_position + (n - 1)) \div BaseSize) + 1
    BY <2>1, CellExact
  <2>3. ((m_position + (n - 1)) \div BaseSize) + 1 <= Len(list)
        <=> m_position + (n - 1) < BaseSize * Len(list)
    BY <1>1, <2>1, NodeBound
  <2> QED BY <1>1, <1>2, <2>2, <2>3
<1> QED BY <1>1, <1>2 DEF Reachable

\* Advancing by n bytes of the list leaves the cursor of m_position + n.
LEMMA AdvancedExact ==
    ASSUME m_position \in Nat, NEW list \in Seq(Node), NEW cur, InNode(cur, m_position),
           NEW n \in Nat, m_position + n <= BaseSize * Len(list)
    PROVE  CursorOf(list, Advanced(list, cur, n), m_position + n)
<1> USE ByteArrayAssumption
<1> DEFINE p == m_position + n
           j == (p \div BaseSize) + 1
<1>1. p \in Nat /\ Len(list) \in Nat /\ BaseSize * Len(list) \in Nat
  BY MulNat
<1>2. CellNode(cur, n) = j
  BY CellExact
<1>3. InNode(j, p) /\ (j <= Len(list) <=> p < BaseSize * Len(list))
  BY <1>1, NodeOfPosition, NodeBound
<1>4. j \in Nat
  BY <1>3 DEF InNode
<1>5. Advanced(list, cur, n) = IF j > Len(list) THEN 0 ELSE j
  BY <1>2 DEF Advanced
<1> HIDE DEF p, j
<1>6. CursorOf(list, Advanced(list, cur, n), p)
  <2>1. CASE p = BaseSize * Len(list)
    BY <1>1, <1>3, <1>4, <1>5, <2>1 DEF CursorOf
  <2>2. CASE p < BaseSize * Len(list)
    BY <1>1, <1>3, <1>4, <1>5, <2>2 DEF CursorOf
  <2>3. p <= BaseSize * Len(list)
    BY DEF p
  <2> QED BY <1>1, <2>1, <2>2, <2>3
<1> QED BY <1>6 DEF p

-----------------------------------------------------------------------------
(* The inductive invariant                                                  *)

\* The types of the parts of a ByteArray.
ByteTypes ==
    /\ nodes \in Seq(Node) /\ Len(nodes) > 0
    /\ m_position \in Nat /\ m_size \in Nat /\ m_capacity \in Nat
    /\ fault \in {"none", "read", "write"}

\* CursorExact in the form the walks use, with the cursor inside the list.
BytesInv ==
    /\ ByteTypes
    /\ m_capacity = BaseSize * Len(nodes)
    /\ m_position <= m_size /\ m_size <= m_capacity
    /\ CursorOf(nodes, m_cur, m_position)
    /\ ReadsInside

\* A new node is a node.
LEMMA NewNodeType == NewNode \in Node
<1>1. PICK b \in Byte : TRUE
  BY ByteArrayAssumption
<1>2. (CHOOSE x \in Byte : TRUE) \in Byte
  BY <1>1
<1> QED BY <1>2 DEF NewNode, Node

\* The invariant gives the property.
LEMMA BytesInvExact == BytesInv => BytesConsistent
<1> SUFFICES ASSUME BytesInv PROVE BytesConsistent
  OBVIOUS
<1> USE ByteArrayAssumption
<1>1. ASSUME InNode(m_cur, m_position)
      PROVE  m_cur # 0 /\ m_position \in (m_cur - 1) * BaseSize .. m_cur * BaseSize - 1
  <2> DEFINE c == m_cur - 1
             x == BaseSize * c
  <2>1. /\ m_cur \in Nat \ {0} /\ c \in Nat /\ x \in Nat
        /\ m_position \in x .. x + BaseSize - 1
    BY <1>1, MulNat DEF InNode
  <2>2. c * BaseSize = x /\ m_cur * BaseSize = x + BaseSize
    BY <2>1
  <2> HIDE DEF x
  <2> QED BY <2>1, <2>2
<1>2. CursorExact
  BY <1>1 DEF BytesInv, ByteTypes, CursorOf, CursorExact
<1> QED BY <1>2 DEF BytesInv, BytesConsistent

\* The buffer starts with its cursor on the only node.
LEMMA BytesInvInit == ByteInit => BytesInv
<1> SUFFICES ASSUME ByteInit PROVE BytesInv
  OBVIOUS
<1> USE ByteArrayAssumption
<1>1. nodes \in Seq(Node) /\ Len(nodes) = 1
  BY NewNodeType DEF ByteInit
<1>2. BaseSize * 1 = BaseSize /\ BaseSize * (1 - 1) = 0
  OBVIOUS
<1>3. InNode(1, 0)
  BY <1>2 DEF InNode
<1>4. CursorOf(nodes, m_cur, m_position)
  BY <1>1, <1>2, <1>3 DEF CursorOf, ByteInit
<1> QED BY <1>1, <1>2, <1>4 DEF BytesInv, ByteTypes, ReadsInside, ByteInit

\* Below the capacity the cursor is the node of the position.
LEMMA CursorInNode ==
    ASSUME BytesInv, m_position < m_capacity
    PROVE  InNode(m_cur, m_position) /\ m_cur # 0
BY DEF BytesInv, CursorOf, InNode, ByteTypes

\* addCapacity(size) keeps the old nodes, counts the new ones exactly, and leaves
\* a cursor that is the node of the position, however many nodes it added.
LEMMA ExtendedExact ==
    ASSUME BytesInv, NEW size \in Nat \ {0}
    PROVE  LET e == Extended(size) IN
           /\ e.list \in Seq(Node) /\ Len(e.list) >= Len(nodes)
           /\ \A j \in 1 .. Len(nodes) : e.list[j] = nodes[j]
           /\ e.cap = BaseSize * Len(e.list) /\ m_size <= e.cap
           /\ InNode(e.cur, m_position)
<1> USE ByteArrayAssumption
<1> DEFINE e == Extended(size)
           old == m_capacity - m_position
           n == NodesToAdd(size - old, old)
           more == [i \in 1 .. n |-> NewNode]
           len == Len(nodes)
<1>1. /\ m_position \in Nat /\ m_size \in Nat /\ m_capacity \in Nat /\ m_position <= m_size
      /\ m_size <= m_capacity /\ nodes \in Seq(Node) /\ len \in Nat \ {0} /\ old \in Nat
      /\ m_capacity = BaseSize * len
  BY DEF BytesInv, ByteTypes
<1>2. CASE old >= size
  <2>1. e = [list |-> nodes, cur |-> m_cur, cap |-> m_capacity]
    BY <1>2 DEF Extended, getCapacity
  <2>2. InNode(m_cur, m_position)
    BY <1>1, <1>2, CursorInNode
  <2> QED BY <1>1, <2>1, <2>2
<1>3. CASE ~(old >= size)
  <2>1. e = [list |-> nodes \o more,
             cur |-> IF old # 0 THEN m_cur ELSE IF n = 0 THEN 0 ELSE len + 1,
             cap |-> m_capacity + n * BaseSize]
    BY <1>3 DEF Extended, getCapacity
  <2> DEFINE d == size - old
  <2>2. d \in Nat \ {0}
    BY <1>1, <1>3
  <2>3. /\ d \div BaseSize \in Nat /\ d % BaseSize \in 0 .. BaseSize - 1
        /\ d = BaseSize * (d \div BaseSize) + (d % BaseSize)
    BY <2>2, DivMod
  <2>4. n = (d \div BaseSize) + (IF d % BaseSize > old THEN 1 ELSE 0)
    BY DEF NodesToAdd
  <2>5. n \in Nat
    <3> HIDE DEF d, n
    <3> QED BY <2>3, <2>4
  <2>6. old = 0 => n # 0
    <3> SUFFICES ASSUME old = 0, n = 0 PROVE FALSE
      OBVIOUS
    <3>1. d \div BaseSize = 0 /\ ~(d % BaseSize > 0)
      <4> HIDE DEF d, n
      <4> QED BY <2>3, <2>4
    <3>2. d % BaseSize = 0 /\ d = BaseSize * 0 + 0
      <4> HIDE DEF d
      <4> QED BY <2>3, <3>1
    <3> QED BY <2>2, <3>2
  <2> HIDE DEF n
  <2>7. more \in Seq(Node) /\ Len(more) = n
    BY <2>5, NewNodeType
  <2>8. /\ nodes \o more \in Seq(Node) /\ Len(nodes \o more) = len + n
        /\ \A j \in 1 .. len : (nodes \o more)[j] = nodes[j]
    <3> HIDE DEF more
    <3> QED BY <1>1, <2>7
  <2>9. m_capacity + n * BaseSize = BaseSize * (len + n) /\ m_size <= m_capacity + n * BaseSize
    <3>1. BaseSize * (len + n) = BaseSize * len + BaseSize * n /\ n * BaseSize = BaseSize * n
          /\ BaseSize * n \in Nat
      BY <1>1, <2>5, MulDist, MulNat
    <3> QED BY <1>1, <3>1
  <2>12. ASSUME e.list = nodes \o more, e.cap = m_capacity + n * BaseSize
         PROVE  /\ e.list \in Seq(Node) /\ Len(e.list) >= Len(nodes)
                /\ \A j \in 1 .. Len(nodes) : e.list[j] = nodes[j]
                /\ e.cap = BaseSize * Len(e.list) /\ m_size <= e.cap
    <3> HIDE DEF more, e, len
    <3>1. e.list \in Seq(Node) /\ Len(e.list) = len + n /\ \A j \in 1 .. len : e.list[j] = nodes[j]
      BY <2>8, <2>12
    <3>2. e.cap = BaseSize * Len(e.list) /\ m_size <= e.cap
      BY <2>9, <2>12, <3>1
    <3>3. len + n >= len
      BY <1>1, <2>5
    <3> QED BY <3>1, <3>2, <3>3 DEF len
  <2>10. CASE old # 0
    <3>1. m_position < m_capacity
      BY <1>1, <2>10
    <3>2. InNode(m_cur, m_position)
      BY <3>1, CursorInNode
    <3>3. e.list = nodes \o more /\ e.cur = m_cur /\ e.cap = m_capacity + n * BaseSize
      <4> HIDE DEF more, old
      <4> QED BY <2>1, <2>10
    <3> QED BY <2>12, <3>2, <3>3
  <2>11. CASE old = 0
    <3>1. m_position = BaseSize * len
      BY <1>1, <2>11
    <3>2. InNode(len + 1, m_position)
      <4> DEFINE x == BaseSize * len
      <4>1. (len + 1) - 1 = len /\ len + 1 \in Nat \ {0} /\ x \in Nat
        BY <1>1
      <4>2. m_position \in x .. x + BaseSize - 1
        BY <3>1, <4>1
      <4> HIDE DEF len
      <4> QED BY <4>1, <4>2 DEF InNode
    <3>3. e.list = nodes \o more /\ e.cur = len + 1 /\ e.cap = m_capacity + n * BaseSize
      <4> HIDE DEF more, old
      <4> QED BY <2>1, <2>6, <2>11
    <3> QED BY <2>12, <3>2, <3>3
  <2> QED BY <2>10, <2>11
<1> QED BY <1>2, <1>3

\* Storing s at the position changes the bytes from the position on, and no other.
LEMMA StoredExact ==
    ASSUME m_position \in Nat, NEW list \in Seq(Node), NEW cur, InNode(cur, m_position),
           NEW s \in Seq(Byte)
    PROVE  LET t == StoredAt(list, cur, s) IN
           /\ t \in Seq(Node) /\ Len(t) = Len(list)
           /\ \A i \in 1 .. BaseSize * Len(list) :
                 Flat(t, i) = IF i \in m_position + 1 .. m_position + Len(s)
                              THEN s[i - m_position] ELSE Flat(list, i)
<1> USE ByteArrayAssumption
<1> DEFINE t == StoredAt(list, cur, s)
           r == m_position % BaseSize
           K(j, o) == (j - cur) * BaseSize + o - 1 - r
<1>1. DOMAIN list = 1 .. Len(list) /\ Len(list) \in Nat /\ cur \in Nat \ {0}
      /\ BaseSize * Len(list) \in Nat
  BY MulNat DEF InNode
<1>2. t = [j \in 1 .. Len(list) |-> [o \in 1 .. BaseSize |->
             IF K(j, o) \in 0 .. Len(s) - 1 THEN s[K(j, o) + 1] ELSE list[j][o]]]
  BY <1>1 DEF StoredAt
<1>r. r \in 0 .. BaseSize - 1
  BY DivMod
<1>3. \A j \in 1 .. Len(list), o \in 1 .. BaseSize : K(j, o) \in Int
  <2> HIDE DEF r
  <2> TAKE j \in 1 .. Len(list), o \in 1 .. BaseSize
  <2>1. (j - cur) * BaseSize \in Int
    BY <1>1
  <2> QED BY <1>r, <2>1
<1> HIDE DEF K, t
<1>4. \A j \in 1 .. Len(list) : t[j] \in Node
  <2> TAKE j \in 1 .. Len(list)
  <2>1. t[j] = [o \in 1 .. BaseSize |->
             IF K(j, o) \in 0 .. Len(s) - 1 THEN s[K(j, o) + 1] ELSE list[j][o]]
    BY <1>2
  <2>2. \A o \in 1 .. BaseSize : list[j][o] \in Byte
    <3>1. list[j] \in Node
      BY <1>1
    <3> QED BY <3>1 DEF Node
  <2>3. \A o \in 1 .. BaseSize :
           K(j, o) \in 0 .. Len(s) - 1 => s[K(j, o) + 1] \in Byte
    <3> TAKE o \in 1 .. BaseSize
    <3>1. K(j, o) \in Int
      BY <1>3
    <3> QED BY <3>1
  <2> QED BY <2>1, <2>2, <2>3 DEF Node
<1>5. t \in Seq(Node) /\ Len(t) = Len(list)
  <2>1. t = [j \in 1 .. Len(list) |-> t[j]]
    BY <1>2
  <2>2. t \in [1 .. Len(list) -> Node]
    BY <1>4, <2>1
  <2> QED BY <1>1, <2>2
<1>6. ASSUME NEW i \in 1 .. BaseSize * Len(list)
      PROVE  Flat(t, i) = IF i \in m_position + 1 .. m_position + Len(s)
                          THEN s[i - m_position] ELSE Flat(list, i)
  <2> DEFINE p == i - 1
             j == (p \div BaseSize) + 1
             o == (p % BaseSize) + 1
  <2>1. p \in Nat /\ p < BaseSize * Len(list)
    BY <1>1
  <2>2. /\ p \div BaseSize \in Nat /\ p % BaseSize \in 0 .. BaseSize - 1
        /\ p = BaseSize * (p \div BaseSize) + (p % BaseSize)
    BY <2>1, DivMod
  <2>3. j \in 1 .. Len(list) /\ o \in 1 .. BaseSize
    <3>1. j <= Len(list)
      BY <1>1, <2>1, NodeBound
    <3> QED BY <1>1, <2>2, <3>1
  <2>4. m_position = BaseSize * (cur - 1) + r
    <3>1. cur = (m_position \div BaseSize) + 1
      BY NodeOfPosition
    <3>2. cur - 1 = m_position \div BaseSize
      BY <1>1, <3>1, DivMod
    <3> QED BY <3>2, DivMod
  <2>5. p = BaseSize * (j - 1) + (o - 1)
    BY <2>2
  <2>6. K(j, o) = i - 1 - m_position
    <3> DEFINE x == BaseSize * (j - 1)
               y == BaseSize * (cur - 1)
               z == (j - cur) * BaseSize
    <3> HIDE DEF j, o, r
    <3>1. j \in Int /\ o \in Int /\ r \in Int
      BY <1>1, <1>r, <2>3
    <3>2. z = x - y /\ x \in Int /\ y \in Int
      BY <1>1, <3>1
    <3>3. K(j, o) = z + o - 1 - r
      BY DEF K
    <3>4. p = x + (o - 1) /\ m_position = y + r
      BY <2>4, <2>5
    <3> HIDE DEF x, y, z
    <3> QED BY <2>1, <3>1, <3>2, <3>3, <3>4
  <2>7. Flat(t, i) = t[j][o] /\ Flat(list, i) = list[j][o]
    BY DEF Flat
  <2>8. t[j][o] = IF K(j, o) \in 0 .. Len(s) - 1 THEN s[K(j, o) + 1] ELSE list[j][o]
    <3> HIDE DEF j, o
    <3> QED BY <1>2, <2>3
  <2>9. K(j, o) \in 0 .. Len(s) - 1 <=> i \in m_position + 1 .. m_position + Len(s)
    <3> HIDE DEF j, o
    <3>1. Len(s) \in Nat
      OBVIOUS
    <3> QED BY <1>1, <2>6, <3>1
  <2>10. K(j, o) + 1 = i - m_position
    <3> HIDE DEF j, o
    <3> QED BY <1>1, <2>6
  <2> HIDE DEF j, o
  <2> QED BY <2>7, <2>8, <2>9, <2>10
<1> QED BY <1>5, <1>6 DEF t

-----------------------------------------------------------------------------
(* The steps                                                                *)

\* The content: the nodes as one string, up to m_size.
Content == [i \in 1 .. m_size |->
               nodes[(i - 1) \div BaseSize + 1][((i - 1) % BaseSize) + 1]]

\* Its length, and its bytes.
LEMMA ContentBytes ==
    ASSUME m_size \in Nat
    PROVE  /\ Len(Content) = m_size /\ DOMAIN Content = 1 .. m_size
           /\ \A i \in 1 .. m_size : Content[i] = Flat(nodes, i)
BY DEF Content, Flat

\* write and the receiving transfer: reserve len bytes, store s in the first of
\* them, move behind them.
StoreStep(len, s) ==
    LET e == Extended(len) IN
    /\ Reachable(e.list, e.cur, len)
    /\ nodes' = StoredAt(e.list, e.cur, s)
    /\ m_cur' = Advanced(e.list, e.cur, Len(s))
    /\ m_capacity' = e.cap
    /\ m_position' = m_position + Len(s)
    /\ m_size' = IF m_position' > m_size THEN m_position' ELSE m_size
    /\ UNCHANGED <<out, fault>>

\* It leaves an exact cursor, and is the abstract Write of s.
LEMMA StoreStepExact ==
    ASSUME BytesInv, fault = "none", NEW len \in Nat \ {0}, NEW s \in Seq(Byte), Len(s) <= len,
           StoreStep(len, s)
    PROVE  BytesInv' /\ String!Write(s)
<1> USE ByteArrayAssumption
<1> DEFINE e == Extended(len)
           list == e.list
           cur == e.cur
           cap == e.cap
<1>1. /\ list \in Seq(Node) /\ Len(list) >= Len(nodes)
      /\ \A j \in 1 .. Len(nodes) : list[j] = nodes[j]
      /\ cap = BaseSize * Len(list) /\ m_size <= cap
      /\ InNode(cur, m_position)
  BY ExtendedExact
<1>2. /\ m_position \in Nat /\ m_size \in Nat /\ nodes \in Seq(Node) /\ Len(nodes) > 0
      /\ m_position <= m_size /\ m_capacity = BaseSize * Len(nodes) /\ m_size <= m_capacity
      /\ Len(s) \in Nat /\ Len(list) \in Nat /\ cap \in Nat /\ Len(nodes) \in Nat
  BY <1>1, MulNat DEF BytesInv, ByteTypes
<1>3. /\ Reachable(list, cur, len) /\ nodes' = StoredAt(list, cur, s)
      /\ m_cur' = Advanced(list, cur, Len(s)) /\ m_capacity' = cap
      /\ m_position' = m_position + Len(s)
      /\ m_size' = IF m_position' > m_size THEN m_position' ELSE m_size
      /\ out' = out /\ fault' = fault
  BY DEF StoreStep
<1> HIDE DEF list, cur, cap
<1>4. m_position + len <= BaseSize * Len(list)
  <2>1. list \in Seq(Node) /\ InNode(cur, m_position) /\ m_position \in Nat
        /\ Reachable(list, cur, len)
    BY <1>1, <1>2, <1>3
  <2>2. len > 0 => m_position + len <= BaseSize * Len(list)
    BY <2>1, ReachableExact
  <2> QED BY <2>2
<1>5. m_position + Len(s) <= BaseSize * Len(list)
  <2> DEFINE x == BaseSize * Len(list)
  <2>1. m_position + len <= x /\ x \in Nat
    BY <1>1, <1>2, <1>4
  <2> HIDE DEF x
  <2>2. m_position + Len(s) <= x
    BY <1>2, <2>1
  <2> QED BY <2>2 DEF x
<1>6. CursorOf(list, m_cur', m_position')
  BY <1>1, <1>2, <1>3, <1>5, AdvancedExact
<1>7. /\ nodes' \in Seq(Node) /\ Len(nodes') = Len(list)
      /\ \A i \in 1 .. cap :
            Flat(nodes', i) = IF i \in m_position + 1 .. m_position + Len(s)
                              THEN s[i - m_position] ELSE Flat(list, i)
  BY <1>1, <1>2, <1>3, StoredExact, SMTT(30)
<1>8. m_position' \in Nat /\ m_size' \in Nat /\ m_position' <= m_size' /\ m_size' <= cap
      /\ m_size' >= m_size
  BY <1>1, <1>2, <1>3, <1>5
<1>9. BytesInv'
  <2>1. CursorOf(nodes, m_cur, m_position)'
    BY <1>6, <1>7 DEF CursorOf
  <2>2. ByteTypes'
    BY <1>1, <1>2, <1>3, <1>7, <1>8 DEF ByteTypes
  <2>3. ReadsInside'
    BY <1>3 DEF ReadsInside
  <2>4. m_capacity' = BaseSize * Len(nodes')
    BY <1>1, <1>3, <1>7
  <2> QED BY <1>3, <1>8, <2>1, <2>2, <2>3, <2>4 DEF BytesInv
<1>10. \A i \in 1 .. m_size : Flat(list, i) = Flat(nodes, i)
  <2> TAKE i \in 1 .. m_size
  <2>1. i - 1 \in Nat /\ i - 1 < BaseSize * Len(nodes)
    <3> DEFINE x == BaseSize * Len(nodes)
    <3>1. m_size <= x /\ x \in Nat
      BY <1>2, MulNat
    <3> HIDE DEF x
    <3>2. i - 1 \in Nat /\ i - 1 < x
      BY <1>2, <3>1
    <3> QED BY <3>2 DEF x
  <2> DEFINE j == ((i - 1) \div BaseSize) + 1
  <2>2. j \in 1 .. Len(nodes)
    <3>1. (i - 1) \div BaseSize \in Nat
      BY <2>1, DivMod
    <3>2. j <= Len(nodes)
      BY <1>2, <2>1, NodeBound
    <3> QED BY <1>2, <3>1, <3>2
  <2>3. list[j] = nodes[j]
    BY <1>1, <2>2
  <2> QED BY <2>3 DEF Flat
<1>11. String!Write(s)
  <2> DEFINE top == IF m_position + Len(s) > m_size THEN m_position + Len(s) ELSE m_size
  <2>1. m_size' = top
    BY <1>3
  <2>2. Len(Content) = m_size /\ \A i \in 1 .. m_size : Content[i] = Flat(nodes, i)
    BY <1>2, ContentBytes
  <2>3. Content' = [i \in 1 .. m_size' |-> Flat(nodes', i)]
    BY DEF Content, Flat
  <2>4. ASSUME NEW i \in 1 .. m_size'
        PROVE  Flat(nodes', i) = IF i \in m_position + 1 .. m_position + Len(s)
                                 THEN s[i - m_position] ELSE Content[i]
    <3>1. i \in 1 .. cap
      BY <1>2, <1>8
    <3>2. i \notin m_position + 1 .. m_position + Len(s) => i \in 1 .. m_size
      BY <1>2, <1>3
    <3> QED BY <1>7, <1>10, <2>2, <3>1, <3>2
  <2>5. Content' = [i \in 1 .. (IF m_position + Len(s) > Len(Content)
                                THEN m_position + Len(s) ELSE Len(Content)) |->
                      IF i \in m_position + 1 .. m_position + Len(s)
                      THEN s[i - m_position] ELSE Content[i]]
    BY <2>1, <2>2, <2>3, <2>4
  <2> QED BY <1>3, <2>5 DEF String!Write, Content
<1> QED BY <1>9, <1>11

\* Chunks are sequences of bytes.
LEMMA ChunkType ==
    ASSUME NEW s \in ByteChunks
    PROVE  s \in Seq(Byte) /\ Len(s) \in 0 .. MaxLen
<1>1. PICK n \in 0 .. MaxLen : s \in [1 .. n -> Byte]
  BY DEF ByteChunks
<1> QED BY <1>1, ByteArrayAssumption

\* What the walk over n bytes collects is the content from the position on.
LEMMA LoadedExact ==
    ASSUME BytesInv, NEW n \in Nat, m_position + n <= m_size, n = 0 \/ InNode(m_cur, m_position)
    PROVE  Loaded(n) = SubSeq(Content, m_position + 1, m_position + n)
<1> USE ByteArrayAssumption
<1>1. m_position \in Nat /\ m_size \in Nat
  BY DEF BytesInv, ByteTypes
<1>2. /\ Len(Content) = m_size /\ DOMAIN Content = 1 .. m_size
      /\ \A i \in 1 .. m_size : Content[i] = Flat(nodes, i)
  BY <1>1, ContentBytes
<1>3. SubSeq(Content, m_position + 1, m_position + n) = [i \in 1 .. n |-> Content[m_position + i]]
  BY <1>1 DEF SubSeq
<1>4. ASSUME NEW i \in 1 .. n
      PROVE  nodes[CellNode(m_cur, i - 1)][CellOffset(i - 1)] = Content[m_position + i]
  <2>1. i - 1 \in Nat /\ InNode(m_cur, m_position) /\ m_position + i \in 1 .. m_size
        /\ (m_position + i) - 1 = m_position + (i - 1)
    BY <1>1, <1>4
  <2>2. /\ CellNode(m_cur, i - 1) = ((m_position + (i - 1)) \div BaseSize) + 1
        /\ CellOffset(i - 1) = ((m_position + (i - 1)) % BaseSize) + 1
    BY <1>1, <2>1, CellExact
  <2>3. Content[m_position + i] = Flat(nodes, m_position + i)
    BY <1>2, <2>1
  <2>4. Flat(nodes, m_position + i) = nodes[CellNode(m_cur, i - 1)][CellOffset(i - 1)]
    BY <2>1, <2>2 DEF Flat
  <2> QED BY <2>3, <2>4
<1> QED BY <1>3, <1>4 DEF Loaded

\* read and the sending transfer: hand out n bytes and move behind them.
LoadStep(n) ==
    /\ out' = Loaded(n)
    /\ m_position' = m_position + n
    /\ m_cur' = Advanced(nodes, m_cur, n)
    /\ UNCHANGED <<nodes, m_size, m_capacity, fault>>

\* It leaves an exact cursor, and is the abstract Read of n bytes.
LEMMA LoadStepExact ==
    ASSUME BytesInv, fault = "none", NEW n \in Nat, m_position + n <= m_size,
           InNode(m_cur, m_position), LoadStep(n)
    PROVE  BytesInv' /\ String!Read(n)
<1> USE ByteArrayAssumption
<1>1. /\ m_position \in Nat /\ m_size \in Nat /\ m_capacity \in Nat /\ nodes \in Seq(Node)
      /\ Len(nodes) > 0 /\ m_capacity = BaseSize * Len(nodes) /\ m_size <= m_capacity
  BY DEF BytesInv, ByteTypes
<1>2. m_position + n <= BaseSize * Len(nodes)
  BY <1>1
<1>3. CursorOf(nodes, m_cur', m_position')
  BY <1>1, <1>2, AdvancedExact DEF LoadStep
<1>4. BytesInv'
  <2>1. /\ nodes' = nodes /\ m_size' = m_size /\ m_capacity' = m_capacity /\ fault' = fault
        /\ m_position' = m_position + n
    BY DEF LoadStep
  <2>2. CursorOf(nodes, m_cur, m_position)'
    BY <1>3, <2>1 DEF CursorOf
  <2>3. ByteTypes'
    BY <1>1, <2>1 DEF ByteTypes
  <2>4. ReadsInside'
    BY <2>1 DEF ReadsInside
  <2> QED BY <1>1, <2>1, <2>2, <2>3, <2>4 DEF BytesInv
<1>5. String!Read(n)
  <2>1. Len(Content) = m_size
    BY <1>1, ContentBytes
  <2>2. out' = SubSeq(Content, m_position + 1, m_position + n)
    BY LoadedExact DEF LoadStep
  <2>3. Content' = Content
    BY DEF LoadStep, Content
  <2> QED BY <2>1, <2>2, <2>3 DEF String!Read, LoadStep, Content
<1> QED BY <1>4, <1>5

\* A walk that follows NULL: the cursor was NULL at the end of the last node, so
\* nothing was left to read.
LEMMA ReadFailsExact ==
    ASSUME BytesInv, NEW n \in Nat, m_position + n <= m_size, ~Reachable(nodes, m_cur, n)
    PROVE  m_position = m_size /\ m_position = m_capacity
<1>1. /\ m_position \in Nat /\ m_size \in Nat /\ m_capacity \in Nat /\ nodes \in Seq(Node)
      /\ m_capacity = BaseSize * Len(nodes) /\ m_position <= m_size /\ m_size <= m_capacity
  BY DEF BytesInv, ByteTypes
<1>2. CASE m_position < m_capacity
  <2>1. InNode(m_cur, m_position)
    BY <1>2, CursorInNode
  <2>2. n > 0 /\ ~(m_position + n <= BaseSize * Len(nodes))
    BY <1>1, <2>1, ReachableExact
  <2> QED BY <1>1, <2>2
<1> QED BY <1>1, <1>2

\* A reachable walk starts on a node.
LEMMA ReachableInNode ==
    ASSUME BytesInv, NEW n \in Nat, Reachable(nodes, m_cur, n)
    PROVE  InNode(m_cur, m_position)
BY DEF BytesInv, CursorOf, Reachable

\* The failing accesses change nothing but the fault.
LEMMA FailStep ==
    ASSUME BytesInv, UNCHANGED <<nodes, m_cur, m_position, m_size, m_capacity, out>>,
           fault' \in {"read", "write"}, ReadsInside'
    PROVE  BytesInv' /\ UNCHANGED <<Content, m_position, out>>
<1>1. ByteTypes'
  BY DEF BytesInv, ByteTypes
<1>2. CursorOf(nodes, m_cur, m_position)'
  BY DEF BytesInv, CursorOf
<1> QED BY <1>1, <1>2 DEF BytesInv, Content

\* A step of the abstract string, or none.
StringStep == String!Next \/ UNCHANGED <<Content, m_position, out>>

\* setPosition either moves the cursor to the node it walks to or does nothing.
LEMMA SetPositionStep ==
    ASSUME BytesInv, NEW v \in Nat, setPosition(v)
    PROVE  BytesInv' /\ StringStep
<1> USE ByteArrayAssumption
<1>1. /\ m_position \in Nat /\ m_size \in Nat /\ m_capacity \in Nat /\ nodes \in Seq(Node)
      /\ Len(nodes) > 0 /\ Len(nodes) \in Nat /\ m_capacity = BaseSize * Len(nodes)
      /\ m_position <= m_size /\ m_size <= m_capacity
  BY DEF BytesInv, ByteTypes
<1>2. nodes' = nodes /\ m_capacity' = m_capacity /\ out' = out /\ fault' = fault /\ fault = "none"
  BY DEF setPosition, ByteOp
<1>3. CASE v > m_capacity
  <2>1. m_cur' = m_cur /\ m_position' = m_position /\ m_size' = m_size
    BY <1>3 DEF setPosition
  <2>2. BytesInv'
    BY <1>2, <2>1 DEF BytesInv, ByteTypes, CursorOf, ReadsInside
  <2>3. UNCHANGED <<Content, m_position, out>>
    BY <1>2, <2>1 DEF Content
  <2> QED BY <2>2, <2>3 DEF StringStep
<1>4. CASE v <= m_capacity
  <2>1. m_position' = v /\ m_size' = (IF v > m_size THEN v ELSE m_size) /\ m_cur' = NodeAt(v)
    BY <1>1, <1>4 DEF setPosition
  <2> DEFINE j == (v \div BaseSize) + 1
  <2>2. InNode(j, v) /\ (j <= Len(nodes) <=> v < BaseSize * Len(nodes))
    BY <1>1, NodeOfPosition, NodeBound
  <2>3. NodeAt(v) = IF j > Len(nodes) THEN 0 ELSE j
    BY DEF NodeAt
  <2>4. j \in Nat
    BY <2>2 DEF InNode
  <2>5. CursorOf(nodes, NodeAt(v), v)
    <3> HIDE DEF j
    <3>1. CASE v = m_capacity
      BY <1>1, <2>2, <2>3, <2>4, <3>1 DEF CursorOf
    <3>2. CASE v < m_capacity
      BY <1>1, <2>2, <2>3, <2>4, <3>2 DEF CursorOf
    <3> QED BY <1>1, <1>4, <3>1, <3>2
  <2>6. BytesInv'
    <3>1. CursorOf(nodes, m_cur, m_position)'
      BY <1>2, <2>1, <2>5 DEF CursorOf
    <3>2. ByteTypes'
      BY <1>1, <1>2, <2>1 DEF ByteTypes
    <3>3. ReadsInside'
      BY <1>2 DEF ReadsInside
    <3> QED BY <1>1, <1>2, <1>4, <2>1, <3>1, <3>2, <3>3 DEF BytesInv
  <2>7. String!Seek
    <3>1. Len(Content) = m_size /\ \A i \in 1 .. m_size : Content[i] = Flat(nodes, i)
      BY <1>1, ContentBytes
    <3>2. m_size' \in Nat /\ m_size' >= m_size
      BY <1>1, <2>1
    <3>3. Content' = [i \in 1 .. m_size' |-> Flat(nodes, i)]
      BY <1>2 DEF Content, Flat
    <3>4. Len(Content') = m_size'
      BY <3>2, <3>3
    <3>5. \A i \in 1 .. Len(Content) : Content'[i] = Content[i]
      BY <1>1, <3>1, <3>2, <3>3
    <3>6. m_position' \in Nat /\ out' = out
          /\ Len(Content') = (IF m_position' > Len(Content) THEN m_position' ELSE Len(Content))
      BY <1>2, <2>1, <3>1, <3>4
    <3> QED BY <3>5, <3>6 DEF String!Seek, Content
  <2> QED BY <2>6, <2>7 DEF StringStep, String!Next
<1> QED BY <1>1, <1>3, <1>4

\* clear frees every node but the first.
LEMMA ClearStep ==
    ASSUME BytesInv, clear
    PROVE  BytesInv' /\ StringStep
<1> USE ByteArrayAssumption
<1>1. nodes \in Seq(Node) /\ nodes[1] \in Node
  BY DEF BytesInv, ByteTypes
<1>2. /\ nodes' = <<nodes[1]>> /\ m_cur' = 1 /\ m_position' = 0 /\ m_size' = 0
      /\ m_capacity' = BaseSize /\ out' = out /\ fault' = fault /\ fault = "none"
  BY DEF clear, ByteOp
<1>3. nodes' \in Seq(Node) /\ Len(nodes') = 1
  BY <1>1, <1>2
<1>4. BaseSize * 1 = BaseSize /\ BaseSize * (1 - 1) = 0
  OBVIOUS
<1>5. InNode(1, 0)
  BY <1>4 DEF InNode
<1>6. CursorOf(nodes, m_cur, m_position)'
  BY <1>2, <1>3, <1>4, <1>5 DEF CursorOf
<1>7. BytesInv'
  BY <1>2, <1>3, <1>4, <1>6 DEF BytesInv, ByteTypes, ReadsInside
<1>8. Content' = <<>>
  BY <1>2 DEF Content
<1>9. String!Clear
  BY <1>2, <1>8 DEF String!Clear, Content
<1> QED BY <1>7, <1>9 DEF StringStep, String!Next

\* toString reads what is left without moving.
LEMMA ToStringStep ==
    ASSUME BytesInv, toString
    PROVE  BytesInv' /\ StringStep
<1> DEFINE n == getReadSize
<1>1. /\ m_position \in Nat /\ m_size \in Nat /\ n \in Nat /\ m_position + n = m_size
      /\ n = m_size - m_position
  BY DEF BytesInv, ByteTypes, getReadSize
<1>2. CASE n = 0 \/ Reachable(nodes, m_cur, n)
  <2>1. /\ out' = Loaded(n) /\ nodes' = nodes /\ m_cur' = m_cur /\ m_position' = m_position
        /\ m_size' = m_size /\ m_capacity' = m_capacity /\ fault' = fault
    BY <1>2 DEF toString
  <2>2. BytesInv'
    BY <2>1 DEF BytesInv, ByteTypes, CursorOf, ReadsInside
  <2>3. n = 0 \/ InNode(m_cur, m_position)
    BY <1>1, <1>2, ReachableInNode
  <2>4. Loaded(n) = SubSeq(Content, m_position + 1, m_position + n)
    <3> HIDE DEF n
    <3> QED BY <1>1, <2>3, LoadedExact
  <2>5. Content' = Content /\ Len(Content) = m_size
    BY <1>1, <2>1, ContentBytes DEF Content
  <2>6. out' = SubSeq(Content, m_position + 1, Len(Content))
    BY <1>1, <2>1, <2>4, <2>5
  <2>7. String!Peek
    BY <2>1, <2>5, <2>6 DEF String!Peek, Content
  <2> QED BY <2>2, <2>7 DEF StringStep, String!Next
<1>3. CASE ~(n = 0 \/ Reachable(nodes, m_cur, n))
  <2>1. ReadFails
    BY <1>3 DEF toString
  <2>2. m_position = m_size /\ m_position = m_capacity
    <3> HIDE DEF n
    <3> QED BY <1>1, <1>3, ReadFailsExact
  <2> QED BY <1>1, <1>3, <2>2
<1> QED BY <1>2, <1>3

\* A failing read keeps the invariant, because it failed at the very end.
LEMMA ReadFailsStep ==
    ASSUME BytesInv, NEW n \in Nat, m_position + n <= m_size, ~Reachable(nodes, m_cur, n),
           ReadFails
    PROVE  BytesInv' /\ StringStep
<1>1. m_position = m_size /\ m_position = m_capacity
  BY ReadFailsExact
<1>2. ReadsInside'
  BY <1>1 DEF ReadFails, ReadsInside
<1> QED BY <1>2, FailStep DEF ReadFails, StringStep

\* read hands out n bytes, or follows NULL.
LEMMA ReadStep ==
    ASSUME BytesInv, NEW n \in 0 .. MaxLen, read(n)
    PROVE  BytesInv' /\ StringStep
<1>1. /\ m_position \in Nat /\ m_size \in Nat /\ n \in Nat /\ m_position + n <= m_size
      /\ fault = "none"
  BY ByteArrayAssumption DEF BytesInv, ByteTypes, getReadSize, read, ByteOp
<1>2. CASE Reachable(nodes, m_cur, n)
  <2>1. LoadStep(n)
    BY <1>2 DEF read, LoadStep
  <2>2. BytesInv' /\ String!Read(n)
    BY <1>1, <1>2, <2>1, LoadStepExact, ReachableInNode
  <2> QED BY <2>2 DEF StringStep, String!Next
<1>3. CASE ~Reachable(nodes, m_cur, n)
  <2>1. ReadFails
    BY <1>3 DEF read
  <2> QED BY <1>1, <1>3, <2>1, ReadFailsStep
<1> QED BY <1>2, <1>3

\* The sending transfer hands out what the kernel took, nothing included.
LEMMA SendFromStep ==
    ASSUME BytesInv, NEW len \in 0 .. MaxLen, NEW n \in 0 .. MaxLen, sendFrom(len, n)
    PROVE  BytesInv' /\ StringStep
<1> DEFINE avail == IF len > getReadSize THEN getReadSize ELSE len
<1>1. /\ m_position \in Nat /\ m_size \in Nat /\ n \in Nat /\ len \in Nat
      /\ m_position <= m_size /\ getReadSize = m_size - m_position
  BY ByteArrayAssumption DEF BytesInv, ByteTypes, getReadSize
<1>2. avail \in Nat /\ m_position + avail <= m_size /\ n <= avail /\ fault = "none"
  BY <1>1 DEF sendFrom, ByteOp
<1>3. IF avail = 0 \/ Reachable(nodes, m_cur, avail)
      THEN /\ out' = IF n = 0 THEN out ELSE Loaded(n)
           /\ m_position' = m_position + n
           /\ m_cur' = IF n = 0 THEN m_cur ELSE Advanced(nodes, m_cur, n)
           /\ UNCHANGED <<nodes, m_size, m_capacity, fault>>
      ELSE ReadFails
  BY DEF sendFrom
<1> HIDE DEF avail
<1>4. CASE avail = 0 \/ Reachable(nodes, m_cur, avail)
  <2>1. CASE n = 0
    <3>1. UNCHANGED <<nodes, m_cur, m_position, m_size, m_capacity, out, fault>>
      BY <1>1, <1>3, <1>4, <2>1
    <3>2. BytesInv'
      BY <1>2, <3>1 DEF BytesInv, ByteTypes, CursorOf, ReadsInside
    <3> QED BY <3>1, <3>2 DEF StringStep, Content
  <2>2. CASE n # 0
    <3>1. LoadStep(n)
      BY <1>3, <1>4, <2>2 DEF LoadStep
    <3>2. Reachable(nodes, m_cur, avail)
      BY <1>1, <1>2, <1>4, <2>2
    <3>3. InNode(m_cur, m_position) /\ m_position + n <= m_size
      BY <1>1, <1>2, <3>2, ReachableInNode
    <3>4. BytesInv' /\ String!Read(n)
      BY <1>1, <1>2, <3>1, <3>3, LoadStepExact
    <3> QED BY <3>4 DEF StringStep, String!Next
  <2> QED BY <2>1, <2>2
<1>5. CASE ~(avail = 0 \/ Reachable(nodes, m_cur, avail))
  BY <1>2, <1>3, <1>5, ReadFailsStep
<1> QED BY <1>4, <1>5

\* A failing reservation leaves the content as it is.
LEMMA WriteFailsStep ==
    ASSUME BytesInv, WriteFails
    PROVE  BytesInv' /\ StringStep
<1>1. fault' = "write"
  BY DEF WriteFails
<1>2. ReadsInside'
  BY <1>1 DEF ReadsInside
<1> QED BY <1>1, <1>2, FailStep DEF WriteFails, StringStep

\* write stores s, or follows NULL.
LEMMA WriteStep ==
    ASSUME BytesInv, NEW s \in ByteChunks, write(s)
    PROVE  BytesInv' /\ StringStep
<1>1. s \in Seq(Byte) /\ Len(s) \in Nat \ {0} /\ fault = "none"
  BY ChunkType DEF write, ByteOp
<1>2. CASE Reachable(Extended(Len(s)).list, Extended(Len(s)).cur, Len(s))
  <2>1. StoreStep(Len(s), s)
    BY <1>2 DEF write, StoreStep
  <2>2. BytesInv' /\ String!Write(s)
    BY <1>1, <2>1, StoreStepExact
  <2> QED BY <2>2 DEF StringStep, String!Next, String!Chunks, ByteChunks
<1>3. CASE ~Reachable(Extended(Len(s)).list, Extended(Len(s)).cur, Len(s))
  <2>1. WriteFails
    BY <1>3 DEF write
  <2> QED BY <2>1, WriteFailsStep
<1> QED BY <1>2, <1>3

\* The receiving transfer stores what the kernel filled of the reserved bytes.
LEMMA RecvIntoStep ==
    ASSUME BytesInv, NEW s \in ByteChunks, NEW len \in 1 .. MaxLen, recvInto(len, s)
    PROVE  BytesInv' /\ StringStep
<1> DEFINE e == Extended(len)
<1>1. /\ s \in Seq(Byte) /\ Len(s) \in Nat /\ len \in Nat \ {0} /\ Len(s) <= len
      /\ fault = "none"
  BY ChunkType, ByteArrayAssumption DEF recvInto, ByteOp
<1>2. CASE Reachable(e.list, e.cur, len)
  <2>1. e.list \in Seq(Node) /\ InNode(e.cur, m_position) /\ m_position \in Nat
    BY <1>1, ExtendedExact DEF BytesInv, ByteTypes
  <2>2. m_position + len <= BaseSize * Len(e.list) /\ BaseSize * Len(e.list) \in Nat
    <3> HIDE DEF e
    <3>1. BaseSize * Len(e.list) \in Nat
      BY <2>1, MulNat, ByteArrayAssumption
    <3>2. m_position + len <= BaseSize * Len(e.list)
      BY <1>1, <1>2, <2>1, ReachableExact
    <3> QED BY <3>1, <3>2
  <2>3. ASSUME s = <<>> PROVE e.cur = Advanced(e.list, e.cur, Len(s))
    <3> HIDE DEF e
    <3>1. Len(s) = 0 /\ m_position + 0 = m_position
      BY <2>1, <2>3
    <3>2. CursorOf(e.list, Advanced(e.list, e.cur, 0), m_position)
      BY <2>1, <2>2, <3>1, AdvancedExact
    <3>3. m_position # BaseSize * Len(e.list)
      BY <1>1, <2>1, <2>2
    <3>4. InNode(Advanced(e.list, e.cur, 0), m_position)
      BY <3>2, <3>3 DEF CursorOf
    <3> QED BY <2>1, <3>1, <3>4, NodeOfPosition
  <2>4. StoreStep(len, s)
    BY <1>2, <2>3 DEF recvInto, StoreStep
  <2>5. BytesInv' /\ String!Write(s)
    BY <1>1, <2>4, StoreStepExact
  <2> QED BY <2>5 DEF StringStep, String!Next, String!Chunks, ByteChunks
<1>3. CASE ~Reachable(e.list, e.cur, len)
  <2>1. WriteFails
    BY <1>3 DEF recvInto
  <2> QED BY <2>1, WriteFailsStep
<1> QED BY <1>2, <1>3

\* Every step keeps the invariant and is a step of the string, or none.
LEMMA ByteStep == BytesInv /\ [ByteNext]_byteVars => BytesInv' /\ StringStep
<1> SUFFICES ASSUME BytesInv, [ByteNext]_byteVars PROVE BytesInv' /\ StringStep
  OBVIOUS
<1>1. CASE UNCHANGED byteVars
  <2>1. BytesInv'
    BY <1>1 DEF byteVars, BytesInv, ByteTypes, CursorOf, ReadsInside
  <2> QED BY <1>1, <2>1 DEF byteVars, StringStep, Content
<1>2. ASSUME NEW v \in 0 .. m_capacity + 1, setPosition(v) PROVE BytesInv' /\ StringStep
  BY <1>2, SetPositionStep DEF BytesInv, ByteTypes
<1>3. CASE clear
  BY <1>3, ClearStep
<1>4. CASE toString
  BY <1>4, ToStringStep
<1>5. ASSUME NEW s \in ByteChunks, write(s) PROVE BytesInv' /\ StringStep
  BY <1>5, WriteStep
<1>6. ASSUME NEW s \in ByteChunks, NEW len \in 1 .. MaxLen, recvInto(len, s)
      PROVE  BytesInv' /\ StringStep
  BY <1>6, RecvIntoStep
<1>7. ASSUME NEW n \in 0 .. MaxLen, read(n) PROVE BytesInv' /\ StringStep
  BY <1>7, ReadStep
<1>8. ASSUME NEW n \in 0 .. MaxLen, NEW len \in 0 .. MaxLen, sendFrom(len, n)
      PROVE  BytesInv' /\ StringStep
  BY <1>8, SendFromStep
<1> QED BY <1>1, <1>2, <1>3, <1>4, <1>5, <1>6, <1>7, <1>8 DEF ByteNext

-----------------------------------------------------------------------------
(* Theorems                                                                 *)

\* For every node size: m_cur is the node of m_position after every operation, and a
\* read follows NULL only where nothing is read at the very end of the last node
\* (bytearray.cc 547).
THEOREM BytesAreConsistent == ByteInit /\ [][ByteNext]_byteVars => []BytesConsistent
<1>1. BytesInv /\ [ByteNext]_byteVars => BytesInv'
  BY ByteStep
<1> QED BY BytesInvInit, BytesInvExact, <1>1, PTL

\* For every node size, the chain of nodes implements a string with a position:
\* every write, read, transfer, seek and clear of bytearray.cc has the effect of the
\* operation on one contiguous string, wherever the node boundaries fall.
THEOREM ByteArrayImplementsString == ByteInit /\ [][ByteNext]_byteVars => ImplementsString
<1>1. ByteInit => String!Init
  BY DEF ByteInit, String!Init
<1>2. BytesInv /\ [ByteNext]_byteVars => BytesInv'
  BY ByteStep
<1>3. BytesInv /\ [ByteNext]_byteVars => StringStep
  BY ByteStep
<1> QED BY BytesInvInit, <1>1, <1>2, <1>3, PTL
        DEF ImplementsString, String!Spec, StringStep, Content
=============================================================================
