----------------------------- MODULE ByteString -----------------------------
(***************************************************************************)
(* What a ByteArray promises: a string of bytes with one position, at which *)
(* it is read and overwritten.                                              *)
(***************************************************************************)
EXTENDS Integers, Sequences

CONSTANTS
    Byte,         \* the values of a byte
    MaxLen        \* bound on the bytes one operation moves

VARIABLES
    bytes,        \* the content
    position,
    got           \* what the last read returned

Chunks == UNION {[1 .. n -> Byte] : n \in 0 .. MaxLen}

Init == bytes = <<>> /\ position = 0 /\ got = <<>>

\* Overwrites from the position on, and extends the content.
Write(s) ==
    /\ bytes' = [i \in 1 .. (IF position + Len(s) > Len(bytes) THEN position + Len(s)
                                                              ELSE Len(bytes)) |->
                   IF i \in position + 1 .. position + Len(s) THEN s[i - position] ELSE bytes[i]]
    /\ position' = position + Len(s)
    /\ UNCHANGED got

\* Returns the next n bytes; more than there are is an error without effect.
Read(n) ==
    /\ position + n <= Len(bytes)
    /\ got' = SubSeq(bytes, position + 1, position + n)
    /\ position' = position + n
    /\ UNCHANGED bytes

\* The unread bytes, without moving.
Peek ==
    /\ got' = SubSeq(bytes, position + 1, Len(bytes))
    /\ UNCHANGED <<bytes, position>>

\* Past the end, the content grows by bytes nobody has written.
Seek ==
    /\ position' \in Nat
    /\ Len(bytes') = (IF position' > Len(bytes) THEN position' ELSE Len(bytes))
    /\ \A i \in 1 .. Len(bytes) : bytes'[i] = bytes[i]
    /\ UNCHANGED got

Clear == bytes' = <<>> /\ position' = 0 /\ UNCHANGED got

Next ==
    \/ \E s \in Chunks : Write(s)
    \/ \E n \in 0 .. MaxLen : Read(n)
    \/ Peek \/ Seek \/ Clear

Spec == Init /\ [][Next]_<<bytes, position, got>>
=============================================================================
