------------------------------- MODULE Coding -------------------------------
(***************************************************************************)
(* The arithmetic on words: the variable-length integers of                 *)
(* sylar/bytearray.cc and the prefix masks of sylar/address.cc, for words of *)
(* WordBits bits cut into groups of GroupBits (32 or 64 and 7 in the code)   *)
(* and addresses of AddressBytes bytes of ByteBits bits (16 and 8).          *)
(*                                                                         *)
(* Both sides of an address operation pass through byteswapOnLittleEndian,   *)
(* so addresses are modelled in host order.                                  *)
(***************************************************************************)
EXTENDS Integers, Sequences, Bitwise

CONSTANTS WordBits, GroupBits, ByteBits, AddressBytes

ASSUME CodingAssumption ==
    /\ WordBits \in Nat \ {0} /\ GroupBits \in 1 .. WordBits
    /\ WordBits = ByteBits * AddressBytes

VARIABLE word     \* the argument of the operations, -1 before there is one

codingVars == <<word>>

Words == 0 .. 2^WordBits - 1

CodingInit == word = -1

\* A caller brings any word.
CodingNext == word = -1 /\ word' \in Words

Wrap(v) == v % 2^WordBits
Signed(w) == IF w < 2^(WordBits - 1) THEN w ELSE w - 2^WordBits
AllOnes == 2^WordBits - 1

-----------------------------------------------------------------------------
(* Variable-length integers                                                 *)

\* Negating the least number wraps in this build.
EncodeZigzag(v) == IF v < 0 THEN Wrap(Wrap(-v) * 2 - 1) ELSE Wrap(v * 2)

DecodeZigzag(w) == Signed((w \div 2) ^^ (IF w % 2 = 1 THEN AllOnes ELSE 0))

\* The groups the reader accepts at most: the steps of "i < 32; i += 7".
MaxGroups == (WordBits + GroupBits - 1) \div GroupBits

GroupOf(v, i) == (v \div 2^(GroupBits * i)) % 2^GroupBits

\* Groups from the lowest on; the top bit of a byte says that more follow.
writeUint(v) ==
    LET n == CHOOSE k \in 1 .. MaxGroups :
                /\ v < 2^(GroupBits * k)
                /\ k > 1 => v >= 2^(GroupBits * (k - 1))
    IN [i \in 1 .. n |-> GroupOf(v, i - 1) + (IF i < n THEN 2^GroupBits ELSE 0)]

\* Mutant: the loop bound counts whole groups only.
WholeGroups(s) ==
    LET last == {i \in 1 .. Len(s) : s[i] < 2^GroupBits \/ i = WordBits \div GroupBits}
    IN CHOOSE i \in last : \A j \in last : i <= j

\* The bytes readUint takes from s: up to the first without the top bit, and
\* never more than MaxGroups.
Taken(s) ==
    LET last == {i \in 1 .. Len(s) : s[i] < 2^GroupBits \/ i = MaxGroups}
    IN CHOOSE i \in last : \A j \in last : i <= j

\* The value and the number of bytes taken.
readUint(s) ==
    LET sum[i \in 0 .. Taken(s)] ==
            IF i = 0 THEN 0
            ELSE sum[i - 1] + (s[i] % 2^GroupBits) * 2^(GroupBits * (i - 1))
    IN [value |-> Wrap(sum[Taken(s)]), taken |-> Taken(s)]

-----------------------------------------------------------------------------
(* Prefix masks                                                             *)

\* CreateMask<T>(bits), for a T of the given width: ones below the prefix.  The shift
\* is one of an int, as wide as a word: by the full width it is undefined, and gives 1
\* (the machine's shift) or 0 (a shift the compiler evaluates).
CreateMask(width, bits) ==
    IF width - bits < WordBits THEN {2^(width - bits) - 1} ELSE {0, AllOnes}

\* The number of ones.
CountBytes(v) ==
    LET ones[i \in 0 .. WordBits] ==
            IF i = 0 THEN 0 ELSE ones[i - 1] + ((v \div 2^(i - 1)) % 2)
    IN ones[WordBits]

\* The addresses IPv4Address::broadcastAddress may return.
broadcastAddress(v, prefix) == {v | mask : mask \in CreateMask(WordBits, prefix)}

ByteOf(v, i) == (v \div 2^(ByteBits * (AddressBytes - 1 - i))) % 2^ByteBits

\* Byte i of IPv6Address::broadcastAddress: the mask goes into the byte the
\* prefix ends in, the bytes behind it are filled.
Broadcast6Byte(v, prefix, i) ==
    IF i < prefix \div ByteBits THEN ByteOf(v, i)
    ELSE IF i = prefix \div ByteBits
         THEN ByteOf(v, i) | CHOOSE mask \in CreateMask(ByteBits, prefix % ByteBits) : TRUE
    ELSE 2^ByteBits - 1

\* prefix_len of GetInterfaceAddresses: an IPv4 mask sets it, the bytes of an IPv6
\* mask are added to the ~0u it begins with.
InterfacePrefix4(mask) == CountBytes(mask)

InterfacePrefix6(mask) ==
    LET sum[i \in 0 .. AddressBytes] ==
            IF i = 0 THEN AllOnes ELSE Wrap(sum[i - 1] + CountBytes(ByteOf(mask, i - 1)))
    IN sum[AddressBytes]

-----------------------------------------------------------------------------
(* Properties                                                               *)

\* Every signed number survives encoding, the least one included, and two
\* encodings in a row are read back one after the other: the reader takes
\* exactly the bytes that the writer produced.
VarintRoundTrip ==
    word \in Words =>
    LET v == Signed(word)
        code == writeUint(EncodeZigzag(v))
        back == readUint(code \o writeUint(word))
    IN back.taken = Len(code) /\ DecodeZigzag(back.value) = v

\* The last address that shares a prefix with v.
LastOf(v, prefix) ==
    CHOOSE w \in Words :
        /\ w \div 2^(WordBits - prefix) = v \div 2^(WordBits - prefix)
        /\ w % 2^(WordBits - prefix) = 2^(WordBits - prefix) - 1

\* The broadcast address is the last one that shares the prefix, computed byte by byte
\* (IPv6) for every prefix and on the whole word (IPv4) for every prefix but 0, whose
\* shift by the full width may leave the address as it is.  The broadcast address of an
\* interface, from the prefix its mask gives, is right for IPv4; for IPv6 that prefix
\* is one short, so the address covers twice the network, and wraps for an empty mask.
MasksAgree ==
    word \in Words =>
    \A prefix \in 0 .. WordBits :
        LET mask == AllOnes - (2^(WordBits - prefix) - 1)
            own  == InterfacePrefix6(mask)
        IN /\ broadcastAddress(word, prefix) =
                  {LastOf(word, prefix)} \cup (IF prefix = 0 THEN {word} ELSE {})
           /\ \A i \in 0 .. AddressBytes - 1 :
                Broadcast6Byte(word, prefix, i) = ByteOf(LastOf(word, prefix), i)
           /\ InterfacePrefix4(mask) = prefix
           /\ prefix > 0 => \A i \in 0 .. AddressBytes - 1 :
                Broadcast6Byte(word, own, i) = ByteOf(LastOf(word, prefix - 1), i)
           /\ prefix = 0 => own > WordBits

\* Every coding and mask agrees with its arithmetic definition.
CodingsExact == VarintRoundTrip /\ MasksAgree
=============================================================================
