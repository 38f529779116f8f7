-------------------------- MODULE FdlPacketProofs --------------------------
(***************************************************************************)
(* dl_get_packet stays inside its buffer whatever bytes arrive, and finds  *)
(* the host's messages in them: for every alphabet, every MAX_PKT_SIZE and *)
(* every sequence of messages, of which frames may be cut.                 *)
(***************************************************************************)
EXTENDS FdlPacket, TLAPS

\* What is stored exceeds the length known so far by one byte at most: the one
\* more that (nread & ~1) allows an odd packet.
RoomInv == Len(data) <= plen + 1

\* The inductive invariant.
PacketInv == TypeOK /\ RoomInv

\* The length field of a packet gives a packet of six bytes or more.
LEMMA LengthField ==
  ASSUME NEW hi \in Byte, NEW lo \in Byte
  PROVE  BigEndian(hi, lo) \in Nat
<1>1. Base \in Nat /\ hi \in Nat /\ lo \in Nat
  BY AlphabetAssumption DEF Byte
<1>2. \A m, n \in Nat : m * n \in Nat
  OBVIOUS
<1>3. Base * hi \in Nat
  BY <1>1, <1>2
<1> QED BY <1>1, <1>3 DEF BigEndian

\* Taking the first byte off the line leaves a line.
LEMMA TakenByte ==
  ASSUME TypeOK, GetChar
  PROVE  /\ NextByte \in Byte
         /\ Head(line).src \in Nat
         /\ line' \in Seq(LineByte)
         /\ items' = items
<1>1. Head(line) \in LineByte /\ Tail(line) \in Seq(LineByte)
  BY DEF TypeOK, GetChar
<1> QED BY <1>1 DEF GetChar, NextByte, LineByte

\* After a rejected byte the invariant holds.
LEMMA AfterReject == PacketInv /\ GetChar /\ Reject => PacketInv'
<1> SUFFICES ASSUME PacketInv, GetChar, Reject PROVE PacketInv'
  OBVIOUS
<1>1. TypeOK
  BY DEF PacketInv
<1>2. data' = <<>> /\ data' \in Seq(Byte) /\ Len(data') = 0
  BY DEF Reject, Restart
<1>3. plen' = 6 /\ 6 \in 6 .. MaxPkt
  BY PacketAssumption DEF Reject, Restart
<1>4. RoomInv' /\ Len(data') <= MaxPkt + 1
  BY <1>2, <1>3, PacketAssumption DEF RoomInv
<1>5. /\ head' \in BOOLEAN /\ esc' \in BOOLEAN /\ from' \in Nat
      /\ naks' \in Nat
  <2>1. head' \in BOOLEAN /\ esc' \in BOOLEAN /\ from' \in Nat
    BY DEF Reject, Restart
  <2>2. naks \in Nat /\ naks' = naks + 1
    BY <1>1 DEF TypeOK, Reject
  <2> QED BY <2>1, <2>2
<1>6. started' \in BOOLEAN /\ delivered' \in Seq([src : Nat, raw : Seq(Byte)])
  BY <1>1 DEF TypeOK, Reject
<1>7. items' \in Seq(Item) /\ line' \in Seq(LineByte)
  BY <1>1, TakenByte DEF TypeOK
<1>8. plen' \in 6 .. MaxPkt
  BY <1>3
<1> QED BY <1>2, <1>4, <1>5, <1>6, <1>7, <1>8 DEF PacketInv, TypeOK

\* Storing a byte keeps the invariant.
LEMMA AfterStore == PacketInv /\ StoreByte => PacketInv'
<1> SUFFICES ASSUME PacketInv, StoreByte PROVE PacketInv'
  OBVIOUS
<1>1. TypeOK /\ GetChar /\ NextByte \in Byte /\ Head(line).src \in Nat
  BY TakenByte DEF PacketInv, StoreByte, Take
<1>2. CASE Reject
  BY <1>1, <1>2, AfterReject
<1>3. CASE /\ HasRoom
           /\ PlenOf(Stored) <= MaxPkt
           /\ data' = Stored
           /\ plen' = PlenOf(Stored)
           /\ esc' = EscAfter
           /\ from' = IF data = <<>> THEN Head(line).src ELSE from
           /\ UNCHANGED <<started, head, delivered, naks>>
  <2>1. Stored \in Seq(Byte) /\ Len(Stored) = Len(data) + 1
    <3>1. (IF esc THEN Flip[NextByte] ELSE NextByte) \in Byte
      BY <1>1, AlphabetAssumption
    <3>2. data \in Seq(Byte)
      BY <1>1 DEF TypeOK
    <3> QED BY <3>1, <3>2 DEF Stored
  <2>2. PlenOf(Stored) \in 6 .. MaxPkt
    <3>1. CASE Len(Stored) = 4
      <4>1. Stored[3] \in Byte /\ Stored[4] \in Byte
        BY <2>1, <3>1
      <4>2. BigEndian(Stored[3], Stored[4]) \in Nat
        BY <4>1, LengthField
      <4> QED BY <1>3, <3>1, <4>2, PacketAssumption DEF PlenOf
    <3>2. CASE Len(Stored) # 4
      BY <1>1, <3>2 DEF PlenOf, TypeOK
    <3> QED BY <3>1, <3>2
  <2>3. Len(Stored) <= PlenOf(Stored) + 1
    <3>1. CASE Len(Stored) = 4
      BY <2>2, <3>1
    <3>2. CASE Len(Stored) # 4
      <4>1. PlenOf(Stored) = plen /\ plen \in Nat /\ Len(data) \in Nat
        BY <1>1, <3>2, PacketAssumption DEF PlenOf, TypeOK
      <4>2. Len(data) - (Len(data) % 2) < plen
        BY <1>3 DEF HasRoom, nread
      <4>3. Len(data) <= plen
        BY <4>1, <4>2
      <4> QED BY <2>1, <4>1, <4>3
    <3> QED BY <3>1, <3>2
  <2>4. Len(Stored) <= MaxPkt + 1
    BY <2>1, <2>2, <2>3, PacketAssumption
  <2>5. from' \in Nat
    BY <1>1, <1>3 DEF TypeOK
  <2> QED
    BY <1>1, <1>3, <2>1, <2>2, <2>3, <2>4, <2>5, TakenByte DEF PacketInv, RoomInv, TypeOK, EscAfter
<1> QED BY <1>2, <1>3 DEF StoreByte

\* Every step keeps the invariant.
LEMMA NextPacketInv == PacketInv /\ [Next]_vars => PacketInv'
<1> SUFFICES ASSUME PacketInv, [Next]_vars PROVE PacketInv'
  OBVIOUS
<1>0. TypeOK
  BY DEF PacketInv
<1>1. CASE AwaitHeader
  BY <1>0, <1>1, TakenByte DEF AwaitHeader, PacketInv, RoomInv, TypeOK
<1>2. CASE BadEscape
  BY <1>2, AfterReject DEF BadEscape
<1>3. CASE OpenFrame
  BY <1>0, <1>3, TakenByte DEF OpenFrame, Take, PacketInv, RoomInv, TypeOK
<1>4. CASE CloseFrame
  <2>1. CASE Reject
    BY <1>4, <2>1, AfterReject DEF CloseFrame, Take
  <2>2. CASE /\ delivered' = Append(delivered, [src |-> from, raw |-> data])
             /\ Restart
             /\ UNCHANGED <<started, naks>>
    <3>1. delivered' \in Seq([src : Nat, raw : Seq(Byte)])
      BY <1>0, <2>2 DEF TypeOK
    <3>2. data' = <<>> /\ data' \in Seq(Byte) /\ Len(data') = 0 /\ plen' = 6 /\ 6 \in 6 .. MaxPkt
      BY <2>2, PacketAssumption DEF Restart
    <3>3. GetChar
      BY <1>4 DEF CloseFrame, Take
    <3>4. RoomInv' /\ Len(data') <= MaxPkt + 1 /\ plen' \in 6 .. MaxPkt
      BY <3>2, PacketAssumption DEF RoomInv
    <3>5. head' \in BOOLEAN /\ esc' \in BOOLEAN /\ from' \in Nat
      BY <2>2 DEF Restart
    <3>6. started' \in BOOLEAN /\ naks' \in Nat
      BY <1>0, <2>2 DEF TypeOK
    <3>7. items' \in Seq(Item) /\ line' \in Seq(LineByte)
      BY <1>0, <3>3, TakenByte DEF TypeOK
    <3> QED BY <3>1, <3>2, <3>4, <3>5, <3>6, <3>7 DEF PacketInv, TypeOK
  <2> QED BY <1>4, <2>1, <2>2 DEF CloseFrame
<1>5. CASE TakeEscape
  BY <1>0, <1>5, TakenByte DEF TakeEscape, Take, PacketInv, RoomInv, TypeOK
<1>6. CASE SkipByte
  BY <1>0, <1>6, TakenByte DEF SkipByte, Take, PacketInv, RoomInv, TypeOK
<1>7. CASE StoreByte
  BY <1>7, AfterStore
<1>8. CASE UNCHANGED vars
  BY <1>8 DEF PacketInv, RoomInv, TypeOK, vars
<1> QED
  BY <1>1, <1>2, <1>3, <1>4, <1>5, <1>6, <1>7, <1>8 DEF Next, Silence

LEMMA InitPacketInv == Init => PacketInv
<1> SUFFICES ASSUME Init PROVE PacketInv
  OBVIOUS
<1>1. items \in Seq(Item) /\ line \in Seq(LineByte)
  BY PacketAssumption DEF Init
<1>2. data = <<>> /\ data \in Seq(Byte) /\ Len(data) = 0
  BY DEF Init
<1>3. delivered \in Seq([src : Nat, raw : Seq(Byte)])
  BY DEF Init
<1>4. plen = 6 /\ plen \in 6 .. MaxPkt
  BY PacketAssumption DEF Init
<1>5. RoomInv /\ Len(data) <= MaxPkt + 1
  BY <1>2, <1>4, PacketAssumption DEF RoomInv
<1>6. started \in BOOLEAN /\ head \in BOOLEAN /\ esc \in BOOLEAN /\ from \in Nat /\ naks \in Nat
  BY DEF Init
<1> QED BY <1>1, <1>2, <1>3, <1>4, <1>5, <1>6 DEF PacketInv, TypeOK

\* dl_get_packet never stores more than MAX_PKT_SIZE + 1 bytes of a packet nor
\* believes in a longer one, whatever the host or the line sends.
THEOREM PacketTypeCorrect == Spec => []TypeOK
<1>1. PacketInv => TypeOK
  BY DEF PacketInv
<1> QED BY <1>1, InitPacketInv, NextPacketInv, PTL DEF Spec
-----------------------------------------------------------------------------
(* From the proofs of dl_escapedata: induction over the naturals, and what *)
(* FlattenSeq computes.                                                    *)

Esc == INSTANCE FdlEscapeProofs WITH
  Packets <- {}, packet <- 0, room <- 0, buf <- 0, i <- 0, dst <- 0, done <- 0

\* A set of naturals has a least element.
LEMMA LeastNat ==
  ASSUME NEW T, T \subseteq Nat, T # {}
  PROVE  \E x \in T : \A y \in T : x <= y
  BY Esc!LeastNat, AlphabetAssumption, PacketAssumption DEF Byte, Special, Escaped, Esc!Byte, Esc!Special, Esc!Escaped

\* Induction, for a set instead of a predicate.
LEMMA Induct ==
  ASSUME NEW T, 0 \in T, \A n \in Nat : n \in T => n + 1 \in T
  PROVE  Nat \subseteq T
  BY Esc!Induct, AlphabetAssumption, PacketAssumption DEF Byte, Special, Escaped, Esc!Byte, Esc!Special, Esc!Escaped

\* The sequences lie in flat one behind the other, the k-th behind o[k - 1].
Laid(flat, seqs, o) ==
  /\ o[0] = 0
  /\ \A k \in 1 .. Len(seqs) : o[k] = o[k - 1] + Len(seqs[k])
  /\ Len(flat) = o[Len(seqs)]
  /\ \A k \in 1 .. Len(seqs) : \A m \in 1 .. Len(seqs[k]) : flat[o[k - 1] + m] = seqs[k][m]

\* FlattenSeq lays its sequences one behind the other.
LEMMA FlattenLays ==
  ASSUME NEW S, NEW seqs \in Seq(Seq(S))
  PROVE  /\ FlattenSeq(seqs) \in Seq(S)
         /\ \E o \in [0 .. Len(seqs) -> Nat] : Laid(FlattenSeq(seqs), seqs, o)
<1>1. Esc!FlattenSeq(seqs) = FlattenSeq(seqs)
  BY DEF Esc!FlattenSeq, FlattenSeq
<1>2. \A flat, o : Esc!Laid(flat, seqs, o) <=> Laid(flat, seqs, o)
  BY DEF Esc!Laid, Laid
<1>3. /\ Esc!FlattenSeq(seqs) \in Seq(S)
      /\ \E o \in [0 .. Len(seqs) -> Nat] : Esc!Laid(Esc!FlattenSeq(seqs), seqs, o)
  BY Esc!FlattenLays, AlphabetAssumption, PacketAssumption DEF Byte, Special, Escaped, Esc!Byte, Esc!Special, Esc!Escaped
<1> QED BY ONLY <1>1, <1>2, <1>3, Zenon

-----------------------------------------------------------------------------
(* The check sum: what WordSum computes, again by induction.               *)

\* The equations of a sum of the first n terms.
Adds(g, w, n) == g[0] = 0 /\ \A j \in 1 .. n : g[j] = g[j - 1] + w[j]

\* There is a function that satisfies them.
LEMMA SumExists ==
  ASSUME NEW n \in Nat, NEW w \in [1 .. n -> Nat]
  PROVE  \E g \in [0 .. n -> Nat] : Adds(g, w, n)
<1> DEFINE T == {m \in Nat : m <= n => \E g \in [0 .. m -> Nat] : Adds(g, w, m)}
<1>1. 0 \in T
  <2>1. [j \in 0 .. 0 |-> 0] \in [0 .. 0 -> Nat] /\ Adds([j \in 0 .. 0 |-> 0], w, 0)
    BY DEF Adds
  <2> QED BY <2>1
<1>2. ASSUME NEW m \in Nat, m \in T PROVE m + 1 \in T
  <2> SUFFICES ASSUME m + 1 <= n PROVE \E g \in [0 .. m + 1 -> Nat] : Adds(g, w, m + 1)
    OBVIOUS
  <2>1. m <= n /\ m + 1 \in 1 .. n
    OBVIOUS
  <2>2. PICK g \in [0 .. m -> Nat] : Adds(g, w, m)
    BY <1>2, <2>1
  <2>3. g[m] \in Nat /\ w[m + 1] \in Nat
    BY <2>1
  <2> DEFINE h == [j \in 0 .. m + 1 |-> IF j = m + 1 THEN g[m] + w[m + 1] ELSE g[j]]
  <2>4. h \in [0 .. m + 1 -> Nat]
    <3> SUFFICES ASSUME NEW j \in 0 .. m + 1
                 PROVE  (IF j = m + 1 THEN g[m] + w[m + 1] ELSE g[j]) \in Nat
      OBVIOUS
    <3>1. j # m + 1 => j \in 0 .. m
      OBVIOUS
    <3> QED BY <2>3, <3>1
  <2>5. /\ h[m + 1] = g[m] + w[m + 1]
        /\ \A j \in 0 .. m : h[j] = g[j]
    <3>1. m + 1 \in 0 .. m + 1 /\ \A j \in 0 .. m : j \in 0 .. m + 1 /\ j # m + 1
      OBVIOUS
    <3> QED BY <3>1
  <2> HIDE DEF h
  <2>6. h[0] = 0
    <3>1. 0 \in 0 .. m
      OBVIOUS
    <3> QED BY <3>1, <2>2, <2>5 DEF Adds
  <2>7. ASSUME NEW j \in 1 .. m + 1 PROVE h[j] = h[j - 1] + w[j]
    <3>1. CASE j = m + 1
      <4>1. j - 1 = m /\ m \in 0 .. m
        BY <3>1
      <4> QED BY <4>1, <3>1, <2>5
    <3>2. CASE j # m + 1
      <4>1. j \in 1 .. m /\ j \in 0 .. m /\ j - 1 \in 0 .. m
        BY <3>2
      <4>2. g[j] = g[j - 1] + w[j]
        BY <4>1, <2>2 DEF Adds
      <4> QED BY <4>1, <4>2, <2>5
    <3> QED BY <3>1, <3>2
  <2> QED BY <2>4, <2>6, <2>7 DEF Adds
<1>3. Nat \subseteq T
  <2> HIDE DEF T
  <2> QED BY <1>1, <1>2, Induct
<1> QED BY <1>3

\* Only one: sums of the same terms are the same.
LEMMA SumUnique ==
  ASSUME NEW n \in Nat, NEW f, NEW g, NEW w, Adds(f, w, n), Adds(g, w, n)
  PROVE  \A j \in 0 .. n : f[j] = g[j]
<1> DEFINE T == {m \in Nat : m <= n => f[m] = g[m]}
<1>1. 0 \in T
  BY DEF Adds
<1>2. ASSUME NEW m \in Nat, m \in T PROVE m + 1 \in T
  <2> SUFFICES ASSUME m + 1 <= n PROVE f[m + 1] = g[m + 1]
    OBVIOUS
  <2>1. m <= n /\ m + 1 \in 1 .. n /\ (m + 1) - 1 = m
    OBVIOUS
  <2>2. f[m + 1] = f[m] + w[m + 1] /\ g[m + 1] = g[m] + w[m + 1]
    BY <2>1 DEF Adds
  <2> QED BY <1>2, <2>1, <2>2
<1>3. Nat \subseteq T
  <2> HIDE DEF T
  <2> QED BY <1>1, <1>2, Induct
<1> QED BY <1>3

\* A product grows with its factors.
LEMMA Products ==
  ASSUME NEW c \in Nat
  PROVE  /\ \A a \in Nat : a * c \in Nat /\ c * a = a * c /\ (a + 1) * c = a * c + c
         /\ \A a, b \in Nat : a <= b => a * c <= b * c
<1>1. \A a \in Nat : a * c \in Nat /\ c * a = a * c /\ (a + 1) * c = a * c + c
  OBVIOUS
<1>2. ASSUME NEW a \in Nat, NEW b \in Nat, a <= b PROVE a * c <= b * c
  <2>1. b - a \in Nat /\ (b - a) * c \in Nat
    BY <1>2, <1>1
  <2>2. b * c = a * c + (b - a) * c
    OBVIOUS
  <2> QED BY <2>1, <2>2, <1>1
<1> QED BY <1>1, <1>2

\* A sum of terms that are not greater than c.
LEMMA SumBounded ==
  ASSUME NEW n \in Nat, NEW w \in [1 .. n -> Nat], NEW c \in Nat, \A j \in 1 .. n : w[j] <= c,
         NEW g \in [0 .. n -> Nat], Adds(g, w, n)
  PROVE  g[n] <= n * c
<1> DEFINE T == {m \in Nat : m <= n => g[m] <= m * c}
<1>1. 0 \in T
  BY DEF Adds
<1>2. ASSUME NEW m \in Nat, m \in T PROVE m + 1 \in T
  <2> SUFFICES ASSUME m + 1 <= n PROVE g[m + 1] <= (m + 1) * c
    OBVIOUS
  <2>1. m <= n /\ m + 1 \in 1 .. n /\ (m + 1) - 1 = m /\ m \in 0 .. n /\ m + 1 \in 0 .. n
    OBVIOUS
  <2>2. g[m + 1] = g[m] + w[m + 1]
    BY <2>1 DEF Adds
  <2>3. (m + 1) * c = m * c + c /\ m * c \in Nat
    BY Products
  <2>4. g[m] \in Nat /\ w[m + 1] \in Nat /\ w[m + 1] <= c /\ g[m] <= m * c
    BY <1>2, <2>1
  <2>5. \A x, y, p, q \in Nat : x <= p /\ y <= q => x + y <= p + q
    OBVIOUS
  <2>6. g[m] + w[m + 1] <= m * c + c
    BY ONLY <2>3, <2>4, <2>5, c \in Nat, Zenon
  <2> QED BY ONLY <2>2, <2>3, <2>6, Zenon
<1>3. Nat \subseteq T
  <2> HIDE DEF T
  <2> QED BY <1>1, <1>2, Induct
<1> QED BY <1>3

\* Quotient and remainder of a number given by them, and of small ones.
LEMMA Quotients ==
  ASSUME NEW w \in Nat \ {0}
  PROVE  /\ \A x \in Nat : x \div w \in Nat /\ x % w \in 0 .. w - 1 /\ x = w * (x \div w) + (x % w)
         /\ \A q \in Nat, r \in 0 .. w - 1 : (w * q + r) \div w = q /\ (w * q + r) % w = r
         /\ \A r \in 0 .. w - 1 : r \div w = 0 /\ r % w = r
         /\ \A r \in 0 .. w - 1 : (w + r) \div w = 1 /\ (w + r) % w = r
<1>1. \A x \in Nat : x \div w \in Nat /\ x % w \in 0 .. w - 1 /\ x = w * (x \div w) + (x % w)
  OBVIOUS
<1>2. ASSUME NEW q \in Nat, NEW r \in 0 .. w - 1
      PROVE  (w * q + r) \div w = q /\ (w * q + r) % w = r
  <2>1. w * q + r \in Nat
    BY Products
  <2> DEFINE d == (w * q + r) \div w
             e == (w * q + r) % w
  <2>2. d \in Nat /\ e \in 0 .. w - 1 /\ w * q + r = w * d + e
    BY <1>1, <2>1
  <2> HIDE DEF d, e
  <2>3. ~(d < q)
    <3> SUFFICES ASSUME d + 1 <= q PROVE FALSE
      BY <2>2
    <3>1. w * (d + 1) <= w * q /\ w * (d + 1) = w * d + w /\ w * d \in Nat /\ w * q \in Nat
      BY <2>2, Products
    <3> QED BY <3>1, <2>2
  <2>4. ~(q < d)
    <3> SUFFICES ASSUME q + 1 <= d PROVE FALSE
      BY <2>2
    <3>1. w * (q + 1) <= w * d /\ w * (q + 1) = w * q + w /\ w * d \in Nat /\ w * q \in Nat
      BY <2>2, Products
    <3> QED BY <3>1, <2>2
  <2>5. d = q
    BY <2>2, <2>3, <2>4
  <2>6. e = r
    <3>1. w * q \in Nat /\ w * q + r = w * q + e
      BY <2>2, <2>5, Products
    <3> QED BY <3>1, <2>2
  <2> QED BY <2>5, <2>6 DEF d, e
<1>3. w * 0 = 0 /\ w * 1 = w
  OBVIOUS
<1>4. ASSUME NEW r \in 0 .. w - 1
      PROVE  r \div w = 0 /\ r % w = r /\ (w + r) \div w = 1 /\ (w + r) % w = r
  <2>1. w * 0 + r = r /\ w * 1 + r = w + r
    BY <1>3
  <2> QED BY <2>1, <1>2
<1> QED BY <1>1, <1>2, <1>4

\* The two digits of a word.
LEMMA Digits ==
  ASSUME NEW b \in Nat \ {0}, NEW x \in 0 .. b * b - 1
  PROVE  x \div b \in 0 .. b - 1 /\ x % b \in 0 .. b - 1 /\ x = b * (x \div b) + (x % b)
<1> DEFINE q == x \div b
<1>1. b * b \in Nat
  BY Products
<1>2. x \in Nat /\ x < b * b
  BY <1>1
<1>3. q \in Nat /\ x % b \in 0 .. b - 1 /\ x = b * q + (x % b)
  BY <1>2, Quotients
<1> HIDE DEF q
<1>4. ~(b <= q)
  <2> SUFFICES ASSUME b <= q PROVE FALSE
    OBVIOUS
  <2>1. b * b <= b * q /\ b * q \in Nat
    BY <1>3, Products
  <2> QED BY ONLY <2>1, <1>1, <1>2, <1>3
<1> QED BY <1>3, <1>4 DEF q

\* A word of two digits.
LEMMA Composed ==
  ASSUME NEW b \in Nat \ {0}, NEW hi \in 0 .. b - 1, NEW lo \in 0 .. b - 1
  PROVE  /\ b * hi + lo \in 0 .. b * b - 1
         /\ (b * hi + lo) \div b = hi /\ (b * hi + lo) % b = lo
<1>1. b * hi \in Nat /\ b * b \in Nat /\ b * (hi + 1) = b * hi + b /\ b * (hi + 1) <= b * b
  BY Products
<1>2. b * hi + lo \in 0 .. b * b - 1
  BY ONLY <1>1, b \in Nat \ {0}, lo \in 0 .. b - 1
<1> QED BY <1>2, Quotients

\* Adding to a sum the word that inverts it gives all ones: what FoldCarry returns
\* for the sum s, added to it, makes FoldCarry return zero.  The carries are added
\* twice, which is enough for a sum below w * w.
Folded(w, s) ==
  LET once == (s \div w) + (s % w) IN w - 1 - ((once + (once \div w)) % w)

LEMMA Carries ==
  ASSUME NEW w \in Nat, w >= 2, NEW s \in 0 .. w * w - 1
  PROVE  Folded(w, s) \in 0 .. w - 1 /\ Folded(w, s + Folded(w, s)) = 0
<1> DEFINE q == s \div w
           r == s % w
           c == Folded(w, s)
<1>0. w \in Nat \ {0}
  OBVIOUS
<1>1. q \in 0 .. w - 1 /\ r \in 0 .. w - 1 /\ s = w * q + r
  BY <1>0, Digits
<1>2. c = w - 1 - (((q + r) + ((q + r) \div w)) % w)
  BY DEF Folded
<1>3. s \in Nat /\ w * q \in Nat
  <2>1. w * w \in Nat
    BY Products
  <2>2. s \in Nat
    BY <2>1
  <2> HIDE DEF q
  <2> QED BY <1>1, <2>2, Products
<1> HIDE DEF q, r, c
<1>a. \A x : \A a \in Nat, b \in 0 .. w - 1 : x = w * a + b => x \div w = a /\ x % w = b
  BY <1>0, Quotients
<1>b. \A x : \A b \in 0 .. w - 1 : x = w + b => x \div w = 1 /\ x % w = b
  BY <1>0, Quotients
<1>d. \A b \in 0 .. w - 1 : b \div w = 0 /\ b % w = b
  BY <1>0, Quotients
<1>e. q \in Nat
  BY <1>1
<1>4. CASE q + r < w
  <2>1. q + r \in 0 .. w - 1
    BY <1>1, <1>4
  <2>2. (q + r) \div w = 0 /\ (q + r) % w = q + r
    BY ONLY <1>d, <2>1, Zenon
  <2>3. c = w - 1 - (q + r)
    BY <1>1, <1>2, <2>2
  <2>4. w - 1 - q \in 0 .. w - 1 /\ s + c = w * q + (w - 1 - q)
    BY ONLY <1>1, <1>3, <2>3, w \in Nat, w >= 2
  <2>5. (s + c) \div w = q /\ (s + c) % w = w - 1 - q
    BY ONLY <1>a, <1>e, <2>4, Zenon
  <2>6. ((s + c) \div w) + ((s + c) % w) = w - 1
    BY <1>1, <2>5
  <2>7. (w - 1) \div w = 0 /\ (w - 1) % w = w - 1
    <3>1. w - 1 \in 0 .. w - 1
      OBVIOUS
    <3> QED BY ONLY <1>d, <3>1, Zenon
  <2>8. Folded(w, s + c) = 0
    BY <2>6, <2>7 DEF Folded
  <2>9. c \in 0 .. w - 1
    BY <1>1, <2>1, <2>3
  <2> QED BY <2>8, <2>9 DEF c
<1>5. CASE ~(q + r < w)
  <2> DEFINE e == q + r - w
  <2>1. e \in 0 .. w - 2 /\ q + r = w + e
    BY <1>1, <1>5
  <2> HIDE DEF e
  <2>0. e \in 0 .. w - 1
    BY <2>1
  <2>2. (q + r) \div w = 1
    BY ONLY <1>b, <2>0, <2>1, Zenon
  <2>3. ((q + r) + ((q + r) \div w)) % w = e + 1
    <3>1. (q + r) + 1 = w + (e + 1) /\ e + 1 \in 0 .. w - 1
      BY <1>1, <2>1
    <3>2. ((q + r) + 1) % w = e + 1
      BY ONLY <1>b, <3>1, Zenon
    <3> QED BY ONLY <2>2, <3>2, Zenon
  <2>4. c = w - 2 - e
    BY <1>2, <2>1, <2>3
  <2>5. c \in 0 .. w - 1
    BY <2>1, <2>4
  <2>6. CASE q = w - 1
    <3>1. w - 1 \in 0 .. w - 1 /\ s + c = w * q + (w - 1)
      BY ONLY <1>1, <1>3, <2>1, <2>4, <2>6, w \in Nat, w >= 2
    <3>2. (s + c) \div w = q /\ (s + c) % w = w - 1
      BY ONLY <1>a, <1>e, <3>1, Zenon
    <3>3. ((s + c) \div w) + ((s + c) % w) = w + (w - 2)
      BY <3>2, <2>6
    <3>4. w - 2 \in 0 .. w - 1 /\ w - 1 \in 0 .. w - 1 /\ (w + (w - 2)) + 1 = w + (w - 1)
      OBVIOUS
    <3>5. (w + (w - 2)) \div w = 1 /\ (w + (w - 1)) % w = w - 1
      BY ONLY <1>b, <3>4, Zenon
    <3>6. Folded(w, s + c) = 0
      BY <3>3, <3>4, <3>5 DEF Folded
    <3> QED BY <3>6, <2>5 DEF c
  <2>7. CASE q # w - 1
    <3>1. /\ w * (q + 1) = w * q + w
          /\ w - 2 - q \in 0 .. w - 1 /\ q + 1 \in Nat
      BY <1>1, <2>7, Products
    <3>2. s + c = w * (q + 1) + (w - 2 - q)
      BY ONLY <1>1, <1>3, <2>1, <2>4, <3>1, w \in Nat, w >= 2
    <3>3. (s + c) \div w = q + 1 /\ (s + c) % w = w - 2 - q
      BY ONLY <1>a, <3>1, <3>2, Zenon
    <3>4. ((s + c) \div w) + ((s + c) % w) = w - 1
      BY <1>1, <3>3
    <3>5. (w - 1) \div w = 0 /\ (w - 1) % w = w - 1
      <4>1. w - 1 \in 0 .. w - 1
        OBVIOUS
      <4> QED BY ONLY <1>d, <4>1, Zenon
    <3>6. Folded(w, s + c) = 0
      BY <3>4, <3>5 DEF Folded
    <3> QED BY <3>6, <2>5 DEF c
  <2> QED BY <2>6, <2>7
<1> QED BY <1>4, <1>5

\* The terms of WordSum.
Weights(s) == [k \in 1 .. Len(s) |-> IF k % 2 = 1 THEN s[k] ELSE Base * s[k]]

LEMMA WeightTypes ==
  ASSUME NEW s \in Seq(Byte)
  PROVE  /\ Weights(s) \in [1 .. Len(s) -> Nat]
         /\ \A k \in 1 .. Len(s) : Weights(s)[k] <= Word - Base
<1>1. Base \in Nat \ {0} /\ Base - 1 \in Nat
  BY AlphabetAssumption
<1>2. Base * (Base - 1) = Word - Base /\ Base - 1 <= Base * (Base - 1)
  BY <1>1 DEF Word
<1>3. ASSUME NEW k \in 1 .. Len(s)
      PROVE  /\ Weights(s)[k] \in Nat /\ Weights(s)[k] <= Word - Base
             /\ Weights(s)[k] = IF k % 2 = 1 THEN s[k] ELSE Base * s[k]
  <2>1. s[k] \in Nat /\ s[k] <= Base - 1
    BY <1>1 DEF Byte
  <2>2. Base * s[k] \in Nat /\ Base * s[k] <= Base * (Base - 1)
    BY <1>1, <2>1, Products
  <2>3. Weights(s)[k] = IF k % 2 = 1 THEN s[k] ELSE Base * s[k]
    BY DEF Weights
  <2> QED BY <1>1, <1>2, <2>1, <2>2, <2>3
<1> QED BY <1>3 DEF Weights

\* WordSum follows its equations.
LEMMA WordSumUnfold ==
  ASSUME NEW s \in Seq(Byte)
  PROVE  \E g \in [0 .. Len(s) -> Nat] : Adds(g, Weights(s), Len(s)) /\ WordSum(s) = g[Len(s)]
<1> DEFINE n == Len(s)
           w == Weights(s)
           Eq(f) == f = [k \in 0 .. n |->
                          IF k = 0 THEN 0 ELSE f[k - 1] + (IF k % 2 = 1 THEN s[k] ELSE Base * s[k])]
           F == CHOOSE f : Eq(f)
<1>0. n \in Nat
  OBVIOUS
<1>1. WordSum(s) = F[n]
  BY DEF WordSum
<1>2. PICK g \in [0 .. n -> Nat] : Adds(g, w, n)
  <2>1. w \in [1 .. n -> Nat]
    BY WeightTypes
  <2> HIDE DEF w, n
  <2> QED BY <1>0, <2>1, SumExists
<1>3. \A k \in 1 .. n : w[k] = IF k % 2 = 1 THEN s[k] ELSE Base * s[k]
  BY DEF Weights
<1> HIDE DEF n, w
<1>4. Eq(g)
  <2>1. ASSUME NEW k \in 0 .. n
        PROVE  g[k] = IF k = 0 THEN 0 ELSE g[k - 1] + (IF k % 2 = 1 THEN s[k] ELSE Base * s[k])
    <3>1. CASE k = 0
      BY <3>1, <1>2 DEF Adds
    <3>2. CASE k # 0
      <4>1. k \in 1 .. n
        BY <1>0, <3>2
      <4>2. g[k] = g[k - 1] + w[k]
        BY <4>1, <1>2 DEF Adds
      <4> QED BY <4>1, <4>2, <3>2, <1>3, Zenon
    <3> QED BY <3>1, <3>2
  <2> QED BY <2>1, <1>2
<1>5. Eq(F)
  <2> HIDE DEF Eq
  <2> QED BY <1>4
<1> HIDE DEF F
<1>6. \A k \in 0 .. n : F[k] = IF k = 0 THEN 0 ELSE F[k - 1] + (IF k % 2 = 1 THEN s[k] ELSE Base * s[k])
  BY <1>5
<1> HIDE DEF Eq
<1>7. Adds(F, w, n)
  <2>1. F[0] = 0
    <3>1. 0 \in 0 .. n
      BY <1>0
    <3> QED BY <3>1, <1>6
  <2>2. ASSUME NEW k \in 1 .. n PROVE F[k] = F[k - 1] + w[k]
    <3>1. k \in 0 .. n /\ k # 0
      BY <1>0
    <3> QED BY <3>1, <1>3, <1>6, Zenon
  <2> QED BY <2>1, <2>2 DEF Adds
<1>8. F[n] = g[n]
  <2>1. \A k \in 0 .. n : F[k] = g[k]
    BY <1>0, <1>2, <1>7, SumUnique
  <2> QED BY <2>1, <1>0
<1> QED BY <1>1, <1>2, <1>8 DEF n, w

LEMMA FourValues ==
  ASSUME NEW n \in Nat, NEW a \in 0 .. n - 1, NEW b \in 0 .. n - 1, NEW c \in 0 .. n - 1,
         NEW d \in 0 .. n - 1, a # b, c # d, c # a, c # b, d # a, d # b
  PROVE  n >= 4
  OBVIOUS

LEMMA Parity ==
  ASSUME NEW n \in Nat
  PROVE  /\ n % 2 = 0 => (n + 1) % 2 = 1 /\ (n + 2) % 2 = 0
         /\ n % 2 # 0 => (n + 1) % 2 = 0 /\ (n + 2) % 2 = 1
  OBVIOUS

\* A byte has four values at least: the two special ones and what they are flipped to.
LEMMA FourBytes == Base \in Nat /\ Base >= 4
<1>1. Base \in Nat /\ Header \in Byte /\ Escape \in Byte /\ Header # Escape
  BY AlphabetAssumption
<1>2. Flip[Header] \in Byte /\ Flip[Escape] \in Byte /\ Flip[Header] # Flip[Escape]
  BY <1>1, AlphabetAssumption
<1>3. /\ Flip[Header] # Header /\ Flip[Header] # Escape
      /\ Flip[Escape] # Header /\ Flip[Escape] # Escape
  BY AlphabetAssumption DEF Special, Escaped
<1> QED BY ONLY <1>1, <1>2, <1>3, FourValues, Zenon DEF Byte

\* A sum of so many bytes that the carries can be added in two steps.
LEMMA WordSumBound ==
  ASSUME NEW s \in Seq(Byte), Len(s) <= Word + 3
  PROVE  WordSum(s) \in 0 .. Word * Word - 1
<1>1. Base \in Nat /\ Base >= 4
  BY FourBytes
<1> DEFINE c == Word - Base
<1>2. Word \in Nat /\ c \in Nat /\ Base * 4 <= Word /\ Base * Base = Word
  BY <1>1, Products DEF Word
<1>3. PICK g \in [0 .. Len(s) -> Nat] : Adds(g, Weights(s), Len(s)) /\ WordSum(s) = g[Len(s)]
  BY WordSumUnfold
<1>4. /\ Weights(s) \in [1 .. Len(s) -> Nat] /\ \A k \in 1 .. Len(s) : Weights(s)[k] <= c
      /\ Len(s) \in Nat
  BY WeightTypes
<1> HIDE DEF c
<1>5. WordSum(s) <= Len(s) * c /\ WordSum(s) \in Nat
  <2>1. g[Len(s)] <= Len(s) * c
    BY <1>2, <1>3, <1>4, SumBounded
  <2> QED BY <2>1, <1>3, <1>4
<1>6. Len(s) * c <= (Word + 3) * c /\ (Word + 3) * c = Word * c + 3 * c /\ Len(s) * c \in Nat
  BY <1>2, <1>4, Products
<1>7. Word * c = Word * Word - Word * Base /\ Word * 4 <= Word * Base /\ Word * Base \in Nat /\ Word * Word \in Nat
  <2>1. Word * c = Word * Word - Word * Base
    BY <1>1, <1>2 DEF c
  <2>2. Word * 4 <= Word * Base
    BY <1>1, <1>2, Products
  <2> QED BY <2>1, <2>2, <1>1, <1>2, Products
<1>8. c < Word
  BY <1>1, <1>2 DEF c
<1>9. ASSUME NEW a \in Nat, NEW b \in Nat, NEW p \in Nat, NEW q \in Nat, NEW d \in Nat, NEW w \in Nat,
             a <= b, b <= (p - q) + 3 * d, w * 4 <= q, d < w
      PROVE  a \in 0 .. p - 1
  BY ONLY <1>9
<1> QED BY ONLY <1>2, <1>5, <1>6, <1>7, <1>8, <1>9, Zenon

\* Two more bytes add a word, in the order that their place demands.
LEMMA WordSumTwo ==
  ASSUME NEW s \in Seq(Byte), NEW x \in Byte, NEW y \in Byte
  PROVE  WordSum(s \o <<x, y>>) =
           WordSum(s) + (IF Len(s) % 2 = 0 THEN x + Base * y ELSE Base * x + y)
<1> DEFINE n == Len(s)
           t == s \o <<x, y>>
<1>0. n \in Nat /\ x \in Nat /\ y \in Nat /\ Base * x \in Nat /\ Base * y \in Nat
  BY AlphabetAssumption, Products DEF Byte
<1>1. /\ t \in Seq(Byte) /\ Len(t) = n + 2 /\ t[n + 1] = x /\ t[n + 2] = y
      /\ \A k \in 1 .. n : t[k] = s[k]
  OBVIOUS
<1>2. PICK g \in [0 .. n -> Nat] : Adds(g, Weights(s), n) /\ WordSum(s) = g[n]
  BY WordSumUnfold
<1>3. PICK h \in [0 .. Len(t) -> Nat] : Adds(h, Weights(t), Len(t)) /\ WordSum(t) = h[Len(t)]
  BY <1>1, WordSumUnfold
<1> HIDE DEF t
<1>4. /\ \A k \in 1 .. n : Weights(s)[k] = Weights(t)[k]
      /\ Weights(t)[n + 1] = IF (n + 1) % 2 = 1 THEN x ELSE Base * x
      /\ Weights(t)[n + 2] = IF (n + 2) % 2 = 1 THEN y ELSE Base * y
  <2>1. \A k \in 1 .. n : k \in 1 .. n + 2
    BY <1>0
  <2>2. n + 1 \in 1 .. n + 2 /\ n + 2 \in 1 .. n + 2
    BY <1>0
  <2> QED BY <1>1, <2>1, <2>2 DEF Weights
<1> HIDE DEF n
<1>5. h[0] = 0 /\ \A k \in 1 .. n + 2 : h[k] = h[k - 1] + Weights(t)[k]
  BY <1>1, <1>3 DEF Adds
<1>6. Adds(h, Weights(t), n)
  <2>1. \A k \in 1 .. n : k \in 1 .. n + 2
    BY <1>0
  <2> QED BY <2>1, <1>5 DEF Adds
<1>7. h[n] = g[n]
  <2>1. \A k \in 0 .. n : g[k] = h[k]
    <3>1. Adds(h, Weights(s), n)
      BY <1>4, <1>6, Zenon DEF Adds
    <3>2. n \in Nat /\ Adds(g, Weights(s), n)
      BY <1>0, <1>2
    <3> QED BY ONLY <3>1, <3>2, SumUnique, SMTT(60)
  <2> QED BY <2>1, <1>0
<1>8. h[n + 2] = (g[n] + Weights(t)[n + 1]) + Weights(t)[n + 2]
  <2>1. n + 1 \in 1 .. n + 2 /\ n + 2 \in 1 .. n + 2 /\ (n + 1) - 1 = n /\ (n + 2) - 1 = n + 1
    BY <1>0
  <2>2. h[n + 1] = h[n] + Weights(t)[n + 1]
    BY <1>5, <2>1
  <2>3. h[n + 2] = h[n + 1] + Weights(t)[n + 2]
    BY <1>5, <2>1
  <2> QED BY <2>2, <2>3, <1>7
<1>9. g[n] \in Nat
  BY <1>0
<1>10. CASE n % 2 = 0
  <2>1. (n + 1) % 2 = 1 /\ (n + 2) % 2 = 0
    BY ONLY <1>0, <1>10, Parity, Zenon
  <2>2. WordSum(t) = (g[n] + x) + Base * y
    BY <1>1, <1>3, <1>4, <1>8, <2>1
  <2>3. (g[n] + x) + Base * y = g[n] + (x + Base * y)
    BY ONLY <1>0, <1>9
  <2> QED BY ONLY <2>2, <2>3, <1>2, <1>10, Zenon DEF n, t
<1>11. CASE n % 2 # 0
  <2>1. (n + 1) % 2 = 0 /\ (n + 2) % 2 = 1
    BY ONLY <1>0, <1>11, Parity, Zenon
  <2>2. WordSum(t) = (g[n] + Base * x) + y
    BY <1>1, <1>3, <1>4, <1>8, <2>1
  <2>3. (g[n] + Base * x) + y = g[n] + (Base * x + y)
    BY ONLY <1>0, <1>9
  <2> QED BY ONLY <2>2, <2>3, <1>2, <1>11, Zenon DEF n, t
<1> QED BY <1>10, <1>11

\* What WRITE16_BE stores of a word, and what READ16_BE makes of it.
LEMMA WordBytes ==
  ASSUME NEW w \in 0 .. Word - 1
  PROVE  /\ Bytes(w) \in Seq(Byte) /\ Len(Bytes(w)) = 2
         /\ Bytes(w)[1] = w \div Base /\ Bytes(w)[2] = w % Base
         /\ w \div Base \in Byte /\ w % Base \in Byte
         /\ BigEndian(w \div Base, w % Base) = w
         /\ Swap(w) \in 0 .. Word - 1
         /\ Swap(w) \div Base = w % Base /\ Swap(w) % Base = w \div Base
<1>1. Base \in Nat \ {0}
  BY FourBytes
<1>2. w \div Base \in Byte /\ w % Base \in Byte /\ BigEndian(w \div Base, w % Base) = w
  BY <1>1, Digits DEF Byte, Word, BigEndian
<1>3. /\ Swap(w) \in 0 .. Word - 1
      /\ Swap(w) \div Base = w % Base /\ Swap(w) % Base = w \div Base
  BY <1>1, <1>2, Composed DEF Byte, Word, Swap, BigEndian
<1>4. /\ Bytes(w) \in Seq(Byte) /\ Len(Bytes(w)) = 2
      /\ Bytes(w)[1] = w \div Base /\ Bytes(w)[2] = w % Base
  BY <1>2 DEF Bytes
<1> QED BY <1>2, <1>3, <1>4

\* The check sum that spd_checksum puts behind a message, swapped or not after its
\* length, is the one that dl_fastchk16 accepts, for every message whose length
\* fits the length field.
THEOREM CheckSumsAgree ==
  ASSUME NEW u \in Seq(Byte), Len(u) <= Word + 3
  PROVE  /\ SpdChecksum(u, CHK_FIXZERO) \in 0 .. Word - 1
         /\ DlFastchk16(u \o Bytes(SpdChecksum(u, CHK_FIXZERO))) = 0
<1> DEFINE s == WordSum(u)
           c == Folded(Word, s)
           k == SpdChecksum(u, CHK_FIXZERO)
<1>1. Base \in Nat /\ Base >= 4 /\ Word \in Nat /\ Word >= 2
  <2>1. Base * 4 <= Base * Base /\ Base * Base \in Nat
    BY FourBytes, Products
  <2> QED BY <2>1, FourBytes DEF Word
<1>2. s \in 0 .. Word * Word - 1
  BY WordSumBound
<1>3. c \in 0 .. Word - 1 /\ Folded(Word, s + c) = 0
  <2> HIDE DEF s
  <2> QED BY <1>1, <1>2, Carries
<1>4. \A x : FoldCarry(x) = Folded(Word, x)
  BY DEF FoldCarry, Folded
<1>5. k = IF Len(u) % 2 < 1 THEN Swap(c) ELSE c
  BY <1>4, Zenon DEF SpdChecksum, CHK_FIXZERO
<1> HIDE DEF s, c, k
<1> DEFINE hi == c \div Base
           lo == c % Base
<1>6. /\ hi \in Byte /\ lo \in Byte /\ BigEndian(hi, lo) = c
      /\ Swap(c) \in 0 .. Word - 1 /\ Bytes(c) = <<hi, lo>> /\ Bytes(Swap(c)) = <<lo, hi>>
  BY <1>3, WordBytes DEF Bytes
<1>7. hi \in Nat /\ lo \in Nat /\ Base * hi \in Nat /\ c = Base * hi + lo
  <2>1. hi \in Nat /\ lo \in Nat
    BY <1>1, <1>6 DEF Byte
  <2> HIDE DEF hi, lo
  <2> QED BY <2>1, <1>1, <1>6, Products DEF BigEndian
<1> HIDE DEF hi, lo
<1>8. k \in 0 .. Word - 1
  BY <1>3, <1>5, <1>6, Zenon
<1>9. WordSum(u \o Bytes(k)) = s + c
  <2>1. CASE Len(u) % 2 = 0
    <3>1. k = Swap(c)
      BY <1>5, <2>1
    <3>2. WordSum(u \o <<lo, hi>>) = s + (lo + Base * hi)
      BY <1>6, <2>1, WordSumTwo DEF s
    <3>3. lo + Base * hi = c
      BY ONLY <1>7
    <3> QED BY ONLY <3>1, <3>2, <3>3, <1>6, Zenon
  <2>2. CASE Len(u) % 2 # 0
    <3>1. k = c
      BY <1>5, <2>2
    <3>2. WordSum(u \o <<hi, lo>>) = s + (Base * hi + lo)
      BY <1>6, <2>2, WordSumTwo DEF s
    <3> QED BY ONLY <3>1, <3>2, <1>7, <1>6, Zenon
  <2> QED BY <2>1, <2>2
<1>10. DlFastchk16(u \o Bytes(k)) = 0
  BY ONLY <1>3, <1>4, <1>9, Zenon DEF DlFastchk16
<1> QED BY ONLY <1>8, <1>10, Zenon DEF k

-----------------------------------------------------------------------------
(* The frames of the host.                                                 *)

\* What a concatenation of two sequences is.
LEMMA Joined ==
  ASSUME NEW S, NEW a \in Seq(S), NEW b \in Seq(S)
  PROVE  /\ a \o b \in Seq(S) /\ Len(a \o b) = Len(a) + Len(b)
         /\ \A k \in 1 .. Len(a) : (a \o b)[k] = a[k]
         /\ \A k \in 1 .. Len(b) : (a \o b)[Len(a) + k] = b[k]
<1>0. a \o b \in Seq(S)
  OBVIOUS
<1>1. /\ Len(a \o b) = Len(a) + Len(b)
      /\ \A k \in 1 .. Len(a) : (a \o b)[k] = a[k]
      /\ \A k \in 1 .. Len(b) : (a \o b)[Len(a) + k] = b[k]
  BY ONLY a \in Seq(S), b \in Seq(S)
<1> QED BY ONLY <1>0, <1>1, Zenon

\* The message in raw_buf: as long as the length field says, and with a check sum
\* that dl_fastchk16 accepts.
LEMMA RawFacts ==
  ASSUME NEW m \in Item, m.type < Word, Len(m.data) < Word
  PROVE  /\ HostRaw(m) \in Seq(Byte)
         /\ Len(HostRaw(m)) = Len(m.data) + 6
         /\ BigEndian(HostRaw(m)[3], HostRaw(m)[4]) = Len(m.data)
         /\ DlFastchk16(HostRaw(m)) = 0
<1> DEFINE ty == Bytes(m.type)
           ln == Bytes(Len(m.data))
           d == m.data
           u == (ty \o ln) \o d
           c == SpdChecksum(u, CHK_FIXZERO)
<1>1. d \in Seq(Byte) /\ Len(d) \in Nat /\ m.type \in Nat /\ Word \in Nat
  BY FourBytes, Products DEF Item, Word
<1>2. m.type \in 0 .. Word - 1 /\ Len(d) \in 0 .. Word - 1
  BY <1>1
<1>3. ty \in Seq(Byte) /\ Len(ty) = 2
  BY <1>2, WordBytes
<1>4. ln \in Seq(Byte) /\ Len(ln) = 2 /\ BigEndian(ln[1], ln[2]) = Len(d)
  BY <1>2, WordBytes
<1>5. u = Unsealed(m)
  BY DEF Unsealed
<1> HIDE DEF ty, ln, d
<1>6. u \in Seq(Byte) /\ Len(u) = Len(d) + 4 /\ u[3] = ln[1] /\ u[4] = ln[2]
  <2>1. ty \o ln \in Seq(Byte) /\ Len(ty \o ln) = 4 /\ (ty \o ln)[3] = ln[1] /\ (ty \o ln)[4] = ln[2]
    <3>1. /\ ty \o ln \in Seq(Byte) /\ Len(ty \o ln) = Len(ty) + Len(ln)
          /\ \A k \in 1 .. Len(ln) : (ty \o ln)[Len(ty) + k] = ln[k]
      <4>1. ty \in Seq(Byte) /\ ln \in Seq(Byte)
        BY <1>3, <1>4
      <4> QED BY ONLY <4>1, Joined, SMT
    <3> QED BY ONLY <1>3, <1>4, <3>1
  <2> DEFINE h == ty \o ln
  <2> HIDE DEF h
  <2>2. h \in Seq(Byte) /\ Len(h) = 4 /\ h[3] = ln[1] /\ h[4] = ln[2]
    BY ONLY <2>1 DEF h
  <2>3. /\ h \o d \in Seq(Byte) /\ Len(h \o d) = Len(d) + 4
        /\ (h \o d)[3] = h[3] /\ (h \o d)[4] = h[4]
    <3>1. /\ h \o d \in Seq(Byte) /\ Len(h \o d) = Len(h) + Len(d)
          /\ \A k \in 1 .. Len(h) : (h \o d)[k] = h[k]
      <4>1. h \in Seq(Byte) /\ d \in Seq(Byte)
        BY <1>1, <2>2
      <4> QED BY ONLY <4>1, Joined, SMT
    <3> QED BY ONLY <3>1, <1>1, <2>2
  <2> QED BY ONLY <2>2, <2>3, Zenon DEF h
<1>7. HostRaw(m) = u \o Bytes(c)
  BY <1>5 DEF HostRaw
<1> HIDE DEF u
<1>8. c \in 0 .. Word - 1 /\ DlFastchk16(u \o Bytes(c)) = 0
  <2>1. Len(u) <= Word + 3
    BY ONLY <1>1, <1>2, <1>6
  <2> QED BY <1>6, <2>1, CheckSumsAgree
<1> HIDE DEF c
<1>9. Bytes(c) \in Seq(Byte) /\ Len(Bytes(c)) = 2
  BY <1>8, WordBytes
<1>10. /\ u \o Bytes(c) \in Seq(Byte) /\ Len(u \o Bytes(c)) = Len(d) + 6
       /\ (u \o Bytes(c))[3] = u[3] /\ (u \o Bytes(c))[4] = u[4]
  <2> DEFINE e == Bytes(c)
  <2>1. e \in Seq(Byte) /\ Len(e) = 2
    BY <1>9
  <2> HIDE DEF e
  <2>2. /\ u \o e \in Seq(Byte) /\ Len(u \o e) = Len(d) + 6
        /\ (u \o e)[3] = u[3] /\ (u \o e)[4] = u[4]
    <3>1. Len(u) \in Nat /\ Len(u) = Len(d) + 4
      BY ONLY <1>1, <1>6
    <3>2. /\ u \o e \in Seq(Byte) /\ Len(u \o e) = Len(u) + Len(e)
          /\ \A k \in 1 .. Len(u) : (u \o e)[k] = u[k]
      <4>1. u \in Seq(Byte) /\ e \in Seq(Byte)
        BY <1>6, <2>1
      <4> QED BY ONLY <4>1, Joined, SMT
    <3> QED BY ONLY <2>1, <3>1, <3>2, <1>1
  <2> QED BY <2>2 DEF e
<1> QED BY ONLY <1>4, <1>6, <1>7, <1>8, <1>10, Zenon DEF d

\* c is r with its special bytes escaped, byte n of it behind place t[n - 1].
Coded(c, r, t) ==
  /\ t[0] = 0 /\ Len(c) = t[Len(r)]
  /\ \A n \in 1 .. Len(r) :
       IF r[n] \in Special
       THEN t[n] = t[n - 1] + 2 /\ c[t[n - 1] + 1] = Escape /\ c[t[n - 1] + 2] = Flip[r[n]]
       ELSE t[n] = t[n - 1] + 1 /\ c[t[n - 1] + 1] = r[n]

\* What spd_transcode makes of a message.
LEMMA TranscodeCodes ==
  ASSUME NEW r \in Seq(Byte)
  PROVE  /\ Transcode(r) \in Seq(Byte)
         /\ \E t \in [0 .. Len(r) -> Nat] : Coded(Transcode(r), r, t)
<1> DEFINE code(b) == IF b \in Special THEN <<Escape, Flip[b]>> ELSE <<b>>
           q == [k \in DOMAIN r |-> code(r[k])]
<1>1. ASSUME NEW b \in Byte PROVE code(b) \in Seq(Byte)
  BY AlphabetAssumption DEF Special
<1> HIDE DEF code
<1>2. q \in Seq(Seq(Byte)) /\ Len(q) = Len(r) /\ \A n \in 1 .. Len(r) : q[n] = code(r[n])
  <2>1. \A b \in Byte : code(b) \in Seq(Byte)
    BY <1>1
  <2>2. Len(r) \in Nat /\ DOMAIN r = 1 .. Len(r) /\ \A n \in 1 .. Len(r) : r[n] \in Byte
    OBVIOUS
  <2>3. q = [k \in 1 .. Len(r) |-> code(r[k])]
    BY <2>2
  <2>4. q \in [1 .. Len(r) -> Seq(Byte)] /\ \A n \in 1 .. Len(r) : q[n] = code(r[n])
    BY ONLY <2>1, <2>2, <2>3
  <2> HIDE DEF q
  <2> QED BY ONLY <2>2, <2>4
<1>3. Transcode(r) = FlattenSeq(q)
  BY DEF Transcode, code
<1> HIDE DEF q
<1>4. /\ Transcode(r) \in Seq(Byte)
      /\ \E t \in [0 .. Len(r) -> Nat] : Laid(Transcode(r), q, t)
  BY <1>2, <1>3, FlattenLays
<1>5. PICK t \in [0 .. Len(r) -> Nat] : Laid(Transcode(r), q, t)
  BY <1>4
<1> DEFINE c == Transcode(r)
<1> HIDE DEF c
<1>6. /\ t[0] = 0 /\ Len(c) = t[Len(r)]
      /\ \A k \in 1 .. Len(r) : t[k] = t[k - 1] + Len(q[k])
      /\ \A k \in 1 .. Len(r) : \A x \in 1 .. Len(q[k]) : c[t[k - 1] + x] = q[k][x]
  BY <1>2, <1>5 DEF Laid, c
<1>7. ASSUME NEW n \in 1 .. Len(r)
      PROVE  IF r[n] \in Special
             THEN t[n] = t[n - 1] + 2 /\ c[t[n - 1] + 1] = Escape /\ c[t[n - 1] + 2] = Flip[r[n]]
             ELSE t[n] = t[n - 1] + 1 /\ c[t[n - 1] + 1] = r[n]
  <2>1. t[n] = t[n - 1] + Len(q[n]) /\ \A x \in 1 .. Len(q[n]) : c[t[n - 1] + x] = q[n][x]
    BY <1>6
  <2>2. CASE r[n] \in Special
    <3>1. q[n] = <<Escape, Flip[r[n]]>>
      BY <1>2, <2>2 DEF code
    <3> QED BY <2>1, <2>2, <3>1
  <2>3. CASE r[n] \notin Special
    <3>1. q[n] = <<r[n]>>
      BY <1>2, <2>3 DEF code
    <3> QED BY <2>1, <2>3, <3>1
  <2> QED BY <2>2, <2>3
<1>8. Coded(Transcode(r), r, t)
  BY <1>6, <1>7 DEF Coded, c
<1> QED BY <1>4, <1>8

\* The one or two places behind place a.
LEMMA NextPlaces ==
  ASSUME NEW a \in Nat, NEW l \in Nat, NEW x, x <= l
  PROVE  /\ x = a + 2 => /\ a + 1 \in 1 .. l /\ a + 2 \in 1 .. l
                         /\ 1 + (a + 1) = a + 2 /\ 1 + (a + 2) = a + 3
         /\ x = a + 1 => a + 1 \in 1 .. l /\ 1 + (a + 1) = a + 2
  OBVIOUS

\* A function that does not fall from one place to the next does not fall.
LEMMA Grows ==
  ASSUME NEW n \in Nat, NEW o \in [0 .. n -> Nat], \A k \in 1 .. n : o[k - 1] <= o[k]
  PROVE  \A x, y \in 0 .. n : x <= y => o[x] <= o[y]
<1> SUFFICES ASSUME NEW x \in 0 .. n PROVE \A y \in 0 .. n : x <= y => o[x] <= o[y]
  OBVIOUS
<1> DEFINE T == {d \in Nat : x + d <= n => o[x] <= o[x + d]}
<1>1. 0 \in T
  <2>1. x + 0 = x /\ o[x] \in Nat
    OBVIOUS
  <2> QED BY <2>1
<1>2. ASSUME NEW d \in Nat, d \in T PROVE d + 1 \in T
  <2> SUFFICES ASSUME x + (d + 1) <= n PROVE o[x] <= o[x + (d + 1)]
    OBVIOUS
  <2>1. /\ x + d <= n /\ x + d \in 0 .. n /\ x + (d + 1) \in 1 .. n /\ x + (d + 1) \in 0 .. n
        /\ (x + (d + 1)) - 1 = x + d
    OBVIOUS
  <2>2. o[x] <= o[x + d] /\ o[x + d] <= o[x + (d + 1)]
    BY <1>2, <2>1
  <2>3. o[x] \in Nat /\ o[x + d] \in Nat /\ o[x + (d + 1)] \in Nat
    BY <2>1
  <2> QED BY ONLY <2>2, <2>3
<1>3. Nat \subseteq T
  <2> HIDE DEF T
  <2> QED BY <1>1, <1>2, Induct
<1> SUFFICES ASSUME NEW y \in 0 .. n, x <= y PROVE o[x] <= o[y]
  OBVIOUS
<1>4. y - x \in Nat /\ x + (y - x) = y
  OBVIOUS
<1>5. y - x \in T
  BY <1>3, <1>4
<1> QED BY <1>4, <1>5

\* Where the bytes of a message are in its frame.
Places(r) == CHOOSE t \in [0 .. Len(r) -> Nat] : Coded(Transcode(r), r, t)

\* A frame: a header, the message with its special bytes escaped, a header.
Framed(f, r, t) ==
  /\ f \in Seq(Byte)
  /\ t \in [0 .. Len(r) -> Nat] /\ t[0] = 0
  /\ Len(f) = t[Len(r)] + 2 /\ f[1] = Header /\ f[t[Len(r)] + 2] = Header
  /\ \A n \in 1 .. Len(r) :
       IF r[n] \in Special
       THEN t[n] = t[n - 1] + 2 /\ f[t[n - 1] + 2] = Escape /\ f[t[n - 1] + 3] = Flip[r[n]]
       ELSE t[n] = t[n - 1] + 1 /\ f[t[n - 1] + 2] = r[n]

LEMMA FrameFacts ==
  ASSUME NEW m \in Item, m.type < Word, Len(m.data) < Word
  PROVE  Framed(EncodeMsg(m), HostRaw(m), Places(HostRaw(m)))
<1> DEFINE r == HostRaw(m)
           t == Places(r)
           f == EncodeMsg(m)
           c == Transcode(r)
           e == <<Header>>
<1>1. r \in Seq(Byte) /\ Len(r) \in Nat
  BY RawFacts
<1>2. c \in Seq(Byte) /\ t \in [0 .. Len(r) -> Nat] /\ Coded(c, r, t)
  BY <1>1, TranscodeCodes DEF Places
<1>3. e \in Seq(Byte) /\ Len(e) = 1 /\ e[1] = Header
  BY AlphabetAssumption
<1>4. f = (e \o c) \o e
  BY DEF EncodeMsg
<1> HIDE DEF c, e, r, t, f
<1>5. /\ t[0] = 0 /\ Len(c) = t[Len(r)] /\ Len(c) \in Nat
      /\ \A n \in 1 .. Len(r) :
           IF r[n] \in Special
           THEN t[n] = t[n - 1] + 2 /\ c[t[n - 1] + 1] = Escape /\ c[t[n - 1] + 2] = Flip[r[n]]
           ELSE t[n] = t[n - 1] + 1 /\ c[t[n - 1] + 1] = r[n]
  BY <1>2 DEF Coded
<1>6. \A n \in 1 .. Len(r) : t[n - 1] <= t[n]
  <2> SUFFICES ASSUME NEW n \in 1 .. Len(r) PROVE t[n - 1] <= t[n]
    OBVIOUS
  <2>1. n - 1 \in 0 .. Len(r) /\ t[n - 1] \in Nat
    <3>1. Len(r) \in Nat /\ t \in [0 .. Len(r) -> Nat]
      BY <1>1, <1>2
    <3>2. n - 1 \in 0 .. Len(r)
      BY ONLY <3>1, n \in 1 .. Len(r)
    <3> QED BY ONLY <3>1, <3>2
  <2>2. t[n] = t[n - 1] + 2 \/ t[n] = t[n - 1] + 1
    BY <1>5
  <2> QED BY ONLY <2>1, <2>2
<1>7. \A n \in 1 .. Len(r) : t[n - 1] \in Nat /\ t[n] <= Len(c)
  <2>1. \A x, y \in 0 .. Len(r) : x <= y => t[x] <= t[y]
    BY <1>1, <1>2, <1>6, Grows
  <2> SUFFICES ASSUME NEW n \in 1 .. Len(r) PROVE t[n - 1] \in Nat /\ t[n] <= Len(c)
    OBVIOUS
  <2>2. n - 1 \in 0 .. Len(r) /\ n \in 0 .. Len(r) /\ Len(r) \in 0 .. Len(r) /\ n <= Len(r)
    BY <1>1
  <2> QED BY <1>2, <1>5, <2>1, <2>2
<1> DEFINE g == e \o c
<1>8. /\ g \in Seq(Byte) /\ Len(g) = Len(c) + 1 /\ g[1] = Header
      /\ \A k \in 1 .. Len(c) : g[1 + k] = c[k]
  <2>1. /\ e \o c \in Seq(Byte) /\ Len(e \o c) = Len(e) + Len(c)
        /\ \A k \in 1 .. Len(e) : (e \o c)[k] = e[k]
        /\ \A k \in 1 .. Len(c) : (e \o c)[Len(e) + k] = c[k]
    <3>1. e \in Seq(Byte) /\ c \in Seq(Byte)
      BY <1>2, <1>3
    <3> QED BY ONLY <3>1, Joined, SMT
  <2> HIDE DEF g
  <2>2. /\ g \in Seq(Byte) /\ Len(g) = Len(e) + Len(c)
        /\ \A k \in 1 .. Len(e) : g[k] = e[k]
        /\ \A k \in 1 .. Len(c) : g[Len(e) + k] = c[k]
    BY ONLY <2>1, Zenon DEF g
  <2> QED BY ONLY <2>2, <1>3, <1>5
<1>9. f = g \o e
  BY <1>4
<1> HIDE DEF g
<1>10. /\ f \in Seq(Byte) /\ Len(f) = Len(c) + 2 /\ f[1] = Header /\ f[Len(c) + 2] = Header
       /\ \A k \in 1 .. Len(c) : f[1 + k] = c[k]
  <2>1. /\ g \o e \in Seq(Byte) /\ Len(g \o e) = Len(g) + Len(e)
        /\ \A k \in 1 .. Len(g) : (g \o e)[k] = g[k]
        /\ \A k \in 1 .. Len(e) : (g \o e)[Len(g) + k] = e[k]
    <3>1. g \in Seq(Byte) /\ e \in Seq(Byte)
      BY <1>3, <1>8
    <3> QED BY ONLY <3>1, Joined, SMT
  <2>2. /\ f \in Seq(Byte) /\ Len(f) = Len(g) + Len(e)
        /\ \A k \in 1 .. Len(g) : f[k] = g[k]
        /\ \A k \in 1 .. Len(e) : f[Len(g) + k] = e[k]
    BY ONLY <2>1, <1>9, Zenon
  <2>3. /\ Len(g) + Len(e) = Len(c) + 2 /\ 1 \in 1 .. Len(g) /\ 1 \in 1 .. Len(e)
        /\ Len(g) + 1 = Len(c) + 2 /\ \A k \in 1 .. Len(c) : 1 + k \in 1 .. Len(g)
    BY ONLY <1>3, <1>5, <1>8
  <2> QED BY ONLY <1>3, <1>8, <2>2, <2>3
<1>11. ASSUME NEW n \in 1 .. Len(r)
       PROVE  IF r[n] \in Special
              THEN t[n] = t[n - 1] + 2 /\ f[t[n - 1] + 2] = Escape /\ f[t[n - 1] + 3] = Flip[r[n]]
              ELSE t[n] = t[n - 1] + 1 /\ f[t[n - 1] + 2] = r[n]
  <2>0. t[n - 1] \in Nat /\ t[n] <= Len(c) /\ Len(c) \in Nat
    BY <1>5, <1>7
  <2>1. CASE r[n] \in Special
    <3>1. t[n] = t[n - 1] + 2 /\ c[t[n - 1] + 1] = Escape /\ c[t[n - 1] + 2] = Flip[r[n]]
      BY <1>5, <2>1
    <3>2. /\ t[n - 1] + 1 \in 1 .. Len(c) /\ t[n - 1] + 2 \in 1 .. Len(c)
          /\ 1 + (t[n - 1] + 1) = t[n - 1] + 2 /\ 1 + (t[n - 1] + 2) = t[n - 1] + 3
      BY ONLY <2>0, <3>1, NextPlaces, Zenon
    <3>3. f[1 + (t[n - 1] + 1)] = Escape /\ f[1 + (t[n - 1] + 2)] = Flip[r[n]]
      BY ONLY <1>10, <3>1, <3>2, Zenon
    <3> QED BY ONLY <2>1, <3>1, <3>2, <3>3, Zenon
  <2>2. CASE r[n] \notin Special
    <3>1. t[n] = t[n - 1] + 1 /\ c[t[n - 1] + 1] = r[n]
      BY <1>5, <2>2
    <3>2. t[n - 1] + 1 \in 1 .. Len(c) /\ 1 + (t[n - 1] + 1) = t[n - 1] + 2
      BY ONLY <2>0, <3>1, NextPlaces, Zenon
    <3>3. f[1 + (t[n - 1] + 1)] = r[n]
      BY ONLY <1>10, <3>1, <3>2, Zenon
    <3> QED BY ONLY <2>2, <3>1, <3>2, <3>3, Zenon
  <2> QED BY <2>1, <2>2
<1>12. \A n \in 1 .. Len(r) :
         IF r[n] \in Special
         THEN t[n] = t[n - 1] + 2 /\ f[t[n - 1] + 2] = Escape /\ f[t[n - 1] + 3] = Flip[r[n]]
         ELSE t[n] = t[n - 1] + 1 /\ f[t[n - 1] + 2] = r[n]
  BY <1>11
<1>13. Framed(f, r, t)
  BY ONLY <1>2, <1>5, <1>10, <1>12, Zenon DEF Framed
<1> QED BY <1>13 DEF f, r, t

-----------------------------------------------------------------------------
(* The line.                                                               *)

\* Messages that the type and the length field can hold.
Proper(its) == \A k \in DOMAIN its : its[k].type < Word /\ Len(its[k].data) < Word

LEMMA Shifted ==
  ASSUME NEW a \in Nat, NEW b \in Nat, NEW l \in Nat
  PROVE  \A x \in 1 .. l - a - b : x + b \in 1 .. l
  OBVIOUS

LEMMA Inside ==
  ASSUME NEW a \in Nat, NEW b \in Nat, NEW e \in Nat, a + b <= e, NEW x \in 1 .. b
  PROVE  a + x \in 1 .. e /\ (4 + a) + x = 4 + (a + x)
  OBVIOUS

LEMMA FourMore ==
  ASSUME NEW a \in Nat
  PROVE  4 + a \in Nat /\ \A b \in Nat : a <= b => 4 + a <= 4 + b
  OBVIOUS

\* The bytes of an item on the line; all of its frame when nothing is missing.
LEMMA SentFacts ==
  ASSUME NEW k \in Nat, NEW m \in Item, m.type < Word, Len(m.data) < Word
  PROVE  /\ Sent(k, m) \in Seq(LineByte)
         /\ m.late = 0 /\ m.lost = 0 =>
              /\ Len(Sent(k, m)) = Len(EncodeMsg(m))
              /\ \A x \in 1 .. Len(EncodeMsg(m)) : Sent(k, m)[x] = [b |-> EncodeMsg(m)[x], src |-> k]
<1> DEFINE f == EncodeMsg(m)
           n == Len(f) - m.lost - m.late
           s == [x \in 1 .. n |-> [b |-> f[x + m.late], src |-> k]]
<1>1. f \in Seq(Byte)
  BY FrameFacts DEF Framed
<1>2. Sent(k, m) = s
  BY DEF Sent
<1> HIDE DEF f
<1>3. m.late \in Nat /\ m.lost \in Nat /\ Len(f) \in Nat /\ n \in Int
  BY <1>1 DEF Item
<1>4. s \in Seq(LineByte)
  <2>1. CASE n \in Nat
    <3>1. \A x \in 1 .. n : x + m.late \in 1 .. Len(f)
      BY ONLY <1>3, Shifted, Zenon
    <3>2. \A x \in 1 .. n : [b |-> f[x + m.late], src |-> k] \in LineByte
      BY <1>1, <3>1 DEF LineByte
    <3>3. s \in [1 .. n -> LineByte]
      BY <3>2
    <3> HIDE DEF s, n
    <3> QED BY <2>1, <3>3
  <2>2. CASE n \notin Nat
    <3>1. 1 .. n = {}
      BY <1>3, <2>2
    <3>2. s = <<>>
      BY <3>1
    <3> HIDE DEF s
    <3> QED BY <3>2
  <2> QED BY <2>1, <2>2
<1>5. ASSUME m.late = 0, m.lost = 0
      PROVE  Len(s) = Len(f) /\ \A x \in 1 .. Len(f) : s[x] = [b |-> f[x], src |-> k]
  <2>1. n = Len(f) /\ \A x \in 1 .. Len(f) : x + m.late = x
    BY <1>3, <1>5
  <2>2. s = [x \in 1 .. Len(f) |-> [b |-> f[x], src |-> k]]
    BY <2>1
  <2> HIDE DEF s
  <2> QED BY <1>3, <2>2
<1> QED BY <1>2, <1>4, <1>5 DEF f

Parts(its) == [k \in DOMAIN its |-> Sent(k, its[k])]

\* How many bytes are on the line up to and with item k.
Offsets(its) == CHOOSE o \in [0 .. Len(its) -> Nat] : Laid(FlattenSeq(Parts(its)), Parts(its), o)
End(its, k) == 4 + Offsets(its)[k]

\* Four headers, and the items one behind the other.
LEMMA LineFacts ==
  ASSUME NEW its \in Seq(Item), Proper(its), NEW n, n = Len(its)
  PROVE  /\ LineOf(its) \in Seq(LineByte) /\ Len(LineOf(its)) = End(its, n)
         /\ \A x \in 1 .. 4 : LineOf(its)[x].b = Header
         /\ End(its, 0) = 4 /\ \A k \in 0 .. n : End(its, k) \in Nat
         /\ \A k \in 1 .. n :
              /\ End(its, k) = End(its, k - 1) + Len(Sent(k, its[k]))
              /\ \A x \in 1 .. Len(Sent(k, its[k])) :
                   LineOf(its)[End(its, k - 1) + x] = Sent(k, its[k])[x]
         /\ \A x, y \in 0 .. n : x <= y => End(its, x) <= End(its, y)
<1> DEFINE q == Parts(its)
           o == Offsets(its)
           s == FlattenSeq(q)
           h == [x \in 1 .. 4 |-> [b |-> CheckBaud(4)[x], src |-> 0]]
           l == LineOf(its)
<1>0. n \in Nat /\ DOMAIN its = 1 .. n
  OBVIOUS
<1>1. \A k \in 1 .. n : q[k] = Sent(k, its[k]) /\ q[k] \in Seq(LineByte) /\ Len(q[k]) \in Nat
  <2> SUFFICES ASSUME NEW k \in 1 .. n
               PROVE  q[k] = Sent(k, its[k]) /\ q[k] \in Seq(LineByte) /\ Len(q[k]) \in Nat
    OBVIOUS
  <2>1. q[k] = Sent(k, its[k])
    BY <1>0 DEF Parts
  <2>2. k \in Nat /\ its[k] \in Item /\ its[k].type < Word /\ Len(its[k].data) < Word
    BY <1>0 DEF Proper
  <2>3. q[k] \in Seq(LineByte)
    BY <2>1, <2>2, SentFacts
  <2> HIDE DEF q
  <2> QED BY <2>1, <2>3
<1>2. q \in Seq(Seq(LineByte)) /\ Len(q) = n
  <2>1. q = [k \in 1 .. n |-> q[k]]
    BY <1>0 DEF Parts
  <2> HIDE DEF q
  <2>2. q \in [1 .. n -> Seq(LineByte)]
    BY <1>1, <2>1
  <2> QED BY ONLY <1>0, <2>2
<1>3. s \in Seq(LineByte) /\ o \in [0 .. n -> Nat] /\ Laid(s, q, o)
  <2>1. s \in Seq(LineByte) /\ \E t \in [0 .. n -> Nat] : Laid(s, q, t)
    <3> HIDE DEF q
    <3> QED BY <1>2, FlattenLays
  <2> QED BY <2>1 DEF Offsets
<1>4. h \in Seq(LineByte) /\ Len(h) = 4 /\ \A x \in 1 .. 4 : h[x].b = Header
  <2>1. \A x \in 1 .. 4 : CheckBaud(4)[x] = Header
    BY DEF CheckBaud
  <2>2. h = [x \in 1 .. 4 |-> [b |-> Header, src |-> 0]]
    BY <2>1
  <2>3. [b |-> Header, src |-> 0] \in LineByte
    BY AlphabetAssumption DEF LineByte
  <2> HIDE DEF h
  <2> QED BY <2>2, <2>3
<1>5. l = h \o s
  BY DEF LineOf, Parts
<1>6. \A k : End(its, k) = 4 + o[k]
  BY DEF End
<1> HIDE DEF q, o, s, h, l
<1>7. /\ l \in Seq(LineByte) /\ Len(l) = 4 + Len(s)
      /\ \A x \in 1 .. 4 : l[x] = h[x]
      /\ \A x \in 1 .. Len(s) : l[4 + x] = s[x]
  <2>1. /\ h \o s \in Seq(LineByte) /\ Len(h \o s) = Len(h) + Len(s)
        /\ \A x \in 1 .. Len(h) : (h \o s)[x] = h[x]
        /\ \A x \in 1 .. Len(s) : (h \o s)[Len(h) + x] = s[x]
    <3>1. h \in Seq(LineByte) /\ s \in Seq(LineByte)
      BY <1>3, <1>4
    <3> QED BY ONLY <3>1, Joined, SMT
  <2> QED BY ONLY <2>1, <1>4, <1>5, Zenon
<1>8. /\ o[0] = 0 /\ Len(s) = o[n]
      /\ \A k \in 1 .. n : o[k] = o[k - 1] + Len(q[k])
      /\ \A k \in 1 .. n : \A x \in 1 .. Len(q[k]) : s[o[k - 1] + x] = q[k][x]
  BY <1>2, <1>3 DEF Laid
<1>9. \A x, y \in 0 .. n : x <= y => o[x] <= o[y]
  <2>1. \A k \in 1 .. n : o[k - 1] <= o[k]
    <3> SUFFICES ASSUME NEW k \in 1 .. n PROVE o[k - 1] <= o[k]
      OBVIOUS
    <3>1. k - 1 \in 0 .. n
      BY <1>0
    <3>2. o[k - 1] \in Nat /\ Len(q[k]) \in Nat /\ o[k] = o[k - 1] + Len(q[k])
      BY <1>1, <1>3, <1>8, <3>1
    <3> QED BY ONLY <3>2
  <2> QED BY <1>0, <1>3, <2>1, Grows
<1>10. /\ \A k \in 0 .. n : End(its, k) \in Nat
       /\ \A x, y \in 0 .. n : x <= y => End(its, x) <= End(its, y)
  <2>1. \A k \in 0 .. n : o[k] \in Nat
    BY <1>3
  <2> QED BY ONLY <1>6, <1>9, <2>1, FourMore, Zenon
<1>11. ASSUME NEW k \in 1 .. n
       PROVE  /\ End(its, k) = End(its, k - 1) + Len(Sent(k, its[k]))
              /\ \A x \in 1 .. Len(Sent(k, its[k])) : l[End(its, k - 1) + x] = Sent(k, its[k])[x]
  <2>1. o[k] \in Nat /\ o[k - 1] \in Nat /\ o[n] \in Nat /\ o[k] <= o[n]
    <3>1. k - 1 \in 0 .. n /\ k \in 0 .. n /\ n \in 0 .. n /\ k <= n
      BY <1>0
    <3> QED BY <1>3, <1>9, <3>1
  <2>2. q[k] = Sent(k, its[k]) /\ Len(q[k]) \in Nat /\ o[k] = o[k - 1] + Len(q[k])
    BY <1>1, <1>8
  <2>3. ASSUME NEW x \in 1 .. Len(q[k]) PROVE l[End(its, k - 1) + x] = q[k][x]
    <3>1. o[k - 1] + x \in 1 .. Len(s) /\ (4 + o[k - 1]) + x = 4 + (o[k - 1] + x)
      <4>1. Len(s) = o[n]
        BY <1>8
      <4>2. o[k - 1] \in Nat /\ Len(q[k]) \in Nat /\ Len(s) \in Nat /\ o[k - 1] + Len(q[k]) <= Len(s)
        BY ONLY <2>1, <2>2, <4>1, Zenon
      <4> QED BY ONLY <2>3, <4>2, Inside, Zenon
    <3>2. l[4 + (o[k - 1] + x)] = s[o[k - 1] + x] /\ s[o[k - 1] + x] = q[k][x]
      BY <1>7, <1>8, <3>1
    <3> QED BY ONLY <1>6, <3>1, <3>2, Zenon
  <2>4. 4 + o[k] = (4 + o[k - 1]) + Len(q[k])
    BY ONLY <2>1, <2>2
  <2> QED BY ONLY <1>6, <2>2, <2>3, <2>4, Zenon
<1>12. Len(l) = End(its, n) /\ End(its, 0) = 4
  BY <1>6, <1>7, <1>8
<1>13. \A x \in 1 .. 4 : l[x].b = Header
  BY ONLY <1>4, <1>7, Zenon
<1> QED BY ONLY <1>7, <1>10, <1>11, <1>12, <1>13, Zenon DEF l

-----------------------------------------------------------------------------
(* What a step does with the byte it takes.                                *)

\* Every step takes a byte or changes nothing.
LEMMA StepKinds == Next => GetChar \/ UNCHANGED vars
  BY DEF Next, AwaitHeader, BadEscape, OpenFrame, CloseFrame, TakeEscape, SkipByte, StoreByte, Silence, Take

LEMMA SpecialFacts ==
  /\ Header \notin Escaped /\ Escape \notin Escaped /\ Header # Escape
  /\ Header \in Special /\ Escape \in Special
  /\ \A b \in Special : b \in Byte /\ Flip[b] \in Escaped /\ Flip[b] \notin Special /\ Flip[Flip[b]] = b
<1>1. Header \in Special /\ Escape \in Special /\ Special \cap Escaped = {} /\ Header # Escape
  BY AlphabetAssumption DEF Special
<1>2. \A b \in Special : b \in Byte /\ Flip[b] \in Escaped /\ Flip[Flip[b]] = b
  BY AlphabetAssumption DEF Special, Escaped
<1> QED BY ONLY <1>1, <1>2

\* A header in front of a packet.
LEMMA HeaderBefore ==
  ASSUME Next, GetChar, started, NextByte = Header, data = <<>>, esc = FALSE
  PROVE  /\ head' = TRUE /\ UNCHANGED <<started, esc, data, plen, from, delivered, naks>>
<1>0. nread = 0 /\ NextByte \in Special /\ NextByte # Escape /\ line # <<>>
  BY SpecialFacts DEF nread, GetChar
<1>1. OpenFrame
  BY <1>0 DEF Next, AwaitHeader, BadEscape, CloseFrame, TakeEscape, SkipByte, StoreByte, Silence
<1> QED BY <1>1 DEF OpenFrame

\* A header in any place.
LEMMA HeaderAnywhere ==
  ASSUME Next, GetChar, NextByte = Header, ~head => data = <<>>,
         ~started => data = <<>> /\ esc = FALSE, esc \in BOOLEAN, Len(data) = 0 => data = <<>>
  PROVE  started' /\ data' = <<>> /\ esc' = FALSE
<1>0. NextByte \in Special /\ NextByte # Escape /\ NextByte \notin Escaped /\ line # <<>>
  BY SpecialFacts DEF GetChar
<1>1. CASE AwaitHeader
  BY <1>1 DEF AwaitHeader
<1>2. CASE BadEscape
  BY <1>2 DEF BadEscape, Reject, Restart
<1>3. CASE OpenFrame
  <2>1. esc = FALSE
    BY <1>0, <1>3 DEF OpenFrame, Take
  <2> QED BY <1>3, <2>1 DEF OpenFrame, Take, nread
<1>4. CASE CloseFrame
  BY <1>4 DEF CloseFrame, Take, Reject, Restart
<1> QED BY <1>0, <1>1, <1>2, <1>3, <1>4 DEF Next, TakeEscape, SkipByte, StoreByte, Silence

\* An escape byte that does not follow another.
LEMMA EscapeTaken ==
  ASSUME Next, GetChar, started, NextByte = Escape, esc = FALSE
  PROVE  esc' = TRUE /\ UNCHANGED <<started, head, data, plen, from, delivered, naks>>
<1>0. NextByte \in Special /\ NextByte # Header /\ line # <<>>
  BY SpecialFacts DEF GetChar
<1>1. TakeEscape
  BY <1>0 DEF Next, AwaitHeader, BadEscape, OpenFrame, CloseFrame, SkipByte, StoreByte, Silence
<1> QED BY <1>1 DEF TakeEscape

\* A byte of a packet that is not too long; the packet is rejected when the byte says
\* that it will be.
LEMMA ByteStored ==
  ASSUME Next, GetChar, started, head, NextByte \notin Special, esc => NextByte \in Escaped,
         HasRoom, PlenOf(Stored) \in Nat
  PROVE  /\ PlenOf(Stored) <= MaxPkt =>
              /\ data' = Stored /\ plen' = PlenOf(Stored) /\ esc' = FALSE
              /\ from' = (IF data = <<>> THEN Head(line).src ELSE from)
              /\ UNCHANGED <<started, head, delivered, naks>>
         /\ ~(PlenOf(Stored) <= MaxPkt) => head' = FALSE
<1>0. NextByte # Header /\ NextByte # Escape /\ line # <<>>
  BY DEF Special, GetChar
<1>1. StoreByte
  BY <1>0 DEF Next, AwaitHeader, BadEscape, OpenFrame, CloseFrame, TakeEscape, SkipByte, Silence
<1>2. PlenOf(Stored) <= MaxPkt <=> ~(PlenOf(Stored) > MaxPkt)
  BY PacketAssumption
<1> QED BY <1>1, <1>2 DEF StoreByte, EscAfter, Reject, Restart

\* A header behind a packet that is complete and whose check sum is right.
LEMMA FrameClosed ==
  ASSUME Next, GetChar, started, head, NextByte = Header, esc = FALSE, Len(data) # 0, Complete, SumOK
  PROVE  /\ delivered' = Append(delivered, [src |-> from, raw |-> data])
         /\ Restart /\ UNCHANGED <<started, naks>>
<1>0. nread # 0 /\ NextByte \in Special /\ NextByte # Escape /\ line # <<>>
  BY SpecialFacts DEF nread, GetChar
<1>1. CloseFrame
  BY <1>0 DEF Next, AwaitHeader, BadEscape, OpenFrame, TakeEscape, SkipByte, StoreByte, Silence
<1> QED BY <1>1 DEF CloseFrame

-----------------------------------------------------------------------------
(* The place on the line, and the state between frames.                    *)

\* The number of bytes taken.
Pos == Len(LineOf(items)) - Len(line)

\* The bytes not yet taken are those behind Pos.
LineInv ==
  /\ Proper(items)
  /\ Len(line) <= Len(LineOf(items))
  /\ \A x \in 1 .. Len(line) : line[x] = LineOf(items)[Pos + x]

\* Behind a header there is neither a part of a packet nor an escape byte: what
\* came before it was returned or rejected.
BetweenInv ==
  /\ ~head => data = <<>>
  /\ Len(data) < 4 => plen = 6
  /\ Pos > 0 <=> started
  /\ ~started => data = <<>> /\ esc = FALSE
  /\ Pos > 0 /\ LineOf(items)[Pos].b = Header => data = <<>> /\ esc = FALSE

LEMMA LineTail ==
  ASSUME NEW a \in Nat, NEW n \in Nat, n <= a, n # 0
  PROVE  /\ a - n \in Nat /\ a - n < a /\ n - 1 \in Nat /\ n - 1 <= a
         /\ a - (n - 1) = (a - n) + 1 /\ (a - n) + 1 \in 1 .. a
         /\ \A x \in 1 .. n - 1 : x + 1 \in 1 .. n /\ (a - n) + (x + 1) = (a - (n - 1)) + x
  OBVIOUS

\* Taking a byte moves Pos behind it.
LEMMA PlaceMoves ==
  ASSUME TypeOK, LineInv, GetChar
  PROVE  /\ Pos \in Nat /\ Pos < Len(LineOf(items)) /\ Pos + 1 \in 1 .. Len(LineOf(items))
         /\ Pos' = Pos + 1 /\ LineInv' /\ items' = items
         /\ Head(line) = LineOf(items)[Pos + 1]
<1> DEFINE l == LineOf(items)
           a == Len(l)
           n == Len(line)
<1>1. items \in Seq(Item) /\ line \in Seq(LineByte) /\ line # <<>> /\ line' = Tail(line) /\ items' = items
  BY DEF TypeOK, GetChar
<1>2. a \in Nat /\ n \in Nat /\ n <= a /\ n # 0
  <2>1. l \in Seq(LineByte)
    BY <1>1, LineFacts DEF LineInv
  <2>2. n <= a
    BY DEF LineInv
  <2> HIDE DEF l
  <2> QED BY <1>1, <2>1, <2>2
<1>3. \A x \in 1 .. n : line[x] = l[(a - n) + x]
  BY DEF LineInv, Pos
<1>4. l' = l /\ Len(line') = n - 1 /\ \A x \in 1 .. n - 1 : line'[x] = line[x + 1]
  BY <1>1
<1>5. Pos = a - n /\ Pos' = a - (n - 1)
  BY <1>4 DEF Pos
<1>6. Proper(items)
  BY DEF LineInv
<1>7. Head(line) = line[1] /\ 1 \in 1 .. n
  BY <1>1, <1>2
<1> HIDE DEF l, a, n
<1>8. /\ a - n \in Nat /\ a - n < a /\ n - 1 \in Nat /\ n - 1 <= a
      /\ a - (n - 1) = (a - n) + 1 /\ (a - n) + 1 \in 1 .. a
      /\ \A x \in 1 .. n - 1 : x + 1 \in 1 .. n /\ (a - n) + (x + 1) = (a - (n - 1)) + x
  BY ONLY <1>2, LineTail, Zenon
<1>9. \A x \in 1 .. n - 1 : line'[x] = l[(a - (n - 1)) + x]
  BY ONLY <1>3, <1>4, <1>8, Zenon
<1>10. LineInv'
  <2>1. Proper(items)' /\ LineOf(items)' = l /\ Len(line)' = n - 1 /\ Pos' = a - (n - 1)
    BY <1>1, <1>4, <1>5, <1>6 DEF l
  <2>2. Len(line)' <= Len(LineOf(items))'
    BY ONLY <2>1, <1>8, Zenon DEF a
  <2> QED BY ONLY <2>1, <2>2, <1>9, Zenon DEF LineInv
<1>11. Head(line) = l[Pos + 1]
  BY ONLY <1>3, <1>5, <1>7, Zenon
<1> QED BY ONLY <1>1, <1>5, <1>8, <1>10, <1>11, Zenon DEF a, l

LEMMA BetweenKept ==
  ASSUME TypeOK, LineInv, BetweenInv, Next, GetChar
  PROVE  BetweenInv'
<1>1. /\ Pos \in Nat /\ Pos' = Pos + 1 /\ items' = items
      /\ Head(line) = LineOf(items)[Pos + 1] /\ LineOf(items)' = LineOf(items)
  BY PlaceMoves
<1>2. ASSUME NextByte = Header PROVE started' /\ data' = <<>> /\ esc' = FALSE
  <2>1. esc \in BOOLEAN /\ (Len(data) = 0 => data = <<>>)
    BY DEF TypeOK
  <2> QED BY <1>2, <2>1, HeaderAnywhere DEF BetweenInv
<1>3. started'
  <2>1. CASE started
    BY <2>1 DEF Next, AwaitHeader, BadEscape, OpenFrame, CloseFrame, TakeEscape, SkipByte, StoreByte,
                Silence, GetChar, Reject
  <2>2. CASE ~started
    <3>1. Pos = 0
      BY <1>1, <2>2 DEF BetweenInv
    <3>2. LineOf(items)[1].b = Header
      <4>1. \A x \in 1 .. 4 : LineOf(items)[x].b = Header
        BY LineFacts DEF TypeOK, LineInv
      <4> QED BY ONLY <4>1
    <3>3. NextByte = Header
      BY <1>1, <3>1, <3>2 DEF NextByte
    <3> QED BY <1>2, <3>3
  <2> QED BY <2>1, <2>2
<1>4. LineOf(items)[Pos + 1].b = Header => data' = <<>> /\ esc' = FALSE
  BY <1>1, <1>2 DEF NextByte
<1>5. ~head' => data' = <<>>
  <2>1. ~head => data = <<>>
    BY DEF BetweenInv
  <2> QED BY <2>1 DEF Next, AwaitHeader, BadEscape, OpenFrame, CloseFrame, TakeEscape, SkipByte, StoreByte,
                      Silence, GetChar, Reject, Restart
<1>6. Len(data') < 4 => plen' = 6
  <2>1. Len(data) < 4 => plen = 6
    BY DEF BetweenInv
  <2>2. CASE /\ data' = Stored /\ plen' = PlenOf(Stored)
    <3>1. Len(Stored) = Len(data) + 1 /\ Len(data) \in Nat
      BY DEF Stored, TypeOK
    <3>2. Len(Stored) < 4 => plen' = plen
      BY <2>2, <3>1 DEF PlenOf
    <3> QED BY <2>1, <2>2, <3>1, <3>2
  <2>3. CASE plen' = 6
    BY <2>3
  <2>4. CASE UNCHANGED <<data, plen>>
    BY <2>1, <2>4
  <2> QED BY <2>2, <2>3, <2>4 DEF Next, AwaitHeader, BadEscape, OpenFrame, CloseFrame, TakeEscape, SkipByte,
                      StoreByte, Silence, GetChar, Reject, Restart
<1>7. Pos' > 0 <=> started'
  BY <1>1, <1>3
<1>8. Pos' > 0 /\ LineOf(items)'[Pos'].b = Header => data' = <<>> /\ esc' = FALSE
  BY <1>1, <1>4
<1> QED BY <1>3, <1>5, <1>6, <1>7, <1>8 DEF BetweenInv

-----------------------------------------------------------------------------
(* A frame that arrives whole behind another one.                          *)

\* Whole frames that are not too long and do not follow a cut one.
Sound(k) == Whole(k) /\ Fits(k) /\ (k = 1 \/ Whole(k - 1))

\* Inside of frame k, of message r behind place e: what is stored is the beginning
\* of the message, and the place on the line is where the rest of it begins, or
\* behind the escape byte there.
Reading(k, r, t, e) ==
  /\ head = TRUE
  /\ Len(data) <= Len(r) /\ \A x \in 1 .. Len(data) : data[x] = r[x]
  /\ Len(data) > 0 => from = k
  /\ Len(data) >= 4 => plen = Len(r)
  /\ \/ esc = FALSE /\ Pos = e + (t[Len(data)] + 1)
     \/ /\ esc = TRUE /\ Pos = e + (t[Len(data)] + 2)
        /\ Len(data) < Len(r) /\ r[Len(data) + 1] \in Special

Tracked(k) == Reading(k, HostRaw(items[k]), Places(HostRaw(items[k])), End(items, k - 1))

LEMMA EndPlaces ==
  ASSUME NEW a \in Nat, NEW b, NEW c \in Nat, b <= c, NEW l, l = c + 2
  PROVE  /\ b = a + 2 => a + 2 \in 1 .. l /\ a + 3 \in 1 .. l
         /\ b = a + 1 => a + 2 \in 1 .. l
  OBVIOUS

\* A whole frame on the line l, of message r, behind place e up to place z.
FrameAt(l, k, r, t, e, z) ==
  /\ e \in Nat /\ t[Len(r)] \in Nat /\ z = e + (t[Len(r)] + 2)
  /\ r \in Seq(Byte) /\ Len(r) \in Nat /\ Len(r) >= 6
  /\ BigEndian(r[3], r[4]) + 6 = Len(r) /\ DlFastchk16(r) = 0
  /\ t[0] = 0
  /\ l[e + 1].b = Header
  /\ l[e + (t[Len(r)] + 2)].b = Header
  /\ \A n \in 1 .. Len(r) :
       /\ t[n - 1] \in Nat /\ t[n] \in Nat /\ t[n] <= t[Len(r)]
       /\ r[n] \in Special =>
            /\ t[n] = t[n - 1] + 2
            /\ l[e + (t[n - 1] + 2)].b = Escape
            /\ l[e + (t[n - 1] + 3)] = [b |-> Flip[r[n]], src |-> k]
       /\ r[n] \notin Special =>
            /\ t[n] = t[n - 1] + 1
            /\ l[e + (t[n - 1] + 2)] = [b |-> r[n], src |-> k]

LEMMA WholeFrame ==
  ASSUME TypeOK, LineInv, NEW k \in DOMAIN items, Whole(k)
  PROVE  /\ FrameAt(LineOf(items), k, HostRaw(items[k]), Places(HostRaw(items[k])),
                    End(items, k - 1), End(items, k))
         /\ Len(HostRaw(items[k])) = Len(items[k].data) + 6
<1> DEFINE r == HostRaw(items[k])
           t == Places(r)
           e == End(items, k - 1)
           m == items[k]
           f == EncodeMsg(m)
           l == LineOf(items)
           N == Len(items)
<1>0. items \in Seq(Item) /\ Proper(items)
  BY DEF TypeOK, LineInv
<1>1. N \in Nat /\ k \in 1 .. N /\ k \in Nat /\ m \in Item /\ m.late = 0 /\ m.lost = 0
  BY <1>0 DEF Whole
<1>2. m.type < Word /\ Len(m.data) < Word
  BY <1>0 DEF Proper
<1>3. /\ r \in Seq(Byte) /\ Len(r) = Len(m.data) + 6
      /\ BigEndian(r[3], r[4]) = Len(m.data) /\ DlFastchk16(r) = 0
  BY <1>1, <1>2, RawFacts
<1>4. Len(m.data) \in Nat
  BY <1>1 DEF Item
<1>5. /\ f \in Seq(Byte)
      /\ t \in [0 .. Len(r) -> Nat] /\ t[0] = 0
      /\ Len(f) = t[Len(r)] + 2 /\ f[1] = Header /\ f[t[Len(r)] + 2] = Header
      /\ \A n \in 1 .. Len(r) :
           IF r[n] \in Special
           THEN t[n] = t[n - 1] + 2 /\ f[t[n - 1] + 2] = Escape /\ f[t[n - 1] + 3] = Flip[r[n]]
           ELSE t[n] = t[n - 1] + 1 /\ f[t[n - 1] + 2] = r[n]
  <2>1. Framed(f, r, t)
    BY <1>1, <1>2, FrameFacts, Zenon
  <2> HIDE DEF f
  <2> QED BY ONLY <2>1, Zenon DEF Framed
<1>6. /\ \A y \in 0 .. N : End(items, y) \in Nat
      /\ End(items, k) = End(items, k - 1) + Len(Sent(k, m))
      /\ \A x \in 1 .. Len(Sent(k, m)) : l[End(items, k - 1) + x] = Sent(k, m)[x]
  BY <1>0, <1>1, LineFacts
<1>7. Len(Sent(k, m)) = Len(f) /\ \A x \in 1 .. Len(f) : Sent(k, m)[x] = [b |-> f[x], src |-> k]
  BY <1>1, <1>2, SentFacts
<1>a. e = End(items, k - 1)
  OBVIOUS
<1> HIDE DEF m, f, l, N, r, t, e
<1>8. \A x \in 1 .. Len(f) : l[e + x] = [b |-> f[x], src |-> k]
  BY ONLY <1>6, <1>7, <1>a, Zenon
<1>9. Len(r) \in Nat /\ Len(r) >= 6 /\ BigEndian(r[3], r[4]) + 6 = Len(r) /\ 0 \in 0 .. Len(r) /\ Len(r) \in 0 .. Len(r)
  BY ONLY <1>3, <1>4
<1>10. e \in Nat /\ t[Len(r)] \in Nat /\ End(items, k) = e + (t[Len(r)] + 2)
  <2>1. k - 1 \in 0 .. N
    BY ONLY <1>1
  <2>2. t[Len(r)] \in Nat
    BY ONLY <1>5, <1>9
  <2> QED BY ONLY <1>5, <1>6, <1>7, <2>1, <2>2, <1>a, Zenon
<1>11. \A n \in 1 .. Len(r) : n - 1 \in 0 .. Len(r) /\ n \in 0 .. Len(r) /\ n <= Len(r)
  BY ONLY <1>9
<1>12. \A n \in 1 .. Len(r) : t[n - 1] \in Nat /\ t[n] \in Nat /\ t[n] <= t[Len(r)]
  <2>1. \A n \in 1 .. Len(r) : t[n - 1] \in Nat /\ t[n] \in Nat
    BY ONLY <1>5, <1>11
  <2>2. \A n \in 1 .. Len(r) : t[n - 1] <= t[n]
    <3> SUFFICES ASSUME NEW n \in 1 .. Len(r) PROVE t[n - 1] <= t[n]
      OBVIOUS
    <3>1. t[n] = t[n - 1] + 2 \/ t[n] = t[n - 1] + 1
      BY ONLY <1>5, n \in 1 .. Len(r), Zenon
    <3>2. t[n - 1] \in Nat
      BY ONLY <2>1, n \in 1 .. Len(r), Zenon
    <3> QED BY ONLY <3>1, <3>2
  <2>3. \A x, y \in 0 .. Len(r) : x <= y => t[x] <= t[y]
    BY ONLY <1>5, <1>9, <2>2, Grows
  <2> QED BY ONLY <1>9, <1>11, <2>1, <2>3, Zenon
<1>13. l[e + 1].b = Header /\ l[e + (t[Len(r)] + 2)].b = Header
  <2>1. Len(f) \in Nat /\ 1 \in 1 .. Len(f) /\ t[Len(r)] + 2 \in 1 .. Len(f)
    BY ONLY <1>5, <1>10
  <2>2. l[e + 1] = [b |-> f[1], src |-> k] /\ l[e + (t[Len(r)] + 2)] = [b |-> f[t[Len(r)] + 2], src |-> k]
    BY ONLY <1>8, <2>1, Zenon
  <2> QED BY ONLY <1>5, <2>2
<1>14. ASSUME NEW n \in 1 .. Len(r), r[n] \in Special
       PROVE  /\ t[n] = t[n - 1] + 2
              /\ l[e + (t[n - 1] + 2)].b = Escape
              /\ l[e + (t[n - 1] + 3)] = [b |-> Flip[r[n]], src |-> k]
  <2>1. t[n] = t[n - 1] + 2 /\ f[t[n - 1] + 2] = Escape /\ f[t[n - 1] + 3] = Flip[r[n]]
    BY <1>5, <1>14
  <2>2. t[n - 1] + 2 \in 1 .. Len(f) /\ t[n - 1] + 3 \in 1 .. Len(f)
    <3>1. t[n - 1] \in Nat /\ t[n] <= t[Len(r)] /\ t[Len(r)] \in Nat /\ Len(f) = t[Len(r)] + 2
      BY ONLY <1>5, <1>10, <1>12, n \in 1 .. Len(r), Zenon
    <3> QED BY ONLY <2>1, <3>1, EndPlaces, Zenon
  <2>3. /\ l[e + (t[n - 1] + 2)] = [b |-> f[t[n - 1] + 2], src |-> k]
        /\ l[e + (t[n - 1] + 3)] = [b |-> f[t[n - 1] + 3], src |-> k]
    BY ONLY <1>8, <2>2, Zenon
  <2> QED BY ONLY <2>1, <2>3
<1>15. ASSUME NEW n \in 1 .. Len(r), r[n] \notin Special
       PROVE  /\ t[n] = t[n - 1] + 1
              /\ l[e + (t[n - 1] + 2)] = [b |-> r[n], src |-> k]
  <2>1. t[n] = t[n - 1] + 1 /\ f[t[n - 1] + 2] = r[n]
    BY <1>5, <1>15
  <2>2. t[n - 1] + 2 \in 1 .. Len(f)
    <3>1. t[n - 1] \in Nat /\ t[n] <= t[Len(r)] /\ t[Len(r)] \in Nat /\ Len(f) = t[Len(r)] + 2
      BY ONLY <1>5, <1>10, <1>12, n \in 1 .. Len(r), Zenon
    <3> QED BY ONLY <2>1, <3>1, EndPlaces, Zenon
  <2>3. l[e + (t[n - 1] + 2)] = [b |-> f[t[n - 1] + 2], src |-> k]
    BY ONLY <1>8, <2>2, Zenon
  <2> QED BY ONLY <2>1, <2>3, Zenon
<1>16. \A n \in 1 .. Len(r) :
         /\ t[n - 1] \in Nat /\ t[n] \in Nat /\ t[n] <= t[Len(r)]
         /\ r[n] \in Special =>
              /\ t[n] = t[n - 1] + 2
              /\ l[e + (t[n - 1] + 2)].b = Escape
              /\ l[e + (t[n - 1] + 3)] = [b |-> Flip[r[n]], src |-> k]
         /\ r[n] \notin Special =>
              /\ t[n] = t[n - 1] + 1
              /\ l[e + (t[n - 1] + 2)] = [b |-> r[n], src |-> k]
  BY ONLY <1>12, <1>14, <1>15, Zenon
<1>17. FrameAt(l, k, r, t, e, End(items, k)) /\ Len(r) = Len(m.data) + 6
  BY ONLY <1>3, <1>5, <1>9, <1>10, <1>13, <1>16, Zenon DEF FrameAt
<1> QED BY <1>17 DEF l, m, r, t, e

\* Storing the next byte of a message that fits.
LEMMA PrefixGrows ==
  ASSUME TypeOK, BetweenInv, NEW r \in Seq(Byte), Len(r) >= 6,
         BigEndian(r[3], r[4]) + 6 = Len(r),
         Len(data) < Len(r), \A x \in 1 .. Len(data) : data[x] = r[x],
         Len(data) >= 4 => plen = Len(r), Stored = Append(data, r[Len(data) + 1])
  PROVE  /\ Len(Stored) = Len(data) + 1 /\ \A x \in 1 .. Len(data) + 1 : Stored[x] = r[x]
         /\ HasRoom /\ PlenOf(Stored) \in Nat
         /\ Len(r) <= MaxPkt => PlenOf(Stored) <= MaxPkt
         /\ Len(data) + 1 >= 4 => PlenOf(Stored) = Len(r)
<1> DEFINE n == Len(data)
<1>0. data \in Seq(Byte) /\ n \in Nat /\ Len(r) \in Nat /\ r[n + 1] \in Byte
  BY DEF TypeOK
<1>1. /\ Len(Stored) = n + 1 /\ Stored[n + 1] = r[n + 1]
      /\ \A x \in 1 .. n : Stored[x] = data[x]
  BY <1>0
<1>2. \A x \in 1 .. n + 1 : Stored[x] = r[x]
  <2> SUFFICES ASSUME NEW x \in 1 .. n + 1 PROVE Stored[x] = r[x]
    OBVIOUS
  <2>1. x \in 1 .. n \/ x = n + 1
    BY <1>0
  <2> QED BY <1>1, <2>1
<1>3. plen \in Nat /\ MaxPkt \in Nat /\ plen <= MaxPkt /\ (n < 4 => plen = 6)
  BY PacketAssumption DEF TypeOK, BetweenInv
<1>4. n <= 4 \/ plen = Len(r)
  BY <1>0
<1>5. HasRoom
  <2>1. n - (n % 2) < plen
    <3>1. CASE n < 4
      BY ONLY <1>0, <1>3, <3>1
    <3>2. CASE ~(n < 4)
      <4>1. plen = Len(r) /\ n < Len(r)
        BY <1>0, <3>2
      <4> QED BY ONLY <1>0, <4>1
    <3> QED BY <3>1, <3>2
  <2> QED BY <2>1 DEF HasRoom, nread
<1>6. CASE n + 1 = 4
  <2>1. Stored[3] = r[3] /\ Stored[4] = r[4]
    BY <1>0, <1>2, <1>6
  <2>2. PlenOf(Stored) = Len(r)
    BY <1>1, <1>6, <2>1 DEF PlenOf
  <2> QED BY <1>0, <1>1, <1>2, <1>5, <2>2
<1>7. CASE n + 1 # 4
  <2>1. PlenOf(Stored) = plen
    BY <1>1, <1>7 DEF PlenOf
  <2>2. n + 1 >= 4 => plen = Len(r)
    BY <1>0, <1>7
  <2> QED BY <1>1, <1>2, <1>3, <1>5, <2>1, <2>2
<1> QED BY <1>6, <1>7

LEMMA SameSeq ==
  ASSUME NEW S, NEW a \in Seq(S), NEW b \in Seq(S), Len(a) = Len(b), \A x \in 1 .. Len(a) : a[x] = b[x]
  PROVE  a = b
  OBVIOUS

LEMMA NextIndex ==
  ASSUME NEW n \in Nat, NEW m \in Nat, n < m
  PROVE  n + 1 <= m /\ n + 1 \in 1 .. m /\ (n + 1) - 1 = n
  OBVIOUS

LEMMA PlaceSums ==
  ASSUME NEW e \in Nat, NEW a \in Nat
  PROVE  /\ (e + (a + 1)) + 1 = e + (a + 2) /\ (e + (a + 2)) + 1 = e + (a + 3)
         /\ e + (a + 3) = e + ((a + 2) + 1) /\ e + (a + 2) = e + ((a + 1) + 1)
  OBVIOUS

\* The places behind a and b bytes of the message in the frame from e to z.
LEMMA FramePlaces ==
  ASSUME NEW e \in Nat, NEW a \in Nat, NEW b \in Nat, NEW z, z = e + (b + 2)
  PROVE  /\ a <= b => e + (a + 1) # z
         /\ a + 2 <= b => e + (a + 2) # z
  OBVIOUS

\* Inside of a frame every step goes one byte further in it and rejects nothing, and
\* its last byte returns the message, unless the message is too long.
LEMMA InsideStep ==
  ASSUME TypeOK, LineInv, BetweenInv, Next, GetChar,
         NEW k, NEW r, NEW t, NEW e, NEW z, FrameAt(LineOf(items), k, r, t, e, z),
         e < Pos, Pos < z, Reading(k, r, t, e)
  PROVE  /\ Len(r) <= MaxPkt =>
              /\ naks' = naks
              /\ Pos + 1 < z => Reading(k, r, t, e)' /\ delivered' = delivered
              /\ Pos + 1 = z => delivered' = Append(delivered, [src |-> k, raw |-> r])
         /\ Pos + 1 < z => Reading(k, r, t, e)' \/ head' = FALSE
<1> DEFINE l == LineOf(items)
           n == Len(data)
<1>1. Pos \in Nat /\ Pos' = Pos + 1 /\ Head(line) = l[Pos + 1]
  BY PlaceMoves
<1>2. /\ e \in Nat /\ t[Len(r)] \in Nat /\ z = e + (t[Len(r)] + 2)
      /\ r \in Seq(Byte) /\ Len(r) \in Nat /\ Len(r) >= 6
      /\ BigEndian(r[3], r[4]) + 6 = Len(r) /\ DlFastchk16(r) = 0
      /\ t[0] = 0
      /\ l[e + 1].b = Header
      /\ l[e + (t[Len(r)] + 2)].b = Header
  BY Zenon DEF FrameAt
<1>3. ASSUME NEW x \in 1 .. Len(r)
      PROVE  /\ t[x - 1] \in Nat /\ t[x] \in Nat /\ t[x] <= t[Len(r)]
             /\ r[x] \in Special =>
                  /\ t[x] = t[x - 1] + 2
                  /\ l[e + (t[x - 1] + 2)].b = Escape
                  /\ l[e + (t[x - 1] + 3)] = [b |-> Flip[r[x]], src |-> k]
             /\ r[x] \notin Special =>
                  /\ t[x] = t[x - 1] + 1
                  /\ l[e + (t[x - 1] + 2)] = [b |-> r[x], src |-> k]
  BY Zenon DEF FrameAt
<1>4. data \in Seq(Byte) /\ n \in Nat
  BY DEF TypeOK
<1> HIDE DEF l
<1>5. started
  <2>1. Pos > 0
    BY <1>1, <1>2
  <2> QED BY <2>1 DEF BetweenInv
<1>6. /\ head = TRUE
      /\ n <= Len(r) /\ \A x \in 1 .. n : data[x] = r[x]
      /\ n > 0 => from = k
      /\ n >= 4 => plen = Len(r)
      /\ \/ esc = FALSE /\ Pos = e + (t[n] + 1)
         \/ esc = TRUE /\ Pos = e + (t[n] + 2) /\ n < Len(r) /\ r[n + 1] \in Special
  BY DEF Reading
<1>7. ASSUME n < Len(r), NextByte \notin Special, esc => NextByte \in Escaped,
             (IF esc THEN Flip[NextByte] ELSE NextByte) = r[n + 1], Head(line).src = k,
             Pos + 1 = e + (t[n + 1] + 1)
      PROVE  /\ Len(r) <= MaxPkt => Reading(k, r, t, e)' /\ delivered' = delivered /\ naks' = naks
             /\ Reading(k, r, t, e)' \/ head' = FALSE
             /\ Pos + 1 # z
  <2>1. Stored = Append(data, r[n + 1])
    BY <1>7, Zenon DEF Stored
  <2>2. /\ Len(Stored) = n + 1 /\ \A x \in 1 .. n + 1 : Stored[x] = r[x]
        /\ HasRoom /\ PlenOf(Stored) \in Nat
        /\ Len(r) <= MaxPkt => PlenOf(Stored) <= MaxPkt
        /\ n + 1 >= 4 => PlenOf(Stored) = Len(r)
    BY <1>2, <1>6, <1>7, <2>1, PrefixGrows
  <2>3. /\ PlenOf(Stored) <= MaxPkt =>
             /\ data' = Stored /\ plen' = PlenOf(Stored) /\ esc' = FALSE
             /\ from' = (IF data = <<>> THEN Head(line).src ELSE from)
             /\ UNCHANGED <<started, head, delivered, naks>>
        /\ ~(PlenOf(Stored) <= MaxPkt) => head' = FALSE
    BY <1>5, <1>6, <1>7, <2>2, ByteStored
  <2>5. n + 1 <= Len(r) /\ n + 1 \in 1 .. Len(r)
    BY ONLY <1>2, <1>4, <1>7, NextIndex, Zenon
  <2>6. Pos + 1 # z
    <3>1. t[n + 1] \in Nat /\ t[n + 1] <= t[Len(r)]
      BY <1>3, <2>5
    <3>2. e + (t[n + 1] + 1) # z
      BY ONLY <1>2, <3>1, FramePlaces, Zenon
    <3> QED BY ONLY <1>7, <3>2, Zenon
  <2>7. Pos' = e + (t[n + 1] + 1)
    BY <1>1, <1>7
  <2>8. CASE PlenOf(Stored) <= MaxPkt
    <3>1. /\ data' = Stored /\ plen' = PlenOf(Stored) /\ esc' = FALSE
          /\ from' = (IF data = <<>> THEN Head(line).src ELSE from)
          /\ UNCHANGED <<started, head, delivered, naks>>
      BY <2>3, <2>8
    <3>2. from' = k
      <4>1. CASE data = <<>>
        BY <4>1, <1>7, <3>1
      <4>2. CASE data # <<>>
        <5>1. n > 0
          BY <1>4, <4>2
        <5> QED BY <5>1, <4>2, <1>6, <3>1
      <4> QED BY <4>1, <4>2
    <3>3. /\ head' = TRUE /\ Len(data') = n + 1 /\ Len(data') <= Len(r)
          /\ \A x \in 1 .. Len(data') : data'[x] = r[x]
          /\ Len(data') >= 4 => plen' = Len(r)
          /\ Pos' = e + (t[Len(data')] + 1)
      BY ONLY <1>6, <2>2, <2>5, <2>7, <3>1
    <3>4. Reading(k, r, t, e)'
      BY ONLY <3>1, <3>2, <3>3 DEF Reading
    <3> QED BY <2>6, <3>1, <3>4
  <2>9. CASE ~(PlenOf(Stored) <= MaxPkt)
    BY <2>2, <2>3, <2>6, <2>9
  <2> QED BY <2>8, <2>9
<1>8. CASE esc = FALSE /\ n = Len(r)
  <2>1. Pos + 1 = e + (t[Len(r)] + 2) /\ Pos + 1 = z
    <3>1. Pos = e + (t[Len(r)] + 1)
      BY <1>6, <1>8
    <3>2. (e + (t[Len(r)] + 1)) + 1 = e + (t[Len(r)] + 2)
      <4>1. e \in Nat /\ t[Len(r)] \in Nat
        BY <1>2
      <4> QED BY ONLY <4>1, PlaceSums, Zenon
    <3> QED BY ONLY <1>2, <3>1, <3>2, Zenon
  <2>2. NextByte = Header
    BY <1>1, <1>2, <2>1 DEF NextByte
  <2>3. data = r
    BY <1>2, <1>4, <1>6, <1>8, SameSeq
  <2>4. Complete /\ SumOK /\ n # 0 /\ from = k
    <3>1. n >= 6 /\ n >= 4 /\ n > 0
      BY ONLY <1>2, <1>8
    <3>2. plen = Len(r) /\ from = k
      BY ONLY <1>6, <3>1
    <3>3. Complete
      BY <1>2, <1>8, <3>2 DEF Complete, nread
    <3> QED BY <1>2, <2>3, <3>1, <3>2, <3>3 DEF SumOK
  <2>5. delivered' = Append(delivered, [src |-> from, raw |-> data]) /\ naks' = naks
    BY <1>5, <1>6, <1>8, <2>2, <2>4, FrameClosed
  <2>6. ~(Pos + 1 < z)
    BY ONLY <1>1, <2>1
  <2> QED BY ONLY <2>1, <2>3, <2>4, <2>5, <2>6, Zenon
<1>9. CASE esc = FALSE /\ n < Len(r)
  <2>1. n + 1 \in 1 .. Len(r) /\ (n + 1) - 1 = n
    BY ONLY <1>2, <1>4, <1>9, NextIndex, Zenon
  <2>2. /\ t[n] \in Nat /\ t[n + 1] \in Nat /\ t[n + 1] <= t[Len(r)]
        /\ r[n + 1] \in Special =>
             /\ t[n + 1] = t[n] + 2
             /\ l[e + (t[n] + 2)].b = Escape
        /\ r[n + 1] \notin Special =>
             /\ t[n + 1] = t[n] + 1
             /\ l[e + (t[n] + 2)] = [b |-> r[n + 1], src |-> k]
    BY <1>3, <2>1
  <2>3. Pos = e + (t[n] + 1) /\ Pos + 1 = e + (t[n] + 2)
    <3>1. Pos = e + (t[n] + 1)
      BY <1>6, <1>9
    <3>2. (e + (t[n] + 1)) + 1 = e + (t[n] + 2)
      <4>1. e \in Nat /\ t[n] \in Nat
        BY <1>2, <2>2
      <4> QED BY ONLY <4>1, PlaceSums, Zenon
    <3> QED BY ONLY <3>1, <3>2, Zenon
  <2>4. CASE r[n + 1] \in Special
    <3>1. NextByte = Escape
      BY <1>1, <2>2, <2>3, <2>4 DEF NextByte
    <3>2. esc' = TRUE /\ UNCHANGED <<started, head, data, plen, from, delivered, naks>>
      BY <1>5, <1>9, <3>1, EscapeTaken
    <3>3. Pos' = e + (t[n] + 2) /\ Pos + 1 # z
      <4>1. t[n + 1] = t[n] + 2
        BY <2>2, <2>4
      <4>2. t[n] \in Nat /\ t[n] + 2 <= t[Len(r)]
        BY ONLY <2>2, <4>1, Zenon
      <4>3. e + (t[n] + 2) # z
        BY ONLY <1>2, <4>2, FramePlaces, Zenon
      <4> QED BY ONLY <1>1, <2>3, <4>3, Zenon
    <3>4. Reading(k, r, t, e)'
      BY <1>6, <1>9, <2>4, <3>2, <3>3 DEF Reading
    <3> QED BY <3>2, <3>3, <3>4
  <2>5. CASE r[n + 1] \notin Special
    <3>1. Head(line) = [b |-> r[n + 1], src |-> k]
      BY <1>1, <2>2, <2>3, <2>5
    <3>2. NextByte = r[n + 1] /\ Head(line).src = k
      BY <3>1 DEF NextByte
    <3>3. Pos + 1 = e + (t[n + 1] + 1)
      <4>1. t[n + 1] = t[n] + 1
        BY <2>2, <2>5
      <4>2. e + (t[n] + 2) = e + ((t[n] + 1) + 1)
        <5>1. e \in Nat /\ t[n] \in Nat
          BY <1>2, <2>2
        <5> QED BY ONLY <5>1, PlaceSums, Zenon
      <4> QED BY ONLY <2>3, <4>1, <4>2, Zenon
    <3> QED BY <1>7, <1>9, <2>5, <3>2, <3>3
  <2> QED BY <2>4, <2>5
<1>10. CASE ~(esc = FALSE)
  <2>0. esc = TRUE /\ Pos = e + (t[n] + 2) /\ n < Len(r) /\ r[n + 1] \in Special
    BY <1>6, <1>10
  <2>1. n + 1 \in 1 .. Len(r) /\ (n + 1) - 1 = n
    BY ONLY <1>2, <1>4, <2>0, NextIndex, Zenon
  <2>2. /\ t[n] \in Nat /\ t[n + 1] = t[n] + 2
        /\ l[e + (t[n] + 3)] = [b |-> Flip[r[n + 1]], src |-> k]
    BY <1>3, <2>0, <2>1
  <2>3. Pos + 1 = e + (t[n] + 3) /\ Pos + 1 = e + (t[n + 1] + 1)
    <3>1. (e + (t[n] + 2)) + 1 = e + (t[n] + 3) /\ e + (t[n] + 3) = e + ((t[n] + 2) + 1)
      <4>1. e \in Nat /\ t[n] \in Nat
        BY <1>2, <2>2
      <4> QED BY ONLY <4>1, PlaceSums, Zenon
    <3> QED BY ONLY <2>0, <2>2, <3>1, Zenon
  <2>4. Head(line) = [b |-> Flip[r[n + 1]], src |-> k]
    BY <1>1, <2>2, <2>3
  <2>5. NextByte = Flip[r[n + 1]] /\ Head(line).src = k
    BY <2>4 DEF NextByte
  <2>6. NextByte \in Escaped /\ NextByte \notin Special /\ Flip[NextByte] = r[n + 1]
    BY <2>0, <2>5, SpecialFacts
  <2> QED BY <1>7, <2>0, <2>3, <2>5, <2>6
<1> QED
  <2>1. n = Len(r) \/ n < Len(r)
    BY <1>2, <1>4, <1>6
  <2> QED BY <1>8, <1>9, <1>10, <2>1

\* The same from the frame's header on, for a frame that arrived behind another one.
LEMMA FrameStep ==
  ASSUME TypeOK, LineInv, BetweenInv, Next, GetChar,
         NEW k, NEW r, NEW t, NEW e, NEW z, FrameAt(LineOf(items), k, r, t, e, z), Len(r) <= MaxPkt,
         e <= Pos, Pos < z,
         Pos = e => started /\ data = <<>> /\ esc = FALSE,
         Pos > e => Reading(k, r, t, e)
  PROVE  /\ naks' = naks
         /\ Pos + 1 < z => Reading(k, r, t, e)' /\ delivered' = delivered
         /\ Pos + 1 = z => delivered' = Append(delivered, [src |-> k, raw |-> r])
<1>1. Pos \in Nat /\ Pos' = Pos + 1 /\ Head(line) = LineOf(items)[Pos + 1]
  BY PlaceMoves
<1>2. /\ e \in Nat /\ t[Len(r)] \in Nat /\ z = e + (t[Len(r)] + 2)
      /\ r \in Seq(Byte) /\ Len(r) \in Nat /\ Len(r) >= 6
      /\ t[0] = 0
      /\ LineOf(items)[e + 1].b = Header
  BY Zenon DEF FrameAt
<1>5. CASE Pos = e
  <2>1. NextByte = Header /\ started /\ data = <<>> /\ esc = FALSE
    BY <1>1, <1>2, <1>5 DEF NextByte
  <2>2. head' = TRUE /\ UNCHANGED <<started, esc, data, plen, from, delivered, naks>>
    BY <2>1, HeaderBefore
  <2>3. Len(data') = 0 /\ data' = <<>> /\ esc' = FALSE
    BY <2>1, <2>2
  <2>4. Pos' = e + (t[Len(data')] + 1) /\ Pos + 1 # z
    BY <1>1, <1>2, <1>5, <2>3
  <2>5. Reading(k, r, t, e)'
    BY <1>2, <2>2, <2>3, <2>4 DEF Reading
  <2> QED BY <2>2, <2>4, <2>5
<1>6. CASE Pos > e
  BY <1>6, InsideStep
<1> QED
  <2>1. Pos = e \/ Pos > e
    BY ONLY <1>1, <1>2, e <= Pos
  <2> QED BY <1>5, <1>6, <2>1

-----------------------------------------------------------------------------
(* Every whole frame that fits and does not follow a cut one is returned.  *)

\* Such a frame is being read as long as the place is in it, and has been returned
\* when the place is behind it.
TrackInv ==
  \A k \in DOMAIN items : Sound(k) =>
    /\ End(items, k - 1) < Pos /\ Pos < End(items, k) => Tracked(k)
    /\ Pos >= End(items, k) => \E x \in DOMAIN delivered : delivered[x].src = k

\* What End gives for item k.
LEMMA Ends ==
  ASSUME TypeOK, LineInv, NEW k \in DOMAIN items
  PROVE  /\ k \in 1 .. Len(items) /\ k \in Nat
         /\ End(items, k) \in Nat /\ End(items, k - 1) \in Nat /\ End(items, k - 1) >= 4 /\ End(items, k) >= 4
         /\ End(items, k) <= Len(LineOf(items))
         /\ Whole(k) => End(items, k - 1) < End(items, k)
<1> DEFINE n == Len(items)
<1>1. items \in Seq(Item) /\ Proper(items) /\ n \in Nat
  BY DEF TypeOK, LineInv
<1>2. /\ Len(LineOf(items)) = End(items, n) /\ End(items, 0) = 4
      /\ \A x \in 0 .. n : End(items, x) \in Nat
      /\ \A x, y \in 0 .. n : x <= y => End(items, x) <= End(items, y)
  BY <1>1, LineFacts
<1>3. /\ k \in 1 .. n /\ k \in Nat /\ k \in 0 .. n /\ k - 1 \in 0 .. n /\ 0 \in 0 .. n /\ n \in 0 .. n
      /\ k <= n /\ 0 <= k /\ 0 <= k - 1
  BY <1>1
<1> HIDE DEF n
<1>4. /\ End(items, k) \in Nat /\ End(items, k - 1) \in Nat /\ End(items, k) <= End(items, n)
      /\ 4 <= End(items, k - 1) /\ 4 <= End(items, k)
  BY ONLY <1>2, <1>3, Zenon
<1>5. ASSUME Whole(k) PROVE End(items, k - 1) < End(items, k)
  <2>1. \E b \in Nat : End(items, k) = End(items, k - 1) + (b + 2)
    BY <1>5, WholeFrame DEF FrameAt
  <2> QED BY ONLY <1>4, <2>1
<1> QED BY <1>2, <1>3, <1>4, <1>5 DEF n

\* In front of such a frame is a header.
LEMMA BehindHeader ==
  ASSUME TypeOK, LineInv, BetweenInv, NEW k \in DOMAIN items, Sound(k), Pos = End(items, k - 1)
  PROVE  started /\ data = <<>> /\ esc = FALSE
<1>1. k \in 1 .. Len(items) /\ k \in Nat /\ End(items, k - 1) \in Nat /\ End(items, k - 1) >= 4
  BY Ends
<1>2. LineOf(items)[End(items, k - 1)].b = Header
  <2>1. CASE k = 1
    <3>1. k - 1 = 0
      BY <2>1
    <3>2. End(items, 0) = 4 /\ \A x \in 1 .. 4 : LineOf(items)[x].b = Header
      BY LineFacts DEF TypeOK, LineInv
    <3>3. 4 \in 1 .. 4
      OBVIOUS
    <3> QED BY ONLY <3>1, <3>2, <3>3, Zenon
  <2>2. CASE k # 1
    <3>1. Whole(k - 1)
      BY <2>2 DEF Sound
    <3>2. k - 1 \in DOMAIN items
      BY <1>1, <2>2 DEF TypeOK
    <3>3. FrameAt(LineOf(items), k - 1, HostRaw(items[k - 1]), Places(HostRaw(items[k - 1])),
                  End(items, (k - 1) - 1), End(items, k - 1))
      BY <3>1, <3>2, WholeFrame, Zenon
    <3> QED BY <3>3, Zenon DEF FrameAt
  <2> QED BY <2>1, <2>2
<1>3. Pos > 0
  BY <1>1
<1> QED BY <1>2, <1>3 DEF BetweenInv

\* A step in such a frame.
LEMMA SoundStep ==
  ASSUME TypeOK, LineInv, BetweenInv, TrackInv, Next, GetChar, NEW k \in DOMAIN items, Sound(k),
         End(items, k - 1) <= Pos, Pos < End(items, k)
  PROVE  /\ naks' = naks
         /\ Pos + 1 < End(items, k) => Tracked(k)' /\ delivered' = delivered
         /\ Pos + 1 = End(items, k) =>
              delivered' = Append(delivered, [src |-> k, raw |-> HostRaw(items[k])])
<1>1. PICK r, t, e, z : /\ r = HostRaw(items[k]) /\ t = Places(HostRaw(items[k]))
                        /\ e = End(items, k - 1) /\ z = End(items, k)
  OBVIOUS
<1>2. FrameAt(LineOf(items), k, r, t, e, z)
  <2>1. FrameAt(LineOf(items), k, HostRaw(items[k]), Places(HostRaw(items[k])), End(items, k - 1), End(items, k))
    BY WholeFrame, Zenon DEF Sound
  <2> QED BY ONLY <1>1, <2>1, Zenon
<1>3. Len(r) <= MaxPkt
  <2>1. Len(r) = Len(items[k].data) + 6
    BY <1>1, WholeFrame DEF Sound
  <2> QED BY <2>1 DEF Sound, Fits
<1>4. e <= Pos /\ Pos < z
  BY <1>1
<1>5. Pos = e => started /\ data = <<>> /\ esc = FALSE
  BY <1>1, BehindHeader
<1>6. Pos > e => Reading(k, r, t, e)
  <2>1. Pos > e => Tracked(k)
    <3>1. Pos \in Nat /\ e \in Nat
      BY <1>2, PlaceMoves DEF FrameAt
    <3>2. Pos > e => e < Pos
      BY <3>1
    <3> QED BY <3>2, <1>1, <1>4 DEF TrackInv
  <2> QED BY <1>1, <2>1, Zenon DEF Tracked
<1>7. /\ naks' = naks
      /\ Pos + 1 < z => Reading(k, r, t, e)' /\ delivered' = delivered
      /\ Pos + 1 = z => delivered' = Append(delivered, [src |-> k, raw |-> r])
  BY <1>2, <1>3, <1>4, <1>5, <1>6, FrameStep
<1>8. Reading(k, r, t, e)' => Tracked(k)'
  <2>1. items' = items
    BY PlaceMoves
  <2>2. /\ r = HostRaw(items[k])' /\ t = Places(HostRaw(items[k]))' /\ e = End(items, k - 1)'
    BY <1>1, <2>1
  <2> QED BY <2>2 DEF Tracked
<1> QED BY <1>1, <1>7, <1>8

LEMMA Appended ==
  ASSUME NEW S, NEW s \in Seq(S), NEW p \in S
  PROVE  /\ Len(Append(s, p)) = Len(s) + 1 /\ DOMAIN Append(s, p) = 1 .. Len(s) + 1
         /\ Append(s, p)[Len(s) + 1] = p
         /\ \A x \in DOMAIN s : x \in DOMAIN Append(s, p) /\ Append(s, p)[x] = s[x]
  OBVIOUS

\* What was returned stays returned.
LEMMA DeliveredGrows ==
  Next => delivered' = delivered \/ delivered' = Append(delivered, [src |-> from, raw |-> data])
  BY DEF Next, AwaitHeader, BadEscape, OpenFrame, CloseFrame, TakeEscape, SkipByte, StoreByte, Silence, Reject, vars

LEMMA TrackKept ==
  ASSUME TypeOK, LineInv, BetweenInv, TrackInv, Next, GetChar
  PROVE  TrackInv'
<1>1. Pos \in Nat /\ Pos' = Pos + 1 /\ items' = items
  BY PlaceMoves
<1> SUFFICES ASSUME NEW k \in DOMAIN items, Sound(k)
             PROVE  /\ End(items, k - 1) < Pos + 1 /\ Pos + 1 < End(items, k) => Tracked(k)'
                    /\ Pos + 1 >= End(items, k) => \E x \in DOMAIN delivered' : delivered'[x].src = k
  BY <1>1 DEF TrackInv, Sound, Whole, Fits
<1>2. /\ End(items, k) \in Nat /\ End(items, k - 1) \in Nat
      /\ End(items, k - 1) < End(items, k)
  BY Ends DEF Sound
<1>3. ASSUME End(items, k - 1) < Pos + 1, Pos + 1 < End(items, k) PROVE Tracked(k)'
  <2>1. End(items, k - 1) <= Pos /\ Pos < End(items, k)
    BY <1>1, <1>2, <1>3
  <2> QED BY <1>3, <2>1, SoundStep
<1>4. ASSUME Pos + 1 >= End(items, k) PROVE \E x \in DOMAIN delivered' : delivered'[x].src = k
  <2>0. delivered \in Seq([src : Nat, raw : Seq(Byte)]) /\ from \in Nat /\ data \in Seq(Byte)
    BY DEF TypeOK
  <2>1. CASE Pos >= End(items, k)
    <3>1. PICK x \in DOMAIN delivered : delivered[x].src = k
      BY <2>1 DEF TrackInv
    <3>2. x \in DOMAIN delivered' /\ delivered'[x] = delivered[x]
      <4>1. CASE delivered' = delivered
        BY <4>1
      <4>2. CASE delivered' = Append(delivered, [src |-> from, raw |-> data])
        <5>1. [src |-> from, raw |-> data] \in [src : Nat, raw : Seq(Byte)]
          BY <2>0
        <5> QED BY <2>0, <4>2, <5>1, Appended
      <4> QED BY <4>1, <4>2, DeliveredGrows
    <3> QED BY <3>1, <3>2
  <2>2. CASE ~(Pos >= End(items, k))
    <3>1. Pos + 1 = End(items, k) /\ End(items, k - 1) <= Pos /\ Pos < End(items, k)
      BY <1>1, <1>2, <1>4, <2>2
    <3>2. delivered' = Append(delivered, [src |-> k, raw |-> HostRaw(items[k])])
      BY <3>1, SoundStep
    <3>3. Len(delivered) + 1 \in DOMAIN delivered' /\ delivered'[Len(delivered) + 1] = [src |-> k, raw |-> HostRaw(items[k])]
      BY <2>0, <3>2
    <3> QED BY <3>3
  <2> QED BY <2>1, <2>2
<1> QED BY <1>3, <1>4

\* Every place behind the four headers is in an item.
LEMMA ItemAt ==
  ASSUME TypeOK, LineInv, NEW p \in Nat, 4 <= p, p < Len(LineOf(items))
  PROVE  \E k \in DOMAIN items : End(items, k - 1) <= p /\ p < End(items, k)
<1> DEFINE n == Len(items)
           T == {x \in 0 .. n : p < End(items, x)}
<1>1. items \in Seq(Item) /\ Proper(items) /\ n \in Nat /\ DOMAIN items = 1 .. n
  BY DEF TypeOK, LineInv
<1>2. /\ Len(LineOf(items)) = End(items, n) /\ End(items, 0) = 4
      /\ \A x \in 0 .. n : End(items, x) \in Nat
  BY <1>1, LineFacts
<1>3. n \in T /\ T \subseteq Nat
  BY <1>1, <1>2
<1>4. PICK k \in T : \A y \in T : k <= y
  <2> HIDE DEF T
  <2>1. T # {}
    BY <1>3
  <2> QED BY <1>3, <2>1, LeastNat
<1> HIDE DEF n
<1>5. k \in 0 .. n /\ p < End(items, k)
  OBVIOUS
<1>6. k # 0
  BY <1>2, <1>5
<1>7. k \in 1 .. n /\ k - 1 \in 0 .. n /\ ~(k <= k - 1)
  BY ONLY <1>1, <1>5, <1>6
<1>8. ~(p < End(items, k - 1))
  BY <1>4, <1>7
<1>9. End(items, k - 1) <= p
  <2>1. End(items, k - 1) \in Nat
    BY <1>2, <1>7
  <2> QED BY ONLY <1>8, <2>1, p \in Nat
<1> QED BY <1>1, <1>5, <1>7, <1>9

\* While the host sends whole frames that fit, no step rejects anything.
LEMMA QuietKept ==
  ASSUME TypeOK, LineInv, BetweenInv, TrackInv, NoFalseAlarm, Next, GetChar
  PROVE  NoFalseAlarm'
<1>1. Pos \in Nat /\ Pos < Len(LineOf(items)) /\ items' = items /\ Head(line) = LineOf(items)[Pos + 1]
  BY PlaceMoves
<1> SUFFICES ASSUME \A k \in DOMAIN items : Whole(k) /\ Fits(k) PROVE naks' = 0
  BY <1>1 DEF NoFalseAlarm, Whole, Fits
<1>2. naks = 0
  BY DEF NoFalseAlarm
<1>3. CASE 4 <= Pos
  <2>1. PICK k \in DOMAIN items : End(items, k - 1) <= Pos /\ Pos < End(items, k)
    BY <1>1, <1>3, ItemAt
  <2>2. k = 1 \/ k - 1 \in DOMAIN items
    BY DEF TypeOK
  <2>3. Sound(k)
    BY <2>2 DEF Sound
  <2> QED BY <1>2, <2>1, <2>3, SoundStep
<1>4. CASE ~(4 <= Pos)
  <2>1. \A x \in 1 .. 4 : LineOf(items)[x].b = Header
    BY LineFacts DEF TypeOK, LineInv
  <2>2. Pos + 1 \in 1 .. 4 /\ (Pos > 0 => Pos \in 1 .. 4)
    BY <1>1, <1>4
  <2>3. CASE ~started
    BY <1>2, <2>3 DEF Next, AwaitHeader, BadEscape, OpenFrame, CloseFrame, TakeEscape, SkipByte, StoreByte,
                      Silence, Take, GetChar
  <2>4. CASE started
    <3>1. Pos > 0
      BY <2>4 DEF BetweenInv
    <3>2. LineOf(items)[Pos].b = Header /\ NextByte = Header
      BY <1>1, <2>1, <2>2, <3>1 DEF NextByte
    <3>3. data = <<>> /\ esc = FALSE
      BY <3>1, <3>2 DEF BetweenInv
    <3> QED BY <1>2, <2>4, <3>2, <3>3, HeaderBefore
  <2> QED BY <2>3, <2>4
<1> QED BY <1>3, <1>4

-----------------------------------------------------------------------------
(* Where the headers are, and which packet a byte belongs to, for frames   *)
(* that are cut as well.                                                   *)

LEMMA TwoPlaces ==
  ASSUME NEW a \in Nat, NEW b \in Nat, NEW q \in Nat, ~(q <= a + 1), q <= b + 1
  PROVE  /\ b = a + 2 => q = a + 2 \/ q = a + 3
         /\ b = a + 1 => q = a + 2
  OBVIOUS

\* Between its two headers a frame has none.
LEMMA HeaderFree ==
  ASSUME NEW r \in Seq(Byte), NEW f, NEW t, Framed(f, r, t), NEW q \in Nat, 1 < q, q < Len(f)
  PROVE  f[q] # Header
<1> DEFINE N == Len(r)
           T == {x \in 0 .. N : q <= t[x] + 1}
<1>1. /\ N \in Nat /\ t \in [0 .. N -> Nat] /\ t[0] = 0 /\ Len(f) = t[N] + 2
      /\ \A n \in 1 .. N :
           IF r[n] \in Special
           THEN t[n] = t[n - 1] + 2 /\ f[t[n - 1] + 2] = Escape /\ f[t[n - 1] + 3] = Flip[r[n]]
           ELSE t[n] = t[n - 1] + 1 /\ f[t[n - 1] + 2] = r[n]
  BY DEF Framed
<1> HIDE DEF N
<1>2. N \in T /\ T \subseteq Nat
  <2>1. t[N] \in Nat /\ N \in 0 .. N
    BY <1>1
  <2>2. q <= t[N] + 1
    BY ONLY <1>1, <2>1, q \in Nat, q < Len(f)
  <2> QED BY <1>1, <2>1, <2>2
<1>3. PICK n \in T : \A y \in T : n <= y
  <2> HIDE DEF T
  <2>1. T # {}
    BY <1>2
  <2> QED BY <1>2, <2>1, LeastNat
<1>4. n \in 0 .. N /\ q <= t[n] + 1
  OBVIOUS
<1>5. n # 0
  BY <1>1, <1>4
<1>6. n \in 1 .. N /\ n - 1 \in 0 .. N /\ ~(n <= n - 1)
  BY ONLY <1>1, <1>4, <1>5
<1>7. ~(q <= t[n - 1] + 1)
  BY <1>3, <1>6
<1>8. t[n - 1] \in Nat /\ t[n] \in Nat
  BY <1>1, <1>4, <1>6
<1>9. CASE r[n] \in Special
  <2>1. t[n] = t[n - 1] + 2 /\ f[t[n - 1] + 2] = Escape /\ f[t[n - 1] + 3] = Flip[r[n]]
    BY <1>1, <1>6, <1>9
  <2>2. q = t[n - 1] + 2 \/ q = t[n - 1] + 3
    BY ONLY <1>4, <1>7, <1>8, <2>1, q \in Nat, TwoPlaces, Zenon
  <2>3. Escape # Header /\ Flip[r[n]] # Header
    BY <1>9, SpecialFacts
  <2> QED BY ONLY <2>1, <2>2, <2>3, Zenon
<1>10. CASE r[n] \notin Special
  <2>1. t[n] = t[n - 1] + 1 /\ f[t[n - 1] + 2] = r[n]
    BY <1>1, <1>6, <1>10
  <2>2. q = t[n - 1] + 2
    BY ONLY <1>4, <1>7, <1>8, <2>1, q \in Nat, TwoPlaces, Zenon
  <2>3. r[n] # Header
    BY <1>10, SpecialFacts
  <2> QED BY ONLY <2>1, <2>2, <2>3, Zenon
<1> QED BY <1>9, <1>10

LEMMA Middle ==
  ASSUME NEW a \in Nat, NEW b \in Nat, NEW l \in Nat, NEW x \in Nat, NEW y \in Nat, NEW z \in Nat,
         1 <= x, x < y, y < z, z <= l - a - b
  PROVE  y + b \in Nat /\ 1 < y + b /\ y + b < l /\ y \in 1 .. l - a - b
  OBVIOUS

\* The bytes of an item say whose they are, and only its first and its last byte can
\* be a header.
LEMMA SentMiddle ==
  ASSUME NEW k \in Nat, NEW m \in Item, m.type < Word, Len(m.data) < Word
  PROVE  /\ \A x \in 1 .. Len(Sent(k, m)) : Sent(k, m)[x].src = k
         /\ \A x, y, z \in Nat :
              1 <= x /\ x < y /\ y < z /\ z <= Len(Sent(k, m)) => Sent(k, m)[y].b # Header
<1> DEFINE f == EncodeMsg(m)
           r == HostRaw(m)
           t == Places(r)
           n == Len(f) - m.lost - m.late
           s == [x \in 1 .. n |-> [b |-> f[x + m.late], src |-> k]]
<1>1. f \in Seq(Byte) /\ Framed(f, r, t) /\ r \in Seq(Byte)
  BY FrameFacts, RawFacts DEF Framed
<1>2. Sent(k, m) = s
  BY DEF Sent
<1> HIDE DEF f, r, t
<1>3. m.late \in Nat /\ m.lost \in Nat /\ Len(f) \in Nat /\ n \in Int
  BY <1>1 DEF Item
<1>4. CASE n \in Nat
  <2>1. Len(s) = n
    BY <1>4
  <2>2. \A x \in 1 .. n : s[x].b = f[x + m.late] /\ s[x].src = k
    OBVIOUS
  <2> HIDE DEF s
  <2>3. ASSUME NEW x \in Nat, NEW y \in Nat, NEW z \in Nat, 1 <= x, x < y, y < z, z <= n
        PROVE  s[y].b # Header
    <3>1. y + m.late \in Nat /\ 1 < y + m.late /\ y + m.late < Len(f) /\ y \in 1 .. n
      BY ONLY <1>3, <2>3, Middle
    <3> HIDE DEF n
    <3>2. f[y + m.late] # Header
      BY ONLY <1>1, <3>1, HeaderFree, Zenon
    <3>3. s[y].b = f[y + m.late]
      BY ONLY <2>2, <3>1, Zenon
    <3> QED BY ONLY <3>2, <3>3, Zenon
  <2> HIDE DEF n
  <2>4. \A x \in 1 .. n : s[x].src = k
    BY ONLY <2>2, Zenon
  <2> QED BY ONLY <1>2, <2>1, <2>3, <2>4, Zenon
<1>5. CASE n \notin Nat
  <2>1. 1 .. n = {}
    BY <1>3, <1>5
  <2>2. s = <<>>
    BY <2>1
  <2> HIDE DEF s
  <2>3. Len(s) = 0
    BY <2>2
  <2>4. \A x, z \in Nat : ~(1 <= x /\ x < z /\ z <= 0)
    OBVIOUS
  <2>5. \A x, y, z \in Nat : ~(1 <= x /\ x < y /\ y < z /\ z <= 0)
    OBVIOUS
  <2>6. \A x \in 1 .. 0 : s[x].src = k
    OBVIOUS
  <2> QED BY ONLY <1>2, <2>3, <2>5, <2>6, Zenon
<1> QED BY <1>4, <1>5

\* A place that is in item k.
In(k, p) == End(items, k - 1) < p /\ p <= End(items, k)

LEMMA Relative ==
  ASSUME NEW e \in Nat, NEW n \in Nat, NEW p \in Nat, e < p, p <= e + n
  PROVE  /\ p - e \in Nat /\ 1 <= p - e /\ p - e <= n /\ p - e \in 1 .. n /\ e + (p - e) = p
         /\ \A q \in Nat : p < q => p - e < q - e
  OBVIOUS

\* The same on the line.
LEMMA LineMiddle ==
  ASSUME TypeOK, LineInv, NEW k \in DOMAIN items
  PROVE  /\ \A p \in Nat : In(k, p) => LineOf(items)[p].src = k
         /\ \A p, q, s \in Nat : In(k, p) /\ p < q /\ q < s /\ In(k, s) => LineOf(items)[q].b # Header
<1> DEFINE m == items[k]
           l == LineOf(items)
           e == End(items, k - 1)
           v == Sent(k, m)
           n == Len(v)
<1>0. items \in Seq(Item) /\ Proper(items) /\ k \in 1 .. Len(items) /\ k \in Nat
  BY DEF TypeOK, LineInv
<1>1. m \in Item /\ m.type < Word /\ Len(m.data) < Word
  BY <1>0 DEF Proper
<1>2. /\ \A x \in 1 .. n : v[x].src = k
      /\ \A x, y, z \in Nat : 1 <= x /\ x < y /\ y < z /\ z <= n => v[y].b # Header
  BY <1>0, <1>1, SentMiddle
<1>3. v \in Seq(LineByte)
  BY <1>0, <1>1, SentFacts
<1>4. e \in Nat
  BY Ends
<1>5. End(items, k) = e + n /\ \A x \in 1 .. n : l[e + x] = v[x]
  BY <1>0, LineFacts
<1> HIDE DEF m, l, e, v
<1>6. n \in Nat
  BY <1>3
<1> HIDE DEF n
<1>7. ASSUME NEW p \in Nat, In(k, p)
      PROVE  /\ p - e \in Nat /\ 1 <= p - e /\ p - e <= n /\ p - e \in 1 .. n /\ e + (p - e) = p
             /\ \A q \in Nat : p < q => p - e < q - e
  <2>1. e < p /\ p <= e + n
    BY <1>5, <1>7 DEF In, e
  <2> QED BY ONLY <1>4, <1>6, <2>1, p \in Nat, Relative, Zenon
<1>8. ASSUME NEW p \in Nat, In(k, p) PROVE l[p].src = k
  <2>1. p - e \in 1 .. n /\ e + (p - e) = p
    BY <1>7, <1>8
  <2> QED BY ONLY <1>2, <1>5, <2>1, Zenon
<1>9. ASSUME NEW p \in Nat, NEW q \in Nat, NEW s \in Nat, In(k, p), p < q, q < s, In(k, s)
      PROVE  l[q].b # Header
  <2>1. In(k, q)
    <3>1. e < p /\ s <= e + n
      BY <1>5, <1>9 DEF In, e
    <3>2. e < q /\ q <= e + n
      BY ONLY <1>4, <1>6, <3>1, <1>9
    <3> QED BY <1>5, <3>2 DEF In, e
  <2>2. p - e \in Nat /\ 1 <= p - e /\ p - e < q - e
    BY ONLY <1>7, <1>9, Zenon
  <2>3. q - e \in Nat /\ q - e < s - e /\ q - e \in 1 .. n /\ e + (q - e) = q
    BY ONLY <1>7, <1>9, <2>1, Zenon
  <2>4. s - e \in Nat /\ s - e <= n
    BY ONLY <1>7, <1>9, Zenon
  <2>5. v[q - e].b # Header
    BY ONLY <1>2, <2>2, <2>3, <2>4, Zenon
  <2>6. l[q] = v[q - e]
    BY ONLY <1>5, <2>3, Zenon
  <2> QED BY ONLY <2>5, <2>6, Zenon
<1> QED BY <1>8, <1>9 DEF l

\* What is stored began with a byte of item from, and no header came since.
FromInv ==
  data # <<>> =>
    /\ from \in DOMAIN items
    /\ \E p \in Nat :
         /\ In(from, p) /\ p <= Pos
         /\ \A q \in Nat : p <= q /\ q <= Pos => LineOf(items)[q].b # Header

\* What a step can store.
LEMMA StoreKinds ==
  ASSUME Next, data' # <<>>
  PROVE  \/ data' = data /\ from' = from
         \/ from' = (IF data = <<>> THEN Head(line).src ELSE from)
  BY DEF Next, AwaitHeader, BadEscape, OpenFrame, CloseFrame, TakeEscape, SkipByte, StoreByte, Silence, Reject,
         Restart, vars

\* A byte that is stored is no header.
LEMMA StoredNoHeader ==
  ASSUME TypeOK, BetweenInv, Next, GetChar, data' # <<>>
  PROVE  NextByte # Header
<1>1. esc \in BOOLEAN /\ (Len(data) = 0 => data = <<>>)
  BY DEF TypeOK
<1> QED BY <1>1, HeaderAnywhere DEF BetweenInv

LEMMA FromKept ==
  ASSUME TypeOK, LineInv, BetweenInv, FromInv, Next, GetChar
  PROVE  FromInv'
<1>1. /\ Pos \in Nat /\ Pos < Len(LineOf(items)) /\ Pos' = Pos + 1 /\ items' = items
      /\ Head(line) = LineOf(items)[Pos + 1]
  BY PlaceMoves
<1> SUFFICES ASSUME data' # <<>>
             PROVE  /\ from' \in DOMAIN items
                    /\ \E p \in Nat :
                         /\ In(from', p) /\ p <= Pos + 1
                         /\ \A q \in Nat : p <= q /\ q <= Pos + 1 => LineOf(items)[q].b # Header
  BY <1>1 DEF FromInv, In
<1>2. NextByte # Header
  BY StoredNoHeader
<1>3. LineOf(items)[Pos + 1].b # Header
  BY <1>1, <1>2 DEF NextByte
<1>4. CASE data # <<>>
  <2>1. from' = from
    BY <1>4, StoreKinds
  <2>2. PICK p \in Nat : /\ In(from, p) /\ p <= Pos
                         /\ \A q \in Nat : p <= q /\ q <= Pos => LineOf(items)[q].b # Header
    BY <1>4 DEF FromInv
  <2>3. from \in DOMAIN items
    BY <1>4 DEF FromInv
  <2>4. ASSUME NEW q \in Nat, p <= q, q <= Pos + 1 PROVE LineOf(items)[q].b # Header
    <3>1. q <= Pos \/ q = Pos + 1
      BY ONLY <1>1, <2>4
    <3> QED BY ONLY <1>3, <2>2, <2>4, <3>1, Zenon
  <2>5. p <= Pos + 1
    BY <1>1, <2>2
  <2> QED BY ONLY <2>1, <2>2, <2>3, <2>4, <2>5, Zenon
<1>5. CASE data = <<>>
  <2>1. from' = Head(line).src
    BY <1>5, StoreKinds
  <2>2. 4 <= Pos
    <3>1. \A x \in 1 .. 4 : LineOf(items)[x].b = Header
      BY LineFacts DEF TypeOK, LineInv
    <3>2. Pos + 1 \notin 1 .. 4
      BY ONLY <1>3, <3>1, Zenon
    <3> QED BY ONLY <1>1, <3>2
  <2>3. PICK k \in DOMAIN items : End(items, k - 1) <= Pos /\ Pos < End(items, k)
    BY <1>1, <2>2, ItemAt
  <2>4. In(k, Pos + 1)
    <3>1. End(items, k - 1) \in Nat /\ End(items, k) \in Nat
      BY Ends
    <3>2. End(items, k - 1) < Pos + 1 /\ Pos + 1 <= End(items, k)
      BY ONLY <1>1, <2>3, <3>1
    <3> QED BY <3>2 DEF In
  <2>5. Pos + 1 \in Nat /\ Pos + 1 <= Pos + 1 /\ \A q \in Nat : Pos + 1 <= q /\ q <= Pos + 1 => q = Pos + 1
    BY ONLY <1>1
  <2>6. LineOf(items)[Pos + 1].src = k
    BY ONLY <2>4, <2>5, LineMiddle, TypeOK, LineInv, <2>3, Zenon
  <2>7. from' = k
    BY ONLY <1>1, <2>1, <2>6, Zenon
  <2>8. \A q \in Nat : Pos + 1 <= q /\ q <= Pos + 1 => LineOf(items)[q].b # Header
    BY ONLY <1>3, <2>5, Zenon
  <2> QED BY ONLY <2>3, <2>4, <2>5, <2>7, <2>8, Zenon
<1> QED BY <1>4, <1>5

\* Inside of a frame that arrived whole the FDL reads it or has given it up.
WholeInv ==
  \A k \in DOMAIN items :
    Whole(k) /\ End(items, k - 1) < Pos /\ Pos < End(items, k) => head = FALSE \/ Tracked(k)

LEMMA StaysOut ==
  ASSUME Next, head = FALSE, NextByte # Header
  PROVE  head' = FALSE
  BY DEF Next, AwaitHeader, BadEscape, OpenFrame, CloseFrame, TakeEscape, SkipByte, StoreByte, Silence, Reject,
         Restart, vars

LEMMA WholeKept ==
  ASSUME TypeOK, TypeOK', LineInv, BetweenInv, WholeInv, Next, GetChar
  PROVE  WholeInv'
<1>1. /\ Pos \in Nat /\ Pos' = Pos + 1 /\ items' = items
      /\ Head(line) = LineOf(items)[Pos + 1]
  BY PlaceMoves
<1> SUFFICES ASSUME NEW k \in DOMAIN items, Whole(k), End(items, k - 1) < Pos + 1, Pos + 1 < End(items, k)
             PROVE  head' = FALSE \/ Tracked(k)'
  BY <1>1 DEF WholeInv, Whole
<1>2. PICK r, t, e, z : /\ r = HostRaw(items[k]) /\ t = Places(HostRaw(items[k]))
                        /\ e = End(items, k - 1) /\ z = End(items, k)
  OBVIOUS
<1>3. FrameAt(LineOf(items), k, r, t, e, z)
  <2>1. FrameAt(LineOf(items), k, HostRaw(items[k]), Places(HostRaw(items[k])), End(items, k - 1), End(items, k))
    BY WholeFrame, Zenon
  <2> QED BY ONLY <1>2, <2>1, Zenon
<1>4. e \in Nat /\ z \in Nat /\ t[0] = 0 /\ Len(r) >= 6 /\ LineOf(items)[e + 1].b = Header
  <2>1. e \in Nat /\ t[0] = 0 /\ Len(r) >= 6 /\ LineOf(items)[e + 1].b = Header
    BY <1>3, Zenon DEF FrameAt
  <2>2. z \in Nat
    BY <1>2, Ends
  <2> QED BY <2>1, <2>2
<1>5. Reading(k, r, t, e)' => Tracked(k)'
  <2>1. /\ r = HostRaw(items[k])' /\ t = Places(HostRaw(items[k]))' /\ e = End(items, k - 1)'
    BY <1>1, <1>2
  <2> QED BY <2>1 DEF Tracked
<1>6. CASE Pos = e
  <2>1. NextByte = Header
    BY <1>1, <1>4, <1>6 DEF NextByte
  <2>2. data' = <<>> /\ esc' = FALSE
    <3>1. esc \in BOOLEAN /\ (Len(data) = 0 => data = <<>>)
      BY DEF TypeOK
    <3> QED BY <2>1, <3>1, HeaderAnywhere DEF BetweenInv
  <2>3. CASE head' = TRUE
    <3>1. Len(data') = 0
      BY <2>2
    <3>2. Pos' = e + (t[Len(data')] + 1)
      BY <1>1, <1>4, <1>6, <3>1
    <3>3. Reading(k, r, t, e)'
      BY <1>4, <2>2, <2>3, <3>1, <3>2 DEF Reading
    <3> QED BY <1>5, <3>3
  <2> QED BY <2>3 DEF TypeOK
<1>7. CASE Pos # e
  <2>1. e < Pos /\ Pos < z /\ Pos + 1 < z
    BY <1>1, <1>2, <1>4, <1>7
  <2>2. CASE Tracked(k)
    <3>1. Reading(k, r, t, e)
      BY <1>2, <2>2, Zenon DEF Tracked
    <3>2. Reading(k, r, t, e)' \/ head' = FALSE
      BY <1>3, <2>1, <3>1, InsideStep
    <3> QED BY <1>5, <3>2
  <2>3. CASE head = FALSE
    <3>1. In(k, Pos) /\ In(k, z) /\ Pos < Pos + 1
      BY <1>1, <1>2, <1>4, <2>1 DEF In
    <3>2. LineOf(items)[Pos + 1].b # Header
      <4>1. Pos \in Nat /\ Pos + 1 \in Nat /\ z \in Nat
        BY <1>1, <1>4
      <4> QED BY ONLY <2>1, <3>1, <4>1, TypeOK, LineInv, k \in DOMAIN items, LineMiddle, Zenon
    <3>3. NextByte # Header
      BY <1>1, <3>2 DEF NextByte
    <3> QED BY <2>3, <3>3, StaysOut
  <2>4. head = FALSE \/ Tracked(k)
    BY <1>2, <2>1 DEF WholeInv
  <2> QED BY <2>2, <2>3, <2>4
<1> QED BY <1>6, <1>7

\* The packets returned come from different items, in the order of the line.
InOrder == \A i, j \in DOMAIN delivered : i < j => delivered[i].src < delivered[j].src

\* A packet that began in a frame which arrived whole is the message of that frame.
Unaltered ==
  \A i \in DOMAIN delivered :
    /\ delivered[i].src \in DOMAIN items
    /\ Whole(delivered[i].src) => delivered[i].raw = HostRaw(items[delivered[i].src])

\* A header came behind the first byte of every packet returned.
ClosedInv ==
  \A i \in DOMAIN delivered :
    \E p, q \in Nat :
      /\ End(items, delivered[i].src - 1) < p /\ p < q /\ q <= Pos
      /\ LineOf(items)[q].b = Header

\* A step that returns something: the header behind a packet.
LEMMA ReturnKinds ==
  ASSUME Next, TypeOK
  PROVE  \/ delivered' = delivered
         \/ /\ delivered' = Append(delivered, [src |-> from, raw |-> data])
            /\ head = TRUE /\ esc = FALSE /\ NextByte = Header /\ data # <<>>
<1>1. CASE CloseFrame
  <2>1. head = TRUE /\ esc = FALSE /\ NextByte = Header
    BY <1>1, SpecialFacts DEF CloseFrame, Take, TypeOK
  <2>2. data # <<>>
    BY <1>1 DEF CloseFrame, nread
  <2> QED BY <1>1, <2>1, <2>2 DEF CloseFrame, Reject
<1>2. CASE ~CloseFrame
  BY <1>2 DEF Next, AwaitHeader, BadEscape, OpenFrame, TakeEscape, SkipByte, StoreByte, Silence, Reject, vars
<1> QED BY <1>1, <1>2

LEMMA LastPlace ==
  ASSUME NEW e \in Nat, NEW a \in Nat, NEW b \in Nat, (e + (a + 1)) + 1 = e + (b + 2)
  PROVE  a = b
  OBVIOUS

\* In front of the last byte of a whole frame that the FDL reads, everything but that
\* byte is stored.
LEMMA AllRead ==
  ASSUME TypeOK, NEW k, NEW r, NEW t, NEW e, NEW z, FrameAt(LineOf(items), k, r, t, e, z),
         Reading(k, r, t, e), esc = FALSE, Pos + 1 = z
  PROVE  data = r
<1> DEFINE n == Len(data)
<1>1. /\ e \in Nat /\ t[Len(r)] \in Nat /\ z = e + (t[Len(r)] + 2)
      /\ r \in Seq(Byte) /\ Len(r) \in Nat
      /\ t[0] = 0
      /\ \A x \in 1 .. Len(r) :
           /\ t[x - 1] \in Nat /\ t[x] \in Nat /\ t[x] <= t[Len(r)]
           /\ r[x] \in Special => t[x] = t[x - 1] + 2
           /\ r[x] \notin Special => t[x] = t[x - 1] + 1
  BY Zenon DEF FrameAt
<1>2. data \in Seq(Byte) /\ n \in Nat
  BY DEF TypeOK
<1>3. n <= Len(r) /\ (\A x \in 1 .. n : data[x] = r[x]) /\ Pos = e + (t[n] + 1)
  BY DEF Reading
<1>4. CASE n < Len(r)
  <2>1. n + 1 \in 1 .. Len(r) /\ (n + 1) - 1 = n
    BY ONLY <1>1, <1>2, <1>4, NextIndex, Zenon
  <2>2. /\ t[n] \in Nat /\ t[n + 1] \in Nat /\ t[n + 1] <= t[Len(r)]
        /\ (t[n + 1] = t[n] + 2 \/ t[n + 1] = t[n] + 1)
    BY ONLY <1>1, <2>1, Zenon
  <2>3. t[n] = t[Len(r)]
    <3>1. e \in Nat /\ t[n] \in Nat /\ t[Len(r)] \in Nat /\ z = e + (t[Len(r)] + 2)
      BY ONLY <1>1, <2>2, Zenon
    <3>2. Pos = e + (t[n] + 1) /\ Pos + 1 = z
      BY <1>3
    <3>3. (e + (t[n] + 1)) + 1 = e + (t[Len(r)] + 2)
      BY ONLY <3>1, <3>2, Zenon
    <3> QED BY ONLY <3>1, <3>3, LastPlace, Zenon
  <2> QED BY ONLY <1>1, <2>2, <2>3
<1>5. CASE n = Len(r)
  BY ONLY <1>1, <1>2, <1>3, <1>5, SameSeq, Zenon
<1> QED BY ONLY <1>1, <1>2, <1>3, <1>4, <1>5

\* What a step returns that began in a whole frame is its message.
LEMMA ReturnedWhole ==
  ASSUME TypeOK, LineInv, FromInv, WholeInv, GetChar, data # <<>>, head = TRUE, esc = FALSE,
         NextByte = Header, Whole(from)
  PROVE  data = HostRaw(items[from])
<1>1. Pos \in Nat /\ Head(line) = LineOf(items)[Pos + 1] /\ from \in DOMAIN items
  BY PlaceMoves DEF FromInv
<1>2. PICK k, r, t, e, z : /\ k = from /\ r = HostRaw(items[k]) /\ t = Places(HostRaw(items[k]))
                           /\ e = End(items, k - 1) /\ z = End(items, k)
  OBVIOUS
<1>3. FrameAt(LineOf(items), k, r, t, e, z)
  <2>1. FrameAt(LineOf(items), from, HostRaw(items[from]), Places(HostRaw(items[from])),
                End(items, from - 1), End(items, from))
    BY <1>1, WholeFrame, Zenon
  <2> QED BY ONLY <1>2, <2>1, Zenon
<1>4. e \in Nat /\ z \in Nat /\ LineOf(items)[z].b = Header
  <2>1. e \in Nat /\ LineOf(items)[z].b = Header
    BY <1>3, Zenon DEF FrameAt
  <2>2. z \in Nat
    BY <1>1, <1>2, Ends
  <2> QED BY <2>1, <2>2
<1>5. PICK p \in Nat : /\ In(k, p) /\ p <= Pos
                       /\ \A q \in Nat : p <= q /\ q <= Pos => LineOf(items)[q].b # Header
  BY <1>2 DEF FromInv
<1>6. e < p /\ p <= z
  BY <1>2, <1>5 DEF In
<1>7. ~(z <= Pos)
  BY ONLY <1>4, <1>5, <1>6, Zenon
<1>8. e < Pos /\ Pos < z
  BY ONLY <1>1, <1>4, <1>5, <1>6, <1>7
<1>9. Pos + 1 = z
  <2>1. CASE Pos + 1 < z
    <3>1. In(k, Pos) /\ In(k, z) /\ Pos < Pos + 1
      BY <1>1, <1>2, <1>4, <1>8 DEF In
    <3>2. LineOf(items)[Pos + 1].b # Header
      <4>1. Pos \in Nat /\ Pos + 1 \in Nat /\ z \in Nat /\ k \in DOMAIN items
        BY <1>1, <1>2, <1>4
      <4> QED BY ONLY <2>1, <3>1, <4>1, TypeOK, LineInv, LineMiddle, Zenon
    <3> QED BY <1>1, <3>2 DEF NextByte
  <2> QED BY ONLY <1>1, <1>4, <1>8, <2>1
<1>10. Tracked(from)
  BY <1>1, <1>2, <1>8 DEF WholeInv
<1>11. Reading(k, r, t, e)
  BY <1>2, <1>10, Zenon DEF Tracked
<1>12. data = r
  BY ONLY TypeOK, <1>3, <1>11, esc = FALSE, <1>9, AllRead, Zenon
<1> QED BY <1>2, <1>12

\* What a step returns began in a later item than everything before it.
LEMMA ReturnedLater ==
  ASSUME TypeOK, LineInv, FromInv, Unaltered, ClosedInv, data # <<>>, NEW i \in DOMAIN delivered
  PROVE  delivered[i].src < from
<1> DEFINE s == delivered[i].src
           l == LineOf(items)
<1>1. from \in DOMAIN items /\ s \in DOMAIN items
  BY DEF FromInv, Unaltered
<1>2. PICK a \in Nat : /\ In(from, a) /\ a <= Pos
                       /\ \A q \in Nat : a <= q /\ q <= Pos => l[q].b # Header
  BY DEF FromInv
<1>3. PICK p \in Nat, q \in Nat : /\ End(items, s - 1) < p /\ p < q /\ q <= Pos
                                  /\ l[q].b = Header
  BY DEF ClosedInv
<1>4. q < a
  <2>1. ~(a <= q)
    BY ONLY <1>2, <1>3, Zenon
  <2> QED BY ONLY <2>1, a \in Nat, q \in Nat
<1> HIDE DEF s, l
<1>5. CASE from <= s
  <2>1. End(items, from - 1) <= End(items, s - 1)
    <3>1. items \in Seq(Item) /\ Proper(items)
      BY DEF TypeOK, LineInv
    <3>2. \A x, y \in 0 .. Len(items) : x <= y => End(items, x) <= End(items, y)
      BY <3>1, LineFacts
    <3>3. from - 1 \in 0 .. Len(items) /\ s - 1 \in 0 .. Len(items) /\ from - 1 <= s - 1
      BY <1>1, <1>5, <3>1
    <3> QED BY ONLY <3>2, <3>3, Zenon
  <2>2. End(items, from - 1) \in Nat /\ End(items, s - 1) \in Nat /\ End(items, from) \in Nat
    BY <1>1, Ends
  <2>3. End(items, from - 1) < p /\ p <= End(items, from)
    <3>1. a <= End(items, from)
      BY <1>2 DEF In
    <3> QED BY ONLY <1>3, <1>4, <2>1, <2>2, <3>1, a \in Nat
  <2>4. In(from, p)
    BY <2>3 DEF In
  <2>5. l[q].b # Header
    BY ONLY <1>1, <1>2, <1>3, <1>4, <2>4, TypeOK, LineInv, LineMiddle, Zenon DEF l
  <2> QED BY <1>3, <2>5
<1>6. CASE ~(from <= s)
  <2>1. from \in Nat /\ s \in Nat
    BY <1>1 DEF TypeOK
  <2> QED BY <1>6, <2>1 DEF s
<1> QED BY <1>5, <1>6

LEMMA OldOrNew ==
  ASSUME NEW n \in Nat, NEW x \in 1 .. n + 1
  PROVE  x \in 1 .. n \/ x = n + 1
  OBVIOUS

LEMMA SentKept ==
  ASSUME TypeOK, LineInv, BetweenInv, FromInv, WholeInv, InOrder, Unaltered, ClosedInv, Next, GetChar
  PROVE  InOrder' /\ Unaltered' /\ ClosedInv'
<1>1. Pos \in Nat /\ Pos' = Pos + 1 /\ items' = items /\ Head(line) = LineOf(items)[Pos + 1]
  BY PlaceMoves
<1>2. ASSUME NEW i \in DOMAIN delivered
      PROVE  \E p, q \in Nat :
               /\ End(items, delivered[i].src - 1) < p /\ p < q /\ q <= Pos + 1
               /\ LineOf(items)[q].b = Header
  <2>1. PICK p \in Nat, q \in Nat : /\ End(items, delivered[i].src - 1) < p /\ p < q /\ q <= Pos
                                    /\ LineOf(items)[q].b = Header
    BY DEF ClosedInv
  <2>2. q <= Pos + 1
    BY ONLY <1>1, <2>1
  <2> QED BY ONLY <2>1, <2>2, Zenon
<1>3. CASE delivered' = delivered
  <2>1. InOrder' /\ Unaltered'
    BY <1>1, <1>3 DEF InOrder, Unaltered, Whole
  <2>2. ClosedInv'
    BY <1>1, <1>2, <1>3 DEF ClosedInv
  <2> QED BY <2>1, <2>2
<1>4. CASE /\ delivered' = Append(delivered, [src |-> from, raw |-> data])
           /\ head = TRUE /\ esc = FALSE /\ NextByte = Header /\ data # <<>>
  <2> DEFINE n == Len(delivered)
             S == [src : Nat, raw : Seq(Byte)]
             new == [src |-> from, raw |-> data]
  <2>0. delivered \in Seq(S) /\ new \in S /\ n \in Nat /\ DOMAIN delivered = 1 .. n
    BY DEF TypeOK
  <2>1. /\ DOMAIN delivered' = 1 .. n + 1 /\ delivered'[n + 1] = new
        /\ \A x \in 1 .. n : delivered'[x] = delivered[x]
    <3> HIDE DEF S, new
    <3>1. delivered' = Append(delivered, new)
      BY <1>4 DEF new
    <3>2. /\ DOMAIN Append(delivered, new) = 1 .. n + 1 /\ Append(delivered, new)[n + 1] = new
          /\ \A x \in DOMAIN delivered : Append(delivered, new)[x] = delivered[x]
      <4>1. delivered \in Seq(S) /\ new \in S
        BY <2>0
      <4> QED BY ONLY <4>1, Appended
    <3> QED BY ONLY <2>0, <3>1, <3>2, Zenon
  <2>2. \A i \in DOMAIN delivered' :
          (i \in DOMAIN delivered /\ delivered'[i] = delivered[i]) \/ (i = n + 1 /\ delivered'[i] = new)
    <3> HIDE DEF n, S, new
    <3> QED BY ONLY <2>0, <2>1, OldOrNew, Zenon
  <2>3. new.src = from /\ new.raw = data
    OBVIOUS
  <2> HIDE DEF new, S
  <2>4. from \in DOMAIN items
    BY <1>4 DEF FromInv
  <2>5. Unaltered'
    <3> SUFFICES ASSUME NEW i \in DOMAIN delivered'
                 PROVE  /\ delivered'[i].src \in DOMAIN items
                        /\ Whole(delivered'[i].src) => delivered'[i].raw = HostRaw(items[delivered'[i].src])
      BY <1>1 DEF Unaltered, Whole
    <3>1. CASE i \in DOMAIN delivered /\ delivered'[i] = delivered[i]
      BY <3>1 DEF Unaltered
    <3>2. CASE delivered'[i] = new
      <4>1. Whole(from) => data = HostRaw(items[from])
        BY <1>4, ReturnedWhole
      <4> QED BY ONLY <2>3, <2>4, <3>2, <4>1, Zenon
    <3> QED BY <2>2, <3>1, <3>2
  <2>6. InOrder'
    <3> SUFFICES ASSUME NEW i \in DOMAIN delivered', NEW j \in DOMAIN delivered', i < j
                 PROVE  delivered'[i].src < delivered'[j].src
      BY DEF InOrder
    <3>1. i \in DOMAIN delivered /\ delivered'[i] = delivered[i]
      <4>1. i # n + 1
        <5>1. i \in 1 .. n + 1 /\ j \in 1 .. n + 1
          BY <2>1
        <5> HIDE DEF n
        <5> QED BY ONLY <2>0, <5>1, i < j
      <4> QED BY ONLY <2>2, <4>1, i \in DOMAIN delivered', Zenon
    <3>2. CASE j \in DOMAIN delivered /\ delivered'[j] = delivered[j]
      BY <3>1, <3>2 DEF InOrder
    <3>3. CASE delivered'[j] = new
      <4>1. delivered[i].src < from
        BY <1>4, <3>1, ReturnedLater
      <4> QED BY ONLY <2>3, <3>1, <3>3, <4>1, Zenon
    <3> QED BY <2>2, <3>2, <3>3
  <2>7. ClosedInv'
    <3> SUFFICES ASSUME NEW i \in DOMAIN delivered'
                 PROVE  \E p, q \in Nat :
                          /\ End(items, delivered'[i].src - 1) < p /\ p < q /\ q <= Pos + 1
                          /\ LineOf(items)[q].b = Header
      BY <1>1 DEF ClosedInv
    <3>1. CASE i \in DOMAIN delivered /\ delivered'[i] = delivered[i]
      BY <1>2, <3>1
    <3>2. CASE delivered'[i] = new
      <4>1. PICK p \in Nat : In(from, p) /\ p <= Pos
        BY <1>4 DEF FromInv
      <4>2. End(items, from - 1) < p
        BY <4>1 DEF In
      <4>3. Pos + 1 \in Nat /\ p < Pos + 1 /\ Pos + 1 <= Pos + 1
        BY ONLY <1>1, <4>1
      <4>4. LineOf(items)[Pos + 1].b = Header
        BY <1>1, <1>4 DEF NextByte
      <4>5. delivered'[i].src = from
        BY ONLY <2>3, <3>2, Zenon
      <4> QED BY ONLY <4>1, <4>2, <4>3, <4>4, <4>5, Zenon
    <3> QED BY <2>2, <3>1, <3>2
  <2> QED BY <2>5, <2>6, <2>7
<1> QED BY <1>3, <1>4, ReturnKinds

\* The inductive invariant of the reception.
SentInv == InOrder /\ Unaltered /\ ClosedInv
ReceiveInv ==
  /\ PacketInv /\ LineInv /\ BetweenInv /\ TrackInv /\ NoFalseAlarm
  /\ FromInv /\ WholeInv /\ SentInv

LEMMA ReceiveInit == FromHost /\ Init => ReceiveInv
<1> SUFFICES ASSUME FromHost, Init PROVE ReceiveInv
  OBVIOUS
<1>1. PacketInv /\ TypeOK
  BY InitPacketInv DEF PacketInv
<1>2. line = LineOf(items) /\ Proper(items) /\ items \in Seq(Item)
  <2>1. PICK input \in Lines : items = input.items /\ line = input.bytes
    BY DEF Init
  <2>2. /\ input.bytes = LineOf(input.items)
        /\ \A k \in DOMAIN input.items : input.items[k].type < Word /\ Len(input.items[k].data) < Word
    BY DEF FromHost
  <2> QED BY <1>1, <2>1, <2>2, Zenon DEF Proper, TypeOK
<1>3. Len(line) \in Nat
  BY <1>1 DEF TypeOK
<1>4. Pos = 0
  BY <1>2, <1>3 DEF Pos
<1>5. LineInv
  <2>1. Len(line) <= Len(LineOf(items)) /\ \A x \in 1 .. Len(line) : Pos + x = x
    BY <1>2, <1>3, <1>4
  <2>2. \A x \in 1 .. Len(line) : line[x] = LineOf(items)[Pos + x]
    BY ONLY <1>2, <2>1, Zenon
  <2> QED BY ONLY <1>2, <2>1, <2>2, Zenon DEF LineInv
<1>6. BetweenInv
  BY <1>4 DEF Init, BetweenInv
<1>7. TrackInv
  <2> SUFFICES ASSUME NEW k \in DOMAIN items
               PROVE  ~(End(items, k - 1) < Pos) /\ ~(Pos >= End(items, k))
    BY DEF TrackInv
  <2>1. End(items, k) \in Nat /\ End(items, k - 1) \in Nat /\ End(items, k - 1) >= 4 /\ End(items, k) >= 4
    BY <1>1, <1>5, Ends
  <2> QED BY ONLY <1>4, <2>1
<1>8. NoFalseAlarm
  BY DEF Init, NoFalseAlarm
<1>9. FromInv /\ WholeInv
  BY DEF Init, FromInv, WholeInv
<1>10. SentInv
  <2>1. DOMAIN delivered = {}
    BY DEF Init
  <2> QED BY <2>1 DEF SentInv, InOrder, Unaltered, ClosedInv
<1> QED BY <1>1, <1>5, <1>6, <1>7, <1>8, <1>9, <1>10 DEF ReceiveInv

LEMMA ReceiveStep == ReceiveInv /\ [Next]_vars => ReceiveInv'
<1> SUFFICES ASSUME ReceiveInv, [Next]_vars PROVE ReceiveInv'
  OBVIOUS
<1>0. /\ PacketInv /\ TypeOK /\ LineInv /\ BetweenInv /\ TrackInv /\ NoFalseAlarm
      /\ FromInv /\ WholeInv /\ InOrder /\ Unaltered /\ ClosedInv
  BY DEF ReceiveInv, PacketInv, SentInv
<1>1. PacketInv' /\ TypeOK'
  <2>1. PacketInv'
    BY <1>0, NextPacketInv
  <2> QED BY <2>1 DEF PacketInv
<1>2. CASE UNCHANGED vars
  <2>1. /\ items' = items /\ line' = line /\ started' = started /\ head' = head /\ esc' = esc /\ data' = data
        /\ plen' = plen /\ from' = from /\ delivered' = delivered /\ naks' = naks
    BY <1>2 DEF vars
  <2>2. Pos' = Pos
    BY <2>1 DEF Pos
  <2>3. LineInv'
    BY <1>0, <2>1, <2>2 DEF LineInv
  <2>4. BetweenInv'
    BY <1>0, <2>1, <2>2 DEF BetweenInv
  <2>5. TrackInv'
    BY <1>0, <2>1, <2>2 DEF TrackInv, Tracked, Reading, Sound, Whole, Fits
  <2>6. NoFalseAlarm'
    BY <1>0, <2>1 DEF NoFalseAlarm, Whole, Fits
  <2>7. FromInv'
    BY <1>0, <2>1, <2>2 DEF FromInv, In
  <2>8. WholeInv'
    BY <1>0, <2>1, <2>2 DEF WholeInv, Tracked, Reading, Whole
  <2>9. SentInv'
    BY <1>0, <2>1, <2>2 DEF SentInv, InOrder, Unaltered, ClosedInv, Whole
  <2> QED BY <1>1, <2>3, <2>4, <2>5, <2>6, <2>7, <2>8, <2>9 DEF ReceiveInv
<1>3. CASE Next /\ GetChar
  <2>1. LineInv' /\ BetweenInv'
    BY <1>0, <1>3, PlaceMoves, BetweenKept
  <2>2. TrackInv' /\ NoFalseAlarm'
    BY <1>0, <1>3, TrackKept, QuietKept
  <2>3. FromInv' /\ WholeInv'
    BY <1>0, <1>1, <1>3, FromKept, WholeKept
  <2>4. SentInv'
    BY <1>0, <1>3, SentKept DEF SentInv
  <2> QED BY <1>1, <2>1, <2>2, <2>3, <2>4 DEF ReceiveInv
<1> QED BY <1>2, <1>3, StepKinds

LEMMA ReceiveInvariant == FromHost => (Spec => []ReceiveInv)
  BY ReceiveInit, ReceiveStep, PTL DEF Spec

\* The FDL returns every message that arrives whole, fits its buffer and does not
\* follow a frame that was cut: dl_get_packet is synchronised again after one frame,
\* whatever of it is missing, and the sums of spd_checksum and dl_fastchk16 agree.
THEOREM ReceivesAllSound == FromHost => (Spec => []LossBounded)
<1>1. ReceiveInv => LossBounded
  <2> SUFFICES ASSUME ReceiveInv, line = <<>>, NEW k \in DOMAIN items, Sound(k)
               PROVE  \E x \in DOMAIN delivered : delivered[x].src = k
    BY DEF LossBounded, Sound
  <2>1. TypeOK /\ LineInv /\ TrackInv
    BY DEF ReceiveInv, PacketInv
  <2>2. End(items, k) \in Nat /\ End(items, k) <= Len(LineOf(items))
    BY <2>1, Ends
  <2>3. Pos >= End(items, k)
    <3>1. Len(line) = 0 /\ Len(LineOf(items)) \in Nat
      BY <2>1, LineFacts DEF TypeOK, LineInv
    <3> QED BY <2>2, <3>1 DEF Pos
  <2> QED BY <2>1, <2>3 DEF TrackInv
<1> QED BY <1>1, ReceiveInvariant, PTL

\* A host whose frames arrive whole and fit the buffer never gets a
\* BSL_REP_VERIFY_ERROR from dl_get_packet.
THEOREM NoFalseAlarmHolds == FromHost => (Spec => []NoFalseAlarm)
<1>1. ReceiveInv => NoFalseAlarm
  BY DEF ReceiveInv
<1> QED BY <1>1, ReceiveInvariant, PTL

\* Whatever is missing of the frames, dl_get_packet returns the packets in the order
\* of the line and none of them twice, and one whose first byte came from a frame
\* that arrived whole is the message of that frame: what was left of the frame in
\* front of it never becomes a part of it.
THEOREM WholeUnaltered == FromHost => (Spec => [](InOrder /\ Unaltered))
<1>1. ReceiveInv => InOrder /\ Unaltered
  BY DEF ReceiveInv, SentInv
<1> QED BY <1>1, ReceiveInvariant, PTL

\* The packets returned are the host's messages, unaltered and in order, as long as
\* none of them began in a cut frame.  (For one that did there is only the check
\* sum, and whether it collides is a question of the bytes.)
THEOREM OnlySentHolds ==
  FromHost => (Spec => []((\A i \in DOMAIN delivered : Whole(delivered[i].src)) => OnlySent))
<1>1. ReceiveInv => ((\A i \in DOMAIN delivered : Whole(delivered[i].src)) => OnlySent)
  BY DEF ReceiveInv, SentInv, InOrder, Unaltered, OnlySent
<1> QED BY <1>1, ReceiveInvariant, PTL
=============================================================================
