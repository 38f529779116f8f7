-------------------------- MODULE FdlEscapeProofs --------------------------
(***************************************************************************)
(* Escaping in place never leaves the buffer and never runs over bytes     *)
(* that are still to be read, for every alphabet, MAX_PKT_SIZE and packet. *)
(***************************************************************************)
EXTENDS FdlEscape, SequenceTheorems, WellFoundedInduction, TLAPS

\* The packet lies behind the frame's first header with one byte to spare for
\* each of its own, and the longest possible frame fits.
RoomOK ==
  /\ Size + 1 <= room.off
  /\ 2 * Size + 2 <= room.cap
  /\ room.off + Size <= room.cap

\* The frame is at most twice as long as what was read, and its headers.
GrowthOK ==
  /\ dst >= 1
  /\ ~done => dst <= 1 + 2 * i
  /\ done => dst <= 2 + 2 * i

\* The inductive invariant.
EscapeInv == TypeOK /\ UnreadKept /\ RoomOK /\ GrowthOK

\* Both callers of dl_escapedata, dl_send_packet and dl_send_ack, give it enough
\* room, and begin with the packet in place.
LEMMA EscapeInit == PacketsAssumption /\ Init => EscapeInv
<1> SUFFICES ASSUME PacketsAssumption, Init PROVE EscapeInv
  OBVIOUS
<1>1. packet \in Seq(Byte) /\ Size \in Nat /\ Size >= 6 /\ Size - 6 < MaxPkt - 8 /\ MaxPkt \in Nat
  BY DEF PacketsAssumption, Init, Size
<1>2. room \in Room /\ RoomOK
  <2>1. CASE room = SendBuf
    BY <1>1, <2>1 DEF SendBuf, Room, RoomOK
  <2>2. CASE Size = 6 /\ room = AckBuf
    BY <1>1, <2>2 DEF AckBuf, Room, RoomOK
  <2> QED BY <2>1, <2>2 DEF Init
<1>3. room.off \in Nat /\ room.cap \in Nat
  BY <1>2 DEF Room
<1>4. \A k \in 1 .. Size : packet[k] \in Byte
  BY <1>1 DEF Size
<1>5. Header \in Byte
  BY AlphabetAssumption
<1>6. buf \in [Cells -> Byte]
  <2> SUFFICES ASSUME NEW a \in Cells, a \in room.off .. room.off + Size - 1
               PROVE  packet[a - room.off + 1] \in Byte
    BY <1>5 DEF Init
  <2>1. a - room.off + 1 \in 1 .. Size
    BY <1>1, <1>3
  <2> QED BY <2>1, <1>4
<1>7. UnreadKept
  <2> SUFFICES ASSUME NEW k \in i + 1 .. Size
               PROVE  buf[room.off + k - 1] = packet[k]
    BY DEF UnreadKept
  <2>1. i = 0 /\ k \in 1 .. Size
    BY <1>1 DEF Init
  <2>2. /\ room.off + k - 1 \in Cells
        /\ room.off + k - 1 \in room.off .. room.off + Size - 1
        /\ (room.off + k - 1) - room.off + 1 = k
    BY <1>1, <1>2, <1>3, <2>1 DEF RoomOK, Cells
  <2> QED BY <2>2 DEF Init
<1>8. i \in 0 .. Size /\ dst \in 0 .. room.cap
  BY <1>1, <1>2, <1>3 DEF Init, RoomOK
<1>9. done \in BOOLEAN
  BY DEF Init
<1>10. GrowthOK
  BY DEF Init, GrowthOK
<1> QED BY <1>1, <1>2, <1>6, <1>7, <1>8, <1>9, <1>10 DEF EscapeInv, TypeOK

\* A byte of the packet becomes one or two bytes.
LEMMA OutputBytes ==
  ASSUME EscapeInv, i < Size
  PROVE  /\ Len(Output) \in {1, 2}
         /\ \A k \in 1 .. Len(Output) : Output[k] \in Byte
<1>1. /\ i \in Nat /\ Size \in Nat /\ room.off \in Nat /\ room.cap \in Nat
      /\ room.off + Size <= room.cap
  BY DEF EscapeInv, TypeOK, Room, Size, RoomOK
<1>2. room.off + i \in Cells
  BY <1>1 DEF Cells
<1>3. Source \in Byte
  BY <1>2 DEF EscapeInv, TypeOK, Source
<1>4. Escape \in Byte /\ Flip[Source] \in Byte
  BY <1>3, AlphabetAssumption
<1>5. CASE Source \in Special
  <2>1. Output = <<Escape, Flip[Source]>>
    BY <1>5 DEF Output
  <2> QED BY <2>1, <1>4
<1>6. CASE Source \notin Special
  <2>1. Output = <<Source>>
    BY <1>6 DEF Output
  <2> QED BY <2>1, <1>3
<1> QED BY <1>5, <1>6

\* A round of the loop keeps the invariant: what it writes ends before the next
\* byte to be read.
LEMMA EscapeCopy == EscapeInv /\ CopyByte => EscapeInv'
<1> SUFFICES ASSUME EscapeInv, CopyByte PROVE EscapeInv'
  OBVIOUS
<1> DEFINE w == Len(Output)
<1>1. /\ packet \in Seq(Byte) /\ room \in Room
      /\ i \in Nat /\ Size \in Nat /\ i < Size
      /\ room.off \in Nat /\ room.cap \in Nat /\ dst \in Nat
      /\ ~done
  BY DEF EscapeInv, TypeOK, Room, Size, CopyByte
<1>2. /\ packet' = packet /\ room' = room /\ done' = done
      /\ i' = i + 1 /\ dst' = dst + w
      /\ Size' = Size /\ Cells' = Cells
  BY DEF CopyByte, Size, Cells
<1>3. w \in {1, 2} /\ \A k \in 1 .. w : Output[k] \in Byte
  BY <1>1, OutputBytes
<1> HIDE DEF w
<1>4. /\ 1 <= dst /\ dst <= 1 + 2 * i
      /\ Size + 1 <= room.off /\ 2 * Size + 2 <= room.cap /\ room.off + Size <= room.cap
  BY <1>1 DEF EscapeInv, GrowthOK, RoomOK
<1>5. dst + w - 1 < room.off + i + 1
  BY <1>1, <1>3, <1>4
<1>6. buf' = [a \in Cells |-> IF a \in dst .. dst + w - 1 THEN Output[a - dst + 1] ELSE buf[a]]
  BY DEF CopyByte, w
<1>7. buf' \in [Cells -> Byte]
  <2> SUFFICES ASSUME NEW a \in Cells
               PROVE  (IF a \in dst .. dst + w - 1 THEN Output[a - dst + 1] ELSE buf[a]) \in Byte
    BY <1>6
  <2>1. CASE a \in dst .. dst + w - 1
    <3>1. a - dst + 1 \in 1 .. w
      BY <2>1, <1>1, <1>3
    <3> QED BY <3>1, <2>1, <1>3
  <2>2. CASE a \notin dst .. dst + w - 1
    BY <2>2 DEF EscapeInv, TypeOK
  <2> QED BY <2>1, <2>2
<1>8. UnreadKept'
  <2> SUFFICES ASSUME NEW k \in i + 2 .. Size
               PROVE  buf'[room.off + k - 1] = packet[k]
    <3>1. i' + 1 = i + 2
      BY <1>1, <1>2
    <3> QED BY <3>1, <1>2 DEF UnreadKept
  <2>1. room.off + k - 1 \in Cells /\ room.off + k - 1 \notin dst .. dst + w - 1
    BY <1>1, <1>3, <1>4, <1>5, SMTT(40) DEF Cells
  <2>2. buf'[room.off + k - 1] = buf[room.off + k - 1]
    BY <2>1, <1>6
  <2>3. k \in i + 1 .. Size
    BY <1>1
  <2> QED BY <2>2, <2>3 DEF EscapeInv, UnreadKept
<1>9. i' \in 0 .. Size' /\ dst' \in 0 .. room'.cap /\ RoomOK' /\ GrowthOK'
  <2>1. i + 1 \in 0 .. Size /\ dst + w \in 0 .. room.cap
    BY <1>1, <1>3, <1>4
  <2>2. dst + w >= 1 /\ dst + w <= 1 + 2 * (i + 1)
    BY <1>1, <1>3, <1>4
  <2>3. RoomOK'
    BY <1>2, <1>4 DEF RoomOK
  <2>4. GrowthOK'
    BY <1>1, <1>2, <2>2 DEF GrowthOK
  <2> QED BY <1>2, <2>1, <2>3, <2>4
<1>10. done' \in BOOLEAN
  BY <1>2 DEF EscapeInv, TypeOK
<1> QED BY <1>1, <1>2, <1>7, <1>8, <1>9, <1>10 DEF EscapeInv, TypeOK

\* So does the header behind the frame.
LEMMA EscapeClose == EscapeInv /\ CloseFrame => EscapeInv'
<1> SUFFICES ASSUME EscapeInv, CloseFrame PROVE EscapeInv'
  OBVIOUS
<1>1. /\ packet \in Seq(Byte) /\ room \in Room
      /\ i \in Nat /\ Size \in Nat /\ i = Size
      /\ room.off \in Nat /\ room.cap \in Nat /\ dst \in Nat
      /\ ~done
  BY DEF EscapeInv, TypeOK, Room, Size, CloseFrame
<1>2. /\ packet' = packet /\ room' = room /\ i' = i
      /\ done' = TRUE /\ dst' = dst + 1
      /\ Size' = Size /\ Cells' = Cells
  BY DEF CloseFrame, Size, Cells
<1>3. /\ 1 <= dst /\ dst <= 1 + 2 * i /\ 2 * Size + 2 <= room.cap
      /\ RoomOK'
  BY <1>1, <1>2 DEF EscapeInv, GrowthOK, RoomOK
<1>4. buf' \in [Cells -> Byte]
  BY AlphabetAssumption DEF EscapeInv, TypeOK, CloseFrame
<1>5. UnreadKept'
  <2>1. i' + 1 .. Size' = {}
    BY <1>1, <1>2
  <2> QED BY <2>1 DEF UnreadKept
<1>6. i' \in 0 .. Size' /\ dst' \in 0 .. room'.cap /\ done' \in BOOLEAN /\ GrowthOK'
  BY <1>1, <1>2, <1>3 DEF GrowthOK
<1> QED BY <1>1, <1>2, <1>3, <1>4, <1>5, <1>6 DEF EscapeInv, TypeOK

\* Nothing changes without a step.
LEMMA EscapeStutter == EscapeInv /\ UNCHANGED vars => EscapeInv'
  BY DEF EscapeInv, TypeOK, UnreadKept, RoomOK, GrowthOK, Cells, Size, vars

\* The invariant holds in every state of dl_escapedata.
LEMMA EscapeInvariant == PacketsAssumption => (Spec => []EscapeInv)
<1> SUFFICES ASSUME PacketsAssumption PROVE Spec => []EscapeInv
  OBVIOUS
<1>1. EscapeInv /\ [Next]_vars => EscapeInv'
  <2> SUFFICES ASSUME EscapeInv, [Next]_vars PROVE EscapeInv'
    OBVIOUS
  <2> QED BY EscapeCopy, EscapeClose, EscapeStutter DEF Next, Returned
<1> QED BY <1>1, EscapeInit, PTL DEF Spec

\* The frames of dl_send_packet and dl_send_ack stay inside their buffers.
THEOREM EscapeTypeCorrect == PacketsAssumption => (Spec => []TypeOK)
<1> SUFFICES ASSUME PacketsAssumption PROVE Spec => []TypeOK
  OBVIOUS
<1>1. EscapeInv => TypeOK
  BY DEF EscapeInv
<1> QED BY <1>1, EscapeInvariant, PTL

\* dl_escapedata never overwrites a byte of the packet before it has read it.
THEOREM UnreadKeptHolds == PacketsAssumption => (Spec => []UnreadKept)
<1> SUFFICES ASSUME PacketsAssumption PROVE Spec => []UnreadKept
  OBVIOUS
<1>1. EscapeInv => UnreadKept
  BY DEF EscapeInv
<1> QED BY <1>1, EscapeInvariant, PTL

-----------------------------------------------------------------------------
(* What FlattenSeq computes, by induction over the number of sequences.    *)

\* A set of naturals has a least element.
LEMMA LeastNat ==
  ASSUME NEW T, T \subseteq Nat, T # {}
  PROVE  \E x \in T : \A y \in T : x <= y
<1> DEFINE R == {ss \in Nat \X Nat : ss[1] < ss[2]}
<1>1. R = OpToRel(<, Nat)
  BY DEF OpToRel
<1>2. IsWellFoundedOn(R, Nat)
  BY <1>1, NatLessThanWellFounded
<1>3. \E x \in T : \A y \in T : ~ (<<y, x>> \in R)
  <2> HIDE DEF R
  <2> QED BY <1>2, WFMin
<1>4. PICK x \in T : \A y \in T : ~ (<<y, x>> \in R)
  BY <1>3
<1>5. \A y \in T : x <= y
  <2> SUFFICES ASSUME NEW y \in T, ~(x <= y) PROVE FALSE
    OBVIOUS
  <2>1. x \in Nat /\ y \in Nat /\ y < x
    OBVIOUS
  <2> QED BY <1>4, <2>1
<1> QED BY <1>5

\* Induction, for a set instead of a predicate.
LEMMA Induct ==
  ASSUME NEW T, 0 \in T, \A n \in Nat : n \in T => n + 1 \in T
  PROVE  Nat \subseteq T
<1> SUFFICES ASSUME Nat \ T # {} PROVE FALSE
  OBVIOUS
<1>1. PICK x \in Nat \ T : \A y \in Nat \ T : x <= y
  <2> DEFINE U == Nat \ T
  <2>1. U \subseteq Nat /\ U # {}
    OBVIOUS
  <2> HIDE DEF U
  <2>2. \E x \in U : \A y \in U : x <= y
    BY <2>1, LeastNat
  <2> QED BY <2>2 DEF U
<1>2. x # 0 /\ x - 1 \in Nat
  OBVIOUS
<1>3. x - 1 \in T
  BY <1>1, <1>2
<1> QED BY <1>2, <1>3

\* The equations of FlattenSeq for the first n of the sequences.
Flattens(f, seqs, n) ==
  f[1] = seqs[1] /\ \A j \in 2 .. n : f[j] = f[j - 1] \o seqs[j]

\* There is a function that satisfies them.
LEMMA FlattenApprox ==
  ASSUME NEW S, NEW seqs \in Seq(Seq(S)), NEW n \in 1 .. Len(seqs)
  PROVE  \E g \in [1 .. n -> Seq(S)] : Flattens(g, seqs, n)
<1> DEFINE T == {m \in Nat : m + 1 <= Len(seqs) => \E g \in [1 .. m + 1 -> Seq(S)] : Flattens(g, seqs, m + 1)}
<1>1. 0 \in T
  <2> SUFFICES ASSUME 1 <= Len(seqs) PROVE \E g \in [1 .. 1 -> Seq(S)] : Flattens(g, seqs, 1)
    OBVIOUS
  <2>1. seqs[1] \in Seq(S)
    OBVIOUS
  <2>2. [j \in 1 .. 1 |-> seqs[1]] \in [1 .. 1 -> Seq(S)]
    BY <2>1
  <2>3. Flattens([j \in 1 .. 1 |-> seqs[1]], seqs, 1)
    BY DEF Flattens
  <2> QED BY <2>2, <2>3
<1>2. ASSUME NEW m \in Nat, m \in T PROVE m + 1 \in T
  <2> SUFFICES ASSUME m + 2 <= Len(seqs)
               PROVE  \E g \in [1 .. m + 2 -> Seq(S)] : Flattens(g, seqs, m + 2)
    <3>1. m + 1 + 1 = m + 2 /\ m + 1 \in Nat
      OBVIOUS
    <3> QED BY <3>1
  <2>0. Len(seqs) \in Nat
    OBVIOUS
  <2>1. m + 1 <= Len(seqs)
    BY <2>0
  <2>2. PICK g \in [1 .. m + 1 -> Seq(S)] : Flattens(g, seqs, m + 1)
    BY <1>2, <2>1
  <2> DEFINE h == [j \in 1 .. m + 2 |-> IF j = m + 2 THEN g[m + 1] \o seqs[m + 2] ELSE g[j]]
  <2>3. seqs[m + 2] \in Seq(S) /\ g[m + 1] \in Seq(S)
    BY <2>0
  <2>4. g[m + 1] \o seqs[m + 2] \in Seq(S)
    BY <2>3, ConcatProperties
  <2>5. h \in [1 .. m + 2 -> Seq(S)]
    <3> SUFFICES ASSUME NEW j \in 1 .. m + 2
                 PROVE (IF j = m + 2 THEN g[m + 1] \o seqs[m + 2] ELSE g[j]) \in Seq(S)
      OBVIOUS
    <3>1. j # m + 2 => j \in 1 .. m + 1
      OBVIOUS
    <3> QED BY <2>4, <3>1
  <2>6. h[1] = seqs[1]
    <3>1. 1 \in 1 .. m + 2 /\ 1 # m + 2
      OBVIOUS
    <3>2. h[1] = g[1]
      BY <3>1
    <3> QED BY <3>2, <2>2 DEF Flattens
  <2>7. ASSUME NEW j \in 2 .. m + 2 PROVE h[j] = h[j - 1] \o seqs[j]
    <3>1. j \in 1 .. m + 2 /\ j - 1 \in 1 .. m + 2 /\ j - 1 # m + 2
      OBVIOUS
    <3>2. h[j - 1] = g[j - 1]
      BY <3>1
    <3>3. CASE j = m + 2
      <4>1. h[m + 2] = g[m + 1] \o seqs[m + 2]
        BY <3>1, <3>3
      <4>2. j - 1 = m + 1
        BY <3>3
      <4> QED BY <4>1, <4>2, <3>2, <3>3
    <3>4. CASE j # m + 2
      <4>1. j \in 2 .. m + 1
        BY <3>4
      <4>2. h[j] = g[j]
        BY <3>1, <3>4
      <4>3. g[j] = g[j - 1] \o seqs[j]
        BY <4>1, <2>2 DEF Flattens
      <4> QED BY <4>2, <4>3, <3>2
    <3> QED BY <3>3, <3>4
  <2>8. Flattens(h, seqs, m + 2)
    <3> HIDE DEF h
    <3> QED BY <2>6, <2>7 DEF Flattens
  <2> HIDE DEF h
  <2> QED BY <2>5, <2>8
<1>3. Nat \subseteq T
  <2> HIDE DEF T
  <2> QED BY <1>1, <1>2, Induct
<1>4. n - 1 \in Nat /\ (n - 1) + 1 = n /\ n <= Len(seqs)
  OBVIOUS
<1>5. n - 1 \in T
  BY <1>3, <1>4
<1> QED BY <1>4, <1>5

\* FlattenSeq follows its equations.
LEMMA FlattenUnfold ==
  ASSUME NEW S, NEW seqs \in Seq(Seq(S)), seqs # <<>>
  PROVE  \E f \in [1 .. Len(seqs) -> Seq(S)] :
            Flattens(f, seqs, Len(seqs)) /\ FlattenSeq(seqs) = f[Len(seqs)]
<1> DEFINE n == Len(seqs)
           Eq(f) == f = [k \in 1 .. n |-> IF k = 1 THEN seqs[k] ELSE f[k - 1] \o seqs[k]]
           F == CHOOSE f : Eq(f)
<1>0. n \in Nat /\ n # 0 /\ n \in 1 .. n
  OBVIOUS
<1>1. FlattenSeq(seqs) = F[n]
  BY <1>0 DEF FlattenSeq
<1>2. PICK g \in [1 .. n -> Seq(S)] : Flattens(g, seqs, n)
  BY <1>0, FlattenApprox
<1>3. Eq(g)
  <2>1. ASSUME NEW k \in 1 .. n PROVE g[k] = IF k = 1 THEN seqs[k] ELSE g[k - 1] \o seqs[k]
    <3>1. k # 1 => k \in 2 .. n
      BY <1>0
    <3> QED BY <3>1, <1>2 DEF Flattens
  <2> HIDE DEF n
  <2> QED BY <2>1, <1>2
<1>4. Eq(F)
  <2> HIDE DEF Eq
  <2> QED BY <1>3
<1> HIDE DEF F, n
<1>5. DOMAIN F = 1 .. n /\ \A k \in 1 .. n : F[k] = IF k = 1 THEN seqs[k] ELSE F[k - 1] \o seqs[k]
  BY <1>4
<1> HIDE DEF Eq
<1>6. Flattens(F, seqs, n)
  <2>1. F[1] = seqs[1]
    <3>1. 1 \in 1 .. n
      BY <1>0
    <3> QED BY <3>1, <1>5
  <2>2. ASSUME NEW j \in 2 .. n PROVE F[j] = F[j - 1] \o seqs[j]
    <3>1. j \in 1 .. n /\ j # 1
      BY <1>0
    <3> QED BY <3>1, <1>5
  <2> QED BY <2>1, <2>2 DEF Flattens
<1>7. \A k \in 1 .. n : F[k] = g[k]
  <2> DEFINE T == {m \in Nat : m + 1 <= n => F[m + 1] = g[m + 1]}
  <2>1. 0 \in T
    BY <1>0, <1>2, <1>6 DEF Flattens
  <2>2. ASSUME NEW m \in Nat, m \in T PROVE m + 1 \in T
    <3> SUFFICES ASSUME m + 2 <= n PROVE F[m + 2] = g[m + 2]
      BY <1>0
    <3>1. m + 2 \in 2 .. n /\ m + 1 <= n /\ (m + 2) - 1 = m + 1
      BY <1>0
    <3>2. F[m + 2] = F[m + 1] \o seqs[m + 2] /\ g[m + 2] = g[m + 1] \o seqs[m + 2]
      BY <3>1, <1>2, <1>6 DEF Flattens
    <3> QED BY <2>2, <3>1, <3>2
  <2>3. Nat \subseteq T
    <3> HIDE DEF T
    <3> QED BY <2>1, <2>2, Induct
  <2> SUFFICES ASSUME NEW k \in 1 .. n PROVE F[k] = g[k]
    OBVIOUS
  <2>4. k - 1 \in Nat /\ (k - 1) + 1 = k /\ k <= n
    BY <1>0
  <2>5. k - 1 \in T
    BY <2>3, <2>4
  <2> QED BY <2>4, <2>5
<1>8. FlattenSeq(seqs) = g[n]
  BY <1>0, <1>1, <1>7
<1> QED BY <1>2, <1>8 DEF n

\* The sequences lie in flat one behind the other, the k-th behind o[k - 1].
Laid(flat, seqs, o) ==
  /\ o[0] = 0
  /\ \A k \in 1 .. Len(seqs) : o[k] = o[k - 1] + Len(seqs[k])
  /\ Len(flat) = o[Len(seqs)]
  /\ \A k \in 1 .. Len(seqs) : \A m \in 1 .. Len(seqs[k]) : flat[o[k - 1] + m] = seqs[k][m]

\* Places in the first and in the second of two parts of a sequence.
LEMMA Within ==
  ASSUME NEW a \in Nat, NEW b \in Nat
  PROVE  /\ \A y \in 1 .. a : y \in 1 .. a + b
         /\ \A y \in 1 .. b : a + y \in 1 .. a + b
  OBVIOUS

\* FlattenSeq lays its sequences one behind the other.
LEMMA FlattenLays ==
  ASSUME NEW S, NEW seqs \in Seq(Seq(S))
  PROVE  /\ FlattenSeq(seqs) \in Seq(S)
         /\ \E o \in [0 .. Len(seqs) -> Nat] : Laid(FlattenSeq(seqs), seqs, o)
<1> DEFINE n == Len(seqs)
<1>0. n \in Nat /\ \A k \in 1 .. n : seqs[k] \in Seq(S)
  OBVIOUS
<1>1. CASE seqs = <<>>
  <2>1. FlattenSeq(seqs) = <<>> /\ n = 0
    BY <1>1 DEF FlattenSeq
  <2>2. [k \in 0 .. n |-> 0] \in [0 .. n -> Nat]
    OBVIOUS
  <2>3. Laid(FlattenSeq(seqs), seqs, [k \in 0 .. n |-> 0])
    BY <2>1 DEF Laid
  <2> QED BY <2>1, <2>2, <2>3
<1>2. CASE seqs # <<>>
  <2>0. n # 0
    BY <1>2
  <2>1. PICK f \in [1 .. n -> Seq(S)] : Flattens(f, seqs, n) /\ FlattenSeq(seqs) = f[n]
    BY <1>2, FlattenUnfold
  <2> DEFINE o == [k \in 0 .. n |-> IF k = 0 THEN 0 ELSE Len(f[k])]
  <2> HIDE DEF n
  <2>2. \A k \in 1 .. n : f[k] \in Seq(S) /\ Len(f[k]) \in Nat
    BY <1>0
  <2>3. /\ o \in [0 .. n -> Nat] /\ o[0] = 0
        /\ \A k \in 1 .. n : o[k] = Len(f[k])
    BY <1>0, <2>2
  <2> HIDE DEF o
  <2>4. f[1] = seqs[1] /\ \A k \in 2 .. n : f[k] = f[k - 1] \o seqs[k]
    BY <2>1 DEF Flattens
  <2>5. ASSUME NEW k \in 2 .. n
        PROVE  /\ Len(f[k]) = Len(f[k - 1]) + Len(seqs[k])
               /\ \A m \in 1 .. Len(f[k - 1]) : f[k][m] = f[k - 1][m]
               /\ \A m \in 1 .. Len(seqs[k]) : f[k][Len(f[k - 1]) + m] = seqs[k][m]
    <3>1. f[k - 1] \in Seq(S) /\ seqs[k] \in Seq(S)
      <4>1. k - 1 \in 1 .. n /\ k \in 1 .. n
        BY <1>0
      <4> QED BY <4>1, <1>0, <2>2
    <3> DEFINE a == f[k - 1]
               b == seqs[k]
    <3>2. f[k] = a \o b
      BY <2>4
    <3> HIDE DEF a, b
    <3>3. a \in Seq(S) /\ b \in Seq(S)
      BY <3>1 DEF a, b
    <3>4. /\ Len(a \o b) = Len(a) + Len(b)
          /\ \A m \in 1 .. Len(a) : (a \o b)[m] = a[m]
          /\ \A m \in 1 .. Len(b) : (a \o b)[Len(a) + m] = b[m]
      BY ONLY <3>3
    <3> QED BY <3>2, <3>4 DEF a, b
  <2>6. ASSUME NEW k \in 1 .. n PROVE o[k] = o[k - 1] + Len(seqs[k])
    <3>1. CASE k = 1
      BY <3>1, <2>3, <2>4, <1>0
    <3>2. CASE k # 1
      <4>1. k \in 2 .. n /\ k - 1 \in 1 .. n
        BY <3>2, <1>0
      <4> QED BY <4>1, <2>3, <2>5
    <3> QED BY <3>1, <3>2
  <2> DEFINE Has(m) == \A k \in 1 .. m : \A x \in 1 .. Len(seqs[k]) :
                         /\ o[k - 1] + x \in 1 .. Len(f[m])
                         /\ f[m][o[k - 1] + x] = seqs[k][x]
             T == {m \in Nat : m + 1 <= n => Has(m + 1)}
  <2>7. 0 \in T
    <3> SUFFICES ASSUME NEW k \in 1 .. 1, NEW x \in 1 .. Len(seqs[k])
                 PROVE  o[k - 1] + x \in 1 .. Len(f[1]) /\ f[1][o[k - 1] + x] = seqs[k][x]
      OBVIOUS
    <3>1. k = 1 /\ o[k - 1] = 0
      BY <2>3
    <3> QED BY <3>1, <2>4
  <2>8. ASSUME NEW m \in Nat, m \in T PROVE m + 1 \in T
    <3> SUFFICES ASSUME m + 2 <= n PROVE Has(m + 2)
      <4>1. m + 1 \in Nat /\ (m + 1) + 1 = m + 2
        OBVIOUS
      <4> QED BY <4>1, Zenon
    <3>1. /\ m + 2 \in 2 .. n /\ (m + 2) - 1 = m + 1 /\ m + 1 <= n /\ m + 1 \in 1 .. n
          /\ m + 2 \in 1 .. n
      BY <1>0
    <3>2. Has(m + 1)
      BY <2>8, <3>1, Zenon
    <3>3. /\ Len(f[m + 2]) = Len(f[m + 1]) + Len(seqs[m + 2])
          /\ \A x \in 1 .. Len(f[m + 1]) : f[m + 2][x] = f[m + 1][x]
          /\ \A x \in 1 .. Len(seqs[m + 2]) : f[m + 2][Len(f[m + 1]) + x] = seqs[m + 2][x]
      <4>1. PICK q : q = m + 2 /\ q - 1 = m + 1 /\ q \in 2 .. n
        BY <3>1
      <4>2. /\ Len(f[q]) = Len(f[q - 1]) + Len(seqs[q])
            /\ \A x \in 1 .. Len(f[q - 1]) : f[q][x] = f[q - 1][x]
            /\ \A x \in 1 .. Len(seqs[q]) : f[q][Len(f[q - 1]) + x] = seqs[q][x]
        BY <4>1, <2>5, Zenon
      <4> QED BY ONLY <4>1, <4>2, Zenon
    <3>4. Len(f[m + 1]) \in Nat /\ Len(f[m + 2]) \in Nat /\ o[m + 1] = Len(f[m + 1])
      BY <3>1, <2>2, <2>3
    <3>5. seqs[m + 2] \in Seq(S) /\ Len(seqs[m + 2]) \in Nat
      BY <3>1, <1>0
    <3> SUFFICES ASSUME NEW k \in 1 .. m + 2, NEW x \in 1 .. Len(seqs[k])
                 PROVE  o[k - 1] + x \in 1 .. Len(f[m + 2]) /\ f[m + 2][o[k - 1] + x] = seqs[k][x]
      BY DEF Has
    <3>6. CASE k = m + 2
      <4>1. o[k - 1] = Len(f[m + 1]) /\ x \in 1 .. Len(seqs[m + 2])
        BY <3>1, <3>4, <3>6
      <4>2. Len(f[m + 1]) + x \in 1 .. Len(f[m + 2])
        <5>1. Len(f[m + 1]) + x \in 1 .. Len(f[m + 1]) + Len(seqs[m + 2])
          BY ONLY <4>1, <3>4, <3>5, Within, Zenon
        <5> QED BY ONLY <5>1, <3>3, Zenon
      <4> QED BY <4>1, <4>2, <3>3, <3>6
    <3>7. CASE k # m + 2
      <4>1. k \in 1 .. m + 1
        BY <3>7
      <4>2. o[k - 1] + x \in 1 .. Len(f[m + 1]) /\ f[m + 1][o[k - 1] + x] = seqs[k][x]
        BY <4>1, <3>2
      <4>3. o[k - 1] + x \in 1 .. Len(f[m + 2])
        <5>1. o[k - 1] + x \in 1 .. Len(f[m + 1]) + Len(seqs[m + 2])
          BY ONLY <4>2, <3>4, <3>5, Within, Zenon
        <5> QED BY ONLY <5>1, <3>3, Zenon
      <4> QED BY <4>2, <4>3, <3>3
    <3> QED BY <3>6, <3>7
  <2>9. Nat \subseteq T
    <3> HIDE DEF T
    <3> QED BY <2>7, <2>8, Induct
  <2>10. Has(n)
    <3>1. n - 1 \in Nat /\ (n - 1) + 1 = n /\ n <= n
      BY <1>0, <2>0
    <3>2. n - 1 \in T
      BY <2>9, <3>1
    <3> HIDE DEF Has
    <3> QED BY <3>1, <3>2
  <2>11. n \in 1 .. n
    BY <1>0, <2>0
  <2>12. Laid(FlattenSeq(seqs), seqs, o)
    <3>1. Len(FlattenSeq(seqs)) = o[n]
      BY <2>1, <2>3, <2>11
    <3> QED BY <2>1, <2>3, <2>6, <2>10, <3>1 DEF Laid, n
  <2>13. FlattenSeq(seqs) \in Seq(S)
    BY <2>1, <2>2, <2>11
  <2> QED BY <2>3, <2>12, <2>13 DEF n
<1> QED BY <1>1, <1>2

-----------------------------------------------------------------------------
(* The frame.                                                              *)

\* What stands for a byte in a frame, and for the bytes of a packet.
Code(b) == IF b \in Special THEN <<Escape, Flip[b]>> ELSE <<b>>
Codes(p) == [k \in DOMAIN p |-> Code(p[k])]

\* The frame of the first n bytes, without its headers.
Coded(p) ==
  CHOOSE f \in [1 .. Len(p) -> Seq(Byte)] :
    Flattens(f, Codes(p), Len(p)) /\ FlattenSeq(Codes(p)) = f[Len(p)]
Prefix(p, n) == IF n = 0 THEN <<>> ELSE Coded(p)[n]

LEMMA CodeType == ASSUME NEW b \in Byte PROVE Code(b) \in Seq(Byte)
<1>1. Escape \in Byte /\ Flip[b] \in Byte
  BY AlphabetAssumption
<1>2. CASE b \in Special
  BY <1>1, <1>2 DEF Code
<1>3. CASE b \notin Special
  BY <1>3 DEF Code
<1> QED BY <1>2, <1>3

\* The frame grows by the code of one byte, and the last one is that of the packet.
LEMMA PrefixFacts ==
  ASSUME NEW p \in Seq(Byte), p # <<>>
  PROVE  /\ \A n \in 0 .. Len(p) : Prefix(p, n) \in Seq(Byte)
         /\ \A n \in 1 .. Len(p) : Prefix(p, n) = Prefix(p, n - 1) \o Code(p[n])
         /\ Transcode(p) = Prefix(p, Len(p))
<1> DEFINE n0 == Len(p)
<1>0. n0 \in Nat /\ n0 # 0 /\ DOMAIN p = 1 .. n0 /\ \A k \in 1 .. n0 : p[k] \in Byte
  OBVIOUS
<1>1. Codes(p) \in Seq(Seq(Byte)) /\ Len(Codes(p)) = n0 /\ \A k \in 1 .. n0 : Codes(p)[k] = Code(p[k])
  <2>1. \A k \in 1 .. n0 : Code(p[k]) \in Seq(Byte)
    BY <1>0, CodeType
  <2>2. Codes(p) = [k \in 1 .. n0 |-> Code(p[k])]
    BY <1>0 DEF Codes
  <2> HIDE DEF n0
  <2>3. Codes(p) \in [1 .. n0 -> Seq(Byte)]
    BY <2>1, <2>2
  <2> QED BY <1>0, <2>2, <2>3
<1>2. Codes(p) # <<>>
  BY <1>0, <1>1
<1>3. \E f \in [1 .. n0 -> Seq(Byte)] : Flattens(f, Codes(p), n0) /\ FlattenSeq(Codes(p)) = f[n0]
  <2>1. \E f \in [1 .. Len(Codes(p)) -> Seq(Byte)] :
           Flattens(f, Codes(p), Len(Codes(p))) /\ FlattenSeq(Codes(p)) = f[Len(Codes(p))]
    BY <1>1, <1>2, FlattenUnfold
  <2> QED BY <2>1, <1>1
<1>4. /\ Coded(p) \in [1 .. n0 -> Seq(Byte)]
      /\ Flattens(Coded(p), Codes(p), n0) /\ FlattenSeq(Codes(p)) = Coded(p)[n0]
  BY <1>3 DEF Coded
<1>5. \A n \in 0 .. n0 : Prefix(p, n) \in Seq(Byte)
  <2> SUFFICES ASSUME NEW n \in 0 .. n0 PROVE Prefix(p, n) \in Seq(Byte)
    OBVIOUS
  <2>1. CASE n = 0
    BY <2>1 DEF Prefix
  <2>2. CASE n # 0
    <3>1. n \in 1 .. n0
      BY <2>2, <1>0
    <3> QED BY <3>1, <2>2, <1>4 DEF Prefix
  <2> QED BY <2>1, <2>2
<1>6. ASSUME NEW n \in 1 .. n0 PROVE Prefix(p, n) = Prefix(p, n - 1) \o Code(p[n])
  <2>1. CASE n = 1
    <3>1. Prefix(p, n) = Codes(p)[1]
      BY <2>1, <1>4 DEF Prefix, Flattens
    <3>2. Codes(p)[1] = Code(p[n]) /\ Code(p[n]) \in Seq(Byte)
      BY <2>1, <1>0, <1>1, CodeType
    <3>3. Prefix(p, n - 1) = <<>>
      BY <2>1 DEF Prefix
    <3>4. <<>> \o Code(p[n]) = Code(p[n])
      BY <3>2, ConcatEmptySeq
    <3> QED BY <3>1, <3>2, <3>3, <3>4
  <2>2. CASE n # 1
    <3>1. n \in 2 .. n0 /\ n # 0 /\ n - 1 # 0
      BY <2>2, <1>0
    <3>2. Coded(p)[n] = Coded(p)[n - 1] \o Codes(p)[n]
      BY <3>1, <1>4 DEF Flattens
    <3> QED BY <3>1, <3>2, <1>1 DEF Prefix
  <2> QED BY <2>1, <2>2
<1>7. Transcode(p) = Prefix(p, n0)
  <2>1. Transcode(p) = FlattenSeq(Codes(p))
    BY DEF Transcode, Codes, Code
  <2> QED BY <2>1, <1>0, <1>4 DEF Prefix
<1> QED BY <1>5, <1>6, <1>7

\* What has been written is the first header and the frame of the bytes read.
FrameInv ==
  /\ packet # <<>>
  /\ buf[0] = Header
  /\ dst = Len(Prefix(packet, i)) + (IF done THEN 2 ELSE 1)
  /\ \A k \in 1 .. Len(Prefix(packet, i)) : buf[k] = Prefix(packet, i)[k]
  /\ done => i = Size /\ buf[dst - 1] = Header

LEMMA FrameInit == PacketsAssumption /\ Init => FrameInv
<1> SUFFICES ASSUME PacketsAssumption, Init PROVE FrameInv
  OBVIOUS
<1>1. packet \in Seq(Byte) /\ Len(packet) >= 6 /\ Size >= 6 /\ MaxPkt \in Nat /\ Size - 6 < MaxPkt - 8
  BY DEF PacketsAssumption, Init, Size
<1>2. packet # <<>>
  BY <1>1
<1>3. Len(Prefix(packet, i)) = 0
  BY DEF Init, Prefix
<1>4. buf[0] = Header
  <2>1. room.off > 0 /\ room.off \in Nat /\ room.cap > 0 /\ room.cap \in Nat
    <3>1. CASE room = SendBuf
      BY <3>1, <1>1 DEF SendBuf
    <3>2. CASE room = AckBuf
      BY <3>2 DEF AckBuf
    <3> QED BY <3>1, <3>2 DEF Init
  <2>2. 0 \in Cells /\ 0 \notin room.off .. room.off + Size - 1
    BY <2>1 DEF Cells
  <2> QED BY <2>2 DEF Init
<1> QED BY <1>2, <1>3, <1>4 DEF Init, FrameInv

LEMMA FrameCopy == EscapeInv /\ FrameInv /\ CopyByte => FrameInv'
<1> SUFFICES ASSUME EscapeInv, FrameInv, CopyByte PROVE FrameInv'
  OBVIOUS
<1> DEFINE old == Prefix(packet, i)
           add == Code(packet[i + 1])
           new == Prefix(packet, i + 1)
<1>1. /\ packet \in Seq(Byte) /\ packet # <<>> /\ Size = Len(packet) /\ Size \in Nat
      /\ i \in Nat /\ i < Size /\ ~done
      /\ room.off \in Nat /\ room.cap \in Nat /\ Size + 1 <= room.off /\ room.off + Size <= room.cap
      /\ i \in 0 .. Size /\ i + 1 \in 1 .. Size /\ (i + 1) - 1 = i
  BY DEF EscapeInv, TypeOK, RoomOK, Room, Size, CopyByte, FrameInv
<1>2. Source = packet[i + 1]
  <2>1. i + 1 \in i + 1 .. Size /\ room.off + (i + 1) - 1 = room.off + i
    BY <1>1
  <2>2. buf[room.off + (i + 1) - 1] = packet[i + 1]
    BY <2>1 DEF EscapeInv, UnreadKept
  <2> QED BY <2>1, <2>2 DEF Source
<1>3. Output = add
  BY <1>2 DEF Output, Code
<1>4. packet[i + 1] \in Byte
  BY <1>1
<1>5. add \in Seq(Byte)
  BY <1>4, CodeType
<1>6. old \in Seq(Byte) /\ new = old \o add
  <2>1. \A n \in 0 .. Len(packet) : Prefix(packet, n) \in Seq(Byte)
    BY <1>1, PrefixFacts
  <2>2. \A n \in 1 .. Len(packet) : Prefix(packet, n) = Prefix(packet, n - 1) \o Code(packet[n])
    BY <1>1, PrefixFacts
  <2> QED BY <1>1, <2>1, <2>2
<1> DEFINE w == Len(add)
           l == Len(old)
<1> HIDE DEF old, add, new
<1>7. w \in Nat /\ l \in Nat
  BY <1>5, <1>6
<1>8. /\ Len(new) = l + w
      /\ \A k \in 1 .. l + w : new[k] = IF k <= l THEN old[k] ELSE add[k - l]
  BY <1>5, <1>6, ConcatProperties
<1>9. dst = l + 1 /\ buf[0] = Header /\ \A k \in 1 .. l : buf[k] = old[k]
  BY <1>1 DEF FrameInv, old
<1>10. /\ buf' = [a \in Cells |-> IF a \in dst .. dst + w - 1 THEN add[a - dst + 1] ELSE buf[a]]
       /\ dst' = dst + w /\ i' = i + 1 /\ packet' = packet /\ done' = FALSE
  BY <1>1, <1>3 DEF CopyByte
<1>11. l + w < room.cap
  <2>1. dst + w \in 0 .. room.cap
    <3>1. EscapeInv'
      BY EscapeCopy
    <3> QED BY <3>1, <1>10 DEF EscapeInv, TypeOK, CopyByte
  <2> QED BY <2>1, <1>1, <1>7, <1>9
<1> HIDE DEF w, l
<1>12. Prefix(packet, i)' = new
  BY <1>10 DEF new, Prefix
<1>13. buf'[0] = Header
  <2>1. 0 \in Cells /\ 0 \notin dst .. dst + w - 1
    BY <1>1, <1>7, <1>9 DEF Cells
  <2> QED BY <2>1, <1>9, <1>10
<1>14. ASSUME NEW k \in 1 .. l + w PROVE buf'[k] = new[k]
  <2>0. k \in Cells
    BY <1>1, <1>7, <1>11 DEF Cells
  <2>1. CASE k <= l
    <3>1. k \notin dst .. dst + w - 1 /\ k \in 1 .. l
      BY <2>1, <1>7, <1>9
    <3> QED BY <3>1, <2>0, <2>1, <1>8, <1>9, <1>10
  <2>2. CASE ~(k <= l)
    <3>1. k \in dst .. dst + w - 1 /\ k - dst + 1 = k - l
      BY <2>2, <1>7, <1>9
    <3>2. buf'[k] = add[k - dst + 1]
      BY <3>1, <2>0, <1>10
    <3> QED BY <3>1, <3>2, <2>2, <1>8
  <2> QED BY <2>1, <2>2
<1>15. dst' = Len(new) + 1
  BY <1>7, <1>8, <1>9, <1>10
<1> QED BY <1>1, <1>8, <1>10, <1>12, <1>13, <1>14, <1>15 DEF FrameInv

LEMMA FrameClose == EscapeInv /\ FrameInv /\ CloseFrame => FrameInv'
<1> SUFFICES ASSUME EscapeInv, FrameInv, CloseFrame PROVE FrameInv'
  OBVIOUS
<1> DEFINE l == Len(Prefix(packet, i))
<1>1. /\ packet \in Seq(Byte) /\ packet # <<>> /\ i = Size /\ Size = Len(packet) /\ Size \in Nat /\ ~done
      /\ room.cap \in Nat /\ 2 * Size + 2 <= room.cap /\ dst <= 1 + 2 * i /\ dst \in Nat
  BY DEF EscapeInv, TypeOK, RoomOK, GrowthOK, Room, Size, CloseFrame, FrameInv
<1>2. Prefix(packet, i) \in Seq(Byte)
  <2>1. \A n \in 0 .. Len(packet) : Prefix(packet, n) \in Seq(Byte)
    BY <1>1, PrefixFacts
  <2> QED BY <1>1, <2>1
<1>3. l \in Nat
  BY <1>2
<1>4. dst = l + 1 /\ buf[0] = Header /\ \A k \in 1 .. l : buf[k] = Prefix(packet, i)[k]
  BY <1>1 DEF FrameInv
<1>5. /\ buf' = [buf EXCEPT ![dst] = Header] /\ dst' = dst + 1 /\ i' = i /\ packet' = packet /\ done' = TRUE
      /\ Size' = Size
  BY DEF CloseFrame, Size
<1>6. Prefix(packet, i)' = Prefix(packet, i)
  BY <1>5 DEF Prefix
<1> HIDE DEF l
<1>7. dst \in DOMAIN buf
  BY <1>1, <1>3, <1>4 DEF EscapeInv, TypeOK, Cells
<1>8. buf'[dst] = Header /\ \A k \in 0 .. l : buf'[k] = buf[k]
  <2>1. \A k \in DOMAIN buf : k # dst => buf'[k] = buf[k]
    BY <1>5
  <2>2. \A k \in 0 .. l : k \in DOMAIN buf /\ k # dst
    BY <1>1, <1>3, <1>4 DEF EscapeInv, TypeOK, Cells
  <2>3. buf'[dst] = Header
    BY <1>5, <1>7
  <2> QED BY <2>1, <2>2, <2>3
<1>9. buf'[0] = Header /\ \A k \in 1 .. l : buf'[k] = Prefix(packet, i)[k]
  <2>1. 0 \in 0 .. l /\ \A k \in 1 .. l : k \in 0 .. l
    BY <1>3
  <2> QED BY <2>1, <1>4, <1>8
<1>10. dst' = l + 2 /\ dst' - 1 = dst
  BY <1>3, <1>4, <1>5
<1> QED BY <1>1, <1>5, <1>6, <1>8, <1>9, <1>10 DEF FrameInv, l

LEMMA FrameStutter == FrameInv /\ UNCHANGED vars => FrameInv'
<1> SUFFICES ASSUME FrameInv, UNCHANGED vars PROVE FrameInv'
  OBVIOUS
<1>1. /\ packet' = packet /\ i' = i /\ buf' = buf /\ dst' = dst /\ done' = done
      /\ Size' = Size
  BY DEF vars, Size
<1>2. Prefix(packet, i)' = Prefix(packet, i)
  BY <1>1 DEF Prefix
<1> QED BY <1>1, <1>2 DEF FrameInv

\* A complete frame, read from the buffer, is that of the packet.
LEMMA FrameFromInv == EscapeInv /\ FrameInv => FrameRight
<1> SUFFICES ASSUME EscapeInv, FrameInv, done
             PROVE  [k \in 1 .. dst |-> buf[k - 1]] = <<Header>> \o Transcode(packet) \o <<Header>>
  BY DEF FrameRight
<1> DEFINE t == Transcode(packet)
           l == Len(t)
           head == <<Header>> \o t
           all == head \o <<Header>>
<1>1. packet \in Seq(Byte) /\ packet # <<>> /\ i = Len(packet) /\ Len(packet) \in Nat
  BY DEF EscapeInv, TypeOK, FrameInv, Size
<1>2. t = Prefix(packet, i) /\ t \in Seq(Byte)
  <2>1. Transcode(packet) = Prefix(packet, Len(packet))
    BY <1>1, PrefixFacts
  <2>2. \A n \in 0 .. Len(packet) : Prefix(packet, n) \in Seq(Byte)
    BY <1>1, PrefixFacts
  <2> QED BY <1>1, <2>1, <2>2
<1>3. /\ dst = l + 2 /\ buf[0] = Header /\ buf[dst - 1] = Header
      /\ \A k \in 1 .. l : buf[k] = t[k]
  BY <1>2 DEF FrameInv
<1> HIDE DEF t
<1>4. l \in Nat /\ Header \in Byte /\ <<Header>> \in Seq(Byte) /\ Len(<<Header>>) = 1 /\ <<Header>>[1] = Header
  BY <1>2, AlphabetAssumption
<1>5. /\ head \in Seq(Byte) /\ Len(head) = 1 + l
      /\ \A k \in 1 .. 1 + l : head[k] = IF k <= 1 THEN <<Header>>[k] ELSE t[k - 1]
  BY <1>2, <1>4, ConcatProperties
<1> HIDE DEF head
<1>6. /\ all \in Seq(Byte) /\ Len(all) = (1 + l) + 1
      /\ \A k \in 1 .. (1 + l) + 1 : all[k] = IF k <= 1 + l THEN head[k] ELSE <<Header>>[k - (1 + l)]
  BY <1>4, <1>5, ConcatProperties
<1> HIDE DEF all
<1>7. DOMAIN all = 1 .. dst /\ all = [k \in 1 .. dst |-> all[k]]
  <2>1. DOMAIN all = 1 .. Len(all) /\ Len(all) = dst
    BY <1>3, <1>4, <1>6
  <2>2. all \in [1 .. Len(all) -> Byte]
    BY <1>6, LenProperties
  <2> QED BY <2>1, <2>2
<1> HIDE DEF l
<1>8. ASSUME NEW k \in 1 .. dst PROVE buf[k - 1] = all[k]
  <2>0. k \in 1 .. (1 + l) + 1
    BY <1>3, <1>4
  <2>1. CASE k = 1
    <3>1. all[1] = head[1] /\ head[1] = <<Header>>[1]
      BY <2>0, <2>1, <1>4, <1>5, <1>6
    <3> QED BY <2>1, <3>1, <1>3, <1>4
  <2>2. CASE k \in 2 .. 1 + l
    <3>1. k - 1 \in 1 .. l /\ k \in 1 .. 1 + l /\ ~(k <= 1) /\ k <= 1 + l
      BY <2>2, <1>4
    <3>2. all[k] = t[k - 1]
      BY <2>0, <3>1, <1>5, <1>6
    <3> QED BY <3>1, <3>2, <1>3
  <2>3. CASE k = l + 2
    <3>1. ~(k <= 1 + l) /\ k - (1 + l) = 1 /\ k = dst
      BY <2>3, <1>3, <1>4
    <3>2. all[k] = <<Header>>[k - (1 + l)]
      BY <2>0, <3>1, <1>6
    <3> QED BY <3>1, <3>2, <1>3, <1>4
  <2> QED BY <2>0, <2>1, <2>2, <2>3, <1>4
<1>9. [k \in 1 .. dst |-> buf[k - 1]] = [k \in 1 .. dst |-> all[k]]
  BY <1>8
<1> QED BY <1>7, <1>9 DEF all, head, t

\* dl_escapedata returns the frame of the packet, with every special byte escaped, although
\* it builds it in the buffer that holds the packet: for every packet, alphabet and buffer.
THEOREM FrameRightHolds == PacketsAssumption => (Spec => []FrameRight)
<1> SUFFICES ASSUME PacketsAssumption PROVE Spec => []FrameRight
  OBVIOUS
<1>1. EscapeInv /\ FrameInv /\ [Next]_vars => FrameInv'
  <2> SUFFICES ASSUME EscapeInv, FrameInv, [Next]_vars PROVE FrameInv'
    OBVIOUS
  <2> QED BY FrameCopy, FrameClose, FrameStutter DEF Next, Returned
<1> QED BY <1>1, FrameInit, FrameFromInv, EscapeInvariant, PTL DEF Spec
==============================================================================
