--------------------------- MODULE UsbRingProofs ---------------------------
(***************************************************************************)
(* The ring of custom_fdl/usbio.c implements the channel of ByteFifo, for  *)
(* every size of ring and packet, for every session of requests and        *)
(* answers, and for both readings of the status registers.                 *)
(***************************************************************************)
EXTENDS UsbRing, SequenceTheorems, TLAPS

Fifo == INSTANCE ByteFifo WITH queue <- Queue

Cells == 0 .. BufSize - 1

\* The number of bytes in the ring.
Used == (wpos - rpos) % BufSize

\* Whatever the host sends, the buffers hold bytes of one set.
Bytes(S) ==
  /\ fifo \in Seq(S) /\ tmp \in Seq(S) /\ out \in Seq(S)
  /\ ring \in [Cells -> S]

Positions == rpos \in Cells /\ wpos \in Cells

\* A packet is being moved in one step of usb_check_int only, and fits.
Packets ==
  /\ Len(fifo) <= MaxRead /\ Len(tmp) <= MaxRead
  /\ pc # "store" => tmp = <<>>

\* usb_check_int is entered only when the ring has room for a packet, and nothing
\* is stored between the test and the store.
RoomInv == pc \in {"check", "recv", "store"} => Used + MaxRead < BufSize

\* What HostSend needs of the host's side: something is left to send as long as it says.
LeftInv == left \in Nat

RingInv == (\E S : Bytes(S)) /\ Positions /\ Packets /\ RoomInv /\ LeftInv

-----------------------------------------------------------------------------
(* Arithmetic of positions.                                                *)

LEMMA ModRange == ASSUME NEW b \in Nat \ {0}, NEW x \in Int PROVE x % b \in 0 .. b - 1
  OBVIOUS

LEMMA ModLow == ASSUME NEW b \in Nat \ {0}, NEW x \in 0 .. b - 1 PROVE x % b = x
  OBVIOUS

LEMMA ModHigh == ASSUME NEW b \in Nat \ {0}, NEW x \in b .. 2 * b - 1 PROVE x % b = x - b
  OBVIOUS

LEMMA ModNeg == ASSUME NEW b \in Nat \ {0}, NEW x \in -b .. -1 PROVE x % b = x + b
  OBVIOUS

\* The distance between two positions.
LEMMA Distance ==
  ASSUME NEW b \in Nat \ {0}, NEW r \in 0 .. b - 1, NEW w \in 0 .. b - 1
  PROVE  (w - r) % b = IF r <= w THEN w - r ELSE w - r + b
  <1>1. CASE r <= w
    BY <1>1, ModLow, w - r \in 0 .. b - 1
  <1>2. CASE ~(r <= w)
    BY <1>2, ModNeg, w - r \in -b .. -1
  <1> QED BY <1>1, <1>2

\* A position moved on by at most one round.
LEMMA Moved ==
  ASSUME NEW b \in Nat \ {0}, NEW r \in 0 .. b - 1, NEW k \in 0 .. b - 1
  PROVE  (r + k) % b = IF r + k < b THEN r + k ELSE r + k - b
  <1>1. CASE r + k < b
    BY <1>1, ModLow, r + k \in 0 .. b - 1
  <1>2. CASE ~(r + k < b)
    BY <1>2, ModHigh, r + k \in b .. 2 * b - 1
  <1> QED BY <1>1, <1>2

\* ((rpos - wpos - 1) & (USB_BUFSIZE - 1)) is what is free in the ring.
LEMMA RoomIsFree ==
  ASSUME NEW b \in Nat \ {0}, NEW r \in 0 .. b - 1, NEW w \in 0 .. b - 1
  PROVE  (r - w - 1) % b = b - 1 - ((w - r) % b)
  <1>1. CASE r <= w
    <2>1. (r - w - 1) % b = r - w - 1 + b
      BY <1>1, ModNeg, r - w - 1 \in -b .. -1
    <2> QED BY <1>1, <2>1, Distance
  <1>2. CASE ~(r <= w)
    <2>1. (r - w - 1) % b = r - w - 1
      BY <1>2, ModLow, r - w - 1 \in 0 .. b - 1
    <2> QED BY <1>2, <2>1, Distance
  <1> QED BY <1>1, <1>2

-----------------------------------------------------------------------------
(* The bytes in the ring.                                                  *)

LEMMA Sizes == ASSUME RingAssumption PROVE BufSize \in Nat \ {0} /\ MaxRead \in Nat \ {0}
  BY DEF RingAssumption

LEMMA UnreadFacts ==
  ASSUME RingAssumption, NEW S, ring \in [Cells -> S], Positions
  PROVE  /\ Used \in Cells
         /\ Unread \in Seq(S)
         /\ Len(Unread) = Used
         /\ \A i \in 1 .. Used : Unread[i] = ring[(rpos + i - 1) % BufSize]
  <1>1. Used \in Cells
    BY Sizes, ModRange, wpos - rpos \in Int DEF Used, Cells, Positions
  <1>2. \A i \in 1 .. Used : (rpos + i - 1) % BufSize \in Cells
    <2> TAKE i \in 1 .. Used
    <2> QED BY <1>1, Sizes, ModRange, rpos + i - 1 \in Int DEF Cells, Positions
  <1>3. Unread = [i \in 1 .. Used |-> ring[(rpos + i - 1) % BufSize]]
    BY DEF Unread, Used
  <1>4. Unread \in [1 .. Used -> S]
    BY <1>2, <1>3
  <1>5. Used \in Nat
    BY <1>1, Sizes DEF Cells
  <1>6. Unread \in Seq(S)
    BY <1>4, <1>5
  <1>7. Len(Unread) = Used
    BY <1>4, <1>5, <1>6
  <1> QED BY <1>1, <1>3, <1>6, <1>7

\* Storing a packet puts its bytes behind the unread ones.
LEMMA StoreAppends ==
  ASSUME RingAssumption, NEW S, Bytes(S), Positions, Packets, RoomInv, Store
  PROVE  /\ wpos' \in Cells /\ ring' \in [Cells -> S]
         /\ Unread' = Unread \o tmp
  <1> DEFINE L == Len(tmp)
  <1>a. L \in Nat /\ L <= MaxRead
    BY DEF Bytes, Packets
  <1>b. rpos' = rpos /\ rpos \in Cells /\ wpos \in Cells /\ wpos' = (wpos + L) % BufSize
    BY DEF Store, Positions, ringVars
  <1>c. Used + MaxRead < BufSize
    BY DEF Store, RoomInv
  <1>d. Used \in Cells
    BY UnreadFacts DEF Bytes
  <1>e. Used = IF rpos <= wpos THEN wpos - rpos ELSE wpos - rpos + BufSize
    BY <1>b, Sizes, Distance DEF Used, Cells
  <1>f. BufSize \in Nat \ {0} /\ MaxRead \in Nat
    BY Sizes
  <1>g. L \in Cells
    BY <1>a, <1>c, <1>d, <1>f DEF Cells
  <1>h. wpos' = IF wpos + L < BufSize THEN wpos + L ELSE wpos + L - BufSize
    BY <1>b, <1>f, <1>g, Moved DEF Cells
  <1>1. wpos' \in Cells
    BY <1>b, <1>f, <1>g, <1>h DEF Cells
  <1>2. Used' = Used + L
    <2>1. Used' = (wpos' - rpos) % BufSize
      BY <1>b DEF Used
    <2>2. Used' = IF rpos <= wpos' THEN wpos' - rpos ELSE wpos' - rpos + BufSize
      <3>1. BufSize \in Nat \ {0} /\ rpos \in 0 .. BufSize - 1 /\ wpos' \in 0 .. BufSize - 1
        BY <1>1, <1>b, <1>f DEF Cells
      <3>2. (wpos' - rpos) % BufSize = IF rpos <= wpos' THEN wpos' - rpos ELSE wpos' - rpos + BufSize
        BY ONLY <3>1, Distance, ZenonT(30)
      <3> QED BY ONLY <2>1, <3>2, Zenon
    <2>3. rpos \in Nat /\ rpos < BufSize /\ wpos \in Nat /\ wpos < BufSize
      BY <1>b, <1>f DEF Cells
    <2>4. Used \in Nat
      BY <1>d, <1>f DEF Cells
    <2> HIDE DEF L
    <2> QED BY ONLY <2>2, <2>3, <2>4, <1>a, <1>c, <1>e, <1>f, <1>h
  <1> DEFINE K(i) == (i - wpos) % BufSize
  <1>i. \A i \in Cells : K(i) = IF wpos <= i THEN i - wpos ELSE i - wpos + BufSize
    BY <1>b, <1>f, Distance DEF Cells
  <1>j. ring \in [Cells -> S] /\ tmp \in Seq(S)
    BY DEF Bytes
  <1>k. ring' = [i \in Cells |-> IF K(i) < L THEN tmp[K(i) + 1] ELSE ring[i]]
    BY <1>j DEF Store
  <1>l. \A i \in Cells : K(i) \in Cells
    BY <1>i, <1>b, <1>f DEF Cells
  <1>m. \A i \in Cells : K(i) < L => tmp[K(i) + 1] \in S
    <2> TAKE i \in Cells
    <2> HAVE K(i) < L
    <2>1. K(i) + 1 \in 1 .. Len(tmp)
      <3>1. K(i) \in Cells
        BY <1>l, Zenon
      <3> HIDE DEF K
      <3> QED BY <3>1, <1>a, <1>f DEF Cells
    <2> HIDE DEF K
    <2> QED BY <2>1, <1>j, ElementOfSeq
  <1> HIDE DEF K
  <1>3. ring' \in [Cells -> S]
    BY <1>j, <1>k, <1>m
  <1>4. Positions'
    BY <1>1, <1>b DEF Positions, Cells
  <1>5. /\ Unread' \in Seq(S) /\ Len(Unread') = Used + L
        /\ \A i \in 1 .. Used + L : Unread'[i] = ring'[(rpos + i - 1) % BufSize]
    <2>1. /\ Used' \in Cells' /\ Unread' \in Seq(S) /\ Len(Unread') = Used'
          /\ \A i \in 1 .. Used' : Unread'[i] = ring'[(rpos' + i - 1) % BufSize]
      <3>1. Cells' = Cells
        BY DEF Cells
      <3> DEFINE U == Unread'
      <3>2. U = [i \in 1 .. Used' |-> ring'[(rpos' + i - 1) % BufSize]]
        BY DEF Unread, Used
      <3>3. Used' \in Nat /\ Used' \in Cells
        BY <1>2, <1>a, <1>c, <1>d, <1>f DEF Cells
      <3>4. \A i \in 1 .. Used' : (rpos' + i - 1) % BufSize \in Cells
        <4> TAKE i \in 1 .. Used'
        <4> QED BY <3>3, <1>b, <1>f, ModRange, rpos' + i - 1 \in Int DEF Cells
      <3>5. U \in [1 .. Used' -> S]
        BY <3>2, <3>4, <1>3
      <3> HIDE DEF U
      <3>6. U \in Seq(S) /\ Len(U) = Used'
        BY <3>5, <3>3
      <3>7. \A i \in 1 .. Used' : U[i] = ring'[(rpos' + i - 1) % BufSize]
        BY <3>2
      <3> QED BY <3>1, <3>3, <3>6, <3>7 DEF U
    <2> QED BY <2>1, <1>2, <1>b
  <1>6. /\ Unread \in Seq(S) /\ Len(Unread) = Used
        /\ \A i \in 1 .. Used : Unread[i] = ring[(rpos + i - 1) % BufSize]
    BY <1>j, UnreadFacts
  <1>7. /\ Unread \o tmp \in Seq(S) /\ Len(Unread \o tmp) = Used + L
        /\ \A i \in 1 .. Used + L :
             (Unread \o tmp)[i] = IF i <= Used THEN Unread[i] ELSE tmp[i - Used]
    BY <1>6, <1>j, ConcatProperties
  <1>8. \A i \in 1 .. Used + L : Unread'[i] = (Unread \o tmp)[i]
    <2> TAKE i \in 1 .. Used + L
    <2>0. Used \in Nat /\ i \in Nat /\ i - 1 \in Cells
      BY <1>a, <1>c, <1>d, <1>f DEF Cells
    <2> DEFINE c == (rpos + i - 1) % BufSize
    <2>1. c = IF rpos + (i - 1) < BufSize THEN rpos + (i - 1) ELSE rpos + (i - 1) - BufSize
      <3>1. (rpos + (i - 1)) % BufSize
              = IF rpos + (i - 1) < BufSize THEN rpos + (i - 1) ELSE rpos + (i - 1) - BufSize
        BY <2>0, <1>b, <1>f, Moved DEF Cells
      <3>2. rpos + i - 1 = rpos + (i - 1)
        BY <2>0, <1>b DEF Cells
      <3> QED BY <3>1, <3>2
    <2>2. c \in Cells
      BY <2>0, <2>1, <1>b, <1>f DEF Cells
    <2>3. Unread'[i] = ring'[c]
      BY <1>5
    <2> HIDE DEF c
    <2>4. K(c) = IF wpos <= c THEN c - wpos ELSE c - wpos + BufSize
      BY <2>2, <1>i DEF K
    <2>5. ring'[c] = IF K(c) < L THEN tmp[K(c) + 1] ELSE ring[c]
      BY <2>2, <1>k
    <2>6. CASE i <= Used
      <3>1. K(c) >= L
        BY <2>6, <2>0, <2>1, <2>2, <2>4, <1>a, <1>b, <1>c, <1>e, <1>f DEF Cells
      <3>2. ring'[c] = ring[c]
        BY <3>1, <2>4, <2>5, <2>2, <1>a, <1>b, <1>f DEF Cells
      <3>3. Unread[i] = ring[c]
        BY <2>6, <2>0, <1>6 DEF c
      <3> QED BY <3>2, <3>3, <2>3, <2>6, <1>7
    <2>7. CASE ~(i <= Used)
      <3>1. K(c) = i - Used - 1
        BY <2>7, <2>0, <2>1, <2>2, <2>4, <1>a, <1>b, <1>c, <1>e, <1>f DEF Cells
      <3>2. K(c) < L /\ K(c) + 1 = i - Used
        BY <3>1, <2>0, <1>a
      <3> QED BY <3>2, <2>3, <2>5, <2>7, <1>7
    <2> QED BY <2>6, <2>7
  <1>9. Unread' = Unread \o tmp
    <2> DEFINE U == Unread'
           V == Unread \o tmp
    <2>1. U \in Seq(S) /\ V \in Seq(S) /\ Len(U) = Len(V) /\ \A i \in 1 .. Len(U) : U[i] = V[i]
      BY <1>5, <1>7, <1>8
    <2> HIDE DEF U, V
    <2>2. U = V
      BY <2>1, SeqEqual
    <2> QED BY <2>2 DEF U, V
  <1> QED BY <1>1, <1>3, <1>9

\* getchar takes the oldest byte out of the ring.
LEMMA TakeIsHead ==
  ASSUME RingAssumption, NEW S, Bytes(S), Positions, TakeByte
  PROVE  /\ rpos' \in Cells
         /\ Unread # <<>>
         /\ Unread' = Tail(Unread)
         /\ ring[rpos] = Head(Unread) /\ ring[rpos] \in S
         /\ Used' <= Used
  <1>a. BufSize \in Nat \ {0}
    BY Sizes
  <1>b. rpos \in Cells /\ wpos \in Cells /\ rpos # wpos /\ wpos' = wpos /\ ring' = ring
    BY DEF TakeByte, Positions
  <1>c. rpos' = (rpos + 1) % BufSize
    BY DEF TakeByte, Advance
  <1>d. 1 \in Cells
    BY <1>a, <1>b DEF Cells
  <1>e. rpos' = IF rpos + 1 < BufSize THEN rpos + 1 ELSE rpos + 1 - BufSize
    BY <1>a, <1>b, <1>c, <1>d, Moved DEF Cells
  <1>1. rpos' \in Cells
    BY <1>a, <1>b, <1>e DEF Cells
  <1>f. Used = IF rpos <= wpos THEN wpos - rpos ELSE wpos - rpos + BufSize
    BY <1>a, <1>b, Distance DEF Used, Cells
  <1>g. Used' = IF rpos' <= wpos THEN wpos - rpos' ELSE wpos - rpos' + BufSize
    <2>1. Used' = (wpos - rpos') % BufSize
      BY <1>b DEF Used
    <2> QED BY <2>1, <1>1, <1>a, <1>b, Distance DEF Cells
  <1>2. Used \in Nat /\ Used > 0 /\ Used' = Used - 1
    BY <1>a, <1>b, <1>e, <1>f, <1>g DEF Cells
  <1>h. ring \in [Cells -> S]
    BY DEF Bytes
  <1>3. /\ Unread \in Seq(S) /\ Len(Unread) = Used
        /\ \A i \in 1 .. Used : Unread[i] = ring[(rpos + i - 1) % BufSize]
    BY <1>h, UnreadFacts
  <1>4. Unread # <<>>
    BY <1>2, <1>3
  <1>5. ring[rpos] = Head(Unread) /\ ring[rpos] \in S
    <2>1. Unread[1] = ring[(rpos + 1 - 1) % BufSize]
      BY <1>2, <1>3
    <2>2. (rpos + 1 - 1) % BufSize = rpos
      <3>1. rpos + 1 - 1 = rpos
        BY <1>b DEF Cells
      <3> QED BY <3>1, <1>a, <1>b, ModLow DEF Cells
    <2>3. Head(Unread) = Unread[1]
      BY <1>3, <1>4
    <2> QED BY <2>1, <2>2, <2>3, <1>b, <1>h
  <1> DEFINE U == Unread'
  <1>6. U = [i \in 1 .. Used - 1 |-> ring[(rpos' + i - 1) % BufSize]]
    <2>1. U = [i \in 1 .. Used' |-> ring'[(rpos' + i - 1) % BufSize]]
      BY DEF Unread, Used
    <2> QED BY <2>1, <1>2, <1>b
  <1>7. \A i \in 1 .. Used - 1 :
          (rpos' + i - 1) % BufSize \in Cells
          /\ (rpos' + i - 1) % BufSize = (rpos + (i + 1) - 1) % BufSize
    <2> TAKE i \in 1 .. Used - 1
    <2>1. i \in Nat /\ i - 1 \in Cells /\ i \in Cells
      BY <1>2, <1>a, <1>b, <1>f DEF Cells
    <2>2. (rpos + i) % BufSize = IF rpos + i < BufSize THEN rpos + i ELSE rpos + i - BufSize
      BY <2>1, <1>a, <1>b, Moved DEF Cells
    <2>3. (rpos' + (i - 1)) % BufSize
            = IF rpos' + (i - 1) < BufSize THEN rpos' + (i - 1) ELSE rpos' + (i - 1) - BufSize
      BY <2>1, <1>1, <1>a, Moved DEF Cells
    <2>4. rpos' + i - 1 = rpos' + (i - 1) /\ rpos + (i + 1) - 1 = rpos + i
      BY <2>1, <1>1, <1>b DEF Cells
    <2>5. (rpos' + (i - 1)) % BufSize = (rpos + i) % BufSize /\ (rpos + i) % BufSize \in Cells
      BY <2>1, <2>2, <2>3, <1>1, <1>a, <1>b, <1>e DEF Cells
    <2> QED BY <2>4, <2>5
  <1>8. U \in [1 .. Used - 1 -> S]
    BY <1>6, <1>7, <1>h
  <1> HIDE DEF U
  <1>9. U \in Seq(S) /\ Len(U) = Used - 1
    BY <1>8, <1>2
  <1>10. /\ Tail(Unread) \in Seq(S) /\ Len(Tail(Unread)) = Used - 1
         /\ \A i \in 1 .. Used - 1 : Tail(Unread)[i] = Unread[i + 1]
    BY <1>3, <1>4, HeadTailProperties
  <1>11. \A i \in 1 .. Used - 1 : U[i] = Tail(Unread)[i]
    <2> TAKE i \in 1 .. Used - 1
    <2>1. U[i] = ring[(rpos' + i - 1) % BufSize]
      BY <1>6
    <2>2. i + 1 \in 1 .. Used
      BY <1>2
    <2>3. Unread[i + 1] = ring[(rpos + (i + 1) - 1) % BufSize]
      BY <2>2, <1>3
    <2> QED BY <2>1, <2>3, <1>7, <1>10
  <1>12. U = Tail(Unread)
    BY <1>9, <1>10, <1>11, SeqEqual
  <1> QED BY <1>1, <1>2, <1>4, <1>5, <1>12 DEF U

-----------------------------------------------------------------------------
(* The invariant.                                                          *)

LEMMA RingInit == RingAssumption /\ Init => RingInv
  <1> SUFFICES ASSUME RingAssumption, Init PROVE RingInv
    OBVIOUS
  <1>1. Bytes({0})
    BY EmptySeq DEF Init, InitEndp2, Bytes, Cells
  <1>2. Positions
    BY Sizes DEF Init, Positions, Cells
  <1>3. Packets
    BY Sizes DEF Init, InitEndp2, Packets
  <1>4. RoomInv
    BY DEF Init, RoomInv
  <1>5. session[1] \in [size : Nat \ {0}, answer : Nat \ {0}]
    <2>1. session \in Seq([size : Nat \ {0}, answer : Nat \ {0}]) /\ session # <<>>
      BY DEF RingAssumption, Init
    <2>2. 1 \in 1 .. Len(session)
      BY <2>1
    <2> QED BY <2>1, <2>2, ElementOfSeq
  <1>6. LeftInv
    BY <1>5 DEF Init, LeftInv
  <1> QED BY <1>1, <1>2, <1>3, <1>4, <1>6 DEF RingInv

\* The session never changes and is one of Exchanges; HostTake looks at its requests.
SessionInv == session \in Exchanges /\ req \in 1 .. Len(session)

LEMMA SessionStep == RingAssumption /\ SessionInv /\ [Next]_vars => SessionInv'
  <1> SUFFICES ASSUME RingAssumption, SessionInv, [Next]_vars PROVE SessionInv'
    OBVIOUS
  <1>1. CASE HostTake
    <2>1. session' = session
      BY <1>1 DEF HostTake
    <2>2. Len(session) \in Nat
      BY DEF RingAssumption, SessionInv
    <2>3. req' = req \/ (req' = req + 1 /\ req < Len(session))
      BY <1>1 DEF HostTake
    <2> QED BY <2>1, <2>2, <2>3 DEF SessionInv
  <1>2. CASE UNCHANGED <<session, req>>
    BY <1>2 DEF SessionInv
  <1>3. HostTake \/ UNCHANGED <<session, req>>
    BY DEF Next, HostSend, HostSetup, Device, CheckInt, Recv, Store, ClearEndp2, ServeEndp0,
           ClearEndp0, Getchar, TakeByte, NoByte, UsbSend, UsbSent, vars, hostVars
  <1> QED BY <1>1, <1>2, <1>3

LEMMA RingStep == RingAssumption /\ RingInv /\ SessionInv /\ [Next]_vars => RingInv'
  <1> SUFFICES ASSUME RingAssumption, RingInv, SessionInv, [Next]_vars PROVE RingInv'
    OBVIOUS
  <1>s. PICK S : Bytes(S)
    BY DEF RingInv
  <1>b. BufSize \in Nat \ {0} /\ MaxRead \in Nat \ {0} /\ MaxRead < BufSize
    BY DEF RingAssumption
  <1>p. Positions /\ Packets /\ RoomInv /\ LeftInv
    BY DEF RingInv
  <1>u. Used \in Nat
    BY <1>s, <1>p, <1>b, UnreadFacts DEF Bytes, Cells
  <1>1. CASE HostSend
    <2> DEFINE n == Least(left, MaxRead)
               e(i) == Offset[req] + session[req].size - left + i
    <2>1. n \in Nat /\ n <= MaxRead /\ left - n \in Nat
      BY <1>1, <1>p, <1>b DEF HostSend, LeftInv, Least
    <2>2. fifo' = [i \in 1 .. n |-> e(i)]
      BY <1>1 DEF HostSend
    <2>3. \E X : S \subseteq X /\ fifo' \in [1 .. n -> X]
      <3> HIDE DEF e, n
      <3> WITNESS S \cup {e(i) : i \in 1 .. n}
      <3> QED BY <2>2
    <2>5. PICK T : S \subseteq T /\ fifo' \in [1 .. n -> T]
      BY <2>3
    <2>4. left' = left - n /\ UNCHANGED <<tmp, out, ring, rpos, wpos, pc>>
      BY <1>1 DEF HostSend, ringVars
    <2> HIDE DEF n
    <2>6. fifo' \in Seq(T) /\ Len(fifo') = n
      BY <2>1, <2>5
    <2>7. tmp \in Seq(T) /\ out \in Seq(T)
      BY <2>5, <1>s, SeqMonotonic DEF Bytes
    <2>8. ring \in [Cells -> T]
      BY <2>5, <1>s DEF Bytes
    <2>9. Bytes(T)'
      BY <2>4, <2>6, <2>7, <2>8 DEF Bytes, Cells
    <2>10. Positions' /\ Packets' /\ LeftInv'
      BY <2>1, <2>4, <2>6, <1>p DEF Positions, Packets, LeftInv, Cells
    <2>11. RoomInv'
      BY <2>4, <1>p DEF RoomInv, Used
    <2> QED BY <2>9, <2>10, <2>11 DEF RingInv
  <1>2. CASE HostTake
    <2>1. UNCHANGED <<fifo, tmp, out, ring, rpos, wpos, pc>>
      BY <1>2 DEF HostTake, epVars, ringVars
    <2>2. LeftInv'
      <3>1. CASE left' = left
        BY <3>1, <1>p DEF LeftInv
      <3>2. CASE left' = session[req + 1].size /\ req < Len(session)
        <4>1. session \in Seq([size : Nat \ {0}, answer : Nat \ {0}])
          BY DEF RingAssumption, SessionInv
        <4>2. req + 1 \in 1 .. Len(session)
          BY <3>2, <4>1 DEF SessionInv
        <4>3. session[req + 1] \in [size : Nat \ {0}, answer : Nat \ {0}]
          BY <4>1, <4>2, ElementOfSeq
        <4> QED BY <3>2, <4>3 DEF LeftInv
      <3> QED BY <3>1, <3>2, <1>2 DEF HostTake
    <2>3. Bytes(S)' /\ Positions' /\ Packets'
      BY <2>1, <1>s, <1>p DEF Bytes, Positions, Packets, Cells
    <2>4. RoomInv'
      BY <2>1, <1>p DEF RoomInv, Used
    <2> QED BY <2>2, <2>3, <2>4 DEF RingInv
  <1>3. CASE Recv
    <2>1. UNCHANGED <<out, ring, rpos, wpos, left>> /\ pc = "recv" /\ pc' = "store"
      BY <1>3 DEF Recv, hostVars, ringVars
    <2>2. tmp = <<>>
      BY <2>1, <1>p DEF Packets
    <2>3. \/ tmp' = fifo /\ fifo' = <<>>
          \/ tmp' = tmp /\ fifo' = fifo
      BY <1>3 DEF Recv
    <2>4. Bytes(S)'
      <3>1. <<>> \in Seq(S)
        BY EmptySeq
      <3> QED BY <3>1, <2>1, <2>3, <1>s DEF Bytes, Cells
    <2>5. Packets'
      BY <2>1, <2>2, <2>3, <1>p, <1>b DEF Packets
    <2>6. RoomInv' /\ Positions' /\ LeftInv'
      BY <2>1, <1>p DEF RoomInv, Used, Positions, LeftInv, Cells
    <2> QED BY <2>4, <2>5, <2>6 DEF RingInv
  <1>4. CASE Store
    <2>1. wpos' \in Cells /\ ring' \in [Cells -> S]
      BY <1>4, <1>s, <1>p, StoreAppends
    <2>2. UNCHANGED <<out, fifo, rpos, left>> /\ pc' = "clear" /\ tmp' = <<>>
      BY <1>4 DEF Store, hostVars
    <2>3. Bytes(S)'
      <3>1. <<>> \in Seq(S)
        BY EmptySeq
      <3> QED BY <3>1, <2>1, <2>2, <1>s DEF Bytes, Cells
    <2>4. Packets'
      BY <2>2, <1>p, <1>b DEF Packets
    <2>5. RoomInv' /\ Positions' /\ LeftInv'
      BY <2>1, <2>2, <1>p DEF RoomInv, Positions, LeftInv, Cells
    <2> QED BY <2>3, <2>4, <2>5 DEF RingInv
  <1>5. CASE TakeByte
    <2>1. rpos' \in Cells /\ ring[rpos] \in S
      BY <1>5, <1>s, <1>p, TakeIsHead
    <2>2. UNCHANGED <<fifo, tmp, wpos, ring, left>> /\ pc' = "app" /\ out' = Append(out, ring[rpos])
      BY <1>5 DEF TakeByte, hostVars, epVars
    <2>3. pc # "store"
      BY <1>5 DEF TakeByte
    <2>4. Bytes(S)'
      <3>1. Append(out, ring[rpos]) \in Seq(S)
        BY <2>1, <1>s DEF Bytes
      <3> QED BY <3>1, <2>2, <1>s DEF Bytes, Cells
    <2>5. Packets'
      BY <2>2, <2>3, <1>p DEF Packets
    <2>6. RoomInv' /\ Positions' /\ LeftInv'
      BY <2>1, <2>2, <1>p DEF RoomInv, Positions, LeftInv, Cells
    <2> QED BY <2>4, <2>5, <2>6 DEF RingInv
  <1>6. CASE Getchar
    <2>1. UNCHANGED <<fifo, tmp, out, ring, rpos, wpos, left>> /\ pc' = "check" /\ pc = "app"
      BY <1>6 DEF Getchar, hostVars, epVars, ringVars
    <2>2. Used + MaxRead < BufSize
      <3>1. CASE rpos = wpos
        <4>1. Used = 0
          BY <3>1, <1>p, <1>b, Distance DEF Used, Positions, Cells
        <4> QED BY <4>1, <1>b
      <3>2. CASE Room
        <4>1. (rpos - wpos - 1) % BufSize = BufSize - 1 - Used
          BY <1>p, <1>b, RoomIsFree DEF Used, Positions, Cells
        <4> QED BY <4>1, <3>2, <1>b, <1>u DEF Room
      <3> QED BY <3>1, <3>2, <1>6 DEF Getchar
    <2>3. RoomInv'
      BY <2>1, <2>2 DEF RoomInv, Used
    <2>4. Bytes(S)' /\ Positions' /\ Packets' /\ LeftInv'
      BY <2>1, <1>s, <1>p DEF Bytes, Positions, Packets, LeftInv, Cells
    <2> QED BY <2>3, <2>4 DEF RingInv
  <1>7. CASE NoByte
    <2>1. UNCHANGED <<fifo, tmp, out, ring, rpos, wpos, left>> /\ pc = "checked"
          /\ pc' \in {"check", "app"} /\ rpos = wpos
      BY <1>7 DEF NoByte, hostVars, epVars, ringVars
    <2>2. Used = 0
      BY <2>1, <1>p, <1>b, Distance DEF Used, Positions, Cells
    <2>3. RoomInv'
      <3>1. Used' = Used
        BY <2>1 DEF Used
      <3> QED BY <3>1, <2>2, <1>b DEF RoomInv
    <2>4. Bytes(S)' /\ Positions' /\ Packets' /\ LeftInv'
      BY <2>1, <1>s, <1>p DEF Bytes, Positions, Packets, LeftInv, Cells
    <2> QED BY <2>3, <2>4 DEF RingInv
  <1>8. CASE /\ UNCHANGED <<fifo, tmp, out, ring, rpos, wpos, left>>
             /\ \/ pc' = pc
                \/ pc = "check" /\ pc' = "recv"
                \/ pc # "store" /\ pc' \in {"endp0", "clear0", "checked"}
    <2>1. Bytes(S)' /\ Positions' /\ LeftInv'
      BY <1>8, <1>s, <1>p DEF Bytes, Positions, LeftInv, Cells
    <2>2. Packets'
      BY <1>8, <1>p DEF Packets
    <2>3. RoomInv'
      BY <1>8, <1>p DEF RoomInv, Used
    <2> QED BY <2>1, <2>2, <2>3 DEF RingInv
  <1>9. CASE HostSetup \/ UsbSend \/ UsbSent \/ UNCHANGED vars
    BY <1>8, <1>9 DEF HostSetup, UsbSend, UsbSent, vars, hostVars, epVars, ringVars
  <1>10. CASE CheckInt
    BY <1>8, <1>10 DEF CheckInt, hostVars, epVars, ringVars
  <1>11. CASE ClearEndp2 \/ ServeEndp0 \/ ClearEndp0
    BY <1>8, <1>11 DEF ClearEndp2, ServeEndp0, ClearEndp0, hostVars, epVars, ringVars
  <1> QED
    BY <1>1, <1>2, <1>3, <1>4, <1>5, <1>6, <1>7, <1>9, <1>10, <1>11 DEF Next, Device

-----------------------------------------------------------------------------
(* The refinement.                                                         *)

LEMMA QueueInit == RingAssumption /\ Init => Fifo!Init
  <1> SUFFICES ASSUME RingAssumption, Init PROVE Queue = <<>> /\ out = <<>>
    BY DEF Fifo!Init
  <1>1. Bytes({0}) /\ Positions
    BY Sizes, EmptySeq DEF Init, InitEndp2, Bytes, Positions, Cells
  <1>2. Used = 0
    BY Sizes, ModLow DEF Init, Used
  <1>3. Unread \in Seq({0}) /\ Len(Unread) = 0
    BY <1>1, <1>2, UnreadFacts DEF Bytes
  <1>4. Unread = <<>> /\ tmp = <<>> /\ fifo = <<>> /\ out = <<>>
    BY <1>3, EmptySeq DEF Init, InitEndp2
  <1>5. <<>> \o <<>> = <<>>
    BY ConcatEmptySeq, EmptySeq
  <1> QED BY <1>4, <1>5 DEF Queue

\* Every step of the ring and its host puts a packet, gets a byte or leaves the
\* bytes under way as they are.
LEMMA QueueStep ==
  RingAssumption /\ RingInv /\ [Next]_vars => [Fifo!Next]_<<Queue, out>>
  <1> SUFFICES ASSUME RingAssumption, RingInv, [Next]_vars
               PROVE  Fifo!Put \/ Fifo!Get \/ UNCHANGED <<Queue, out>>
    BY DEF Fifo!Next
  <1>s. PICK S : Bytes(S)
    BY DEF RingInv
  <1>b. BufSize \in Nat \ {0} /\ MaxRead \in Nat \ {0}
    BY DEF RingAssumption
  <1>p. Positions /\ Packets /\ RoomInv /\ LeftInv
    BY DEF RingInv
  <1>q. Unread \in Seq(S) /\ tmp \in Seq(S) /\ fifo \in Seq(S) /\ out \in Seq(S)
    BY <1>s, <1>p, UnreadFacts DEF Bytes
  <1>e. \A s \in Seq(S) : s \o <<>> = s /\ <<>> \o s = s
    BY ConcatEmptySeq
  <1>1. CASE HostSend
    <2> DEFINE n == Least(left, MaxRead)
               T == S \cup {Offset[req] + session[req].size - left + i : i \in 1 .. n}
               Q == Unread \o tmp
    <2>1. n \in 1 .. MaxRead
      BY <1>1, <1>p, <1>b DEF HostSend, LeftInv, Least
    <2>2. fifo' = [i \in 1 .. n |-> Offset[req] + session[req].size - left + i]
      BY <1>1 DEF HostSend
    <2>3. fifo' \in [1 .. n -> T]
      BY <2>2
    <2>4. UNCHANGED <<tmp, out, ring, rpos, wpos>> /\ fifo = <<>>
      BY <1>1 DEF HostSend, ringVars
    <2>5. Q \in Seq(S)
      BY <1>q, ConcatProperties
    <2>6. S \subseteq T
      OBVIOUS
    <2>7. Unread' = Unread
      BY <2>4 DEF Unread
    <2>8. Queue = Q
      BY <2>4, <2>5, <1>e DEF Queue
    <2>9. Queue' = Q \o fifo'
      BY <2>4, <2>7 DEF Queue
    <2> HIDE DEF n, T, Q
    <2>10. Q \in Seq(T)
      BY <2>5, <2>6, SeqMonotonic
    <2>11. fifo' \in Seq(T) /\ Len(fifo') = n
      BY <2>1, <2>3
    <2>12. Len(Q \o fifo') = Len(Q) + n
      BY <2>10, <2>11, ConcatProperties
    <2>13. Len(Q) \in Nat
      BY <2>10
    <2>14. SubSeq(Q \o fifo', 1, Len(Q)) = Q
      <3>1. CASE Len(Q) = 0
        <4>1. Q = <<>>
          BY <3>1, <2>10, EmptySeq
        <4> QED BY <4>1, <3>1, SubSeqEmpty
      <3>2. CASE Len(Q) # 0
        <4>1. 1 \in 1 .. Len(Q) /\ Len(Q) \in 1 .. Len(Q)
          BY <3>2, <2>13
        <4>2. SubSeq(Q \o fifo', 1, Len(Q)) = SubSeq(Q, 1, Len(Q))
          BY <4>1, <2>10, <2>11, SubSeqOfConcat1
        <4> QED BY <4>2, <2>10, SubSeqFull
      <3> QED BY <3>1, <3>2
    <2>15. Len(Queue') \in Len(Queue) + 1 .. Len(Queue) + MaxRead
      BY <2>1, <2>8, <2>9, <2>12, <2>13, <1>b
    <2> QED BY <2>4, <2>8, <2>9, <2>14, <2>15 DEF Fifo!Put
  <1>2. CASE Recv
    <2>1. UNCHANGED <<out, ring, rpos, wpos>> /\ tmp = <<>>
      BY <1>2, <1>p DEF Recv, ringVars, Packets
    <2>2. Unread' = Unread
      BY <2>1 DEF Unread
    <2>3. CASE tmp' = fifo /\ fifo' = <<>>
      <3>1. Queue = Unread \o fifo
        BY <2>1, <1>q, <1>e DEF Queue
      <3>2. Unread \o fifo \in Seq(S)
        BY <1>q, ConcatProperties
      <3>3. Queue' = (Unread \o fifo) \o <<>>
        BY <2>2, <2>3 DEF Queue
      <3> QED BY <2>1, <3>1, <3>2, <3>3, <1>e
    <2>4. CASE tmp' = tmp /\ fifo' = fifo
      BY <2>1, <2>2, <2>4 DEF Queue
    <2> QED BY <2>3, <2>4, <1>2 DEF Recv
  <1>3. CASE Store
    <2>1. Unread' = Unread \o tmp /\ tmp' = <<>> /\ UNCHANGED <<fifo, out>>
      BY <1>3, <1>s, <1>p, StoreAppends DEF Store
    <2>2. Unread \o tmp \in Seq(S)
      BY <1>q, ConcatProperties
    <2>3. Queue' = ((Unread \o tmp) \o <<>>) \o fifo
      BY <2>1 DEF Queue
    <2> QED BY <2>1, <2>2, <2>3, <1>e DEF Queue
  <1>4. CASE TakeByte
    <2>1. Unread # <<>> /\ Unread' = Tail(Unread) /\ ring[rpos] = Head(Unread)
      BY <1>4, <1>s, <1>p, TakeIsHead
    <2>2. UNCHANGED <<tmp, fifo>> /\ out' = Append(out, ring[rpos])
      BY <1>4 DEF TakeByte, epVars
    <2> DEFINE R == tmp \o fifo
    <2>3. R \in Seq(S) /\ Tail(Unread) \in Seq(S)
      BY <1>q, <2>1, ConcatProperties, HeadTailProperties
    <2>4. Queue = Unread \o R /\ Queue' = Tail(Unread) \o R
      <3>1. (Unread \o tmp) \o fifo = Unread \o (tmp \o fifo)
        BY <1>q, ConcatAssociative
      <3>2. (Tail(Unread) \o tmp) \o fifo = Tail(Unread) \o (tmp \o fifo)
        <4> DEFINE U == Tail(Unread)
        <4>1. U \in Seq(S)
          BY <2>3
        <4> HIDE DEF U
        <4>2. (U \o tmp) \o fifo = U \o (tmp \o fifo)
          BY ONLY <4>1, <1>q, ConcatAssociative, SMTT(40)
        <4> QED BY <4>2 DEF U
      <3> QED BY <2>1, <2>2, <3>1, <3>2 DEF Queue
    <2> HIDE DEF R
    <2>5. /\ Unread \o R \in Seq(S) /\ Len(Unread \o R) = Len(Unread) + Len(R)
          /\ \A i \in 1 .. Len(Unread) + Len(R) :
               (Unread \o R)[i] = IF i <= Len(Unread) THEN Unread[i] ELSE R[i - Len(Unread)]
      BY <1>q, <2>3, ConcatProperties
    <2>6. Len(Unread) \in Nat \ {0} /\ Len(R) \in Nat
      BY <1>q, <2>1, <2>3, EmptySeq
    <2>7. Unread \o R # <<>>
      BY <2>5, <2>6
    <2>8. Head(Unread \o R) = Head(Unread)
      <3>1. (Unread \o R)[1] = Unread[1]
        BY <2>5, <2>6
      <3> QED BY <3>1, <2>5, <2>7, <1>q, <2>1
    <2>9. Tail(Unread \o R) = Tail(Unread) \o R
      <3>1. /\ Tail(Unread \o R) \in Seq(S) /\ Len(Tail(Unread \o R)) = Len(Unread) + Len(R) - 1
            /\ \A i \in 1 .. Len(Unread) + Len(R) - 1 : Tail(Unread \o R)[i] = (Unread \o R)[i + 1]
        BY <2>5, <2>7, HeadTailProperties
      <3>2. /\ Len(Tail(Unread)) = Len(Unread) - 1
            /\ \A i \in 1 .. Len(Unread) - 1 : Tail(Unread)[i] = Unread[i + 1]
        BY <1>q, <2>1, HeadTailProperties
      <3>3. /\ Tail(Unread) \o R \in Seq(S)
            /\ Len(Tail(Unread) \o R) = Len(Unread) - 1 + Len(R)
            /\ \A i \in 1 .. Len(Unread) - 1 + Len(R) :
                 (Tail(Unread) \o R)[i]
                   = IF i <= Len(Unread) - 1 THEN Tail(Unread)[i] ELSE R[i - (Len(Unread) - 1)]
        BY <2>3, <3>2, ConcatProperties
      <3>4. \A i \in 1 .. Len(Unread) + Len(R) - 1 : Tail(Unread \o R)[i] = (Tail(Unread) \o R)[i]
        <4> TAKE i \in 1 .. Len(Unread) + Len(R) - 1
        <4>0. i + 1 \in 1 .. Len(Unread) + Len(R) /\ i \in 1 .. Len(Unread) - 1 + Len(R)
          BY <2>6
        <4>1. Tail(Unread \o R)[i] = (Unread \o R)[i + 1]
          BY <3>1
        <4>2. CASE i <= Len(Unread) - 1
          <5>1. (Unread \o R)[i + 1] = Unread[i + 1]
            BY <4>0, <4>2, <2>5, <2>6
          <5>2. (Tail(Unread) \o R)[i] = Unread[i + 1]
            BY <4>0, <4>2, <3>2, <3>3, <2>6
          <5> QED BY <4>1, <5>1, <5>2
        <4>3. CASE ~(i <= Len(Unread) - 1)
          <5>1. (Unread \o R)[i + 1] = R[i + 1 - Len(Unread)]
            BY <4>0, <4>3, <2>5, <2>6
          <5>2. (Tail(Unread) \o R)[i] = R[i - (Len(Unread) - 1)]
            BY <4>0, <4>3, <3>3
          <5>3. i + 1 - Len(Unread) = i - (Len(Unread) - 1)
            BY <2>6
          <5> QED BY <4>1, <5>1, <5>2, <5>3
        <4> QED BY <4>2, <4>3
      <3>5. Len(Tail(Unread \o R)) = Len(Tail(Unread) \o R)
        BY <3>1, <3>3, <2>6
      <3> QED BY <3>1, <3>3, <3>4, <3>5, SeqEqual
    <2> QED BY <2>1, <2>2, <2>4, <2>7, <2>8, <2>9 DEF Fifo!Get
  <1>5. CASE UNCHANGED <<fifo, tmp, out, ring, rpos, wpos>>
    <2>1. Unread' = Unread
      BY <1>5 DEF Unread
    <2> QED BY <1>5, <2>1 DEF Queue
  <1>6. HostSend \/ Recv \/ Store \/ TakeByte \/ UNCHANGED <<fifo, tmp, out, ring, rpos, wpos>>
    BY DEF Next, Device, HostSetup, HostTake, CheckInt, ClearEndp2, ServeEndp0, ClearEndp0,
           Getchar, NoByte, UsbSend, UsbSent, vars, epVars, ringVars
  <1> QED BY <1>1, <1>2, <1>3, <1>4, <1>5, <1>6

\* Nothing is under way when usb_init returns.
LEMMA RingStarts == RingAssumption /\ Init => RingInv /\ SessionInv
  <1> SUFFICES ASSUME RingAssumption, Init PROVE RingInv /\ SessionInv
    OBVIOUS
  <1>1. session \in Seq([size : Nat \ {0}, answer : Nat \ {0}]) /\ session # <<>> /\ req = 1
    BY DEF RingAssumption, Init
  <1>2. req \in 1 .. Len(session)
    BY <1>1
  <1> QED BY <1>2, RingInit DEF Init, SessionInv

\* usb_channel_getchar returns the bytes that the host puts on endpoint 2 in order, none
\* lost and none twice, for every size of ring and packet, whether it waits or polls, with
\* packets arriving between any two accesses of usb_check_int, control requests among them,
\* and with either reading of the status registers.
THEOREM RingImplementsFifo == RingAssumption => (Spec => Fifo!Spec)
  <1> SUFFICES ASSUME RingAssumption PROVE Spec => Fifo!Spec
    OBVIOUS
  <1>1. Init => RingInv /\ SessionInv
    BY RingStarts
  <1>2. RingInv /\ SessionInv /\ [Next]_vars => (RingInv /\ SessionInv)'
    BY RingStep, SessionStep
  <1>3. Init => Fifo!Init
    BY QueueInit
  <1>4. RingInv /\ [Next]_vars => [Fifo!Next]_<<Queue, out>>
    BY QueueStep
  <1> QED BY <1>1, <1>2, <1>3, <1>4, PTL DEF Spec, Fifo!Spec

-----------------------------------------------------------------------------
(* The registers of the controller and the count of bytes that are due.    *)

RegisterInv ==
  /\ latched \in BOOLEAN /\ ready \in BOOLEAN /\ sts2 \in BOOLEAN /\ sts0 \in BOOLEAN
  /\ wait \in BOOLEAN
  /\ setup \in {"none", "descriptor", "other"} /\ setups \in 0 .. MaxSetups
  /\ pc \in {"app", "check", "recv", "store", "clear", "endp0", "clear0", "checked"}
  /\ mask \subseteq {0, 2, 3}

\* Bytes that the host has sent and getchar has not returned.
Held == Used + Len(tmp) + Len(fifo)

\* No more bytes come than the FDL waits for. While it answers, nothing is on its way,
\* and it waits for the whole next request, until the host has taken the last packet.
DueInv ==
  /\ txq \in Seq(Int) /\ sent \in {"no", "full", "taken"}
  /\ sent # "no" => txq # <<>>
  /\ txq # <<>> => pc = "app"
  /\ need \in Nat /\ left + Held <= need
  /\ txq # <<>> /\ ~(sent = "taken" /\ Len(txq) = 1)
       => left = 0 /\ Held = 0 /\ (req < Len(session) => need = session[req + 1].size)

\* The sum that Held is, of what the steps of the ring show.
LEMMA HeldFacts ==
  ASSUME RingAssumption, RingInv
  PROVE  Used \in Nat /\ Len(tmp) \in Nat /\ Len(fifo) \in Nat /\ Held \in Nat /\ left \in Nat
  <1>1. PICK S : Bytes(S)
    BY DEF RingInv
  <1>2. Used \in Nat
    BY <1>1, UnreadFacts, Sizes DEF RingInv, Bytes, Cells
  <1>3. Len(tmp) \in Nat /\ Len(fifo) \in Nat
    BY <1>1 DEF Bytes
  <1> QED BY <1>2, <1>3 DEF Held, RingInv, LeftInv

\* usb_channel_write sends at least one packet.
LEMMA SomePacket ==
  ASSUME RingAssumption, NEW n \in Nat \ {0}
  PROVE  PacketSizes(n) \in Seq(Int) /\ PacketSizes(n) # <<>>
  <1> DEFINE full == (n - 1) \div MaxRead
             rest == n - full * MaxRead
             tail == IF rest = MaxRead THEN <<rest \div 2, rest \div 2>> ELSE <<rest>>
             heads == [j \in 1 .. full |-> MaxRead]
  <1>1. MaxRead \in Nat \ {0} /\ n - 1 \in Nat
    BY Sizes
  <1>2. full \in Nat
    BY <1>1
  <1> HIDE DEF full
  <1>3. full * MaxRead \in Nat
    BY <1>1, <1>2
  <1>4. rest \in Int
    BY <1>3
  <1>5. PacketSizes(n) = heads \o tail
    BY DEF PacketSizes, full
  <1> HIDE DEF rest
  <1>6. tail \in Seq(Int) /\ Len(tail) \in {1, 2}
    <2>1. CASE rest = MaxRead
      <3>1. rest \div 2 \in Int
        BY <2>1, <1>1
      <3> QED BY <2>1, <3>1
    <2>2. CASE rest # MaxRead
      BY <2>2, <1>4
    <2> QED BY <2>1, <2>2
  <1>7. heads \in Seq(Int) /\ Len(heads) = full
    <2>1. heads \in [1 .. full -> Int]
      BY <1>1
    <2> QED BY <2>1, <1>2
  <1> HIDE DEF tail, heads
  <1>8. heads \o tail \in Seq(Int) /\ Len(heads \o tail) = Len(heads) + Len(tail)
    BY <1>6, <1>7, ConcatProperties
  <1>9. Len(heads \o tail) > 0
    BY <1>2, <1>6, <1>7, <1>8
  <1> DEFINE both == heads \o tail
  <1>10. both \in Seq(Int) /\ Len(both) > 0
    BY <1>8, <1>9
  <1> HIDE DEF both
  <1>11. both # <<>>
    BY <1>10
  <1> QED BY <1>5, <1>10, <1>11 DEF both

LEMMA RegisterStep == RegisterInv /\ MaxSetups \in Nat /\ [Next]_vars => RegisterInv'
  <1> SUFFICES ASSUME RegisterInv, MaxSetups \in Nat, [Next]_vars PROVE RegisterInv'
    OBVIOUS
  <1>1. CASE HostSend
    BY <1>1 DEF RegisterInv, HostSend, ctlVars
  <1>2. CASE HostSetup
    <2>1. setups + 1 \in 0 .. MaxSetups
      BY <1>2 DEF RegisterInv, HostSetup
    <2> QED BY <1>2, <2>1 DEF RegisterInv, HostSetup, hostVars, epVars
  <1>3. CASE HostTake
    BY <1>3 DEF RegisterInv, HostTake, ctlVars, epVars
  <1>4. CASE CheckInt
    BY <1>4 DEF RegisterInv, CheckInt, ReadMask, hostVars, ctlVars, epVars
  <1>5. CASE Recv
    BY <1>5 DEF RegisterInv, Recv, hostVars, ctlVars
  <1>6. CASE Store
    BY <1>6 DEF RegisterInv, Store, hostVars, ctlVars
  <1>7. CASE ClearEndp2
    BY <1>7 DEF RegisterInv, ClearEndp2, hostVars, ctlVars
  <1>8. CASE ServeEndp0
    BY <1>8 DEF RegisterInv, ServeEndp0, hostVars, epVars
  <1>9. CASE ClearEndp0
    BY <1>9 DEF RegisterInv, ClearEndp0, hostVars, epVars
  <1>10. CASE Getchar
    BY <1>10 DEF RegisterInv, Getchar, hostVars, ctlVars, epVars
  <1>11. CASE TakeByte
    BY <1>11 DEF RegisterInv, TakeByte, hostVars, ctlVars, epVars
  <1>12. CASE NoByte
    BY <1>12 DEF RegisterInv, NoByte, hostVars, ctlVars, epVars
  <1>13. CASE UsbSend \/ UsbSent
    BY <1>13 DEF RegisterInv, UsbSend, UsbSent, hostVars, ctlVars, epVars
  <1>14. CASE UNCHANGED vars
    BY <1>14 DEF RegisterInv, vars, hostVars, ctlVars, epVars
  <1> QED BY <1>1, <1>2, <1>3, <1>4, <1>5, <1>6, <1>7, <1>8, <1>9, <1>10, <1>11, <1>12, <1>13,
             <1>14 DEF Next, Device

LEMMA ExchangeFacts ==
  ASSUME RingAssumption, NEW s \in Exchanges
  PROVE  /\ Len(s) \in Nat \ {0}
         /\ \A i \in 1 .. Len(s) : s[i].size \in Nat \ {0} /\ s[i].answer \in Nat \ {0}
  <1>1. s \in Seq([size : Nat \ {0}, answer : Nat \ {0}]) /\ s # <<>>
    BY DEF RingAssumption
  <1>2. Len(s) \in Nat \ {0}
    BY <1>1
  <1>3. \A i \in 1 .. Len(s) : s[i] \in [size : Nat \ {0}, answer : Nat \ {0}]
    <2> DEFINE X == [size : Nat \ {0}, answer : Nat \ {0}]
    <2>1. s \in Seq(X)
      BY <1>1
    <2> HIDE DEF X
    <2>2. \A i \in 1 .. Len(s) : s[i] \in X
      BY <2>1
    <2> QED BY <2>2 DEF X
  <1> QED BY <1>2, <1>3

LEMMA DueStep == RingAssumption /\ RingInv /\ SessionInv /\ DueInv /\ [Next]_vars => DueInv'
  <1> SUFFICES ASSUME RingAssumption, RingInv, SessionInv, DueInv, [Next]_vars PROVE DueInv'
    OBVIOUS
  <1>s. PICK S : Bytes(S)
    BY DEF RingInv
  <1>p. Positions /\ Packets /\ RoomInv
    BY DEF RingInv
  <1>h. Used \in Nat /\ Len(tmp) \in Nat /\ Len(fifo) \in Nat /\ Held \in Nat /\ left \in Nat
    BY HeldFacts
  <1>n. /\ Len(session) \in Nat /\ req \in 1 .. Len(session)
        /\ \A i \in 1 .. Len(session) : session[i].size \in Nat \ {0} /\ session[i].answer \in Nat \ {0}
    BY ExchangeFacts DEF SessionInv
  <1>d. need \in Nat /\ left + Held <= need /\ txq \in Seq(Int)
    BY DEF DueInv
  <1>1. CASE HostSend
    <2>1. Len(fifo) = 0 /\ left > 0
      BY <1>1 DEF HostSend
    <2> DEFINE n == Least(left, MaxRead)
    <2>2. n \in Nat /\ n <= left
      BY <1>h, Sizes DEF Least
    <2>3. fifo' = [i \in 1 .. n |-> Offset[req] + session[req].size - left + i] /\ left' = left - n
      BY <1>1 DEF HostSend
    <2> HIDE DEF n
    <2>4. Len(fifo') = n
      BY <2>2, <2>3
    <2>5. UNCHANGED <<session, req, pc, tmp, ring, rpos, wpos, need, txq, sent>>
      BY <1>1 DEF HostSend, ringVars, txVars
    <2>6. Used' = Used
      BY <2>5 DEF Used
    <2>7. left' + Held' = left + Held
      BY <1>h, <2>1, <2>2, <2>3, <2>4, <2>5, <2>6 DEF Held
    <2>8. ~(txq # <<>> /\ ~(sent = "taken" /\ Len(txq) = 1))
      BY <2>1 DEF DueInv
    <2> QED BY <2>5, <2>7, <2>8 DEF DueInv
  <1>2. CASE HostTake
    <2>1. /\ UNCHANGED <<session, pc, tmp, fifo, ring, rpos, wpos, need, txq>>
          /\ sent = "full" /\ left = 0 /\ sent' = "taken"
      BY <1>2 DEF HostTake, epVars, ringVars
    <2>2. Held' = Held
      BY <2>1 DEF Held, Used
    <2>3. txq # <<>> /\ Held = 0 /\ (req < Len(session) => need = session[req + 1].size) /\ pc = "app"
      BY <2>1 DEF DueInv
    <2>4. CASE Len(txq) = 1 /\ Head(txq) < MaxRead /\ req < Len(session)
      <3>1. left' = session[req + 1].size
        BY <1>2, <2>4 DEF HostTake
      <3>2. left' + Held' <= need
        BY <3>1, <2>2, <2>3, <2>4, <1>d
      <3> QED BY <2>1, <2>3, <2>4, <3>2, <1>d DEF DueInv
    <2>5. CASE ~(Len(txq) = 1 /\ Head(txq) < MaxRead /\ req < Len(session))
      <3>1. UNCHANGED <<req, left>>
        BY <1>2, <2>5 DEF HostTake
      <3> QED BY <2>1, <2>2, <2>3, <3>1, <1>d DEF DueInv
    <2> QED BY <2>4, <2>5
  <1>3. CASE Recv
    <2>1. /\ UNCHANGED <<session, req, left, ring, rpos, wpos, need, txq, sent>>
          /\ pc = "recv" /\ pc' = "store"
          /\ \/ tmp' = fifo /\ fifo' = <<>>
             \/ tmp' = tmp /\ fifo' = fifo
      BY <1>3 DEF Recv, hostVars, ringVars, txVars
    <2>2. Len(tmp) = 0
      BY <2>1, <1>p DEF Packets
    <2>3. Used' = Used
      BY <2>1 DEF Used
    <2>4. Held' = Held
      BY <2>1, <2>2, <2>3, <1>h DEF Held
    <2>5. txq = <<>>
      BY <2>1 DEF DueInv
    <2> QED BY <2>1, <2>4, <2>5 DEF DueInv
  <1>4. CASE Store
    <2>1. /\ UNCHANGED <<session, req, left, fifo, need, txq, sent, rpos>>
          /\ pc = "store" /\ tmp' = <<>> /\ pc' = "clear"
      BY <1>4 DEF Store, hostVars, txVars
    <2>2. wpos' \in Cells /\ ring' \in [Cells -> S] /\ Unread' = Unread \o tmp
      BY <1>4, <1>s, <1>p, StoreAppends
    <2>3. Unread \in Seq(S) /\ Len(Unread) = Used /\ tmp \in Seq(S)
      BY <1>s, <1>p, UnreadFacts DEF Bytes
    <2>4. Len(Unread \o tmp) = Used + Len(tmp)
      BY <2>3, ConcatProperties
    <2>5. Used' \in Nat /\ Unread' = [i \in 1 .. Used' |-> ring'[(rpos' + i - 1) % BufSize]]
      <3>1. wpos' - rpos' \in Int /\ BufSize \in Nat \ {0}
        BY <2>1, <2>2, <1>p, Sizes DEF Cells, Positions
      <3>2. (wpos' - rpos') % BufSize \in 0 .. BufSize - 1
        BY <3>1, ModRange
      <3> QED BY <3>1, <3>2 DEF Used, Unread
    <2>6. Len(Unread') = Used'
      BY <2>5
    <2>7. Used' = Used + Len(tmp)
      BY <2>2, <2>4, <2>6
    <2>8. Held' = Held
      BY <2>1, <2>7, <1>h DEF Held
    <2>9. txq = <<>>
      BY <2>1 DEF DueInv
    <2> QED BY <2>1, <2>8, <2>9 DEF DueInv
  <1>5. CASE TakeByte
    <2>1. /\ UNCHANGED <<session, req, left, tmp, fifo, sent, wpos, ring>> /\ pc' = "app"
          /\ IF need = 1
             THEN /\ txq' = PacketSizes(session[req].answer)
                  /\ need' = IF req < Len(session) THEN session[req + 1].size ELSE 0
             ELSE need' = need - 1 /\ txq' = txq
      BY <1>5 DEF TakeByte, hostVars, epVars
    <2>2. txq = <<>> /\ sent = "no"
      <3>1. txq = <<>>
        BY <1>5 DEF TakeByte, DueInv
      <3> QED BY <3>1 DEF DueInv
    <2>3. rpos' \in Cells /\ Unread # <<>> /\ Unread' = Tail(Unread)
      BY <1>5, <1>s, <1>p, TakeIsHead
    <2>4. Unread \in Seq(S) /\ Len(Unread) = Used
      BY <1>s, <1>p, UnreadFacts DEF Bytes
    <2>5. Len(Tail(Unread)) = Used - 1 /\ Used > 0
      BY <2>3, <2>4
    <2>6. Used' \in Nat /\ Unread' = [i \in 1 .. Used' |-> ring'[(rpos' + i - 1) % BufSize]]
      <3>1. wpos' - rpos' \in Int /\ BufSize \in Nat \ {0}
        BY <2>1, <2>3, <1>p, Sizes DEF Cells, Positions
      <3>2. (wpos' - rpos') % BufSize \in 0 .. BufSize - 1
        BY <3>1, ModRange
      <3> QED BY <3>1, <3>2 DEF Used, Unread
    <2>7. Len(Unread') = Used'
      BY <2>6
    <2>8. Used' = Used - 1
      BY <2>3, <2>5, <2>7
    <2>9. Held' = Held - 1 /\ Held > 0
      BY <2>1, <2>5, <2>8, <1>h DEF Held
    <2>10. CASE need = 1
      <3>1. left = 0 /\ Held' = 0
        BY <2>9, <2>10, <1>d, <1>h
      <3>2. session[req].answer \in Nat \ {0}
        BY <1>n
      <3>3. txq' \in Seq(Int) /\ txq' # <<>>
        BY <2>1, <2>10, <3>2, SomePacket
      <3>4. need' \in Nat /\ (req < Len(session) => need' = session[req + 1].size)
        <4>1. req < Len(session) => session[req + 1].size \in Nat
          BY <1>n
        <4> QED BY <2>1, <2>10, <4>1
      <3>5. left' + Held' <= need'
        BY <3>1, <3>4, <2>1
      <3> QED BY <2>1, <2>2, <3>1, <3>3, <3>4, <3>5 DEF DueInv
    <2>11. CASE need # 1
      <3>1. need' = need - 1 /\ txq' = <<>>
        BY <2>1, <2>2, <2>11
      <3>2. need' \in Nat /\ left' + Held' <= need'
        BY <3>1, <2>1, <2>9, <1>d, <1>h
      <3>3. txq' \in Seq(Int)
        BY <3>1
      <3> QED BY <2>1, <2>2, <3>1, <3>2, <3>3 DEF DueInv
    <2> QED BY <2>10, <2>11
  <1>6. CASE UsbSend
    <2>1. UNCHANGED <<session, req, left, tmp, fifo, ring, rpos, wpos, pc, need, txq>>
          /\ sent = "no" /\ sent' = "full" /\ txq # <<>>
      BY <1>6 DEF UsbSend, hostVars, epVars, ringVars
    <2>2. Held' = Held
      BY <2>1 DEF Held, Used
    <2> QED BY <2>1, <2>2 DEF DueInv
  <1>7. CASE UsbSent
    <2>1. UNCHANGED <<session, req, left, tmp, fifo, ring, rpos, wpos, pc, need>>
          /\ sent = "taken" /\ sent' = "no" /\ txq' = Tail(txq)
      BY <1>7 DEF UsbSent, hostVars, epVars, ringVars
    <2>2. Held' = Held
      BY <2>1 DEF Held, Used
    <2>3. txq # <<>> /\ pc = "app"
      BY <2>1 DEF DueInv
    <2>4. txq' \in Seq(Int) /\ (Len(txq) = 1 => txq' = <<>>)
      BY <1>d, <2>1, <2>3
    <2> QED BY <2>1, <2>2, <2>3, <2>4, <1>d DEF DueInv
  <1>8. CASE /\ UNCHANGED <<session, req, left, tmp, fifo, ring, rpos, wpos, need, txq, sent>>
             /\ pc' = pc \/ txq = <<>>
    <2>1. Held' = Held
      BY <1>8 DEF Held, Used
    <2> QED BY <1>8, <2>1 DEF DueInv
  <1>9. CASE HostSetup \/ CheckInt \/ ClearEndp2 \/ ServeEndp0 \/ ClearEndp0 \/ Getchar \/ NoByte \/ UNCHANGED vars
    <2>1. UNCHANGED <<session, req, left, tmp, fifo, ring, rpos, wpos, need, txq, sent>>
      BY <1>9 DEF HostSetup, CheckInt, ClearEndp2, ServeEndp0, ClearEndp0, Getchar, NoByte, vars,
                  hostVars, epVars, ringVars, txVars
    <2>2. pc' = pc \/ pc # "app" \/ txq = <<>>
      BY <1>9 DEF HostSetup, CheckInt, ClearEndp2, ServeEndp0, ClearEndp0, Getchar, NoByte, vars
    <2>3. pc' = pc \/ txq = <<>>
      BY <2>2 DEF DueInv
    <2> QED BY <1>8, <2>1, <2>3
  <1> QED BY <1>1, <1>2, <1>3, <1>4, <1>5, <1>6, <1>7, <1>9 DEF Next, Device

LEMMA TypeStarts == RingAssumption /\ Init => RegisterInv /\ DueInv
  <1> SUFFICES ASSUME RingAssumption, Init PROVE RegisterInv /\ DueInv
    OBVIOUS
  <1>1. RegisterInv
    <2>1. setups \in 0 .. MaxSetups
      BY DEF Init, RingAssumption
    <2> QED BY <2>1 DEF RegisterInv, Init, InitEndp0, InitEndp2
  <1>3. session[1].size \in Nat
    <2>1. session \in Exchanges
      BY DEF Init
    <2>2. 1 \in 1 .. Len(session)
      BY <2>1, ExchangeFacts
    <2> QED BY <2>1, <2>2, ExchangeFacts
  <1>4. Used = 0
    <2>1. wpos - rpos = 0 /\ 0 % BufSize = 0
      BY Sizes DEF Init
    <2> QED BY <2>1 DEF Used
  <1>5. Held = 0
    BY <1>4 DEF Held, Init, InitEndp2
  <1>6. txq = <<>> /\ sent = "no" /\ need = session[1].size /\ left = session[1].size
    BY DEF Init, InitEndp3
  <1>7. DueInv
    BY <1>3, <1>5, <1>6 DEF DueInv
  <1> QED BY <1>1, <1>7

LEMMA TypeFromInv == RingInv /\ SessionInv /\ RegisterInv /\ DueInv => TypeOK
  <1> SUFFICES ASSUME RingInv, SessionInv, RegisterInv, DueInv PROVE TypeOK
    OBVIOUS
  <1>1. PICK S : Bytes(S)
    BY DEF RingInv
  <1>2. rpos \in DOMAIN ring /\ wpos \in DOMAIN ring
    BY <1>1 DEF RingInv, Bytes, Positions
  <1> QED BY <1>2 DEF TypeOK, RingInv, Packets, LeftInv, SessionInv, RegisterInv, DueInv

\* Packets fit into the FIFO and into buf of usb_int_endp2, the positions stay in the ring,
\* and the FDL never receives more bytes than it waits for.
THEOREM RingTypeCorrect == RingAssumption => (Spec => []TypeOK)
  <1> SUFFICES ASSUME RingAssumption PROVE Spec => []TypeOK
    OBVIOUS
  <1>0. MaxSetups \in Nat
    BY DEF RingAssumption
  <1> DEFINE Inv == RingInv /\ SessionInv /\ RegisterInv /\ DueInv
  <1>1. Init => Inv
    BY RingStarts, TypeStarts
  <1>2. Inv /\ [Next]_vars => Inv'
    BY <1>0, RingStep, SessionStep, RegisterStep, DueStep
  <1>3. Inv => TypeOK
    BY TypeFromInv
  <1> QED BY <1>1, <1>2, <1>3, PTL DEF Spec
==============================================================================
