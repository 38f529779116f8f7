-------------------------- MODULE FdlDownloadProofs --------------------------
(***************************************************************************)
(* Theorems about FdlDownload, for every geometry of the flash, every      *)
(* content of the memory, all downloads, payloads and areas.               *)
(***************************************************************************)
EXTENDS FdlDownload, SequenceTheorems, TLAPS

-----------------------------------------------------------------------------
(* Erase blocks.                                                           *)

\* The multiples of Blk are closed under addition.
LEMMA AlignedSum ==
  ASSUME NEW a \in Nat, NEW c \in Nat, a % Blk = 0, c % Blk = 0
  PROVE  (a + c) % Blk = 0
<1>0. Blk \in Nat \ {0}
  BY GeometryAssumption
<1>1. \A n \in Nat : n \div Blk \in Nat /\ n % Blk = n - Blk * (n \div Blk)
  BY <1>0
<1>2. PICK q \in Nat : a = Blk * q
  <2>1. a \div Blk \in Nat /\ a = Blk * (a \div Blk)
    BY <1>0, <1>1
  <2> QED BY <2>1
<1>3. PICK r \in Nat : c = Blk * r
  <2>1. c \div Blk \in Nat /\ c = Blk * (c \div Blk)
    BY <1>0, <1>1
  <2> QED BY <2>1
<1>4. q + r \in Nat /\ a + c = Blk * (q + r)
  BY <1>0, <1>2, <1>3
<1>5. \A k \in Nat : (Blk * k) % Blk = 0
  BY <1>0
<1> QED BY <1>4, <1>5

\* A block is the Blk addresses from its start on.
LEMMA BlockFacts ==
  ASSUME NEW a \in Nat
  PROVE  /\ BlockStart(a) \in Nat /\ BlockOf(a) \in Nat
         /\ BlockStart(a) <= a /\ a < BlockStart(a) + Blk
         /\ Blk - (a % Blk) = BlockStart(a) + Blk - a
         /\ \A x \in Nat : BlockOf(x) = BlockOf(a) <=>
                           BlockStart(a) <= x /\ x < BlockStart(a) + Blk
<1>0. Blk \in Nat \ {0}
  BY GeometryAssumption
<1>1. /\ BlockStart(a) \in Nat /\ BlockOf(a) \in Nat
      /\ BlockStart(a) <= a /\ a < BlockStart(a) + Blk
      /\ Blk - (a % Blk) = BlockStart(a) + Blk - a
  BY <1>0 DEF BlockStart, BlockOf
<1>2. ASSUME NEW x \in Nat
      PROVE  BlockOf(x) = BlockOf(a) <=> BlockStart(a) <= x /\ x < BlockStart(a) + Blk
  BY <1>0 DEF BlockStart, BlockOf
<1> QED BY <1>1, <1>2

\* Two addresses of one block have the same start of block, and that start is a
\* multiple of Blk.
LEMMA BlockStartFacts ==
  ASSUME NEW a \in Nat
  PROVE  /\ \A x \in Nat : BlockOf(x) = BlockOf(a) <=> BlockStart(x) = BlockStart(a)
         /\ BlockStart(a) % Blk = 0
         /\ BlockStart(BlockStart(a)) = BlockStart(a)
         /\ BlockOf(BlockStart(a)) = BlockOf(a)
<1>0. Blk \in Nat \ {0}
  BY GeometryAssumption
<1>1. ASSUME NEW x \in Nat PROVE BlockOf(x) = BlockOf(a) <=> BlockStart(x) = BlockStart(a)
  BY <1>0 DEF BlockStart, BlockOf
<1>2. BlockOf(BlockStart(a)) = BlockOf(a) /\ BlockStart(a) \in Nat
  <2>1. BlockStart(a) \in Nat /\ BlockStart(a) < BlockStart(a) + Blk
    BY <1>0, BlockFacts
  <2> QED BY <2>1, BlockFacts
<1>3. BlockStart(BlockStart(a)) = BlockStart(a)
  BY <1>1, <1>2
<1>4. BlockStart(a) % Blk = 0
  BY <1>0, <1>2, <1>3 DEF BlockStart
<1> QED BY <1>1, <1>2, <1>3, <1>4

\* A block does not reach across a multiple of Blk.
LEMMA BlockAligned ==
  ASSUME NEW a \in Nat, NEW c \in Nat, c % Blk = 0
  PROVE  /\ a < c => BlockStart(a) + Blk <= c
         /\ c <= a => c <= BlockStart(a)
         /\ BlockStart(c) = c
<1>0. Blk \in Nat \ {0}
  BY GeometryAssumption
<1>1. BlockStart(c) = c
  BY DEF BlockStart
<1>2. BlockStart(a) < c /\ c < BlockStart(a) + Blk => FALSE
  <2> SUFFICES ASSUME BlockStart(a) < c, c < BlockStart(a) + Blk PROVE FALSE
    OBVIOUS
  <2>1. BlockOf(c) = BlockOf(a)
    BY BlockFacts
  <2>2. BlockStart(c) = BlockStart(a)
    BY <2>1, BlockStartFacts
  <2> QED BY <1>1, <2>2, BlockFacts
<1>3. BlockStart(a) \in Nat /\ BlockStart(a) <= a /\ a < BlockStart(a) + Blk
  BY BlockFacts
<1> QED BY <1>0, <1>1, <1>2, <1>3

\* The block of an address in the window lies in the window, the block of any
\* address in the memory, and sfc_erase erases the block it is asked to.
LEMMA BlockInside ==
  ASSUME NEW a \in Nat
  PROVE  /\ a \in Addr => BlockStart(a) .. BlockStart(a) + Blk - 1 \subseteq Addr
         /\ InWindow(a) => /\ BlockStart(a) .. BlockStart(a) + Blk - 1 \subseteq Window
                           /\ EraseTarget(a) = BlockStart(a)
<1>0. Blk \in Nat \ {0} /\ FW \in Nat /\ Win \in Nat \ {0} /\ Space \in Nat
  BY GeometryAssumption
<1>1. BlockStart(a) \in Nat
  BY BlockFacts
<1>2. ASSUME a \in Addr PROVE BlockStart(a) .. BlockStart(a) + Blk - 1 \subseteq Addr
  <2>1. BlockStart(a) + Blk <= Space
    BY <1>0, <1>2, BlockAligned, GeometryAssumption DEF Addr
  <2> QED BY <1>0, <1>1, <2>1 DEF Addr
<1>3. ASSUME InWindow(a)
      PROVE  /\ BlockStart(a) .. BlockStart(a) + Blk - 1 \subseteq Window
             /\ EraseTarget(a) = BlockStart(a)
  <2>1. (FW + Win) % Blk = 0
    BY <1>0, AlignedSum, GeometryAssumption
  <2>2. BlockStart(a) + Blk <= FW + Win /\ FW <= BlockStart(a)
    BY <1>0, <1>3, <2>1, BlockAligned, GeometryAssumption DEF InWindow
  <2>3. (a - FW) % Win = a - FW
    BY <1>0, <1>3 DEF InWindow
  <2>4. FW + ((a - FW) % Win) = a
    BY <1>0, <2>3
  <2>5. EraseTarget(a) = BlockStart(a)
    BY <2>4 DEF EraseTarget
  <2> QED BY <1>0, <1>1, <2>2, <2>5 DEF Window
<1> QED BY <1>2, <1>3

-----------------------------------------------------------------------------
(* The inductive invariant.                                                *)

Working == pc \in {"blocks", "program"}

\* data_midst has cut the payload at cur: what is left of it ends where the
\* received part of the download ends, inside the address space.
PosInv ==
  /\ dl.start + dl.size <= Space
  /\ Working => cur + Len(src) = dl.start + dl.recv

\* Which job a handler belongs to, and when a failure may have been reported.
PhaseInv ==
  /\ pc = "erase" => job.kind = "erase"
  /\ Working => job.kind # "erase"
  /\ pc \notin {"idle", "off"} => ~failed

\* The ghosts of a download agree with dl_status.
JobInv ==
  job.kind = "download" =>
    /\ job.start = dl.start /\ job.size = dl.size
    /\ Len(got) = dl.recv
    /\ Working => /\ dl.start <= cur
                  /\ \A i \in 1 .. Len(src) : src[i] = got[cur - dl.start + i]

InFlash == \A x \in Addr : InJob(x) => x \in Window
InRam == \A x \in Addr : InJob(x) => x \notin Window

\* The job lies in the window or outside of it, not across one of its ends.
OneSided == InFlash \/ InRam

\* The first address of the download that has not been dealt with.
Pos == IF Working THEN cur ELSE dl.start + dl.recv

\* v is what a download that has got to p should have at x: what was received,
\* erased bytes ready for the rest, or the old contents.
Right(p, x, v) ==
  /\ InJob(x) /\ x < p => v = got[x - job.start + 1]
  /\ InJob(x) /\ x >= p /\ BlockOf(x) \in erased => v = Bits
  /\ ~InJob(x) => v = base[x]

\* The addresses that sfc_write is about to program.
Target == wr.at .. wr.at + Len(wr.data) - 1

\* They lie in one block of the window, which the download reaches into.
TargetInv ==
  pc = "program" =>
    /\ wr.at \in Nat
    /\ Target \subseteq Window
    /\ \A x \in Target : BlockOf(x) = BlockOf(wr.at)
    /\ \E z \in Addr : InJob(z) /\ BlockOf(z) = BlockOf(wr.at)

\* What the memory holds, or will hold if sfc_write succeeds.
Promised(x) == IF pc = "program" /\ x \in Target THEN wr.data[x - wr.at + 1] ELSE mem[x]

\* The invariant of a download.
DownloadInv ==
  job.kind = "download" /\ OneSided =>
    /\ pc = "program" \/ (pc = "blocks" /\ src # <<>>) => InFlash
    /\ TargetInv
    /\ pc # "off" /\ ~failed => \A x \in Addr : Right(Pos, x, Promised(x))
    /\ DamageBounded

\* The invariant of an erasure: all blocks before cur are blank, the rest is as
\* it was.
EraseInv ==
  job.kind = "erase" /\ InFlash =>
    /\ pc = "erase" =>
         /\ end = job.start + job.size /\ end <= Space
         /\ job.start <= cur /\ cur < end
         /\ cur % Blk = 0 /\ end % Blk = 0
         /\ \A x \in Addr : mem[x] = IF job.start <= x /\ x < cur THEN Bits ELSE base[x]
    /\ EraseExact

TypeInv == TypeOK /\ PosInv

Inv == TypeInv /\ PhaseInv /\ JobInv /\ DownloadInv /\ EraseInv

-----------------------------------------------------------------------------
(* Types.                                                                  *)

\* The constants, for the provers.
LEMMA GeometryFacts ==
  /\ Space \in Nat /\ FW \in Nat /\ Win \in Nat \ {0} /\ Blk \in Nat \ {0}
  /\ FW + Win <= Space
  /\ Window \subseteq Addr /\ Addr \subseteq Nat
  /\ Bits \in Byte
  /\ \A v, w \in Byte : v \cap w \in Byte
BY GeometryAssumption DEF Window, Addr, Byte

\* Erasing and programming give a memory again.
LEMMA ChipTypes ==
  ASSUME mem \in [Addr -> Byte]
  PROVE  /\ \A a : SfcErase(a) \in [Addr -> Byte]
         /\ \A a \in Nat, data \in Seq(Byte) : \A n \in 0 .. Len(data) :
              SfcWrite(a, data, n) \in [Addr -> Byte]
<1>1. ASSUME NEW a PROVE SfcErase(a) \in [Addr -> Byte]
  BY GeometryFacts DEF SfcErase
<1>2. ASSUME NEW a \in Nat, NEW data \in Seq(Byte), NEW n \in 0 .. Len(data)
      PROVE  SfcWrite(a, data, n) \in [Addr -> Byte]
  <2>1. ASSUME NEW x \in Addr, x \in a .. a + n - 1
        PROVE  mem[x] \cap data[x - a + 1] \in Byte
    <3>1. x - a + 1 \in 1 .. Len(data)
      BY <2>1, GeometryFacts
    <3>2. data[x - a + 1] \in Byte
      BY <3>1
    <3> QED BY <3>2, GeometryFacts
  <2> QED BY <2>1 DEF SfcWrite
<1> QED BY <1>1, <1>2

\* The piece that is dealt with next: not empty, not longer than the payload,
\* inside the block at cur and inside the memory.
LEMMA PieceFacts ==
  ASSUME TypeInv, pc = "blocks", src # <<>>
  PROVE  /\ PieceLen \in 1 .. Len(src)
         /\ cur + PieceLen <= BlockStart(cur) + Blk
         /\ PieceLen = BlockStart(cur) + Blk - cur \/ PieceLen = Len(src)
         /\ cur \in Addr
         /\ cur + Len(src) <= dl.start + dl.size
         /\ cur .. cur + PieceLen - 1 \subseteq Addr
         /\ \A x \in cur .. cur + PieceLen - 1 : BlockOf(x) = BlockOf(cur)
<1>1. cur \in Nat /\ src \in Seq(Byte) /\ Len(src) \in Nat \ {0}
  BY DEF TypeInv, TypeOK
<1>2. dl.start \in Nat /\ dl.size \in Nat /\ dl.recv \in Nat /\ dl.recv <= dl.size
  BY DEF TypeInv, TypeOK
<1>3. cur + Len(src) = dl.start + dl.recv /\ dl.start + dl.size <= Space
  BY DEF TypeInv, PosInv, Working
<1>4. BlockStart(cur) \in Nat /\ BlockStart(cur) <= cur /\ cur < BlockStart(cur) + Blk
  BY <1>1, BlockFacts
<1>5. PieceLen = Least(BlockStart(cur) + Blk - cur, Len(src))
  BY <1>1, BlockFacts DEF PieceLen
<1>6. /\ PieceLen \in 1 .. Len(src)
      /\ cur + PieceLen <= BlockStart(cur) + Blk
      /\ PieceLen = BlockStart(cur) + Blk - cur \/ PieceLen = Len(src)
  BY <1>1, <1>4, <1>5, GeometryFacts DEF Least
<1>7. cur + Len(src) <= dl.start + dl.size /\ cur + Len(src) <= Space
  BY <1>1, <1>2, <1>3, GeometryFacts
<1>8. cur \in Addr /\ cur .. cur + PieceLen - 1 \subseteq Addr
  BY <1>1, <1>6, <1>7, GeometryFacts DEF Addr
<1>9. \A x \in cur .. cur + PieceLen - 1 : BlockOf(x) = BlockOf(cur)
  <2> SUFFICES ASSUME NEW x \in cur .. cur + PieceLen - 1 PROVE BlockOf(x) = BlockOf(cur)
    OBVIOUS
  <2>1. x \in Nat /\ BlockStart(cur) <= x /\ x < BlockStart(cur) + Blk
    BY <1>1, <1>4, <1>6, GeometryFacts
  <2> QED BY <1>1, <2>1, BlockFacts
<1> QED BY <1>6, <1>7, <1>8, <1>9

\* buf of data_midst holds a byte for every address of the block.
LEMMA ImageFacts ==
  ASSUME TypeInv, pc = "blocks", src # <<>>
  PROVE  /\ BlockImage \in Seq(Byte) /\ Len(BlockImage) = Blk
         /\ \A i \in 1 .. Blk :
              LET x == BlockStart(cur) + i - 1
              IN BlockImage[i] = IF x < cur THEN mem[x]
                                 ELSE IF x < cur + PieceLen THEN src[x - cur + 1] ELSE Fill(x)
<1>1. cur \in Nat /\ src \in Seq(Byte) /\ mem \in [Addr -> Byte] /\ Blk \in Nat
  BY GeometryFacts DEF TypeInv, TypeOK
<1>2. BlockStart(cur) \in Nat
  BY <1>1, BlockFacts
<1>3. ASSUME NEW i \in 1 .. Blk
      PROVE  LET x == BlockStart(cur) + i - 1
             IN (IF x < cur THEN mem[x]
                 ELSE IF x < cur + PieceLen THEN src[x - cur + 1] ELSE Fill(x)) \in Byte
  <2> DEFINE x == BlockStart(cur) + i - 1
  <2>1. x \in BlockStart(cur) .. BlockStart(cur) + Blk - 1
    BY <1>1, <1>2
  <2>2. x \in Addr /\ x \in Nat
    BY <1>1, <2>1, PieceFacts, BlockInside, GeometryFacts
  <2>3. mem[x] \in Byte /\ Fill(x) \in Byte
    BY <1>1, <2>2, GeometryFacts DEF Fill
  <2>4. ~(x < cur) /\ x < cur + PieceLen => src[x - cur + 1] \in Byte
    <3>1. PieceLen \in 1 .. Len(src)
      BY PieceFacts
    <3>2. ~(x < cur) /\ x < cur + PieceLen => x - cur + 1 \in 1 .. Len(src)
      BY <1>1, <2>2, <3>1
    <3> QED BY <1>1, <3>2
  <2> QED BY <2>3, <2>4
<1>4. BlockImage \in [1 .. Blk -> Byte]
  BY <1>3 DEF BlockImage
<1>5. BlockImage \in Seq(Byte) /\ Len(BlockImage) = Blk
  BY <1>1, <1>4, IsASeq, LenProperties
<1> QED BY <1>5 DEF BlockImage

\* The parts of a payload are payloads, and their elements are those of it.
LEMMA RestFacts ==
  ASSUME NEW S, NEW s \in Seq(S), NEW n \in 0 .. Len(s)
  PROVE  /\ SubSeq(s, 1, n) \in Seq(S) /\ Len(SubSeq(s, 1, n)) = n
         /\ \A i \in 1 .. n : SubSeq(s, 1, n)[i] = s[i]
         /\ SubSeq(s, n + 1, Len(s)) \in Seq(S) /\ Len(SubSeq(s, n + 1, Len(s))) = Len(s) - n
         /\ \A i \in 1 .. Len(s) - n : SubSeq(s, n + 1, Len(s))[i] = s[n + i]
<1>0. Len(s) \in Nat /\ n \in Nat
  OBVIOUS
<1>1. /\ SubSeq(s, 1, n) \in Seq(S) /\ Len(SubSeq(s, 1, n)) = n
      /\ \A i \in 1 .. n : SubSeq(s, 1, n)[i] = s[i]
  BY <1>0, SubSeqProperties
<1>2. /\ SubSeq(s, n + 1, Len(s)) \in Seq(S) /\ Len(SubSeq(s, n + 1, Len(s))) = Len(s) - n
      /\ \A i \in 1 .. Len(s) - n : SubSeq(s, n + 1, Len(s))[i] = s[n + i]
  BY <1>0, SubSeqProperties
<1> QED BY <1>1, <1>2

\* Records of the types in TypeOK.
LEMMA RecordTypes ==
  /\ NoWrite \in [at : Nat, data : Seq(Byte)]
  /\ NoJob \in [kind : {"none", "download", "erase"}, start : Nat, size : Nat]
  /\ \A a, n, r \in Nat :
       [start |-> a, size |-> n, recv |-> r] \in [start : Nat, size : Nat, recv : Nat]
  /\ \A k \in {"download", "erase"} : \A a, n \in Nat :
       [kind |-> k, start |-> a, size |-> n]
         \in [kind : {"none", "download", "erase"}, start : Nat, size : Nat]
BY DEF NoWrite, NoJob

\* Init has the types.
LEMMA InitTypeInv == Init => TypeInv
<1> SUFFICES ASSUME Init PROVE TypeInv
  OBVIOUS
<1>1. mem \in [Addr -> Byte] /\ locked \subseteq Nat /\ base = mem
  BY InputsAssumption DEF Init
<1>2. dl = [start |-> Space, size |-> 0, recv |-> 0] /\ pc = "idle"
  BY DEF Init, Nowhere
<1>3. wr \in [at : Nat, data : Seq(Byte)] /\ job \in [kind : {"none", "download", "erase"}, start : Nat, size : Nat]
  BY RecordTypes DEF Init
<1>4. PosInv
  BY <1>2, GeometryFacts DEF PosInv, Working
<1>5. dl \in [start : Nat, size : Nat, recv : Nat] /\ dl.recv <= dl.size
  BY <1>2, RecordTypes, GeometryFacts
<1>6. src \in Seq(Byte) /\ got \in Seq(Byte)
  BY DEF Init
<1>7. TypeOK
  BY <1>1, <1>3, <1>5, <1>6 DEF Init, TypeOK
<1> QED BY <1>4, <1>7 DEF TypeInv

\* Counting a payload that is not too long.
LEMMA ReceiveFacts ==
  ASSUME TypeOK, NEW data \in Seq(Byte), ~TooLong(data),
         dl' = [dl EXCEPT !.recv = @ + Len(data)]
  PROVE  /\ dl' \in [start : Nat, size : Nat, recv : Nat]
         /\ dl'.recv <= dl'.size
         /\ dl'.start = dl.start /\ dl'.size = dl.size /\ dl'.recv = dl.recv + Len(data)
<1>1. dl \in [start : Nat, size : Nat, recv : Nat] /\ Len(data) \in Nat
  BY DEF TypeOK
<1>2. dl.recv + Len(data) <= dl.size
  BY <1>1 DEF TooLong
<1>3. dl'.start = dl.start /\ dl'.size = dl.size /\ dl'.recv = dl.recv + Len(data)
  BY <1>1
<1>4. dl' \in [start : Nat, size : Nat, recv : Nat]
  BY <1>1
<1> QED BY <1>2, <1>3, <1>4

\* Every packet keeps the types.
LEMMA PacketTypeInv == TypeInv /\ Packet => TypeInv'
<1> SUFFICES ASSUME TypeInv, Packet PROVE TypeInv'
  OBVIOUS
<1>0. TypeOK /\ PosInv
  BY DEF TypeInv
<1>1. ASSUME NEW d \in Downloads, DataStart(d) PROVE TypeInv'
  <2>1. d.start \in Nat /\ d.size \in Nat /\ d.start + d.size <= Space
    BY InputsAssumption, GeometryFacts DEF Area
  <2>2. dl' \in [start : Nat, size : Nat, recv : Nat] /\ dl'.recv <= dl'.size
    BY <1>1, <2>1, RecordTypes DEF DataStart
  <2>3. job' \in [kind : {"none", "download", "erase"}, start : Nat, size : Nat]
    BY <1>1, <2>1, RecordTypes DEF DataStart
  <2>4. got' \in Seq(Byte) /\ erased' \subseteq Nat /\ starts' \in Nat
    BY <1>0, <1>1 DEF DataStart, TypeOK
  <2>5. TypeOK'
    BY <1>0, <1>1, <2>2, <2>3, <2>4 DEF TypeOK, DataStart, flashVars
  <2>6. PosInv'
    BY <1>1, <2>1 DEF PosInv, DataStart, Working
  <2> QED BY <2>5, <2>6 DEF TypeInv
<1>2. ASSUME NEW data \in Payloads, MidstRefused(data) PROVE TypeInv'
  BY <1>0, <1>2 DEF TypeInv, TypeOK, PosInv, MidstRefused, flashVars, ghosts, Working
<1>3. ASSUME NEW data \in Payloads, MidstRam(data) PROVE TypeInv'
  <2>1. data \in Seq(Byte) /\ Len(data) \in Nat
    BY InputsAssumption
  <2>2. dl.start \in Nat /\ dl.size \in Nat /\ dl.recv \in Nat
    BY <1>0 DEF TypeOK
  <2>3. dl' \in [start : Nat, size : Nat, recv : Nat] /\ dl'.recv <= dl'.size
        /\ dl'.start = dl.start /\ dl'.size = dl.size /\ dl'.recv = dl.recv + Len(data)
    BY <1>0, <1>3, <2>1, ReceiveFacts DEF MidstRam
  <2>4. mem' \in [Addr -> Byte]
    <3> DEFINE addr == dl.start + dl.recv
    <3>1. ASSUME NEW x \in Addr, x \in addr .. addr + Len(data) - 1
          PROVE  data[x - addr + 1] \in Byte
      <4>1. x - addr + 1 \in 1 .. Len(data)
        BY <2>1, <2>2, <3>1, GeometryFacts
      <4> QED BY <2>1, <4>1
    <3>2. mem' = [x \in Addr |-> IF x \in addr .. addr + Len(data) - 1 /\ x \notin Window
                                 THEN data[x - addr + 1] ELSE mem[x]]
      BY <1>3 DEF MidstRam
    <3> QED BY <1>0, <3>1, <3>2 DEF TypeOK
  <2>5. got' \in Seq(Byte)
    BY <1>0, <1>3, <2>1 DEF MidstRam, TypeOK
  <2>6. job' \in [kind : {"none", "download", "erase"}, start : Nat, size : Nat]
    BY <1>0, <1>3 DEF MidstRam, TypeOK, NoJob
  <2>7. TypeOK'
    BY <1>0, <1>3, <2>3, <2>4, <2>5, <2>6 DEF MidstRam, TypeOK, flashVars
  <2>8. PosInv'
    BY <1>0, <1>3, <2>3 DEF MidstRam, PosInv, Working
  <2> QED BY <2>7, <2>8 DEF TypeInv
<1>4. ASSUME NEW data \in Payloads, MidstFlash(data) PROVE TypeInv'
  <2>1. data \in Seq(Byte) /\ Len(data) \in Nat
    BY InputsAssumption
  <2>2. dl.start \in Nat /\ dl.size \in Nat /\ dl.recv \in Nat
    BY <1>0 DEF TypeOK
  <2>3. dl' \in [start : Nat, size : Nat, recv : Nat] /\ dl'.recv <= dl'.size
        /\ dl'.start = dl.start /\ dl'.size = dl.size /\ dl'.recv = dl.recv + Len(data)
    BY <1>0, <1>4, <2>1, ReceiveFacts DEF MidstFlash
  <2>4. got' \in Seq(Byte)
    BY <1>0, <1>4, <2>1 DEF MidstFlash, TypeOK
  <2>5. job' \in [kind : {"none", "download", "erase"}, start : Nat, size : Nat]
    BY <1>0, <1>4 DEF MidstFlash, TypeOK, NoJob
  <2>6. locked' \subseteq Nat /\ idRead' \in BOOLEAN /\ vendor' \in BOOLEAN
    BY <1>0, <1>4 DEF MidstFlash, TypeOK, SfcUnlock
  <2>7. cur' \in Nat /\ src' \in Seq(Byte) /\ pc' = "blocks"
    BY <1>4, <2>1, <2>2 DEF MidstFlash
  <2>8. TypeOK'
    BY <1>0, <1>4, <2>3, <2>4, <2>5, <2>6, <2>7 DEF MidstFlash, TypeOK
  <2>9. cur' + Len(src') = dl'.start + dl'.recv
    BY <1>4, <2>1, <2>2, <2>3 DEF MidstFlash
  <2>10. PosInv'
    BY <1>0, <2>3, <2>9 DEF PosInv
  <2> QED BY <2>8, <2>10 DEF TypeInv
<1>5. CASE DataEnd
  BY <1>0, <1>5 DEF TypeInv, TypeOK, PosInv, DataEnd, flashVars, ghosts, Working
<1>6. CASE DataExec
  BY <1>0, <1>6 DEF TypeInv, TypeOK, PosInv, DataExec, flashVars, ghosts, Working
<1>7. CASE OtherPacket
  BY <1>0, <1>7 DEF TypeInv, TypeOK, PosInv, OtherPacket, flashVars, ghosts, Working
<1>8. ASSUME NEW d \in Areas, EraseRefused(d) PROVE TypeInv'
  BY <1>0, <1>8 DEF TypeInv, TypeOK, PosInv, EraseRefused, flashVars, ghosts, Working
<1>9. ASSUME NEW d \in Areas, EraseStart(d) PROVE TypeInv'
  <2>1. d.start \in Nat /\ d.size \in Nat
    BY InputsAssumption, GeometryFacts DEF Area
  <2>2. locked' \subseteq Nat /\ idRead' \in BOOLEAN /\ vendor' \in BOOLEAN
    BY <1>0, <1>9 DEF EraseStart, TypeOK, SfcUnlock
  <2>3. job' \in [kind : {"none", "download", "erase"}, start : Nat, size : Nat]
    BY <1>9, <2>1, RecordTypes DEF EraseStart
  <2>4. cur' \in Nat /\ end' \in Nat /\ starts' \in Nat
    <3>1. cur' = d.start /\ end' = d.start + d.size /\ starts' = starts + 1
      BY <1>9, Zenon DEF EraseStart
    <3>2. starts \in Nat
      BY <1>0, Zenon DEF TypeOK
    <3> QED BY ONLY <2>1, <3>1, <3>2
  <2>5. TypeOK'
    <3>1. UNCHANGED <<mem, dl, src, wr, rep, got, erased>>
      BY <1>9 DEF EraseStart
    <3>2. base' \in [Addr -> Byte] /\ failed' \in BOOLEAN
      BY <1>0, <1>9 DEF EraseStart, TypeOK
    <3>3. pc' \in {"idle", "blocks", "program", "erase", "off"}
      BY <1>9 DEF EraseStart
    <3> QED BY ONLY <1>0, <2>2, <2>3, <2>4, <3>1, <3>2, <3>3, ZenonT(30) DEF TypeOK
  <2>6. PosInv'
    BY <1>0, <1>9 DEF EraseStart, PosInv, Working
  <2> QED BY <2>5, <2>6 DEF TypeInv
<1> QED BY <1>1, <1>2, <1>3, <1>4, <1>5, <1>6, <1>7, <1>8, <1>9 DEF Packet

\* Going on to the next piece keeps the place and the payload in step.
LEMMA NextPieceTypes ==
  ASSUME TypeInv, pc = "blocks", src # <<>>, NextPiece
  PROVE  /\ cur' \in Nat /\ src' \in Seq(Byte)
         /\ cur' = cur + PieceLen
         /\ Len(src') = Len(src) - PieceLen
         /\ cur' + Len(src') = cur + Len(src)
         /\ \A i \in 1 .. Len(src') : src'[i] = src[PieceLen + i]
<1>1. cur \in Nat /\ src \in Seq(Byte)
  BY DEF TypeInv, TypeOK
<1>2. PieceLen \in 1 .. Len(src)
  BY PieceFacts
<1>3. PieceLen \in 0 .. Len(src) /\ PieceLen \in Nat
  BY <1>1, <1>2
<1>4. /\ src' \in Seq(Byte) /\ Len(src') = Len(src) - PieceLen
      /\ \A i \in 1 .. Len(src) - PieceLen : src'[i] = src[PieceLen + i]
  BY <1>1, <1>3, RestFacts DEF NextPiece
<1>5. cur' = cur + PieceLen
  BY DEF NextPiece
<1> QED BY <1>1, <1>3, <1>4, <1>5

\* The local variables of a handler that has returned.
LEMMA ReturnTypes ==
  ASSUME NEW r, Return(r)
  PROVE  /\ cur' \in Nat /\ src' \in Seq(Byte) /\ wr' \in [at : Nat, data : Seq(Byte)]
         /\ end' \in Nat
<1>1. wr' \in [at : Nat, data : Seq(Byte)]
  BY RecordTypes DEF Return
<1>2. src' \in Seq(Byte)
  BY DEF Return
<1> QED BY <1>1, <1>2 DEF Return

\* The loops over blocks keep the types.
LEMMA WorkTypeInv == TypeInv /\ Work => TypeInv'
<1> SUFFICES ASSUME TypeInv, Work PROVE TypeInv'
  OBVIOUS
<1>0. TypeOK /\ PosInv
  BY DEF TypeInv
<1>1. CASE SkipPiece
  <2>1. cur' \in Nat /\ src' \in Seq(Byte) /\ cur' + Len(src') = cur + Len(src)
    BY <1>1, NextPieceTypes DEF SkipPiece
  <2>2. TypeOK'
    BY <1>0, <1>1, <2>1 DEF SkipPiece, TypeOK, flashVars, ghosts
  <2>3. PosInv'
    BY <1>0, <1>1, <2>1 DEF SkipPiece, PosInv, Working
  <2> QED BY <2>2, <2>3 DEF TypeInv
<1>2. CASE PatchPiece
  <2>1. cur' \in Nat /\ src' \in Seq(Byte) /\ cur' + Len(src') = cur + Len(src)
    BY <1>2, NextPieceTypes DEF PatchPiece
  <2>2. Piece \in Seq(Byte)
    <3>1. PieceLen \in 1 .. Len(src) /\ src \in Seq(Byte)
      BY <1>0, <1>2, PieceFacts DEF PatchPiece, TypeOK
    <3>2. PieceLen \in 0 .. Len(src)
      BY <3>1
    <3> QED BY <3>1, <3>2, RestFacts DEF Piece
  <2>3. wr' \in [at : Nat, data : Seq(Byte)]
    BY <1>0, <1>2, <2>2 DEF PatchPiece, TypeOK
  <2>4. TypeOK'
    BY <1>0, <1>2, <2>1, <2>3 DEF PatchPiece, TypeOK, flashVars, ghosts
  <2>5. PosInv'
    BY <1>0, <1>2, <2>1 DEF PatchPiece, PosInv, Working
  <2> QED BY <2>4, <2>5 DEF TypeInv
<1>3. CASE EraseBlock
  <2>1. cur' \in Nat /\ src' \in Seq(Byte) /\ cur' + Len(src') = cur + Len(src)
    BY <1>3, NextPieceTypes DEF EraseBlock
  <2>2. BlockStart(cur) \in Nat /\ BlockOf(cur) \in Nat
    BY <1>0, BlockFacts DEF TypeOK
  <2>3. wr' \in [at : Nat, data : Seq(Byte)]
    BY <1>3, <2>2, ImageFacts DEF EraseBlock
  <2>4. mem' \in [Addr -> Byte]
    BY <1>0, <1>3, ChipTypes DEF EraseBlock, TypeOK
  <2>5. TypeOK'
    BY <1>0, <1>3, <2>1, <2>2, <2>3, <2>4 DEF EraseBlock, TypeOK, flashVars
  <2>6. PosInv'
    BY <1>0, <1>3, <2>1 DEF EraseBlock, PosInv, Working
  <2> QED BY <2>5, <2>6 DEF TypeInv
<1>4. CASE Program
  <2>1. mem' \in [Addr -> Byte]
    <3>1. PICK n \in 0 .. Len(wr.data) : mem' = SfcWrite(wr.at, wr.data, n)
      BY <1>4 DEF Program
    <3>2. wr.at \in Nat /\ wr.data \in Seq(Byte) /\ mem \in [Addr -> Byte]
      BY <1>0 DEF TypeOK
    <3> QED BY <3>1, <3>2, ChipTypes
  <2>2. \/ pc' = "blocks" /\ UNCHANGED <<cur, src, wr, end, rep, failed>>
        \/ Return("OPERATION_FAILED") /\ failed' = TRUE
    BY <1>4 DEF Program
  <2>3. /\ cur' \in Nat /\ src' \in Seq(Byte) /\ wr' \in [at : Nat, data : Seq(Byte)]
        /\ end' \in Nat
    BY <1>0, <2>2, ReturnTypes DEF TypeOK
  <2>4. failed' \in BOOLEAN
    BY <1>0, <2>2, Zenon DEF TypeOK
  <2>5. TypeOK'
    BY <1>0, <1>4, <2>1, <2>2, <2>3, <2>4 DEF Program, Return, TypeOK, flashVars
  <2>6. PosInv'
    BY <1>0, <1>4, <2>2 DEF Program, Return, PosInv, Working
  <2> QED BY <2>5, <2>6 DEF TypeInv
<1>5. CASE MidstDone
  BY <1>0, <1>5 DEF TypeInv, TypeOK, PosInv, MidstDone, Return, NoWrite, flashVars, ghosts, Working
<1>6. CASE EraseNext
  <2>1. mem' \in [Addr -> Byte]
    BY <1>0, <1>6, ChipTypes DEF EraseNext, TypeOK
  <2>2. cur' \in Nat
    BY <1>0, <1>6, GeometryFacts DEF EraseNext, Return, TypeOK
  <2>3. \/ pc' = pc /\ UNCHANGED <<src, wr, end, rep, failed>>
        \/ Return("OPERATION_FAILED") /\ failed' = TRUE
        \/ Return("ACK") /\ UNCHANGED failed
    BY <1>6 DEF EraseNext
  <2>4. /\ src' \in Seq(Byte) /\ wr' \in [at : Nat, data : Seq(Byte)]
        /\ end' \in Nat
    BY <1>0, <2>3, ReturnTypes DEF TypeOK
  <2>5. failed' \in BOOLEAN
    BY <1>0, <2>3, Zenon DEF TypeOK
  <2>6. TypeOK'
    BY <1>0, <1>6, <2>1, <2>2, <2>3, <2>4, <2>5 DEF EraseNext, Return, TypeOK, flashVars
  <2>7. PosInv'
    BY <1>0, <1>6, <2>3 DEF EraseNext, Return, PosInv, Working
  <2> QED BY <2>6, <2>7 DEF TypeInv
<1> QED BY <1>1, <1>2, <1>3, <1>4, <1>5, <1>6 DEF Work

\* No step breaks the types.
LEMMA NextTypeInv == TypeInv /\ [Next]_vars => TypeInv'
<1> SUFFICES ASSUME TypeInv, [Next]_vars PROVE TypeInv'
  OBVIOUS
<1>1. CASE PowerLoss
  BY <1>1 DEF TypeInv, TypeOK, PosInv, PowerLoss, flashVars, ghosts, Working
<1>2. CASE UNCHANGED vars
  BY <1>2 DEF TypeInv, TypeOK, PosInv, vars, Working
<1> QED BY <1>1, <1>2, PacketTypeInv, WorkTypeInv DEF Next, Off

\* The variables of the FDL keep their types and dl_status.size - dl_status.recv
\* never wraps, in whatever order packets come and wherever a write fails.
THEOREM DownloadTypeCorrect == Spec => []TypeOK
<1>1. TypeInv => TypeOK
  BY DEF TypeInv
<1> QED BY <1>1, InitTypeInv, NextTypeInv, PTL DEF Spec

-----------------------------------------------------------------------------
(* Jobs.                                                                   *)

\* The ghosts know which handler runs.
LEMMA NextPhaseInv == TypeInv /\ PhaseInv /\ [Next]_vars => PhaseInv'
<1> SUFFICES ASSUME TypeInv, PhaseInv, [Next]_vars PROVE PhaseInv'
  OBVIOUS
<1>1. CASE Packet
  <2>1. ASSUME NEW d \in Downloads, DataStart(d) PROVE PhaseInv'
    BY <2>1 DEF DataStart, PhaseInv, Working
  <2>2. ASSUME ~failed, NEW data \in Payloads, MidstRefused(data) PROVE PhaseInv'
    BY <2>2 DEF MidstRefused, PhaseInv, Working
  <2>3. ASSUME ~failed, NEW data \in Payloads, MidstRam(data) PROVE PhaseInv'
    BY <2>3 DEF MidstRam, PhaseInv, Working
  <2>4. ASSUME ~failed, NEW data \in Payloads, MidstFlash(data) PROVE PhaseInv'
    BY <2>4 DEF MidstFlash, PhaseInv, Working, NoJob
  <2>5. CASE DataEnd \/ DataExec \/ OtherPacket
    BY <2>5 DEF DataEnd, DataExec, OtherPacket, PhaseInv, Working
  <2>6. ASSUME NEW d \in Areas, EraseRefused(d) PROVE PhaseInv'
    BY <2>6 DEF EraseRefused, PhaseInv, Working
  <2>7. ASSUME NEW d \in Areas, EraseStart(d) PROVE PhaseInv'
    BY <2>7 DEF EraseStart, PhaseInv, Working
  <2> QED BY <1>1, <2>1, <2>2, <2>3, <2>4, <2>5, <2>6, <2>7 DEF Packet
<1>2. CASE SkipPiece \/ PatchPiece \/ EraseBlock \/ MidstDone
  BY <1>2 DEF SkipPiece, PatchPiece, EraseBlock, MidstDone, Return, ghosts, PhaseInv, Working
<1>3. CASE Program
  BY <1>3 DEF Program, Return, PhaseInv, Working
<1>4. CASE EraseNext
  BY <1>4 DEF EraseNext, Return, PhaseInv, Working
<1>5. CASE PowerLoss \/ UNCHANGED vars
  BY <1>5 DEF PowerLoss, ghosts, PhaseInv, Working, vars
<1> QED BY <1>1, <1>2, <1>3, <1>4, <1>5 DEF Next, Work, Off

\* What is appended to the received bytes comes behind them.
LEMMA ConcatFacts ==
  ASSUME NEW S, NEW s \in Seq(S), NEW t \in Seq(S)
  PROVE  /\ Len(s \o t) = Len(s) + Len(t)
         /\ \A i \in 1 .. Len(s) : (s \o t)[i] = s[i]
OBVIOUS

LEMMA ConcatTail ==
  ASSUME NEW S, NEW s \in Seq(S), NEW t \in Seq(S)
  PROVE  \A i \in 1 .. Len(t) : (s \o t)[Len(s) + i] = t[i]
OBVIOUS

\* The ghosts of a download follow dl_status.
LEMMA NextJobInv == TypeInv /\ PhaseInv /\ JobInv /\ [Next]_vars => JobInv'
<1> SUFFICES ASSUME TypeInv, PhaseInv, JobInv, [Next]_vars, job'.kind = "download"
             PROVE  /\ job'.start = dl'.start /\ job'.size = dl'.size
                    /\ Len(got') = dl'.recv
                    /\ Working' => /\ dl'.start <= cur'
                                   /\ \A i \in 1 .. Len(src') :
                                        src'[i] = got'[cur' - dl'.start + i]
  BY DEF JobInv
<1> DEFINE Goal == /\ job'.start = dl'.start /\ job'.size = dl'.size
                   /\ Len(got') = dl'.recv
                   /\ Working' => /\ dl'.start <= cur'
                                  /\ \A i \in 1 .. Len(src') :
                                       src'[i] = got'[cur' - dl'.start + i]
<1>0. TypeOK /\ PosInv
  BY DEF TypeInv
<1>1. CASE Packet
  <2>1. ASSUME NEW d \in Downloads, DataStart(d) PROVE Goal
    BY <2>1 DEF DataStart, Working
  <2>2. ASSUME NEW data \in Payloads, MidstRam(data) PROVE Goal
    <3>1. data \in Seq(Byte) /\ ~TooLong(data) /\ dl' = [dl EXCEPT !.recv = @ + Len(data)]
      BY <2>2, InputsAssumption DEF MidstRam
    <3>2. dl'.start = dl.start /\ dl'.size = dl.size /\ dl'.recv = dl.recv + Len(data)
      BY <1>0, <3>1, ReceiveFacts
    <3>3. job' = job /\ job.kind = "download"
      BY <2>2 DEF MidstRam, NoJob
    <3>4. Len(got') = Len(got) + Len(data)
      <4>1. got \in Seq(Byte) /\ got' = got \o data
        BY <1>0, <2>2 DEF MidstRam, TypeOK
      <4>2. Len(got \o data) = Len(got) + Len(data)
        BY <3>1, <4>1, ConcatFacts, Zenon
      <4> QED BY ONLY <4>1, <4>2
    <3> QED BY <2>2, <3>2, <3>3, <3>4 DEF JobInv, MidstRam, Working
  <2>3. ASSUME NEW data \in Payloads, MidstFlash(data) PROVE Goal
    <3>1. data \in Seq(Byte) /\ ~TooLong(data) /\ dl' = [dl EXCEPT !.recv = @ + Len(data)]
      BY <2>3, InputsAssumption DEF MidstFlash
    <3>2. dl'.start = dl.start /\ dl'.size = dl.size /\ dl'.recv = dl.recv + Len(data)
      BY <1>0, <3>1, ReceiveFacts
    <3>3. job' = job /\ job.kind = "download"
      BY <2>3 DEF MidstFlash, NoJob
    <3>4. got \in Seq(Byte) /\ got' = got \o data /\ Len(got) = dl.recv
      BY <1>0, <2>3, <3>3 DEF MidstFlash, TypeOK, JobInv
    <3>5. /\ Len(got') = Len(got) + Len(data)
          /\ \A i \in 1 .. Len(data) : got'[dl.recv + i] = data[i]
      <4>1. Len(got \o data) = Len(got) + Len(data)
        BY ONLY <3>1, <3>4, ConcatFacts, Zenon
      <4>2. \A i \in 1 .. Len(data) : (got \o data)[Len(got) + i] = data[i]
        BY ONLY <3>1, <3>4, ConcatTail, Zenon
      <4> QED BY ONLY <3>4, <4>1, <4>2
    <3>6. cur' = dl.start + dl.recv /\ src' = data
      BY <2>3 DEF MidstFlash
    <3>7. dl.start \in Nat /\ dl.recv \in Nat
      BY <1>0 DEF TypeOK
    <3>8. dl'.start <= cur' /\ cur' - dl'.start = dl.recv
      BY <3>2, <3>6, <3>7
    <3> QED BY <3>2, <3>3, <3>4, <3>5, <3>6, <3>8 DEF JobInv
  <2>4. ASSUME UNCHANGED <<dl, job, got>>, ~Working' PROVE Goal
    BY <2>4 DEF JobInv
  <2>5. ASSUME NEW data \in Payloads, MidstRefused(data) PROVE Goal
    BY <2>4, <2>5 DEF MidstRefused, ghosts, Working
  <2>6. CASE DataEnd \/ DataExec \/ OtherPacket
    BY <2>4, <2>6 DEF DataEnd, DataExec, OtherPacket, ghosts, Working
  <2>7. ASSUME NEW d \in Areas, EraseRefused(d) PROVE Goal
    BY <2>4, <2>7 DEF EraseRefused, ghosts, Working
  <2>8. ASSUME NEW d \in Areas, EraseStart(d) PROVE Goal
    BY <2>8 DEF EraseStart
  <2> QED BY <1>1, <2>1, <2>2, <2>3, <2>5, <2>6, <2>7, <2>8 DEF Packet
<1>2. CASE SkipPiece \/ PatchPiece \/ EraseBlock
  <2>1. UNCHANGED <<dl, job, got>> /\ pc = "blocks" /\ src # <<>> /\ NextPiece
    BY <1>2 DEF SkipPiece, PatchPiece, EraseBlock, ghosts
  <2>2. cur \in Nat /\ dl.start \in Nat /\ PieceLen \in 1 .. Len(src) /\ Len(src) \in Nat
    BY <1>0, <2>1, PieceFacts DEF TypeOK
  <2>3. cur' = cur + PieceLen /\ Len(src') = Len(src) - PieceLen
        /\ \A i \in 1 .. Len(src') : src'[i] = src[PieceLen + i]
    BY <2>1, NextPieceTypes
  <2>4. /\ dl.start <= cur
        /\ \A i \in 1 .. Len(src) : src[i] = got[cur - dl.start + i]
    BY <2>1 DEF JobInv, Working
  <2>5. ASSUME NEW i \in 1 .. Len(src')
        PROVE  src'[i] = got'[cur' - dl'.start + i]
    <3>1. PieceLen + i \in 1 .. Len(src)
      BY <2>2, <2>3
    <3>2. src[PieceLen + i] = got[cur - dl.start + (PieceLen + i)]
      BY <2>4, <3>1
    <3>3. cur - dl.start + (PieceLen + i) = cur' - dl'.start + i
      BY <2>1, <2>2, <2>3
    <3>4. got' = got /\ src'[i] = src[PieceLen + i]
      BY <2>1, <2>3
    <3> QED BY <3>2, <3>3, <3>4
  <2>6. dl.start <= cur'
    BY <2>2, <2>3, <2>4
  <2>7. job.start = dl.start /\ job.size = dl.size /\ Len(got) = dl.recv
    BY <2>1 DEF JobInv
  <2> QED BY <2>1, <2>5, <2>6, <2>7
<1>3. CASE Program \/ MidstDone
  <2>1. UNCHANGED <<dl, job, got>> /\ Working
    BY <1>3 DEF Program, MidstDone, ghosts, Working
  <2>2. Working' => UNCHANGED <<cur, src>>
    BY <1>3 DEF Program, MidstDone, Return, Working
  <2> QED BY <2>1, <2>2 DEF JobInv
<1>4. CASE EraseNext
  BY <1>4 DEF EraseNext, PhaseInv
<1>5. CASE PowerLoss
  BY <1>5 DEF PowerLoss, ghosts, Working, JobInv
<1>6. CASE UNCHANGED vars
  BY <1>6 DEF vars, Working, JobInv
<1> QED BY <1>1, <1>2, <1>3, <1>4, <1>5, <1>6 DEF Next, Work, Off

-----------------------------------------------------------------------------
(* Downloads.                                                              *)

\* Steps that touch nothing of a download.
LEMMA StillDownload ==
  ASSUME DownloadInv, UNCHANGED <<mem, dl, pc, cur, src, wr, job, base, got, erased, failed>>
  PROVE  DownloadInv'
<1>1. /\ OneSided' = OneSided /\ InFlash' = InFlash /\ DamageBounded' = DamageBounded
      /\ TargetInv' = TargetInv
  BY DEF OneSided, InFlash, InRam, InJob, DamageBounded, Damaged, TargetInv, Target
<1>2. \A x : Right(Pos, x, Promised(x))' = Right(Pos, x, Promised(x))
  BY DEF Right, Pos, Working, Promised, Target, InJob
<1> QED BY <1>1, <1>2 DEF DownloadInv

\* In the state between two packets or two pieces, what is in memory is right.
LEMMA SettledFacts ==
  ASSUME Inv, job.kind = "download", OneSided, ~failed, pc \in {"idle", "blocks"}
  PROVE  \A x \in Addr : Right(Pos, x, mem[x])
BY DEF Inv, DownloadInv, Promised

\* A new download.
LEMMA DataStartDownload ==
  ASSUME Inv, NEW d \in Downloads, DataStart(d)
  PROVE  DownloadInv'
<1>1. d.start \in Nat /\ d.size \in Nat
  BY InputsAssumption, GeometryFacts DEF Area
<1>2. /\ pc' = "idle" /\ base' = mem' /\ erased' = {}
      /\ job' = [kind |-> "download", start |-> d.start, size |-> d.size]
      /\ dl' = [start |-> d.start, size |-> d.size, recv |-> 0]
  BY DEF DataStart
<1>3. Pos' = d.start /\ job'.start = d.start
  BY <1>1, <1>2 DEF Pos, Working
<1>4. ASSUME NEW x \in Addr PROVE Right(Pos, x, Promised(x))'
  <2>1. x \in Nat
    BY GeometryFacts
  <2> QED BY <1>1, <1>2, <1>3, <2>1 DEF Right, Promised, InJob
<1>5. DamageBounded'
  BY <1>2 DEF DamageBounded, Damaged
<1> QED BY <1>2, <1>4, <1>5 DEF DownloadInv, TargetInv

\* A payload for RAM.
LEMMA MidstRamDownload ==
  ASSUME Inv, ~failed, NEW data \in Payloads, MidstRam(data)
  PROVE  DownloadInv'
<1> SUFFICES ASSUME job'.kind = "download", OneSided' PROVE DownloadInv'
  BY DEF DownloadInv
<1> DEFINE addr == dl.start + dl.recv
<1>1. TypeOK /\ PosInv /\ JobInv
  BY DEF Inv, TypeInv
<1>2. job' = job /\ job.kind = "download" /\ pc = "idle" /\ pc' = "idle"
      /\ UNCHANGED <<base, erased, failed>> /\ got' = got \o data /\ ~InWindow(addr)
  BY DEF MidstRam, NoJob
<1>3. OneSided /\ (InFlash \/ InRam)
  BY <1>2 DEF OneSided, InFlash, InRam, InJob
<1>4. data \in Seq(Byte) /\ Len(data) \in Nat
  BY InputsAssumption
<1>5. /\ dl'.start = dl.start /\ dl'.size = dl.size /\ dl'.recv = dl.recv + Len(data)
      /\ dl.recv + Len(data) <= dl.size
  <2>1. ~TooLong(data) /\ dl' = [dl EXCEPT !.recv = @ + Len(data)]
    BY DEF MidstRam
  <2> QED BY <1>1, <1>4, <2>1, ReceiveFacts
<1>6. /\ dl.start \in Nat /\ dl.size \in Nat /\ dl.recv \in Nat /\ dl.start + dl.size <= Space
      /\ dl.start = job.start /\ dl.size = job.size /\ got \in Seq(Byte) /\ Len(got) = dl.recv
  BY <1>1, <1>2 DEF TypeOK, PosInv, JobInv
<1>7. Pos = addr /\ Pos' = addr + Len(data)
  BY <1>2, <1>5, <1>6, <1>4 DEF Pos, Working
<1>8. ASSUME NEW x \in Addr, x \in addr .. addr + Len(data) - 1
      PROVE  InJob(x) /\ x \notin Window /\ mem'[x] = data[x - addr + 1]
  <2>1. x \in Nat /\ InJob(x)
    BY <1>4, <1>5, <1>6, <1>8 DEF InJob
  <2>2. addr \in Addr /\ InJob(addr)
    <3>1. addr \in Nat /\ addr <= x /\ x < addr + Len(data)
      BY <1>4, <1>6, <1>8, <2>1
    <3>2. job.start <= addr /\ addr < job.start + job.size
      BY <1>4, <1>5, <1>6, <2>1, <3>1
    <3> QED BY <1>6, <3>1, <3>2, GeometryFacts DEF Addr, InJob
  <2>3. addr \notin Window
    BY <1>2, <1>6, GeometryFacts DEF InWindow, Window
  <2>4. x \notin Window
    BY <1>3, <2>1, <2>2, <2>3 DEF InFlash, InRam
  <2> QED BY <1>8, <2>1, <2>4 DEF MidstRam
<1>9. ASSUME NEW x \in Addr, x \notin addr .. addr + Len(data) - 1 PROVE mem'[x] = mem[x]
  BY <1>9 DEF MidstRam
<1>10. /\ \A i \in 1 .. dl.recv : got'[i] = got[i]
       /\ \A i \in 1 .. Len(data) : got'[dl.recv + i] = data[i]
  <2>1. got' = got \o data /\ got \in Seq(Byte) /\ Len(got) = dl.recv
    BY <1>2, <1>6
  <2>2. data \in Seq(Byte)
    BY <1>4
  <2>3. \A i \in 1 .. Len(got) : (got \o data)[i] = got[i]
    BY ONLY <2>1, <2>2, ConcatFacts, Zenon
  <2>4. \A i \in 1 .. Len(data) : (got \o data)[Len(got) + i] = data[i]
    BY ONLY <2>1, <2>2, ConcatTail, Zenon
  <2> QED BY ONLY <2>1, <2>3, <2>4
<1>11. ASSUME NEW x \in Addr PROVE Right(Pos, x, Promised(x))'
  <2>1. x \in Nat
    BY GeometryFacts
  <2>2. Promised(x)' = mem'[x] /\ InJob(x)' = InJob(x)
    BY <1>2 DEF Promised, InJob
  <2>3. Right(addr, x, mem[x])
    BY <1>2, <1>3, <1>7, SettledFacts
  <2>4. CASE x \in addr .. addr + Len(data) - 1
    <3>1. mem'[x] = data[x - addr + 1] /\ InJob(x)
      BY <1>8, <2>4
    <3>2. x - addr + 1 \in 1 .. Len(data) /\ x - job.start + 1 = dl.recv + (x - addr + 1)
      BY <1>4, <1>6, <2>1, <2>4, SMTT(40)
    <3>3. got'[x - job.start + 1] = mem'[x]
      BY <1>10, <3>1, <3>2
    <3>4. ~(x >= addr + Len(data))
      BY <1>4, <1>6, <2>1, <2>4
    <3> QED BY <1>2, <1>7, <2>2, <3>1, <3>3, <3>4 DEF Right
  <2>5. CASE x \notin addr .. addr + Len(data) - 1
    <3>1. mem'[x] = mem[x] /\ (x < addr \/ x >= addr + Len(data))
      BY <1>4, <1>6, <1>9, <2>1, <2>5
    <3>2. InJob(x) /\ x < addr => got'[x - job.start + 1] = got[x - job.start + 1]
      <4>1. InJob(x) /\ x < addr => x - job.start + 1 \in 1 .. dl.recv
        BY <1>6, <2>1 DEF InJob
      <4> QED BY <1>10, <4>1
    <3>3. x < addr => x < addr + Len(data)
      BY <1>4, <1>6, <2>1
    <3>4. x >= addr + Len(data) => x >= addr /\ ~(x < addr + Len(data))
      BY <1>4, <1>6, <2>1
    <3> QED BY <1>2, <1>7, <2>2, <2>3, <3>1, <3>2, <3>3, <3>4 DEF Right
  <2> QED BY <2>4, <2>5
<1>12. DamageBounded'
  BY <1>2, <1>11 DEF DamageBounded, Damaged, Right, Promised
<1> QED BY <1>2, <1>11, <1>12 DEF DownloadInv, TargetInv

\* A payload for the flash is accepted.
LEMMA MidstFlashDownload ==
  ASSUME Inv, ~failed, NEW data \in Payloads, MidstFlash(data)
  PROVE  DownloadInv'
<1> SUFFICES ASSUME job'.kind = "download", OneSided' PROVE DownloadInv'
  BY DEF DownloadInv
<1> DEFINE addr == dl.start + dl.recv
<1>1. TypeOK /\ PosInv /\ JobInv
  BY DEF Inv, TypeInv
<1>2. job' = job /\ job.kind = "download" /\ pc = "idle" /\ pc' = "blocks" /\ src' = data
      /\ UNCHANGED <<mem, base, erased, failed>> /\ got' = got \o data /\ InWindow(addr)
      /\ cur' = addr
  BY DEF MidstFlash, NoJob
<1>3. OneSided /\ (InFlash \/ InRam) /\ InFlash' = InFlash
  BY <1>2 DEF OneSided, InFlash, InRam, InJob
<1>4. data \in Seq(Byte) /\ Len(data) \in Nat
  BY InputsAssumption
<1>5. dl.recv + Len(data) <= dl.size
  <2>1. ~TooLong(data) /\ dl' = [dl EXCEPT !.recv = @ + Len(data)]
    BY DEF MidstFlash
  <2> QED BY <1>1, <1>4, <2>1, ReceiveFacts
<1>6. /\ dl.start \in Nat /\ dl.size \in Nat /\ dl.recv \in Nat /\ dl.start + dl.size <= Space
      /\ dl.start = job.start /\ dl.size = job.size /\ got \in Seq(Byte) /\ Len(got) = dl.recv
  BY <1>1, <1>2 DEF TypeOK, PosInv, JobInv
<1>7. Pos = addr /\ Pos' = addr
  BY <1>2 DEF Pos, Working
<1>8. src' # <<>> => InFlash'
  <2> SUFFICES ASSUME data # <<>> PROVE InFlash
    BY <1>2, <1>3
  <2>1. Len(data) # 0
    BY <1>4
  <2>2. addr \in Addr /\ InJob(addr) /\ addr \in Window
    <3>1. addr \in Nat /\ job.start <= addr /\ addr < job.start + job.size
      BY <1>4, <1>5, <1>6, <2>1
    <3>2. FW <= addr /\ addr < FW + Win
      BY <1>2 DEF InWindow
    <3> QED BY <1>6, <3>1, <3>2, GeometryFacts DEF Addr, InJob, Window
  <2> QED BY <1>3, <2>2 DEF InRam
<1>9. \A i \in 1 .. dl.recv : got'[i] = got[i]
  <2>1. got' = got \o data /\ data \in Seq(Byte) /\ got \in Seq(Byte) /\ Len(got) = dl.recv
    BY <1>2, <1>4, <1>6
  <2>2. \A i \in 1 .. Len(got) : (got \o data)[i] = got[i]
    BY <2>1, ConcatFacts, Zenon
  <2> QED BY ONLY <2>1, <2>2
<1>10. ASSUME NEW x \in Addr PROVE Right(Pos, x, Promised(x))'
  <2>1. x \in Nat
    BY GeometryFacts
  <2>2. Promised(x)' = mem[x] /\ InJob(x)' = InJob(x)
    BY <1>2 DEF Promised, InJob
  <2>3. Right(addr, x, mem[x])
    BY <1>2, <1>3, <1>7, SettledFacts
  <2>4. InJob(x) /\ x < addr => got'[x - job.start + 1] = got[x - job.start + 1]
    <3>1. InJob(x) /\ x < addr => x - job.start + 1 \in 1 .. dl.recv
      BY <1>6, <2>1 DEF InJob
    <3> QED BY <1>9, <3>1
  <2> QED BY <1>2, <1>7, <2>2, <2>3, <2>4 DEF Right
<1>11. DamageBounded'
  BY <1>2, <1>10 DEF DamageBounded, Damaged, Right, Promised
<1> QED BY <1>2, <1>8, <1>10, <1>11 DEF DownloadInv, TargetInv

\* A piece that is about to be dealt with: it lies in the job, in the window and
\* in one block, its bytes were received for these addresses, and the memory is
\* right as far as cur.
LEMMA PieceInJob ==
  ASSUME Inv, pc = "blocks", src # <<>>, job.kind = "download", OneSided
  PROVE  /\ InFlash /\ ~failed
         /\ cur \in Nat /\ PieceLen \in Nat \ {0} /\ job.start \in Nat /\ job.size \in Nat
         /\ job.start <= cur /\ cur + PieceLen <= job.start + job.size
         /\ dl.start = job.start /\ dl.size = job.size
         /\ InWindow(cur)
         /\ \A x \in cur .. cur + PieceLen - 1 :
              /\ x \in Addr /\ InJob(x) /\ x \in Window /\ BlockOf(x) = BlockOf(cur)
              /\ x - cur + 1 \in 1 .. PieceLen
              /\ src[x - cur + 1] = got[x - job.start + 1]
         /\ \A x \in Addr : Right(cur, x, mem[x])
<1>1. TypeInv /\ TypeOK /\ PosInv /\ JobInv /\ PhaseInv /\ DownloadInv
  BY DEF Inv, TypeInv
<1>2. InFlash /\ ~failed
  BY <1>1 DEF DownloadInv, PhaseInv
<1>3. /\ cur \in Nat /\ src \in Seq(Byte) /\ Len(src) \in Nat
      /\ dl.start \in Nat /\ dl.size \in Nat /\ job.start \in Nat /\ job.size \in Nat
  BY <1>1 DEF TypeOK
<1>4. /\ dl.start = job.start /\ dl.size = job.size /\ job.start <= cur
      /\ \A i \in 1 .. Len(src) : src[i] = got[cur - job.start + i]
  BY <1>1 DEF JobInv, Working
<1>5. /\ PieceLen \in 1 .. Len(src)
      /\ cur + Len(src) <= job.start + job.size
      /\ cur .. cur + PieceLen - 1 \subseteq Addr
      /\ \A x \in cur .. cur + PieceLen - 1 : BlockOf(x) = BlockOf(cur)
  BY <1>1, <1>4, PieceFacts
<1>6. PieceLen \in Nat \ {0} /\ cur + PieceLen <= job.start + job.size
  BY <1>3, <1>5
<1>7. ASSUME NEW x \in cur .. cur + PieceLen - 1
      PROVE  /\ x \in Addr /\ InJob(x) /\ x \in Window /\ BlockOf(x) = BlockOf(cur)
             /\ x - cur + 1 \in 1 .. PieceLen
             /\ src[x - cur + 1] = got[x - job.start + 1]
  <2>1. x \in Nat /\ cur <= x /\ x < cur + PieceLen
    BY <1>3, <1>6
  <2>2. x \in Addr /\ InJob(x)
    BY <1>3, <1>4, <1>5, <1>6, <2>1 DEF InJob
  <2>3. x \in Window
    BY <1>2, <2>2 DEF InFlash
  <2>4. x - cur + 1 \in 1 .. PieceLen /\ x - cur + 1 \in 1 .. Len(src)
    BY <1>3, <1>5, <2>1
  <2>5. cur - job.start + (x - cur + 1) = x - job.start + 1
    BY <1>3, <2>1
  <2> QED BY <1>4, <1>5, <2>2, <2>3, <2>4, <2>5
<1>8. InWindow(cur)
  <2>1. cur \in cur .. cur + PieceLen - 1
    BY <1>3, <1>6
  <2> QED BY <1>3, <1>7, <2>1, GeometryFacts DEF Window, InWindow
<1>9. \A x \in Addr : Right(cur, x, mem[x])
  <2>1. Pos = cur
    BY DEF Pos, Working
  <2> QED BY <1>2, <2>1, SettledFacts
<1> QED BY <1>2, <1>3, <1>4, <1>6, <1>7, <1>8, <1>9

\* What is right at cur stays right when the piece there has been dealt with, at
\* every address outside of it.
LEMMA RightBeyond ==
  ASSUME NEW p \in Nat, NEW q \in Nat, p <= q, NEW x \in Nat, NEW v, ~(p <= x /\ x < q),
         Right(p, x, v)
  PROVE  Right(q, x, v)
BY DEF Right

\* The piece is there already.
LEMMA SkipPieceDownload ==
  ASSUME Inv, SkipPiece
  PROVE  DownloadInv'
<1> SUFFICES ASSUME job'.kind = "download", OneSided' PROVE DownloadInv'
  BY DEF DownloadInv
<1>1. UNCHANGED <<mem, dl, pc, job, base, got, erased, failed>> /\ pc = "blocks" /\ src # <<>>
      /\ ~Differs /\ cur' = cur + PieceLen
  BY DEF SkipPiece, ghosts, NextPiece
<1>2. OneSided /\ job.kind = "download" /\ InFlash' = InFlash
  BY <1>1 DEF OneSided, InFlash, InRam, InJob
<1>3. ASSUME NEW x \in Addr PROVE Right(Pos, x, Promised(x))'
  <2>1. /\ x \in Nat /\ cur \in Nat /\ PieceLen \in Nat \ {0}
      /\ cur + PieceLen \in Nat /\ cur <= cur + PieceLen
    BY <1>1, <1>2, PieceInJob, GeometryFacts
  <2>2. Right(cur + PieceLen, x, mem[x])
    <3>1. CASE x \in cur .. cur + PieceLen - 1
      <4>1. InJob(x) /\ x - cur + 1 \in 1 .. PieceLen /\ src[x - cur + 1] = got[x - job.start + 1]
        BY <1>1, <1>2, <3>1, PieceInJob
      <4>2. mem[cur + (x - cur + 1) - 1] = src[x - cur + 1]
        BY <1>1, <4>1 DEF Differs
      <4>3. cur + (x - cur + 1) - 1 = x /\ ~(x >= cur + PieceLen)
        BY <2>1, <3>1
      <4> QED BY <4>1, <4>2, <4>3 DEF Right
    <3>2. CASE x \notin cur .. cur + PieceLen - 1
      <4>1. ~(cur <= x /\ x < cur + PieceLen)
        BY <2>1, <3>2
      <4>2. Right(cur, x, mem[x])
        BY <1>1, <1>2, PieceInJob
      <4> QED BY <2>1, <4>1, <4>2, RightBeyond
    <3> QED BY <3>1, <3>2
  <2>3. Pos' = cur + PieceLen /\ Promised(x)' = mem[x]
    BY <1>1 DEF Pos, Working, Promised
  <2> QED BY <1>1, <2>2, <2>3 DEF Right, InJob
<1>4. DamageBounded'
  BY <1>1, <1>3 DEF DamageBounded, Damaged, Right, Promised
<1>5. InFlash'
  BY <1>1, <1>2, PieceInJob
<1> QED BY <1>1, <1>3, <1>4, <1>5 DEF DownloadInv, TargetInv

\* The piece is about to be programmed in place.
LEMMA PatchPieceDownload ==
  ASSUME Inv, PatchPiece
  PROVE  DownloadInv'
<1> SUFFICES ASSUME job'.kind = "download", OneSided' PROVE DownloadInv'
  BY DEF DownloadInv
<1>1. UNCHANGED <<mem, dl, job, base, got, erased, failed>> /\ pc = "blocks" /\ src # <<>>
      /\ cur' = cur + PieceLen /\ pc' = "program"
  BY DEF PatchPiece, ghosts, NextPiece
<1>2. OneSided /\ job.kind = "download" /\ InFlash' = InFlash
  BY <1>1 DEF OneSided, InFlash, InRam, InJob
<1>3. wr'.at = cur /\ wr'.data = Piece
  BY DEF PatchPiece
<1>4. src \in Seq(Byte) /\ PieceLen \in 0 .. Len(src)
  <2>1. src \in Seq(Byte) /\ Len(src) \in Nat
    BY DEF Inv, TypeInv, TypeOK
  <2>2. PieceLen \in 1 .. Len(src)
    BY <1>1, PieceFacts DEF Inv
  <2> QED BY <2>1, <2>2
<1>5. Len(wr'.data) = PieceLen /\ \A i \in 1 .. PieceLen : wr'.data[i] = src[i]
  BY <1>3, <1>4, RestFacts DEF Piece
<1>6. Target' = cur .. cur + PieceLen - 1
  BY <1>3, <1>5 DEF Target
<1>7. cur \in Nat /\ PieceLen \in Nat \ {0} /\ cur + PieceLen \in Nat /\ cur <= cur + PieceLen
  BY <1>1, <1>2, PieceInJob
<1>8. TargetInv'
  <2>1. \A x \in cur .. cur + PieceLen - 1 :
          x \in Addr /\ InJob(x) /\ x \in Window /\ BlockOf(x) = BlockOf(cur)
    BY <1>1, <1>2, PieceInJob
  <2>2. cur \in cur .. cur + PieceLen - 1
    BY <1>7
  <2>3. \E z \in Addr : InJob(z)' /\ BlockOf(z) = BlockOf(cur)
    BY <1>1, <2>1, <2>2 DEF InJob
  <2> QED BY <1>3, <1>6, <1>7, <2>1, <2>3 DEF TargetInv
<1>9. ASSUME NEW x \in Addr PROVE Right(Pos, x, Promised(x))'
  <2>1. x \in Nat
    BY GeometryFacts
  <2>2. Pos' = cur + PieceLen
    BY <1>1 DEF Pos, Working
  <2>3. CASE x \in cur .. cur + PieceLen - 1
    <3>1. InJob(x) /\ x - cur + 1 \in 1 .. PieceLen /\ src[x - cur + 1] = got[x - job.start + 1]
      BY <1>1, <1>2, <2>3, PieceInJob
    <3>2. Promised(x)' = got[x - job.start + 1]
      BY <1>1, <1>3, <1>5, <1>6, <2>3, <3>1 DEF Promised
    <3>3. ~(x >= cur + PieceLen)
      BY <1>7, <2>1, <2>3
    <3> QED BY <1>1, <2>2, <3>1, <3>2, <3>3 DEF Right, InJob
  <2>4. CASE x \notin cur .. cur + PieceLen - 1
    <3>1. ~(cur <= x /\ x < cur + PieceLen)
      BY <1>7, <2>1, <2>4
    <3>2. Right(cur, x, mem[x])
      BY <1>1, <1>2, PieceInJob
    <3>3. Right(cur + PieceLen, x, mem[x])
      BY <1>7, <2>1, <3>1, <3>2, RightBeyond
    <3>4. Promised(x)' = mem[x]
      BY <1>1, <1>6, <2>4 DEF Promised
    <3> QED BY <1>1, <2>2, <3>3, <3>4 DEF Right, InJob
  <2> QED BY <2>3, <2>4
<1>10. DamageBounded'
  <2>1. \A x \in Addr : ~InJob(x) => mem[x] = base[x]
    BY <1>1, <1>2, PieceInJob DEF Right
  <2> QED BY <1>1, <2>1 DEF DamageBounded, Damaged, InJob
<1>11. InFlash'
  BY <1>1, <1>2, PieceInJob
<1> QED BY <1>1, <1>8, <1>9, <1>10, <1>11 DEF DownloadInv

\* The block of the piece is erased; its new contents are about to be programmed.
LEMMA EraseBlockDownload ==
  ASSUME Inv, EraseBlock
  PROVE  DownloadInv'
<1> SUFFICES ASSUME job'.kind = "download", OneSided' PROVE DownloadInv'
  BY DEF DownloadInv
<1> DEFINE b == BlockStart(cur)
<1>1. UNCHANGED <<dl, job, base, got, failed>> /\ pc = "blocks" /\ src # <<>>
      /\ cur' = cur + PieceLen /\ pc' = "program" /\ erased' = erased \cup {BlockOf(cur)}
      /\ mem' = SfcErase(b)
  BY DEF EraseBlock, NextPiece
<1>2. OneSided /\ job.kind = "download" /\ InFlash' = InFlash
  BY <1>1 DEF OneSided, InFlash, InRam, InJob
<1>3. wr'.at = b /\ wr'.data = BlockImage
  BY DEF EraseBlock
<1>4. Len(BlockImage) = Blk /\ TypeInv
  BY <1>1, ImageFacts DEF Inv
<1>5. Target' = b .. b + Blk - 1
  BY <1>3, <1>4 DEF Target
<1>6. /\ cur \in Nat /\ PieceLen \in Nat \ {0} /\ cur + PieceLen \in Nat /\ cur <= cur + PieceLen
      /\ job.start \in Nat /\ job.size \in Nat /\ job.start <= cur
      /\ cur + PieceLen <= job.start + job.size
      /\ dl.start = job.start /\ dl.size = job.size
  BY <1>1, <1>2, PieceInJob
<1>7. /\ b \in Nat /\ b <= cur /\ cur < b + Blk /\ cur + PieceLen <= b + Blk /\ Blk \in Nat \ {0}
      /\ BlockOf(b) = BlockOf(cur)
      /\ \A x \in Nat : BlockOf(x) = BlockOf(cur) <=> b <= x /\ x < b + Blk
  BY <1>1, <1>4, <1>6, BlockFacts, BlockStartFacts, PieceFacts, GeometryFacts
<1>8. cur \in Addr /\ InJob(cur) /\ InWindow(cur)
  <2>1. cur \in cur .. cur + PieceLen - 1
    BY <1>6
  <2> QED BY <1>1, <1>2, <2>1, PieceInJob
<1>9. b .. b + Blk - 1 \subseteq Window /\ EraseTarget(b) = b
  <2>1. b .. b + Blk - 1 \subseteq Window
    BY <1>6, <1>8, BlockInside
  <2>2. InWindow(b)
    <3>1. b \in b .. b + Blk - 1
      BY <1>7
    <3> QED BY <1>7, <2>1, <3>1, GeometryFacts DEF Window, InWindow
  <2>3. BlockStart(b) = b
    BY <1>6, BlockStartFacts
  <2> QED BY <1>7, <2>1, <2>2, <2>3, BlockInside
<1>10. TargetInv'
  <2>1. \A x \in b .. b + Blk - 1 : BlockOf(x) = BlockOf(b)
    <3> SUFFICES ASSUME NEW x \in b .. b + Blk - 1 PROVE BlockOf(x) = BlockOf(b)
      OBVIOUS
    <3>1. x \in Nat /\ b <= x /\ x < b + Blk
      BY <1>7
    <3> QED BY <1>7, <3>1
  <2>2. \E z \in Addr : InJob(z)' /\ BlockOf(z) = BlockOf(b)
    BY <1>1, <1>7, <1>8 DEF InJob
  <2> QED BY <1>3, <1>5, <1>7, <1>9, <2>1, <2>2 DEF TargetInv
<1>11. ASSUME NEW x \in Addr, x \notin b .. b + Blk - 1
       PROVE  mem'[x] = mem[x] /\ BlockOf(x) # BlockOf(cur)
  <2>1. mem'[x] = mem[x]
    BY <1>1, <1>9, <1>11 DEF SfcErase
  <2>2. x \in Nat /\ ~(b <= x /\ x < b + Blk)
    BY <1>7, <1>11, GeometryFacts
  <2> QED BY <1>7, <2>1, <2>2
<1>12. \A x \in Addr : Right(cur, x, mem[x])
  BY <1>1, <1>2, PieceInJob
<1>13. ASSUME NEW x \in Addr PROVE Right(Pos, x, Promised(x))'
  <2>1. x \in Nat
    BY GeometryFacts
  <2>2. Pos' = cur + PieceLen /\ Right(cur, x, mem[x])
    BY <1>1, <1>12 DEF Pos, Working
  <2>3. CASE x \notin b .. b + Blk - 1
    <3>1. Promised(x)' = mem[x] /\ BlockOf(x) # BlockOf(cur)
      BY <1>5, <1>11, <2>3 DEF Promised
    <3>2. Right(cur + PieceLen, x, mem[x])
      <4>1. ~(cur <= x /\ x < cur + PieceLen)
        BY <1>6, <1>7, <2>1, <2>3
      <4> QED BY <1>6, <2>1, <2>2, <4>1, RightBeyond
    <3> QED BY <1>1, <2>2, <3>1, <3>2 DEF Right, InJob
  <2>4. CASE x \in b .. b + Blk - 1
    <3> DEFINE i == x - b + 1
    <3>1. i \in 1 .. Blk /\ b + i - 1 = x /\ BlockOf(x) = BlockOf(cur)
      <4>1. b <= x /\ x < b + Blk
        BY <1>7, <2>1, <2>4
      <4> QED BY <1>7, <2>1, <4>1
    <3>2. Promised(x)' = IF x < cur THEN mem[x]
                         ELSE IF x < cur + PieceLen THEN src[x - cur + 1] ELSE Fill(x)
      <4>1. Promised(x)' = BlockImage[i]
        BY <1>1, <1>3, <1>5, <2>4 DEF Promised
      <4> QED BY <1>1, <1>4, <3>1, <4>1, ImageFacts
    <3> HIDE DEF i
    <3>3. CASE x < cur
      <4>1. Promised(x)' = mem[x] /\ ~(cur <= x /\ x < cur + PieceLen) /\ ~(x >= cur + PieceLen)
        BY <1>6, <2>1, <3>2, <3>3
      <4>2. Right(cur + PieceLen, x, mem[x])
        BY <1>6, <2>1, <2>2, <4>1, RightBeyond
      <4> QED BY <1>1, <2>2, <4>1, <4>2 DEF Right, InJob
    <3>4. CASE ~(x < cur) /\ x < cur + PieceLen
      <4>1. x \in cur .. cur + PieceLen - 1 /\ ~(x >= cur + PieceLen)
        BY <1>6, <2>1, <3>4
      <4>2. InJob(x) /\ src[x - cur + 1] = got[x - job.start + 1]
        BY <1>1, <1>2, <4>1, PieceInJob
      <4>3. Promised(x)' = got[x - job.start + 1]
        BY <3>2, <3>4, <4>2
      <4> QED BY <1>1, <2>2, <4>1, <4>2, <4>3 DEF Right, InJob
    <3>5. CASE ~(x < cur + PieceLen)
      <4>1. ~(x < cur) /\ x >= job.start
        BY <1>6, <2>1, <3>5
      <4>2. Promised(x)' = IF InJob(x) THEN Bits ELSE mem[x]
        BY <1>6, <3>2, <3>5, <4>1 DEF Fill, InJob
      <4>3. ~InJob(x) => mem[x] = base[x]
        BY <2>2 DEF Right
      <4> QED BY <1>1, <2>2, <3>5, <4>2, <4>3 DEF Right, InJob
    <3> QED BY <3>3, <3>4, <3>5
  <2> QED BY <2>3, <2>4
<1>14. DamageBounded'
  <2>1. ASSUME NEW x \in Addr, Damaged(x)' PROVE BlockOf(x) = BlockOf(cur)
    <3>1. ~InJob(x) /\ mem'[x] # base[x]
      BY <1>1, <2>1 DEF Damaged, InJob
    <3>2. mem[x] = base[x]
      BY <1>12, <3>1 DEF Right
    <3>3. x \in b .. b + Blk - 1
      BY <1>11, <3>1, <3>2
    <3>4. x \in Nat /\ b <= x /\ x < b + Blk
      BY <1>7, <3>3, GeometryFacts
    <3> QED BY <1>7, <3>4
  <2>2. PICK z \in Addr : InJob(z) /\ BlockOf(z) = BlockOf(cur)
    BY <1>8
  <2>3. InJob(z)'
    BY <1>1, <2>2 DEF InJob
  <2>4. \A x, y \in Addr : Damaged(x)' /\ Damaged(y)' =>
          /\ BlockOf(x) = BlockOf(y)
          /\ \E u \in Addr : InJob(u)' /\ BlockOf(u) = BlockOf(x)
    <3> SUFFICES ASSUME NEW x \in Addr, NEW y \in Addr, Damaged(x)', Damaged(y)'
                 PROVE  /\ BlockOf(x) = BlockOf(y)
                        /\ \E u \in Addr : InJob(u)' /\ BlockOf(u) = BlockOf(x)
      OBVIOUS
    <3>1. BlockOf(x) = BlockOf(cur) /\ BlockOf(y) = BlockOf(cur)
      BY <2>1
    <3> QED BY <2>2, <2>3, <3>1
  <2> QED BY <2>4 DEF DamageBounded
<1>15. InFlash'
  BY <1>1, <1>2, PieceInJob
<1> QED BY <1>1, <1>10, <1>13, <1>14, <1>15 DEF DownloadInv

\* What is programmed: nothing outside Target changes, and if the read-back
\* succeeds the memory holds what was promised.
LEMMA ProgramFacts ==
  ASSUME Inv, Program, job.kind = "download", OneSided
  PROVE  /\ \A x \in Addr : x \notin Target => mem'[x] = mem[x]
         /\ Verified(mem') => \A x \in Addr : mem'[x] = Promised(x)
<1>1. pc = "program" /\ wr.at \in Nat /\ wr.data \in Seq(Byte) /\ Len(wr.data) \in Nat
  BY DEF Inv, TypeInv, TypeOK, Program
<1>2. PICK n \in 0 .. Len(wr.data) : mem' = SfcWrite(wr.at, wr.data, n)
  BY DEF Program
<1>3. ASSUME NEW x \in Addr, x \notin Target PROVE mem'[x] = mem[x]
  <2>1. x \in Nat
    BY GeometryFacts
  <2>2. x \notin wr.at .. wr.at + n - 1
    BY <1>1, <1>3, <2>1 DEF Target
  <2> QED BY <1>2, <2>2 DEF SfcWrite
<1>4. ASSUME Verified(mem'), NEW x \in Addr PROVE mem'[x] = Promised(x)
  <2>1. CASE x \in Target
    <3>0. x \in Nat /\ x \in wr.at .. wr.at + Len(wr.data) - 1
      BY <1>1, <2>1, GeometryFacts, Zenon DEF Target
    <3>1. x \in Nat /\ x - wr.at + 1 \in 1 .. Len(wr.data) /\ wr.at + (x - wr.at + 1) - 1 = x
      BY ONLY <1>1, <3>0
    <3>2. mem'[wr.at + (x - wr.at + 1) - 1] = wr.data[x - wr.at + 1]
      BY <1>4, <3>1 DEF Verified
    <3> QED BY <1>1, <2>1, <3>1, <3>2 DEF Promised
  <2>2. CASE x \notin Target
    BY <1>3, <2>2 DEF Promised
  <2> QED BY <2>1, <2>2
<1> QED BY <1>3, <1>4

\* write_and_check.
LEMMA ProgramDownload ==
  ASSUME Inv, Program
  PROVE  DownloadInv'
<1> SUFFICES ASSUME job'.kind = "download", OneSided' PROVE DownloadInv'
  BY DEF DownloadInv
<1>1. UNCHANGED <<dl, job, base, got, erased>> /\ pc = "program"
  BY DEF Program
<1>2. OneSided /\ job.kind = "download" /\ InFlash' = InFlash
  BY <1>1 DEF OneSided, InFlash, InRam, InJob
<1>3. InFlash /\ TargetInv /\ ~failed /\ \A x \in Addr : Right(Pos, x, Promised(x))
  BY <1>1, <1>2 DEF Inv, DownloadInv, PhaseInv
<1>4. DamageBounded'
  <2>1. ASSUME NEW x \in Addr, Damaged(x)' PROVE BlockOf(x) = BlockOf(wr.at)
    <3>1. ~InJob(x) /\ mem'[x] # base[x]
      BY <1>1, <2>1 DEF Damaged, InJob
    <3>2. Promised(x) = base[x]
      BY <1>3, <3>1 DEF Right
    <3>3. x \in Target
      <4>1. x \notin Target => Promised(x) = mem[x] /\ mem'[x] = mem[x]
        BY <1>1, <1>2, ProgramFacts DEF Promised
      <4> QED BY <3>1, <3>2, <4>1
    <3> QED BY <1>1, <1>3, <3>3 DEF TargetInv
  <2>2. PICK z \in Addr : InJob(z) /\ BlockOf(z) = BlockOf(wr.at)
    BY <1>1, <1>3 DEF TargetInv
  <2>3. InJob(z)'
    BY <1>1, <2>2 DEF InJob
  <2>4. \A x, y \in Addr : Damaged(x)' /\ Damaged(y)' =>
          /\ BlockOf(x) = BlockOf(y)
          /\ \E u \in Addr : InJob(u)' /\ BlockOf(u) = BlockOf(x)
    <3> SUFFICES ASSUME NEW x \in Addr, NEW y \in Addr, Damaged(x)', Damaged(y)'
                 PROVE  /\ BlockOf(x) = BlockOf(y)
                        /\ \E u \in Addr : InJob(u)' /\ BlockOf(u) = BlockOf(x)
      OBVIOUS
    <3>1. BlockOf(x) = BlockOf(wr.at) /\ BlockOf(y) = BlockOf(wr.at)
      BY <2>1
    <3> QED BY <2>2, <2>3, <3>1
  <2> QED BY <2>4 DEF DamageBounded
<1>5. CASE Verified(mem') /\ pc' = "blocks" /\ UNCHANGED <<cur, failed>>
  <2>1. ASSUME NEW x \in Addr PROVE Right(Pos, x, Promised(x))'
    <3>1. mem'[x] = Promised(x)
      BY <1>2, <1>5, ProgramFacts
    <3>2. Promised(x)' = mem'[x] /\ Pos' = Pos
      BY <1>1, <1>5 DEF Promised, Pos, Working
    <3>3. Right(Pos, x, Promised(x))
      BY <1>3
    <3> QED BY <1>1, <3>1, <3>2, <3>3 DEF Right, InJob
  <2> QED BY <1>2, <1>3, <1>4, <1>5, <2>1 DEF DownloadInv, TargetInv
<1>6. CASE pc' = "idle" /\ failed'
  BY <1>4, <1>6 DEF DownloadInv, TargetInv
<1> QED BY <1>5, <1>6 DEF Program, Return

\* The whole payload has been dealt with.
LEMMA MidstDoneDownload ==
  ASSUME Inv, MidstDone
  PROVE  DownloadInv'
<1> SUFFICES ASSUME job'.kind = "download", OneSided' PROVE DownloadInv'
  BY DEF DownloadInv
<1>1. UNCHANGED <<mem, dl, job, base, got, erased, failed>> /\ pc = "blocks" /\ src = <<>>
      /\ pc' = "idle"
  BY DEF MidstDone, Return, ghosts
<1>2. OneSided /\ job.kind = "download" /\ DamageBounded' = DamageBounded
  BY <1>1 DEF OneSided, InFlash, InRam, InJob, DamageBounded, Damaged
<1>3. ~failed /\ DamageBounded /\ cur \in Nat /\ cur + Len(src) = dl.start + dl.recv
  BY <1>1, <1>2 DEF Inv, TypeInv, TypeOK, PosInv, PhaseInv, DownloadInv, Working
<1>4. cur = dl.start + dl.recv
  BY <1>1, <1>3
<1>5. Pos' = cur /\ Pos = cur
  BY <1>1, <1>4 DEF Pos, Working
<1>6. ASSUME NEW x \in Addr PROVE Right(Pos, x, Promised(x))'
  <2>1. Right(cur, x, mem[x])
    BY <1>1, <1>2, <1>3, <1>5, SettledFacts
  <2>2. Promised(x)' = mem[x]
    BY <1>1 DEF Promised
  <2> QED BY <1>1, <1>5, <2>1, <2>2 DEF Right, InJob
<1> QED BY <1>1, <1>2, <1>3, <1>6 DEF DownloadInv, TargetInv

\* Every step keeps the invariant of a download.
LEMMA NextDownloadInv ==
  ASSUME Inv, [Next]_vars
  PROVE  DownloadInv'
<1>0. DownloadInv
  BY DEF Inv
<1>1. CASE Packet
  <2>1. CASE \E d \in Downloads : DataStart(d)
    BY <2>1, DataStartDownload
  <2>2. CASE ~failed /\ \E data \in Payloads :
               MidstRefused(data) \/ MidstRam(data) \/ MidstFlash(data)
    <3>1. PICK data \in Payloads : MidstRefused(data) \/ MidstRam(data) \/ MidstFlash(data)
      BY <2>2
    <3>2. CASE MidstRefused(data)
      BY <1>0, <3>2, StillDownload DEF MidstRefused, ghosts
    <3> QED BY <2>2, <3>1, <3>2, MidstRamDownload, MidstFlashDownload
  <2>3. CASE DataEnd \/ OtherPacket \/ \E d \in Areas : EraseRefused(d)
    BY <1>0, <2>3, StillDownload DEF DataEnd, OtherPacket, EraseRefused, ghosts
  <2>4. CASE DataExec
    <3>1. CASE UNCHANGED pc
      BY <1>0, <2>4, <3>1, StillDownload DEF DataExec, ghosts
    <3>2. CASE pc' = "off"
      BY <1>0, <2>4, <3>2 DEF DataExec, ghosts, DownloadInv, OneSided, InFlash, InRam, InJob,
           DamageBounded, Damaged, TargetInv
    <3> QED BY <2>4, <3>1, <3>2 DEF DataExec
  <2>5. CASE \E d \in Areas : EraseStart(d)
    <3>1. job'.kind = "erase"
      BY <2>5 DEF EraseStart
    <3> QED BY <3>1 DEF DownloadInv
  <2> QED BY <1>1, <2>1, <2>2, <2>3, <2>4, <2>5 DEF Packet
<1>2. CASE EraseNext
  <2>1. job'.kind = "erase"
    BY <1>2 DEF EraseNext, Inv, PhaseInv
  <2> QED BY <2>1 DEF DownloadInv
<1>3. CASE PowerLoss
  BY <1>0, <1>3 DEF PowerLoss, ghosts, DownloadInv, OneSided, InFlash, InRam, InJob,
       DamageBounded, Damaged, TargetInv
<1>4. CASE UNCHANGED vars
  BY <1>0, <1>4, StillDownload DEF vars
<1> QED BY <1>1, <1>2, <1>3, <1>4, SkipPieceDownload, PatchPieceDownload, EraseBlockDownload,
         ProgramDownload, MidstDoneDownload DEF Next, Work, Off

-----------------------------------------------------------------------------
(* Erasures.                                                               *)

\* A request is accepted.
LEMMA EraseStartErase ==
  ASSUME Inv, NEW d \in Areas, EraseStart(d)
  PROVE  EraseInv'
<1>1. /\ d.start \in Nat /\ d.size \in Nat \ {0} /\ d.start % Blk = 0 /\ d.size % Blk = 0
      /\ d.start + d.size <= Space
  BY InputsAssumption, GeometryFacts DEF Area, EraseStart, EraseInvalid
<1>2. /\ pc' = "erase" /\ base' = mem /\ mem' = mem /\ cur' = d.start /\ end' = d.start + d.size
      /\ job' = [kind |-> "erase", start |-> d.start, size |-> d.size]
  BY DEF EraseStart
<1>3. job'.start = d.start /\ job'.size = d.size
  BY <1>2
<1>4. (d.start + d.size) % Blk = 0
  BY <1>1, AlignedSum
<1>5. ASSUME NEW x \in Addr
      PROVE  mem'[x] = IF d.start <= x /\ x < d.start THEN Bits ELSE base'[x]
  <2>1. x \in Nat /\ ~(d.start <= x /\ x < d.start)
    BY <1>1, GeometryFacts
  <2> QED BY <1>2, <2>1
<1>6. d.start < d.start + d.size
  BY <1>1
<1> QED BY <1>1, <1>2, <1>3, <1>4, <1>5, <1>6 DEF EraseInv, EraseExact

\* One round of the loop.
LEMMA EraseNextErase ==
  ASSUME Inv, EraseNext
  PROVE  EraseInv'
<1>1. UNCHANGED <<job, base>> /\ pc = "erase" /\ job.kind = "erase"
  BY DEF EraseNext, Inv, PhaseInv
<1> SUFFICES ASSUME InFlash PROVE EraseInv'
  BY <1>1 DEF EraseInv, InFlash, InJob
<1>2. /\ end = job.start + job.size /\ end <= Space /\ job.start <= cur /\ cur < end
      /\ cur % Blk = 0 /\ end % Blk = 0
      /\ \A x \in Addr : mem[x] = IF job.start <= x /\ x < cur THEN Bits ELSE base[x]
  BY <1>1 DEF Inv, EraseInv
<1>3. /\ job.start \in Nat /\ job.size \in Nat /\ cur \in Nat /\ end \in Nat
      /\ Blk \in Nat \ {0}
  BY GeometryFacts DEF Inv, TypeInv, TypeOK
<1>4. cur + Blk <= end /\ BlockStart(cur) = cur /\ (cur + Blk) % Blk = 0
  <2>1. BlockStart(cur) + Blk <= end /\ BlockStart(cur) = cur
    BY <1>2, <1>3, BlockAligned
  <2>2. Blk % Blk = 0
    BY <1>3
  <2> QED BY <1>2, <1>3, <2>1, <2>2, AlignedSum
<1>5. EraseTarget(cur) = cur
  <2>1. cur \in Addr /\ InJob(cur)
    BY <1>2, <1>3, GeometryFacts DEF Addr, InJob
  <2>2. InWindow(cur)
    <3>1. cur \in Window
      BY <2>1 DEF InFlash
    <3> QED BY <1>3, <3>1, GeometryFacts DEF Window, InWindow
  <2> QED BY <1>3, <1>4, <2>2, BlockInside
<1>6. ASSUME NEW x \in Addr, x \notin cur .. cur + Blk - 1 PROVE mem'[x] = mem[x]
  <2>1. mem' = mem \/ mem' = SfcErase(cur)
    BY DEF EraseNext
  <2> QED BY <1>5, <1>6, <2>1 DEF SfcErase
<1>7. ASSUME Blank(mem'), NEW x \in Addr
      PROVE  mem'[x] = IF job.start <= x /\ x < cur + Blk THEN Bits ELSE base[x]
  <2>1. x \in Nat
    BY GeometryFacts
  <2>2. CASE x \in cur .. cur + Blk - 1
    <3>1. mem'[x] = Bits
      BY <1>7, <2>2 DEF Blank
    <3>2. job.start <= x /\ x < cur + Blk
      BY <1>2, <1>3, <2>1, <2>2
    <3> QED BY <3>1, <3>2
  <2>3. CASE x \notin cur .. cur + Blk - 1
    <3>1. mem'[x] = mem[x]
      BY <1>6, <2>3
    <3>2. x < cur <=> x < cur + Blk
      BY <1>3, <2>1, <2>3
    <3> QED BY <1>2, <3>1, <3>2
  <2> QED BY <2>2, <2>3
<1>8. CASE pc' = "idle" /\ failed'
  BY <1>8 DEF EraseInv, EraseExact
<1>9. CASE Blank(mem') /\ cur + Blk = end /\ pc' = "idle"
  <2>1. ASSUME NEW x \in Addr PROVE mem'[x] = IF InJob(x) THEN Bits ELSE base[x]
    <3>1. InJob(x) <=> job.start <= x /\ x < cur + Blk
      BY <1>2, <1>3, <1>9, GeometryFacts DEF InJob
    <3> QED BY <1>7, <1>9, <3>1
  <2>2. EraseExact'
    BY <1>1, <2>1 DEF EraseExact, InJob
  <2> QED BY <1>9, <2>2 DEF EraseInv
<1>10. CASE Blank(mem') /\ cur + Blk # end /\ cur' = cur + Blk /\ UNCHANGED <<pc, end>>
  <2>1. cur + Blk < end /\ job.start <= cur + Blk
    BY <1>2, <1>3, <1>4, <1>10
  <2>2. \A x \in Addr : mem'[x] = IF job.start <= x /\ x < cur + Blk THEN Bits ELSE base[x]
    BY <1>7, <1>10
  <2> QED BY <1>1, <1>2, <1>4, <1>10, <2>1, <2>2 DEF EraseInv, EraseExact
<1> QED BY <1>8, <1>9, <1>10 DEF EraseNext, Return

\* Every step keeps the invariant of an erasure.
LEMMA NextEraseInv ==
  ASSUME Inv, [Next]_vars
  PROVE  EraseInv'
<1>0. EraseInv
  BY DEF Inv
<1>1. ASSUME UNCHANGED <<mem, pc, cur, end, job, base, failed>> PROVE EraseInv'
  BY <1>0, <1>1 DEF EraseInv, EraseExact, InFlash, InJob
<1>2. CASE Packet
  <2>1. CASE \E d \in Downloads : DataStart(d)
    <3>1. job'.kind = "download"
      BY <2>1 DEF DataStart
    <3> QED BY <3>1 DEF EraseInv
  <2>2. CASE \E data \in Payloads : MidstRam(data) \/ MidstFlash(data)
    <3>1. job'.kind # "erase"
      BY <2>2 DEF MidstRam, MidstFlash, NoJob
    <3> QED BY <3>1 DEF EraseInv
  <2>3. CASE \/ DataEnd \/ OtherPacket \/ \E d \in Areas : EraseRefused(d)
             \/ \E data \in Payloads : MidstRefused(data)
    BY <1>1, <2>3 DEF DataEnd, OtherPacket, EraseRefused, MidstRefused, ghosts
  <2>4. CASE DataExec
    <3>1. CASE UNCHANGED pc
      BY <1>1, <2>4, <3>1 DEF DataExec, ghosts
    <3>2. CASE pc' = "off"
      BY <3>2 DEF EraseInv, EraseExact
    <3> QED BY <2>4, <3>1, <3>2 DEF DataExec
  <2>5. CASE \E d \in Areas : EraseStart(d)
    BY <2>5, EraseStartErase
  <2> QED BY <1>2, <2>1, <2>2, <2>3, <2>4, <2>5 DEF Packet
<1>3. CASE SkipPiece \/ PatchPiece \/ EraseBlock \/ Program \/ MidstDone
  <2>1. UNCHANGED job /\ Working
    BY <1>3 DEF SkipPiece, PatchPiece, EraseBlock, Program, MidstDone, ghosts, Working
  <2>2. job'.kind # "erase"
    BY <2>1 DEF Inv, PhaseInv
  <2> QED BY <2>2 DEF EraseInv
<1>4. CASE PowerLoss
  BY <1>4 DEF PowerLoss, EraseInv, EraseExact
<1>5. CASE UNCHANGED vars
  BY <1>1, <1>5 DEF vars
<1> QED BY <1>2, <1>3, <1>4, <1>5, EraseNextErase DEF Next, Work, Off

-----------------------------------------------------------------------------
(* The theorems.                                                           *)

LEMMA InitInv == Init => Inv
<1> SUFFICES ASSUME Init PROVE Inv
  OBVIOUS
<1>1. pc = "idle" /\ job.kind = "none"
  BY DEF Init, NoJob
<1> QED BY <1>1, InitTypeInv
     DEF Inv, PhaseInv, JobInv, DownloadInv, EraseInv, Working

LEMMA NextInv == Inv /\ [Next]_vars => Inv'
<1> SUFFICES ASSUME Inv, [Next]_vars PROVE Inv'
  OBVIOUS
<1> QED BY NextTypeInv, NextPhaseInv, NextJobInv, NextDownloadInv, NextEraseInv DEF Inv

\* The invariant holds in every reachable state.
LEMMA Invariance == Spec => []Inv
BY InitInv, NextInv, PTL DEF Spec

\* Every download that lies on one side of the window's ends, in RAM or in flash:
\* whenever data_midst has answered and reported no failure, each byte received
\* is in memory at its address.  (memcpy cannot write the window, so a payload
\* that crosses into it from RAM is not covered.)
THEOREM DownloadReceived == Spec => [](OneSided => ReceivedPresent)
<1>1. Inv => (OneSided => ReceivedPresent)
  <2> SUFFICES ASSUME Inv, OneSided, pc = "idle", job.kind = "download", ~failed,
                      NEW k \in 1 .. dl.recv
               PROVE  mem[dl.start + k - 1] = got[k]
    BY DEF ReceivedPresent
  <2>1. /\ dl.start \in Nat /\ dl.size \in Nat /\ dl.recv \in Nat /\ dl.recv <= dl.size
        /\ dl.start + dl.size <= Space /\ job.start = dl.start /\ job.size = dl.size
    BY DEF Inv, TypeInv, TypeOK, PosInv, JobInv
  <2> DEFINE x == dl.start + k - 1
  <2>2. x \in Addr /\ InJob(x) /\ x < dl.start + dl.recv /\ x - job.start + 1 = k
    BY <2>1, GeometryFacts DEF Addr, InJob
  <2>3. Pos = dl.start + dl.recv
    BY DEF Pos, Working
  <2>4. Right(dl.start + dl.recv, x, mem[x])
    BY <2>2, <2>3, SettledFacts
  <2> QED BY <2>2, <2>4 DEF Right
<1> QED BY <1>1, Invariance, PTL

\* Such a download changes no byte outside of it, although data_midst erases
\* whole blocks: the rest of a block is copied to RAM and written back.
THEOREM DownloadOutsideKept == Spec => [](OneSided => OutsideKept)
<1>1. Inv => (OneSided => OutsideKept)
  BY SettledFacts DEF OutsideKept, Right
<1> QED BY <1>1, Invariance, PTL

\* At every moment of such a download, also after a power failure or a failed
\* write_and_check, all damage outside of it is in one block it reaches into.
THEOREM DownloadDamageBounded == Spec => [](OneSided => DamageBounded)
<1>1. Inv => (OneSided => DamageBounded)
  BY DEF Inv, DownloadInv, DamageBounded
<1> QED BY <1>1, Invariance, PTL

\* While every download lies on one side, data_midst erases no block twice in one
\* download, however the host cuts the data into packets: what it erased it left
\* blank, so a later piece in that block needs only programming.
THEOREM DownloadEraseOnce ==
  Spec /\ [](job.kind = "download" => OneSided) => EraseOnce
<1>1. ASSUME Inv, job.kind = "download" => OneSided, EraseBlock, job.kind = "download"
      PROVE  BlockOf(cur) \notin erased
  <2> SUFFICES ASSUME BlockOf(cur) \in erased PROVE FALSE
    OBVIOUS
  <2>1. pc = "blocks" /\ src # <<>> /\ NeedsErase /\ OneSided
    BY <1>1 DEF EraseBlock
  <2>2. PICK i \in 1 .. PieceLen : ~(src[i] \subseteq mem[cur + i - 1])
    BY <2>1 DEF NeedsErase
  <2>3. cur \in Nat /\ PieceLen \in Nat \ {0}
    BY <1>1, <2>1, PieceInJob
  <2> DEFINE x == cur + i - 1
  <2>4. x \in cur .. cur + PieceLen - 1 /\ x >= cur
    BY <2>3
  <2>5. x \in Addr /\ InJob(x) /\ BlockOf(x) = BlockOf(cur)
    BY <1>1, <2>1, <2>4, PieceInJob
  <2>6. mem[x] = Bits
    BY <1>1, <2>1, <2>4, <2>5, PieceInJob DEF Right
  <2>7. src[i] \subseteq Bits
    <3>1. src \in Seq(Byte) /\ PieceLen \in 1 .. Len(src) /\ Len(src) \in Nat
      BY <1>1, <2>1, PieceFacts DEF Inv, TypeInv, TypeOK
    <3>2. i \in 1 .. Len(src)
      BY <2>3, <3>1
    <3> QED BY <3>1, <3>2 DEF Byte
  <2> QED BY <2>2, <2>6, <2>7
<1>2. Inv /\ (job.kind = "download" => OneSided) /\ [Next]_vars =>
        [EraseBlock /\ job.kind = "download" => BlockOf(cur) \notin erased]_vars
  BY <1>1
<1> QED BY <1>2, Invariance, PTL DEF Spec, EraseOnce

\* Every erasure of an area inside the window that reported no failure has left
\* the area blank and all other memory as it was.  (Past the window's end the
\* three address bytes of sfc_erase wrap: see the run erase_past_end.)
THEOREM ErasureExact == Spec => [](InFlash => EraseExact)
<1>1. Inv => (InFlash => EraseExact)
  BY DEF Inv, EraseInv, EraseExact
<1> QED BY <1>1, Invariance, PTL
==============================================================================
