----------------------------- MODULE FdlDownload -----------------------------
(***************************************************************************)
(* The download and erase commands of the custom FDL (custom_fdl/main.c)   *)
(* with its serial NOR flash.                                              *)
(*                                                                         *)
(* Addresses in the window at FW are flash, mapped for reading; all others *)
(* are RAM.  A flash byte is the set of its bits that are 1: erasing a     *)
(* block sets every bit, programming can only clear bits.  A block is      *)
(* rewritten in two steps, erase and program, because the power may fail   *)
(* in between.  The host may send the packets in any order.                *)
(***************************************************************************)
EXTENDS Integers, Sequences, FiniteSets

CONSTANTS
  Bits,       \* the bits of a byte
  Space,      \* number of addresses
  FW,         \* FW_ADDR: first address of the flash window
  Win,        \* 1 << 24: size of the window
  Blk,        \* ERASE_BLK
  Contents,   \* the initial contents of the memory considered
  Locks,      \* the sets of write-protected blocks considered
  Downloads,  \* the (start, size) pairs that BSL_CMD_START_DATA may carry
  Payloads,   \* the payloads that BSL_CMD_MIDST_DATA may carry
  Areas,      \* the (start, size) pairs that BSL_CMD_ERASE_FLASH may carry
  MaxStarts   \* bound on the number of downloads and erasures

Addr == 0 .. Space - 1
Byte == SUBSET Bits
Area == [start : Addr, size : Nat]

\* dl_status.start before the first BSL_CMD_START_DATA: ~0, not an address.
Nowhere == Space

NoWrite == [at |-> 0, data |-> <<>>]

NoJob == [kind |-> "none", start |-> 0, size |-> 0]

InWindow(a) == a >= FW /\ a < FW + Win

Window == FW .. FW + Win - 1

ASSUME GeometryAssumption ==
  /\ Space \in Nat /\ FW \in Nat /\ Win \in Nat \ {0} /\ Blk \in Nat \ {0}
  /\ FW % Blk = 0 /\ Win % Blk = 0 /\ Space % Blk = 0
  /\ FW + Win <= Space

ASSUME InputsAssumption ==
  /\ Contents \subseteq [Addr -> Byte]
  /\ Locks \subseteq SUBSET Nat
  /\ Downloads \subseteq Area
  /\ \A d \in Downloads : d.start + d.size <= Space
  /\ Payloads \subseteq Seq(Byte)
  /\ Areas \subseteq Area
  /\ \A d \in Areas : d.start + d.size <= Space
  /\ MaxStarts \in Nat

VARIABLES
  mem,     \* what the processor reads at each address
  locked,  \* numbers of the flash blocks that are write-protected
  idRead,  \* flash_id has been read, sfc_unlock has done its work
  vendor,  \* the flash chip is one that sfc_unlock knows
  dl,      \* dl_status
  pc,      \* where the FDL is
  cur,     \* addr of data_midst and erase_flash
  src,     \* the part of the payload still to be written
  wr,      \* what sfc_write is to program, and where
  end,     \* end of erase_flash
  rep,     \* the last reply
  job,     \* what the following are about: a download, an erasure, neither
  base,    \* the memory when it began
  got,     \* the payload received since
  erased,  \* the blocks erased since
  failed,  \* a write has been reported as failed since
  starts   \* number of downloads and erasures begun

vars == <<mem, locked, idRead, vendor, dl, pc, cur, src, wr, end, rep,
          job, base, got, erased, failed, starts>>

flashVars == <<locked, idRead, vendor>>
ghosts == <<job, base, got, erased, failed, starts>>

Least(a, b) == IF a < b THEN a ELSE b

BlockOf(a) == a \div Blk
BlockStart(a) == a - (a % Blk)

Init ==
  /\ mem \in Contents
  /\ locked \in Locks
  /\ idRead = FALSE
  /\ vendor \in BOOLEAN
  /\ dl = [start |-> Nowhere, size |-> 0, recv |-> 0]
  /\ pc = "idle"
  /\ cur = 0 /\ src = <<>> /\ wr = NoWrite /\ end = 0
  /\ rep = "VER"
  /\ job = NoJob
  /\ base = mem
  /\ got = <<>>
  /\ erased = {}
  /\ failed = FALSE
  /\ starts = 0

-----------------------------------------------------------------------------
(* The flash chip, as sfc.c uses it.                                       *)

\* sfc_erase sends three address bytes: the block erased is the one with the
\* address modulo the window size.
EraseTarget(a) == BlockStart(FW + ((a - FW) % Win))

\* The memory after sfc_erase of the block at a.
SfcErase(a) ==
  LET b == EraseTarget(a)
  IN [x \in Addr |-> IF x \in b .. b + Blk - 1 /\ BlockOf(b) \notin locked
                     THEN Bits ELSE mem[x]]

\* The memory after sfc_write has programmed the first n bytes of data at a.
SfcWrite(a, data, n) ==
  [x \in Addr |-> IF x \in a .. a + n - 1 /\ x \in Window /\ BlockOf(x) \notin locked
                  THEN mem[x] \cap data[x - a + 1] ELSE mem[x]]

\* sfc_unlock: once, and only for the chips whose protection bits it knows.
SfcUnlock ==
  /\ idRead' = TRUE
  /\ locked' = IF ~idRead /\ vendor THEN {} ELSE locked
  /\ UNCHANGED vendor

\* The handler returns a reply, and its local variables are gone.
Return(r) ==
  /\ pc' = "idle"
  /\ rep' = r
  /\ cur' = 0 /\ src' = <<>> /\ wr' = NoWrite /\ end' = 0

-----------------------------------------------------------------------------
(* Packets.                                                                *)

\* data_start
DataStart(d) ==
  /\ pc = "idle"
  /\ starts < MaxStarts
  /\ dl' = [start |-> d.start, size |-> d.size, recv |-> 0]
  /\ rep' = "ACK"
  /\ job' = [kind |-> "download", start |-> d.start, size |-> d.size]
  /\ base' = mem
  /\ got' = <<>>
  /\ erased' = {}
  /\ failed' = FALSE
  /\ starts' = starts + 1
  /\ UNCHANGED <<mem, flashVars, pc, cur, src, wr, end>>

TooLong_OffByOne(data) == Len(data) > dl.size - dl.recv + 1

\* len > remain: more than what is left of the announced size.
TooLong(data) == Len(data) > dl.size - dl.recv

MidstRefused(data) ==
  /\ pc = "idle"
  /\ TooLong(data)
  /\ rep' = "DOWN_SIZE_ERROR"
  /\ UNCHANGED <<mem, flashVars, dl, pc, cur, src, wr, end, ghosts>>

\* data_midst outside the window: memcpy.  The window is read-only to memcpy.
MidstRam(data) ==
  LET addr == dl.start + dl.recv IN
  /\ pc = "idle"
  /\ ~TooLong(data)
  /\ ~InWindow(addr)
  /\ dl' = [dl EXCEPT !.recv = @ + Len(data)]
  /\ got' = got \o data
  /\ job' = IF job.kind = "download" THEN job ELSE NoJob
  /\ mem' = [x \in Addr |-> IF x \in addr .. addr + Len(data) - 1 /\ x \notin Window
                            THEN data[x - addr + 1] ELSE mem[x]]
  /\ rep' = "ACK"
  /\ UNCHANGED <<flashVars, pc, cur, src, wr, end, base, erased, failed, starts>>

\* data_midst inside the window: the bytes count as received before any of
\* them is written.
MidstFlash(data) ==
  LET addr == dl.start + dl.recv IN
  /\ pc = "idle"
  /\ ~TooLong(data)
  /\ InWindow(addr)
  /\ dl' = [dl EXCEPT !.recv = @ + Len(data)]
  /\ got' = got \o data
  /\ job' = IF job.kind = "download" THEN job ELSE NoJob
  /\ SfcUnlock
  /\ pc' = "blocks"
  /\ cur' = addr
  /\ src' = data
  /\ UNCHANGED <<mem, wr, end, rep, base, erased, failed, starts>>

PieceLen_ZeroWhenAligned == Least((Blk - (cur % Blk)) % Blk, Len(src))

\* n: how much of the payload lies in the block at cur.
PieceLen == Least(Blk - (cur % Blk), Len(src))
Piece == SubSeq(src, 1, PieceLen)

\* Some byte has a bit to set, which programming cannot do.
NeedsErase == \E i \in 1 .. PieceLen : ~(src[i] \subseteq mem[cur + i - 1])
Differs == \E i \in 1 .. PieceLen : src[i] # mem[cur + i - 1]

Fill_ToBlockEnd(x) == Bits

Fill_KeepOld(x) == mem[x]

\* What goes behind the piece: erased bytes as far as the download will reach,
\* the old contents beyond.
Fill(x) == IF x < dl.start + dl.size THEN Bits ELSE mem[x]

\* buf: the new contents of the block at cur.
BlockImage ==
  [i \in 1 .. Blk |->
     LET x == BlockStart(cur) + i - 1
     IN IF x < cur THEN mem[x]
        ELSE IF x < cur + PieceLen THEN src[x - cur + 1] ELSE Fill(x)]

NextPiece ==
  /\ cur' = cur + PieceLen
  /\ src' = SubSeq(src, PieceLen + 1, Len(src))

\* The piece is already there.
SkipPiece ==
  /\ pc = "blocks"
  /\ src # <<>>
  /\ ~NeedsErase
  /\ ~Differs
  /\ NextPiece
  /\ UNCHANGED <<mem, flashVars, dl, pc, wr, end, rep, ghosts>>

\* Clearing bits is enough: the piece is programmed in place.
PatchPiece ==
  /\ pc = "blocks"
  /\ src # <<>>
  /\ ~NeedsErase
  /\ Differs
  /\ NextPiece
  /\ wr' = [at |-> cur, data |-> Piece]
  /\ pc' = "program"
  /\ UNCHANGED <<mem, flashVars, dl, end, rep, ghosts>>

\* The block is copied to RAM with the piece patched in, and erased.
EraseBlock ==
  /\ pc = "blocks"
  /\ src # <<>>
  /\ NeedsErase
  /\ NextPiece
  /\ mem' = SfcErase(BlockStart(cur))
  /\ erased' = erased \cup {BlockOf(cur)}
  /\ wr' = [at |-> BlockStart(cur), data |-> BlockImage]
  /\ pc' = "program"
  /\ UNCHANGED <<flashVars, dl, end, rep, job, base, got, failed, starts>>

Verified_Skipped(m) == TRUE

\* write_and_check reads back what was programmed.
Verified(m) == \A i \in 1 .. Len(wr.data) : m[wr.at + i - 1] = wr.data[i]

\* write_and_check.  The chip may stop after n bytes.
Program ==
  /\ pc = "program"
  /\ \E n \in 0 .. Len(wr.data) : mem' = SfcWrite(wr.at, wr.data, n)
  /\ \/ /\ Verified(mem')
        /\ pc' = "blocks"
        /\ UNCHANGED <<cur, src, wr, end, rep, failed>>
     \/ /\ ~Verified(mem')
        /\ Return("OPERATION_FAILED")
        /\ failed' = TRUE
  /\ UNCHANGED <<flashVars, dl, job, base, got, erased, starts>>

MidstDone ==
  /\ pc = "blocks"
  /\ src = <<>>
  /\ Return("ACK")
  /\ UNCHANGED <<mem, flashVars, dl, ghosts>>

\* data_end
DataEnd ==
  /\ pc = "idle"
  /\ rep' = IF dl.size # dl.recv THEN "DOWN_EARLY_END" ELSE "ACK"
  /\ UNCHANGED <<mem, flashVars, dl, pc, cur, src, wr, end, ghosts>>

\* data_exec: jumps to the start of the download, if there was one; the program
\* there takes over.
DataExec ==
  /\ pc = "idle"
  /\ \/ dl.start = Nowhere /\ rep' = "INVALID_CMD" /\ UNCHANGED pc
     \/ dl.start # Nowhere /\ pc' = "off" /\ UNCHANGED rep
  /\ UNCHANGED <<mem, flashVars, dl, cur, src, wr, end, ghosts>>

-----------------------------------------------------------------------------
(* erase_flash                                                             *)

EraseInvalid(d) == ~InWindow(d.start) \/ d.start % Blk # 0 \/ d.size % Blk # 0

\* The request is refused, or empty.
EraseRefused(d) ==
  /\ pc = "idle"
  /\ EraseInvalid(d) \/ d.size = 0
  /\ rep' = IF EraseInvalid(d) THEN "INVALID_CMD" ELSE "ACK"
  /\ UNCHANGED <<mem, flashVars, dl, pc, cur, src, wr, end, ghosts>>

EraseStart(d) ==
  /\ pc = "idle"
  /\ starts < MaxStarts
  /\ ~EraseInvalid(d)
  /\ d.size # 0
  /\ SfcUnlock
  /\ pc' = "erase"
  /\ cur' = d.start
  /\ end' = d.start + d.size
  /\ job' = [kind |-> "erase", start |-> d.start, size |-> d.size]
  /\ failed' = FALSE
  /\ base' = mem
  /\ starts' = starts + 1
  /\ UNCHANGED <<mem, dl, src, wr, rep, got, erased>>

Blank_FirstByte(m) == m[cur] = Bits

\* The block at cur reads as erased.  The loop reads a word at every byte; on
\* the ARMv5 of the build an unaligned load stays in its aligned word.
Blank(m) == \A x \in cur .. cur + Blk - 1 : m[x] = Bits

\* One round of the do loop.
EraseNext ==
  /\ pc = "erase"
  /\ mem' = IF Blank(mem) THEN mem ELSE SfcErase(cur)
  /\ \/ ~Blank(mem') /\ Return("OPERATION_FAILED") /\ failed' = TRUE
     \/ Blank(mem') /\ cur + Blk = end /\ Return("ACK") /\ UNCHANGED failed
     \/ /\ Blank(mem')
        /\ cur + Blk # end
        /\ cur' = cur + Blk
        /\ UNCHANGED <<pc, src, wr, end, rep, failed>>
  /\ UNCHANGED <<flashVars, dl, job, base, got, erased, starts>>

-----------------------------------------------------------------------------
\* dl_main: the packets that change nothing here.  Malformed and unknown ones
\* are refused, BSL_CMD_CONNECT, CHANGE_BAUD and OFF_CHG acknowledged, and
\* READ_FLASH and the efuse command answered with data.
OtherPacket ==
  /\ pc = "idle"
  /\ rep' \in {"INVALID_CMD", "UNKNOWN_CMD", "ACK", "READ_FLASH"}
  /\ UNCHANGED <<mem, flashVars, dl, pc, cur, src, wr, end, ghosts>>

\* The power fails during a write: RAM and the program counter are lost, the
\* flash is not.  (Between packets it changes nothing the flash depends on.)
PowerLoss ==
  /\ pc \notin {"idle", "off"}
  /\ pc' = "off"
  /\ UNCHANGED <<mem, flashVars, dl, cur, src, wr, end, rep, ghosts>>

Off == pc = "off" /\ UNCHANGED vars

\* The packets a host may send; send_buf gives up after a failed write.
Packet ==
  \/ \E d \in Downloads : DataStart(d)
  \/ ~failed /\ \E data \in Payloads :
                   MidstRefused(data) \/ MidstRam(data) \/ MidstFlash(data)
  \/ DataEnd
  \/ DataExec
  \/ OtherPacket
  \/ \E d \in Areas : EraseRefused(d) \/ EraseStart(d)

Work == SkipPiece \/ PatchPiece \/ EraseBlock \/ Program \/ MidstDone \/ EraseNext

Next == Packet \/ Work \/ PowerLoss \/ Off

\* The processor keeps running; the host need not send anything.
Spec == Init /\ [][Next]_vars /\ WF_vars(Work)
-----------------------------------------------------------------------------
(* Properties.                                                             *)

InJob(x) == x >= job.start /\ x < job.start + job.size

\* The variables keep their types, and no more is received than was announced:
\* dl_status.size - dl_status.recv never wraps.
TypeOK ==
  /\ mem \in [Addr -> Byte]
  /\ locked \subseteq Nat
  /\ idRead \in BOOLEAN
  /\ vendor \in BOOLEAN
  /\ dl \in [start : Nat, size : Nat, recv : Nat]
  /\ dl.recv <= dl.size
  /\ pc \in {"idle", "blocks", "program", "erase", "off"}
  /\ cur \in Nat
  /\ src \in Seq(Byte)
  /\ wr \in [at : Nat, data : Seq(Byte)]
  /\ end \in Nat
  /\ rep \in {"VER", "ACK", "READ_FLASH", "INVALID_CMD", "UNKNOWN_CMD",
              "OPERATION_FAILED", "DOWN_SIZE_ERROR", "DOWN_EARLY_END"}
  /\ job \in [kind : {"none", "download", "erase"}, start : Nat, size : Nat]
  /\ base \in [Addr -> Byte]
  /\ got \in Seq(Byte)
  /\ erased \subseteq Nat
  /\ failed \in BOOLEAN
  /\ starts \in Nat

\* Between packets of a download, unless a write was reported as failed, every
\* byte received so far is in memory: data_midst acknowledges only what is there.
ReceivedPresent ==
  pc = "idle" /\ job.kind = "download" /\ ~failed =>
    \A k \in 1 .. dl.recv : mem[dl.start + k - 1] = got[k]

\* Between packets of a download, unless a write was reported as failed, no
\* byte outside the download has changed, although whole blocks are erased.
OutsideKept ==
  pc = "idle" /\ job.kind = "download" /\ ~failed =>
    \A x \in Addr : ~InJob(x) => mem[x] = base[x]

Damaged(x) == ~InJob(x) /\ mem[x] # base[x]

\* At any moment of a download, also when the power is lost between erasing and
\* programming or after a failed write, the bytes outside the download that have
\* changed all lie in one block, which is a block the download reaches into.
DamageBounded ==
  job.kind = "download" =>
    \A x, y \in Addr : Damaged(x) /\ Damaged(y) =>
      /\ BlockOf(x) = BlockOf(y)
      /\ \E z \in Addr : InJob(z) /\ BlockOf(z) = BlockOf(x)

\* A download erases each block at most once: the rest of the block is left
\* blank for the packets to come, so they only program.
EraseOnce ==
  [][ EraseBlock /\ job.kind = "download" => BlockOf(cur) \notin erased ]_vars

\* An erasure that did not fail leaves its area blank and all else as it was.
EraseExact ==
  pc = "idle" /\ job.kind = "erase" /\ ~failed =>
    \A x \in Addr : mem[x] = IF InJob(x) THEN Bits ELSE base[x]

\* Every packet is answered: the loops over blocks come to an end.
Answered == (pc \in {"blocks", "program", "erase"}) ~> (pc \in {"idle", "off"})
==============================================================================
