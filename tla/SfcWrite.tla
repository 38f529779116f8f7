------------------------------ MODULE SfcWrite ------------------------------
(***************************************************************************)
(* custom_fdl/sfc.c with sfc_unlock of main.c: a run of bytes is           *)
(* programmed by commands of at most MaxData bytes, gathered in the        *)
(* command buffer of the controller, each behind a write enable.  The      *)
(* flash chip ignores a command without write enable or with protection    *)
(* bits set, and wraps around inside a page.                               *)
(***************************************************************************)
EXTENDS Integers, Sequences, SequencesExt

CONSTANTS
  PageSize,  \* 256
  MaxData,   \* 32, the data bytes of a command
  WordLen,   \* 4, the bytes of a slot of the buffer
  Cells,     \* number of cells of the flash
  SrBits,    \* bits of the first status register that may be set at the start
  MaxSize    \* longest run considered

SfcAssumption ==
  /\ {PageSize, MaxData, WordLen, Cells} \subseteq Nat \ {0}
  /\ MaxData % WordLen = 0
  /\ Cells % PageSize = 0
  /\ MaxSize \in 0 .. Cells
  /\ SrBits \subseteq 2 .. 7

VARIABLES
  vendor,   \* who made the chip
  sr1, sr2, \* its status registers: the bits that are set
  wel,      \* write enable latch
  mem,      \* its cells
  tbuf,     \* the slots of the command buffer: bytes and their number
  first, length,  \* the run
  src,      \* bytes of it already sent
  pc

chip == <<vendor, sr1, sr2>>
run == <<first, length>>
vars == <<chip, wel, mem, tbuf, run, src, pc>>

Lesser(a, b) == IF a < b THEN a ELSE b

Erased == -1

\* The i-th byte of the run.
Source == [i \in 0 .. MaxSize - 1 |-> i]

Vendors == {"winbond", "gigadevice", "macronix", "other"}

\* The quad enable bit is bit 1 of the second register, or bit 6 of Macronix' only one;
\* bit 6 of the second register turns the protection of the first into its complement.
Init ==
  /\ vendor \in Vendors
  /\ sr1 \in SUBSET SrBits
  /\ sr2 \in SUBSET (IF vendor = "macronix" THEN {} ELSE {1, 6})
  /\ wel = FALSE
  /\ mem = [a \in 0 .. Cells - 1 |-> Erased]
  /\ tbuf = <<>>
  /\ first \in 0 .. Cells - 1
  /\ length \in 0 .. Lesser(Cells - first, MaxSize)
  /\ src = 0
  /\ pc = "unlock"

-----------------------------------------------------------------------------
(* sfc_unlock.                                                             *)

Mask_Same == {2, 3, 4, 5, 6, 7}

\* 0xfc, and 0xbc for Macronix
Mask == IF vendor = "macronix" THEN {2, 3, 4, 5, 7} ELSE {2, 3, 4, 5, 6, 7}

Mask2_Quad == {1}

\* 0x40, for GigaDevice the high byte of 0x40fc
Mask2 == {6}

\* Status registers are written, each with its own write enable; one without a bit of the
\* mask is not. Macronix' second one is not read, GigaDevice's two are written together;
\* a chip that is written the first one alone is taken to keep the second.
Unlock ==
  /\ pc = "unlock"
  /\ pc' = "next"
  /\ IF vendor = "other" THEN UNCHANGED <<sr1, sr2>>
     ELSE sr1' = sr1 \ Mask /\ sr2' = sr2 \ Mask2
  /\ UNCHANGED <<vendor, wel, mem, tbuf, run, src>>

-----------------------------------------------------------------------------
(* sfc_write.                                                              *)

addr == first + src

WriteEnable ==
  /\ pc = "next"
  /\ src < length
  /\ wel' = TRUE
  /\ pc' = "fill"
  /\ UNCHANGED <<chip, mem, tbuf, run, src>>

ToPageEnd_Page(a) == PageSize

\* 256 - (addr & 255)
ToPageEnd(a) == PageSize - (a % PageSize)

Amount == Min({length - src, MaxData, ToPageEnd(addr)})

\* tbuf_clr = 1: the slots of the last command are gone.
LeftBehind == <<>>

\* The slots for n bytes: whole words, and what is left.
Slots(n) ==
  [k \in 1 .. (n + WordLen - 1) \div WordLen |->
     [at |-> src + (k - 1) * WordLen, n |-> Lesser(WordLen, n - (k - 1) * WordLen)]]

Fill ==
  /\ pc = "fill"
  /\ tbuf' = LeftBehind \o Slots(Amount)
  /\ pc' = "request"
  /\ UNCHANGED <<chip, wel, mem, run, src>>

\* The bytes that go over the wire behind the address.
Wire == FlattenSeq([k \in DOMAIN tbuf |-> [j \in 1 .. tbuf[k].n |-> Source[tbuf[k].at + j - 1]]])

\* The chip's page program: byte j goes to the j-th cell behind the address, inside
\* its page.
PageProgram(bytes) ==
  LET page == addr - (addr % PageSize)
      cell(j) == page + ((addr + j - 1) % PageSize)
  IN [a \in DOMAIN mem |->
        IF \E j \in DOMAIN bytes : cell(j) = a
        THEN bytes[CHOOSE j \in DOMAIN bytes : cell(j) = a /\ \A i \in j + 1 .. Len(bytes) : cell(i) # a]
        ELSE mem[a]]

\* The chip ignores a command: block protect bits, or their complement.
Protected == sr1 \cap {2, 3, 4, 5} # {} \/ 6 \in sr2

\* soft_req, and SFC_WRITE_WAIT until the chip is ready again.
Request ==
  /\ pc = "request"
  /\ mem' = IF wel /\ ~Protected THEN PageProgram(Wire) ELSE mem
  /\ wel' = FALSE
  /\ src' = src + Amount
  /\ pc' = "next"
  /\ UNCHANGED <<chip, tbuf, run>>

Return ==
  /\ pc = "next"
  /\ src >= length
  /\ pc' = "done"
  /\ UNCHANGED <<chip, wel, mem, tbuf, run, src>>

Rest == pc = "done" /\ UNCHANGED vars

Next == Unlock \/ WriteEnable \/ Fill \/ Request \/ Return \/ Rest

Spec == Init /\ [][Next]_vars
-----------------------------------------------------------------------------
(* Properties.                                                             *)

\* The run is sent from its start to its end, in commands that fit into the buffer.
TypeOK ==
  /\ vendor \in Vendors
  /\ sr1 \subseteq 2 .. 7 /\ sr2 \subseteq {1, 6}
  /\ wel \in BOOLEAN
  /\ DOMAIN mem = 0 .. Cells - 1
  /\ \A k \in DOMAIN tbuf : tbuf[k].n \in 1 .. WordLen
  /\ Len(tbuf) <= MaxData \div WordLen
  /\ src \in 0 .. length
  /\ pc \in {"unlock", "next", "fill", "request", "done"}

\* An unlocked chip, programmed by sfc_write.
Unprotected == vendor # "other" \/ ~Protected

\* Bytes of the run that are in the flash.
Programmed == IF Unprotected THEN src ELSE 0

\* The quad enable bit, which sfc_unlock must leave as it is.
Settings == IF vendor = "macronix" THEN sr1 \cap {6} ELSE sr2 \cap {1}

Ended == pc = "done"
=============================================================================
