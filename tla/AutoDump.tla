------------------------------ MODULE AutoDump ------------------------------
(***************************************************************************)
(* dump_flash of spd_dump.c: read_flash with a size, or with "auto", when  *)
(* the size comes from the header of what is there and the signature       *)
(* behind it is read too. Every read may end early. The file is the        *)
(* sequence of the offsets whose bytes are in it.                          *)
(***************************************************************************)
EXTENDS Integers, Sequences

CONSTANTS
  Hdr,       \* 0x34: bytes read to find out the size
  DhtbHdr,   \* 0x200
  SigHdr,    \* 0x60
  MinBlocks, \* 4
  MinBlk,    \* 0x100
  Half,      \* 1 << 31
  MaxSig,    \* 1 << 12
  Fields,    \* values of a size in a header
  Lens       \* sizes that the user gives

DumpAssumption ==
  /\ {Hdr, DhtbHdr, SigHdr, MinBlocks, MinBlk, Half, MaxSig} \subseteq Nat \ {0}
  /\ Hdr <= DhtbHdr /\ Hdr <= MinBlocks * MinBlk
  /\ Fields \subseteq Nat /\ Lens \subseteq Nat

VARIABLES
  img,    \* what the flash holds at start
  sig,    \* and behind it
  mode, len, nread, dhtb,
  file,
  short,  \* a read has ended early
  pc

vars == <<img, sig, mode, len, nread, dhtb, file, short, pc>>
flash == <<img, sig, mode>>

Images == [kind : {"DHTB"}, size : Fields] \cup [kind : {"VNTS"}, nblk : Fields, blk : Fields] \cup [kind : {"other"}]

\* zeros: no signature, or an erased place; odd: fields that do not fit the image
Signatures == [kind : {"zeros", "odd"}, size : {0}] \cup [kind : {"good"}, size : Fields]

Init ==
  /\ img \in Images
  /\ sig \in Signatures
  /\ mode \in {0, 1}
  /\ len \in Lens
  /\ nread = 0
  /\ dhtb = FALSE
  /\ file = <<>>
  /\ short = FALSE
  /\ pc = IF mode = 1 THEN "header" ELSE "rest"

-----------------------------------------------------------------------------

\* n bytes from an offset
Bytes(from, n) == [k \in 1 .. n |-> from + k - 1]

\* nread != len, or a header that does not tell
Exit == pc' = "exit" /\ UNCHANGED <<len, dhtb>>

PowerOfTwo(n) == \E k \in 0 .. n : n = 2 ^ k

\* blk & (blk - 1) is 0 for 0 too
VntsOK(i) == i.nblk >= MinBlocks /\ (i.blk = 0 \/ PowerOfTwo(i.blk)) /\ i.blk >= MinBlk

ReadHeader(r) ==
  /\ pc = "header"
  /\ r \in 0 .. Hdr
  /\ nread' = r
  /\ file' = Bytes(0, r)
  /\ short' = (r < Hdr)
  /\ IF r < Hdr THEN Exit
     ELSE IF img.kind = "DHTB" /\ img.size < Half
       THEN len' = img.size + DhtbHdr /\ dhtb' = TRUE /\ pc' = "rest"
     ELSE IF img.kind = "VNTS" /\ VntsOK(img)
       THEN len' = img.blk * img.nblk /\ pc' = "rest" /\ UNCHANGED dhtb
     ELSE Exit
  /\ UNCHANGED flash

RestFrom_Start == 0

\* start + nread
RestFrom == nread

ReadRest(r) ==
  /\ pc = "rest"
  /\ r \in 0 .. len - nread
  /\ file' = file \o Bytes(RestFrom, r)
  /\ nread' = nread + r
  /\ short' = (r < len - nread)
  /\ pc' = IF dhtb /\ r = len - nread THEN "signature" ELSE "done"
  /\ UNCHANGED <<flash, len, dhtb>>

HasSig_Good == sig.kind = "good"

\* the size of the data is neither all zeros nor all ones
HasSig == sig.kind # "zeros"

ReadSignature(r) ==
  /\ pc = "signature"
  /\ r \in 0 .. SigHdr
  /\ short' = (short \/ r < SigHdr)
  /\ IF r = SigHdr /\ HasSig
       THEN /\ file' = file \o Bytes(nread, SigHdr)
            /\ nread' = nread + SigHdr
            /\ IF sig.kind = "good" /\ sig.size < MaxSig
                 THEN len' = nread' + sig.size /\ pc' = "sigdata"
                 ELSE len' = nread' /\ pc' = "done"
       ELSE pc' = "done" /\ UNCHANGED <<file, nread, len>>
  /\ UNCHANGED <<flash, dhtb>>

ReadSigData(r) ==
  /\ pc = "sigdata"
  /\ r \in 0 .. sig.size
  /\ file' = file \o Bytes(nread, r)
  /\ nread' = nread + r
  /\ short' = (r < sig.size)
  /\ pc' = "done"
  /\ UNCHANGED <<flash, len, dhtb>>

Halt == pc \in {"done", "exit"} /\ UNCHANGED vars

Longest == len + Hdr + SigHdr + MaxSig

Next ==
  \/ \E r \in 0 .. Longest : ReadHeader(r) \/ ReadRest(r) \/ ReadSignature(r) \/ ReadSigData(r)
  \/ Halt

Spec == Init /\ [][Next]_vars
-----------------------------------------------------------------------------
(* Properties.                                                             *)

\* What has been read never exceeds what is to be read, so that len - nread is no number
\* below zero, whatever the header says.
TypeOK ==
  /\ len \in Nat
  /\ pc \in {"rest", "signature", "sigdata"} => nread <= len
  /\ dhtb => mode = 1
  /\ pc \in {"header", "rest", "signature", "sigdata", "done", "exit"}

\* The file is the flash from the start on, without a gap or a byte twice, however the
\* parts were read and wherever reading ended.
FileRight ==
  /\ Len(file) = nread
  /\ \A k \in DOMAIN file : file[k] = k - 1

\* The bytes of a whole file.
Whole ==
  IF mode = 0 THEN len
  ELSE IF img.kind = "VNTS" THEN img.nblk * img.blk
  ELSE img.size + DhtbHdr +
       (CASE sig.kind = "zeros" -> 0
          [] sig.kind = "good" /\ sig.size < MaxSig -> SigHdr + sig.size
          [] OTHER -> SigHdr)

\* If no read ended early, the file has the whole image and what there is of its
\* signature. If one did, the numbers that are reported differ, but for a signature that
\* cannot be read.
SavesWhole ==
  pc = "done" =>
    /\ ~short => Len(file) = Whole
    /\ short => nread < len \/ (dhtb /\ Len(file) = img.size + DhtbHdr)
=============================================================================
