-------------------------------- MODULE Hdlc --------------------------------
(***************************************************************************)
(* The message format shared by spd_dump.c and the packet.c of the FDLs:   *)
(* type and length, two bytes each, the payload and a check sum, escaped   *)
(* and put between two header bytes.                                       *)
(*                                                                         *)
(* A byte has Base values (256 in the code) and a word Base * Base.  The   *)
(* CRC16 of the boot ROM's protocol is not modelled, only the sum that the *)
(* FDLs use.                                                               *)
(***************************************************************************)
EXTENDS Integers, Sequences, SequencesExt

CONSTANTS
  Base,    \* number of byte values
  Header,  \* HDLC_HEADER, 0x7e
  Escape,  \* HDLC_ESCAPE, 0x7d
  Flip     \* xor with 0x20

Byte == 0 .. Base - 1
Special == {Header, Escape}
Escaped == {Flip[Header], Flip[Escape]}

ASSUME AlphabetAssumption ==
  /\ Base \in Nat \ {0}
  /\ Header \in Byte /\ Escape \in Byte /\ Header # Escape
  /\ Flip \in [Byte -> Byte]
  /\ \A b \in Byte : Flip[Flip[b]] = b
  /\ Special \cap Escaped = {}

Word == Base * Base

\* READ16_BE and WRITE16_BE.
BigEndian(hi, lo) == Base * hi + lo
Bytes(w) == <<w \div Base, w % Base>>

Swap(w) == BigEndian(w % Base, w \div Base)

-----------------------------------------------------------------------------
(* Check sums.                                                             *)

\* The sum of the little-endian words of s, the last byte alone if there is an
\* odd number.
WordSum(s) ==
  LET sum[i \in 0 .. Len(s)] ==
        IF i = 0 THEN 0 ELSE sum[i - 1] + (IF i % 2 = 1 THEN s[i] ELSE Base * s[i])
  IN sum[Len(s)]

\* The carries are added twice and the result is inverted.
FoldCarry(sum) ==
  LET once == (sum \div Word) + (sum % Word)
  IN Word - 1 - ((once + (once \div Word)) % Word)

\* dl_fastchk16
DlFastchk16(s) == FoldCarry(WordSum(s))

SpdChecksum_AlwaysSwap(s, final) == Swap(FoldCarry(WordSum(s)))

CHK_FIXZERO == 1
CHK_ORIG == 2

\* spd_checksum: len < final, where len is what the loop over pairs has left.
SpdChecksum(s, final) ==
  LET sum == FoldCarry(WordSum(s)) IN IF Len(s) % 2 < final THEN Swap(sum) ELSE sum

-----------------------------------------------------------------------------
(* Frames.                                                                 *)

\* spd_transcode, and the loop of dl_escapedata.
Transcode(s) ==
  FlattenSeq([i \in DOMAIN s |-> IF s[i] \in Special THEN <<Escape, Flip[s[i]]>> ELSE <<s[i]>>])

Unsealed(m) == Bytes(m.type) \o Bytes(Len(m.data)) \o m.data

\* encode_msg: what is in raw_buf, without FLAGS_CRC16.
HostRaw(m) == Unsealed(m) \o Bytes(SpdChecksum(Unsealed(m), CHK_FIXZERO))

\* encode_msg with FLAGS_TRANSCODE: what is in enc_buf.
EncodeMsg(m) == <<Header>> \o Transcode(HostRaw(m)) \o <<Header>>

\* encode_msg of BSL_CMD_CHECK_BAUD.
CheckBaud(n) == [i \in 1 .. n |-> Header]

\* dl_escapedata: the check sum is swapped whatever the length.
DeviceRaw(m) == Unsealed(m) \o Bytes(Swap(DlFastchk16(Unsealed(m))))

DlEscapeData(m) == <<Header>> \o Transcode(DeviceRaw(m)) \o <<Header>>
=============================================================================
