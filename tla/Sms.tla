-------------------------------- MODULE Sms --------------------------------
(***************************************************************************)
(* fphelper/main.c: sms_decode and sms_addr_decode, which read the short   *)
(* messages found in the storage of a phone.                               *)
(***************************************************************************)
EXTENDS Integers, SequencesExt

CONSTANTS
  Messages,  \* the messages considered
  Padding    \* bytes of the stored item behind the message

\* A message: sent or received, the other party (kind of address and characters), the
\* coding, the bytes of a header in front of the text, and the text.
Message == [ submit : BOOLEAN, kind : {"alpha", "international", "national"}, party : Seq(0 .. 127),
             coding : {0, 4, 8}, header : Seq(0 .. 255), text : Seq(0 .. 65535) ]

SmsAssumption == Messages \subseteq Message /\ Padding \in Nat

VARIABLES
  msg,    \* history: the message
  pdu,    \* the stored bytes
  p,      \* bytes read
  name,   \* buf, the party
  text,   \* characters printed
  n,      \* bits, or characters, of text
  a, k,   \* bits at hand and how many they are
  i,
  pc

vars == <<msg, pdu, p, name, text, n, a, k, i, pc>>

-----------------------------------------------------------------------------
(* How a message is stored, as GSM 03.40 has it.                           *)

Bits(v, w) == [j \in 1 .. w |-> (v \div 2 ^ (j - 1)) % 2]
Pack(bits) ==
  [ b \in 1 .. (Len(bits) + 7) \div 8 |->
      FoldLeft(LAMBDA sum, j : sum + (IF 8 * (b - 1) + j <= Len(bits) THEN bits[8 * (b - 1) + j] * 2 ^ (j - 1) ELSE 0),
               0, <<1, 2, 3, 4, 5, 6, 7, 8>>) ]
Septets(s) == FlattenSeq([j \in DOMAIN s |-> Bits(s[j], 7)])

Digits(s) == [ b \in 1 .. (Len(s) + 1) \div 2 |-> s[2 * b - 1] + 16 * (IF 2 * b <= Len(s) THEN s[2 * b] ELSE 15) ]

Address(m) ==
  IF m.kind = "alpha" THEN << (7 * Len(m.party) + 3) \div 4, 208 >> \o Pack(Septets(m.party))
  ELSE << Len(m.party), IF m.kind = "international" THEN 145 ELSE 129 >> \o Digits(m.party)

\* Bits between a header and seven-bit text.
Fill(m) == (7 - ((8 * Len(m.header)) % 7)) % 7

UserData(m) ==
  CASE m.coding = 0 ->
         LET bits == FlattenSeq([j \in DOMAIN m.header |-> Bits(m.header[j], 8)]) \o [j \in 1 .. Fill(m) |-> 1] \o Septets(m.text)
         IN << Len(bits) \div 7 >> \o Pack(bits)
    [] m.coding = 4 -> << Len(m.header) + Len(m.text) >> \o m.header \o m.text
    [] m.coding = 8 -> << Len(m.header) + 2 * Len(m.text) >> \o m.header
                       \o FlattenSeq([j \in DOMAIN m.text |-> << m.text[j] \div 256, m.text[j] % 256 >>])

\* Messages that were received have the time, 0xff stands in its place in the others.
Stored(m) ==
  << (IF m.submit THEN 1 ELSE 0) + (IF m.header = <<>> THEN 0 ELSE 64) >>
  \o (IF m.submit THEN <<0>> ELSE <<>>) \o Address(m)
  \o <<0, m.coding>> \o (IF m.submit THEN <<255>> ELSE << 66, 33, 67, 101, 135, 9, 138 >>)
  \o UserData(m) \o [j \in 1 .. Padding |-> 255]

-----------------------------------------------------------------------------
(* The decoder.                                                            *)

Init ==
  /\ msg \in Messages
  /\ pdu = Stored(msg)
  /\ p = 0
  /\ name = <<>>
  /\ text = <<>>
  /\ n = 0 /\ a = 0 /\ k = 0 /\ i = 0
  /\ pc = "type"

\* A byte from where p is; behind the item the dump goes on.
At(j) == IF p + j < Len(pdu) THEN pdu[p + j + 1] ELSE 0

\* pdu_type, the sequence number and the head of the address
Type ==
  /\ pc = "type"
  /\ LET q == IF pdu[1] % 2 = 1 THEN 2 ELSE 1
     IN /\ n' = pdu[q + 1]
        /\ p' = q + 2
        /\ name' = IF pdu[q + 2] = 145 THEN <<43>> ELSE <<>>
        /\ pc' = IF (pdu[1] \div 2) % 2 = 1 \/ pdu[q + 1] \notin 1 .. 20 \/ pdu[q + 2] \notin {208, 145, 129} THEN "stop"
                  ELSE IF pdu[q + 2] = 208 THEN "alpha" ELSE "digits"
  /\ UNCHANGED <<msg, pdu, text, a, k, i>>

\* One semi-octet of a name: a byte is read at every other one.
Alpha ==
  /\ pc = "alpha"
  /\ i < n
  /\ LET bits == IF i % 2 = 0 THEN a + At(0) * 2 ^ k ELSE a
     IN IF k + 4 >= 7
        THEN /\ name' = Append(name, bits % 128) /\ a' = bits \div 128 /\ k' = k + 4 - 7
             /\ pc' = IF bits % 128 < 32 THEN "stop" ELSE pc
        ELSE name' = name /\ a' = bits /\ k' = k + 4 /\ pc' = pc
  /\ p' = IF i % 2 = 0 THEN p + 1 ELSE p
  /\ i' = i + 1
  /\ UNCHANGED <<msg, pdu, text, n>>

Pair_All(b) == <<b % 16, b \div 16>>

\* The digits of a byte; the second one is left out behind the last.
Pair(b) == IF i + 1 < n THEN <<b % 16, b \div 16>> ELSE <<b % 16>>

DigitPair ==
  /\ pc = "digits"
  /\ i < n
  /\ name' = name \o Pair(At(0))
  /\ i' = i + 2
  /\ p' = p + 1
  /\ pc' = IF Contains(Pair(At(0)), 15) THEN "stop" ELSE pc
  /\ UNCHANGED <<msg, pdu, text, n, a, k>>

\* A header is also recognised by how it begins.
HasHeader(bits, q) ==
  \/ (pdu[1] \div 64) % 2 = 1
  \/ bits >= 48 /\ pdu[q + 1] = 5 /\ pdu[q + 2] = 0 /\ pdu[q + 3] = 3

Skip_None(len) == 0

\* (a %= 7) and k = 7 - a
Skip(len) == IF len % 7 = 0 THEN 0 ELSE 7 - (len % 7)

\* if (dcs & 0xc) n >>= 3
Units(coding, bits) == IF coding = 0 THEN bits ELSE bits \div 8

\* A time with a digit above nine; the last byte has the sign with its first.
BadTime(q) == \E j \in 2 .. 8 : pdu[q + j + 1] \div 16 > 9 \/ (j < 8 /\ pdu[q + j + 1] % 16 > 9)

\* Behind the address: coding, time, length, and the header of the text.
Header ==
  /\ pc \in {"alpha", "digits"}
  /\ i >= n
  /\ LET coding == At(1)
         q == p + (IF At(2) = 255 THEN 4 ELSE 10)
         bits == pdu[q] * (IF coding = 0 THEN 7 ELSE 8)
         len == IF HasHeader(bits, q) THEN pdu[q + 1] + 1 ELSE 0
         pad == IF coding = 0 THEN Skip(len) ELSE 0
         b == q + len
     IN /\ n' = Units(coding, bits - 8 * len)
        /\ a' = IF pad = 0 THEN 0 ELSE pdu[b + 1] \div 2 ^ pad
        /\ k' = IF pad = 0 THEN 0 ELSE 8 - pad
        /\ p' = IF pad = 0 THEN b ELSE b + 1
        /\ pc' = IF \/ At(2) # 255 /\ BadTime(p)
                    \/ Len(pdu) - q < (bits + 7) \div 8
                    \/ bits < 8 * len
                    \/ coding = 8 /\ n' % 2 = 1
                 THEN "stop" ELSE CASE coding = 0 -> "seven" [] coding = 4 -> "eight" [] coding = 8 -> "sixteen"
  /\ i' = 0
  /\ UNCHANGED <<msg, pdu, name, text>>

\* One character of the text.
Seven ==
  /\ pc = "seven"
  /\ i < n
  /\ LET more == k < 7
         bits == IF more THEN a + At(0) * 2 ^ k ELSE a
     IN /\ text' = Append(text, bits % 128)
        /\ a' = bits \div 128
        /\ k' = IF more THEN k + 1 ELSE k - 7
        /\ p' = IF more THEN p + 1 ELSE p
  /\ i' = i + 7
  /\ UNCHANGED <<msg, pdu, name, n, pc>>

EightOrSixteen ==
  /\ pc \in {"eight", "sixteen"}
  /\ i < n
  /\ text' = Append(text, IF pc = "eight" THEN At(0) ELSE At(0) * 256 + At(1))
  /\ p' = IF pc = "eight" THEN p + 1 ELSE p + 2
  /\ i' = IF pc = "eight" THEN i + 1 ELSE i + 2
  /\ UNCHANGED <<msg, pdu, name, n, a, k, pc>>

End ==
  /\ pc \in {"seven", "eight", "sixteen"}
  /\ i >= n
  /\ pc' = "done"
  /\ UNCHANGED <<msg, pdu, p, name, text, n, a, k, i>>

Rest == pc \in {"done", "stop"} /\ UNCHANGED vars

Next == Type \/ Alpha \/ DigitPair \/ Header \/ Seven \/ EightOrSixteen \/ End \/ Rest

Spec == Init /\ [][Next]_vars
-----------------------------------------------------------------------------
(* Properties.                                                             *)

\* The decoder reads inside the stored item, the party fits into buf with its end, and
\* the bits at hand are as many as k says.
TypeOK ==
  /\ p \in 0 .. Len(pdu)
  /\ Len(name) <= 21
  /\ k \in 0 .. 14 /\ (pc = "seven" => a \in 0 .. 2 ^ k - 1)
  /\ pc \in {"type", "alpha", "digits", "seven", "eight", "sixteen", "done", "stop"}

\* The party is the one in the message, for names of all lengths and numbers with an
\* even and an odd number of digits, and a message is refused only if its party is
\* empty or has characters that no party has.
PartyRight ==
  /\ pc = "done" => name = (IF msg.kind = "international" THEN <<43>> ELSE <<>>) \o msg.party
  /\ pc = "stop" => msg.party = <<>> \/ Contains(msg.party, 15) \/ \E c \in 0 .. 31 : msg.kind = "alpha" /\ Contains(msg.party, c)

\* All of the text is shown, whatever its coding and the header in front of it, and
\* nothing else where the header ends at a character; behind padding bits, which the
\* length still counts, one character more may be shown.
TextShown ==
  pc = "done" =>
    /\ IsPrefix(msg.text, text)
    /\ Len(text) <= Len(msg.text) + 1
    /\ msg.coding # 0 \/ Fill(msg) = 0 => text = msg.text

=============================================================================
