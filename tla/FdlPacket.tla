------------------------------ MODULE FdlPacket ------------------------------
(***************************************************************************)
(* dl_get_packet of custom_fdl/packet.c and t117_fdl/packet.c: the FDL     *)
(* takes bytes one at a time from the channel and finds packets in them.   *)
(*                                                                         *)
(* The bytes come from a line of items: whole frames of the host, and      *)
(* frames without their beginning or end because the host was stopped or a *)
(* serial line lost bytes.  Every byte carries the number of its item,     *)
(* which the FDL does not see.                                             *)
(***************************************************************************)
EXTENDS Hdlc

CONSTANTS
  MaxPkt,  \* MAX_PKT_SIZE
  Lines    \* the inputs considered: items, and the bytes on the line

\* A message of the host, and the number of bytes missing at the beginning and
\* at the end of its frame.
Item == [type : Nat, data : Seq(Byte), late : Nat, lost : Nat]

\* A byte on the line and the number of its item.
LineByte == [b : Byte, src : Nat]

\* 6 is the length of an empty packet.
ASSUME PacketAssumption ==
  /\ MaxPkt \in Nat /\ MaxPkt >= 6
  /\ Lines \subseteq [items : Seq(Item), bytes : Seq(LineByte)]

VARIABLES
  items,      \* what the host sent
  line,       \* the bytes the FDL has not taken yet
  started,    \* dl_main has seen the first header and sent BSL_REP_VER
  head,       \* head_found
  esc,        \* esc is 0x20
  data,       \* data[0 .. nread-1]
  plen,       \* the packet's length as far as it is known
  from,       \* the item the first byte of data came from
  delivered,  \* the packets returned
  naks        \* number of BSL_REP_VERIFY_ERROR sent

vars == <<items, line, started, head, esc, data, plen, from, delivered, naks>>

\* The bytes of an item as they go over the line.
Sent(k, item) ==
  LET frame == EncodeMsg(item)
  IN [i \in 1 .. Len(frame) - item.lost - item.late |-> [b |-> frame[i + item.late], src |-> k]]

\* What the host sends: the four headers of the check-baud command, then items.
LineOf(its) ==
  [i \in 1 .. 4 |-> [b |-> CheckBaud(4)[i], src |-> 0]] \o FlattenSeq([k \in DOMAIN its |-> Sent(k, its[k])])

\* The inputs are what the host sends, of messages that the type and the length
\* field can hold.
FromHost ==
  \A l \in Lines :
    /\ l.bytes = LineOf(l.items)
    /\ \A k \in DOMAIN l.items : l.items[k].type < Word /\ Len(l.items[k].data) < Word

Init ==
  /\ \E input \in Lines : items = input.items /\ line = input.bytes
  /\ started = FALSE
  /\ head = FALSE
  /\ esc = FALSE
  /\ data = <<>>
  /\ plen = 6
  /\ from = 0
  /\ delivered = <<>>
  /\ naks = 0

-----------------------------------------------------------------------------
\* The byte that getchar returns next.
NextByte == Head(line).b

nread == Len(data)

GetChar == line # <<>> /\ line' = Tail(line) /\ UNCHANGED items

\* The local variables at the top of the outer loop.
Restart ==
  /\ head' = FALSE
  /\ esc' = FALSE
  /\ data' = <<>>
  /\ plen' = 6
  /\ from' = 0

\* break: dl_send_ack(BSL_REP_VERIFY_ERROR), and around the outer loop.
Reject ==
  /\ Restart
  /\ naks' = naks + 1
  /\ UNCHANGED <<started, delivered>>

\* dl_main: everything before the first header is skipped.
AwaitHeader ==
  /\ ~started
  /\ GetChar
  /\ started' = (NextByte = Header)
  /\ UNCHANGED <<head, esc, data, plen, from, delivered, naks>>

\* A byte is taken by dl_get_packet, and may follow what came before it.
Take ==
  /\ started
  /\ GetChar
  /\ esc => NextByte \in Escaped

\* A byte that cannot follow HDLC_ESCAPE.
BadEscape ==
  /\ started
  /\ GetChar
  /\ esc
  /\ NextByte \notin Escaped
  /\ Reject

\* A header in front of a packet, and any more of them.
OpenFrame ==
  /\ Take
  /\ NextByte = Header
  /\ ~head \/ nread = 0
  /\ head' = TRUE
  /\ UNCHANGED <<started, esc, data, plen, from, delivered, naks>>

Complete_HeaderOnly == nread >= 4

Complete == nread >= plen

\* The sum over the packet with its check sum.
SumOK == DlFastchk16(data) = 0

\* The header behind a packet.
CloseFrame ==
  /\ Take
  /\ NextByte = Header
  /\ head
  /\ nread # 0
  /\ \/ ~(Complete /\ SumOK) /\ Reject
     \/ /\ Complete
        /\ SumOK
        /\ delivered' = Append(delivered, [src |-> from, raw |-> data])
        /\ Restart
        /\ UNCHANGED <<started, naks>>

TakeEscape ==
  /\ Take
  /\ NextByte = Escape
  /\ esc' = TRUE
  /\ UNCHANGED <<started, head, data, plen, from, delivered, naks>>

\* A byte between packets is skipped; esc keeps its value.
SkipByte ==
  /\ Take
  /\ NextByte \notin Special
  /\ ~head
  /\ UNCHANGED <<started, head, esc, data, plen, from, delivered, naks>>

HasRoom_AnyLength == TRUE

\* (nread & ~1) < plen: an odd packet may have one byte more.
HasRoom == nread - (nread % 2) < plen

EscAfter_Kept == esc

\* The value of esc after a byte was stored.
EscAfter == FALSE

Stored == Append(data, IF esc THEN Flip[NextByte] ELSE NextByte)

\* plen, known as soon as four bytes are there.
PlenOf(d) == IF Len(d) = 4 THEN BigEndian(d[3], d[4]) + 6 ELSE plen

StoreByte ==
  /\ Take
  /\ NextByte \notin Special
  /\ head
  /\ \/ ~HasRoom /\ Reject
     \/ HasRoom /\ PlenOf(Stored) > MaxPkt /\ Reject
     \/ /\ HasRoom
        /\ PlenOf(Stored) <= MaxPkt
        /\ data' = Stored
        /\ plen' = PlenOf(Stored)
        /\ esc' = EscAfter
        /\ from' = IF data = <<>> THEN Head(line).src ELSE from
        /\ UNCHANGED <<started, head, delivered, naks>>

\* Nothing comes any more: the FDL waits in getchar.
Silence == line = <<>> /\ UNCHANGED vars

Next ==
  \/ AwaitHeader \/ BadEscape \/ OpenFrame \/ CloseFrame
  \/ TakeEscape \/ SkipByte \/ StoreByte \/ Silence

Spec == Init /\ [][Next]_vars
-----------------------------------------------------------------------------
(* Properties.                                                             *)

\* The variables keep their types, and whatever bytes arrive no more of them are
\* stored than fit: packet_temp has room for MAX_PKT_SIZE + 1 and more.
TypeOK ==
  /\ items \in Seq(Item)
  /\ line \in Seq(LineByte)
  /\ started \in BOOLEAN
  /\ head \in BOOLEAN
  /\ esc \in BOOLEAN
  /\ data \in Seq(Byte)
  /\ plen \in 6 .. MaxPkt
  /\ from \in Nat
  /\ delivered \in Seq([src : Nat, raw : Seq(Byte)])
  /\ naks \in Nat
  /\ Len(data) <= MaxPkt + 1

\* The packets returned are messages the host sent, unaltered, in the order in
\* which it sent them, each at most once, although parts of frames are missing.
OnlySent ==
  /\ \A i \in DOMAIN delivered :
       /\ delivered[i].src \in DOMAIN items
       /\ delivered[i].raw = HostRaw(items[delivered[i].src])
  /\ \A i, j \in DOMAIN delivered : i < j => delivered[i].src < delivered[j].src

Whole(k) == items[k].late = 0 /\ items[k].lost = 0
Fits(k) == Len(items[k].data) + 6 <= MaxPkt

\* A frame that is cut short costs at most the one behind it: every whole frame
\* that is not too long and does not follow a cut one is returned, for payloads
\* of even and of odd length (resynchronisation of dl_get_packet, agreement of
\* spd_checksum with dl_fastchk16).
LossBounded ==
  line = <<>> =>
    \A k \in DOMAIN items :
      Whole(k) /\ Fits(k) /\ (k = 1 \/ Whole(k - 1)) =>
        \E i \in DOMAIN delivered : delivered[i].src = k

\* A host that sends only whole frames that fit never gets a
\* BSL_REP_VERIFY_ERROR.
NoFalseAlarm ==
  (\A k \in DOMAIN items : Whole(k) /\ Fits(k)) => naks = 0
==============================================================================
