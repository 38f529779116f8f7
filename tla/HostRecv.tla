------------------------------ MODULE HostRecv ------------------------------
(***************************************************************************)
(* recv_msg1 of spd_dump.c, and the way its bytes get there: the FDL's     *)
(* usb_channel_write cuts a frame into USB packets, libusb gathers packets *)
(* in recv_buf until one is short, the buffer is full or the timeout       *)
(* expires, and recv_msg1 looks for one message in what it gets and leaves *)
(* the rest for the next call.  Without libusb the bytes come from a       *)
(* serial port, any number at a time.                                      *)
(***************************************************************************)
EXTENDS Hdlc, FiniteSets

CONSTANTS
  Replies,      \* the sequences of messages the device may send
  MaxRead,      \* USB_MAXREAD, the size of a USB packet
  RecvBufLen,   \* RECV_BUF_LEN
  MaxTimeouts   \* how many timeouts are considered

\* A message, and the number of bytes of its frame that the line has lost at the
\* beginning and at the end.
Message == [type : Nat, data : Seq(Byte), late : Nat, lost : Nat]

ASSUME TransferAssumption ==
  /\ Replies \subseteq Seq(Message)
  /\ MaxRead \in Nat /\ MaxRead >= 2
  /\ RecvBufLen \in Nat \ {0} /\ RecvBufLen % MaxRead = 0
  /\ MaxTimeouts \in Nat

VARIABLES
  msgs,       \* what the device sends
  libusb,     \* USE_LIBUSB
  transcode,  \* FLAGS_TRANSCODE
  bus,        \* packets that the host has not taken
  pc,         \* outside or inside recv_msg1, or the program has ended
  xfer,       \* what the transfer under way has put in recv_buf
  recvBuf,    \* recv_buf[0 .. len-1]
  pos,        \* next byte of it
  head,       \* head_found
  esc,        \* esc is 0x20
  raw,        \* raw_buf[0 .. nread-1]
  plen,
  from,       \* the message the first byte of raw came from
  delivered,  \* the messages returned
  timeouts,   \* number of timeouts so far
  cuts        \* the ones in the middle of a message, except in front of the
              \* last header with FLAGS_TRANSCODE

sent == <<msgs, libusb, transcode>>
scan == <<head, esc, raw, plen, from>>
vars == <<sent, bus, pc, xfer, recvBuf, pos, scan, delivered, timeouts, cuts>>

-----------------------------------------------------------------------------
(* The device.                                                             *)

\* A message on the line; a byte knows its message and whether it is the first.
FrameOf(k, m, tr) ==
  LET f == IF tr THEN DlEscapeData(m) ELSE <<Header>> \o DeviceRaw(m) \o <<Header>>
  IN [i \in 1 .. Len(f) - m.late - m.lost |->
        [b |-> f[i + m.late], src |-> k, first |-> i = 1]]

Split_WholePackets(s) ==
  LET n == (Len(s) + MaxRead - 1) \div MaxRead
  IN [j \in 1 .. n |-> SubSeq(s, (j - 1) * MaxRead + 1, IF j = n THEN Len(s) ELSE j * MaxRead)]

\* usb_channel_write: packets of USB_MAXREAD bytes and what is left; if that is a
\* whole packet too, it is sent in two halves.
Split(s) ==
  LET n == (Len(s) - 1) \div MaxRead
      full == [j \in 1 .. n |-> SubSeq(s, (j - 1) * MaxRead + 1, j * MaxRead)]
      rest == SubSeq(s, n * MaxRead + 1, Len(s))
      half == MaxRead \div 2
  IN IF Len(rest) = MaxRead
     THEN full \o <<SubSeq(rest, 1, half), SubSeq(rest, half + 1, MaxRead)>>
     ELSE Append(full, rest)

\* A serial line has bytes only.
Singly(s) == [i \in DOMAIN s |-> <<s[i]>>]

BusOf(ms, usb, tr) ==
  FlattenSeq([k \in DOMAIN ms |->
                IF usb THEN Split(FrameOf(k, ms[k], tr)) ELSE Singly(FrameOf(k, ms[k], tr))])

Init ==
  /\ msgs \in Replies
  /\ libusb \in BOOLEAN
  /\ libusb => \A k \in DOMAIN msgs : msgs[k].late = 0 /\ msgs[k].lost = 0
  /\ transcode \in BOOLEAN
  /\ bus = BusOf(msgs, libusb, transcode)
  /\ pc = "caller"
  /\ xfer = <<>>
  /\ recvBuf = <<>>
  /\ pos = 0
  /\ head = FALSE
  /\ esc = FALSE
  /\ raw = <<>>
  /\ plen = 6
  /\ from = 0
  /\ delivered = <<>>
  /\ timeouts = 0
  /\ cuts = 0

-----------------------------------------------------------------------------
(* Getting bytes.                                                          *)

nread == Len(raw)

SavedPos_Discard == Len(recvBuf)

\* io->recv_pos, where the previous call has stopped.
SavedPos == pos

\* recv_msg1 is called.
Call ==
  /\ pc = "caller"
  /\ pc' = "loop"
  /\ pos' = SavedPos
  /\ head' = FALSE
  /\ esc' = FALSE
  /\ raw' = <<>>
  /\ plen' = 6
  /\ from' = 0
  /\ UNCHANGED <<sent, bus, xfer, recvBuf, delivered, timeouts, cuts>>

\* pos >= len: the buffer is used up and a transfer runs.
Fetching == pc = "loop" /\ pos >= Len(recvBuf)

\* The transfer is complete: libusb ends it with a short packet or a full
\* buffer; read takes what is there.
XferDone ==
  /\ xfer # <<>>
  /\ ~libusb \/ Len(xfer) = RecvBufLen \/ Len(xfer) % MaxRead # 0

\* A packet arrives in the buffer.
Arrive ==
  /\ Fetching
  /\ bus # <<>>
  /\ Len(xfer) < RecvBufLen
  /\ ~(libusb /\ XferDone)
  /\ xfer' = xfer \o Head(bus)
  /\ bus' = Tail(bus)
  /\ UNCHANGED <<sent, pc, recvBuf, pos, scan, delivered, timeouts, cuts>>

TransferDone ==
  /\ Fetching
  /\ XferDone
  /\ recvBuf' = xfer
  /\ xfer' = <<>>
  /\ pos' = 0
  /\ UNCHANGED <<sent, bus, pc, scan, delivered, timeouts, cuts>>

-----------------------------------------------------------------------------
(* The end of recv_msg1.                                                   *)

Summed_Fixzero == SpdChecksum(SubSeq(raw, 1, plen - 2), CHK_FIXZERO)

Summed == SpdChecksum(SubSeq(raw, 1, plen - 2), CHK_ORIG)

Good_NoSum == nread >= 6 /\ nread = plen

Good ==
  /\ nread >= 6
  /\ nread = plen
  /\ BigEndian(raw[plen - 1], raw[plen]) = Summed

ErrExit == pc' = "exit" /\ UNCHANGED delivered

\* Behind the loop, when something was received: a message, or ERR_EXIT.
Return ==
  /\ UNCHANGED scan
  /\ \/ ~Good /\ ErrExit
     \/ /\ Good
        /\ pc' = "caller"
        /\ delivered' = Append(delivered, [src |-> from, raw |-> raw])

\* The next byte on the line belongs to a message that has begun.
MidMessage == bus # <<>> /\ ~bus[1][1].first

\* The timeout expires.  libusb_bulk_transfer has set len to the number of bytes
\* that did arrive, and pos keeps its value; poll leaves both alone.
Timeout ==
  /\ Fetching
  /\ IF libusb THEN ~XferDone ELSE xfer = <<>>
  /\ timeouts < MaxTimeouts
  /\ timeouts' = timeouts + 1
  /\ cuts' = IF MidMessage /\ ~(transcode /\ nread # 0 /\ Good) THEN cuts + 1 ELSE cuts
  /\ recvBuf' = IF libusb THEN xfer ELSE recvBuf
  /\ xfer' = <<>>
  /\ \/ nread = 0 /\ pc' = "caller" /\ UNCHANGED <<scan, delivered>>
     \/ nread # 0 /\ Return
  /\ UNCHANGED <<sent, bus, pos>>

-----------------------------------------------------------------------------
(* The loop over the bytes.                                                *)

NextByte == recvBuf[pos + 1].b

\* a = io->recv_buf[pos++]
Take ==
  /\ pc = "loop"
  /\ pos < Len(recvBuf)
  /\ pos' = pos + 1
  /\ UNCHANGED <<sent, bus, xfer, recvBuf, timeouts, cuts>>

PlenOf(d) == IF Len(d) = 4 THEN BigEndian(d[3], d[4]) + 6 ELSE plen

\* raw_buf[nread++] = b, and the length of the message once it is there.
Store(b) ==
  /\ raw' = Append(raw, b)
  /\ plen' = PlenOf(raw')
  /\ esc' = FALSE
  /\ from' = IF nread = 0 THEN recvBuf[pos + 1].src ELSE from
  /\ UNCHANGED <<pc, head, delivered>>

OpenFrame ==
  /\ Take
  /\ NextByte = Header
  /\ ~head \/ (transcode /\ nread = 0)
  /\ ~(transcode /\ esc)
  /\ head' = TRUE
  /\ UNCHANGED <<pc, esc, raw, plen, from, delivered>>

\* With FLAGS_TRANSCODE: a byte that cannot follow HDLC_ESCAPE.
BadEscape ==
  /\ transcode
  /\ Take
  /\ esc
  /\ NextByte \notin Escaped
  /\ ErrExit
  /\ UNCHANGED scan

\* With FLAGS_TRANSCODE: the header behind a message, which may be too short.
CloseFrame ==
  /\ transcode
  /\ Take
  /\ NextByte = Header
  /\ ~esc
  /\ head
  /\ nread # 0
  /\ \/ nread < plen /\ ErrExit /\ UNCHANGED scan
     \/ nread >= plen /\ Return

TakeEscape ==
  /\ transcode
  /\ Take
  /\ NextByte = Escape
  /\ ~esc
  /\ esc' = TRUE
  /\ UNCHANGED <<pc, head, raw, plen, from, delivered>>

\* With FLAGS_TRANSCODE: a byte outside a frame is skipped; esc keeps its value.
SkipByte ==
  /\ transcode
  /\ Take
  /\ NextByte \notin Special
  /\ esc => NextByte \in Escaped
  /\ ~head
  /\ UNCHANGED <<pc, scan, delivered>>

HasRoom_Always == TRUE

HasRoom == nread < plen

\* With FLAGS_TRANSCODE: a byte of a message, or one too many.
StoreByte ==
  /\ transcode
  /\ Take
  /\ NextByte \notin Special
  /\ esc => NextByte \in Escaped
  /\ head
  /\ \/ ~HasRoom /\ ErrExit /\ UNCHANGED scan
     \/ HasRoom /\ Store(IF esc THEN Flip[NextByte] ELSE NextByte)

\* Without it: any byte but the first header is stored, and the one behind the
\* message must be a header.
PlainByte ==
  /\ ~transcode
  /\ Take
  /\ head \/ NextByte # Header
  /\ \/ nread = plen /\ NextByte # Header /\ ErrExit /\ UNCHANGED scan
     \/ nread = plen /\ NextByte = Header /\ Return
     \/ nread # plen /\ Store(NextByte)

\* The program has ended, or waits for more.
Rest ==
  /\ pc = "exit" \/ (Fetching /\ bus = <<>> /\ timeouts = MaxTimeouts)
  /\ UNCHANGED vars

Next ==
  \/ Call \/ Arrive \/ TransferDone \/ Timeout
  \/ OpenFrame \/ BadEscape \/ CloseFrame \/ TakeEscape \/ SkipByte \/ StoreByte
  \/ PlainByte \/ Rest

Spec == Init /\ [][Next]_vars
-----------------------------------------------------------------------------
(* Properties.                                                             *)

\* Messages with missing bytes on the line.
Damaged == {k \in DOMAIN msgs : msgs[k].late + msgs[k].lost # 0}

\* Nothing was lost, neither on the line nor by a timeout.
Undamaged == cuts = 0 /\ Damaged = {}

RawBufLen == 4 + Word + 2

\* The variables keep their types; raw_buf is never written beyond its end and
\* no transfer is longer than recv_buf.
TypeOK ==
  /\ msgs \in Seq(Message)
  /\ libusb \in BOOLEAN
  /\ transcode \in BOOLEAN
  /\ pc \in {"caller", "loop", "exit"}
  /\ Len(xfer) <= RecvBufLen
  /\ Len(recvBuf) <= RecvBufLen
  /\ pos \in 0 .. RecvBufLen
  /\ head \in BOOLEAN
  /\ esc \in BOOLEAN
  /\ raw \in Seq(Byte)
  /\ Len(raw) <= RawBufLen
  /\ plen \in 6 .. Word + 5
  /\ from \in Nat
  /\ timeouts \in 0 .. MaxTimeouts
  /\ cuts \in 0 .. timeouts

\* recv_msg1 returns messages of the device, unaltered, in order, each at most
\* once, wherever the transfers begin and end.  With FLAGS_TRANSCODE this is so
\* wherever a timeout falls, although the bytes of a transfer that timed out are
\* lost, and when a serial line loses bytes; without it, headers do not mark the
\* messages any more after a loss and there is only the check sum.
OnlySent ==
  transcode \/ Undamaged =>
  /\ \A i \in DOMAIN delivered :
       /\ delivered[i].src \in DOMAIN msgs
       /\ delivered[i].raw = DeviceRaw(msgs[delivered[i].src])
  /\ \A i, j \in DOMAIN delivered : i < j => delivered[i].src < delivered[j].src

\* With FLAGS_TRANSCODE every timeout in the middle of a message, and every frame
\* the line has damaged, costs one message at most: recv_msg1 finds the next one.
LossBounded ==
  transcode =>
    \A i \in DOMAIN delivered : delivered[i].src - i <= cuts + Cardinality(Damaged)

\* recv_msg1 ends the program only after a timeout in the middle of a message or
\* a damaged frame:
\* the two sides agree on the check sum for even and odd lengths, and a message
\* that spans transfers, or follows another one in a transfer, is no error.
NoFalseExit == Undamaged => pc # "exit"

\* When nothing more comes and nothing was cut or damaged, all messages were
\* returned: the last transfer ended, because usb_channel_write lets no frame end
\* with a full packet.
AllReturned ==
  Fetching /\ ~XferDone /\ bus = <<>> /\ Undamaged => Len(delivered) = Len(msgs)
=============================================================================
