------------------------------ MODULE T117Usb ------------------------------
(***************************************************************************)
(* t117_fdl/usbio.c: a DMA transfer fills usb_recv_buf until a short       *)
(* packet ends it; usb_handler then starts the next one into the same      *)
(* buffer, before usb_read1 has taken the bytes out of it.  The host is    *)
(* send_msg of spd_dump.c, which puts an empty packet behind a message     *)
(* that ends with a full one, on a high-speed bus only.                    *)
(***************************************************************************)
EXTENDS Integers, Sequences

CONSTANTS
  BufSize,     \* USB_BUFSIZE
  PacketSize,  \* wMaxPacketSize of the endpoint: 512 or 64
  Sessions,    \* the lengths of the messages that are sent one after the other
  MaxRetries   \* how often the first one, the check baud, is repeated

DmaAssumption ==
  /\ PacketSize \in Nat \ {0}
  /\ BufSize \in Nat \ {0} /\ BufSize % PacketSize = 0
  /\ \A s \in Sessions : s \in Seq(1 .. BufSize - 1) /\ s # <<>>
  /\ MaxRetries \in Nat

VARIABLES
  high,     \* endp_out_blk is 512
  msgs,     \* the messages of this session
  m,        \* the one under way
  left,     \* packets of it that are not on the bus yet
  retries,  \* check bauds sent again
  sent,     \* every byte sent so far; bytes of the check baud are 0
  count,    \* bytes of the transfer under way
  done,     \* it is complete
  mem,      \* usb_recv_buf
  idx, len, \* usb_recv_idx, usb_recv_len
  pc,       \* inside usb_read1 or outside
  out,      \* bytes returned by getchar
  owed      \* bytes of the message that the FDL has not seen

host == <<high, msgs, m, left, retries, sent>>
vars == <<host, count, done, mem, idx, len, pc, out, owed>>

\* The bytes of message i.
Bytes(i, s) == [j \in 1 .. s[i] |-> IF i = 1 THEN 0 ELSE 100 * i + j]

NeedsEmpty_Never(n) == FALSE
NeedsEmpty_Always(n) == high

\* send_msg: whether an empty packet follows.
NeedsEmpty(n) == high /\ n % PacketSize = 0

\* A message as packets.
Packets(b) ==
  LET n == (Len(b) + PacketSize - 1) \div PacketSize
      at(k) == SubSeq(b, (k - 1) * PacketSize + 1, IF k = n THEN Len(b) ELSE k * PacketSize)
  IN [k \in 1 .. n |-> at(k)] \o (IF NeedsEmpty(Len(b)) THEN <<<<>>>> ELSE <<>>)

\* usb_init: nothing received, the first transfer runs.
Init ==
  /\ high \in BOOLEAN
  /\ msgs \in Sessions
  /\ m = 1
  /\ left = Packets(Bytes(1, msgs))
  /\ retries = 0
  /\ sent = Bytes(1, msgs)
  /\ count = 0 /\ done = FALSE
  /\ mem = [i \in 0 .. BufSize - 1 |-> -1]
  /\ idx = 0 /\ len = 0
  /\ pc = "app"
  /\ out = <<>>
  /\ owed = 1

\* A packet goes into memory; a short one, or a full buffer, ends the transfer.
Packet ==
  /\ left # <<>>
  /\ ~done
  /\ LET p == Head(left)
         n == count + Len(p)
     IN /\ mem' = [i \in DOMAIN mem |-> IF i \in count .. n - 1 THEN p[i - count + 1] ELSE mem[i]]
        /\ done' = (Len(p) < PacketSize \/ n = BufSize)
        /\ count' = n
  /\ left' = Tail(left)
  /\ UNCHANGED <<high, msgs, m, retries, sent, idx, len, pc, out, owed>>

\* No answer in time: the check baud is sent again.
Retry ==
  /\ m = 1
  /\ left = <<>>
  /\ owed > 0
  /\ retries < MaxRetries
  /\ retries' = retries + 1
  /\ left' = Packets(Bytes(1, msgs))
  /\ sent' = sent \o Bytes(1, msgs)
  /\ UNCHANGED <<high, msgs, m, count, done, mem, idx, len, pc, out, owed>>

\* usr_start_recv: where the next transfer begins in the buffer.
Rearmed == 0

\* usb_handler: the transfer is done, the next one starts.
Handler ==
  /\ pc = "app"
  /\ idx = len
  /\ done
  /\ len' = count
  /\ idx' = 0
  /\ count' = Rearmed
  /\ done' = FALSE
  /\ pc' = "read"
  /\ UNCHANGED <<host, mem, out, owed>>

\* usb_recv_buf[usb_recv_idx++], behind usb_handler or while bytes are left.
\* dl_main answers the check baud at its first byte and a message at its last.
Read1 ==
  /\ pc = "read" \/ idx # len
  /\ pc' = "app"
  /\ out' = Append(out, mem[idx])
  /\ idx' = idx + 1
  /\ owed' = IF owed > 0 THEN owed - 1 ELSE 0
  /\ UNCHANGED <<host, count, done, mem, len>>

Owed_First(n) == 1

\* dl_get_packet returns a message with its last byte.
Owed(n) == n

\* The answer arrives and the next message is sent.
NextMessage ==
  /\ owed = 0
  /\ left = <<>>
  /\ m < Len(msgs)
  /\ m' = m + 1
  /\ left' = Packets(Bytes(m + 1, msgs))
  /\ sent' = sent \o Bytes(m + 1, msgs)
  /\ owed' = Owed(Len(sent') - Len(out))
  /\ UNCHANGED <<high, msgs, retries, count, done, mem, idx, len, pc, out>>

\* All is answered, or a transfer never ended.
Rest ==
  /\ left = <<>> /\ ~done /\ idx = len /\ pc = "app"
  /\ owed > 0 => retries = MaxRetries \/ m > 1
  /\ owed = 0 => m = Len(msgs)
  /\ UNCHANGED vars

Progress == Packet \/ Handler \/ Read1 \/ NextMessage

Next == Progress \/ Retry \/ Rest

Spec == Init /\ [][Next]_vars /\ WF_vars(Progress)
-----------------------------------------------------------------------------
(* Properties.                                                             *)

\* A transfer fits into usb_recv_buf, and the index stays inside it.
TypeOK ==
  /\ high \in BOOLEAN
  /\ m \in DOMAIN msgs
  /\ retries \in 0 .. MaxRetries
  /\ count \in 0 .. BufSize
  /\ done \in BOOLEAN
  /\ idx \in 0 .. BufSize /\ len \in 0 .. BufSize
  /\ pc \in {"app", "read"}
  /\ owed \in Nat

\* usb_read1 takes a byte behind usb_handler without looking at its length: that
\* is right because no transfer is empty; the empty packet always ends a transfer
\* that has bytes, so usb_recv_idx never passes usb_recv_len.
NeverPast == idx <= len /\ (pc = "read" => len > 0)

\* The next transfer overwrites the buffer while it is read.  With one message
\* under way at a time no message is altered by that, nor lost: only what is left
\* of the check baud, which is answered at its first byte, may be overwritten
\* before it is read.  A repeated check baud is a second message under way.
InOrder ==
  retries = 0 =>
    /\ Len(out) <= Len(sent)
    /\ \A i \in DOMAIN out : i = 1 \/ i > msgs[1] => out[i] = sent[i]

\* The empty packet ends the transfer of a message that fills its last packet. Without
\* it, on a full-speed bus, the FDL waits.
Terminated == high \/ \A i \in DOMAIN msgs : msgs[i] % PacketSize # 0

LastSeen == m = Len(msgs) /\ owed = 0
=============================================================================
