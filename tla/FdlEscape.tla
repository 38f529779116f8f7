------------------------------ MODULE FdlEscape ------------------------------
(***************************************************************************)
(* dl_escapedata of packet.c, which builds a frame in the buffer that also *)
(* holds the packet: the packet starts some bytes behind the start of the  *)
(* frame, and escaping makes the frame grow towards it.                    *)
(***************************************************************************)
EXTENDS Hdlc

CONSTANTS
  MaxPkt,  \* MAX_PKT_SIZE
  Packets  \* the packets sent, with their check sums

\* read_flash refuses a size of MAX_PKT_PAYLOAD or more, and a packet is six
\* bytes longer than its payload.
PacketsAssumption ==
  /\ MaxPkt \in Nat
  /\ Packets \subseteq Seq(Byte)
  /\ \A p \in Packets : Len(p) >= 6 /\ Len(p) - 6 < MaxPkt - 8

\* A buffer of size cap with the packet at off.  The frame begins at 0.
Room == [off : Nat, cap : Nat]

\* dl_send_packet: packet_temp, and what dl_send_buf returns.
SendBuf == [off |-> MaxPkt + 4, cap |-> 2 * MaxPkt + 4]

AckBuf_HeaderOnly == [off |-> 1, cap |-> 8]

\* dl_send_ack: temp and src.
AckBuf == [off |-> 8, cap |-> 16]

VARIABLES
  packet,  \* the packet, as it was when the loop began
  room,    \* the buffer's dimensions
  buf,     \* the buffer
  i,       \* bytes of the packet read
  dst,     \* next byte of the frame
  done     \* the frame is complete

vars == <<packet, room, buf, i, dst, done>>

Cells == 0 .. room.cap - 1
Size == Len(packet)

\* The buffer with the packet and its check sum in place and the first header
\* written; the other bytes are of no importance.
Init ==
  /\ packet \in Packets
  /\ room = SendBuf \/ (Size = 6 /\ room = AckBuf)
  /\ buf = [a \in Cells |-> IF a \in room.off .. room.off + Size - 1
                            THEN packet[a - room.off + 1] ELSE Header]
  /\ i = 0
  /\ dst = 1
  /\ done = FALSE

\* src[i], read from the buffer as it is now.
Source == buf[room.off + i]

Output_NoFlip == IF Source \in Special THEN <<Escape, Source>> ELSE <<Source>>

\* What stands for the next byte in the frame.
Output == IF Source \in Special THEN <<Escape, Flip[Source]>> ELSE <<Source>>

\* One round of the loop.
CopyByte ==
  /\ ~done
  /\ i < Size
  /\ buf' = [a \in Cells |-> IF a \in dst .. dst + Len(Output) - 1
                             THEN Output[a - dst + 1] ELSE buf[a]]
  /\ dst' = dst + Len(Output)
  /\ i' = i + 1
  /\ UNCHANGED <<packet, room, done>>

\* The header behind the frame.
CloseFrame ==
  /\ ~done
  /\ i = Size
  /\ buf' = [buf EXCEPT ![dst] = Header]
  /\ dst' = dst + 1
  /\ done' = TRUE
  /\ UNCHANGED <<packet, room, i>>

Returned == done /\ UNCHANGED vars

Next == CopyByte \/ CloseFrame \/ Returned

Spec == Init /\ [][Next]_vars
-----------------------------------------------------------------------------
(* Properties.                                                             *)

\* The variables keep their types, and the frame that dl_escapedata builds stays
\* inside the buffer.
TypeOK ==
  /\ packet \in Seq(Byte)
  /\ room \in Room
  /\ buf \in [Cells -> Byte]
  /\ i \in 0 .. Size
  /\ dst \in 0 .. room.cap
  /\ done \in BOOLEAN

\* The part of the packet that dl_escapedata has not read yet is still what it
\* was: the frame never runs over it, however many bytes need an escape.
UnreadKept ==
  \A k \in i + 1 .. Size : buf[room.off + k - 1] = packet[k]

\* The frame that dl_escapedata returns is that of the packet as it was passed.
FrameRight ==
  done => [k \in 1 .. dst |-> buf[k - 1]] = <<Header>> \o Transcode(packet) \o <<Header>>
==============================================================================
