---------------------------- MODULE MCFdlPacket ----------------------------
(***************************************************************************)
(* packet.c on bytes of two bits, of which two values are the header and   *)
(* the escape byte: dl_get_packet with packets of at most eight bytes, and *)
(* dl_escapedata with a MAX_PKT_SIZE of 12.  The two have no state in      *)
(* common, so every behaviour is one of one part.                          *)
(***************************************************************************)
EXTENDS FdlPacket

MCFlip == [b \in Byte |-> (b + 2) % Base]

Msg(t, d, late, lost) == [type |-> t, data |-> d, late |-> late, lost |-> lost]

FrameLen(d) == Len(EncodeMsg(Msg(1, d, 0, 0)))

\* Empty, odd and even payloads with and without bytes to escape, one too long.
MCPayloads == { <<>>, <<1>>, <<2>>, <<3, 1>>, <<0, 2, 3>> }

\* The first frame is cut anywhere, the second near its ends or not at all.
MCCut ==
  UNION { { <<Msg(1, d1, 0, n1), Msg(14, d2, 0, n2), Msg(3, d3, 0, 0)>> :
              n1 \in 0 .. FrameLen(d1), n2 \in {0, 1, 2, FrameLen(d2) - 1} } :
          d1 \in MCPayloads, d2 \in MCPayloads, d3 \in MCPayloads }

\* One or both of the headers between the first two frames are lost.
MCMerged ==
  { <<Msg(1, d1, 0, n1), Msg(14, d2, 1, 0), Msg(3, d3, 0, 0)>> :
      d1 \in MCPayloads, d2 \in MCPayloads, d3 \in MCPayloads, n1 \in {0, 1} }

MCLines == { [items |-> its, bytes |-> LineOf(its)] : its \in MCCut \cup MCMerged }

ASSUME HostLines == FromHost

\* Every packet that dl_escapedata can be given.
MCPackets ==
  { DeviceRaw([type |-> t, data |-> d]) :
      t \in 0 .. Word - 1, d \in UNION { [1 .. n -> Byte] : n \in 0 .. 3 } }

VARIABLES
  part,                            \* the part of packet.c that runs
  packet, room, buf, i, dst, done  \* the variables of FdlEscape

escapeVars == <<packet, room, buf, i, dst, done>>

Out == INSTANCE FdlEscape WITH MaxPkt <- 12, Packets <- MCPackets

ASSUME EscapedPackets == Out!PacketsAssumption

-----------------------------------------------------------------------------
(* The part that does not run has nothing to do.                           *)

NothingSent ==
  /\ items = <<>> /\ line = <<>> /\ started = FALSE /\ head = FALSE /\ esc = FALSE
  /\ data = <<>> /\ plen = 6 /\ from = 0 /\ delivered = <<>> /\ naks = 0

NothingEscaped ==
  packet = <<>> /\ room = [off |-> 0, cap |-> 0] /\ buf = <<>> /\ i = 0 /\ dst = 0 /\ done = FALSE

PartInit ==
  \/ part = "receive" /\ Init /\ NothingEscaped
  \/ part = "escape" /\ Out!Init /\ NothingSent

PartNext ==
  \/ part = "receive" /\ Next /\ UNCHANGED <<part, escapeVars>>
  \/ part = "escape" /\ Out!Next /\ UNCHANGED <<part, vars>>

PartSpec == PartInit /\ [][PartNext]_<<part, vars, escapeVars>>

-----------------------------------------------------------------------------
(* Properties of dl_escapedata; those of dl_get_packet are in FdlPacket.   *)

\* The frame that dl_escapedata builds stays inside the buffer of each of its callers.
FrameFits == part = "escape" => Out!TypeOK

\* The part of the packet that dl_escapedata has not read yet is still what it was: the
\* frame never runs over it, however many bytes need an escape.
UnreadKept == part = "escape" => Out!UnreadKept

\* The frame that dl_escapedata returns is that of the packet as it was passed.
FrameRight == part = "escape" => Out!FrameRight
=============================================================================
