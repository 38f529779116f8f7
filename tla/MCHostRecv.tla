---------------------------- MODULE MCHostRecv ----------------------------
(***************************************************************************)
(* Messages of two-bit bytes, packets of four bytes and a receive buffer   *)
(* of two packets.                                                         *)
(***************************************************************************)
EXTENDS HostRecv

MCFlip == [b \in Byte |-> (b + 2) % Base]

Msg(t, d, late, lost) == [type |-> t, data |-> d, late |-> late, lost |-> lost]

\* Empty, odd and even payloads, some with bytes to escape.
MCPayloads == { <<>>, <<1>>, <<2>>, <<3, 1>>, <<0, 1, 0>> }

\* The last frame is three packets long.
MCWhole ==
  { << Msg(1, d1, 0, 0), Msg(5, d2, 0, 0), Msg(4, <<0, 1, 0, 1>>, 0, 0) >> :
      d1 \in MCPayloads, d2 \in MCPayloads }

\* Bytes are missing around the boundary of the first two frames, so that what is
\* left of them may have the length of a message; or all headers between three.
MCDamaged ==
  { << Msg(1, <<1>>, 0, n), Msg(5, <<0, 1>>, m, 0), Msg(4, <<1>>, 0, 0) >> :
      n \in 0 .. 4, m \in 0 .. 4 }
  \cup { << Msg(1, <<1>>, 0, 4), Msg(5, <<1>>, 6, 0), Msg(4, <<1>>, 0, 0) >> }
  \cup { << Msg(1, d, 0, 1), Msg(5, d, 1, 1), Msg(4, d, 1, 0) >> : d \in {<<1>>, <<0, 1, 0>>} }

MCReplies == MCWhole \cup MCDamaged
=============================================================================
