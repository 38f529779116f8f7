------------------------------ MODULE ByteFifo ------------------------------
(***************************************************************************)
(* What a receiving channel promises to dl_get_packet: the bytes that the  *)
(* host sends are returned by getchar in order, none lost, none twice.     *)
(* The host puts at most MaxRead bytes at a time.                          *)
(***************************************************************************)
EXTENDS Naturals, Sequences

CONSTANT MaxRead

VARIABLES
  queue,  \* sent, not returned yet
  out     \* returned by getchar

Init == queue = <<>> /\ out = <<>>

Put ==
  /\ Len(queue') \in Len(queue) + 1 .. Len(queue) + MaxRead
  /\ SubSeq(queue', 1, Len(queue)) = queue
  /\ UNCHANGED out

Get ==
  /\ queue # <<>>
  /\ queue' = Tail(queue)
  /\ out' = Append(out, Head(queue))

Next == Put \/ Get

Spec == Init /\ [][Next]_<<queue, out>>
=============================================================================
