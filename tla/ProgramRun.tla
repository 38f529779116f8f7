----------------------------- MODULE ProgramRun -----------------------------
(***************************************************************************)
(* What programming a run of bytes into an erased flash promises: the run  *)
(* grows from its start to its end, no other cell changes and no setting   *)
(* of the chip that is not about protection.                               *)
(***************************************************************************)
EXTENDS Naturals

CONSTANTS
  Source,  \* Source[i] is the i-th byte, counted from 0
  Erased   \* value of an erased cell

VARIABLES
  mem,     \* the cells
  first,   \* address of the run
  length,  \* number of its bytes
  written, \* how many are programmed
  settings \* bits of the status registers that are not about protection

Init == written = 0

\* A command programs the next n bytes.
Program ==
  \E n \in 1 .. length - written :
    /\ written' = written + n
    /\ mem' = [a \in DOMAIN mem |->
                 IF a \in first + written .. first + written + n - 1
                 THEN Source[a - first] ELSE mem[a]]
    /\ UNCHANGED <<first, length, settings>>

Spec == Init /\ [][Program]_<<mem, first, length, written, settings>>
=============================================================================
