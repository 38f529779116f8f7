---------------------------- MODULE MCSpdSession ----------------------------
(***************************************************************************)
(* Small scripts for SpdSession: three commands of every kind, on a        *)
(* flash of a few cells read and written in blocks of two.                 *)
(***************************************************************************)
EXTENDS SpdSession

Cmd(op, at, len, val) == [op |-> op, at |-> at, len |-> len, val |-> val, end |-> TRUE]

MCCommands ==
  { Cmd("read", 1, 3, 0), Cmd("write", 1, 3, 10), Cmd("erase", 0, 2, 0),
    Cmd("query", 0, 0, 0), Cmd("rpart", 2, 4, 0), Cmd("wpart", 0, 3, 20),
    Cmd("psize", 0, 0, 0), Cmd("ptime", 3, 2, 0),
    [op |-> "write", at |-> 2, len |-> 2, val |-> 30, end |-> FALSE] }

\* Every command line of three commands.
MCTriples == { <<a, b, c>> : a \in MCCommands, b \in MCCommands, c \in MCCommands }

\* Two dumps of different areas, one after the other.
MCTwoDumps == { <<Cmd("read", 0, 2, 0), Cmd("read", 2, 2, 0)>> }

\* One partition write.
MCWritePart == { <<Cmd("wpart", 0, 4, 20)>> }

\* Every size a search with first step 4 can find.
MCSizes == 1 .. 14

\* One size search.
MCPartSize == { <<Cmd("psize", 0, 0, 0)>> }

MCScripts == MCTriples \cup MCPartSize

\* The triples on a flash of five cells, the single search on every size.
SessionInit == Init /\ (todo \in MCPartSize \/ flashSize = 5)

SessionSpec == SessionInit /\ [][Next]_vars /\ WF_vars(Host)

-----------------------------------------------------------------------------
(* What the documentation says, without the proviso of no timeout.         *)

\* A dump file holds the cells that were asked for, also when replies are late
\* (the README's sequences of read_flash commands).
DumpAlwaysFaithful ==
  cmd.op \in Dumps => file = Cells(cmd.at, Len(file))

\* load_partition says "timeout reached" only if no reply came in time.
TimeoutIsReal == why = "timeout" => Nothing(raw)

\* When write_part returns, and the device refused nothing, the partition starts
\* with the file.
WritePartDone ==
  pc = "idle" /\ cmd.op = "wpart" /\ ~faults =>
    \A k \in 0 .. cmd.len - 1 : flash[cmd.at + k] = cmd.val + k
=============================================================================
