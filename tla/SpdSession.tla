----------------------------- MODULE SpdSession -----------------------------
(***************************************************************************)
(* The command loop of spd_dump talking to a loaded FDL.  The host runs a  *)
(* script of commands; every command is a conversation of requests and     *)
(* replies over a reliable ordered USB pipe.  The device answers each      *)
(* request once, but as late as it likes, and the host stops waiting after *)
(* io->timeout milliseconds.  Some commands exit on a timeout, others      *)
(* (read_flash, dump_mem, dump_partition, load_partition and               *)
(* find_partition_size) log it and go on to the next request while the     *)
(* answer is still outstanding.                                            *)
(*                                                                         *)
(* A BSL_REP_LOG message is printed by recv_msg, which then waits anew: a  *)
(* device that keeps logging keeps the host.                               *)
(*                                                                         *)
(* Memory is a function from cell numbers to values.  The bytes of         *)
(* messages are left out (modules HostRecv and FdlPacket).                 *)
(***************************************************************************)
EXTENDS Integers, Sequences, FiniteSets

CONSTANTS
  Scripts,  \* the command lines considered, each a sequence of commands
  FlashSizes, \* the possible numbers of cells of the device's flash (or partition)
  Step,     \* blk_size: the largest block of one request
  Unit,     \* cells in 1 MB, the resolution of find_partition_size
  TopProbe, \* 2^47 in units: the first step of find_partition_size
  MaxLogs   \* bound: how many log messages are in the pipe at a time

Ops == {"read", "write", "erase", "query", "rpart", "wpart", "psize", "ptime"}

Command == [op : Ops, at : Nat, len : Nat, val : Nat, end : BOOLEAN]

ASSUME SizesAssumption ==
  /\ FlashSizes \subseteq Nat \ {0}
  /\ Step \in Nat \ {0}
  /\ Unit \in Nat \ {0}
  /\ TopProbe \in Nat
  /\ MaxLogs \in Nat

\* TopProbe is a power of two: halving gets it down to 1 without a remainder.
ASSUME ProbeAssumption ==
  \E S \in SUBSET (1 .. TopProbe) :
    TopProbe \in S /\ \A q \in S : q = 1 \/ (q % 2 = 0 /\ q \div 2 \in S)

\* The 8 bytes of read_pactime are one request.
ASSUME ScriptsAssumption ==
  /\ Scripts \subseteq Seq(Command)
  /\ \A s \in Scripts : \A i \in DOMAIN s : s[i].op = "ptime" => s[i].len <= Step

VARIABLES
  todo,      \* argv: the commands not yet started
  cmd,       \* the command being executed, or the last one finished
  pc,        \* where the host is in that command
  wait,      \* the host is inside recv_msg
  off,       \* offset: how much of the command the host counts as done
  probe,     \* 1 << i of find_partition_size, in units
  file,      \* contents of the dump file written by the command
  raw,       \* io->raw_buf: the last reply taken, NoReply after a timeout
  why,       \* how the program ended
  toDev,     \* requests on their way to the device
  toHost,    \* replies on their way to the host
  logs,      \* number of log messages on their way to the host
  nsent,     \* number of requests sent so far
  tolerated, \* number of timeouts the host logged and survived
  torn,      \* a timeout has cut a reply and dropped it
  flashSize, \* the size of the device's memory
  flash,     \* the device's memory
  dl,        \* the device's dl_status
  faults     \* the device has refused or shortened an answer

hostVars == <<todo, cmd, pc, wait, off, probe, file, raw, why, nsent, tolerated, torn>>
devVars == <<flashSize, flash, dl, faults>>
coreVars == <<hostVars, devVars, toDev, toHost>>
vars == <<coreVars, logs>>

Cell == 0 .. flashSize - 1

ErasedCell == 0

Request == [id : Nat, type : {"START", "MIDST", "END", "READ", "ERASE",
                               "QUERY", "RSTART", "RMIDST", "REND"},
            at : Nat, len : Nat, data : Seq(Nat)]

Reply == [id : Nat, type : {"ACK", "READ", "INFO", "ERR"}, data : Seq(Nat)]

NoReply == [id |-> 0, type |-> "none", data |-> <<>>]

\* The timeout expires while a reply is coming in.  Its first bytes are dropped,
\* and the rest of it is skipped by the next recv_msg1 (module HostRecv).
TornReply == [id |-> 0, type |-> "torn", data |-> <<>>]

NoCommand == [op |-> "query", at |-> 0, len |-> 0, val |-> 0, end |-> FALSE]

Init ==
  /\ todo \in Scripts
  /\ cmd = NoCommand
  /\ pc = "idle"
  /\ wait = FALSE
  /\ off = 0
  /\ probe = 0
  /\ file = <<>>
  /\ raw = NoReply
  /\ why = "running"
  /\ toDev = <<>>
  /\ toHost = <<>>
  /\ logs = 0
  /\ nsent = 0
  /\ tolerated = 0
  /\ torn = FALSE
  /\ flashSize \in FlashSizes
  /\ flash = [a \in Cell |-> a + 1]
  /\ dl = [at |-> 0, size |-> 0, recv |-> 0]
  /\ faults = FALSE

-----------------------------------------------------------------------------
(* The host: sending.                                                      *)

Least(a, b) == IF a < b THEN a ELSE b

\* n = start + len - offset, cut to step.
BlockLen == Least(cmd.len - off, Step)

ProbeAt_PastTheUnit == off + Unit * probe

\* The offset find_partition_size reads next: n64, one unit below the size it tests.
ProbeAt == off + Unit * probe - Unit

Dumps == {"read", "rpart", "ptime"}
Downloads == {"write", "wpart"}

BodyDone_OneShort ==
  CASE cmd.op = "psize" -> probe = 0
    [] OTHER            -> off + 1 >= cmd.len

\* The loop condition fails.
BodyDone ==
  CASE cmd.op = "psize" -> probe = 0
    [] OTHER            -> off >= cmd.len

OpenRequest ==
  CASE cmd.op \in Downloads         -> [type |-> "START", at |-> cmd.at, len |-> cmd.len]
    [] cmd.op = "erase"             -> [type |-> "ERASE", at |-> cmd.at, len |-> cmd.len]
    [] cmd.op = "query"             -> [type |-> "QUERY", at |-> 0, len |-> 0]
    [] cmd.op \in {"rpart", "ptime"} -> [type |-> "RSTART", at |-> 0, len |-> cmd.at + cmd.len]
    [] cmd.op = "psize"             -> [type |-> "RSTART", at |-> 0, len |-> 2 * Unit * TopProbe]

BodyRequest ==
  CASE cmd.op = "read"        -> [type |-> "READ", at |-> cmd.at + off, len |-> BlockLen]
    [] cmd.op \in {"rpart", "ptime"} -> [type |-> "RMIDST", at |-> cmd.at + off, len |-> BlockLen]
    [] cmd.op = "psize"       -> [type |-> "RMIDST", at |-> ProbeAt, len |-> 1]
    [] cmd.op \in Downloads   -> [type |-> "MIDST", at |-> 0, len |-> BlockLen]

CloseRequest ==
  [type |-> IF cmd.op \in Downloads THEN "END" ELSE "REND", at |-> 0, len |-> 0]

\* The bytes of a BSL_CMD_MIDST_DATA: the next block of the input file.
Payload == [k \in 1 .. BlockLen |-> cmd.val + off + k - 1]

\* encode_msg, send_msg, and the host is waiting.
SendMsg(m, data) ==
  /\ ~wait
  /\ wait' = TRUE
  /\ nsent' = nsent + 1
  /\ toDev' = Append(toDev, [id |-> nsent + 1, type |-> m.type, at |-> m.at,
                             len |-> m.len, data |-> data])
  /\ UNCHANGED <<todo, cmd, pc, off, probe, file, raw, why, tolerated, torn, devVars,
                 toHost, logs>>

\* main: the next command of the command line.
BeginCommand ==
  /\ pc = "idle"
  /\ todo # <<>>
  /\ cmd' = Head(todo)
  /\ todo' = Tail(todo)
  /\ pc' = IF Head(todo).op = "read" THEN "body" ELSE "open"
  /\ off' = 0
  /\ probe' = TopProbe
  /\ file' = <<>>
  /\ UNCHANGED <<wait, raw, why, nsent, tolerated, torn, devVars, toDev, toHost, logs>>

\* main: no command is left; spdio_free and return 0.
Finish ==
  /\ pc = "idle"
  /\ todo = <<>>
  /\ pc' = "exit"
  /\ why' = "done"
  /\ UNCHANGED <<todo, cmd, wait, off, probe, file, raw, nsent, tolerated, torn,
                 devVars, toDev, toHost, logs>>

SendOpen == pc = "open" /\ SendMsg(OpenRequest, <<>>)

SendBody ==
  /\ pc = "body"
  /\ ~BodyDone
  /\ SendMsg(BodyRequest, IF cmd.op \in Downloads THEN Payload ELSE <<>>)

SendClose == pc = "close" /\ SendMsg(CloseRequest, <<>>)

\* Where the host goes after the loop: to the closing request, if there is one.
AfterBody ==
  IF cmd.op = "read" \/ (cmd.op = "write" /\ ~cmd.end) THEN "idle" ELSE "close"

LeaveBody ==
  /\ pc = "body"
  /\ ~wait
  /\ BodyDone
  /\ pc' = AfterBody
  /\ UNCHANGED <<todo, cmd, wait, off, probe, file, raw, why, nsent, tolerated, torn,
                 devVars, toDev, toHost, logs>>

-----------------------------------------------------------------------------
(* The host: receiving.                                                    *)

Incoming_Blocking == IF toHost = <<>> THEN {} ELSE {Head(toHost)}

\* What recv_msg can return now: the oldest reply, or nothing when the pipe is
\* empty and the timeout expires, or when it expires in the middle of a reply or
\* of a log message.
Incoming ==
  (IF toHost = <<>> THEN {} ELSE {Head(toHost), TornReply})
    \cup (IF toHost = <<>> \/ logs > 0 THEN {NoReply} ELSE {})

\* recv_msg returns 0.
Nothing(r) == r.type \in {"none", "torn"}

\* recv_msg returns r, and the oldest reply leaves the pipe, or the log message
\* that the timeout cut.
RecvMsg(r) ==
  /\ wait
  /\ wait' = FALSE
  /\ raw' = r
  /\ torn' = (torn \/ r.type = "torn")
  /\ toHost' = IF r.type = "none" THEN toHost ELSE Tail(toHost)
  /\ logs' = IF r.type = "none" /\ logs > 0 THEN logs - 1 ELSE logs
  /\ UNCHANGED <<todo, cmd, nsent, devVars, toDev>>

\* The loop of recv_msg: a log message is printed, and the wait starts again
\* with the whole timeout.
SkipLog ==
  /\ wait
  /\ logs > 0
  /\ logs' = logs - 1
  /\ UNCHANGED coreVars

\* ERR_EXIT: exit(1) in the middle of a command.
ErrExit(reason) ==
  /\ pc' = "exit"
  /\ why' = reason
  /\ UNCHANGED <<off, probe, file, tolerated>>

\* A timeout that the caller does not treat as fatal: the answer is still to
\* come.
Tolerate(r) == tolerated' = IF r.type = "none" THEN tolerated + 1 ELSE tolerated

Accepted_OrTimeout(r) == r.type = "ACK" \/ Nothing(r)

\* The reply send_and_check goes on with.
Accepted(r) == r.type = "ACK"

\* What follows a successful send_and_check.
AfterCheck ==
  CASE pc = "open" /\ cmd.op = "erase" -> pc' = "idle" /\ UNCHANGED off
    [] pc = "open" /\ cmd.op # "erase" -> pc' = "body" /\ UNCHANGED off
    [] pc = "close"                    -> pc' = "idle" /\ UNCHANGED off
    [] pc = "body"                     -> pc' = "body" /\ off' = off + BlockLen

\* send_and_check, its receiving half: any reply but an ACK ends the program.
CheckReply ==
  /\ \/ pc = "open" /\ cmd.op # "query"
     \/ pc = "close"
     \/ pc = "body" /\ cmd.op = "write"
  /\ \E r \in Incoming :
       /\ RecvMsg(r)
       /\ \/ Nothing(r) /\ ErrExit("timeout")
          \/ ~Nothing(r) /\ ~Accepted(r) /\ ErrExit("unexpected")
          \/ Accepted(r) /\ AfterCheck /\ UNCHANGED <<probe, file, why, tolerated>>

\* chip_uid, read_efuse, partition_list: one request, its answer or exit.
QueryReply ==
  /\ pc = "open"
  /\ cmd.op = "query"
  /\ \E r \in Incoming :
       /\ RecvMsg(r)
       /\ \/ r.type # "INFO" /\ ErrExit("unexpected")
          \/ r.type = "INFO" /\ pc' = "idle" /\ UNCHANGED <<off, probe, file, why, tolerated>>

Advance_ByRequest(r) == BlockLen

\* How far a block of data moves offset.
Advance(r) == Len(r.data)

\* The lengths of a block of data that are accepted.
LengthOK(r) ==
  IF cmd.op = "ptime" THEN Len(r.data) = BlockLen ELSE Len(r.data) <= BlockLen

\* The loop of read_flash, dump_mem and dump_partition, and the one request of
\* read_pactime, which does not put up with anything unexpected.  Nothing
\* received has the type -1, which the loops log as an unexpected response and
\* stop at.
ReadReply ==
  /\ pc = "body"
  /\ cmd.op \in Dumps
  /\ \E r \in Incoming :
       /\ RecvMsg(r)
       /\ \/ r.type # "READ" /\ cmd.op = "ptime" /\ ErrExit("unexpected")
          \/ /\ r.type # "READ"
             /\ cmd.op # "ptime"
             /\ pc' = AfterBody
             /\ Tolerate(r)
             /\ UNCHANGED <<off, probe, file, why>>
          \/ r.type = "READ" /\ ~LengthOK(r) /\ ErrExit("length")
          \/ /\ r.type = "READ"
             /\ LengthOK(r)
             /\ file' = file \o r.data
             /\ off' = off + Advance(r)
             /\ pc' = IF Len(r.data) = BlockLen THEN "body" ELSE AfterBody
             /\ UNCHANGED <<probe, why, tolerated>>

\* The loop of load_partition.  The result of recv_msg_timeout is dropped and
\* ret is tested instead, which for the first block is uninitialised and for
\* the others holds the previous reply's type.
LoadReply ==
  /\ pc = "body"
  /\ cmd.op = "wpart"
  /\ \E r \in Incoming :
       /\ RecvMsg(r)
       /\ \/ off = 0 /\ ErrExit("timeout")
          \/ /\ r.type # "ACK"
             /\ pc' = AfterBody
             /\ Tolerate(r)
             /\ UNCHANGED <<off, probe, file, why>>
          \/ /\ r.type = "ACK"
             /\ off' = off + BlockLen
             /\ UNCHANGED <<pc, probe, file, why, tolerated>>

\* The loop of find_partition_size: anything but data means "not that large".
ProbeReply ==
  /\ pc = "body"
  /\ cmd.op = "psize"
  /\ \E r \in Incoming :
       /\ RecvMsg(r)
       /\ Tolerate(r)
       /\ off' = IF r.type = "READ" THEN ProbeAt + Unit ELSE off
       /\ probe' = probe \div 2
       /\ UNCHANGED <<pc, file, why>>

\* ERR_EXIT for a reason outside the protocol: the USB transfer fails, the
\* operation is not confirmed, an argument is bad (before anything is sent), a
\* file cannot be opened or written.
HostError ==
  /\ pc \notin {"idle", "exit"}
  /\ wait' = FALSE
  /\ ErrExit("host")
  /\ UNCHANGED <<todo, cmd, raw, nsent, torn, devVars, toDev, toHost, logs>>

-----------------------------------------------------------------------------
(* The device: one request handled and answered per step.                  *)

Answer_AckAfterData(type, data) ==
  LET rep(t, d) == [id |-> Head(toDev).id, type |-> t, data |-> d]
  IN /\ toDev' = Tail(toDev)
     /\ toHost' = toHost \o IF type = "READ" THEN <<rep(type, data), rep("ACK", <<>>)>>
                                            ELSE <<rep(type, data)>>
     /\ UNCHANGED <<hostVars, logs>>

\* dl_send_ack or dl_send_packet: exactly one reply to the request handled.
Answer(type, data) ==
  /\ toDev' = Tail(toDev)
  /\ toHost' = Append(toHost, [id |-> Head(toDev).id, type |-> type, data |-> data])
  /\ UNCHANGED <<hostVars, logs>>

Arrived(types) == toDev # <<>> /\ Head(toDev).type \in types

\* What a read of address c gives; outside the flash it is something else.
MemAt(c) == IF c \in Cell THEN flash[c] ELSE ErasedCell

\* The n cells from address a on.
Cells(a, n) == [k \in 1 .. n |-> MemAt(a + k - 1)]

Announced_KeepRecv(m) == [at |-> m.at, size |-> m.len, recv |-> dl.recv]

\* dl_status after BSL_CMD_START_DATA.
Announced(m) == [at |-> m.at, size |-> m.len, recv |-> 0]

\* data_start
DevStart ==
  /\ Arrived({"START"})
  /\ dl' = Announced(Head(toDev))
  /\ Answer("ACK", <<>>)
  /\ UNCHANGED <<flashSize, flash, faults>>

BlockAddr_AfterRecv(m) == dl.at + dl.recv + Len(m.data)

\* Where a block goes: addr of data_midst.
BlockAddr(m) == dl.at + dl.recv

\* The memory after k cells of a block were written and the cells of blank were
\* erased: not the cells this download has received before, which later packets
\* never erase (module FdlDownload).
Programmed(m, k, blank) ==
  LET a == BlockAddr(m)
  IN [c \in Cell |-> IF c \in a .. a + k - 1 THEN m.data[c - a + 1]
                     ELSE IF c \in blank \ (dl.at .. a - 1) THEN ErasedCell
                     ELSE flash[c]]

\* data_midst: dl_status.recv advances before the write, which may fail half
\* way through and after erasing an area around the block.
DevMidst ==
  /\ Arrived({"MIDST"})
  /\ UNCHANGED flashSize
  /\ LET m == Head(toDev)
         n == Len(m.data)
         fits == n <= dl.size - dl.recv
     IN /\ dl' = IF fits THEN [dl EXCEPT !.recv = @ + n] ELSE dl
        /\ \/ /\ flash' = IF fits THEN Programmed(m, n, {}) ELSE flash
              /\ Answer(IF fits THEN "ACK" ELSE "ERR", <<>>)
              /\ UNCHANGED faults
           \/ /\ fits
              /\ \E k \in 0 .. n - 1, lo \in Cell, hi \in Cell :
                   flash' = Programmed(m, k, lo .. hi)
              /\ Answer("ERR", <<>>)
              /\ faults' = TRUE

\* data_end
DevEnd ==
  /\ Arrived({"END"})
  /\ Answer(IF dl.size = dl.recv THEN "ACK" ELSE "ERR", <<>>)
  /\ UNCHANGED devVars

\* read_flash, which copies whatever memory it is asked for.  A request that is
\* too large is refused; other FDLs may also fail or send less than asked for.
DevRead ==
  /\ Arrived({"READ"})
  /\ UNCHANGED <<flashSize, flash, dl>>
  /\ LET m == Head(toDev) IN
       \/ /\ Answer("READ", Cells(m.at, m.len))
          /\ UNCHANGED faults
       \/ /\ faults' = TRUE
          /\ \/ Answer("ERR", <<>>)
             \/ \E n \in 0 .. m.len - 1 : Answer("READ", Cells(m.at, n))

\* The FDL2's partition read.  An area outside the partition is refused; the FDL2
\* may also fail or send less than asked for.
DevReadPart ==
  /\ Arrived({"RMIDST"})
  /\ UNCHANGED <<flashSize, flash, dl>>
  /\ LET m == Head(toDev) IN
       \/ /\ m.at + m.len <= flashSize
          /\ Answer("READ", Cells(m.at, m.len))
          /\ UNCHANGED faults
       \/ /\ m.at + m.len > flashSize
          /\ Answer("ERR", <<>>)
          /\ UNCHANGED faults
       \/ /\ m.at + m.len <= flashSize
          /\ faults' = TRUE
          /\ \/ Answer("ERR", <<>>)
             \/ \E n \in 0 .. m.len - 1 : Answer("READ", Cells(m.at, n))

\* erase_flash, which refuses an unaligned area, and stops at the first block
\* that it cannot erase.
DevErase ==
  /\ Arrived({"ERASE"})
  /\ UNCHANGED <<flashSize, dl>>
  /\ LET m == Head(toDev)
         erased(n) == [c \in Cell |-> IF c \in m.at .. m.at + n - 1 THEN ErasedCell
                                                                  ELSE flash[c]]
     IN \/ /\ flash' = erased(m.len)
           /\ Answer("ACK", <<>>)
           /\ UNCHANGED faults
        \/ /\ \E n \in 0 .. m.len : flash' = erased(n)
           /\ Answer("ERR", <<>>)
           /\ faults' = TRUE

\* Requests that leave the memory alone: chip id, efuse, partition table,
\* and the FDL2's opening and closing of a partition for reading.
DevOther ==
  /\ Arrived({"QUERY", "RSTART", "REND"})
  /\ UNCHANGED <<flashSize, flash, dl>>
  /\ \/ /\ Answer(IF Head(toDev).type = "QUERY" THEN "INFO" ELSE "ACK", <<>>)
        /\ UNCHANGED faults
     \/ /\ faults' = TRUE
        /\ Answer("ERR", <<>>)

\* fdl_printf: the device sends a log message, in the middle of a request or not.
DevLog ==
  /\ logs < MaxLogs
  /\ logs' = logs + 1
  /\ UNCHANGED coreVars

-----------------------------------------------------------------------------
Host ==
  \/ BeginCommand \/ Finish
  \/ SendOpen \/ SendBody \/ SendClose \/ LeaveBody
  \/ CheckReply \/ QueryReply \/ ReadReply \/ LoadReply \/ ProbeReply \/ SkipLog

Device ==
  DevStart \/ DevMidst \/ DevEnd \/ DevRead \/ DevReadPart \/ DevErase \/ DevOther

\* The program has ended; what is still in the pipes stays there.
Ended == pc = "exit" /\ UNCHANGED vars

Next == Host \/ HostError \/ Device \/ DevLog \/ Ended

\* The host process is scheduled, and its timeout expires when the pipe stays
\* empty; nothing is assumed of the device.
Spec == Init /\ [][Next]_vars /\ WF_vars(Host)
-----------------------------------------------------------------------------
(* Properties.                                                             *)

\* The variables keep their types, and the device never receives more of a
\* download than was announced: dl_status.size - dl_status.recv, an unsigned
\* subtraction in data_midst, does not wrap.
TypeOK ==
  /\ todo \in Seq(Command)
  /\ cmd \in Command
  /\ pc \in {"idle", "open", "body", "close", "exit"}
  /\ wait \in BOOLEAN
  /\ off \in Nat
  /\ probe \in Nat
  /\ file \in Seq(Nat)
  /\ raw \in Reply \cup {NoReply, TornReply}
  /\ why \in {"running", "done", "timeout", "unexpected", "length", "host"}
  /\ toDev \in Seq(Request)
  /\ toHost \in Seq(Reply)
  /\ logs \in 0 .. MaxLogs
  /\ nsent \in Nat
  /\ tolerated \in Nat
  /\ torn \in BOOLEAN
  /\ flashSize \in Nat \ {0}
  /\ flash \in [Cell -> Nat]
  /\ dl \in [at : Nat, size : Nat, recv : Nat]
  /\ dl.recv <= dl.size
  /\ faults \in BOOLEAN

\* The reply that the host is about to take answers its latest request, unless
\* it has gone on after a timeout; after k tolerated timeouts every later
\* answer is the answer to the k-th request before.  No command drains the pipe,
\* so the lag never shrinks (recv_msg, send_and_check, read_flash).
AnswerLag ==
  wait /\ toHost # <<>> => Head(toHost).id = nsent - tolerated

\* As long as no timeout was tolerated, the dump file of read_flash, dump_mem
\* and dump_partition holds exactly the device's memory from the requested
\* address on, off cells of it, however the device splits or refuses blocks.
DumpFaithful ==
  tolerated = 0 /\ cmd.op \in Dumps => file = Cells(cmd.at, off)

\* As long as no timeout was tolerated, the part of the input that send_buf and
\* load_partition count as written is in the device's memory (for a download
\* that fits in it).
WrittenLanded ==
  /\ tolerated = 0
  /\ cmd.op \in Downloads
  /\ pc # "exit"
  /\ cmd.at + cmd.len <= flashSize
  =>
    \A k \in 0 .. off - 1 : flash[cmd.at + k] = cmd.val + k

\* A dump or a download that ends without the program exiting is complete,
\* unless the device refused or shortened an answer, or the host went on after a
\* timeout.
FinishedComplete ==
  /\ pc = "idle"
  /\ cmd.op \in Dumps \cup Downloads
  /\ cmd.at + cmd.len <= flashSize
  /\ ~faults
  /\ tolerated = 0
  /\ ~torn
  => off = cmd.len

\* The binary search of find_partition_size ends at the partition's size,
\* rounded up to the next MB, for every size it can represent.
PartSizeExact ==
  /\ pc = "idle"
  /\ cmd.op = "psize"
  /\ ~faults
  /\ tolerated = 0
  /\ ~torn
  /\ flashSize <= Unit * (2 * TopProbe - 1)
  => off - Unit < flashSize /\ flashSize <= off /\ off % Unit = 0

\* As long as no timeout was tolerated, the device's memory does not change
\* between commands nor while a command that only reads is running: no write
\* of an earlier command is still under way.
QuietWhileReading ==
  [][ /\ tolerated = 0
      /\ pc # "exit"
      /\ pc = "idle" \/ cmd.op \notin Downloads \cup {"erase"}
      => UNCHANGED flash ]_vars

\* The program ends whatever the device answers, even if it never does, as long
\* as it does not send log messages forever: the timeout of a wait is finite, only
\* a log message starts it again (recv_msg), and every loop makes progress or
\* breaks.
HostTerminates == <>[](logs = 0) => <>(pc = "exit")
=============================================================================
