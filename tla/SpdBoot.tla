------------------------------ MODULE SpdBoot ------------------------------
(***************************************************************************)
(* The fdl commands of spd_dump.c: the host loads FDL1 through the boot    *)
(* ROM, meets it again with another check sum, and may have it load a      *)
(* second FDL.  The device is the boot ROM, then dl_main of                *)
(* t117_fdl/main.c (and of custom_fdl/main.c, which starts the same way).  *)
(* Requests that reach the device while an FDL starts are lost or wait.    *)
(***************************************************************************)
EXTENDS Integers, Sequences, FiniteSets

CONSTANTS
  Tries,   \* how often BSL_CMD_CHECK_BAUD is sent to FDL1 (10)
  Chips    \* upper halves of the chip ids considered

BootAssumption == Tries \in Nat \ {0} /\ Chips \subseteq {\h6530, \h6531, \h6562, \h9818}

VARIABLES
  opts,     \* the command line: end_data, keep_charge, t117_exec_dist # 0, the
            \* number of fdl commands, and whether read_efuse follows
  chip,     \* what the device is
  k,        \* step of the host's program
  pc,       \* "send", "recv", "done" or "exit"
  tries,    \* how often this step was sent
  known,    \* chip_id, 0 if unknown
  judged,   \* the answers the host has looked at: step, and what they answer
  toDev, toHost,
  stage,    \* who runs on the device
  down,     \* dl_status: bytes announced and received, or nothing announced
  naks      \* frames refused with BSL_REP_VERIFY_ERROR

vars == <<opts, chip, k, pc, tries, known, judged, toDev, toHost, stage, down, naks>>
host == <<opts, chip, k, pc, tries, known, judged>>

-----------------------------------------------------------------------------
(* What the host sends, in order.                                          *)

\* send_file with one block of two.
SendFile(o) ==
  <<"start", "midst", "midst">> \o (IF o.endData THEN <<"end">> ELSE <<>>)

\* fdl, the first time.  The boot ROM does not answer an exec through a broken
\* buffer (t117_exec_workaround).
FirstFdl(o) ==
  <<"baud1", "connect">> \o SendFile(o)
  \o (IF o.dist THEN <<"jump">> ELSE <<"exec">>)
  \o <<"baud4", "connect">>
  \o (IF o.keepCharge THEN <<"charge">> ELSE <<>>)

SecondFdl_NoExec(o) == SendFile(o)

SecondFdl(o) == SendFile(o) \o <<"exec2">>

Program(o) ==
  FirstFdl(o)
  \o (IF o.fdls = 2 THEN SecondFdl(o) ELSE <<>>)
  \o (IF o.efuse THEN <<"efuse">> ELSE <<>>)

Step == Program(opts)[k]

\* The step that starts the second FDL.
Exec2 == Len(FirstFdl(opts)) + Len(SecondFdl(opts))

Sum_AfterConnect == IF k <= Len(FirstFdl(opts)) THEN "crc16" ELSE "sum"

\* FLAGS_CRC16 is set for the boot ROM and cleared in front of the second check
\* baud.
Sum ==
  IF k > Len(SendFile(opts)) + 3 THEN "sum" ELSE "crc16"

\* What send_and_check and the other steps take for success.
Wanted(step) ==
  CASE step \in {"baud1", "baud4"} -> {"VER"}
    [] step = "exec2" -> {"ACK", "INCOMPATIBLE_PARTITION"}
    [] step = "efuse" -> {"READ_FLASH"}
    [] OTHER -> {"ACK"}

Init ==
  /\ opts \in [endData : BOOLEAN, keepCharge : BOOLEAN, dist : BOOLEAN, fdls : 1 .. 2, efuse : BOOLEAN]
  /\ chip \in Chips
  /\ k = 1 /\ pc = "send" /\ tries = 0
  /\ known = 0
  /\ judged = {}
  /\ toDev = <<>> /\ toHost = <<>>
  /\ stage = "rom"
  /\ down = [size |-> -1, recv |-> 0]
  /\ naks = 0

\* On to the next step, or the command line is done.
Advance ==
  /\ k' = k + 1
  /\ pc' = IF k = Len(Program(opts)) THEN "done" ELSE "send"
  /\ tries' = 0

\* dump_efuse refuses a chip it does not know; everything else is sent.
Send ==
  /\ pc = "send"
  /\ \/ /\ Step = "efuse"
        /\ known = 0
        /\ pc' = "exit"
        /\ UNCHANGED <<k, tries, toDev>>
     \/ /\ Step # "efuse" \/ known # 0
        /\ toDev' = Append(toDev, [cmd |-> Step, sum |-> Sum, step |-> k])
        /\ IF Step = "jump" THEN Advance ELSE k' = k /\ pc' = "recv" /\ tries' = tries + 1
  /\ UNCHANGED <<opts, chip, known, judged, toHost, stage, down, naks>>

Answer == Head(toHost)

AfterLog_Kept == toHost

\* What is left behind the message.
AfterLog == Tail(toHost)

\* recv_msg prints messages of type BSL_REP_LOG and goes on.
RecvLog ==
  /\ pc = "recv"
  /\ toHost # <<>>
  /\ Answer.type = "LOG"
  /\ toHost' = AfterLog
  /\ UNCHANGED <<host, toDev, stage, down, naks>>

\* The number of efuse words: what dump_efuse expects of a chip.
EfuseWords(c) ==
  CASE c \in {\h6530, \h6531} -> 8
    [] c = \h6562 -> 16
    [] c = \h9818 -> 64

FwAddr_Swapped(c) == CASE c = \h6530 -> 768 [] c \in {\h6531, \h6562} -> 256 [] OTHER -> 0

\* fw_addr in units of 2^20, 0 where it stays unknown.
FwAddr(c) ==
  CASE c \in {\h6530, \h6531} -> 768
    [] c = \h6562 -> 256
    [] OTHER -> 0

\* The chip id that the version string of an FDL1 may contain.
LearnChip == known' = IF Step = "baud4" THEN Answer.id ELSE known

Good ==
  /\ Answer.type \in Wanted(Step)
  /\ Step = "efuse" => Answer.words = EfuseWords(known)

\* The answer is looked at: the next step, or ERR_EXIT.
Recv ==
  /\ pc = "recv"
  /\ toHost # <<>>
  /\ Answer.type # "LOG"
  /\ toHost' = Tail(toHost)
  /\ judged' = judged \cup {<<k, Answer.step>>}
  /\ \/ Good /\ Advance /\ LearnChip
     \/ ~Good /\ pc' = "exit" /\ UNCHANGED <<k, tries, known>>
  /\ UNCHANGED <<opts, chip, toDev, stage, down, naks>>

MayRetry == Step = "baud4" /\ tries < Tries

\* Nothing came in time: ERR_EXIT, or the check baud is sent again.
Timeout ==
  /\ pc = "recv"
  /\ toHost = <<>>
  /\ pc' = IF MayRetry THEN "send" ELSE "exit"
  /\ UNCHANGED <<opts, chip, k, tries, known, judged, toDev, toHost, stage, down, naks>>

-----------------------------------------------------------------------------
(* The device.                                                             *)

Request == Head(toDev)

Reply(type) == [type |-> type, step |-> Request.step, id |-> 0, words |-> 0]

\* The next request is taken and answered.
Take(answers) ==
  /\ toDev # <<>>
  /\ toDev' = Tail(toDev)
  /\ toHost' = toHost \o answers
  /\ UNCHANGED host

\* data_start: the memory behind the address must work; then dl_status.
DataStart ==
  /\ Request.cmd = "start"
  /\ \/ down' = [size |-> 2, recv |-> 0] /\ Take(<<Reply("ACK")>>) /\ UNCHANGED stage
     \/ /\ stage = "fdl"
        /\ Take(<<Reply("OPERATION_FAILED")>>)
        /\ stage' = "dead"
        /\ UNCHANGED down

DataMidst ==
  /\ Request.cmd = "midst"
  /\ IF down.recv < down.size
     THEN down' = [down EXCEPT !.recv = @ + 1] /\ Take(<<Reply("ACK")>>)
     ELSE Take(<<Reply("DOWN_SIZE_ERROR")>>) /\ UNCHANGED down
  /\ UNCHANGED stage

DataEnd ==
  /\ Request.cmd = "end"
  /\ Take(<<Reply(IF down.recv = down.size THEN "ACK" ELSE "DOWN_EARLY_END")>>)
  /\ UNCHANGED <<stage, down>>

\* An exec request: the boot ROM answers first, an FDL leaves the answer to what
\* it starts, and the jump through a broken buffer has none.
DataExec ==
  /\ Request.cmd \in {"exec", "exec2", "jump"}
  /\ IF down.size = -1
     THEN Take(<<Reply("INVALID_CMD")>>) /\ UNCHANGED <<stage, down>>
     ELSE /\ Take(IF Request.cmd = "exec" THEN <<Reply("ACK")>> ELSE <<>>)
          /\ stage' = IF stage = "rom" THEN "start1" ELSE "start2"
          /\ down' = [size |-> -1, recv |-> 0]

Connect ==
  /\ Request.cmd = "connect"
  /\ Take(<<Reply("ACK")>>)
  /\ UNCHANGED <<stage, down>>

\* BSL_CMD_KEEP_CHARGE is not among the commands of the custom FDLs.
KeepCharge ==
  /\ Request.cmd = "charge"
  /\ \E type \in {"ACK", "UNKNOWN_CMD"} : Take(<<Reply(type)>>)
  /\ UNCHANGED <<stage, down>>

\* EFUSE_MAX of the chip.
EfuseMax == CASE chip = \h9818 -> 64 [] chip = \h6562 -> 16 [] OTHER -> 8

ReadEfuse ==
  /\ Request.cmd = "efuse"
  /\ Take(<<[Reply("READ_FLASH") EXCEPT !.words = EfuseMax]>>)
  /\ UNCHANGED <<stage, down>>

Handlers ==
  DataStart \/ DataMidst \/ DataEnd \/ DataExec \/ Connect \/ KeepCharge \/ ReadEfuse

\* A packet with the other check sum.
Reject ==
  /\ Take(<<Reply("VERIFY_ERROR")>>)
  /\ naks' = naks + 1
  /\ UNCHANGED <<stage, down>>

\* The boot ROM, which answers every check baud.
RomStep ==
  /\ stage = "rom"
  /\ toDev # <<>>
  /\ \/ Request.cmd = "baud1" /\ Take(<<Reply("VER")>>) /\ UNCHANGED <<stage, down, naks>>
     \/ /\ Request.cmd # "baud1"
        /\ IF Request.sum = "crc16" THEN Handlers /\ UNCHANGED naks ELSE Reject

\* What arrives while an FDL starts may be lost.
Lose ==
  /\ stage \in {"start1", "start2"}
  /\ Take(<<>>)
  /\ UNCHANGED <<stage, down, naks>>

\* FDL1 comes up and waits for a header; a second FDL answers the request that
\* started it, behind a line of log.
Start ==
  /\ stage \in {"start1", "start2"}
  /\ \/ stage = "start1" /\ stage' = "header" /\ UNCHANGED toHost
     \/ /\ stage = "start2"
        /\ stage' = "fdl2"
        /\ \E type \in {"ACK", "INCOMPATIBLE_PARTITION"}, log \in BOOLEAN :
             LET answer(t) == [type |-> t, step |-> Exec2, id |-> 0, words |-> 0]
             IN toHost' = toHost \o (IF log THEN <<answer("LOG")>> ELSE <<>>) \o <<answer(type)>>
  /\ UNCHANGED <<host, toDev, down, naks>>

FirstHeader_EachTime == stage \in {"header", "fdl"} /\ Request.cmd = "baud4"

\* dl_main waits for a header once and sends its version; the FDLs of the vendor
\* name no chip.
FirstHeader == stage = "header"

FdlVersion ==
  /\ toDev # <<>>
  /\ FirstHeader
  /\ stage' = "fdl"
  /\ \E id \in {chip, 0} : Take(<<[Reply("VER") EXCEPT !.id = id]>>)
  /\ UNCHANGED <<down, naks>>

\* The loop of dl_main: more headers are skipped, packets with the right sum go to
\* their handlers.
FdlStep ==
  /\ stage \in {"fdl", "fdl2"}
  /\ toDev # <<>>
  /\ ~FirstHeader
  /\ \/ Request.cmd = "baud4" /\ Take(<<>>) /\ UNCHANGED <<stage, down, naks>>
     \/ /\ Request.cmd # "baud4"
        /\ IF Request.sum = "sum" THEN Handlers /\ UNCHANGED naks ELSE Reject

Rest == pc \in {"done", "exit"} /\ UNCHANGED vars

Host == Send \/ RecvLog \/ Recv \/ Timeout

Next ==
  \/ Host
  \/ RomStep \/ Lose \/ Start \/ FdlVersion \/ FdlStep \/ Rest

\* Only the host has to go on: its transfers end with an answer or a timeout.  The
\* device may never answer.
Spec == Init /\ [][Next]_vars /\ WF_vars(Host)
-----------------------------------------------------------------------------
(* Properties.                                                             *)

\* A check baud is sent at most Tries times, and a download receives what was announced.
TypeOK ==
  /\ k \in 1 .. Len(Program(opts)) + 1
  /\ pc \in {"send", "recv", "done", "exit"}
  /\ tries \in 0 .. Tries
  /\ known \in Chips \cup {0}
  /\ stage \in {"rom", "start1", "header", "fdl", "start2", "fdl2", "dead"}
  /\ down.recv \in 0 .. 2
  /\ naks \in Nat

\* The two sides change from CRC16 to the sum at the same message: whatever is
\* lost or repeated around the start of FDL1, no message meets the other check.
SumsAgree == naks = 0

\* The host never takes an answer for that of another request, although check
\* bauds are repeated and some of them reach the device when their sender has
\* given them up.
AnswersMatch == \A pair \in judged : pair[1] = pair[2]

\* A command line that ends without an error has left the device where it should
\* be: FDL1 or FDL2 runs.
DoneMeansRunning == pc = "done" => stage = IF opts.fdls = 2 THEN "fdl2" ELSE "fdl"

\* The addresses and sizes that the host derives from the chip id are those of the
\* FDL that sent it: FW_ADDR and EFUSE_MAX.
ChipAgrees ==
  known # 0 =>
    /\ EfuseWords(known) = EfuseMax
    /\ chip # \h9818 => FwAddr(known) = IF chip = \h6562 THEN 256 ELSE 768

Ended == pc \in {"done", "exit"}
=============================================================================
