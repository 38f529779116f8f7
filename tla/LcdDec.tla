------------------------------- MODULE LcdDec -------------------------------
(***************************************************************************)
(* lcd_init_dec of fphelper and of fphelper_t117: a list of LCM commands   *)
(* is made from the calls that the code of a phone makes to set up its     *)
(* display. The code is fetched as the decoder gets to it: it only jumps   *)
(* forwards, so that no place is fetched twice. The processor runs along.  *)
(***************************************************************************)
EXTENDS Integers, SequencesExt

CONSTANTS
  Regs,     \* registers of the code, some of 0 .. 7
  Vals,     \* values of MOV Rd, imm8
  Funs,     \* functions in ARM code, reached with BLX
  Thunks,   \* functions in Thumb code that set r1 to 0 and go on, reached with BL
  MaxData,  \* sizeof(data)
  Size      \* half words of the code

LcdAssumption ==
  /\ Regs \subseteq 0 .. 7 /\ {0, 1} \subseteq Regs
  /\ Vals \subseteq 0 .. 255 /\ Funs \cap Thunks = {}
  /\ MaxData \in Nat \ {0} /\ Size \in Nat

Unset == -1

VARIABLES
  t117,     \* which of the two programs
  mode,     \* 0: the calls are listed, 1: an LCM list
  p,
  reg, flags,
  lcm_wait, lcm_cmd, lcm_data, cs,
  last_cmd,
  data,     \* the first ndata bytes
  out,      \* what is printed
  cpu,      \* the registers of the processor, Unset if not known
  sent,     \* the calls of the processor: function, r0 and r1
  pc

code == <<t117, mode>>
lcm == <<lcm_wait, lcm_cmd, lcm_data, cs>>
vars == <<t117, mode, p, reg, flags, lcm_wait, lcm_cmd, lcm_data, cs, last_cmd, data, out, cpu, sent, pc>>

NoFun == "none"

Init ==
  /\ t117 \in BOOLEAN
  /\ mode \in {0, 1}
  /\ p = 0
  /\ reg = [r \in Regs |-> Unset]
  /\ flags = {}
  /\ lcm_wait = NoFun /\ lcm_cmd = NoFun /\ lcm_data = NoFun
  /\ cs = 0
  /\ last_cmd = Unset
  /\ data = <<>>
  /\ out = <<>>
  /\ cpu = [r \in Regs |-> Unset]
  /\ sent = <<>>
  /\ pc = "run"

-----------------------------------------------------------------------------

\* lcd_init_print
Lines(cmd, bytes) ==
  IF cmd = Unset /\ bytes = <<>> THEN <<>>
  ELSE << [op |-> IF cmd = Unset THEN "LCM_DATA" ELSE "LCM_CMD", cmd |-> cmd, data |-> bytes] >>

Fetch == pc = "run" /\ p < Size

\* break: the rest is printed
Stop ==
  /\ out' = IF mode = 1 THEN out \o Lines(last_cmd, data) ELSE out
  /\ last_cmd' = Unset
  /\ data' = <<>>
  /\ pc' = "stop"
  /\ UNCHANGED <<code, p, reg, flags, lcm, cpu, sent>>

End ==
  /\ pc = "run"
  /\ p = Size
  /\ Stop

\* MOV Rd, imm8: a register with a value that no call has used ends the list
MovImm(d, v) ==
  /\ Fetch
  /\ IF d \in flags THEN Stop
     ELSE /\ p' = p + 1
          /\ reg' = [reg EXCEPT ![d] = v]
          /\ flags' = flags \cup {d}
          /\ cpu' = [cpu EXCEPT ![d] = v]
          /\ UNCHANGED <<code, lcm, last_cmd, data, out, sent, pc>>

\* MOVS Rd, Rm
MovReg(d, s) ==
  /\ Fetch
  /\ IF s \notin flags THEN Stop
     ELSE /\ p' = p + 1
          /\ reg' = [reg EXCEPT ![d] = reg[s]]
          /\ flags' = flags \cup {d}
          /\ cpu' = [cpu EXCEPT ![d] = cpu[s]]
          /\ UNCHANGED <<code, lcm, last_cmd, data, out, sent, pc>>

\* B: over a half words
Jump(a) ==
  /\ Fetch
  /\ IF p + 2 + a > Size THEN Stop
     ELSE /\ p' = p + 2 + a
          /\ UNCHANGED <<code, reg, flags, lcm, last_cmd, data, out, cpu, sent, pc>>

\* Any other instruction, and a jump backwards.
Unknown == Fetch /\ Stop

-----------------------------------------------------------------------------
(* Calls.                                                                  *)

\* c = flags & 15, as the number of arguments; -1 if they do not follow each other
Args ==
  LET c == flags \cap (0 .. 3)
      n == Cardinality(c)
  IN IF c = 0 .. n - 1 THEN n ELSE -1

\* detect shortened calls
Shortened(f) == t117 /\ f \in Thunks /\ Args = 1

\* r1 of a call with two arguments
R1(f) == IF Shortened(f) THEN 0 ELSE reg[1]

\* Whether r1 is what it should be: 0, or the value of the first call.
ChipSelect(r1) ==
  IF t117 THEN IF lcm_cmd = NoFun THEN r1 \in {0, 1} ELSE r1 = cs
  ELSE r1 = 0

\* What the code does: the arguments are passed, and the call leaves nothing in r0 .. r3.
Run(f) ==
  /\ sent' = Append(sent, <<f, cpu[0], IF f \in Thunks THEN 0 ELSE cpu[1]>>)
  /\ cpu' = [r \in Regs |-> IF r \in 0 .. 3 THEN Unset ELSE cpu[r]]

CallFlags_Kept == flags

\* flags &= ~15
CallFlags == flags \ (0 .. 3)

Called(f) ==
  /\ p' = p + 2
  /\ flags' = CallFlags
  /\ Run(f)
  /\ UNCHANGED <<code, reg, pc>>

\* mode 0
List(f) ==
  LET n == IF Shortened(f) THEN 2 ELSE Args
      r == [k \in 1 .. n |-> IF k = 2 THEN R1(f) ELSE reg[k - 1]]
  IN /\ out' = Append(out, [op |-> "bl", fun |-> f, args |-> r])
     /\ UNCHANGED <<lcm, last_cmd, data>>

\* c == 1
Delay(f) ==
  /\ lcm_wait' = f
  /\ out' = out \o Lines(last_cmd, data) \o <<[op |-> "LCM_DELAY", ms |-> reg[0]]>>
  /\ data' = <<>>
  /\ last_cmd' = Unset
  /\ UNCHANGED <<lcm_cmd, lcm_data, cs>>

\* b == lcm_cmd
Command(f) ==
  /\ lcm_cmd' = f
  /\ cs' = IF lcm_cmd = NoFun THEN R1(f) ELSE cs
  /\ out' = out \o Lines(last_cmd, data)
  /\ data' = <<>>
  /\ last_cmd' = reg[0]
  /\ UNCHANGED <<lcm_wait, lcm_data>>

Full_Early == Len(data) = MaxData - 1

\* ndata == sizeof(data)
Full == Len(data) = MaxData

\* b == lcm_data
Data(f) ==
  /\ lcm_data' = f
  /\ out' = IF Full THEN out \o Lines(last_cmd, data) ELSE out
  /\ data' = IF Full THEN <<reg[0]>> ELSE Append(data, reg[0])
  /\ last_cmd' = IF Full THEN Unset ELSE last_cmd
  /\ UNCHANGED <<lcm_wait, lcm_cmd, cs>>

\* BLX, and BL with fphelper_t117
Call(f) ==
  LET n == IF Shortened(f) THEN 2 ELSE Args
      wait == n = 1 /\ lcm_wait \in {NoFun, f}
      two == n = 2 /\ ChipSelect(R1(f))
      cmd == two /\ lcm_cmd \in {NoFun, f}
      dat == two /\ lcm_cmd \notin {NoFun, f} /\ lcm_data \in {NoFun, f}
  IN /\ Fetch
     /\ f \in Thunks => cpu[0] # Unset /\ cpu[1] = Unset  \* the code leaves r1 to the thunk
     /\ IF n = -1 \/ p + 1 = Size \/ (f \in Thunks /\ ~t117) \/ (mode = 1 /\ ~(wait \/ cmd \/ dat)) THEN Stop
        ELSE /\ Called(f)
             /\ IF mode = 0 THEN List(f)
                ELSE IF wait THEN Delay(f)
                ELSE IF cmd THEN Command(f)
                ELSE Data(f)

Stopped == pc = "stop" /\ UNCHANGED vars

Next ==
  \/ \E d \in Regs, v \in Vals : MovImm(d, v)
  \/ \E d, s \in Regs : MovReg(d, s)
  \/ \E f \in Funs \cup Thunks : Call(f)
  \/ Jump(0)
  \/ Unknown
  \/ End
  \/ Stopped

Spec == Init /\ [][Next]_vars
-----------------------------------------------------------------------------
(* Properties.                                                             *)

\* data has room for what it holds, and the list is in one of the two forms.
TypeOK ==
  /\ p \in 0 .. Size
  /\ flags \subseteq Regs
  /\ Len(data) <= MaxData
  /\ \A k \in DOMAIN out : out[k].op \in (IF mode = 0 THEN {"bl"} ELSE {"LCM_CMD", "LCM_DATA", "LCM_DELAY"})
  /\ pc \in {"run", "stop"}

\* The calls that a line stands for.
Replay(line) ==
  CASE line.op = "bl" -> << <<line.fun, IF line.args = <<>> THEN Unset ELSE line.args[1],
                              IF Len(line.args) < 2 THEN Unset ELSE line.args[2]>> >>
    [] line.op = "LCM_DELAY" -> << <<lcm_wait, line.ms, Unset>> >>
    [] OTHER -> (IF line.cmd = Unset THEN <<>> ELSE << <<lcm_cmd, line.cmd, cs>> >>)
                \o [k \in DOMAIN line.data |-> <<lcm_data, line.data[k], cs>>]

\* The list printed so far, with the command being put together, makes the calls that the
\* code made, each with its arguments and in their order. No register is taken for an
\* argument after a call has used it.
ListRight ==
  FlattenSeq([k \in DOMAIN (out \o Lines(last_cmd, data)) |-> Replay((out \o Lines(last_cmd, data))[k])]) = sent

\* A list never begins the data of one command under another: each LCM_DATA line follows a
\* delay or a line that was full.
DataContinues ==
  \A k \in DOMAIN out : out[k].op = "LCM_DATA" /\ k > 1 =>
    out[k - 1].op = "LCM_DELAY" \/ Len(out[k - 1].data) = MaxData
=============================================================================
