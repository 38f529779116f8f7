----------------------------- MODULE DdrTrain -----------------------------
(***************************************************************************)
(* t117_fdl/sdram_init.c, ddr_scan_online: the delays of the two data      *)
(* lanes are trained with the built-in self test, for writing (wde) and    *)
(* for reading at the rising and the falling edge (rde).  Delays are in    *)
(* quarters of the step that a training register counts.                   *)
(***************************************************************************)
EXTENDS Integers, FiniteSets

CONSTANTS
  Windows,   \* per path, the steps at which data gets through: a set of functions
  Ui,        \* steps of a quarter of the clock, the length of the scan for writing
  RdeSteps,  \* 128, the length of the scan for reading
  MinRun,    \* 16, steps that a window must be longer than
  ShiftLen,      \* 8, the steps that dqs_right_shift(31) is worth
  Din,       \* 28, the quarter steps of dqin_bit_offset_adjust
  Count,     \* delay of a lane as dmc_dll_init left it
  OffLimit   \* 512, offsets that fit into the register

Lanes == {0, 1}
Edges == {"p", "n"}
Paths == {"w", "p", "n"} \X Lanes

\* Every delay of a scan can be reached from that of the DLL (a step counts 4, and there
\* are 7 bits of steps), and the shortest run that is allowed has its middle behind the
\* shift of the data: 28 <= 2 * 16 and 2 * 8 <= 17.
DdrAssumption ==
  /\ Windows \subseteq [Paths -> SUBSET Nat]
  /\ {Ui, RdeSteps, MinRun, ShiftLen, Din, Count, OffLimit} \subseteq Nat
  /\ ShiftLen < Ui
  /\ Count < OffLimit /\ 4 * (Ui - 1) < Count + OffLimit
  /\ 4 * (RdeSteps - 1) - Din < Count + OffLimit
  /\ Din <= 2 * MinRun /\ 2 * ShiftLen <= MinRun + 1

VARIABLES
  win,      \* the windows of this board
  delay,    \* what the delay registers say, by path
  tested,   \* 0x30000194: the lanes and edges that are compared
  shift,    \* dqs_right_shift(31)
  dqin,     \* dqin_bit_offset_adjust(28)
  phase,    \* the training that runs
  lane,
  j,
  first,
  mid,
  err,
  runs,     \* history: the run of steps that was chosen, by path
  pc

board == <<win>>
vars == <<win, delay, tested, shift, dqin, phase, lane, j, first, mid, err, runs, pc>>

Everything == Lanes \X Edges

\* sdram_init may leave the scan out, as two registers behind the ADI say.
Init ==
  /\ win \in Windows
  /\ delay = [p \in Paths |-> Count]
  /\ tested = Everything
  /\ shift = FALSE
  /\ dqin = FALSE
  /\ phase = "w" /\ lane = 0 /\ j = 0 /\ first = -1
  /\ mid = [l \in Lanes |-> 0]
  /\ err = FALSE
  /\ runs = [p \in Paths |-> {}]
  /\ pc \in {"first", "ok"}

-----------------------------------------------------------------------------
(* The self test.                                                          *)

\* Where a path samples, in quarter steps of its window.
Sample(p) ==
  delay[p] + (IF p[1] = "w" THEN (IF shift THEN 0 ELSE 4 * ShiftLen) ELSE (IF dqin THEN 0 ELSE Din))

Through(p) == { Sample(p) \div 4, (Sample(p) + 3) \div 4 } \subseteq win[p]

\* sipi_bist_types_test: what was written comes back, on the lanes and edges compared.
\* A test that does not finish counts as one that failed.
Bist == \A c \in tested : Through(<<"w", c[1]>>) /\ Through(<<c[2], c[1]>>)

-----------------------------------------------------------------------------
(* Training.                                                               *)

\* The first test only prints.
FirstTest ==
  /\ pc = "first"
  /\ pc' = "lane"
  /\ UNCHANGED <<board, delay, tested, shift, dqin, phase, lane, j, first, mid, err, runs>>

\* bist_mask
Mask == IF phase = "w" THEN {lane} \X Edges ELSE {<<lane, phase>>}

StartLane ==
  /\ pc = "lane"
  /\ tested' = Mask
  /\ shift' = (phase = "w")
  /\ dqin' = (phase # "w")
  /\ j' = 0
  /\ first' = -1
  /\ pc' = "write"
  /\ UNCHANGED <<board, delay, phase, lane, mid, err, runs>>

Steps == IF phase = "w" THEN Ui + ShiftLen ELSE RdeSteps

\* MEM4(regs[i]) = j, or, at the end of the scan for writing, the same delay made of
\* more steps and no shift.
WriteStep ==
  /\ pc = "write"
  /\ j < Steps
  /\ IF phase = "w" /\ j >= Steps - ShiftLen
     THEN shift' = FALSE /\ delay' = [delay EXCEPT ![<<phase, lane>>] = 4 * (j - ShiftLen)]
     ELSE shift' = shift /\ delay' = [delay EXCEPT ![<<phase, lane>>] = 4 * j]
  /\ pc' = "test"
  /\ UNCHANGED <<board, tested, dqin, phase, lane, j, first, mid, err, runs>>

Long == (j - 1) - first > MinRun

\* One test: the first step that passes is kept, a short run is dropped.
TestStep ==
  /\ pc = "test"
  /\ IF Bist
     THEN first' = (IF first < 0 THEN j ELSE first) /\ j' = j + 1 /\ pc' = "write"
     ELSE IF first >= 0 /\ Long
          THEN UNCHANGED <<first, j>> /\ pc' = "judge"
          ELSE first' = -1 /\ j' = j + 1 /\ pc' = "write"
  /\ UNCHANGED <<board, delay, tested, shift, dqin, phase, lane, mid, err, runs>>

Last_Next == j

\* last = j - 1
Last == j - 1

\* The scan for reading asks for a length at the end of the scan too.
Bad == first < 0 \/ (phase # "w" /\ Last - first < MinRun)

\* (first + last) * 4 / 2 - 32
Middle == 2 * (first + Last) - (IF phase = "w" THEN 4 * ShiftLen ELSE 0)

Reset_Keep == delay[phase, lane]

\* MEM4(regs[i]) = vals[i]
Reset == Count

EndLane ==
  /\ pc = "judge" \/ (pc = "write" /\ j = Steps)
  /\ delay' = [delay EXCEPT ![<<phase, lane>>] = Reset]
  /\ err' = Bad
  /\ mid' = IF Bad THEN mid ELSE [mid EXCEPT ![lane] = Middle]
  /\ runs' = IF Bad THEN runs ELSE [runs EXCEPT ![<<phase, lane>>] = first .. Last]
  /\ IF Bad \/ lane = 1 THEN pc' = "end" /\ lane' = lane
     ELSE pc' = "lane" /\ lane' = 1
  /\ UNCHANGED <<board, tested, shift, dqin, phase, j, first>>

\* set_dqs_dll_with_offset: the delay as an offset from the one of the DLL.
Offset(d) ==
  IF Count > d THEN Count - ((Count - d) % OffLimit) ELSE Count + ((d - Count) % OffLimit)

Trained(p) == IF p[1] = "w" THEN Offset(mid[p[2]]) ELSE Offset(mid[p[2]] - Din)

Restored_Lane == tested

\* MEM4(0x30000194) = old_bist5
Restored == Everything

\* The end of a training; it returns 0 whether it found its windows or not.
EndTraining ==
  /\ pc = "end"
  /\ tested' = Restored
  /\ delay' = IF err THEN delay ELSE [p \in Paths |-> IF p[1] = phase THEN Trained(p) ELSE delay[p]]
  /\ runs' = IF err THEN [p \in Paths |-> IF p[1] = phase THEN {} ELSE runs[p]] ELSE runs
  /\ shift' = FALSE
  /\ dqin' = FALSE
  /\ lane' = 0
  /\ err' = FALSE
  /\ IF phase = "n" THEN pc' = "last" /\ phase' = phase
     ELSE pc' = "lane" /\ phase' = (IF phase = "w" THEN "p" ELSE "n")
  /\ UNCHANGED <<board, j, first, mid>>

\* sipi_bist_simple_test last
LastTest ==
  /\ pc = "last"
  /\ pc' = IF Bist THEN "ok" ELSE "fail"
  /\ UNCHANGED <<board, delay, tested, shift, dqin, phase, lane, j, first, mid, err, runs>>

Rest == pc \in {"ok", "fail"} /\ UNCHANGED vars

Next ==
  \/ FirstTest \/ StartLane \/ WriteStep \/ TestStep \/ EndLane \/ EndTraining \/ LastTest \/ Rest

Spec == Init /\ [][Next]_vars
-----------------------------------------------------------------------------
(* Properties.                                                             *)

\* No delay, also none that was computed, is negative or needs a larger offset than the
\* register has room for.
TypeOK ==
  /\ delay \in [Paths -> Nat]
  /\ \A l \in Lanes : pc = "end" /\ ~err =>
       LET d == IF phase = "w" THEN mid[l] ELSE mid[l] - Din
       IN d - Count \in 1 - OffLimit .. OffLimit - 1
  /\ tested \subseteq Everything
  /\ first \in -1 .. j /\ j \in 0 .. Ui + ShiftLen + RdeSteps
  /\ pc \in {"first", "lane", "write", "test", "judge", "end", "last", "ok", "fail"}

\* ddr_scan_online has come to the last of its three trainings. In a boot that leaves the
\* scan out "DDR init OK" is printed for paths that nothing has tested.
Scanned == phase = "n"

\* In a boot with a scan the memory is reported as working only if every path samples
\* inside its window, although a training that failed is not reported: the last test
\* decides, and it compares everything. Without a scan no delay was changed.
ScanOkWorks ==
  pc = "ok" => IF Scanned THEN \A p \in Paths : Through(p) ELSE \A p \in Paths : delay[p] = Count

\* The steps between the ends of a run that was chosen all passed, and its path is set
\* to the middle of the run, whatever the DLL counted and wherever the run lay.
InTheMiddle ==
  pc \in {"last", "ok", "fail"} =>
    \A p \in Paths : runs[p] # {} =>
      /\ runs[p] \subseteq win[p]
      /\ Cardinality({ s \in runs[p] : 4 * s < Sample(p) }) = Cardinality({ s \in runs[p] : 4 * s > Sample(p) })

\* A training that finds no window for a lane leaves both lanes as the DLL had them, and
\* the shifts of the data are off whenever no training runs.
FailureKeeps ==
  /\ pc \in {"first", "last", "ok", "fail"} => ~shift /\ ~dqin
  /\ pc = "last" => \A p \in Paths : runs[p] = {} => delay[p] = Count

Ended == pc \in {"ok", "fail"}
=============================================================================
