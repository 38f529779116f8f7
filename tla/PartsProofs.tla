---------------------------- MODULE PartsProofs ----------------------------
(***************************************************************************)
(* Parts of the FDLs, for all sizes and boards.  t117_fdl: the calibration *)
(* of the pads ends between the answers of the comparators and the         *)
(* training of the data lanes in the middle of a window; the DMA reception *)
(* returns the messages in order although its buffer is filled again while *)
(* it is read.  custom_fdl: sfc_write programs a run and nothing else.     *)
(***************************************************************************)
EXTENDS DdrTrain, Sequences, FiniteSetTheorems, FunctionTheorems, SequenceTheorems, TLAPS

-----------------------------------------------------------------------------
(* dmc_zq_cal.                                                             *)

CONSTANTS Levels, Target
VARIABLES low, high, reg, tmp, inc, deinc, drvn, pads

Zq == INSTANCE ZqCal

Sides == {"drvn", "drvp"}
Registers ==
  [drvn : Zq!Strengths, drvp : Zq!Strengths, drv : {0, Target}, select : {0, 1}, on : {0, 1}]

\* A comparator has changed its answer between the ends of its noise.
NoiseInv ==
  /\ low \in [Sides -> Zq!Strengths] /\ high \in [Sides -> Zq!Strengths]
  /\ \A s \in Sides : low[s] < high[s]

ZqTypeInv ==
  /\ NoiseInv
  /\ reg \in Registers /\ tmp = reg
  /\ inc \in Zq!Strengths /\ deinc \in Zq!Strengths /\ drvn \in Zq!Strengths
  /\ pc \in {"target", "up", "upN", "downN", "startP", "upP", "downP", "done"}

\* Going up, the strength tried is in the register and not yet beyond the noise.
UpInv(s, sel) == reg.select = sel /\ reg[s] = inc /\ inc <= high[s]

\* Going down, it is not below the noise, and the way up has ended in the noise.
DownInv(s, sel) ==
  /\ reg.select = sel /\ reg[s] = deinc /\ low[s] <= deinc
  /\ low[s] <= inc /\ inc <= high[s]

\* drvn has been found.
FoundInv == low["drvn"] <= drvn /\ drvn <= high["drvn"] /\ reg.drvn = drvn

\* The inductive invariant of the calibration.
ZqInv ==
  /\ ZqTypeInv
  /\ pc = "upN" => UpInv("drvn", 0)
  /\ pc = "downN" => DownInv("drvn", 0)
  /\ pc = "upP" => UpInv("drvp", 1)
  /\ pc = "downP" => DownInv("drvp", 1)
  /\ pc \in {"startP", "upP", "downP"} => FoundInv
  /\ pc # "target" => reg.drv = Target
  /\ Zq!Calibrated

\* A remainder changes nothing inside the range of a field.
LEMMA Inserted ==
  ASSUME Zq!ZqAssumption, NEW n \in Zq!Strengths
  PROVE  Zq!insert_bits(n) = n
<1>1. Levels \in Nat \ {0} /\ n \in 0 .. Levels - 1
  BY DEF Zq!ZqAssumption, Zq!Strengths
<1>2. n % Levels = n
  BY <1>1
<1> QED BY <1>2 DEF Zq!insert_bits

LEMMA ZqStarts == Zq!ZqAssumption /\ Zq!Init => ZqInv
<1> SUFFICES ASSUME Zq!ZqAssumption, Zq!Init PROVE ZqInv
  OBVIOUS
<1>1. 0 \in Zq!Strengths /\ 1 \in Zq!Strengths
  BY DEF Zq!ZqAssumption, Zq!Strengths
<1>2. reg \in Registers
  BY <1>1 DEF Zq!Init, Registers
<1> QED BY <1>1, <1>2 DEF Zq!Init, ZqInv, ZqTypeInv, NoiseInv, Sides, Zq!Calibrated

\* One step of a search going up.
LEMMA GoUp ==
  ASSUME Zq!ZqAssumption, ZqTypeInv, NEW s \in Sides, NEW sel \in {0, 1}, UpInv(s, sel), reg[s] < high[s]
  PROVE  inc + 1 \in Zq!Strengths /\ inc + 1 <= high[s] /\ Zq!insert_bits(inc + 1) = inc + 1
<1>1. /\ inc \in 0 .. Levels - 1 /\ high[s] \in 0 .. Levels - 1 /\ Levels \in Nat
      /\ reg[s] = inc /\ inc < high[s]
  BY DEF ZqTypeInv, NoiseInv, UpInv, Zq!Strengths, Zq!ZqAssumption
<1>2. inc + 1 \in Zq!Strengths /\ inc + 1 <= high[s]
  BY <1>1 DEF Zq!Strengths
<1> QED BY <1>2, Inserted

LEMMA GoDown ==
  ASSUME Zq!ZqAssumption, ZqTypeInv, NEW s \in Sides, NEW sel \in {0, 1}, DownInv(s, sel), reg[s] > low[s]
  PROVE  deinc - 1 \in Zq!Strengths /\ low[s] <= deinc - 1 /\ Zq!insert_bits(deinc - 1) = deinc - 1
<1>1. /\ deinc \in 0 .. Levels - 1 /\ low[s] \in 0 .. Levels - 1 /\ Levels \in Nat
      /\ reg[s] = deinc /\ low[s] < deinc
  BY DEF ZqTypeInv, NoiseInv, DownInv, Zq!Strengths, Zq!ZqAssumption
<1>2. deinc - 1 \in Zq!Strengths /\ low[s] <= deinc - 1
  BY <1>1 DEF Zq!Strengths
<1> QED BY <1>2, Inserted

\* The middle of two strengths in the noise, or beside it, is in the noise.
LEMMA MiddleFound ==
  ASSUME Zq!ZqAssumption, ZqTypeInv, NEW s \in Sides, NEW sel \in {0, 1}, DownInv(s, sel), reg[s] < high[s]
  PROVE  /\ Zq!Middle(inc, deinc) \in Zq!Strengths
         /\ low[s] <= Zq!Middle(inc, deinc) /\ Zq!Middle(inc, deinc) <= high[s]
<1>1. /\ deinc \in 0 .. Levels - 1 /\ inc \in 0 .. Levels - 1 /\ Levels \in Nat
      /\ low[s] \in 0 .. Levels - 1 /\ high[s] \in 0 .. Levels - 1
      /\ low[s] <= deinc /\ deinc < high[s] /\ low[s] <= inc /\ inc <= high[s]
  BY DEF ZqTypeInv, NoiseInv, DownInv, Zq!Strengths, Zq!ZqAssumption
<1> QED BY <1>1 DEF Zq!Middle, Zq!Strengths

LEMMA Fields == Zq!Field(0) = "drvn" /\ Zq!Field(1) = "drvp" /\ "drvn" \in Sides /\ "drvp" \in Sides
  BY DEF Zq!Field, Sides

\* The steps of the search for drvn keep the invariant.
LEMMA ZqStepN ==
  ASSUME Zq!ZqAssumption, ZqInv,
         \/ Zq!SetTarget \/ Zq!StartUp(0, "up", "upN") \/ Zq!TooWeak(0, "upN")
         \/ Zq!StrongEnough(0, "upN", "downN") \/ Zq!TooStrong(0, "downN") \/ Zq!FoundN
  PROVE  ZqInv'
<1>0. ZqTypeInv /\ NoiseInv /\ 0 \in Zq!Strengths /\ Levels - 1 \in Zq!Strengths /\ tmp = reg
  BY DEF ZqInv, ZqTypeInv, Zq!ZqAssumption, Zq!Strengths
<1>n. low' = low /\ high' = high /\ NoiseInv'
  BY <1>0 DEF NoiseInv, Zq!SetTarget, Zq!StartUp, Zq!TooWeak, Zq!StrongEnough, Zq!TooStrong, Zq!FoundN,
              Zq!chip
<1>1. CASE Zq!SetTarget
  <2>1. reg' = [reg EXCEPT !.on = 0, !.drv = Target] /\ tmp' = reg' /\ pc' = "up"
    BY <1>1 DEF Zq!SetTarget, Zq!Write
  <2>2. reg' \in Registers /\ reg'.drv = Target
    BY <2>1, <1>0 DEF ZqTypeInv, Registers
  <2>3. inc' = inc /\ deinc' = deinc /\ drvn' = drvn
    BY <1>1 DEF Zq!SetTarget
  <2> QED BY <2>1, <2>2, <2>3, <1>0, <1>n DEF ZqInv, ZqTypeInv, Zq!Calibrated
<1>2. CASE Zq!StartUp(0, "up", "upN")
  <2>1. /\ pc = "up" /\ reg' = [reg EXCEPT !.select = 0, !["drvn"] = 0] /\ tmp' = reg' /\ pc' = "upN"
        /\ inc' = 0 /\ deinc' = deinc /\ drvn' = drvn
    BY <1>0, <1>2, Fields DEF Zq!StartUp, Zq!Write, Zq!Begin
  <2>2. reg' \in Registers /\ reg'["drvn"] = 0 /\ reg'.select = 0 /\ reg'.drv = reg.drv
    BY <2>1, <1>0 DEF ZqTypeInv, Registers
  <2>3. reg.drv = Target
    BY <2>1 DEF ZqInv
  <2>4. 0 <= high["drvn"]
    BY <1>0, Fields DEF NoiseInv, Zq!Strengths
  <2> QED BY <2>1, <2>2, <2>3, <2>4, <1>0, <1>n DEF ZqInv, ZqTypeInv, UpInv, Zq!Calibrated
<1>3. CASE Zq!TooWeak(0, "upN")
  <2>0. pc = "upN" /\ UpInv("drvn", 0) /\ reg.drv = Target
    BY <1>3 DEF Zq!TooWeak, ZqInv
  <2>1. reg["drvn"] < high["drvn"]
    BY <1>3, <2>0, Fields DEF Zq!TooWeak, Zq!MayBeWeak, UpInv
  <2>2. inc + 1 \in Zq!Strengths /\ inc + 1 <= high["drvn"] /\ Zq!insert_bits(inc + 1) = inc + 1
    BY <2>0, <2>1, <1>0, GoUp, Fields
  <2>3. /\ reg' = [reg EXCEPT !["drvn"] = inc + 1] /\ tmp' = reg' /\ pc' = "upN"
        /\ inc' = inc + 1 /\ deinc' = deinc /\ drvn' = drvn
    BY <1>0, <1>3, <2>0, <2>2, Fields DEF Zq!TooWeak, Zq!Write, Zq!Up
  <2>4. reg' \in Registers /\ reg'["drvn"] = inc + 1 /\ reg'.select = reg.select /\ reg'.drv = reg.drv
    BY <2>2, <2>3, <1>0 DEF ZqTypeInv, Registers
  <2> QED BY <2>0, <2>2, <2>3, <2>4, <1>0, <1>n DEF ZqInv, ZqTypeInv, UpInv, Zq!Calibrated
<1>4. CASE Zq!StrongEnough(0, "upN", "downN")
  <2>0. pc = "upN" /\ UpInv("drvn", 0) /\ reg.drv = Target
    BY <1>4 DEF Zq!StrongEnough, ZqInv
  <2>1. low["drvn"] < inc
    BY <1>4, <2>0, Fields DEF Zq!StrongEnough, Zq!MayBeStrong, UpInv
  <2>2. Zq!insert_bits(Levels - 1) = Levels - 1
    BY <1>0, Inserted
  <2>3. /\ reg' = [reg EXCEPT !.select = 0, !["drvn"] = Levels - 1] /\ tmp' = reg' /\ pc' = "downN"
        /\ inc' = inc /\ deinc' = Levels - 1 /\ drvn' = drvn
    BY <1>4, <2>2, Fields DEF Zq!StrongEnough, Zq!Write, Zq!Strongest
  <2>4. reg' \in Registers /\ reg'["drvn"] = Levels - 1 /\ reg'.select = 0 /\ reg'.drv = reg.drv
    BY <2>3, <1>0 DEF ZqTypeInv, Registers
  <2>5. low["drvn"] <= Levels - 1 /\ low["drvn"] <= inc /\ inc <= high["drvn"]
    BY <2>0, <2>1, <1>0, Fields DEF NoiseInv, Zq!Strengths, ZqTypeInv, UpInv, Zq!ZqAssumption
  <2> QED BY <2>0, <2>3, <2>4, <2>5, <1>0, <1>n DEF ZqInv, ZqTypeInv, DownInv, Zq!Calibrated
<1>5. CASE Zq!TooStrong(0, "downN")
  <2>0. pc = "downN" /\ DownInv("drvn", 0) /\ reg.drv = Target
    BY <1>5 DEF Zq!TooStrong, ZqInv
  <2>1. reg["drvn"] > low["drvn"]
    BY <1>5, <2>0, Fields DEF Zq!TooStrong, Zq!MayBeStrong, DownInv
  <2>2. deinc - 1 \in Zq!Strengths /\ low["drvn"] <= deinc - 1 /\ Zq!insert_bits(deinc - 1) = deinc - 1
    BY <2>0, <2>1, <1>0, GoDown, Fields
  <2>3. /\ reg' = [reg EXCEPT !["drvn"] = deinc - 1] /\ tmp' = reg' /\ pc' = "downN"
        /\ inc' = inc /\ deinc' = deinc - 1 /\ drvn' = drvn
    BY <1>0, <1>5, <2>0, <2>2, Fields DEF Zq!TooStrong, Zq!Write
  <2>4. reg' \in Registers /\ reg'["drvn"] = deinc - 1 /\ reg'.select = reg.select /\ reg'.drv = reg.drv
    BY <2>2, <2>3, <1>0 DEF ZqTypeInv, Registers
  <2> QED BY <2>0, <2>2, <2>3, <2>4, <1>0, <1>n DEF ZqInv, ZqTypeInv, DownInv, Zq!Calibrated
<1>6. CASE Zq!FoundN
  <2> DEFINE mid0 == Zq!Middle(inc, deinc)
  <2>0. pc = "downN" /\ DownInv("drvn", 0) /\ reg.drv = Target
    BY <1>6 DEF Zq!FoundN, ZqInv
  <2>1. reg["drvn"] < high["drvn"]
    BY <1>6, <2>0, Fields DEF Zq!FoundN, Zq!MayBeWeak, DownInv
  <2>2. mid0 \in Zq!Strengths /\ low["drvn"] <= mid0 /\ mid0 <= high["drvn"]
    BY <2>0, <2>1, <1>0, MiddleFound, Fields
  <2>3. /\ reg' = [reg EXCEPT !["drvn"] = mid0] /\ tmp' = reg' /\ pc' = "startP"
        /\ inc' = inc /\ deinc' = deinc /\ drvn' = mid0
    BY <1>6 DEF Zq!FoundN, Zq!Write
  <2> HIDE DEF mid0
  <2>4. reg' \in Registers /\ reg'["drvn"] = mid0 /\ reg'.drv = reg.drv
    BY <2>2, <2>3, <1>0 DEF ZqTypeInv, Registers
  <2> QED BY <2>0, <2>2, <2>3, <2>4, <1>0, <1>n DEF ZqInv, ZqTypeInv, FoundInv, Zq!Calibrated
<1> QED BY <1>1, <1>2, <1>3, <1>4, <1>5, <1>6

\* So do those of the search for drvp, which leave drvn alone.
LEMMA ZqStepP ==
  ASSUME Zq!ZqAssumption, ZqInv,
         \/ Zq!StartUp(1, "startP", "upP") \/ Zq!TooWeak(1, "upP")
         \/ Zq!StrongEnough(1, "upP", "downP") \/ Zq!TooStrong(1, "downP") \/ Zq!FoundP
  PROVE  ZqInv'
<1>0. ZqTypeInv /\ NoiseInv /\ 0 \in Zq!Strengths /\ Levels - 1 \in Zq!Strengths /\ tmp = reg
  BY DEF ZqInv, ZqTypeInv, Zq!ZqAssumption, Zq!Strengths
<1>n. low' = low /\ high' = high /\ NoiseInv' /\ drvn' = drvn
  BY <1>0 DEF NoiseInv, Zq!StartUp, Zq!TooWeak, Zq!StrongEnough, Zq!TooStrong, Zq!FoundP, Zq!chip
<1>f. FoundInv /\ reg.drv = Target
  BY DEF ZqInv, Zq!StartUp, Zq!TooWeak, Zq!StrongEnough, Zq!TooStrong, Zq!FoundP
<1>2. CASE Zq!StartUp(1, "startP", "upP")
  <2>1. /\ reg' = [reg EXCEPT !.select = 1, !["drvp"] = 0] /\ tmp' = reg' /\ pc' = "upP"
        /\ inc' = 0 /\ deinc' = deinc
    BY <1>0, <1>2, Fields DEF Zq!StartUp, Zq!Write, Zq!Begin
  <2>2. /\ reg' \in Registers /\ reg'["drvp"] = 0 /\ reg'.select = 1 /\ reg'.drv = reg.drv
        /\ reg'.drvn = reg.drvn
    BY <2>1, <1>0 DEF ZqTypeInv, Registers
  <2>4. 0 <= high["drvp"]
    BY <1>0, Fields DEF NoiseInv, Zq!Strengths
  <2> QED BY <2>1, <2>2, <2>4, <1>0, <1>n, <1>f DEF ZqInv, ZqTypeInv, UpInv, FoundInv, Zq!Calibrated
<1>3. CASE Zq!TooWeak(1, "upP")
  <2>0. pc = "upP" /\ UpInv("drvp", 1)
    BY <1>3 DEF Zq!TooWeak, ZqInv
  <2>1. reg["drvp"] < high["drvp"]
    BY <1>3, <2>0, Fields DEF Zq!TooWeak, Zq!MayBeWeak, UpInv
  <2>2. inc + 1 \in Zq!Strengths /\ inc + 1 <= high["drvp"] /\ Zq!insert_bits(inc + 1) = inc + 1
    BY <2>0, <2>1, <1>0, GoUp, Fields
  <2>3. /\ reg' = [reg EXCEPT !["drvp"] = inc + 1] /\ tmp' = reg' /\ pc' = "upP"
        /\ inc' = inc + 1 /\ deinc' = deinc
    BY <1>0, <1>3, <2>0, <2>2, Fields DEF Zq!TooWeak, Zq!Write, Zq!Up
  <2>4. /\ reg' \in Registers /\ reg'["drvp"] = inc + 1 /\ reg'.select = reg.select
        /\ reg'.drv = reg.drv /\ reg'.drvn = reg.drvn
    BY <2>2, <2>3, <1>0 DEF ZqTypeInv, Registers
  <2> QED BY <2>0, <2>2, <2>3, <2>4, <1>0, <1>n, <1>f
       DEF ZqInv, ZqTypeInv, UpInv, FoundInv, Zq!Calibrated
<1>4. CASE Zq!StrongEnough(1, "upP", "downP")
  <2>0. pc = "upP" /\ UpInv("drvp", 1)
    BY <1>4 DEF Zq!StrongEnough, ZqInv
  <2>1. low["drvp"] < inc
    BY <1>4, <2>0, Fields DEF Zq!StrongEnough, Zq!MayBeStrong, UpInv
  <2>2. Zq!insert_bits(Levels - 1) = Levels - 1
    BY <1>0, Inserted
  <2>3. /\ reg' = [reg EXCEPT !.select = 1, !["drvp"] = Levels - 1] /\ tmp' = reg' /\ pc' = "downP"
        /\ inc' = inc /\ deinc' = Levels - 1
    BY <1>4, <2>2, Fields DEF Zq!StrongEnough, Zq!Write, Zq!Strongest
  <2>4. /\ reg' \in Registers /\ reg'["drvp"] = Levels - 1 /\ reg'.select = 1 /\ reg'.drv = reg.drv
        /\ reg'.drvn = reg.drvn
    BY <2>3, <1>0 DEF ZqTypeInv, Registers
  <2>5. low["drvp"] <= Levels - 1 /\ low["drvp"] <= inc /\ inc <= high["drvp"]
    BY <2>0, <2>1, <1>0, Fields DEF NoiseInv, Zq!Strengths, ZqTypeInv, UpInv, Zq!ZqAssumption
  <2> QED BY <2>3, <2>4, <2>5, <1>0, <1>n, <1>f
       DEF ZqInv, ZqTypeInv, DownInv, FoundInv, Zq!Calibrated
<1>5. CASE Zq!TooStrong(1, "downP")
  <2>0. pc = "downP" /\ DownInv("drvp", 1)
    BY <1>5 DEF Zq!TooStrong, ZqInv
  <2>1. reg["drvp"] > low["drvp"]
    BY <1>5, <2>0, Fields DEF Zq!TooStrong, Zq!MayBeStrong, DownInv
  <2>2. deinc - 1 \in Zq!Strengths /\ low["drvp"] <= deinc - 1 /\ Zq!insert_bits(deinc - 1) = deinc - 1
    BY <2>0, <2>1, <1>0, GoDown, Fields
  <2>3. /\ reg' = [reg EXCEPT !["drvp"] = deinc - 1] /\ tmp' = reg' /\ pc' = "downP"
        /\ inc' = inc /\ deinc' = deinc - 1
    BY <1>0, <1>5, <2>0, <2>2, Fields DEF Zq!TooStrong, Zq!Write
  <2>4. /\ reg' \in Registers /\ reg'["drvp"] = deinc - 1 /\ reg'.select = reg.select
        /\ reg'.drv = reg.drv /\ reg'.drvn = reg.drvn
    BY <2>2, <2>3, <1>0 DEF ZqTypeInv, Registers
  <2> QED BY <2>0, <2>2, <2>3, <2>4, <1>0, <1>n, <1>f
       DEF ZqInv, ZqTypeInv, DownInv, FoundInv, Zq!Calibrated
<1>6. CASE Zq!FoundP
  <2> DEFINE mid0 == Zq!Middle(inc, deinc)
  <2>0. pc = "downP" /\ DownInv("drvp", 1)
    BY <1>6 DEF Zq!FoundP, ZqInv
  <2>1. reg["drvp"] < high["drvp"]
    BY <1>6, <2>0, Fields DEF Zq!FoundP, Zq!MayBeWeak, DownInv
  <2>2. mid0 \in Zq!Strengths /\ low["drvp"] <= mid0 /\ mid0 <= high["drvp"]
    BY <2>0, <2>1, <1>0, MiddleFound, Fields
  <2>3. /\ reg' = [reg EXCEPT !["drvp"] = mid0, !.on = 1] /\ tmp' = reg' /\ pc' = "done"
        /\ inc' = inc /\ deinc' = deinc /\ pads' = [drvp |-> mid0, drvn |-> drvn]
    BY <1>6 DEF Zq!FoundP, Zq!Write, Zq!Pads
  <2> HIDE DEF mid0
  <2>4. /\ reg' \in Registers /\ reg'.drvp = mid0 /\ reg'.drv = reg.drv
        /\ reg'.drvn = reg.drvn /\ reg'.on = 1
    BY <2>2, <2>3, <1>0 DEF ZqTypeInv, Registers
  <2>5. ZqTypeInv'
    BY <2>3, <2>4, <1>0, <1>n DEF ZqTypeInv
  <2>6. /\ pads'["drvn"] = drvn /\ pads'["drvp"] = mid0 /\ pads'.drvn = drvn /\ pads'.drvp = mid0
    BY <2>3
  <2>7. drvn \in low["drvn"] .. high["drvn"] /\ mid0 \in low["drvp"] .. high["drvp"]
    BY <2>2, <1>0, <1>f DEF FoundInv, NoiseInv, ZqTypeInv, Zq!Strengths, Sides
  <2>8. Zq!Calibrated'
    BY <2>3, <2>4, <2>6, <2>7, <1>n, <1>f DEF Zq!Calibrated, FoundInv
  <2> QED BY <2>3, <2>4, <2>5, <2>8, <1>f DEF ZqInv
<1> QED BY <1>2, <1>3, <1>4, <1>5, <1>6

LEMMA ZqStep == Zq!ZqAssumption /\ ZqInv /\ [Zq!Next]_(Zq!vars) => ZqInv'
<1> SUFFICES ASSUME Zq!ZqAssumption, ZqInv, [Zq!Next]_(Zq!vars) PROVE ZqInv'
  OBVIOUS
<1>1. CASE UNCHANGED Zq!vars
  BY <1>1 DEF Zq!vars, ZqInv, ZqTypeInv, NoiseInv, UpInv, DownInv, FoundInv, Zq!Calibrated
<1>2. CASE Zq!Next
  BY <1>1, <1>2, ZqStepN, ZqStepP DEF Zq!Next, Zq!Rest
<1> QED BY <1>1, <1>2

LEMMA ZqAlways == Zq!ZqAssumption => (Zq!Spec => []ZqInv)
<1> SUFFICES ASSUME Zq!ZqAssumption PROVE Zq!Spec => []ZqInv
  OBVIOUS
<1>1. Zq!Init => ZqInv
  BY ZqStarts
<1>2. ZqInv /\ [Zq!Next]_(Zq!vars) => ZqInv'
  BY ZqStep
<1> QED BY <1>1, <1>2, PTL DEF Zq!Spec

LEMMA ZqTypeFromInv == ZqInv => Zq!TypeOK
  BY DEF ZqInv, ZqTypeInv, Zq!TypeOK, Registers

\* Neither search of dmc_zq_cal, which have no limit, leaves the range of the strengths.
THEOREM ZqTypeCorrect == Zq!ZqAssumption => (Zq!Spec => []Zq!TypeOK)
<1> SUFFICES ASSUME Zq!ZqAssumption PROVE Zq!Spec => []Zq!TypeOK
  OBVIOUS
<1> QED BY ZqAlways, ZqTypeFromInv, PTL

\* dmc_zq_cal sets each pad between the two answers of its comparator, wherever the
\* comparators change, and leaves the calibration register with the same two strengths.
THEOREM PadsCalibrated == Zq!ZqAssumption => (Zq!Spec => []Zq!Calibrated)
<1> SUFFICES ASSUME Zq!ZqAssumption PROVE Zq!Spec => []Zq!Calibrated
  OBVIOUS
<1>1. ZqInv => Zq!Calibrated
  BY DEF ZqInv
<1> QED BY <1>1, ZqAlways, PTL

-----------------------------------------------------------------------------
(* ddr_scan_online.                                                        *)

Phases == {"w", "p", "n"}
Scanning == pc \in {"write", "test", "judge"}
Training == pc \notin {"last", "ok", "fail"}
Path == <<phase, lane>>

\* A path whose training is under way.
Current(p) == Training /\ p[1] = phase

\* What is added to the delay of a path outside of its training.
Extra(p) == IF p[1] = "w" THEN 4 * ShiftLen ELSE Din

\* The delay that set_dqs_dll_with_offset is asked for.
Asked(p) == IF p[1] = "w" THEN mid[p[2]] ELSE mid[p[2]] - Din

DdrTypeInv ==
  /\ win \in [Paths -> SUBSET Nat]
  /\ delay \in [Paths -> Nat]
  /\ tested \subseteq Everything
  /\ shift \in BOOLEAN /\ dqin \in BOOLEAN
  /\ phase \in Phases /\ lane \in Lanes
  /\ j \in 0 .. Ui + ShiftLen + RdeSteps /\ first \in -1 .. j
  /\ mid \in [Lanes -> Int]
  /\ err \in BOOLEAN
  /\ runs \in [Paths -> SUBSET Nat]
  /\ pc \in {"first", "lane", "write", "test", "judge", "end", "last", "ok", "fail"}

\* In a scan: the lane and edge alone are compared, the step tested is where the path
\* samples, and all steps since the first one of the run have passed.
ScanInv ==
  Scanning =>
    /\ tested = Mask
    /\ j <= Steps /\ (pc # "write" => j < Steps)
    /\ phase = "w" /\ j < Ui => shift
    /\ phase # "w" => dqin
    /\ pc = "test" => Sample(Path) = 4 * j
    /\ first >= 0 => first < j /\ \A s \in first .. j - 1 : s \in win[Path]
    /\ pc = "judge" => first >= 0 /\ Long

\* A run a .. b that was chosen for a path, inside its window and with a middle that an
\* offset can reach.
Chosen(p, a, b) ==
  /\ a <= b /\ runs[p] = a .. b /\ runs[p] \subseteq win[p]
  /\ 2 * (a + b) - Extra(p) \in 0 .. Count + OffLimit - 1
  /\ Current(p) => Asked(p) = 2 * (a + b) - Extra(p)
  /\ ~Current(p) => delay[p] = 2 * (a + b) - Extra(p)

ChosenInv == \A p \in Paths : runs[p] # {} => \E a, b \in Nat : Chosen(p, a, b)

\* Trainings that are still to come have chosen nothing.
LaterInv ==
  \A p \in Paths :
    (phase = "w" /\ p[1] # "w") \/ (phase = "p" /\ p[1] = "n") => runs[p] = {}

\* A delay is that of the DLL unless its path is trained or being scanned.
DelayInv ==
  \A p \in Paths :
    (runs[p] = {} \/ Current(p)) /\ ~(Scanning /\ p = Path) => delay[p] = Count

\* The second lane comes after a success with the first, and a training that has
\* succeeded has chosen both runs.
LaneInv ==
  /\ (Scanning \/ pc = "lane") /\ lane = 1 => runs[<<phase, 0>>] # {}
  /\ pc = "end" /\ ~err => \A l \in Lanes : runs[<<phase, l>>] # {}

\* Outside of a training the shifts are off and everything is compared; the last test
\* comes behind the third training.
OutsideInv ==
  /\ pc \in {"first", "last", "ok", "fail"} => ~shift /\ ~dqin /\ tested = Everything
  /\ pc = "first" => lane = 0
  /\ pc = "last" => Scanned

\* The inductive invariant of the training.
DdrInv ==
  /\ DdrTypeInv /\ ScanInv /\ ChosenInv /\ LaterInv /\ DelayInv /\ LaneInv
  /\ OutsideInv /\ ScanOkWorks

-----------------------------------------------------------------------------
LEMMA DdrConstants ==
  ASSUME DdrAssumption
  PROVE  /\ Ui \in Nat /\ RdeSteps \in Nat /\ MinRun \in Nat /\ ShiftLen \in Nat /\ Din \in Nat
         /\ Count \in Nat /\ OffLimit \in Nat /\ OffLimit > 0
         /\ ShiftLen < Ui /\ Count < OffLimit /\ 4 * (Ui - 1) < Count + OffLimit
         /\ 4 * (RdeSteps - 1) - Din < Count + OffLimit
         /\ Din <= 2 * MinRun /\ 2 * ShiftLen <= MinRun + 1
<1>1. /\ Ui \in Nat /\ RdeSteps \in Nat /\ MinRun \in Nat /\ ShiftLen \in Nat /\ Din \in Nat
      /\ Count \in Nat /\ OffLimit \in Nat
  BY DEF DdrAssumption
<1> QED BY <1>1 DEF DdrAssumption

\* A path is a phase and a lane.
LEMMA PathFacts ==
  /\ \A x \in Phases, l \in Lanes : /\ <<x, l>> \in Paths
                                    /\ <<x, l>>[1] = x /\ <<x, l>>[2] = l
  /\ \A p \in Paths : p[1] \in Phases /\ p[2] \in Lanes /\ p = <<p[1], p[2]>>
  BY DEF Paths, Phases

\* Where the scan is.
LEMMA StepFacts ==
  ASSUME DdrAssumption, DdrTypeInv
  PROVE  /\ Steps \in Nat /\ Steps <= Ui + ShiftLen + RdeSteps
         /\ phase = "w" => Steps = Ui + ShiftLen /\ Steps - ShiftLen = Ui
         /\ phase # "w" => Steps = RdeSteps
         /\ j \in Nat /\ first \in Int /\ first >= -1 /\ Path \in Paths
         /\ Path[1] = phase /\ Path[2] = lane
<1>1. /\ Steps \in Nat /\ Steps <= Ui + ShiftLen + RdeSteps
      /\ phase = "w" => Steps = Ui + ShiftLen /\ Steps - ShiftLen = Ui
      /\ phase # "w" => Steps = RdeSteps
  BY DdrConstants DEF Steps
<1>2. Path \in Paths /\ Path[1] = phase /\ Path[2] = lane
  BY PathFacts DEF Path, DdrTypeInv
<1>3. j \in Nat /\ first \in Int /\ first >= -1
  BY DEF DdrTypeInv
<1> QED BY <1>1, <1>2, <1>3

\* An offset that fits its field gives the delay asked for.
LEMMA OffsetReaches ==
  ASSUME DdrAssumption, NEW d \in 0 .. Count + OffLimit - 1
  PROVE  Offset(d) = d
<1>0. Count \in Nat /\ OffLimit \in Nat /\ OffLimit > 0 /\ Count < OffLimit /\ d \in Nat /\ d < Count + OffLimit
  BY DdrConstants
<1>1. CASE Count > d
  <2>1. (Count - d) % OffLimit = Count - d
    BY <1>0, <1>1
  <2> QED BY <1>0, <1>1, <2>1 DEF Offset
<1>2. CASE ~(Count > d)
  <2>1. (d - Count) % OffLimit = d - Count
    BY <1>0, <1>2
  <2> QED BY <1>0, <1>2, <2>1 DEF Offset
<1> QED BY <1>1, <1>2

\* A path that samples at a whole step gets its data through only inside its window.
LEMMA WholeStep ==
  ASSUME NEW p, NEW s \in Nat, Sample(p) = 4 * s, Through(p)
  PROVE  s \in win[p]
<1>1. (4 * s) \div 4 = s
  OBVIOUS
<1> QED BY <1>1 DEF Through

LEMMA DdrStarts == DdrAssumption /\ Init => DdrInv
<1> SUFFICES ASSUME DdrAssumption, Init PROVE DdrInv
  OBVIOUS
<1>1. win \in [Paths -> SUBSET Nat]
  BY DEF Init, DdrAssumption
<1>2. DdrTypeInv
  <2>1. j \in 0 .. Ui + ShiftLen + RdeSteps /\ first \in -1 .. j
    BY DdrConstants DEF Init
  <2>2. delay \in [Paths -> Nat] /\ runs \in [Paths -> SUBSET Nat] /\ mid \in [Lanes -> Int]
    BY DdrConstants DEF Init
  <2> QED BY <1>1, <2>1, <2>2 DEF Init, DdrTypeInv, Phases, Lanes
<1>3. ScanInv
  BY DEF Init, ScanInv, Scanning
<1>4. ChosenInv /\ LaterInv /\ DelayInv
  BY DEF Init, ChosenInv, LaterInv, DelayInv
<1>5. LaneInv /\ OutsideInv /\ ScanOkWorks
  BY DEF Init, LaneInv, OutsideInv, ScanOkWorks, Scanned, Scanning
<1> QED BY <1>2, <1>3, <1>4, <1>5 DEF DdrInv

\* Steps that leave the delays, runs and middles alone and do not end a training.
LEMMA ChosenKept ==
  ASSUME ChosenInv, LaterInv, win' = win, delay' = delay, mid' = mid, runs' = runs, phase' = phase,
         Training' = Training
  PROVE  ChosenInv' /\ LaterInv'
<1>1. \A p \in Paths : Current(p)' = Current(p) /\ Asked(p)' = Asked(p) /\ Extra(p)' = Extra(p)
  BY DEF Current, Asked, Extra
<1>2. \A p \in Paths, a, b \in Nat : Chosen(p, a, b) => Chosen(p, a, b)'
  BY <1>1 DEF Chosen
<1>3. ChosenInv'
  BY <1>2 DEF ChosenInv
<1> QED BY <1>3 DEF LaterInv

LEMMA DdrFirstTest ==
  ASSUME DdrInv, FirstTest
  PROVE  DdrInv'
<1>0. /\ pc = "first" /\ pc' = "lane"
      /\ win' = win /\ delay' = delay /\ tested' = tested /\ shift' = shift /\ dqin' = dqin
      /\ phase' = phase /\ lane' = lane /\ j' = j /\ first' = first /\ mid' = mid /\ err' = err
      /\ runs' = runs
  BY DEF FirstTest, board
<1>1. DdrTypeInv'
  BY <1>0 DEF DdrInv, DdrTypeInv
<1>2. ~Scanning /\ ~Scanning' /\ Training /\ Training'
  BY <1>0 DEF Scanning, Training
<1>3. ChosenInv' /\ LaterInv'
  BY <1>0, <1>2, ChosenKept DEF DdrInv
<1>4. DelayInv'
  BY <1>0, <1>2 DEF DdrInv, DelayInv, Current, Path
<1>5. LaneInv'
  <2>1. lane = 0
    BY <1>0 DEF DdrInv, OutsideInv
  <2> QED BY <1>0, <1>2, <2>1 DEF LaneInv
<1>6. ScanInv' /\ OutsideInv' /\ ScanOkWorks'
  BY <1>0, <1>2 DEF ScanInv, OutsideInv, ScanOkWorks, Scanned
<1> QED BY <1>1, <1>3, <1>4, <1>5, <1>6 DEF DdrInv

LEMMA DdrStartLane ==
  ASSUME DdrAssumption, DdrInv, StartLane
  PROVE  DdrInv'
<1>0. /\ pc = "lane" /\ pc' = "write" /\ tested' = Mask /\ j' = 0 /\ first' = -1
      /\ shift' = (phase = "w") /\ dqin' = (phase # "w")
      /\ win' = win /\ delay' = delay /\ phase' = phase /\ lane' = lane /\ mid' = mid /\ err' = err
      /\ runs' = runs
  BY DEF StartLane, board
<1>1. DdrTypeInv'
  <2>1. Mask \subseteq Everything
    BY DEF Mask, Everything, DdrInv, DdrTypeInv, Edges, Phases
  <2>2. j' \in 0 .. Ui + ShiftLen + RdeSteps /\ first' \in -1 .. j'
    BY <1>0, DdrConstants
  <2>3. shift' \in BOOLEAN /\ dqin' \in BOOLEAN
    BY <1>0
  <2> QED BY <1>0, <2>1, <2>2, <2>3 DEF DdrInv, DdrTypeInv
<1>2. ~Scanning /\ Scanning' /\ Training /\ Training'
  BY <1>0 DEF Scanning, Training
<1>3. ChosenInv' /\ LaterInv'
  BY <1>0, <1>2, ChosenKept DEF DdrInv
<1>4. DelayInv'
  BY <1>0, <1>2 DEF DdrInv, DelayInv, Current, Path
<1>5. LaneInv'
  BY <1>0, <1>2 DEF DdrInv, LaneInv
<1>6. ScanInv'
  <2>1. Mask' = Mask /\ Steps' = Steps /\ 0 <= Steps
    BY <1>0, StepFacts DEF Mask, Steps, DdrInv
  <2>2. (phase' = "w" => shift') /\ (phase' # "w" => dqin')
    BY <1>0
  <2>3. ~(first' >= 0) /\ pc' = "write" /\ tested' = Mask' /\ j' <= Steps'
    BY <1>0, <2>1
  <2> QED BY <2>2, <2>3 DEF ScanInv
<1>7. OutsideInv' /\ ScanOkWorks'
  BY <1>0 DEF OutsideInv, ScanOkWorks, Scanned
<1> QED BY <1>1, <1>3, <1>4, <1>5, <1>6, <1>7 DEF DdrInv

\* Writing a step to the delay of the path makes it sample at that step, also where the
\* scan for writing goes on without the shift.
LEMMA DdrWriteStep ==
  ASSUME DdrAssumption, DdrInv, WriteStep
  PROVE  DdrInv'
<1> DEFINE late == phase = "w" /\ j >= Steps - ShiftLen
           d == IF late THEN 4 * (j - ShiftLen) ELSE 4 * j
<1>0. /\ pc = "write" /\ pc' = "test" /\ j < Steps
      /\ delay' = [delay EXCEPT ![Path] = d] /\ shift' = (IF late THEN FALSE ELSE shift)
      /\ win' = win /\ tested' = tested /\ dqin' = dqin /\ phase' = phase /\ lane' = lane
      /\ j' = j /\ first' = first /\ mid' = mid /\ err' = err /\ runs' = runs
  BY DEF WriteStep, board, Path
<1>c. DdrTypeInv /\ ScanInv /\ ChosenInv /\ LaterInv /\ DelayInv /\ LaneInv
  BY DEF DdrInv
<1>s. /\ Steps \in Nat /\ j \in Nat /\ Path \in Paths /\ Path[1] = phase
      /\ phase = "w" => Steps - ShiftLen = Ui
      /\ Ui \in Nat /\ ShiftLen \in Nat /\ ShiftLen < Ui
  BY <1>c, StepFacts, DdrConstants
<1>2. Scanning /\ Scanning' /\ Training /\ Training' /\ Path' = Path
  BY <1>0 DEF Scanning, Training, Path
<1>d. d \in Nat
  BY <1>s
<1>t. d + (IF phase = "w" THEN (IF shift' THEN 0 ELSE 4 * ShiftLen) ELSE (IF dqin THEN 0 ELSE Din)) = 4 * j
  <2>1. CASE late
    BY <2>1, <1>0, <1>s
  <2>2. CASE ~late /\ phase = "w"
    <3>1. shift
      BY <2>2, <1>s, <1>c, <1>2 DEF ScanInv
    <3> QED BY <3>1, <2>2, <1>0, <1>s
  <2>3. CASE phase # "w"
    <3>1. dqin
      BY <2>3, <1>c, <1>2 DEF ScanInv
    <3> QED BY <3>1, <2>3, <1>0, <1>s
  <2> QED BY <2>1, <2>2, <2>3
<1>u. phase = "w" /\ j < Ui => shift'
  BY <1>0, <1>2, <1>s, <1>c DEF ScanInv
<1>v. shift' \in BOOLEAN
  BY <1>0, <1>c DEF DdrTypeInv
<1> HIDE DEF d, late
<1>1. DdrTypeInv'
  BY <1>0, <1>c, <1>d, <1>v, <1>s DEF DdrTypeInv
<1>k. /\ delay'[Path] = d
      /\ \A p \in Paths : p # Path => delay'[p] = delay[p]
  BY <1>0, <1>c, <1>s DEF DdrTypeInv
<1>3. ChosenInv'
  <2>1. \A p \in Paths : Current(p)' = Current(p) /\ Asked(p)' = Asked(p) /\ Extra(p)' = Extra(p)
    BY <1>0, <1>2 DEF Current, Asked, Extra
  <2>2. Current(Path)
    BY <1>2, <1>s DEF Current
  <2>3. \A p \in Paths, a, b \in Nat : Chosen(p, a, b) => Chosen(p, a, b)'
    BY <1>0, <1>k, <2>1, <2>2 DEF Chosen
  <2> QED BY <1>0, <1>c, <2>3 DEF ChosenInv
<1>4. LaterInv'
  BY <1>0, <1>c DEF LaterInv
<1>5. DelayInv'
  BY <1>0, <1>2, <1>c, <1>k DEF DelayInv, Current
<1>6. LaneInv'
  BY <1>0, <1>2, <1>c DEF LaneInv
<1>7. ScanInv'
  <2>1. Mask' = Mask /\ Steps' = Steps
    BY <1>0 DEF Mask, Steps
  <2>2. Sample(Path)' = 4 * j
    BY <1>0, <1>2, <1>k, <1>s, <1>t DEF Sample
  <2>3. \A s \in first .. j - 1 : first >= 0 => s \in win[Path]
    BY <1>2, <1>c DEF ScanInv
  <2>4. ScanInv => (tested = Mask /\ j <= Steps /\ (phase # "w" => dqin) /\ (first >= 0 => first < j))
    BY <1>2 DEF ScanInv
  <2> QED BY <1>0, <1>2, <1>c, <1>u, <2>1, <2>2, <2>3, <2>4 DEF ScanInv
<1>8. OutsideInv' /\ ScanOkWorks'
  BY <1>0 DEF OutsideInv, ScanOkWorks, Scanned
<1> QED BY <1>1, <1>3, <1>4, <1>5, <1>6, <1>7, <1>8 DEF DdrInv

\* A test that passes puts the step into the window of the path; one that fails ends
\* the run or drops it.
LEMMA DdrTestStep ==
  ASSUME DdrAssumption, DdrInv, TestStep
  PROVE  DdrInv'
<1>0. /\ pc = "test" /\ pc' \in {"write", "judge"}
      /\ win' = win /\ delay' = delay /\ tested' = tested /\ shift' = shift /\ dqin' = dqin
      /\ phase' = phase /\ lane' = lane /\ mid' = mid /\ err' = err /\ runs' = runs
  BY DEF TestStep, board
<1>c. DdrTypeInv /\ ScanInv /\ ChosenInv /\ LaterInv /\ DelayInv /\ LaneInv
  BY DEF DdrInv
<1>2. Scanning /\ Scanning' /\ Training /\ Training' /\ Path' = Path
  BY <1>0 DEF Scanning, Training, Path
<1>s. /\ Steps \in Nat /\ Steps <= Ui + ShiftLen + RdeSteps /\ j \in Nat /\ j < Steps
      /\ first \in Int /\ first >= -1 /\ first <= j /\ Path \in Paths
      /\ Ui \in Nat /\ ShiftLen \in Nat /\ RdeSteps \in Nat
  BY <1>0, <1>2, <1>c, StepFacts, DdrConstants DEF ScanInv, DdrTypeInv
<1>m. Mask' = Mask /\ Steps' = Steps
  BY <1>0 DEF Mask, Steps
<1>i. /\ tested = Mask /\ (phase = "w" /\ j < Ui => shift) /\ (phase # "w" => dqin)
      /\ Sample(Path) = 4 * j
      /\ first >= 0 => first < j /\ \A s \in first .. j - 1 : s \in win[Path]
  BY <1>0, <1>2, <1>c DEF ScanInv
<1>1. DdrTypeInv' /\ ScanInv'
  <2>1. CASE Bist
    <3>1. Through(Path)
      <4>1. CASE phase = "w"
        <5>1. <<lane, "p">> \in tested /\ <<lane, "p">>[1] = lane
          BY <1>i, <4>1 DEF Mask, Edges
        <5> QED BY <2>1, <4>1, <5>1 DEF Bist, Path
      <4>2. CASE phase # "w"
        <5>1. <<lane, phase>> \in tested /\ <<lane, phase>>[1] = lane /\ <<lane, phase>>[2] = phase
          BY <1>i, <4>2 DEF Mask
        <5> QED BY <2>1, <5>1 DEF Bist, Path
      <4> QED BY <4>1, <4>2
    <3>2. j \in win[Path]
      BY <1>i, <1>s, <3>1, WholeStep
    <3>3. first' = (IF first < 0 THEN j ELSE first) /\ j' = j + 1 /\ pc' = "write"
      BY <2>1 DEF TestStep
    <3>4. first' \in Nat /\ first' < j' /\ \A s \in first' .. j' - 1 : s \in win[Path]
      BY <3>2, <3>3, <1>i, <1>s
    <3>5. DdrTypeInv'
      BY <3>3, <3>4, <1>0, <1>c, <1>s DEF DdrTypeInv
    <3>6. j' <= Steps' /\ (phase' = "w" /\ j' < Ui => shift')
      BY <3>3, <1>0, <1>s, <1>m, <1>i
    <3> QED BY <3>3, <3>4, <3>5, <3>6, <1>0, <1>2, <1>i, <1>m DEF ScanInv
  <2>2. CASE ~Bist /\ first >= 0 /\ Long
    <3>1. first' = first /\ j' = j /\ pc' = "judge"
      BY <2>2 DEF TestStep
    <3>2. DdrTypeInv'
      BY <3>1, <1>0, <1>c DEF DdrTypeInv
    <3>3. Long'
      BY <2>2, <3>1 DEF Long
    <3> QED BY <2>2, <3>1, <3>2, <3>3, <1>0, <1>2, <1>i, <1>m, <1>s DEF ScanInv
  <2>3. CASE ~Bist /\ ~(first >= 0 /\ Long)
    <3>1. first' = -1 /\ j' = j + 1 /\ pc' = "write"
      BY <2>3 DEF TestStep
    <3>2. DdrTypeInv'
      BY <3>1, <1>0, <1>c, <1>s DEF DdrTypeInv
    <3>3. ~(first' >= 0) /\ j' <= Steps' /\ (phase' = "w" /\ j' < Ui => shift')
      BY <3>1, <1>0, <1>s, <1>m, <1>i
    <3> QED BY <3>1, <3>2, <3>3, <1>0, <1>i, <1>m DEF ScanInv
  <2> QED BY <2>1, <2>2, <2>3
<1>3. ChosenInv' /\ LaterInv'
  BY <1>0, <1>2, <1>c, ChosenKept
<1>4. DelayInv'
  BY <1>0, <1>2, <1>c DEF DelayInv, Current
<1>5. LaneInv'
  BY <1>0, <1>2, <1>c DEF LaneInv
<1>6. OutsideInv' /\ ScanOkWorks'
  BY <1>0 DEF OutsideInv, ScanOkWorks, Scanned
<1> QED BY <1>1, <1>3, <1>4, <1>5, <1>6 DEF DdrInv

\* The middle of a run that ended a scan is a delay that an offset can reach: the run
\* is long, or it reaches the end of the scan.
LEMMA MiddleReached ==
  ASSUME DdrAssumption, DdrInv, pc = "judge" \/ (pc = "write" /\ j = Steps), ~Bad
  PROVE  /\ first \in Nat /\ Last \in Nat /\ first <= Last
         /\ 2 * (first + Last) - Extra(Path) \in 0 .. Count + OffLimit - 1
         /\ first .. Last \subseteq win[Path]
<1>c. DdrTypeInv /\ ScanInv /\ Scanning
  BY DEF DdrInv, Scanning
<1>s. /\ Steps \in Nat /\ j \in Nat /\ j <= Steps /\ first \in Int /\ first >= 0 /\ first < j
      /\ phase = "w" => Steps = Ui + ShiftLen
      /\ phase # "w" => Steps = RdeSteps
      /\ Path[1] = phase
      /\ \A s \in first .. j - 1 : s \in win[Path]
      /\ pc = "judge" => (j - 1) - first > MinRun
  BY <1>c, StepFacts DEF ScanInv, Bad, Long
<1>1. Last = j - 1
  BY DEF Last
<1>2. first \in Nat /\ Last \in Nat /\ first <= Last
  BY <1>s, <1>1
<1>3. first .. Last \subseteq win[Path]
  BY <1>s, <1>1
<1>4. CASE phase = "w"
  <2>1. Extra(Path) = 4 * ShiftLen
    BY <1>4, <1>s DEF Extra
  <2>2. first + Last >= 2 * ShiftLen
    BY <1>4, <1>s, <1>1, DdrConstants
  <2>3. first <= Ui + ShiftLen - 1 /\ Last <= Ui + ShiftLen - 1
    BY <1>4, <1>s, <1>1, DdrConstants
  <2>4. 2 * (first + Last) - 4 * ShiftLen <= 4 * (Ui - 1)
    BY <2>3, <1>2, DdrConstants
  <2> QED BY <2>1, <2>2, <2>4, <1>2, <1>3, DdrConstants
<1>5. CASE phase # "w"
  <2>1. Extra(Path) = Din
    BY <1>5, <1>s DEF Extra
  <2>2. Last >= MinRun
    BY <1>5, <1>2, DdrConstants DEF Bad
  <2>3. first <= RdeSteps - 1 /\ Last <= RdeSteps - 1
    BY <1>5, <1>s, <1>1, DdrConstants
  <2>4. 2 * (first + Last) - Din <= 4 * (RdeSteps - 1) - Din /\ 2 * (first + Last) >= Din
    BY <2>2, <2>3, <1>2, DdrConstants
  <2> QED BY <2>1, <2>4, <1>2, <1>3, DdrConstants
<1> QED BY <1>4, <1>5

\* The end of a lane puts the delay of the DLL back, and keeps the run it has found
\* with the middle to set.
LEMMA DdrEndLane ==
  ASSUME DdrAssumption, DdrInv, EndLane
  PROVE  DdrInv'
<1>0. /\ pc = "judge" \/ (pc = "write" /\ j = Steps)
      /\ delay' = [delay EXCEPT ![Path] = Count]
      /\ err' = Bad
      /\ win' = win /\ tested' = tested /\ shift' = shift /\ dqin' = dqin /\ phase' = phase
      /\ j' = j /\ first' = first
  BY DEF EndLane, board, Path, Reset
<1>c. DdrTypeInv /\ ScanInv /\ ChosenInv /\ LaterInv /\ DelayInv /\ LaneInv
  BY DEF DdrInv
<1>p. /\ IF Bad \/ lane = 1 THEN pc' = "end" /\ lane' = lane ELSE pc' = "lane" /\ lane' = 1
      /\ mid' = IF Bad THEN mid ELSE [mid EXCEPT ![lane] = Middle]
      /\ runs' = IF Bad THEN runs ELSE [runs EXCEPT ![Path] = first .. Last]
  BY DEF EndLane, Path
<1>q. pc' \in {"end", "lane"}
  BY <1>p
<1>2. Scanning /\ ~Scanning' /\ Training /\ Training'
  BY <1>0, <1>q DEF Scanning, Training
<1>s. /\ Path \in Paths /\ Path[1] = phase /\ Path[2] = lane /\ lane \in Lanes /\ phase \in Phases
      /\ Count \in Nat /\ Current(Path)
  BY <1>c, <1>2, StepFacts, DdrConstants DEF DdrTypeInv, Current
<1>k. /\ delay'[Path] = Count
      /\ \A p \in Paths : p # Path => delay'[p] = delay[p]
      /\ delay' \in [Paths -> Nat]
  BY <1>0, <1>c, <1>s DEF DdrTypeInv
<1>5. DelayInv'
  <2>1. \A p \in Paths : Current(p)' = Current(p)
    BY <1>0, <1>2 DEF Current
  <2>2. \A p \in Paths : p # Path /\ runs'[p] = {} => runs[p] = {}
    BY <1>p, <1>s, <1>c DEF DdrTypeInv
  <2>3. ASSUME NEW p \in Paths, runs'[p] = {} \/ Current(p)' PROVE delay'[p] = Count
    BY <2>1, <2>2, <2>3, <1>k, <1>c DEF DelayInv
  <2> QED BY <2>3 DEF DelayInv
<1>8. ScanInv' /\ OutsideInv' /\ ScanOkWorks'
  BY <1>2, <1>q DEF ScanInv, OutsideInv, ScanOkWorks, Scanned
<1>cur. \A p \in Paths : Current(p)' = Current(p) /\ Extra(p)' = Extra(p)
  BY <1>0, <1>2 DEF Current, Extra
<1>9. CASE Bad
  <2>0. pc' = "end" /\ lane' = lane /\ mid' = mid /\ runs' = runs /\ err' = TRUE
    BY <1>9, <1>p, <1>0
  <2>1. DdrTypeInv'
    BY <2>0, <1>0, <1>c, <1>k DEF DdrTypeInv
  <2>2. \A p \in Paths, a, b \in Nat : Chosen(p, a, b) => Chosen(p, a, b)'
    BY <2>0, <1>0, <1>k, <1>s, <1>cur DEF Chosen, Asked
  <2>3. ChosenInv' /\ LaterInv'
    BY <2>0, <2>2, <1>0, <1>c DEF ChosenInv, LaterInv
  <2>4. LaneInv'
    BY <2>0, <1>2 DEF LaneInv
  <2> QED BY <2>1, <2>3, <2>4, <1>5, <1>8 DEF DdrInv
<1>10. CASE ~Bad
  <2>0. /\ mid' = [mid EXCEPT ![lane] = Middle] /\ runs' = [runs EXCEPT ![Path] = first .. Last]
        /\ err' = FALSE
    BY <1>10, <1>p, <1>0
  <2>1. /\ first \in Nat /\ Last \in Nat /\ first <= Last
        /\ 2 * (first + Last) - Extra(Path) \in 0 .. Count + OffLimit - 1
        /\ first .. Last \subseteq win[Path]
    BY <1>0, <1>10, MiddleReached
  <2>2. /\ runs'[Path] = first .. Last /\ first .. Last # {} /\ first .. Last \subseteq Nat
        /\ \A p \in Paths : p # Path => runs'[p] = runs[p]
        /\ runs' \in [Paths -> SUBSET Nat]
    <3>1. first .. Last \subseteq Nat /\ first \in first .. Last
      BY <2>1
    <3> QED BY <2>0, <3>1, <1>s, <1>c DEF DdrTypeInv
  <2>3. Middle \in Int /\ ShiftLen \in Nat /\ Din \in Nat
    BY <2>1, DdrConstants DEF Middle
  <2>4. /\ mid'[lane] = Middle /\ \A l \in Lanes : l # lane => mid'[l] = mid[l]
        /\ mid' \in [Lanes -> Int]
    BY <2>0, <2>3, <1>s, <1>c DEF DdrTypeInv
  <2>5. DdrTypeInv'
    <3>1. lane' \in Lanes
      BY <1>p, <1>s DEF Lanes
    <3> QED BY <3>1, <2>0, <2>2, <2>4, <1>0, <1>q, <1>c, <1>k DEF DdrTypeInv
  <2>6. \A q \in Paths, a, b \in Nat :
          q = Path /\ a = first /\ b = Last => Chosen(q, a, b)'
    <3> SUFFICES ASSUME NEW q \in Paths, NEW a \in Nat, NEW b \in Nat,
                        q = Path, a = first, b = Last
                 PROVE  Chosen(q, a, b)'
      OBVIOUS
    <3>1. a <= b /\ runs'[q] = a .. b /\ runs'[q] \subseteq win'[q]
      BY <2>1, <2>2, <1>0
    <3>2. /\ Extra(q)' = Extra(Path) /\ q[1] = phase /\ q[2] = lane /\ Current(q)'
      BY <1>s, <1>cur DEF Current
    <3>3. CASE phase = "w"
      <4>1. Middle = 2 * (a + b) - 4 * ShiftLen /\ Extra(Path) = 4 * ShiftLen
        BY <3>3, <1>s DEF Middle, Extra
      <4>2. Asked(q)' = mid'[lane]
        BY <3>2, <3>3 DEF Asked
      <4> QED BY <3>1, <3>2, <4>1, <4>2, <2>1, <2>4 DEF Chosen
    <3>4. CASE phase # "w"
      <4>1. Middle = 2 * (a + b) /\ Extra(Path) = Din
        BY <3>4, <1>s, <2>1 DEF Middle, Extra
      <4>2. Asked(q)' = mid'[lane] - Din
        BY <3>2, <3>4 DEF Asked
      <4> QED BY <3>1, <3>2, <4>1, <4>2, <2>1, <2>4 DEF Chosen
    <3> QED BY <3>3, <3>4
  <2>7. \A p \in Paths, a, b \in Nat : p # Path /\ Chosen(p, a, b) => Chosen(p, a, b)'
    <3> SUFFICES ASSUME NEW p \in Paths, NEW a \in Nat, NEW b \in Nat, p # Path, Chosen(p, a, b)
                 PROVE  Chosen(p, a, b)'
      OBVIOUS
    <3>1. runs'[p] = runs[p] /\ delay'[p] = delay[p]
      BY <1>k, <2>2
    <3>2. Current(p) => Asked(p)' = Asked(p)
      <4>1. Current(p) => p[2] # lane /\ p[2] \in Lanes
        BY PathFacts DEF Current, Path
      <4> QED BY <4>1, <2>4 DEF Asked
    <3> QED BY <3>1, <3>2, <1>0, <1>cur DEF Chosen
  <2>8. ChosenInv'
    <3> SUFFICES ASSUME NEW p \in Paths, runs'[p] # {}
                 PROVE  \E a, b \in Nat : Chosen(p, a, b)'
      BY DEF ChosenInv
    <3>1. CASE p = Path
      BY <3>1, <2>1, <2>6
    <3>2. CASE p # Path
      BY <3>2, <2>2, <2>7, <1>c DEF ChosenInv
    <3> QED BY <3>1, <3>2
  <2>9. LaterInv'
    BY <2>2, <1>0, <1>c, <1>s DEF LaterInv
  <2>10. LaneInv'
    <3>1. CASE lane = 1
      <4>1. pc' = "end" /\ lane' = lane /\ runs[<<phase, 0>>] # {}
        BY <3>1, <1>p, <1>2, <1>c DEF LaneInv
      <4>2. <<phase, 0>> \in Paths /\ <<phase, 0>> # Path
        BY <3>1, <1>s, PathFacts DEF Path, Lanes
      <4>3. runs'[<<phase, 0>>] # {} /\ runs'[<<phase, 1>>] # {}
        BY <3>1, <4>1, <4>2, <2>2 DEF Path
      <4> QED BY <4>1, <4>3, <1>2, <1>0 DEF LaneInv, Lanes
    <3>2. CASE lane # 1
      <4>1. pc' = "lane" /\ lane = 0
        BY <3>2, <1>p, <1>10, <1>s DEF Lanes
      <4> QED BY <4>1, <2>2, <1>0 DEF LaneInv, Path
    <3> QED BY <3>1, <3>2
  <2> QED BY <2>5, <2>8, <2>9, <2>10, <1>5, <1>8 DEF DdrInv
<1> QED BY <1>9, <1>10

\* The end of a training sets the middles it was asked for, or, after a failure, leaves
\* what the DLL had.
LEMMA DdrEndTraining ==
  ASSUME DdrAssumption, DdrInv, EndTraining
  PROVE  DdrInv'
<1>0. /\ pc = "end" /\ tested' = Everything /\ ~shift' /\ ~dqin' /\ lane' = 0 /\ err' = FALSE
      /\ shift' \in BOOLEAN /\ dqin' \in BOOLEAN
      /\ win' = win /\ j' = j /\ first' = first /\ mid' = mid
  BY DEF EndTraining, board, Restored
<1>c. DdrTypeInv /\ ChosenInv /\ LaterInv /\ DelayInv /\ LaneInv
  BY DEF DdrInv
<1>d. /\ delay' = IF err THEN delay
                  ELSE [p \in Paths |-> IF p[1] = phase THEN Offset(Asked(p)) ELSE delay[p]]
      /\ runs' = IF err THEN [p \in Paths |-> IF p[1] = phase THEN {} ELSE runs[p]] ELSE runs
  BY DEF EndTraining, Trained, Asked
<1>p. IF phase = "n" THEN pc' = "last" /\ phase' = phase
      ELSE pc' = "lane" /\ phase' = (IF phase = "w" THEN "p" ELSE "n")
  BY DEF EndTraining
<1>q. pc' \in {"last", "lane"} /\ phase' \in Phases
  BY <1>p DEF Phases
<1>2. ~Scanning /\ ~Scanning' /\ Training
  BY <1>0, <1>q DEF Scanning, Training
<1>x. Count \in Nat /\ OffLimit \in Nat
  BY DdrConstants
\* The paths of the training that ends are no longer current, and the ones of the next
\* have chosen nothing.
<1>e. \A p \in Paths : /\ Extra(p)' = Extra(p) /\ Asked(p)' = Asked(p)
                       /\ Current(p) <=> p[1] = phase
                       /\ p[1] = phase => ~Current(p)'
                       /\ p[1] # phase /\ Current(p)' => runs[p] = {}
  BY <1>0, <1>2, <1>p, <1>c DEF Extra, Asked, Current, Training, LaterInv, DdrTypeInv, Phases
\* The delays.
<1>3. \A p \in Paths : p[1] # phase => delay'[p] = delay[p] /\ runs'[p] = runs[p]
  BY <1>d, <1>c DEF DdrTypeInv
<1>4. ASSUME err, NEW p \in Paths, p[1] = phase
      PROVE  delay'[p] = Count /\ runs'[p] = {}
  BY <1>4, <1>d, <1>e, <1>2, <1>c DEF DelayInv
<1>5. ASSUME ~err, NEW p \in Paths, p[1] = phase
      PROVE  /\ runs'[p] # {} /\ delay'[p] \in Nat
             /\ \E a, b \in Nat : Chosen(p, a, b)'
  <2>1. runs[p] # {}
    BY <1>5, <1>0, <1>c, PathFacts DEF LaneInv
  <2>2. PICK a \in Nat, b \in Nat : Chosen(p, a, b)
    BY <2>1, <1>c DEF ChosenInv
  <2>3. Asked(p) = 2 * (a + b) - Extra(p) /\ Asked(p) \in 0 .. Count + OffLimit - 1
    BY <2>2, <1>5, <1>e DEF Chosen
  <2>4. Offset(Asked(p)) = Asked(p)
    BY <2>3, OffsetReaches
  <2>5. delay'[p] = Asked(p) /\ runs' = runs
    BY <2>4, <1>5, <1>d
  <2>6. Chosen(p, a, b)'
    BY <2>2, <2>3, <2>5, <1>0, <1>e, <1>5 DEF Chosen
  <2>7. Asked(p) \in Nat
    BY <2>3, <1>x
  <2> QED BY <2>1, <2>5, <2>6, <2>7
<1>6. DdrTypeInv'
  <2>1. \A p \in Paths : delay'[p] \in Nat
    BY <1>3, <1>4, <1>5, <1>x, <1>c DEF DdrTypeInv
  <2>2. delay' \in [Paths -> Nat]
    <3>1. CASE err
      BY <3>1, <1>d, <1>c DEF DdrTypeInv
    <3>2. CASE ~err
      <4>1. delay' = [p \in Paths |-> delay'[p]]
        BY <3>2, <1>d
      <4> QED BY <2>1, <4>1
    <3> QED BY <3>1, <3>2
  <2>3. runs' \in [Paths -> SUBSET Nat]
    <3>1. CASE err
      BY <3>1, <1>d, <1>c DEF DdrTypeInv
    <3>2. CASE ~err
      BY <3>2, <1>d, <1>c DEF DdrTypeInv
    <3> QED BY <3>1, <3>2
  <2>4. lane' \in Lanes /\ pc' \in {"last", "lane"} /\ err' \in BOOLEAN
    BY <1>0, <1>q DEF Lanes
  <2> QED BY <2>2, <2>3, <2>4, <1>0, <1>q, <1>c DEF DdrTypeInv
<1>7. ChosenInv'
  <2> SUFFICES ASSUME NEW p \in Paths, runs'[p] # {}
               PROVE  \E a, b \in Nat : Chosen(p, a, b)'
    BY DEF ChosenInv
  <2>1. CASE p[1] = phase
    BY <2>1, <1>4, <1>5
  <2>2. CASE p[1] # phase
    <3>1. runs[p] # {}
      BY <2>2, <1>3
    <3>2. PICK a \in Nat, b \in Nat : Chosen(p, a, b)
      BY <3>1, <1>c DEF ChosenInv
    <3>3. Chosen(p, a, b)'
      BY <3>1, <3>2, <2>2, <1>0, <1>3, <1>e DEF Chosen
    <3> QED BY <3>3
  <2> QED BY <2>1, <2>2
<1>8. LaterInv'
  BY <1>3, <1>p, <1>c DEF LaterInv, DdrTypeInv, Phases
<1>9. DelayInv'
  <2> SUFFICES ASSUME NEW p \in Paths, runs'[p] = {} \/ Current(p)'
               PROVE  delay'[p] = Count
    BY DEF DelayInv
  <2>1. CASE p[1] = phase
    BY <2>1, <1>4, <1>5, <1>e
  <2>2. CASE p[1] # phase
    BY <2>2, <1>3, <1>e, <1>2, <1>c DEF DelayInv
  <2> QED BY <2>1, <2>2
<1>10. ScanInv' /\ LaneInv' /\ OutsideInv' /\ ScanOkWorks'
  BY <1>0, <1>2, <1>p, <1>q DEF ScanInv, LaneInv, OutsideInv, ScanOkWorks, Scanned
<1> QED BY <1>6, <1>7, <1>8, <1>9, <1>10 DEF DdrInv

\* The last test compares everything, so it passes only with all paths in their windows.
LEMMA DdrLastTest ==
  ASSUME DdrInv, LastTest
  PROVE  DdrInv'
<1>0. /\ pc = "last" /\ pc' = IF Bist THEN "ok" ELSE "fail"
      /\ win' = win /\ delay' = delay /\ tested' = tested /\ shift' = shift /\ dqin' = dqin
      /\ phase' = phase /\ lane' = lane /\ j' = j /\ first' = first /\ mid' = mid /\ err' = err
      /\ runs' = runs
  BY DEF LastTest, board
<1>q. pc' \in {"ok", "fail"}
  BY <1>0
<1>1. DdrTypeInv'
  BY <1>0, <1>q DEF DdrInv, DdrTypeInv
<1>2. ~Scanning /\ ~Scanning' /\ Training' = Training /\ ~Training'
  BY <1>0, <1>q DEF Scanning, Training
<1>3. ChosenInv' /\ LaterInv'
  BY <1>0, <1>2, ChosenKept DEF DdrInv
<1>4. DelayInv'
  BY <1>0, <1>2 DEF DdrInv, DelayInv, Current
<1>5. LaneInv' /\ ScanInv'
  BY <1>2, <1>q DEF LaneInv, ScanInv
<1>6. OutsideInv'
  BY <1>0, <1>q DEF DdrInv, OutsideInv
<1>7. ScanOkWorks'
  <2>1. \A p : Through(p)' = Through(p)
    BY <1>0 DEF Through, Sample
  <2>2. Bist /\ tested = Everything => \A p \in Paths : Through(p)
    <3> SUFFICES ASSUME Bist, tested = Everything, NEW p \in Paths PROVE Through(p)
      OBVIOUS
    <3>1. p[1] \in Phases /\ p[2] \in Lanes /\ p = <<p[1], p[2]>>
      BY PathFacts
    <3>2. CASE p[1] = "w"
      <4>1. <<p[2], "p">> \in tested /\ <<p[2], "p">>[1] = p[2]
        BY <3>1 DEF Everything, Edges
      <4> QED BY <3>1, <3>2, <4>1 DEF Bist
    <3>3. CASE p[1] # "w"
      <4>1. <<p[2], p[1]>> \in tested /\ <<p[2], p[1]>>[1] = p[2] /\ <<p[2], p[1]>>[2] = p[1]
        BY <3>1, <3>3 DEF Everything, Edges, Phases
      <4> QED BY <3>1, <4>1 DEF Bist
    <3> QED BY <3>2, <3>3
  <2> QED BY <1>0, <2>1, <2>2 DEF ScanOkWorks, Scanned, DdrInv, OutsideInv
<1> QED BY <1>1, <1>3, <1>4, <1>5, <1>6, <1>7 DEF DdrInv

LEMMA DdrStep == DdrAssumption /\ DdrInv /\ [Next]_vars => DdrInv'
<1> SUFFICES ASSUME DdrAssumption, DdrInv, [Next]_vars PROVE DdrInv'
  OBVIOUS
<1>1. CASE UNCHANGED vars
  <2>1. /\ win' = win /\ delay' = delay /\ tested' = tested /\ shift' = shift /\ dqin' = dqin
        /\ phase' = phase /\ lane' = lane /\ j' = j /\ first' = first /\ mid' = mid
        /\ err' = err /\ runs' = runs /\ pc' = pc
    BY <1>1 DEF vars
  <2>2. /\ Scanning' = Scanning /\ Training' = Training /\ Path' = Path /\ Mask' = Mask
        /\ Steps' = Steps /\ Long' = Long
    BY <2>1 DEF Scanning, Training, Path, Mask, Steps, Long
  <2>3. \A p : Sample(p)' = Sample(p) /\ Through(p)' = Through(p) /\ Current(p)' = Current(p)
    BY <2>1, <2>2 DEF Sample, Through, Current
  <2>4. DdrTypeInv' /\ LaneInv' /\ OutsideInv'
    BY <2>1, <2>2 DEF DdrInv, DdrTypeInv, LaneInv, OutsideInv, Scanned
  <2>5. ChosenInv' /\ LaterInv'
    BY <2>1, <2>2, ChosenKept DEF DdrInv
  <2>6. ScanInv'
    BY <2>1, <2>2, <2>3 DEF DdrInv, ScanInv
  <2>7. DelayInv' /\ ScanOkWorks'
    BY <2>1, <2>2, <2>3 DEF DdrInv, DelayInv, ScanOkWorks, Scanned
  <2> QED BY <2>4, <2>5, <2>6, <2>7 DEF DdrInv
<1>2. CASE Next
  BY <1>1, <1>2, DdrFirstTest, DdrStartLane, DdrWriteStep, DdrTestStep, DdrEndLane,
     DdrEndTraining, DdrLastTest DEF Next, Rest
<1> QED BY <1>1, <1>2

LEMMA DdrAlways == DdrAssumption => (Spec => []DdrInv)
<1> SUFFICES ASSUME DdrAssumption PROVE Spec => []DdrInv
  OBVIOUS
<1>1. Init => DdrInv
  BY DdrStarts
<1>2. DdrInv /\ [Next]_vars => DdrInv'
  BY DdrStep
<1> QED BY <1>1, <1>2, PTL DEF Spec

-----------------------------------------------------------------------------
(* What the invariant says.                                                *)

LEMMA DdrTypeFromInv == DdrAssumption /\ DdrInv => TypeOK
<1> SUFFICES ASSUME DdrAssumption, DdrInv PROVE TypeOK
  OBVIOUS
<1>1. DdrTypeInv
  BY DEF DdrInv
<1>2. ASSUME NEW l \in Lanes, pc = "end", ~err
      PROVE  (IF phase = "w" THEN mid[l] ELSE mid[l] - Din) - Count \in 1 - OffLimit .. OffLimit - 1
  <2> DEFINE p == <<phase, l>>
  <2>1. p \in Paths /\ p[1] = phase /\ p[2] = l
    BY <1>1, PathFacts DEF DdrTypeInv
  <2>2. runs[p] # {} /\ Current(p)
    BY <1>2, <2>1 DEF DdrInv, LaneInv, Current, Training
  <2> HIDE DEF p
  <2>3. Asked(p) \in 0 .. Count + OffLimit - 1
    BY <2>1, <2>2 DEF DdrInv, ChosenInv, Chosen
  <2>4. Asked(p) = IF phase = "w" THEN mid[l] ELSE mid[l] - Din
    BY <2>1 DEF Asked
  <2>5. Asked(p) - Count \in 1 - OffLimit .. OffLimit - 1
    BY <2>3, DdrConstants
  <2> QED BY <2>4, <2>5
<1> QED BY <1>1, <1>2 DEF DdrTypeInv, TypeOK

\* As many steps of a run lie below its middle as above it.
LEMMA SameHalves ==
  ASSUME NEW a \in Nat, NEW b \in Nat
  PROVE  Cardinality({ s \in a .. b : 4 * s < 2 * (a + b) }) = Cardinality({ s \in a .. b : 4 * s > 2 * (a + b) })
<1> DEFINE S == { s \in a .. b : 4 * s < 2 * (a + b) }
           T == { s \in a .. b : 4 * s > 2 * (a + b) }
           f == [s \in S |-> (a + b) - s]
<1>1. IsFiniteSet(a .. b)
  BY FS_Interval
<1>2. IsFiniteSet(S)
  BY <1>1, FS_Subset
<1>3. f \in [S -> T]
  OBVIOUS
<1>4. \A x, y \in S : f[x] = f[y] => x = y
  OBVIOUS
<1>5. \A t \in T : \E s \in S : f[s] = t
  <2> TAKE t \in T
  <2>1. (a + b) - t \in S /\ f[(a + b) - t] = t
    OBVIOUS
  <2> QED BY <2>1
<1> HIDE DEF S, T, f
<1>6. f \in Bijection(S, T)
  BY <1>3, <1>4, <1>5, Fun_IsBij
<1>7. ExistsBijection(S, T)
  BY <1>6 DEF ExistsBijection
<1>8. Cardinality(T) = Cardinality(S)
  BY <1>2, <1>7, FS_Bijection
<1> QED BY <1>8 DEF S, T

LEMMA DdrMiddleFromInv == DdrAssumption /\ DdrInv => InTheMiddle
<1> SUFFICES ASSUME DdrAssumption, DdrInv, pc \in {"last", "ok", "fail"}, NEW p \in Paths, runs[p] # {}
             PROVE  /\ runs[p] \subseteq win[p]
                    /\ Cardinality({ s \in runs[p] : 4 * s < Sample(p) })
                       = Cardinality({ s \in runs[p] : 4 * s > Sample(p) })
  BY DEF InTheMiddle
<1>1. PICK a \in Nat, b \in Nat : Chosen(p, a, b)
  BY DEF DdrInv, ChosenInv
<1>2. ~Current(p) /\ ~shift /\ ~dqin
  BY DEF DdrInv, OutsideInv, Current, Training
<1>3. delay[p] = 2 * (a + b) - Extra(p) /\ runs[p] = a .. b /\ runs[p] \subseteq win[p]
  BY <1>1, <1>2 DEF Chosen
<1>4. Sample(p) = delay[p] + Extra(p)
  BY <1>2 DEF Sample, Extra
<1>5. Extra(p) \in Nat
  BY DdrConstants DEF Extra
<1>6. Sample(p) = 2 * (a + b)
  BY <1>3, <1>4, <1>5
<1> QED BY <1>3, <1>6, SameHalves

LEMMA DdrKeepsFromInv == DdrInv => FailureKeeps
  BY DEF DdrInv, FailureKeeps, OutsideInv, DelayInv, Scanning

\* Every delay that ddr_scan_online computes can be reached with an offset of the
\* register, whatever the windows of the board are, so that the offset never wraps.
THEOREM DdrTypeCorrect == DdrAssumption => (Spec => []TypeOK)
<1> SUFFICES ASSUME DdrAssumption PROVE Spec => []TypeOK
  OBVIOUS
<1>1. DdrInv => TypeOK
  BY DdrTypeFromInv
<1> QED BY <1>1, DdrAlways, PTL

\* A boot in which ddr_scan_online ran reports the memory as working only with all paths in
\* their windows, although the failure of a training is not reported; a boot that skipped
\* the scan reports it with the delays of the DLL.
THEOREM DdrScanOkMeansWorking == DdrAssumption => (Spec => []ScanOkWorks)
<1> SUFFICES ASSUME DdrAssumption PROVE Spec => []ScanOkWorks
  OBVIOUS
<1>1. DdrInv => ScanOkWorks
  BY DEF DdrInv
<1> QED BY <1>1, DdrAlways, PTL

\* A path that was trained samples in the middle of a run that passed from end to end.
THEOREM DdrSamplesMiddle == DdrAssumption => (Spec => []InTheMiddle)
<1> SUFFICES ASSUME DdrAssumption PROVE Spec => []InTheMiddle
  OBVIOUS
<1>1. DdrInv => InTheMiddle
  BY DdrMiddleFromInv
<1> QED BY <1>1, DdrAlways, PTL

\* A training that fails leaves both lanes as the DLL had them, and no shift stays on.
THEOREM DdrFailureHarmless == DdrAssumption => (Spec => []FailureKeeps)
<1> SUFFICES ASSUME DdrAssumption PROVE Spec => []FailureKeeps
  OBVIOUS
<1>1. DdrInv => FailureKeeps
  BY DdrKeepsFromInv
<1> QED BY <1>1, DdrAlways, PTL

-----------------------------------------------------------------------------
(* usb_recv_buf and the DMA transfers.                                     *)

CONSTANTS BufSize, PacketSize, Sessions, MaxRetries
VARIABLES msgs, m, left, retries, sent, count, done, mem, idx, len, out, owed

Dma == INSTANCE T117Usb

Lesser(a, b) == IF a < b THEN a ELSE b

\* Bytes of a message of size n that the first k packets have.
Cut(k, n) == Lesser(k * PacketSize, n)

LEMMA DmaConstants ==
  ASSUME Dma!DmaAssumption
  PROVE  /\ PacketSize \in Nat \ {0} /\ BufSize \in Nat \ {0} /\ MaxRetries \in Nat
         /\ BufSize % PacketSize = 0
  BY DEF Dma!DmaAssumption

\* Multiples of a size.
LEMMA Multiples ==
  ASSUME NEW P \in Nat \ {0}
  PROVE  /\ \A a \in Nat : a * P \in Nat /\ (a + 1) * P = a * P + P /\ (a * P) % P = 0
         /\ \A a, b \in Nat : a <= b => a * P <= b * P
         /\ \A a, b \in Nat : a * P <= b * P => a <= b
         /\ \A a \in Nat : a % P = 0 => \E q \in Nat : a = q * P
<1>1. \A a \in Nat : a * P \in Nat /\ (a + 1) * P = a * P + P /\ (a * P) % P = 0
  OBVIOUS
<1>2. ASSUME NEW a \in Nat, NEW b \in Nat, a <= b PROVE a * P <= b * P
  <2>1. b - a \in Nat /\ (b - a) * P \in Nat
    BY <1>2, <1>1
  <2>2. b * P = a * P + (b - a) * P
    OBVIOUS
  <2> QED BY <2>1, <2>2, <1>1
<1>3. ASSUME NEW a \in Nat, NEW b \in Nat, a * P <= b * P PROVE a <= b
  <2> SUFFICES ASSUME b + 1 <= a PROVE FALSE
    OBVIOUS
  <2>1. (b + 1) * P <= a * P
    BY <1>2
  <2> QED BY <1>1, <1>3, <2>1
<1>4. ASSUME NEW a \in Nat, a % P = 0 PROVE \E q \in Nat : a = q * P
  <2>1. a \div P \in Nat /\ a = P * (a \div P) + (a % P)
    OBVIOUS
  <2> QED BY <2>1, <1>4
<1> QED BY <1>1, <1>2, <1>3, <1>4

\* The number of packets of a message, or of slots of a command.
LEMMA Rounded ==
  ASSUME NEW P \in Nat \ {0}, NEW L \in Nat \ {0}, NEW n, n = (L + P - 1) \div P
  PROVE  /\ n \in Nat \ {0} /\ (n - 1) * P < L /\ L <= n * P /\ n * P = (n - 1) * P + P
         /\ L % P = 0 <=> L = n * P
<1>1. n \in Nat /\ n * P <= L + P - 1 /\ L + P - 1 < n * P + P
  OBVIOUS
<1>2. n # 0
  BY <1>1
<1>3. n - 1 \in Nat /\ n * P = (n - 1) * P + P /\ n * P \in Nat /\ (n - 1) * P \in Nat
  <2>1. n - 1 \in Nat
    BY <1>1, <1>2
  <2>2. ((n - 1) + 1) * P = (n - 1) * P + P /\ (n - 1) * P \in Nat /\ n * P \in Nat
    BY <2>1, <1>1, Multiples
  <2> QED BY <2>1, <2>2
<1>4. (n - 1) * P < L /\ L <= n * P
  BY <1>1, <1>3
<1>5. ASSUME L % P = 0 PROVE L = n * P
  <2>1. PICK q \in Nat : L = q * P
    BY <1>5, Multiples
  <2>0. \A a, b \in Nat : (a <= b => a * P <= b * P) /\ a * P \in Nat /\ (a + 1) * P = a * P + P
    BY Multiples, Zenon
  <2>2. q <= n
    <3>0. n \in Nat
      BY <1>1, Zenon
    <3>1. n + 1 \in Nat /\ n \in Nat
      BY ONLY <3>0
    <3>2. ASSUME n + 1 <= q PROVE FALSE
      <4>1. (n + 1) * P <= q * P /\ (n + 1) * P = n * P + P /\ n * P \in Nat /\ q * P \in Nat
        BY ONLY <2>0, <3>1, <3>2, q \in Nat, Zenon
      <4> QED BY ONLY <2>1, <1>1, <4>1, P \in Nat, L \in Nat
    <3>3. \A x, y \in Nat : x <= y \/ y + 1 <= x
      OBVIOUS
    <3> QED BY ONLY <3>0, <3>2, <3>3, q \in Nat, Zenon
  <2>3. ~(q <= n - 1)
    <3> SUFFICES ASSUME q <= n - 1 PROVE FALSE
      OBVIOUS
    <3>1. q * P <= (n - 1) * P /\ q * P \in Nat
      BY ONLY <2>0, <1>3, q <= n - 1, q \in Nat, Zenon
    <3> QED BY ONLY <2>1, <1>3, <1>4, <3>1, L \in Nat
  <2>4. q = n
    BY ONLY <2>2, <2>3, <1>1, q \in Nat
  <2> QED BY <2>1, <2>4
<1>6. ASSUME L = n * P PROVE L % P = 0
  <2>1. (n * P) % P = 0
    <3>1. n \in Nat
      BY <1>1, Zenon
    <3> QED BY ONLY <3>1, P \in Nat \ {0}, Multiples, Zenon
  <2> QED BY <1>6, <2>1
<1> QED BY <1>1, <1>2, <1>3, <1>4, <1>5, <1>6

\* A transfer that is not complete has room for another packet.
LEMMA RoomForPacket ==
  ASSUME NEW P \in Nat \ {0}, NEW c \in Nat, NEW b \in Nat, c % P = 0, b % P = 0, c < b
  PROVE  c + P <= b
<1>1. PICK q \in Nat : c = q * P
  BY Multiples
<1>2. PICK r \in Nat : b = r * P
  BY Multiples
<1>3. ~(r <= q)
  BY <1>1, <1>2, Multiples
<1>4. (q + 1) * P <= r * P /\ (q + 1) * P = q * P + P
  BY <1>3, Multiples
<1> QED BY <1>1, <1>2, <1>4

\* Packets cut a message into pieces, all but the last one full, and on a high-speed
\* bus the last one is short.
PacketsRight(ps, b, L) ==
  /\ \A k \in 0 .. Len(ps) : Cut(k, L) \in 0 .. L /\ (k > 0 => Cut(k, L) > 0)
  /\ \A k \in 0 .. Len(ps) - 1 :
       /\ Len(ps[k + 1]) <= PacketSize
       /\ Cut(k + 1, L) = Cut(k, L) + Len(ps[k + 1])
       /\ \A i \in 1 .. Len(ps[k + 1]) : ps[k + 1][i] = b[Cut(k, L) + i]
       /\ k + 1 < Len(ps) => Len(ps[k + 1]) = PacketSize
       /\ high /\ k + 1 = Len(ps) => Len(ps[k + 1]) < PacketSize
       /\ Len(ps[k + 1]) = 0 => high /\ k > 0

\* The packets of a message.
LEMMA PacketFacts ==
  ASSUME Dma!DmaAssumption, high \in BOOLEAN,
         NEW L \in 1 .. BufSize - 1, NEW b \in Seq(Int), Len(b) = L
  PROVE  /\ Dma!Packets(b) \in Seq(Seq(Int)) /\ Len(Dma!Packets(b)) \in Nat \ {0}
         /\ Cut(0, L) = 0 /\ Cut(Len(Dma!Packets(b)), L) = L
         /\ PacketsRight(Dma!Packets(b), b, L)
<1> DEFINE P == PacketSize
           n == (L + P - 1) \div P
           at(k) == SubSeq(b, (k - 1) * P + 1, IF k = n THEN L ELSE k * P)
           full == [k \in 1 .. n |-> at(k)]
           e == IF high /\ L % P = 0 THEN <<<<>>>> ELSE <<>>
           ps == Dma!Packets(b)
<1>1. P \in Nat \ {0} /\ L \in Nat \ {0}
  BY DmaConstants
<1>2. /\ n \in Nat \ {0} /\ (n - 1) * P < L /\ L <= n * P /\ n * P = (n - 1) * P + P
      /\ L % P = 0 <=> L = n * P
  BY <1>1, Rounded
<1>3. ps = full \o e
  BY DEF Dma!Packets, Dma!NeedsEmpty
<1> HIDE DEF n, ps, P
<1>4. ASSUME NEW k \in 1 .. n
      PROVE  /\ at(k) \in Seq(Int)
             /\ k < n => Len(at(k)) = P /\ k * P < L
             /\ k = n => Len(at(k)) = L - (n - 1) * P
             /\ \A i \in 1 .. Len(at(k)) : at(k)[i] = b[(k - 1) * P + i]
             /\ (k - 1) * P \in Nat /\ (k - 1) * P < L /\ k * P = (k - 1) * P + P
  <2> DEFINE from == (k - 1) * P + 1
             to == IF k = n THEN L ELSE k * P
  <2>1. k - 1 \in Nat /\ n - 1 \in Nat /\ k \in Nat /\ k - 1 <= n - 1 /\ (k < n => k <= n - 1)
    BY <1>2
  <2>2. (k - 1) * P \in Nat /\ ((k - 1) + 1) * P = (k - 1) * P + P /\ k * P \in Nat
    BY <2>1, <1>1, Multiples
  <2>3. (k - 1) * P <= (n - 1) * P /\ (k < n => k * P <= (n - 1) * P)
    BY <2>1, <1>1, Multiples
  <2>4. (n - 1) * P \in Nat /\ k * P = (k - 1) * P + P /\ (k - 1) * P < L /\ (k < n => k * P < L)
    <3>1. (n - 1) * P \in Nat
      BY <2>1, <1>1, Multiples
    <3>2. (k - 1) + 1 = k
      BY <2>1
    <3> QED BY <3>1, <3>2, <2>2, <2>3, <1>1, <1>2
  <2>5. from \in 1 .. L /\ to \in from .. L /\ (k < n => to = k * P) /\ (k = n => to = L)
    BY <2>2, <2>4, <1>1, <1>2
  <2> HIDE DEF from, to
  <2>6. from \in Int /\ to \in Int /\ from <= to /\ \A i \in from .. to : b[i] \in Int
    BY <2>5, <1>1, LenProperties
  <2>7. /\ SubSeq(b, from, to) \in Seq(Int) /\ Len(SubSeq(b, from, to)) = to - from + 1
        /\ \A i \in 1 .. to - from + 1 : SubSeq(b, from, to)[i] = b[from + i - 1]
    <3>1. /\ SubSeq(b, from, to) \in Seq(Int)
          /\ Len(SubSeq(b, from, to)) = IF from <= to THEN to - from + 1 ELSE 0
          /\ \A i \in 1 .. to - from + 1 : SubSeq(b, from, to)[i] = b[from + i - 1]
      BY <2>6, SubSeqProperties
    <3> QED BY <3>1, <2>6
  <2>8. at(k) = SubSeq(b, from, to)
    BY DEF from, to
  <2>x. PICK x \in Nat : x = (k - 1) * P
    BY <2>2
  <2>y. from = x + 1 /\ k * P = x + P /\ (k = n => (n - 1) * P = x)
    BY <2>x, <2>4 DEF from
  <2> HIDE DEF at
  <2>9. (k < n => Len(at(k)) = P) /\ (k = n => Len(at(k)) = L - (n - 1) * P)
    <3>1. Len(at(k)) = to - (x + 1) + 1
      BY <2>7, <2>8, <2>y
    <3>2. CASE k < n
      BY <3>1, <3>2, <2>5, <2>y, <1>1, <1>2
    <3>3. CASE k = n
      <4>1. to = L /\ (n - 1) * P = x
        BY <3>3, <2>5, <2>y
      <4>2. Len(at(k)) = L - x
        BY <3>1, <4>1, <1>1
      <4> QED BY <3>3, <4>1, <4>2
    <3> QED BY <3>2, <3>3, <1>2
  <2>10. \A i \in 1 .. Len(at(k)) : at(k)[i] = b[(k - 1) * P + i]
    <3>1. \A i \in 1 .. Len(at(k)) : at(k)[i] = b[(x + 1) + i - 1]
      BY <2>7, <2>8, <2>y
    <3>2. \A i \in Int : (x + 1) + i - 1 = x + i
      OBVIOUS
    <3>3. Len(at(k)) \in Nat
      BY <2>7, <2>8, LenProperties
    <3>4. ASSUME NEW i \in 1 .. Len(at(k)) PROVE at(k)[i] = b[x + i]
      <4>1. i \in Int /\ (x + 1) + i - 1 = x + i
        BY <3>3
      <4> QED BY <3>1, <4>1
    <3> QED BY <3>4, <2>x
  <2> QED BY <2>2, <2>4, <2>7, <2>8, <2>9, <2>10
<1> HIDE DEF at
<1>5. full \in Seq(Seq(Int)) /\ Len(full) = n /\ \A k \in 1 .. n : full[k] = at(k)
  <2>1. full \in [1 .. n -> Seq(Int)]
    BY <1>4
  <2>2. full \in Seq(Seq(Int))
    BY <2>1, <1>2, SeqDef
  <2>3. DOMAIN full = 1 .. n
    OBVIOUS
  <2>4. Len(full) = n
    BY <2>2, <2>3, <1>2, LenProperties
  <2> QED BY <2>2, <2>4
<1>6. /\ high /\ L % P = 0 => e = <<<<>>>> /\ Len(e) = 1 /\ e[1] = <<>>
      /\ ~(high /\ L % P = 0) => e = <<>> /\ Len(e) = 0
      /\ e \in Seq(Seq(Int)) /\ Len(e) \in {0, 1}
  BY EmptySeq
<1> HIDE DEF full, e
<1>7. /\ ps \in Seq(Seq(Int)) /\ Len(ps) = n + Len(e)
      /\ \A i \in 1 .. n + Len(e) : ps[i] = IF i <= n THEN full[i] ELSE e[i - n]
  <2>1. /\ full \o e \in Seq(Seq(Int)) /\ Len(full \o e) = Len(full) + Len(e)
        /\ \A i \in 1 .. Len(full) + Len(e) :
             (full \o e)[i] = IF i <= Len(full) THEN full[i] ELSE e[i - Len(full)]
    <3>1. full \in Seq(Seq(Int)) /\ e \in Seq(Seq(Int))
      BY <1>5, <1>6
    <3> HIDE DEF full, e
    <3> QED BY <3>1, ConcatProperties
  <2> QED BY <2>1, <1>3, <1>5
<1>8. \A k \in 1 .. n : ps[k] = at(k)
  BY <1>2, <1>5, <1>6, <1>7
<1>9. ASSUME high /\ L % P = 0 PROVE Len(ps) = n + 1 /\ ps[n + 1] = <<>>
  <2>1. Len(e) = 1 /\ e[1] = <<>> /\ Len(ps) = n + 1
    BY <1>9, <1>2, <1>6, <1>7
  <2>2. n + 1 \in 1 .. n + Len(e) /\ ~(n + 1 <= n) /\ (n + 1) - n = 1
    BY <2>1, <1>2
  <2>3. ps[n + 1] = IF n + 1 <= n THEN full[n + 1] ELSE e[(n + 1) - n]
    BY <2>2, <1>7
  <2> QED BY <2>1, <2>2, <2>3
<1>10. ~(high /\ L % P = 0) => Len(ps) = n
  BY <1>2, <1>6, <1>7
\* The bytes in front of a packet.
<1>11. /\ \A k \in 0 .. n - 1 : Cut(k, L) = k * P /\ k * P \in Nat /\ k * P < L
       /\ \A k \in Nat : k >= n => Cut(k, L) = L
  <2>1. ASSUME NEW k \in 0 .. n - 1 PROVE Cut(k, L) = k * P /\ k * P \in Nat /\ k * P < L
    <3>1. k + 1 \in 1 .. n /\ (k + 1) - 1 = k
      BY <1>2
    <3>2. k * P \in Nat /\ k * P < L
      BY <3>1, <1>4
    <3> QED BY <3>2 DEF Cut, Lesser, P
  <2>2. ASSUME NEW k \in Nat, k >= n PROVE Cut(k, L) = L
    <3>1. n * P <= k * P /\ k * P \in Nat /\ n * P \in Nat
      BY <2>2, <1>1, <1>2, Multiples
    <3> QED BY <3>1, <1>1, <1>2 DEF Cut, Lesser, P
  <2> QED BY <2>1, <2>2
<1>12. Cut(0, L) = 0 /\ Cut(Len(ps), L) = L
  <2>1. 0 \in 0 .. n - 1 /\ 0 * P = 0
    BY <1>1, <1>2
  <2>2. Len(ps) \in Nat /\ Len(ps) >= n
    BY <1>2, <1>6, <1>7
  <2> QED BY <2>1, <2>2, <1>11
<1>13. ASSUME NEW k \in 0 .. Len(ps) PROVE Cut(k, L) \in 0 .. L /\ (k > 0 => Cut(k, L) > 0)
  <2>1. CASE k < n
    <3>1. k \in 0 .. n - 1
      BY <2>1, <1>2, <1>6, <1>7
    <3>2. k > 0 => k * P > 0
      <4> SUFFICES ASSUME k > 0 PROVE k * P > 0
        OBVIOUS
      <4>1. k - 1 \in Nat /\ (k - 1) + 1 = k
        BY <3>1, <1>2
      <4>2. ((k - 1) + 1) * P = (k - 1) * P + P /\ (k - 1) * P \in Nat
        BY <4>1, <1>1, Multiples
      <4> QED BY <4>1, <4>2, <1>1
    <3> QED BY <3>1, <3>2, <1>11, <1>1
  <2>2. CASE ~(k < n)
    <3>1. k \in Nat /\ k >= n
      BY <2>2, <1>2, <1>6, <1>7
    <3> QED BY <3>1, <1>11, <1>1
  <2> QED BY <2>1, <2>2
<1>14. ASSUME NEW k \in 0 .. Len(ps) - 1
       PROVE  /\ Len(ps[k + 1]) <= P
              /\ Cut(k + 1, L) = Cut(k, L) + Len(ps[k + 1])
              /\ \A i \in 1 .. Len(ps[k + 1]) : ps[k + 1][i] = b[Cut(k, L) + i]
              /\ k + 1 < Len(ps) => Len(ps[k + 1]) = P
              /\ high /\ k + 1 = Len(ps) => Len(ps[k + 1]) < P
              /\ Len(ps[k + 1]) = 0 => high /\ k > 0
  <2>0. k \in Nat /\ Len(ps) \in Nat
    BY <1>2, <1>6, <1>7
  <2>1. CASE k + 1 < n
    <3>1. k \in 0 .. n - 1 /\ k + 1 \in 0 .. n - 1 /\ k + 1 \in 1 .. n /\ (k + 1) - 1 = k
      BY <2>0, <2>1, <1>2
    <3>2. ps[k + 1] = at(k + 1) /\ Len(at(k + 1)) = P /\ (k + 1) * P = k * P + P
      BY <3>1, <2>1, <1>4, <1>8
    <3>3. \A i \in 1 .. Len(at(k + 1)) : at(k + 1)[i] = b[k * P + i]
      BY <3>1, <1>4
    <3>4. Cut(k, L) = k * P /\ Cut(k + 1, L) = (k + 1) * P
      BY <3>1, <1>11
    <3>5. k + 1 # Len(ps)
      BY <2>0, <2>1, <1>2, <1>6, <1>7
    <3> QED BY <3>2, <3>3, <3>4, <3>5, <1>1
  <2>2. CASE k + 1 = n
    <3>1. k \in 0 .. n - 1 /\ n \in 1 .. n /\ n - 1 = k
      BY <2>0, <2>2, <1>2
    <3>2. ps[n] = at(n) /\ Len(at(n)) = L - (n - 1) * P
      BY <3>1, <1>4, <1>8
    <3>3. \A i \in 1 .. Len(at(n)) : at(n)[i] = b[(n - 1) * P + i]
      BY <3>1, <1>4
    <3>4. Cut(k, L) = k * P /\ Cut(n, L) = L /\ k * P \in Nat
      BY <3>1, <1>2, <1>11
    <3>5. Len(at(n)) <= P /\ Len(at(n)) > 0
      BY <3>1, <3>2, <3>4, <1>1, <1>2
    <3>6. n < Len(ps) => Len(at(n)) = P
      <4> SUFFICES ASSUME n < Len(ps) PROVE Len(at(n)) = P
        OBVIOUS
      <4>1. L = n * P
        BY <1>2, <1>10
      <4> QED BY <4>1, <3>2, <3>4, <3>1, <1>1, <1>2
    <3>7. high /\ n = Len(ps) => Len(at(n)) # P
      <4> SUFFICES ASSUME high, n = Len(ps), Len(at(n)) = P PROVE FALSE
        OBVIOUS
      <4>1. L = n * P
        BY <3>2, <3>4, <3>1, <1>1, <1>2
      <4> QED BY <4>1, <1>2, <1>9
    <3>8. Len(at(n)) \in Nat
      BY <3>1, <1>4, LenProperties
    <3>9. Cut(k, L) + Len(at(n)) = L
      BY <3>1, <3>2, <3>4, <1>1
    <3>10. \A i \in 1 .. Len(at(n)) : at(n)[i] = b[Cut(k, L) + i]
      BY <3>1, <3>3, <3>4
    <3>11. high /\ n = Len(ps) => Len(at(n)) < P
      BY <3>5, <3>7, <3>8, <1>1
    <3> QED BY <2>2, <3>2, <3>4, <3>5, <3>6, <3>8, <3>9, <3>10, <3>11
  <2>3. CASE k + 1 > n
    <3>1. high /\ L % P = 0 /\ Len(ps) = n + 1 /\ k = n
      BY <2>0, <2>3, <1>2, <1>9, <1>10
    <3>2. ps[k + 1] = <<>> /\ Len(ps[k + 1]) = 0
      BY <3>1, <1>9
    <3>3. Cut(k, L) = L /\ Cut(k + 1, L) = L
      BY <3>1, <1>2, <1>11
    <3> QED BY <3>1, <3>2, <3>3, <1>1, <1>2
  <2> QED BY <2>0, <2>1, <2>2, <2>3, <1>2
<1>15. Len(ps) \in Nat \ {0}
  BY <1>2, <1>6, <1>7
<1>16. PacketsRight(ps, b, L)
  BY ONLY <1>13, <1>14 DEF PacketsRight, P
<1> QED BY ONLY <1>7, <1>12, <1>15, <1>16 DEF ps

-----------------------------------------------------------------------------
Msg == Dma!Bytes(m, msgs)
Packs == Dma!Packets(Msg)
Size == msgs[m]

\* Packets of the message that are on the bus, and the bytes in them.
Gone == Len(Packs) - Len(left)
OnBus == Cut(Gone, Size)

\* Bytes that were sent before the message.
Base == Len(sent) - Size

DmaTypeInv ==
  /\ high \in BOOLEAN /\ msgs \in Sessions /\ m \in DOMAIN msgs /\ retries \in 0 .. MaxRetries
  /\ left \in Seq(Seq(Int)) /\ sent \in Seq(Int) /\ out \in Seq(Int)
  /\ mem \in [0 .. BufSize - 1 -> Int]
  /\ count \in 0 .. BufSize /\ done \in BOOLEAN
  /\ idx \in 0 .. BufSize /\ len \in 0 .. BufSize
  /\ pc \in {"app", "read"} /\ owed \in Nat

\* What is left are the last packets of the message, which is the last one sent.
LeftInv ==
  /\ Len(left) <= Len(Packs)
  /\ \A i \in 1 .. Len(left) : left[i] = Packs[Gone + i]
  /\ Base >= 0 /\ \A i \in 1 .. Size : sent[Base + i] = Msg[i]

\* A transfer that runs has full packets only, and none that is complete is empty: on a
\* high-speed bus a transfer has one message.
TransferInv ==
  /\ ~done => count % PacketSize = 0 /\ count < BufSize
  /\ done => count > 0
  /\ high /\ left # <<>> /\ ~done => count = OnBus
  /\ high /\ left # <<>> /\ done => Gone = 0
  /\ high /\ left = <<>> => done \/ count = 0

IndexInv == idx <= len /\ (pc = "read" => idx < len)

\* Every byte sent has been returned, waits to be read, is in the transfer or not on the
\* bus yet.
SumInv == Len(out) + (len - idx) + count + (Size - OnBus) = Len(sent)

\* The message is in the transfer. Only what is left of the check baud is still unread.
Fresh ==
  /\ count = OnBus /\ (done => left = <<>>) /\ pc = "app"
  /\ idx < len => m = 2 /\ out # <<>> /\ Base = msgs[1]
  /\ \A i \in 0 .. count - 1 : mem[i] = sent[Base + i + 1]

\* The message is being read, and no transfer has begun to overwrite it.
Taken ==
  /\ left = <<>> /\ count = 0 /\ ~done
  /\ \A i \in idx .. len - 1 : mem[i] = sent[Len(out) + (i - idx) + 1]
  /\ pc = "read" /\ m = 1 => out = <<>>

\* While the check baud is not repeated.
OrderInv ==
  retries = 0 =>
    /\ \A i \in 1 .. Len(out) : i = 1 \/ i > msgs[1] => out[i] = sent[i]
    /\ m = 1 => Base = 0 /\ owed = (IF out = <<>> THEN 1 ELSE 0)
    /\ m # 1 => owed = Len(sent) - Len(out)
    /\ m = 2 => Base = msgs[1]
    /\ Fresh \/ Taken

\* The inductive invariant of the reception.
DmaInv == DmaTypeInv /\ LeftInv /\ TransferInv /\ IndexInv /\ SumInv /\ OrderInv

-----------------------------------------------------------------------------
LEMMA MessageFacts ==
  ASSUME Dma!DmaAssumption, msgs \in Sessions, NEW i \in DOMAIN msgs
  PROVE  /\ msgs[i] \in 1 .. BufSize - 1 /\ msgs[i] \in Nat /\ Dma!Bytes(i, msgs) \in Seq(Int)
         /\ Len(Dma!Bytes(i, msgs)) = msgs[i]
<1>1. msgs \in Seq(1 .. BufSize - 1)
  BY DEF Dma!DmaAssumption
<1>2. i \in 1 .. Len(msgs) /\ Len(msgs) \in Nat
  BY <1>1, LenProperties
<1>3. msgs[i] \in 1 .. BufSize - 1 /\ msgs[i] \in Nat
  BY <1>1, <1>2, DmaConstants
<1>4. Dma!Bytes(i, msgs) \in [1 .. msgs[i] -> Int]
  BY <1>2, <1>3 DEF Dma!Bytes
<1>5. Dma!Bytes(i, msgs) \in Seq(Int)
  BY <1>3, <1>4, SeqDef
<1>6. Len(Dma!Bytes(i, msgs)) = msgs[i]
  BY <1>3, <1>4, <1>5, LenProperties
<1> QED BY <1>3, <1>5, <1>6

\* The counts in the invariant are numbers.
LEMMA DmaNumbers ==
  ASSUME Dma!DmaAssumption, DmaTypeInv, LeftInv
  PROVE  /\ Size \in 1 .. BufSize - 1 /\ Size \in Nat /\ Msg \in Seq(Int) /\ Len(Msg) = Size
         /\ Packs \in Seq(Seq(Int)) /\ Len(Packs) \in Nat \ {0}
         /\ Len(left) \in Nat /\ Gone \in 0 .. Len(Packs) /\ OnBus \in 0 .. Size
         /\ (left = <<>> => OnBus = Size) /\ (left = <<>> <=> Len(left) = 0)
         /\ Len(sent) \in Nat /\ Len(out) \in Nat /\ Base \in Nat /\ Base + Size = Len(sent)
         /\ PacketSize \in Nat \ {0} /\ BufSize \in Nat \ {0}
         /\ (Gone = 0 => OnBus = 0)
<1>1. Size \in 1 .. BufSize - 1 /\ Size \in Nat /\ Msg \in Seq(Int) /\ Len(Msg) = Size
  BY MessageFacts DEF DmaTypeInv, Size, Msg
<1>2. /\ Packs \in Seq(Seq(Int)) /\ Len(Packs) \in Nat \ {0} /\ Cut(0, Size) = 0
      /\ Cut(Len(Packs), Size) = Size
      /\ \A k \in 0 .. Len(Packs) : Cut(k, Size) \in 0 .. Size
  BY <1>1, PacketFacts DEF Packs, DmaTypeInv, PacketsRight
<1>3. Len(left) \in Nat /\ Len(sent) \in Nat /\ Len(out) \in Nat /\ (left = <<>> <=> Len(left) = 0)
  BY LenProperties, EmptySeq DEF DmaTypeInv
<1>4. Gone \in 0 .. Len(Packs) /\ (left = <<>> => Gone = Len(Packs))
  BY <1>2, <1>3 DEF Gone, LeftInv
<1>5. OnBus \in 0 .. Size /\ (left = <<>> => OnBus = Size) /\ (Gone = 0 => OnBus = 0)
  BY <1>2, <1>4 DEF OnBus
<1>6. Base \in Nat /\ Base + Size = Len(sent)
  BY <1>1, <1>3 DEF Base, LeftInv
<1> QED BY <1>1, <1>2, <1>3, <1>4, <1>5, <1>6, DmaConstants

\* A message of which nothing is on the bus.
LEMMA WholeMessage ==
  ASSUME Dma!DmaAssumption, high \in BOOLEAN, msgs \in Sessions, NEW i \in DOMAIN msgs
  PROVE  /\ Dma!Packets(Dma!Bytes(i, msgs)) \in Seq(Seq(Int))
         /\ Len(Dma!Packets(Dma!Bytes(i, msgs))) \in Nat \ {0}
         /\ Dma!Packets(Dma!Bytes(i, msgs)) # <<>>
         /\ Cut(0, msgs[i]) = 0
<1>1. /\ msgs[i] \in 1 .. BufSize - 1 /\ Dma!Bytes(i, msgs) \in Seq(Int)
      /\ Len(Dma!Bytes(i, msgs)) = msgs[i]
  BY MessageFacts
<1>2. /\ Dma!Packets(Dma!Bytes(i, msgs)) \in Seq(Seq(Int))
      /\ Len(Dma!Packets(Dma!Bytes(i, msgs))) \in Nat \ {0}
      /\ Cut(0, msgs[i]) = 0
  BY <1>1, PacketFacts
<1> QED BY <1>2, EmptySeq

LEMMA DmaInit == Dma!DmaAssumption /\ Dma!Init => DmaInv
<1> SUFFICES ASSUME Dma!DmaAssumption, Dma!Init PROVE DmaInv
  OBVIOUS
<1>0. /\ high \in BOOLEAN /\ msgs \in Sessions /\ m = 1 /\ left = Packs /\ retries = 0 /\ sent = Msg
      /\ count = 0 /\ done = FALSE /\ mem = [i \in 0 .. BufSize - 1 |-> -1] /\ idx = 0 /\ len = 0
      /\ pc = "app" /\ out = <<>> /\ owed = 1
  BY DEF Dma!Init, Packs, Msg
<1>1. 1 \in DOMAIN msgs
  <2>1. msgs \in Seq(1 .. BufSize - 1) /\ msgs # <<>>
    BY <1>0 DEF Dma!DmaAssumption
  <2> QED BY <2>1, LenProperties, EmptySeq
<1>2. Size \in 1 .. BufSize - 1 /\ Size \in Nat /\ Msg \in Seq(Int) /\ Len(Msg) = Size
  BY <1>0, <1>1, MessageFacts DEF Size, Msg
<1>3. /\ Packs \in Seq(Seq(Int)) /\ Len(Packs) \in Nat \ {0} /\ Packs # <<>> /\ Cut(0, Size) = 0
  BY <1>0, <1>1, WholeMessage DEF Size, Msg, Packs
<1>c. PacketSize \in Nat \ {0} /\ BufSize \in Nat \ {0} /\ MaxRetries \in Nat
  BY DmaConstants
<1>4. DmaTypeInv
  <2>1. mem \in [0 .. BufSize - 1 -> Int]
    BY <1>0
  <2>2. out \in Seq(Int) /\ left \in Seq(Seq(Int)) /\ sent \in Seq(Int)
    BY <1>0, <1>2, <1>3, EmptySeq
  <2>3. count \in 0 .. BufSize /\ idx \in 0 .. BufSize /\ len \in 0 .. BufSize /\ owed \in Nat
        /\ retries \in 0 .. MaxRetries
    BY <1>0, <1>c
  <2> QED BY <1>0, <1>1, <2>1, <2>2, <2>3 DEF DmaTypeInv
<1>5. Gone = 0 /\ OnBus = 0 /\ Base = 0
  BY <1>0, <1>2, <1>3 DEF Gone, OnBus, Base
<1>6. LeftInv
  BY <1>0, <1>2, <1>3, <1>5 DEF LeftInv
<1>7. TransferInv /\ IndexInv
  BY <1>0, <1>3, <1>5, <1>c DEF TransferInv, IndexInv
<1>8. SumInv
  BY <1>0, <1>2, <1>5 DEF SumInv
<1>9. Fresh
  BY <1>0, <1>5 DEF Fresh
<1>10. OrderInv
  BY <1>0, <1>5, <1>9 DEF OrderInv
<1> QED BY <1>4, <1>6, <1>7, <1>8, <1>10 DEF DmaInv

\* A packet goes into the transfer.
LEMMA DmaPacket ==
  ASSUME Dma!DmaAssumption, DmaInv, Dma!Packet
  PROVE  DmaInv'
<1> DEFINE p == Head(left)
           n == count + Len(p)
<1>0. /\ left # <<>> /\ ~done
      /\ mem' = [i \in DOMAIN mem |-> IF i \in count .. n - 1 THEN p[i - count + 1] ELSE mem[i]]
      /\ done' = (Len(p) < PacketSize \/ n = BufSize) /\ count' = n /\ left' = Tail(left)
      /\ high' = high /\ msgs' = msgs /\ m' = m /\ retries' = retries /\ sent' = sent
      /\ idx' = idx /\ len' = len /\ pc' = pc /\ out' = out /\ owed' = owed
  BY DEF Dma!Packet
<1>i. DmaTypeInv /\ LeftInv /\ TransferInv /\ IndexInv /\ SumInv /\ OrderInv
  BY DEF DmaInv
<1>n. /\ Size \in 1 .. BufSize - 1 /\ Size \in Nat /\ Msg \in Seq(Int) /\ Len(Msg) = Size
      /\ Packs \in Seq(Seq(Int)) /\ Len(Packs) \in Nat \ {0}
      /\ Len(left) \in Nat /\ Gone \in 0 .. Len(Packs) /\ OnBus \in 0 .. Size
      /\ (left = <<>> <=> Len(left) = 0)
      /\ Len(sent) \in Nat /\ Len(out) \in Nat /\ Base \in Nat /\ Base + Size = Len(sent)
      /\ PacketSize \in Nat \ {0} /\ BufSize \in Nat \ {0}
  BY <1>i, DmaNumbers
<1>m. Msg' = Msg /\ Packs' = Packs /\ Size' = Size /\ Base' = Base
  BY <1>0 DEF Msg, Packs, Size, Base, Dma!Bytes, Dma!Packets, Dma!NeedsEmpty
<1>1. /\ p \in Seq(Int) /\ p = left[1] /\ Tail(left) \in Seq(Seq(Int)) /\ Len(Tail(left)) = Len(left) - 1
      /\ \A i \in 1 .. Len(left) - 1 : Tail(left)[i] = left[i + 1]
  BY <1>0, <1>i, <1>n, HeadTailProperties DEF DmaTypeInv
<1>2. Gone \in 0 .. Len(Packs) - 1 /\ p = Packs[Gone + 1] /\ Gone' = Gone + 1
      /\ (left' = <<>> <=> Gone + 1 = Len(Packs))
  <2>1. Len(left) >= 1 /\ Gone = Len(Packs) - Len(left)
    BY <1>0, <1>n DEF Gone
  <2>2. Gone' = Len(Packs) - (Len(left) - 1)
    <3>1. Len(left') = Len(left) - 1 /\ Len(Packs') = Len(Packs)
      BY <1>0, <1>1, <1>m
    <3> QED BY ONLY <3>1 DEF Gone
  <2>3. left' = <<>> <=> Len(left) - 1 = 0
    BY <1>0, <1>1, EmptySeq
  <2>4. left[1] = Packs[Gone + 1]
    <3>1. 1 \in 1 .. Len(left)
      BY ONLY <2>1, <1>n
    <3>2. \A i \in 1 .. Len(left) : left[i] = Packs[Gone + i]
      BY <1>i DEF LeftInv
    <3> QED BY ONLY <3>1, <3>2
  <2> HIDE DEF p
  <2>5. p = Packs[Gone + 1]
    BY <2>4, <1>1
  <2>6. Len(left) \in Nat /\ Len(Packs) \in Nat /\ Gone \in Nat
    BY <1>n
  <2>7. Gone \in 0 .. Len(Packs) - 1 /\ Gone' = Gone + 1
    BY <2>1, <2>2, <2>6
  <2>8. (Len(left) - 1 = 0) <=> (Gone + 1 = Len(Packs))
    <3>1. Len(left) - 1 = 0 => Gone + 1 = Len(Packs)
      BY <2>1, <2>6
    <3>2. Gone + 1 = Len(Packs) => Len(left) - 1 = 0
      <4>1. \A x, y, z \in Nat : x = y - z /\ x + 1 = y => z - 1 = 0
        OBVIOUS
      <4> QED BY <4>1, <2>1, <2>6
    <3> QED BY <3>1, <3>2
  <2> QED BY <2>3, <2>5, <2>7, <2>8
<1>3. /\ Len(p) \in Nat /\ Len(p) <= PacketSize /\ OnBus' = OnBus + Len(p) /\ OnBus' \in 0 .. Size
      /\ \A i \in 1 .. Len(p) : p[i] = Msg[OnBus + i]
      /\ Gone + 1 < Len(Packs) => Len(p) = PacketSize
      /\ high /\ Gone + 1 = Len(Packs) => Len(p) < PacketSize
      /\ Len(p) = 0 => high /\ OnBus > 0
  <2>1. high \in BOOLEAN
    BY <1>i DEF DmaTypeInv
  <2>2. /\ \A k \in 0 .. Len(Packs) : Cut(k, Size) \in 0 .. Size /\ (k > 0 => Cut(k, Size) > 0)
        /\ \A k \in 0 .. Len(Packs) - 1 :
              /\ Len(Packs[k + 1]) <= PacketSize
              /\ Cut(k + 1, Size) = Cut(k, Size) + Len(Packs[k + 1])
              /\ \A i \in 1 .. Len(Packs[k + 1]) : Packs[k + 1][i] = Msg[Cut(k, Size) + i]
              /\ k + 1 < Len(Packs) => Len(Packs[k + 1]) = PacketSize
              /\ high /\ k + 1 = Len(Packs) => Len(Packs[k + 1]) < PacketSize
              /\ Len(Packs[k + 1]) = 0 => high /\ k > 0
    <3>1. Size \in 1 .. BufSize - 1 /\ Msg \in Seq(Int) /\ Len(Msg) = Size
      BY <1>n, Zenon
    <3>2. PacketsRight(Dma!Packets(Msg), Msg, Size)
      BY <2>1, <3>1, PacketFacts, Zenon
    <3>3. PacketsRight(Packs, Msg, Size)
      BY ONLY <3>2 DEF Packs
    <3> QED BY ONLY <3>3 DEF PacketsRight
  <2>3. OnBus' = Cut(Gone + 1, Size) /\ OnBus = Cut(Gone, Size)
    BY <1>m, <1>2 DEF OnBus
  <2>4. Gone + 1 \in 0 .. Len(Packs)
    BY <1>2, <1>n
  <2>5. Len(p) \in Nat
    BY <1>1, LenProperties
  <2> HIDE DEF p
  <2>6. /\ Gone \in 0 .. Len(Packs) - 1 /\ p = Packs[Gone + 1]
        /\ Gone \in Nat /\ OnBus' \in 0 .. Size
    BY <1>2, <1>n, <2>2, <2>3, <2>4
  <2> QED BY ONLY <2>2, <2>3, <2>5, <2>6
<1>4. count \in Nat /\ n \in Nat /\ n <= BufSize
  <2>1. count \in Nat /\ count + PacketSize <= BufSize
    <3>1. count \in Nat /\ count % PacketSize = 0 /\ BufSize % PacketSize = 0 /\ count < BufSize
      BY <1>0, <1>i, <1>n, DmaConstants DEF TransferInv, DmaTypeInv
    <3> QED BY <3>1, <1>n, RoomForPacket
  <2> HIDE DEF p
  <2>2. Len(p) \in Nat /\ Len(p) <= PacketSize /\ PacketSize \in Nat /\ BufSize \in Nat
    BY <1>3, <1>n, Zenon
  <2> HIDE DEF p
  <2> QED BY ONLY <2>1, <2>2
<1> HIDE DEF p
<1>5. mem' \in [0 .. BufSize - 1 -> Int]
  <2>1. DOMAIN mem = 0 .. BufSize - 1 /\ \A i \in 0 .. BufSize - 1 : mem[i] \in Int
    BY <1>i DEF DmaTypeInv
  <2>2. \A i \in count .. n - 1 : p[i - count + 1] \in Int
    <3> TAKE i \in count .. n - 1
    <3>1. i - count + 1 \in 1 .. Len(p)
      BY <1>3, <1>4
    <3> QED BY <3>1, <1>1, LenProperties
  <2> HIDE DEF n
  <2> QED BY <2>1, <2>2, <1>0
<1>d. /\ done' \in BOOLEAN /\ (Len(p) < PacketSize => done') /\ (n = BufSize => done')
      /\ ~(Len(p) < PacketSize) /\ n # BufSize => ~done'
  BY <1>0
<1>6. DmaTypeInv'
  <2>1. count' \in 0 .. BufSize /\ left' \in Seq(Seq(Int))
    BY <1>0, <1>1, <1>4, <1>n
  <2> QED BY <2>1, <1>0, <1>d, <1>5, <1>i DEF DmaTypeInv
<1>7. LeftInv'
  <2>1. Len(left') <= Len(Packs)
    BY <1>0, <1>1, <1>i, <1>n DEF LeftInv
  <2>2. \A i \in 1 .. Len(left') : left'[i] = Packs[(Gone + 1) + i]
    <3> TAKE i \in 1 .. Len(left')
    <3>1. i \in 1 .. Len(left) - 1 /\ i + 1 \in 1 .. Len(left)
      BY <1>0, <1>1, <1>n
    <3>2. left'[i] = left[i + 1] /\ left[i + 1] = Packs[Gone + (i + 1)]
      BY <3>1, <1>0, <1>1, <1>i DEF LeftInv
    <3>3. Gone + (i + 1) = (Gone + 1) + i
      BY <3>1, <1>n
    <3> QED BY <3>2, <3>3
  <2> QED BY <2>1, <2>2, <1>0, <1>2, <1>i, <1>m DEF LeftInv
<1>8. TransferInv'
  <2>1. ~done' => count' % PacketSize = 0 /\ count' < BufSize
    <3> SUFFICES ASSUME ~done' PROVE count' % PacketSize = 0 /\ count' < BufSize
      OBVIOUS
    <3>0. ~(Len(p) < PacketSize) /\ n # BufSize
      BY <1>d
    <3>1. Len(p) = PacketSize /\ n < BufSize
      <4>1. Len(p) \in Nat /\ Len(p) <= PacketSize /\ PacketSize \in Nat /\ BufSize \in Nat
        BY <1>3, <1>n
      <4>2. n \in Nat /\ n <= BufSize
        BY <1>4
      <4> HIDE DEF n
      <4> QED BY <3>0, <4>1, <4>2
    <3>2. count % PacketSize = 0
      BY <1>0, <1>i DEF TransferInv
    <3>3. (count + PacketSize) % PacketSize = 0
      <4>1. PICK q \in Nat : count = q * PacketSize
        BY <3>2, <1>4, <1>n, Multiples
      <4>0. q + 1 \in Nat
        OBVIOUS
      <4>2. (q + 1) * PacketSize = q * PacketSize + PacketSize /\ ((q + 1) * PacketSize) % PacketSize = 0
        BY <4>0, <1>n, Multiples
      <4> QED BY <4>1, <4>2
    <3> QED BY <3>1, <3>3, <1>0
  <2>2. count' > 0
    <3>1. CASE Len(p) > 0
      BY <3>1, <1>0, <1>3, <1>4
    <3>2. CASE Len(p) = 0
      BY <3>2, <1>0, <1>3, <1>4, <1>i, <1>n DEF TransferInv
    <3> QED BY <3>1, <3>2, <1>3
  <2>3. ASSUME high
        PROVE  count' = OnBus' /\ (left' # <<>> => ~done') /\ (left' = <<>> => done')
    <3>1. count = OnBus
      BY <2>3, <1>0, <1>i DEF TransferInv
    <3>2. n = OnBus' /\ n < BufSize
      BY <3>1, <1>3, <1>n
    <3>3. CASE left' = <<>>
      BY <2>3, <3>2, <3>3, <1>0, <1>d, <1>2, <1>3
    <3>4. CASE left' # <<>>
      <4>1. Len(p) = PacketSize
        BY <3>4, <1>2, <1>3, <1>n
      <4>2. ~(Len(p) < PacketSize) /\ n # BufSize
        BY <4>1, <3>2, <1>4, <1>n
      <4> QED BY <4>2, <3>2, <3>4, <1>0, <1>d
    <3> QED BY <3>2, <3>3, <3>4, <1>0
  <2> QED BY <2>1, <2>2, <2>3, <1>0 DEF TransferInv
<1>9. IndexInv'
  BY <1>0, <1>i DEF IndexInv
<1>10. SumInv'
  <2>1. idx \in Nat /\ len \in Nat
    BY <1>i, <1>n DEF DmaTypeInv
  <2>2. Len(out) + (len - idx) + count + (Size - OnBus) = Len(sent)
    BY <1>i DEF SumInv
  <2>4. Len(p) \in Nat /\ count \in Nat /\ Size \in Nat /\ OnBus \in Nat /\ Len(out) \in Nat /\ Len(sent) \in Nat
    BY <1>3, <1>4, <1>n
  <2>3. Len(out) + (len - idx) + n + (Size - (OnBus + Len(p))) = Len(sent)
    BY <2>1, <2>2, <2>4
  <2> QED BY <2>3, <1>0, <1>3, <1>m DEF SumInv
<1>11. OrderInv'
  <2> SUFFICES ASSUME retries = 0 PROVE OrderInv'
    BY <1>0 DEF OrderInv
  <2>1. Fresh
    BY <1>0, <1>i DEF OrderInv, Taken
  <2>2. Fresh'
    <3>1. count' = OnBus' /\ n = OnBus'
      BY <2>1, <1>0, <1>3, <1>4 DEF Fresh
    <3>2. done' => left' = <<>>
      <4> SUFFICES ASSUME left' # <<>> PROVE ~done'
        OBVIOUS
      <4>1. Len(p) = PacketSize
        BY <1>2, <1>3, <1>n
      <4>2. ~(Len(p) < PacketSize) /\ n # BufSize
        BY <4>1, <3>1, <1>3, <1>4, <1>n
      <4> QED BY <4>2, <1>d
    <3>3. ASSUME NEW i \in 0 .. n - 1 PROVE mem'[i] = sent[Base + i + 1]
      <4>1. i \in DOMAIN mem
        BY <1>4, <1>i, <1>n DEF DmaTypeInv
      <4>2. CASE i \in count .. n - 1
        <5>1. mem'[i] = p[i - count + 1]
          BY <4>1, <4>2, <1>0
        <5>2. i - count + 1 \in 1 .. Len(p)
          BY <4>2, <1>3, <1>4
        <5>3. p[i - count + 1] = Msg[OnBus + (i - count + 1)]
          BY <5>2, <1>3
        <5>4. OnBus + (i - count + 1) = i + 1 /\ i + 1 \in 1 .. Size
          BY <2>1, <3>1, <1>3, <1>4, <1>n DEF Fresh
        <5>5. sent[Base + (i + 1)] = Msg[i + 1]
          BY <5>4, <1>i DEF LeftInv
        <5>6. Base + (i + 1) = Base + i + 1
          BY <1>n
        <5> QED BY <5>1, <5>3, <5>4, <5>5, <5>6
      <4>3. CASE i \notin count .. n - 1
        <5>1. i \in 0 .. count - 1
          BY <4>3, <1>4
        <5> QED BY <5>1, <4>1, <4>3, <2>1, <1>0 DEF Fresh
      <4> QED BY <4>2, <4>3
    <3> QED BY <3>1, <3>2, <3>3, <2>1, <1>0, <1>m DEF Fresh
  <2> QED BY <2>2, <1>0, <1>i, <1>m DEF OrderInv
<1> QED BY <1>6, <1>7, <1>8, <1>9, <1>10, <1>11 DEF DmaInv

\* The bytes of a message behind what was sent before.
LEMMA SentBehind ==
  ASSUME NEW s \in Seq(Int), NEW b \in Seq(Int)
  PROVE  /\ s \o b \in Seq(Int) /\ Len(s \o b) = Len(s) + Len(b)
         /\ \A i \in 1 .. Len(b) : (s \o b)[Len(s) + i] = b[i]
         /\ \A i \in 1 .. Len(s) : (s \o b)[i] = s[i]
<1>1. /\ s \o b \in Seq(Int) /\ Len(s \o b) = Len(s) + Len(b)
      /\ \A i \in 1 .. Len(s) + Len(b) : (s \o b)[i] = IF i <= Len(s) THEN s[i] ELSE b[i - Len(s)]
  BY ConcatProperties
<1>2. Len(s) \in Nat /\ Len(b) \in Nat
  BY LenProperties
<1>3. ASSUME NEW i \in 1 .. Len(b) PROVE (s \o b)[Len(s) + i] = b[i]
  <2>1. Len(s) + i \in 1 .. Len(s) + Len(b) /\ ~(Len(s) + i <= Len(s)) /\ (Len(s) + i) - Len(s) = i
    BY <1>2
  <2> QED BY <1>1, <2>1
<1>4. ASSUME NEW i \in 1 .. Len(s) PROVE (s \o b)[i] = s[i]
  <2>1. i \in 1 .. Len(s) + Len(b) /\ i <= Len(s)
    BY <1>2
  <2> QED BY <1>1, <2>1
<1> QED BY <1>1, <1>3, <1>4

\* A message is put behind the others: the next one, or the check baud again.
LEMMA DmaSend ==
  ASSUME Dma!DmaAssumption, DmaInv, left = <<>>, m' \in DOMAIN msgs, high' = high, msgs' = msgs,
         left' = Dma!Packets(Dma!Bytes(m', msgs)), sent' = sent \o Dma!Bytes(m', msgs),
         count' = count, done' = done, mem' = mem, idx' = idx, len' = len, pc' = pc, out' = out
  PROVE  /\ LeftInv' /\ TransferInv' /\ IndexInv' /\ SumInv'
         /\ Base' = Len(sent) /\ OnBus' = 0
         /\ sent' \in Seq(Int) /\ left' \in Seq(Seq(Int))
         /\ Len(sent') - Len(out) \in Nat /\ Len(sent') = Len(sent) + msgs[m']
         /\ \A i \in 1 .. Len(sent) : sent'[i] = sent[i]
<1>i. DmaTypeInv /\ LeftInv /\ TransferInv /\ IndexInv /\ SumInv
  BY DEF DmaInv
<1>n. /\ Size \in Nat /\ OnBus = Size /\ Len(sent) \in Nat /\ Len(out) \in Nat
  BY <1>i, DmaNumbers
<1>b. high \in BOOLEAN /\ msgs \in Sessions /\ sent \in Seq(Int)
  BY <1>i DEF DmaTypeInv
<1>p. PICK k \in DOMAIN msgs : k = m'
  OBVIOUS
<1>1. /\ msgs[k] \in Nat /\ Dma!Bytes(k, msgs) \in Seq(Int) /\ Len(Dma!Bytes(k, msgs)) = msgs[k]
  BY <1>b, MessageFacts
<1>2. /\ Dma!Packets(Dma!Bytes(k, msgs)) \in Seq(Seq(Int))
      /\ Len(Dma!Packets(Dma!Bytes(k, msgs))) \in Nat \ {0}
      /\ Dma!Packets(Dma!Bytes(k, msgs)) # <<>>
      /\ Cut(0, msgs[k]) = 0
  BY <1>b, WholeMessage
<1>3. Msg' = Dma!Bytes(k, msgs) /\ Size' = msgs[k]
  BY <1>p DEF Msg, Size, Dma!Bytes
<1>4. Packs' = Dma!Packets(Dma!Bytes(k, msgs)) /\ left' = Packs'
  BY <1>p DEF Packs, Msg, Dma!Packets, Dma!NeedsEmpty, Dma!Bytes
<1>5. Gone' = 0 /\ OnBus' = 0 /\ left' # <<>> /\ left' \in Seq(Seq(Int))
  BY <1>2, <1>3, <1>4 DEF Gone, OnBus
<1>6. /\ sent' \in Seq(Int) /\ Len(sent') = Len(sent) + msgs[k]
      /\ \A i \in 1 .. msgs[k] : sent'[Len(sent) + i] = Dma!Bytes(k, msgs)[i]
      /\ \A i \in 1 .. Len(sent) : sent'[i] = sent[i]
  BY <1>b, <1>p, <1>1, SentBehind
<1>7. Base' = Len(sent)
  BY <1>1, <1>3, <1>6, <1>n DEF Base
<1>8. LeftInv'
  <2>1. Len(left') <= Len(Packs') /\ \A i \in 1 .. Len(left') : left'[i] = Packs'[Gone' + i]
    BY <1>2, <1>4, <1>5
  <2>2. Base' >= 0
    BY <1>7, <1>n
  <2>3. \A i \in 1 .. Size' : sent'[Base' + i] = Msg'[i]
    BY <1>3, <1>6, <1>7
  <2> QED BY <2>1, <2>2, <2>3 DEF LeftInv
<1>9. TransferInv'
  BY <1>5, <1>i DEF TransferInv
<1>10. IndexInv'
  BY <1>i DEF IndexInv
<1>11. idx \in Nat /\ len \in Nat /\ count \in Nat /\ idx <= len
  BY <1>i, DmaConstants DEF DmaTypeInv, IndexInv
<1>12. Len(out) + (len - idx) + count = Len(sent)
  BY <1>11, <1>i, <1>n DEF SumInv
<1>13. SumInv'
  <2>1. Len(out) + (len - idx) + count + (msgs[k] - 0) = Len(sent) + msgs[k]
    BY <1>11, <1>12, <1>1, <1>n
  <2> QED BY <2>1, <1>3, <1>5, <1>6 DEF SumInv
<1>14. Len(sent') - Len(out) \in Nat
  BY <1>11, <1>12, <1>1, <1>6, <1>n
<1> QED BY <1>p, <1>5, <1>6, <1>7, <1>8, <1>9, <1>10, <1>13, <1>14

LEMMA DmaRetry ==
  ASSUME Dma!DmaAssumption, DmaInv, Dma!Retry
  PROVE  DmaInv'
<1>0. /\ m = 1 /\ m' = 1 /\ left = <<>> /\ retries < MaxRetries /\ retries' = retries + 1
      /\ left' = Dma!Packets(Dma!Bytes(m', msgs)) /\ sent' = sent \o Dma!Bytes(m', msgs)
      /\ high' = high /\ msgs' = msgs
      /\ count' = count /\ done' = done /\ mem' = mem /\ idx' = idx /\ len' = len /\ pc' = pc
      /\ out' = out /\ owed' = owed
  BY DEF Dma!Retry
<1>i. DmaTypeInv
  BY DEF DmaInv
<1>1. m' \in DOMAIN msgs
  BY <1>0, <1>i DEF DmaTypeInv
<1>2. /\ LeftInv' /\ TransferInv' /\ IndexInv' /\ SumInv' /\ sent' \in Seq(Int) /\ left' \in Seq(Seq(Int))
  BY <1>0, <1>1, DmaSend
<1>3. retries' \in 0 .. MaxRetries /\ retries' # 0
  BY <1>0, <1>i, DmaConstants DEF DmaTypeInv
<1>4. DmaTypeInv'
  BY <1>0, <1>1, <1>2, <1>3, <1>i DEF DmaTypeInv
<1>5. OrderInv'
  BY <1>3 DEF OrderInv
<1> QED BY <1>2, <1>4, <1>5 DEF DmaInv

LEMMA DmaNextMessage ==
  ASSUME Dma!DmaAssumption, DmaInv, Dma!NextMessage
  PROVE  DmaInv'
<1>0. /\ owed = 0 /\ m < Len(msgs) /\ m' = m + 1 /\ left = <<>> /\ retries' = retries
      /\ left' = Dma!Packets(Dma!Bytes(m', msgs)) /\ sent' = sent \o Dma!Bytes(m', msgs)
      /\ high' = high /\ msgs' = msgs
      /\ count' = count /\ done' = done /\ mem' = mem /\ idx' = idx /\ len' = len /\ pc' = pc
      /\ out' = out /\ owed' = Len(sent') - Len(out)
  BY DEF Dma!NextMessage, Dma!Owed
<1>i. DmaTypeInv /\ LeftInv /\ TransferInv /\ IndexInv /\ SumInv /\ OrderInv
  BY DEF DmaInv
<1>n. /\ Size \in Nat /\ Size >= 1 /\ OnBus = Size /\ Len(sent) \in Nat /\ Len(out) \in Nat /\ Base \in Nat
      /\ Base + Size = Len(sent)
  BY <1>0, <1>i, DmaNumbers
<1>x. idx \in Nat /\ len \in Nat /\ count \in Nat /\ idx <= len
  BY <1>i, DmaConstants DEF DmaTypeInv, IndexInv
<1>1. m \in Nat /\ m >= 1 /\ m' \in DOMAIN msgs
  <2>1. msgs \in Seq(1 .. BufSize - 1) /\ m \in DOMAIN msgs
    BY <1>i DEF Dma!DmaAssumption, DmaTypeInv
  <2>2. DOMAIN msgs = 1 .. Len(msgs) /\ Len(msgs) \in Nat
    BY <2>1, LenProperties
  <2> QED BY <2>1, <2>2, <1>0
<1>2. /\ LeftInv' /\ TransferInv' /\ IndexInv' /\ SumInv' /\ sent' \in Seq(Int) /\ left' \in Seq(Seq(Int))
      /\ Base' = Len(sent) /\ OnBus' = 0 /\ Len(sent') - Len(out) \in Nat
      /\ \A i \in 1 .. Len(sent) : sent'[i] = sent[i]
  BY <1>0, <1>1, DmaSend
<1>3. DmaTypeInv'
  BY <1>0, <1>1, <1>2, <1>i DEF DmaTypeInv
<1>4. OrderInv'
  <2> SUFFICES ASSUME retries = 0 PROVE OrderInv'
    BY <1>0 DEF OrderInv
  <2>0. Len(out) + (len - idx) + count = Len(sent)
    BY <1>x, <1>i, <1>n DEF SumInv
  <2>1. ~Fresh
    <3> SUFFICES ASSUME Fresh PROVE FALSE
      OBVIOUS
    <3>1. count = Size
      BY <1>n DEF Fresh
    <3>2. Len(out) <= Base
      BY <2>0, <3>1, <1>x, <1>n
    <3>3. CASE m = 1
      <4>1. Base = 0 /\ owed = (IF out = <<>> THEN 1 ELSE 0)
        BY <3>3, <1>i DEF OrderInv
      <4>2. Len(out) = 0 /\ out \in Seq(Int)
        BY <4>1, <3>2, <1>n, <1>i DEF DmaTypeInv
      <4>3. out = <<>>
        BY <4>2, EmptySeq
      <4> QED BY <4>1, <4>3, <1>0
    <3>4. CASE m # 1
      <4>1. Len(sent) - Len(out) = 0
        BY <3>4, <1>0, <1>i DEF OrderInv
      <4> QED BY <4>1, <3>2, <1>n
    <3> QED BY <3>3, <3>4
  <2>2. Taken
    BY <2>1, <1>i DEF OrderInv
  <2>3. count = 0 /\ ~done
    BY <2>2 DEF Taken
  <2>4. pc = "app"
    <3> SUFFICES ASSUME pc # "app" PROVE FALSE
      OBVIOUS
    <3>1. idx < len
      BY <1>i DEF IndexInv, DmaTypeInv
    <3>2. CASE m = 1
      <4>1. Base = 0 /\ owed = (IF out = <<>> THEN 1 ELSE 0)
        BY <3>2, <1>i DEF OrderInv
      <4>2. pc = "read"
        BY <1>i DEF DmaTypeInv
      <4> QED BY <4>1, <4>2, <3>2, <2>2, <1>0 DEF Taken
    <3>3. CASE m # 1
      <4>1. Len(sent) - Len(out) = 0
        BY <3>3, <1>0, <1>i DEF OrderInv
      <4> QED BY <4>1, <2>0, <2>3, <3>1, <1>x, <1>n
    <3> QED BY <3>2, <3>3
  <2>5. ASSUME m = 1 PROVE out # <<>> /\ m' = 2 /\ Base' = msgs[1]
    <3>1. Base = 0 /\ owed = (IF out = <<>> THEN 1 ELSE 0)
      BY <2>5, <1>i DEF OrderInv
    <3>2. Base' = Size /\ Size = msgs[1]
      BY <2>5, <3>1, <1>2, <1>n DEF Size
    <3> QED BY <2>5, <3>1, <3>2, <1>0
  <2>6. ASSUME m # 1 PROVE idx = len /\ m' # 2
    <3>1. Len(sent) - Len(out) = 0
      BY <2>6, <1>0, <1>i DEF OrderInv
    <3> QED BY <2>6, <3>1, <2>0, <2>3, <1>x, <1>n, <1>0, <1>1
  <2>7. Fresh'
    <3>1. idx' < len' => m' = 2 /\ out' # <<>> /\ Base' = msgs'[1]
      BY <2>5, <2>6, <1>0, <1>x
    <3>2. count' = OnBus' /\ ~done' /\ pc' = "app" /\ 0 .. count' - 1 = {}
      BY <2>3, <2>4, <1>0, <1>2
    <3> QED BY <3>1, <3>2 DEF Fresh
  <2>8. \A i \in 1 .. Len(out') : i = 1 \/ i > msgs'[1] => out'[i] = sent'[i]
    <3> SUFFICES ASSUME NEW i \in 1 .. Len(out), i = 1 \/ i > msgs[1] PROVE out[i] = sent'[i]
      BY <1>0
    <3>1. i \in 1 .. Len(sent)
      BY <2>0, <1>x, <1>n
    <3>2. out[i] = sent[i]
      BY <1>i DEF OrderInv
    <3> QED BY <3>1, <3>2, <1>2
  <2>9. m' # 1 /\ (m' = 2 => Base' = msgs'[1]) /\ owed' = Len(sent') - Len(out')
    BY <2>5, <2>6, <1>0, <1>1
  <2> QED BY <2>7, <2>8, <2>9 DEF OrderInv
<1> QED BY <1>2, <1>3, <1>4 DEF DmaInv

\* usb_handler: the transfer becomes what is read.
LEMMA DmaHandler ==
  ASSUME Dma!DmaAssumption, DmaInv, Dma!Handler
  PROVE  DmaInv'
<1>0. /\ pc = "app" /\ idx = len /\ done /\ len' = count /\ idx' = 0 /\ count' = 0 /\ done' = FALSE
      /\ pc' = "read" /\ high' = high /\ msgs' = msgs /\ m' = m /\ left' = left
      /\ retries' = retries /\ sent' = sent /\ mem' = mem /\ out' = out /\ owed' = owed
  BY DEF Dma!Handler, Dma!host, Dma!Rearmed
<1>i. DmaTypeInv /\ LeftInv /\ TransferInv /\ IndexInv /\ SumInv /\ OrderInv
  BY DEF DmaInv
<1>n. /\ Size \in Nat /\ OnBus \in 0 .. Size /\ (left = <<>> => OnBus = Size)
      /\ Len(sent) \in Nat /\ Len(out) \in Nat /\ Base \in Nat /\ Base + Size = Len(sent)
      /\ PacketSize \in Nat \ {0} /\ BufSize \in Nat \ {0} /\ (Gone = 0 => OnBus = 0)
  BY <1>i, DmaNumbers
<1>x. len \in Nat /\ count \in Nat /\ count > 0 /\ count <= BufSize
  BY <1>0, <1>i, <1>n DEF DmaTypeInv, TransferInv
<1>m. Msg' = Msg /\ Packs' = Packs /\ Size' = Size /\ Base' = Base /\ Gone' = Gone /\ OnBus' = OnBus
  BY <1>0 DEF Msg, Packs, Size, Base, Gone, OnBus, Dma!Bytes, Dma!Packets, Dma!NeedsEmpty
<1>1. DmaTypeInv'
  <2>1. count' \in 0 .. BufSize /\ idx' \in 0 .. BufSize /\ len' \in 0 .. BufSize
    BY <1>0, <1>n, <1>x
  <2> QED BY <2>1, <1>0, <1>i DEF DmaTypeInv
<1>2. LeftInv'
  BY <1>0, <1>i, <1>m DEF LeftInv
<1>3. TransferInv'
  <2>1. 0 % PacketSize = 0
    BY <1>n
  <2>2. high /\ left # <<>> => OnBus = 0
    BY <1>0, <1>i, <1>n DEF TransferInv
  <2> QED BY <2>1, <2>2, <1>0, <1>m, <1>n DEF TransferInv
<1>4. IndexInv'
  BY <1>0, <1>x DEF IndexInv
<1>5. SumInv'
  BY <1>0, <1>i, <1>m, <1>n, <1>x DEF SumInv
<1>6. OrderInv'
  <2> SUFFICES ASSUME retries = 0 PROVE OrderInv'
    BY <1>0 DEF OrderInv
  <2>1. Fresh
    BY <1>0, <1>i DEF OrderInv, Taken
  <2>2. left = <<>> /\ count = Size
    BY <2>1, <1>0, <1>n DEF Fresh
  <2>3. Len(out) = Base
    <3>1. Len(out) + (len - idx) + count + (Size - OnBus) = Len(sent)
      BY <1>i DEF SumInv
    <3> QED BY <3>1, <2>2, <1>0, <1>n, <1>x
  <2>4. \A i \in 0 .. count - 1 : mem[i] = sent[Len(out) + (i - 0) + 1]
    <3> TAKE i \in 0 .. count - 1
    <3>1. mem[i] = sent[Base + i + 1]
      BY <2>1 DEF Fresh
    <3>2. i - 0 = i
      BY <1>x
    <3> QED BY <3>1, <3>2, <2>3
  <2>5. m = 1 => out = <<>>
    <3> SUFFICES ASSUME m = 1 PROVE out = <<>>
      OBVIOUS
    <3>1. Len(out) = 0 /\ out \in Seq(Int)
      BY <2>3, <1>i DEF OrderInv, DmaTypeInv
    <3> QED BY <3>1, EmptySeq
  <2>6. Taken'
    BY <2>2, <2>4, <2>5, <1>0 DEF Taken
  <2> QED BY <2>6, <1>0, <1>i, <1>m DEF OrderInv
<1> QED BY <1>1, <1>2, <1>3, <1>4, <1>5, <1>6 DEF DmaInv

\* usb_read1: a byte that was overwritten is one of the check baud.
LEMMA DmaRead ==
  ASSUME Dma!DmaAssumption, DmaInv, Dma!Read1
  PROVE  DmaInv'
<1>0. /\ pc = "read" \/ idx # len
      /\ pc' = "app" /\ out' = Append(out, mem[idx]) /\ idx' = idx + 1
      /\ owed' = (IF owed > 0 THEN owed - 1 ELSE 0)
      /\ high' = high /\ msgs' = msgs /\ m' = m /\ left' = left
      /\ retries' = retries /\ sent' = sent /\ count' = count /\ done' = done /\ mem' = mem /\ len' = len
  BY DEF Dma!Read1, Dma!host
<1>i. DmaTypeInv /\ LeftInv /\ TransferInv /\ IndexInv /\ SumInv /\ OrderInv
  BY DEF DmaInv
<1>n. /\ Size \in Nat /\ Size >= 1 /\ OnBus \in Nat /\ OnBus <= Size /\ (left = <<>> => OnBus = Size)
      /\ Len(sent) \in Nat /\ Len(out) \in Nat /\ Base \in Nat /\ Base + Size = Len(sent)
      /\ BufSize \in Nat
  BY <1>i, DmaNumbers
<1>x. /\ idx \in Nat /\ len \in Nat /\ count \in Nat /\ idx < len /\ len <= BufSize /\ owed \in Nat
      /\ out \in Seq(Int)
  BY <1>0, <1>i, <1>n DEF DmaTypeInv, IndexInv
<1>m. Msg' = Msg /\ Packs' = Packs /\ Size' = Size /\ Base' = Base /\ Gone' = Gone /\ OnBus' = OnBus
  BY <1>0 DEF Msg, Packs, Size, Base, Gone, OnBus, Dma!Bytes, Dma!Packets, Dma!NeedsEmpty
<1>y. mem[idx] \in Int
  <2>1. idx \in 0 .. BufSize - 1
    BY <1>x, <1>n
  <2> QED BY <2>1, <1>i DEF DmaTypeInv
<1>1. /\ out' \in Seq(Int) /\ out' # <<>> /\ Len(out') = Len(out) + 1
      /\ \A i \in 1 .. Len(out) : out'[i] = out[i]
      /\ out'[Len(out) + 1] = mem[idx]
  BY <1>0, <1>x, <1>y, AppendProperties
<1>2. DmaTypeInv'
  <2>1. idx' \in 0 .. BufSize /\ owed' \in Nat
    BY <1>0, <1>n, <1>x
  <2> QED BY <2>1, <1>0, <1>1, <1>i DEF DmaTypeInv
<1>3. LeftInv' /\ TransferInv'
  BY <1>0, <1>i, <1>m DEF LeftInv, TransferInv
<1>4. IndexInv'
  BY <1>0, <1>x DEF IndexInv
<1>s. Len(out) + (len - idx) + count + (Size - OnBus) = Len(sent)
  BY <1>i DEF SumInv
<1>5. SumInv'
  <2>1. (Len(out) + 1) + (len - (idx + 1)) + count + (Size - OnBus) = Len(sent)
    BY <1>s, <1>n, <1>x
  <2> QED BY <2>1, <1>0, <1>1, <1>m DEF SumInv
<1>6. OrderInv'
  <2> SUFFICES ASSUME retries = 0 PROVE OrderInv'
    BY <1>0 DEF OrderInv
  <2> DEFINE at == Len(out) + 1
  <2>1. at = 1 \/ at > msgs[1] => mem[idx] = sent[at]
    <3>1. CASE Fresh
      <4>1. m = 2 /\ out # <<>> /\ Base = msgs[1] /\ count = OnBus
        BY <3>1, <1>x DEF Fresh
      <4>2. Len(out) # 0
        BY <4>1, <1>x, EmptySeq
      <4>3. at # 1 /\ at <= Base
        BY <4>1, <4>2, <1>s, <1>n, <1>x
      <4> QED BY <4>1, <4>3, <1>n
    <3>2. CASE Taken
      <4>1. mem[idx] = sent[Len(out) + (idx - idx) + 1]
        BY <3>2, <1>x DEF Taken
      <4>2. Len(out) + (idx - idx) + 1 = at
        BY <1>n, <1>x
      <4> QED BY <4>1, <4>2
    <3> QED BY <3>1, <3>2, <1>i DEF OrderInv
  <2>2. \A i \in 1 .. Len(out') : i = 1 \/ i > msgs'[1] => out'[i] = sent'[i]
    <3> SUFFICES ASSUME NEW i \in 1 .. Len(out) + 1, i = 1 \/ i > msgs[1] PROVE out'[i] = sent[i]
      BY <1>0, <1>1
    <3>1. CASE i = at
      BY <3>1, <2>1, <1>1
    <3>2. CASE i # at
      <4>1. i \in 1 .. Len(out)
        BY <3>2, <1>n
      <4> QED BY <4>1, <1>1, <1>i DEF OrderInv
    <3> QED BY <3>1, <3>2
  <2>3. Len(out) < Len(sent)
    BY <1>s, <1>n, <1>x
  <2>4. m = 1 => Base = 0 /\ owed' = 0
    <3> SUFFICES ASSUME m = 1 PROVE Base = 0 /\ owed' = 0
      OBVIOUS
    <3>1. Base = 0 /\ owed \in {0, 1}
      BY <1>i DEF OrderInv
    <3> QED BY <3>1, <1>0
  <2>5. m # 1 => owed' = Len(sent) - Len(out')
    <3> SUFFICES ASSUME m # 1 PROVE owed' = Len(sent) - Len(out')
      OBVIOUS
    <3>1. owed = Len(sent) - Len(out)
      BY <1>i DEF OrderInv
    <3> QED BY <3>1, <2>3, <1>0, <1>1, <1>n
  <2>6. CASE Fresh
    <3>1. Fresh'
      <4>1. m = 2 /\ Base = msgs[1]
        BY <2>6, <1>x DEF Fresh
      <4>2. \A i \in 0 .. count' - 1 : mem'[i] = sent'[Base' + i + 1]
        BY <2>6, <1>0, <1>m DEF Fresh
      <4>3. count' = OnBus' /\ (done' => left' = <<>>) /\ pc' = "app"
        BY <2>6, <1>0, <1>m DEF Fresh
      <4> QED BY <4>1, <4>2, <4>3, <1>0, <1>1, <1>m DEF Fresh
    <3>2. m = 2 => Base = msgs[1]
      BY <1>i DEF OrderInv
    <3> QED BY <3>1, <3>2, <2>2, <2>4, <2>5, <1>0, <1>1, <1>m DEF OrderInv
  <2>7. CASE Taken
    <3>1. Taken'
      <4>1. ASSUME NEW i \in idx + 1 .. len - 1
            PROVE  mem[i] = sent[(Len(out) + 1) + (i - (idx + 1)) + 1]
        <5>1. i \in idx .. len - 1
          BY <1>x
        <5>2. mem[i] = sent[Len(out) + (i - idx) + 1]
          BY <5>1, <2>7 DEF Taken
        <5>3. (Len(out) + 1) + (i - (idx + 1)) + 1 = Len(out) + (i - idx) + 1
          BY <1>x, <1>n
        <5> QED BY <5>2, <5>3
      <4>2. left' = <<>> /\ count' = 0 /\ ~done' /\ pc' # "read"
        BY <2>7, <1>0 DEF Taken
      <4> QED BY <4>1, <4>2, <1>0, <1>1 DEF Taken
    <3>2. m = 2 => Base = msgs[1]
      BY <1>i DEF OrderInv
    <3> QED BY <3>1, <3>2, <2>2, <2>4, <2>5, <1>0, <1>1, <1>m DEF OrderInv
  <2> QED BY <2>6, <2>7, <1>i DEF OrderInv
<1> QED BY <1>2, <1>3, <1>4, <1>5, <1>6 DEF DmaInv

LEMMA DmaStep == Dma!DmaAssumption /\ DmaInv /\ [Dma!Next]_(Dma!vars) => DmaInv'
<1> SUFFICES ASSUME Dma!DmaAssumption, DmaInv, [Dma!Next]_(Dma!vars) PROVE DmaInv'
  OBVIOUS
<1>1. CASE UNCHANGED Dma!vars
  <2>0. /\ high' = high /\ msgs' = msgs /\ m' = m /\ left' = left /\ retries' = retries /\ sent' = sent
        /\ count' = count /\ done' = done /\ mem' = mem /\ idx' = idx /\ len' = len /\ pc' = pc
        /\ out' = out /\ owed' = owed
    BY <1>1 DEF Dma!vars, Dma!host
  <2>m. Msg' = Msg /\ Packs' = Packs /\ Size' = Size /\ Base' = Base /\ Gone' = Gone /\ OnBus' = OnBus
    BY <2>0 DEF Msg, Packs, Size, Base, Gone, OnBus, Dma!Bytes, Dma!Packets, Dma!NeedsEmpty
  <2>1. DmaTypeInv' /\ IndexInv' /\ SumInv'
    BY <2>0, <2>m DEF DmaInv, DmaTypeInv, IndexInv, SumInv
  <2>2. LeftInv' /\ TransferInv'
    BY <2>0, <2>m DEF DmaInv, LeftInv, TransferInv
  <2>3. Fresh' = Fresh /\ Taken' = Taken
    BY <2>0, <2>m DEF Fresh, Taken
  <2>4. OrderInv'
    BY <2>0, <2>m, <2>3 DEF DmaInv, OrderInv
  <2> QED BY <2>1, <2>2, <2>4 DEF DmaInv
<1>2. CASE Dma!Next
  BY <1>1, <1>2, DmaPacket, DmaRetry, DmaHandler, DmaRead, DmaNextMessage
  DEF Dma!Next, Dma!Progress, Dma!Rest
<1> QED BY <1>1, <1>2

LEMMA DmaAlways == Dma!DmaAssumption => (Dma!Spec => []DmaInv)
<1> SUFFICES ASSUME Dma!DmaAssumption PROVE Dma!Spec => []DmaInv
  OBVIOUS
<1>1. Dma!Init => DmaInv
  BY DmaInit
<1>2. DmaInv /\ [Dma!Next]_(Dma!vars) => DmaInv'
  BY DmaStep
<1> QED BY <1>1, <1>2, PTL DEF Dma!Spec

LEMMA DmaTypeFromInv == DmaInv => Dma!TypeOK
  BY DEF DmaInv, DmaTypeInv, Dma!TypeOK

LEMMA NeverPastFromInv == Dma!DmaAssumption /\ DmaInv => Dma!NeverPast
<1> SUFFICES ASSUME Dma!DmaAssumption, DmaInv PROVE Dma!NeverPast
  OBVIOUS
<1>1. idx \in Nat /\ len \in Nat
  BY DmaConstants DEF DmaInv, DmaTypeInv
<1> QED BY <1>1 DEF DmaInv, IndexInv, Dma!NeverPast

LEMMA InOrderFromInv == Dma!DmaAssumption /\ DmaInv => Dma!InOrder
<1> SUFFICES ASSUME Dma!DmaAssumption, DmaInv, retries = 0
             PROVE  /\ Len(out) <= Len(sent)
                    /\ \A i \in DOMAIN out : i = 1 \/ i > msgs[1] => out[i] = sent[i]
  BY DEF Dma!InOrder
<1>1. /\ Size \in Nat /\ OnBus \in Nat /\ OnBus <= Size /\ Len(sent) \in Nat /\ Len(out) \in Nat
      /\ BufSize \in Nat
  BY DmaNumbers DEF DmaInv
<1>2. idx \in Nat /\ len \in Nat /\ idx <= len /\ count \in Nat /\ out \in Seq(Int)
  BY <1>1 DEF DmaInv, DmaTypeInv, IndexInv
<1>3. Len(out) + (len - idx) + count + (Size - OnBus) = Len(sent)
  BY DEF DmaInv, SumInv
<1>4. DOMAIN out = 1 .. Len(out)
  BY <1>2, LenProperties
<1>5. Len(out) <= Len(sent)
  BY <1>1, <1>2, <1>3
<1> QED BY <1>4, <1>5 DEF DmaInv, OrderInv

\* A DMA transfer fits into usb_recv_buf, and the index of usb_read1 stays inside it.
THEOREM DmaTypeCorrect == Dma!DmaAssumption => (Dma!Spec => []Dma!TypeOK)
<1> SUFFICES ASSUME Dma!DmaAssumption PROVE Dma!Spec => []Dma!TypeOK
  OBVIOUS
<1> QED BY DmaAlways, DmaTypeFromInv, PTL

\* usb_read1 takes a byte behind usb_handler without looking at its length, and never one
\* behind the end of a transfer: none is empty, also with check bauds that are repeated.
THEOREM DmaNeverPast == Dma!DmaAssumption => (Dma!Spec => []Dma!NeverPast)
<1> SUFFICES ASSUME Dma!DmaAssumption PROVE Dma!Spec => []Dma!NeverPast
  OBVIOUS
<1>1. DmaInv => Dma!NeverPast
  BY NeverPastFromInv
<1> QED BY <1>1, DmaAlways, PTL

\* A message is read as it was sent although the next transfer goes into the same buffer;
\* only what is left of the check baud may be overwritten.
THEOREM DmaInOrder == Dma!DmaAssumption => (Dma!Spec => []Dma!InOrder)
<1> SUFFICES ASSUME Dma!DmaAssumption PROVE Dma!Spec => []Dma!InOrder
  OBVIOUS
<1>1. DmaInv => Dma!InOrder
  BY InOrderFromInv
<1> QED BY <1>1, DmaAlways, PTL

-----------------------------------------------------------------------------
(* sfc_unlock and sfc_write.                                               *)

CONSTANTS PageSize, MaxData, WordLen, Cells, MaxSize, SrBits
VARIABLES vendor, sr1, sr2, wel, tbuf, length, src

Sfc == INSTANCE SfcWrite

\* For the lemmas about FlattenSeq: some alphabet, and no packets.
Lists == INSTANCE FdlEscapeProofs WITH
  Base <- 4, Header <- 0, Escape <- 1, Flip <- [b \in 0 .. 3 |-> (b + 2) % 4],
  MaxPkt <- 0, Packets <- {}, packet <- <<>>, room <- 0, buf <- 0, i <- 0, dst <- 0, done <- TRUE

LEMMA ListsAssumed == Lists!AlphabetAssumption
  BY DEF Lists!Byte, Lists!Special, Lists!Escaped

\* The number of slots for n bytes, the bytes s, s + 1, ... in slot k, and the bytes in
\* the first k slots.
Words(n, W) == (n + W - 1) \div W
Piece(n, W, s, k) == [u \in 1 .. Lesser(W, n - (k - 1) * W) |-> s + (k - 1) * W + u - 1]
Pieces(n, W, s, k) == [u \in 1 .. Lesser(k * W, n) |-> s + u - 1]

\* Run behind run.
LEMMA RunsJoin ==
  ASSUME NEW a \in Nat, NEW l \in Nat, NEW s \in Nat, NEW x, NEW y,
         x = [u \in 1 .. a |-> s + u - 1], y = [u \in 1 .. l |-> s + a + u - 1]
  PROVE  x \o y = [u \in 1 .. a + l |-> s + u - 1]
<1>1. x \in Seq(Int) /\ Len(x) = a
  <2>1. x \in [1 .. a -> Int]
    OBVIOUS
  <2> QED BY <2>1
<1>2. y \in Seq(Int) /\ Len(y) = l
  <2>1. y \in [1 .. l -> Int]
    OBVIOUS
  <2> QED BY <2>1
<1>3. /\ x \o y \in Seq(Int) /\ Len(x \o y) = a + l
      /\ \A i \in 1 .. a + l : (x \o y)[i] = IF i <= a THEN x[i] ELSE y[i - a]
  BY <1>1, <1>2, ConcatProperties
<1>4. ASSUME NEW i \in 1 .. a + l PROVE (x \o y)[i] = s + i - 1
  <2>1. CASE i <= a
    BY <1>3, <2>1
  <2>2. CASE ~(i <= a)
    <3>1. i - a \in 1 .. l /\ s + a + (i - a) - 1 = s + i - 1
      BY <2>2
    <3>2. y[i - a] = s + a + (i - a) - 1
      BY <3>1
    <3> QED BY <1>3, <2>2, <3>1, <3>2
  <2> QED BY <2>1, <2>2
<1>5. ASSUME NEW z, z \in Seq(Int), Len(z) = a + l, \A i \in 1 .. a + l : z[i] = s + i - 1
      PROVE  z = [u \in 1 .. a + l |-> s + u - 1]
  <2>1. DOMAIN z = 1 .. a + l /\ z = [i \in DOMAIN z |-> z[i]]
    BY <1>5
  <2> QED BY <1>5, <2>1
<1> QED BY <1>3, <1>4, <1>5

\* What FlattenSeq makes of the slots of the command buffer: the bytes of the run in
\* one piece.
LEMMA Chunks ==
  ASSUME NEW W \in Nat \ {0}, NEW n \in Nat \ {0}, NEW s \in Nat,
         NEW N, N = Words(n, W), NEW seqs, seqs = [k \in 1 .. N |-> Piece(n, W, s, k)]
  PROVE  Sfc!FlattenSeq(seqs) = [u \in 1 .. n |-> s + u - 1]
<1>1. N \in Nat \ {0} /\ (N - 1) * W < n /\ n <= N * W /\ N * W = (N - 1) * W + W
  BY Rounded DEF Words
<1>0. N \in Nat \ {0}
  BY <1>1
<1>2. \A k \in 1 .. N : (k - 1) * W \in Nat /\ (k - 1) * W <= (N - 1) * W /\ k * W = (k - 1) * W + W
  <2> SUFFICES ASSUME NEW k \in 1 .. N
               PROVE  (k - 1) * W \in Nat /\ (k - 1) * W <= (N - 1) * W /\ k * W = (k - 1) * W + W
    OBVIOUS
  <2>1. k - 1 \in Nat /\ N - 1 \in Nat /\ k - 1 <= N - 1
    BY <1>1
  <2>2. (k - 1) * W \in Nat /\ (k - 1) * W <= (N - 1) * W /\ ((k - 1) + 1) * W = (k - 1) * W + W
    BY <2>1, Multiples
  <2>3. (k - 1) + 1 = k
    BY <2>1
  <2> QED BY <2>2, <2>3
<1>3. \A k \in 1 .. N : Lesser(W, n - (k - 1) * W) \in Nat /\ Lesser(k * W, n) \in Nat
  <2> SUFFICES ASSUME NEW k \in 1 .. N
               PROVE  Lesser(W, n - (k - 1) * W) \in Nat /\ Lesser(k * W, n) \in Nat
    OBVIOUS
  <2> DEFINE a == (k - 1) * W
             b == k * W
             c == (N - 1) * W
  <2>1. a \in Nat /\ a <= c /\ c < n /\ b = a + W /\ c \in Int
    BY <1>1, <1>2
  <2> HIDE DEF a, b, c
  <2>2. Lesser(W, n - a) \in Nat /\ Lesser(b, n) \in Nat
    BY <2>1 DEF Lesser
  <2> QED BY <2>2 DEF a, b
<1>4. \A k \in 1 .. N : Piece(n, W, s, k) \in Seq(Int) /\ Len(Piece(n, W, s, k)) = Lesser(W, n - (k - 1) * W)
  <2> SUFFICES ASSUME NEW k \in 1 .. N
               PROVE  Piece(n, W, s, k) \in Seq(Int) /\ Len(Piece(n, W, s, k)) = Lesser(W, n - (k - 1) * W)
    OBVIOUS
  <2> DEFINE l == Lesser(W, n - (k - 1) * W)
             a == (k - 1) * W
  <2>1. l \in Nat /\ a \in Nat
    BY <1>2, <1>3
  <2> HIDE DEF l, a
  <2>2. \A u \in 1 .. l : s + a + u - 1 \in Int
    BY <2>1
  <2>3. [u \in 1 .. l |-> s + a + u - 1] \in [1 .. l -> Int]
    BY <2>2
  <2>4. [u \in 1 .. l |-> s + a + u - 1] \in Seq(Int) /\ Len([u \in 1 .. l |-> s + a + u - 1]) = l
    BY <2>1, <2>3
  <2> QED BY <2>4 DEF l, a, Piece
<1>5. /\ seqs \in Seq(Seq(Int)) /\ Len(seqs) = N /\ seqs # <<>>
      /\ \A k \in 1 .. N : seqs[k] = Piece(n, W, s, k)
  <2>1. seqs = [k \in 1 .. N |-> Piece(n, W, s, k)]
    OBVIOUS
  <2>2. seqs \in [1 .. N -> Seq(Int)]
    BY <2>1, <1>4
  <2>3. ASSUME NEW S, NEW z \in [1 .. N -> S] PROVE z \in Seq(S) /\ Len(z) = N
    BY <1>0
  <2>4. seqs \in Seq(Seq(Int)) /\ Len(seqs) = N
    BY <2>2, <2>3
  <2> QED BY <2>1, <2>4, <1>0
<1>6. PICK f \in [1 .. N -> Seq(Int)] : Lists!Flattens(f, seqs, N) /\ Lists!FlattenSeq(seqs) = f[N]
  <2>1. \E f \in [1 .. Len(seqs) -> Seq(Int)] :
           Lists!Flattens(f, seqs, Len(seqs)) /\ Lists!FlattenSeq(seqs) = f[Len(seqs)]
    BY <1>5, ListsAssumed, Lists!FlattenUnfold, Zenon
  <2> QED BY <2>1, <1>5
<1> DEFINE T == {h \in Nat : h + 1 <= N => f[h + 1] = Pieces(n, W, s, h + 1)}
<1>7. 0 \in T
  <2>1. f[1] = Piece(n, W, s, 1) /\ 1 \in 1 .. N
    BY <1>1, <1>5, <1>6 DEF Lists!Flattens
  <2>2. (1 - 1) * W = 0 /\ 1 * W = W
    OBVIOUS
  <2>3. Piece(n, W, s, 1) = [u \in 1 .. Lesser(W, n - 0) |-> s + 0 + u - 1]
    BY <2>2 DEF Piece
  <2>4. Pieces(n, W, s, 1) = [u \in 1 .. Lesser(W, n) |-> s + u - 1]
    BY <2>2 DEF Pieces
  <2>5. Lesser(W, n - 0) = Lesser(W, n) /\ Lesser(W, n) \in Nat
    BY DEF Lesser
  <2>6. Piece(n, W, s, 1) = Pieces(n, W, s, 1)
    BY <2>3, <2>4, <2>5
  <2>7. 0 + 1 = 1
    OBVIOUS
  <2> QED BY <2>1, <2>6, <2>7
<1>8. ASSUME NEW h \in Nat, h \in T PROVE h + 1 \in T
  <2> SUFFICES ASSUME h + 2 <= N PROVE f[h + 2] = Pieces(n, W, s, h + 2)
    <3>1. h + 1 + 1 = h + 2 /\ h + 1 \in Nat
      OBVIOUS
    <3> QED BY <3>1
  <2>1. h + 2 \in 2 .. N /\ h + 1 <= N /\ (h + 2) - 1 = h + 1 /\ h + 2 \in 1 .. N /\ h + 1 \in 1 .. N
    BY <1>1
  <2>2. f[h + 2] = Pieces(n, W, s, h + 1) \o Piece(n, W, s, h + 2)
    <3>1. f[h + 2] = f[h + 1] \o seqs[h + 2]
      BY <2>1, <1>6 DEF Lists!Flattens
    <3> QED BY <3>1, <2>1, <1>5, <1>8
  <2> DEFINE a == (h + 1) * W
             b == (h + 2) * W
             c == (N - 1) * W
             l == Lesser(W, n - a)
  <2>3. a \in Nat /\ a <= c /\ c < n /\ b = a + W /\ c \in Int
    <3>1. (h + 2) - 1 = h + 1
      OBVIOUS
    <3>2. a \in Nat /\ a <= c /\ b = a + W
      BY <2>1, <1>2, <3>1
    <3>3. c < n /\ c \in Int
      BY <1>1
    <3> QED BY <3>2, <3>3
  <2>4. Piece(n, W, s, h + 2) = [u \in 1 .. l |-> s + a + u - 1]
    BY <2>1 DEF Piece
  <2>5. Pieces(n, W, s, h + 1) = [u \in 1 .. Lesser(a, n) |-> s + u - 1] /\ Pieces(n, W, s, h + 2) = [u \in 1 .. Lesser(b, n) |-> s + u - 1]
    BY DEF Pieces
  <2> HIDE DEF a, b, c, l
  <2>6. Lesser(a, n) = a /\ l \in Nat /\ Lesser(b, n) = a + l
    BY <2>3 DEF l, Lesser
  <2>7. Pieces(n, W, s, h + 1) \o Piece(n, W, s, h + 2) = [u \in 1 .. a + l |-> s + u - 1]
    <3>1. Pieces(n, W, s, h + 1) = [u \in 1 .. a |-> s + u - 1]
      BY <2>5, <2>6
    <3>2. a \in Nat /\ l \in Nat
      BY <2>3, <2>6
    <3>3. ASSUME NEW x, NEW y, x = [u \in 1 .. a |-> s + u - 1], y = [u \in 1 .. l |-> s + a + u - 1]
          PROVE  x \o y = [u \in 1 .. a + l |-> s + u - 1]
      BY <3>2, <3>3, RunsJoin
    <3> QED BY <3>1, <3>3, <2>4
  <2> QED BY <2>2, <2>5, <2>6, <2>7
<1>9. Nat \subseteq T
  <2> HIDE DEF T
  <2> QED BY <1>7, <1>8, ListsAssumed, Lists!Induct, Zenon
<1>10. f[N] = Pieces(n, W, s, N)
  <2>1. N - 1 \in Nat /\ (N - 1) + 1 = N
    BY <1>0
  <2> QED BY <2>1, <1>9
<1>11. Pieces(n, W, s, N) = [u \in 1 .. n |-> s + u - 1]
  <2>1. N * W \in Nat
    BY <1>1, Multiples
  <2>2. Lesser(N * W, n) = n
    BY <1>1, <2>1 DEF Lesser
  <2> QED BY <2>2 DEF Pieces
<1>12. Sfc!FlattenSeq(seqs) = Lists!FlattenSeq(seqs)
  BY DEF Sfc!FlattenSeq, Lists!FlattenSeq
<1> QED BY <1>6, <1>10, <1>11, <1>12

SfcTypeInv ==
  /\ vendor \in Sfc!Vendors
  /\ sr1 \subseteq 2 .. 7 /\ sr2 \subseteq {1, 6}
  /\ wel \in BOOLEAN
  /\ mem \in [0 .. Cells - 1 -> Int]
  /\ first \in Nat /\ length \in Nat /\ first + length <= Cells /\ length <= MaxSize
  /\ src \in 0 .. length
  /\ pc \in {"unlock", "next", "fill", "request", "done"}

\* sfc_unlock clears the protection of the chips it knows; Macronix has one register.
LockInv ==
  /\ vendor = "macronix" => sr2 = {}
  /\ pc # "unlock" /\ vendor # "other" => ~Sfc!Protected

\* Every command has its write enable and something to write, and the buffer holds
\* exactly its bytes when it is sent.
CommandInv ==
  /\ pc \in {"fill", "request"} => wel /\ src < length
  /\ pc = "request" => tbuf = Sfc!Slots(Sfc!Amount)

BufferInv ==
  /\ \A k \in DOMAIN tbuf : tbuf[k].n \in 1 .. WordLen
  /\ Len(tbuf) <= MaxData \div WordLen

SfcInv == SfcTypeInv /\ LockInv /\ CommandInv /\ BufferInv

LEMMA SfcConstants ==
  ASSUME Sfc!SfcAssumption
  PROVE  /\ PageSize \in Nat \ {0} /\ MaxData \in Nat \ {0} /\ WordLen \in Nat \ {0}
         /\ Cells \in Nat \ {0} /\ MaxData % WordLen = 0 /\ MaxSize \in Nat /\ MaxSize <= Cells
  BY DEF Sfc!SfcAssumption

\* A command takes at least one byte, and no more than is left of the run, than fits
\* into the buffer and than the page has.
LEMMA AmountFacts ==
  ASSUME Sfc!SfcAssumption, SfcTypeInv, src < length
  PROVE  /\ Sfc!Amount \in 1 .. MaxData /\ Sfc!Amount <= length - src
         /\ Sfc!Amount <= PageSize - ((first + src) % PageSize)
<1> DEFINE a == length - src
           c == PageSize - ((first + src) % PageSize)
<1>1. (first + src) % PageSize \in 0 .. PageSize - 1
  <2>1. PageSize \in Nat \ {0} /\ first + src \in Int
    BY SfcConstants DEF SfcTypeInv
  <2> QED BY <2>1
<1>2. a \in Nat \ {0} /\ MaxData \in Nat \ {0} /\ c \in Nat \ {0}
  BY <1>1, SfcConstants DEF SfcTypeInv
<1>3. Sfc!Amount = CHOOSE x \in {a, MaxData, c} : \A y \in {a, MaxData, c} : x <= y
  BY DEF Sfc!Amount, Sfc!Min, Sfc!ToPageEnd, Sfc!addr
<1> HIDE DEF a, c
<1>4. \E x \in {a, MaxData, c} : \A y \in {a, MaxData, c} : x <= y
  BY <1>2
<1>5. Sfc!Amount \in {a, MaxData, c} /\ \A y \in {a, MaxData, c} : Sfc!Amount <= y
  BY <1>3, <1>4
<1>6. Sfc!Amount \in 1 .. MaxData /\ Sfc!Amount <= a /\ Sfc!Amount <= c
  BY <1>2, <1>5
<1> QED BY <1>6 DEF a, c

\* The slots fit into the buffer, and only the last one may be short.
LEMMA SlotFacts ==
  ASSUME Sfc!SfcAssumption, NEW n \in 1 .. MaxData, NEW N, N = Words(n, WordLen)
  PROVE  /\ N \in Nat \ {0} /\ N <= MaxData \div WordLen
         /\ Sfc!Slots(n) = [k \in 1 .. N |-> [at |-> src + (k - 1) * WordLen, n |-> Lesser(WordLen, n - (k - 1) * WordLen)]]
         /\ \A k \in 1 .. N : /\ (k - 1) * WordLen \in Nat
                              /\ Lesser(WordLen, n - (k - 1) * WordLen) \in 1 .. WordLen
                              /\ (k - 1) * WordLen + Lesser(WordLen, n - (k - 1) * WordLen) <= n
<1>1. WordLen \in Nat \ {0} /\ MaxData \in Nat \ {0} /\ MaxData % WordLen = 0 /\ n \in Nat \ {0}
  BY SfcConstants
<1>2. N \in Nat \ {0} /\ (N - 1) * WordLen < n
  BY <1>1, Rounded DEF Words
<1>3. N <= MaxData \div WordLen
  <2>1. PICK q \in Nat : MaxData = q * WordLen
    BY <1>1, Multiples
  <2>2. N - 1 \in Nat
    BY <1>2
  <2>3. ~(q <= N - 1)
    <3>1. q <= N - 1 => q * WordLen <= (N - 1) * WordLen
      BY <1>1, <2>2, Multiples
    <3>2. (N - 1) * WordLen \in Nat /\ q * WordLen \in Nat
      BY <1>1, <2>2, Multiples
    <3> QED BY <1>2, <2>1, <3>1, <3>2
  <2>4. (q * WordLen) \div WordLen = q
    BY <1>1
  <2> QED BY <1>2, <2>1, <2>3, <2>4
<1>4. Sfc!Slots(n) = [k \in 1 .. N |-> [at |-> src + (k - 1) * WordLen, n |-> Lesser(WordLen, n - (k - 1) * WordLen)]]
  BY DEF Sfc!Slots, Sfc!Lesser, Lesser, Words
<1>5. ASSUME NEW k \in 1 .. N
      PROVE  /\ (k - 1) * WordLen \in Nat
             /\ Lesser(WordLen, n - (k - 1) * WordLen) \in 1 .. WordLen
             /\ (k - 1) * WordLen + Lesser(WordLen, n - (k - 1) * WordLen) <= n
  <2> DEFINE a == (k - 1) * WordLen
             b == (N - 1) * WordLen
  <2>1. k - 1 \in Nat /\ N - 1 \in Nat /\ k - 1 <= N - 1
    BY <1>2
  <2>2. a \in Nat /\ b \in Nat /\ a <= b /\ b < n
    BY <1>1, <1>2, <2>1, Multiples
  <2> HIDE DEF a, b
  <2>3. a \in Nat /\ Lesser(WordLen, n - a) \in 1 .. WordLen /\ a + Lesser(WordLen, n - a) <= n
    BY <1>1, <2>2 DEF Lesser
  <2> QED BY <2>3 DEF a
<1> QED BY <1>2, <1>3, <1>4, <1>5

\* What goes over the wire is the next part of the run.
LEMMA WireFacts ==
  ASSUME Sfc!SfcAssumption, SfcTypeInv, NEW n \in 1 .. MaxData, src + n <= length, tbuf = Sfc!Slots(n)
  PROVE  Sfc!Wire = [u \in 1 .. n |-> src + u - 1]
<1> DEFINE N == Words(n, WordLen)
           seqs == [k \in 1 .. N |-> [u \in 1 .. tbuf[k].n |-> Sfc!Source[tbuf[k].at + u - 1]]]
<1> HIDE DEF N
<1>1. /\ N \in Nat \ {0}
      /\ tbuf = [k \in 1 .. N |-> [at |-> src + (k - 1) * WordLen, n |-> Lesser(WordLen, n - (k - 1) * WordLen)]]
      /\ \A k \in 1 .. N : /\ (k - 1) * WordLen \in Nat
                           /\ Lesser(WordLen, n - (k - 1) * WordLen) \in 1 .. WordLen
                           /\ (k - 1) * WordLen + Lesser(WordLen, n - (k - 1) * WordLen) <= n
  BY SlotFacts DEF N
<1>2. Sfc!Wire = Sfc!FlattenSeq(seqs)
  <2>1. DOMAIN tbuf = 1 .. N
    BY <1>1
  <2> QED BY <2>1 DEF Sfc!Wire
<1>3. src \in Nat /\ n \in Nat \ {0} /\ WordLen \in Nat \ {0} /\ src + n <= MaxSize /\ MaxSize \in Nat
  BY SfcConstants DEF SfcTypeInv
<1>4. \A i \in 0 .. MaxSize - 1 : Sfc!Source[i] = i
  BY DEF Sfc!Source
<1>5. ASSUME NEW k \in 1 .. N
      PROVE  [u \in 1 .. tbuf[k].n |-> Sfc!Source[tbuf[k].at + u - 1]] = Piece(n, WordLen, src, k)
  <2> DEFINE a == (k - 1) * WordLen
             l == Lesser(WordLen, n - a)
  <2>1. a \in Nat /\ l \in 1 .. WordLen /\ a + l <= n
    BY <1>1
  <2>2. tbuf[k].n = l /\ tbuf[k].at = src + a
    BY <1>1
  <2>3. Piece(n, WordLen, src, k) = [u \in 1 .. l |-> src + a + u - 1]
    BY DEF Piece
  <2> HIDE DEF a, l
  <2>4. ASSUME NEW u \in 1 .. l PROVE Sfc!Source[src + a + u - 1] = src + a + u - 1
    <3>1. src + a + u - 1 \in 0 .. MaxSize - 1
      BY <2>1, <1>3
    <3> QED BY <3>1, <1>4
  <2> QED BY <2>2, <2>3, <2>4
<1>6. seqs = [k \in 1 .. N |-> Piece(n, WordLen, src, k)]
  BY <1>5
<1> HIDE DEF seqs
<1> QED BY <1>2, <1>3, <1>6, Chunks DEF N

\* Inside a page the next cells are the next addresses.
LEMMA PageCells ==
  ASSUME NEW P \in Nat \ {0}, NEW a \in Nat, NEW k \in Nat, k < P - (a % P)
  PROVE  a - (a % P) + ((a + k) % P) = a + k
<1> DEFINE q == a \div P
           r == a % P
<1>1. q \in Nat /\ r \in 0 .. P - 1 /\ a = P * q + r
  OBVIOUS
<1> HIDE DEF q, r
<1>2. r + k \in 0 .. P - 1 /\ a + k = P * q + (r + k)
  BY <1>1 DEF r
<1>3. ASSUME NEW x \in 0 .. P - 1 PROVE (P * q + x) % P = x
  BY <1>1
<1>4. (a + k) % P = r + k
  BY <1>2, <1>3
<1>5. \A x, y \in Nat : x - y + (y + k) = x + k
  OBVIOUS
<1>6. a - r + (r + k) = a + k
  BY <1>1, <1>5
<1>7. a % P = r
  BY DEF r
<1> QED BY <1>4, <1>6, <1>7

\* The chip's page program, for bytes that do not pass the end of the page.
LEMMA Programs ==
  ASSUME Sfc!SfcAssumption, SfcTypeInv, NEW n \in Nat \ {0}, src + n <= length,
         n <= PageSize - ((first + src) % PageSize),
         NEW b, b = [u \in 1 .. n |-> src + u - 1]
  PROVE  Sfc!PageProgram(b) =
           [a \in DOMAIN mem |-> IF a \in first + src .. first + src + n - 1
                                 THEN Sfc!Source[a - first] ELSE mem[a]]
<1> DEFINE A == first + src
           cell(u) == A - (A % PageSize) + ((A + u - 1) % PageSize)
<1>1. A \in Nat /\ PageSize \in Nat \ {0} /\ src \in Nat /\ first \in Nat /\ src + n <= MaxSize
      /\ MaxSize \in Nat /\ n <= PageSize - (A % PageSize)
  BY SfcConstants DEF SfcTypeInv
<1>2. DOMAIN b = 1 .. n /\ Len(b) = n
  <2>1. b \in [1 .. n -> Int]
    BY <1>1
  <2>2. n \in Nat
    OBVIOUS
  <2> QED BY ONLY <2>1, <2>2
<1> HIDE DEF A
<1>3. ASSUME NEW u \in 1 .. n PROVE cell(u) = A + u - 1
  <2>1. u - 1 \in Nat /\ u - 1 < PageSize - (A % PageSize) /\ A + (u - 1) = A + u - 1
    BY <1>1
  <2>2. A - (A % PageSize) + ((A + (u - 1)) % PageSize) = A + (u - 1)
    <3>1. A \in Nat /\ PageSize \in Nat \ {0} /\ u - 1 \in Nat /\ u - 1 < PageSize - (A % PageSize)
      BY ONLY <1>1, <2>1, Zenon
    <3> QED BY ONLY <3>1, PageCells, ZenonT(40)
  <2> QED BY <2>1, <2>2
<1>4. Sfc!PageProgram(b) =
        [a \in DOMAIN mem |->
           IF \E u \in DOMAIN b : cell(u) = a
           THEN b[CHOOSE u \in DOMAIN b : cell(u) = a /\ \A i \in u + 1 .. Len(b) : cell(i) # a]
           ELSE mem[a]]
  BY DEF Sfc!PageProgram, Sfc!addr, A
<1> HIDE DEF cell
<1>5. ASSUME NEW a \in DOMAIN mem
      PROVE  (IF \E u \in DOMAIN b : cell(u) = a
              THEN b[CHOOSE u \in DOMAIN b : cell(u) = a /\ \A i \in u + 1 .. Len(b) : cell(i) # a]
              ELSE mem[a])
             = IF a \in A .. A + n - 1 THEN Sfc!Source[a - first] ELSE mem[a]
  <2>0. a \in Int
    BY DEF SfcTypeInv
  <2>1. CASE a \in A .. A + n - 1
    <3> DEFINE J == a - A + 1
    <3>1. J \in 1 .. n /\ A + J - 1 = a
      BY <2>0, <2>1, <1>1
    <3> HIDE DEF J
    <3>2. \A u \in DOMAIN b : cell(u) = a => u = J
      BY <3>1, <1>1, <1>2, <1>3
    <3>3. cell(J) = a
      BY <3>1, <1>3
    <3>4. \A i \in J + 1 .. Len(b) : cell(i) # a
      <4> SUFFICES ASSUME NEW i \in J + 1 .. n, cell(i) = a PROVE FALSE
        BY <1>2
      <4>1. i \in 1 .. n /\ i # J
        BY <3>1
      <4> QED BY <4>1, <3>2, <1>2
    <3>5. (CHOOSE u \in DOMAIN b : cell(u) = a /\ \A i \in u + 1 .. Len(b) : cell(i) # a) = J
      BY <3>1, <3>2, <3>3, <3>4, <1>2
    <3>6. b[J] = src + J - 1
      BY <3>1
    <3>7. a - first = src + J - 1 /\ a - first \in 0 .. MaxSize - 1
      <4>1. A = first + src
        BY DEF A
      <4>2. a = first + src + J - 1
        BY <3>1, <4>1
      <4>3. \A x, y, z \in Nat : \A w \in 1 .. n : y + n <= z =>
              x + y + w - 1 - x = y + w - 1 /\ y + w - 1 \in 0 .. z - 1
        OBVIOUS
      <4> QED BY <3>1, <4>2, <4>3, <1>1
    <3>8. Sfc!Source[a - first] = a - first
      BY <3>7 DEF Sfc!Source
    <3>9. J \in DOMAIN b
      BY <3>1, <1>2
    <3> QED BY <2>1, <3>3, <3>5, <3>6, <3>7, <3>8, <3>9
  <2>2. CASE a \notin A .. A + n - 1
    <3>1. ~ \E u \in DOMAIN b : cell(u) = a
      <4> SUFFICES ASSUME NEW u \in 1 .. n, cell(u) = a PROVE FALSE
        BY <1>2
      <4>1. A + u - 1 \in A .. A + n - 1
        BY <1>1
      <4> QED BY <4>1, <1>3, <2>2
    <3> QED BY <3>1, <2>2
  <2> QED BY <2>1, <2>2
<1>6. Sfc!PageProgram(b) = [a \in DOMAIN mem |-> IF a \in A .. A + n - 1 THEN Sfc!Source[a - first] ELSE mem[a]]
  BY <1>4, <1>5
<1> QED BY <1>6 DEF A

LEMMA SfcInit == Sfc!SfcAssumption /\ Sfc!Init => SfcInv
<1> SUFFICES ASSUME Sfc!SfcAssumption, Sfc!Init PROVE SfcInv
  OBVIOUS
<1>1. SfcTypeInv
  <2>1. sr1 \subseteq 2 .. 7 /\ sr2 \subseteq {1, 6}
    BY DEF Sfc!Init, Sfc!SfcAssumption
  <2>2. Cells \in Nat \ {0} /\ MaxSize \in Nat
    BY SfcConstants
  <2>3. mem \in [0 .. Cells - 1 -> Int]
    BY DEF Sfc!Init, Sfc!Erased
  <2>4. first \in 0 .. Cells - 1 /\ length \in 0 .. (IF Cells - first < MaxSize THEN Cells - first ELSE MaxSize)
    BY DEF Sfc!Init, Sfc!Lesser
  <2>5. first \in Nat /\ length \in Nat /\ first + length <= Cells /\ length <= MaxSize
    BY <2>2, <2>4
  <2>6. src = 0 /\ src \in 0 .. length
    BY <2>5 DEF Sfc!Init
  <2> QED BY <2>1, <2>3, <2>5, <2>6 DEF SfcTypeInv, Sfc!Init
<1>2. LockInv
  BY DEF LockInv, Sfc!Init
<1>3. CommandInv
  BY DEF CommandInv, Sfc!Init
<1>4. BufferInv
  <2>1. tbuf = <<>> /\ Len(tbuf) = 0 /\ DOMAIN tbuf = {}
    BY DEF Sfc!Init
  <2>2. MaxData \div WordLen \in Nat
    BY SfcConstants
  <2> QED BY <2>1, <2>2 DEF BufferInv
<1> QED BY <1>1, <1>2, <1>3, <1>4 DEF SfcInv

LEMMA SfcUnlock ==
  ASSUME SfcInv, Sfc!Unlock
  PROVE  /\ SfcInv'
         /\ mem' = mem /\ first' = first /\ length' = length
         /\ Sfc!Programmed' = Sfc!Programmed /\ Sfc!Settings' = Sfc!Settings
<1>0. SfcTypeInv /\ LockInv /\ CommandInv /\ BufferInv
  BY DEF SfcInv
<1>1. /\ vendor' = vendor /\ wel' = wel /\ mem' = mem /\ tbuf' = tbuf /\ first' = first
      /\ length' = length /\ src' = src /\ pc = "unlock" /\ pc' = "next"
  BY DEF Sfc!Unlock, Sfc!run
<1>2. /\ vendor = "macronix" => sr1' = sr1 \ {2, 3, 4, 5, 7}
      /\ vendor \notin {"macronix", "other"} => sr1' = sr1 \ {2, 3, 4, 5, 6, 7}
      /\ vendor # "other" => sr2' = sr2 \ {6}
      /\ vendor = "other" => sr1' = sr1 /\ sr2' = sr2
  BY DEF Sfc!Unlock, Sfc!Mask, Sfc!Mask2
<1>3. /\ sr1' \subseteq sr1 /\ sr2' \subseteq sr2
      /\ vendor # "other" => sr1' \cap {2, 3, 4, 5} = {} /\ 6 \notin sr2'
      /\ vendor = "macronix" => sr1' \cap {6} = sr1 \cap {6}
      /\ vendor # "macronix" => sr2' \cap {1} = sr2 \cap {1}
  BY <1>2
<1>4. SfcTypeInv'
  BY <1>0, <1>1, <1>3 DEF SfcTypeInv
<1>5. LockInv' /\ CommandInv' /\ BufferInv'
  BY <1>0, <1>1, <1>3 DEF LockInv, CommandInv, BufferInv, Sfc!Protected
<1>6. Sfc!Settings' = Sfc!Settings
  BY <1>1, <1>3 DEF Sfc!Settings
<1>7. Sfc!Programmed' = Sfc!Programmed
  BY <1>1, <1>2 DEF Sfc!Programmed, Sfc!Unprotected, Sfc!Protected
<1> QED BY <1>1, <1>4, <1>5, <1>6, <1>7 DEF SfcInv

LEMMA SfcFill ==
  ASSUME Sfc!SfcAssumption, SfcInv, Sfc!Fill
  PROVE  SfcInv' /\ UNCHANGED <<vendor, sr1, sr2, mem, first, length, src>>
<1>0. SfcTypeInv /\ LockInv /\ CommandInv
  BY DEF SfcInv
<1>1. /\ UNCHANGED <<vendor, sr1, sr2, wel, mem, first, length, src>>
      /\ pc = "fill" /\ pc' = "request" /\ tbuf' = <<>> \o Sfc!Slots(Sfc!Amount)
  BY DEF Sfc!Fill, Sfc!chip, Sfc!run, Sfc!LeftBehind
<1>2. wel /\ src < length
  BY <1>0, <1>1 DEF CommandInv
<1> DEFINE n == Sfc!Amount
           N == Words(n, WordLen)
           S == Sfc!Slots(n)
<1>3. n \in 1 .. MaxData
  BY <1>0, <1>2, AmountFacts
<1>4. /\ N \in Nat \ {0} /\ N <= MaxData \div WordLen
      /\ S = [k \in 1 .. N |-> [at |-> src + (k - 1) * WordLen, n |-> Lesser(WordLen, n - (k - 1) * WordLen)]]
      /\ \A k \in 1 .. N : Lesser(WordLen, n - (k - 1) * WordLen) \in 1 .. WordLen
  <2> HIDE DEF n
  <2> QED BY <1>3, SlotFacts
<1> HIDE DEF n, N, S
<1>5. DOMAIN S = 1 .. N /\ S = [k \in 1 .. N |-> S[k]] /\ \A k \in 1 .. N : S[k].n \in 1 .. WordLen
  BY <1>4
<1>6. S \in Seq({S[k] : k \in 1 .. N}) /\ Len(S) = N
  <2>1. S \in [1 .. N -> {S[k] : k \in 1 .. N}]
    BY <1>5
  <2>2. N \in Nat
    BY <1>4
  <2> QED BY <2>1, <2>2
<1>7. tbuf' = S
  BY <1>1, <1>6, ConcatEmptySeq DEF n, S
<1>8. SfcTypeInv'
  BY <1>0, <1>1 DEF SfcTypeInv
<1>9. LockInv' /\ BufferInv'
  <2>1. LockInv'
    BY <1>0, <1>1 DEF LockInv, Sfc!Protected
  <2>2. BufferInv'
    BY <1>4, <1>5, <1>6, <1>7 DEF BufferInv
  <2> QED BY <2>1, <2>2
<1>10. CommandInv'
  <2>1. Sfc!Slots(Sfc!Amount)' = Sfc!Slots(Sfc!Amount)
    BY <1>1 DEF Sfc!Slots, Sfc!Amount, Sfc!Lesser, Sfc!ToPageEnd, Sfc!addr, Sfc!Min
  <2>2. tbuf' = Sfc!Slots(Sfc!Amount)
    BY <1>7 DEF S, n
  <2> QED BY <1>1, <1>2, <2>1, <2>2 DEF CommandInv
<1> QED BY <1>1, <1>8, <1>9, <1>10 DEF SfcInv

\* The command that is sent programs the next bytes of the run, or nothing of a chip
\* that is still locked.
LEMMA SfcRequest ==
  ASSUME Sfc!SfcAssumption, SfcInv, Sfc!Request
  PROVE  /\ SfcInv' /\ UNCHANGED <<vendor, sr1, sr2, first, length>>
         /\ Sfc!Amount \in 1 .. length - src /\ src' = src + Sfc!Amount
         /\ mem' = IF ~Sfc!Protected
                   THEN [a \in DOMAIN mem |-> IF a \in first + src .. first + src + Sfc!Amount - 1
                                              THEN Sfc!Source[a - first] ELSE mem[a]]
                   ELSE mem
<1>0. SfcTypeInv /\ LockInv /\ CommandInv /\ BufferInv
  BY DEF SfcInv
<1> DEFINE n == Sfc!Amount
<1>1. /\ UNCHANGED <<vendor, sr1, sr2, tbuf, first, length>>
      /\ pc = "request" /\ pc' = "next" /\ wel' = FALSE /\ src' = src + n
      /\ mem' = IF wel /\ ~Sfc!Protected THEN Sfc!PageProgram(Sfc!Wire) ELSE mem
  BY DEF Sfc!Request, Sfc!chip, Sfc!run
<1>2. wel /\ src < length /\ tbuf = Sfc!Slots(n)
  BY <1>0, <1>1 DEF CommandInv
<1>3. n \in 1 .. MaxData /\ n <= length - src /\ n <= PageSize - ((first + src) % PageSize)
  BY <1>0, <1>2, AmountFacts
<1> HIDE DEF n
<1>4. src \in Nat /\ length \in Nat /\ n \in Nat \ {0} /\ src + n <= length /\ n \in 1 .. length - src
  BY <1>0, <1>3, SfcConstants DEF SfcTypeInv
<1>5. Sfc!Wire = [u \in 1 .. n |-> src + u - 1]
  BY <1>0, <1>2, <1>3, <1>4, WireFacts
<1>6. Sfc!PageProgram(Sfc!Wire) =
        [a \in DOMAIN mem |-> IF a \in first + src .. first + src + n - 1 THEN Sfc!Source[a - first] ELSE mem[a]]
  BY <1>0, <1>3, <1>4, <1>5, Programs
<1>7. mem' = IF ~Sfc!Protected
             THEN [a \in DOMAIN mem |-> IF a \in first + src .. first + src + n - 1
                                        THEN Sfc!Source[a - first] ELSE mem[a]]
             ELSE mem
  BY <1>1, <1>2, <1>6
<1>8. mem' \in [0 .. Cells - 1 -> Int]
  <2>1. mem \in [0 .. Cells - 1 -> Int] /\ first \in Nat /\ length <= MaxSize /\ MaxSize \in Nat
    BY <1>0, SfcConstants DEF SfcTypeInv
  <2>2. ASSUME NEW a \in 0 .. Cells - 1, a \in first + src .. first + src + n - 1
        PROVE  Sfc!Source[a - first] \in Int
    <3>1. Cells \in Nat
      BY SfcConstants
    <3>2. a - first \in 0 .. MaxSize - 1
      BY <2>1, <2>2, <3>1, <1>4
    <3> QED BY <3>2 DEF Sfc!Source
  <2> QED BY <1>7, <2>1, <2>2
<1>9. SfcTypeInv'
  <2>1. src' \in 0 .. length /\ length' = length /\ first' = first
    BY <1>1, <1>4
  <2>2. wel' \in BOOLEAN /\ pc' \in {"unlock", "next", "fill", "request", "done"}
    BY <1>1
  <2> QED BY <1>0, <1>1, <1>8, <2>1, <2>2 DEF SfcTypeInv
<1>10. LockInv' /\ CommandInv' /\ BufferInv'
  BY <1>0, <1>1 DEF LockInv, CommandInv, BufferInv, Sfc!Protected
<1> QED BY <1>1, <1>4, <1>7, <1>9, <1>10 DEF SfcInv, n

\* The other steps change neither the chip nor how much is sent.
LEMMA SfcQuiet ==
  ASSUME SfcInv, Sfc!WriteEnable \/ Sfc!Return \/ Sfc!Rest \/ UNCHANGED Sfc!vars
  PROVE  SfcInv' /\ UNCHANGED <<vendor, sr1, sr2, mem, first, length, src>>
<1>0. SfcTypeInv /\ LockInv /\ CommandInv /\ BufferInv
  BY DEF SfcInv
<1>1. UNCHANGED <<vendor, sr1, sr2, mem, tbuf, first, length, src>>
  BY DEF Sfc!WriteEnable, Sfc!Return, Sfc!Rest, Sfc!vars, Sfc!chip, Sfc!run
<1>2. /\ wel' \in BOOLEAN /\ pc' \in {"unlock", "next", "fill", "request", "done"}
      /\ pc = "unlock" => pc' = "unlock"
      /\ pc' = "unlock" => pc = "unlock"
      /\ pc' = "fill" => wel' /\ src < length
      /\ pc' = "request" => pc = "request" /\ wel' = wel
  <2>1. CASE Sfc!WriteEnable
    BY <2>1 DEF Sfc!WriteEnable
  <2>2. CASE Sfc!Return
    BY <1>0, <2>2 DEF Sfc!Return, SfcTypeInv
  <2>3. CASE Sfc!Rest \/ UNCHANGED Sfc!vars
    BY <1>0, <2>3 DEF Sfc!Rest, Sfc!vars, SfcTypeInv, CommandInv
  <2> QED BY <2>1, <2>2, <2>3
<1>3. SfcTypeInv' /\ LockInv' /\ BufferInv'
  BY <1>0, <1>1, <1>2 DEF SfcTypeInv, LockInv, BufferInv, Sfc!Protected
<1>4. CommandInv'
  <2>1. Sfc!Slots(Sfc!Amount)' = Sfc!Slots(Sfc!Amount)
    BY <1>1 DEF Sfc!Slots, Sfc!Amount, Sfc!Lesser, Sfc!ToPageEnd, Sfc!addr, Sfc!Min
  <2> QED BY <1>0, <1>1, <1>2, <2>1 DEF CommandInv
<1> QED BY <1>1, <1>3, <1>4 DEF SfcInv

LEMMA SfcStep == Sfc!SfcAssumption /\ SfcInv /\ [Sfc!Next]_(Sfc!vars) => SfcInv'
<1> SUFFICES ASSUME Sfc!SfcAssumption, SfcInv, [Sfc!Next]_(Sfc!vars) PROVE SfcInv'
  OBVIOUS
<1> QED BY SfcUnlock, SfcFill, SfcRequest, SfcQuiet DEF Sfc!Next

LEMMA SfcTypeFromInv == SfcInv => Sfc!TypeOK
  BY DEF SfcInv, SfcTypeInv, BufferInv, Sfc!TypeOK

-----------------------------------------------------------------------------
(* The refinement mapping of ProgramRun.                                   *)

Run == INSTANCE ProgramRun WITH
  Source <- Sfc!Source, Erased <- Sfc!Erased, written <- Sfc!Programmed, settings <- Sfc!Settings

LEMMA RunInit == Sfc!Init => Run!Init
  BY DEF Sfc!Init, Run!Init, Sfc!Programmed

LEMMA RunStep ==
  Sfc!SfcAssumption /\ SfcInv /\ [Sfc!Next]_(Sfc!vars)
    => [Run!Program]_<<mem, first, length, Sfc!Programmed, Sfc!Settings>>
<1> SUFFICES ASSUME Sfc!SfcAssumption, SfcInv, [Sfc!Next]_(Sfc!vars)
             PROVE  [Run!Program]_<<mem, first, length, Sfc!Programmed, Sfc!Settings>>
  OBVIOUS
<1>1. CASE Sfc!Unlock
  BY <1>1, SfcUnlock
<1>2. CASE Sfc!Request
  <2>1. /\ UNCHANGED <<vendor, sr1, sr2, first, length>>
        /\ Sfc!Amount \in 1 .. length - src /\ src' = src + Sfc!Amount
        /\ mem' = IF ~Sfc!Protected
                  THEN [a \in DOMAIN mem |-> IF a \in first + src .. first + src + Sfc!Amount - 1
                                             THEN Sfc!Source[a - first] ELSE mem[a]]
                  ELSE mem
    BY <1>2, SfcRequest
  <2>2. Sfc!Settings' = Sfc!Settings /\ (Sfc!Unprotected' <=> Sfc!Unprotected)
    BY <2>1 DEF Sfc!Settings, Sfc!Unprotected, Sfc!Protected
  <2>3. CASE Sfc!Unprotected
    <3>1. ~Sfc!Protected
      BY <1>2, <2>3 DEF SfcInv, LockInv, Sfc!Request, Sfc!Unprotected
    <3>2. Sfc!Programmed = src /\ Sfc!Programmed' = src'
      BY <2>2, <2>3 DEF Sfc!Programmed
    <3>3. Run!Program
      BY <2>1, <2>2, <3>1, <3>2 DEF Run!Program
    <3> QED BY <3>3
  <2>4. CASE ~Sfc!Unprotected
    <3>1. Sfc!Protected
      BY <2>4 DEF Sfc!Unprotected
    <3>2. Sfc!Programmed = 0 /\ Sfc!Programmed' = 0
      BY <2>2, <2>4 DEF Sfc!Programmed
    <3> QED BY <2>1, <2>2, <3>1, <3>2
  <2> QED BY <2>3, <2>4
<1>3. CASE ~Sfc!Unlock /\ ~Sfc!Request
  <2>1. UNCHANGED <<vendor, sr1, sr2, mem, first, length, src>>
    BY <1>3, SfcFill, SfcQuiet DEF Sfc!Next
  <2> QED BY <2>1 DEF Sfc!Programmed, Sfc!Unprotected, Sfc!Protected, Sfc!Settings
<1> QED BY <1>1, <1>2, <1>3

LEMMA SfcAlways == Sfc!SfcAssumption => (Sfc!Spec => []SfcInv)
<1> SUFFICES ASSUME Sfc!SfcAssumption PROVE Sfc!Spec => []SfcInv
  OBVIOUS
<1>1. Sfc!Init => SfcInv
  BY SfcInit
<1>2. SfcInv /\ [Sfc!Next]_(Sfc!vars) => SfcInv'
  BY SfcStep
<1> QED BY <1>1, <1>2, PTL DEF Sfc!Spec

\* sfc_write sends the run in commands that fit into the command buffer, for every size of
\* page, command and word.
THEOREM SfcTypeCorrect == Sfc!SfcAssumption => (Sfc!Spec => []Sfc!TypeOK)
<1> SUFFICES ASSUME Sfc!SfcAssumption PROVE Sfc!Spec => []Sfc!TypeOK
  OBVIOUS
<1> QED BY SfcAlways, SfcTypeFromInv, PTL

\* sfc_unlock and sfc_write program the run from its start to its end and no other cell,
\* wherever in a page it begins and ends, and keep the quad enable bit.
THEOREM SfcImplementsRun == Sfc!SfcAssumption => (Sfc!Spec => Run!Spec)
<1> SUFFICES ASSUME Sfc!SfcAssumption PROVE Sfc!Spec => Run!Spec
  OBVIOUS
<1>1. SfcInv /\ [Sfc!Next]_(Sfc!vars) => [Run!Program]_<<mem, first, length, Sfc!Programmed, Sfc!Settings>>
  BY RunStep
<1> QED BY <1>1, RunInit, SfcAlways, PTL DEF Sfc!Spec, Run!Spec
=============================================================================
