------------------------------- MODULE ZqCal -------------------------------
(***************************************************************************)
(* t117_fdl/sdram_init.c, dmc_zq_cal: the drive strengths of the memory    *)
(* pads are found with a comparator, going up from the weakest setting and *)
(* down from the strongest one, first for drvn and then for drvp.          *)
(***************************************************************************)
EXTENDS Integers

CONSTANTS
  Levels,  \* 32, the strengths that a field of five bits holds
  Target   \* DDR_DRV_CFG

ZqAssumption == Levels \in Nat \ {0, 1} /\ Target \in Nat

Strengths == 0 .. Levels - 1

VARIABLES
  low, high,  \* per strength, where the comparator surely has and has not changed
  reg,        \* 0x30000008 by fields: drvn, drvp, drv, select (bit 15), on (bit 16)
  tmp,        \* tmp
  inc, deinc, drvn,
  pads,       \* the fields of 0x30000390 and 0x30000490
  pc

chip == <<low, high>>
vars == <<low, high, reg, tmp, inc, deinc, drvn, pads, pc>>

\* The settings between low and high are in the noise of the comparator.
Init ==
  /\ low \in [{"drvn", "drvp"} -> Strengths] /\ high \in [{"drvn", "drvp"} -> Strengths]
  /\ \A s \in {"drvn", "drvp"} : low[s] < high[s]
  /\ reg \in [drvn : {0}, drvp : {0, 1}, drv : {0}, select : {0, 1}, on : {0, 1}]
  /\ tmp = reg
  /\ inc = 0 /\ deinc = 0 /\ drvn = 0
  /\ pads = <<>>
  /\ pc = "target"

Field(s) == IF s = 0 THEN "drvn" ELSE "drvp"

\* Whether the comparator may read as strong enough with the register as it is: bit 17
\* is clear for drvn and set for drvp.
MayBeStrong == reg[Field(reg.select)] > low[Field(reg.select)]
MayBeWeak == reg[Field(reg.select)] < high[Field(reg.select)]

insert_bits(val) == val % Levels

Write(r) == reg' = r /\ tmp' = r

SetTarget ==
  /\ pc = "target"
  /\ Write([reg EXCEPT !.on = 0, !.drv = Target])
  /\ pc' = "up"
  /\ UNCHANGED <<chip, inc, deinc, drvn, pads>>

\* The register for the first setting of a search: bit 15 selects the pad.
Begin(s, r) == [r EXCEPT !.select = s, ![Field(s)] = 0]

\* inc = 0, for drvn and later for drvp
StartUp(s, at, next) ==
  /\ pc = at
  /\ inc' = 0
  /\ Write(Begin(s, tmp))
  /\ pc' = next
  /\ UNCHANGED <<chip, deinc, drvn, pads>>

Strongest == Levels - 1

StrongEnough(s, at, next) ==
  /\ pc = at
  /\ MayBeStrong
  /\ deinc' = Strongest
  /\ Write([reg EXCEPT !.select = s, ![Field(s)] = insert_bits(deinc')])
  /\ pc' = next
  /\ UNCHANGED <<chip, inc, drvn, pads>>

Up_Stuck(i) == i

\* ++inc
Up(i) == i + 1

TooWeak(s, at) ==
  /\ pc = at
  /\ MayBeWeak
  /\ inc' = Up(inc)
  /\ Write([tmp EXCEPT ![Field(s)] = insert_bits(inc')])
  /\ UNCHANGED <<chip, deinc, drvn, pads, pc>>

TooStrong(s, at) ==
  /\ pc = at
  /\ MayBeStrong
  /\ deinc' = deinc - 1
  /\ Write([tmp EXCEPT ![Field(s)] = insert_bits(deinc')])
  /\ UNCHANGED <<chip, inc, drvn, pads, pc>>

Middle(i, d) == (i + d) \div 2

FoundN ==
  /\ pc = "downN"
  /\ MayBeWeak
  /\ drvn' = Middle(inc, deinc)
  /\ Write([reg EXCEPT !.drvn = drvn'])
  /\ pc' = "startP"
  /\ UNCHANGED <<chip, inc, deinc, pads>>

Pads_Swapped(p, n) == [drvp |-> n, drvn |-> p]

Pads(p, n) == [drvp |-> p, drvn |-> n]

FoundP ==
  /\ pc = "downP"
  /\ MayBeWeak
  /\ Write([reg EXCEPT !.drvp = Middle(inc, deinc), !.on = 1])
  /\ pads' = Pads(Middle(inc, deinc), drvn)
  /\ pc' = "done"
  /\ UNCHANGED <<chip, inc, deinc, drvn>>

Rest == pc = "done" /\ UNCHANGED vars

Next ==
  \/ SetTarget
  \/ StartUp(0, "up", "upN") \/ TooWeak(0, "upN") \/ StrongEnough(0, "upN", "downN")
  \/ TooStrong(0, "downN") \/ FoundN
  \/ StartUp(1, "startP", "upP") \/ TooWeak(1, "upP") \/ StrongEnough(1, "upP", "downP")
  \/ TooStrong(1, "downP") \/ FoundP
  \/ Rest

Spec == Init /\ [][Next]_vars /\ WF_vars(Next)
-----------------------------------------------------------------------------
(* Properties.                                                             *)

\* Neither search leaves the range of the field.
TypeOK ==
  /\ reg \in [drvn : Strengths, drvp : Strengths, drv : {0, Target}, select : {0, 1}, on : {0, 1}]
  /\ inc \in Strengths /\ deinc \in Strengths /\ drvn \in Strengths

\* When both searches have ended, each pad has the strength found for it, between the
\* two answers of its comparator, and the calibration register keeps the same two.
Calibrated ==
  pc = "done" =>
    /\ \A s \in {"drvn", "drvp"} : pads[s] \in low[s] .. high[s]
    /\ reg.drvn = pads.drvn /\ reg.drvp = pads.drvp /\ reg.on = 1 /\ reg.drv = Target

Ended == pc = "done"
=============================================================================
