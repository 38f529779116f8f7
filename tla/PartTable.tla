----------------------------- MODULE PartTable -----------------------------
(***************************************************************************)
(* The partition table of a phone, saved by partition_list of spd_dump.c,  *)
(* edited by the user and read back by scan_xml_partitions for             *)
(* repartition. A file is a sequence of tokens.                            *)
(***************************************************************************)
EXTENDS Integers, SequencesExt, FiniteSetsExt

CONSTANTS
  Names,    \* partition names
  LongName, \* one of them, too long to have an end
  Sizes,    \* sizes in a table of the phone, in sectors
  Unit,     \* 1 << sh: sectors of the unit of partition_list
  Unit4k,   \* the same for partition_list_4k
  Rest,     \* ~0: the partition that has what is left
  Parts,    \* bound on the partitions of the phone
  MaxParts, \* 0xffff / 0x4c
  Edits     \* bound on the changes of the user

PartAssumption ==
  /\ LongName \in Names /\ Sizes \subseteq Nat /\ Rest \in Nat
  /\ Unit \in Nat \ {0} /\ Unit4k \in Nat \ {0} /\ Unit % Unit4k = 0
  /\ Parts \in Nat /\ MaxParts \in Nat /\ Edits \in Nat

VARIABLES
  table,   \* the partitions of the phone
  file,
  wrong,   \* the file was written with a unit that does not divide the sizes
  edited,  \* kinds of the tokens that the user has put in or taken out
  edits,
  p,       \* token that is next to be read
  stage,
  buf,     \* the partitions found
  sent,
  pc

vars == <<table, file, wrong, edited, edits, p, stage, buf, sent, pc>>
scan == <<p, stage, buf>>

Part(name, size) == [t |-> "part", name |-> name, size |-> size]
Tok(t) == [t |-> t]

Tables == UNION { [1 .. n -> [name : Names, size : Sizes]] : n \in 0 .. Parts }

Init ==
  /\ table \in Tables
  /\ file = <<>>
  /\ wrong = FALSE
  /\ edited = {}
  /\ edits = 0
  /\ p = 1
  /\ stage = 0
  /\ buf = <<>>
  /\ sent = << >>
  /\ pc = "start"

-----------------------------------------------------------------------------
(* partition_list                                                          *)

\* mask & ((1 << sh) - 1)
WrongUnit(unit) == \E k \in DOMAIN table : table[k].size % unit # 0

Listed_Sectors(unit) ==
  [k \in DOMAIN table |-> Part(table[k].name, IF k = Len(table) THEN Rest ELSE table[k].size)]

Listed(unit) ==
  [k \in DOMAIN table |-> Part(table[k].name, IF k = Len(table) THEN Rest ELSE table[k].size \div unit)]

ErrorTag_None(unit) == <<>>

ErrorTag(unit) == IF WrongUnit(unit) THEN <<Tok("error")>> ELSE <<>>

\* copy_from_wstr finds no end of the name: the program exits, with the file begun
BadName == { k \in DOMAIN table : table[k].name = LongName }

\* fn is a file, or "-" for none
PartitionList(unit, fn) ==
  /\ pc = "start"
  /\ wrong' = WrongUnit(unit)
  /\ IF fn = "-"
       THEN /\ pc' = IF BadName # {} THEN "exit" ELSE IF WrongUnit(unit) THEN "crash" ELSE "listed"
            /\ UNCHANGED file
       ELSE /\ pc' = "edit"
            /\ file' = <<Tok("open")>> \o
                 (IF BadName # {} THEN SubSeq(Listed(unit), 1, Min(BadName) - 1)
                  ELSE Listed(unit) \o ErrorTag(unit) \o <<Tok("close")>>)
  /\ UNCHANGED <<table, edited, edits, scan, sent>>

-----------------------------------------------------------------------------
(* The user.                                                               *)

Tokens == { Tok(t) : t \in {"open", "close", "error", "comment", "text", "zero"} }
          \cup { Part(n, 1) : n \in Names }

Insert(k, tok) ==
  /\ pc = "edit"
  /\ edits < Edits
  /\ file' = InsertAt(file, k, tok)
  /\ edited' = edited \cup {tok.t}
  /\ edits' = edits + 1
  /\ UNCHANGED <<table, wrong, scan, sent, pc>>

Delete(k) ==
  /\ pc = "edit"
  /\ edits < Edits
  /\ edited' = edited \cup {file[k].t}
  /\ file' = RemoveAt(file, k)
  /\ edits' = edits + 1
  /\ UNCHANGED <<table, wrong, scan, sent, pc>>

-----------------------------------------------------------------------------
(* scan_xml_partitions                                                     *)

Repartition ==
  /\ pc = "edit"
  /\ pc' = "scan"
  /\ UNCHANGED <<table, file, wrong, edited, edits, scan, sent>>

Token == file[p]

Opened_Again == 1

\* stage += !memcmp(p, part1, part1_len)
Opened == stage + 1

\* a partition whose name sscanf can hold, and room for it
Fits == Token.t = "part" /\ Token.name # LongName /\ Len(buf) < MaxParts

\* What a token does in each stage; "exit" for an error.
Outside ==
  IF Token.t = "open"
    THEN stage' = Opened /\ pc' = (IF Opened > 2 THEN "exit" ELSE pc) /\ buf' = buf
    ELSE UNCHANGED <<stage, buf, pc>>

Inside ==
  IF Token.t = "close" THEN stage' = stage + 1 /\ UNCHANGED <<buf, pc>>
  ELSE IF Fits THEN buf' = Append(buf, [name |-> Token.name, size |-> Token.size]) /\ UNCHANGED <<stage, pc>>
  ELSE pc' = "exit" /\ UNCHANGED <<stage, buf>>

ScanToken ==
  /\ pc = "scan"
  /\ p <= Len(file)
  /\ p' = p + 1
  /\ IF Token.t = "zero" THEN pc' = "exit" /\ UNCHANGED <<stage, buf>>
     ELSE IF Token.t = "comment" THEN UNCHANGED <<stage, buf, pc>>
     ELSE IF stage = 1 THEN Inside
     ELSE Outside
  /\ UNCHANGED <<table, file, wrong, edited, edits, sent>>

ScanEnd ==
  /\ pc = "scan"
  /\ p > Len(file)
  /\ pc' = IF stage = 2 THEN "confirm" ELSE "exit"
  /\ UNCHANGED <<table, file, wrong, edited, edits, scan, sent>>

\* check_confirm, then BSL_CMD_REPARTITION
Confirm(yes) ==
  /\ pc = "confirm"
  /\ sent' = IF yes THEN <<buf>> ELSE sent
  /\ pc' = IF yes THEN "done" ELSE "exit"
  /\ UNCHANGED <<table, file, wrong, edited, edits, scan>>

Halt == pc \in {"done", "exit", "listed", "crash"} /\ UNCHANGED vars

Next ==
  \/ \E unit \in {Unit, Unit4k}, fn \in {"file", "-"} : PartitionList(unit, fn)
  \/ \E tok \in Tokens : \E k \in 1 .. Len(file) + 1 : Insert(k, tok)
  \/ \E k \in DOMAIN file : Delete(k)
  \/ Repartition \/ ScanToken \/ ScanEnd
  \/ \E yes \in BOOLEAN : Confirm(yes)
  \/ Halt

Spec == Init /\ [][Next]_vars
-----------------------------------------------------------------------------
(* Properties.                                                             *)

\* The buffer holds at most the partitions it has room for, and there are three stages.
TypeOK ==
  /\ stage \in 0 .. 3
  /\ Len(buf) <= MaxParts
  /\ \A k \in DOMAIN buf : buf[k].name \in Names \ {LongName}
  /\ pc \in {"start", "listed", "crash", "edit", "scan", "confirm", "done", "exit"}

At(t) == { k \in DOMAIN file : file[k].t = t }

\* One list, with nothing in it but partitions and comments.
OneList ==
  /\ Cardinality(At("open")) = 1
  /\ At("zero") = {}
  /\ \E c \in At("close") :
       \A o \in At("open") :
         /\ o < c
         /\ \A k \in o + 1 .. c - 1 : file[k].t \in {"part", "comment"}

PartsOf(toks) ==
  LET ps == SelectSeq(toks, LAMBDA x : x.t = "part")
  IN [k \in DOMAIN ps |-> [name |-> ps[k].name, size |-> ps[k].size]]

Body == SubSeq(file, Min(At("open")) + 1, Min({ c \in At("close") : c > Min(At("open")) }) - 1)

\* A file is accepted if and only if it has one list of partitions, as many as there is
\* room for; the table that is sent is that list, in its order.
SentAsListed ==
  /\ pc = "confirm" \/ sent # << >> => OneList /\ buf = PartsOf(Body)
  /\ sent # << >> => sent = <<buf>>
  /\ pc = "exit" /\ p > 1 /\ ~(p > Len(file) /\ stage = 2) =>
       ~(OneList /\ Len(PartsOf(Body)) <= MaxParts /\ \A k \in DOMAIN PartsOf(Body) : PartsOf(Body)[k].name # LongName)

\* A table that is saved and sent back without a change gives every partition its name
\* and its size, and the last one what is left.
RoundTrip ==
  sent # << >> /\ edits = 0 =>
    /\ Len(sent[1]) = Len(table)
    /\ \E unit \in {Unit, Unit4k} : \A k \in DOMAIN table :
         /\ sent[1][k].name = table[k].name
         /\ sent[1][k].size = Rest \/ sent[1][k].size * unit = table[k].size
         /\ sent[1][k].size = Rest <=> k = Len(table)

\* A table that was saved in the wrong unit is never sent, whatever the user does to the
\* partitions in it.
WrongUnitRefused == sent # << >> /\ wrong => edited \ {"part", "comment"} # {}

=============================================================================
