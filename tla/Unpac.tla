------------------------------- MODULE Unpac -------------------------------
(***************************************************************************)
(* unpac/unpac.c: a .pac archive is a head, a directory of entries and the *)
(* data of the files.  The program walks through the directory and goes to *)
(* the data of a file and back with one file position.                     *)
(***************************************************************************)
EXTENDS Integers, FiniteSets, Sequences

CONSTANTS
  Archives,  \* the archives considered: entries, data cells, and how many pac_size counts
  Patterns,  \* the lists of names given on the command line
  Chunk      \* 0x1000, the bytes copied at a time

\* A name is a sequence of characters; "u" stands for one outside ASCII.
Name == Seq({"a", "b", "u", "/"})

UnpacAssumption ==
  /\ Archives \subseteq [entries : Seq([id : Name, name : Name, size : Nat, offset : Nat]), cells : Nat, total : Nat]
  /\ Patterns \subseteq Seq(Seq({"a", "b", "?", "*"}))
  /\ Chunk \in Nat \ {0}

VARIABLES
  mode,    \* MODE_EXTRACT, MODE_LIST or MODE_CHECK
  arc,     \* the archive
  args,    \* names
  i,       \* entry the loop is at
  pos,     \* file position: an entry of the directory, or a data cell
  left,    \* l, bytes still to copy
  files,   \* what was written: file name to content
  seen,    \* entries printed or extracted
  summed,  \* data cells that went into the check sum
  pc

vars == <<mode, arc, args, i, pos, left, files, seen, summed, pc>>

Dir(n) == [in |-> "dir", at |-> n]
Data(n) == [in |-> "data", at |-> n]

ToSum_Head == arc.total + 1

\* l = head.pac_size - sizeof(head)
ToSum == arc.total

Init ==
  /\ mode \in {"extract", "list", "check"}
  /\ arc \in Archives
  /\ args \in Patterns
  /\ mode = "check" => args = <<>>
  /\ i = 1
  /\ pos = Dir(1)
  /\ left = ToSum
  /\ files = << >>
  /\ seen = {}
  /\ summed = {}
  /\ pc = IF mode = "check" THEN "sum" ELSE "loop"

-----------------------------------------------------------------------------
(* Names.                                                                  *)

\* u16_to_u8
Converted(name) == [j \in DOMAIN name |-> IF name[j] = "u" THEN "?" ELSE name[j]]

\* check_path
Safe(name) == name # <<>> /\ \A j \in DOMAIN name : name[j] # "/"

\* compare_u8_u16 without going back behind a wildcard.
RECURSIVE Compare_Greedy(_, _)
Compare_Greedy(d, s) ==
  CASE d = <<>>      -> s = <<>>
    [] d # <<>> /\ d[1] = "*" ->
         LET fits == { k \in 0 .. Len(s) : Len(d) > 1 => k < Len(s) /\ s[k + 1] = d[2] }
         IN fits # {} /\ LET k == CHOOSE k \in fits : \A j \in fits : k <= j
                         IN Compare_Greedy(Tail(d), SubSeq(s, k + 1, Len(s)))
    [] OTHER -> s # <<>> /\ d[1] \in {"?", s[1]} /\ Compare_Greedy(Tail(d), Tail(s))

\* compare_u8_u16
RECURSIVE Compare(_, _)
Compare(d, s) ==
  CASE d = <<>>      -> s = <<>>
    [] d # <<>> /\ d[1] = "*" -> \E k \in 0 .. Len(s) : Compare(Tail(d), SubSeq(s, k + 1, Len(s)))
    [] OTHER         -> s # <<>> /\ d[1] \in {"?", s[1]} /\ Compare(Tail(d), Tail(s))

Entry == arc.entries[i]

Selected(e) ==
  \/ args = <<>>
  \/ \E j \in DOMAIN args : Compare(args[j], e.name) \/ (e.id # <<>> /\ Compare(args[j], e.id))

\* Entries without a name, an offset or a size are not extracted.
IsFile(e) == e.name # <<>> /\ e.offset # 0 /\ e.size # 0

Considered_File(e) == IsFile(e)

Considered(e) == mode = "extract" => IsFile(e)

-----------------------------------------------------------------------------
(* The loop over the directory.                                            *)

Continue == i' = i + 1 /\ pc' = "loop"

\* READ1(file): what is not an entry has another struct_size.
BadEntry ==
  /\ pc = "loop"
  /\ i <= Len(arc.entries)
  /\ pos # Dir(i)
  /\ pc' = "exit"
  /\ UNCHANGED <<mode, arc, args, i, pos, left, files, seen, summed>>

ReadEntry ==
  /\ pc = "loop"
  /\ i <= Len(arc.entries)
  /\ pos = Dir(i)
  /\ pos' = Dir(i + 1)
  /\ IF Considered(Entry) /\ Selected(Entry)
     THEN /\ IF mode = "list" THEN seen' = seen \cup {i} /\ Continue
             ELSE seen' = seen /\ i' = i /\ pc' = "open"
     ELSE Continue /\ UNCHANGED seen
  /\ UNCHANGED <<mode, arc, args, left, files, summed>>

Seek_Stay == pos

\* fseeko(fi, pac_offset, SEEK_SET)
Seek == Data(Entry.offset)

\* The position changes before the name is looked at.
Open ==
  /\ pc = "open"
  /\ pos' = Seek
  /\ \/ /\ ~Safe(Converted(Entry.name))
        /\ Continue
        /\ UNCHANGED <<left, files>>
     \/ /\ Safe(Converted(Entry.name))
        /\ files' = [n \in DOMAIN files \cup {Converted(Entry.name)} |->
                       IF n = Converted(Entry.name) THEN <<>> ELSE files[n]]
        /\ left' = Entry.size
        /\ pc' = "copy"
        /\ i' = i
  /\ UNCHANGED <<mode, arc, args, seen, summed>>

\* n = l > chunk ? chunk : l
Amount == IF left > Chunk THEN Chunk ELSE left

\* READ and fwrite of one chunk; the archive may be cut off.
Copy ==
  /\ pc = "copy"
  /\ left > 0
  /\ \/ pos.at + Amount > arc.cells /\ pc' = "exit" /\ UNCHANGED <<pos, left, files>>
     \/ /\ pos.at + Amount <= arc.cells
        /\ files' = [files EXCEPT ![Converted(Entry.name)] = @ \o [j \in 1 .. Amount |-> pos.at + j - 1]]
        /\ pos' = Data(pos.at + Amount)
        /\ left' = left - Amount
        /\ pc' = "copy"
  /\ UNCHANGED <<mode, arc, args, i, seen, summed>>

Return_Here == Dir(i)

\* sizeof(head) + (i + 1) * sizeof(sprd_file_t)
Return == Dir(i + 1)

Close ==
  /\ pc = "copy"
  /\ left <= 0
  /\ pos' = Return
  /\ seen' = seen \cup {i}
  /\ Continue
  /\ UNCHANGED <<mode, arc, args, left, files, summed>>

\* MODE_CHECK: the CRC over what pac_size counts behind the head.
SumChunk ==
  /\ pc = "sum"
  /\ left > 0
  /\ \/ /\ Cardinality(summed) + Amount > arc.cells
        /\ pc' = "exit"
        /\ UNCHANGED <<left, summed>>
     \/ /\ Cardinality(summed) + Amount <= arc.cells
        /\ summed' = summed \cup Cardinality(summed) .. Cardinality(summed) + Amount - 1
        /\ left' = left - Amount
        /\ UNCHANGED pc
  /\ UNCHANGED <<mode, arc, args, i, pos, files, seen>>

Finish ==
  /\ \/ pc = "loop" /\ i > Len(arc.entries)
     \/ pc = "sum" /\ left <= 0
  /\ pc' = "done"
  /\ UNCHANGED <<mode, arc, args, i, pos, left, files, seen, summed>>

Rest == pc \in {"done", "exit"} /\ UNCHANGED vars

Next ==
  BadEntry \/ ReadEntry \/ Open \/ Copy \/ Close \/ SumChunk \/ Finish \/ Rest

Spec == Init /\ [][Next]_vars
-----------------------------------------------------------------------------
(* Properties.                                                             *)

\* The position is an entry or a place in the data; no more is copied or summed than
\* there was to do.
TypeOK ==
  /\ i \in 1 .. Len(arc.entries) + 1
  /\ pos.in \in {"dir", "data"} /\ pos.at \in Nat
  /\ left \in Nat
  /\ seen \subseteq DOMAIN arc.entries
  /\ pc \in {"loop", "open", "copy", "sum", "done", "exit"}

\* A pattern matches a name: every part of it stands for a piece of the name.
Matches(p, s) ==
  \E cut \in [0 .. Len(p) -> 0 .. Len(s)] :
    /\ cut[0] = 0
    /\ cut[Len(p)] = Len(s)
    /\ \A j \in 1 .. Len(p) :
         IF p[j] = "*" THEN cut[j - 1] <= cut[j]
         ELSE cut[j] = cut[j - 1] + 1 /\ p[j] \in {"?", s[cut[j]]}

Chosen(e) ==
  args = <<>> \/ \E j \in DOMAIN args : Matches(args[j], e.name) \/ (e.id # <<>> /\ Matches(args[j], e.id))

\* A list shows exactly the entries whose name or id matches one of the patterns,
\* wherever the wildcards stand.
ListsChosen ==
  mode = "list" /\ pc = "done" => seen = { n \in DOMAIN arc.entries : Chosen(arc.entries[n]) }

\* Extracted files have the bytes the directory names for them, however their size
\* relates to the chunk, unless two entries have names that are the same after
\* conversion.
FilesRight ==
  \A n \in seen :
    LET e == arc.entries[n]
        name == Converted(e.name)
    IN mode = "extract" /\ (\A o \in DOMAIN arc.entries \ {n} : Converted(arc.entries[o].name) # name) =>
         files[name] = [j \in 1 .. e.size |-> e.offset + j - 1]

\* Entries that are to be extracted, and those of them whose name is no file name.
Wanted == { n \in DOMAIN arc.entries : IsFile(arc.entries[n]) /\ Chosen(arc.entries[n]) }
Refused == { n \in Wanted : ~Safe(Converted(arc.entries[n].name)) }

\* The data of the entry is not all there.
CutOff(n) == arc.entries[n].offset + arc.entries[n].size > arc.cells

\* extract writes the wanted files in the order of the directory and none whose name is
\* refused, although it leaves the directory for each of them. It stops early only at
\* data that is cut off or at the entry behind a refused name: the loop goes on there
\* with the position in the data.
ExtractsChosen ==
  mode = "extract" =>
    /\ pc = "done" => seen = Wanted \ Refused
    /\ pc = "exit" =>
         /\ (i \in Wanted /\ CutOff(i)) \/ i - 1 \in Refused
         /\ seen = { n \in Wanted \ Refused : n < i }

\* Without names on the command line every file of a complete archive is extracted,
\* those with a name that is refused excepted.
ExtractsEvery ==
  mode = "extract" /\ args = <<>> /\ pc \in {"done", "exit"} /\ (\A n \in Wanted : ~CutOff(n)) =>
    Wanted \ Refused \subseteq seen

\* check sums every cell that the head counts, and gives up only where the file is shorter.
ChecksAll ==
  mode = "check" =>
    /\ pc = "done" => summed = 0 .. arc.total - 1
    /\ pc = "exit" => arc.total > arc.cells

=============================================================================
