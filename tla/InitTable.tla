----------------------------- MODULE InitTable -----------------------------
(***************************************************************************)
(* print_init_table of fphelper and fphelper_t117: from a dump of the      *)
(* firmware, find the address it runs at by the functions of its init      *)
(* table, and save the parts of memory that the firmware fills when it     *)
(* starts. Beside it the processor works through the same table.           *)
(***************************************************************************)
EXTENDS Integers, SequencesExt, FiniteSetsExt

CONSTANTS
  Base,     \* address that the firmware runs at, above all of the RAM
  Size,     \* bytes of the dump
  Ram,      \* bytes of RAM, from address 0
  Offset,   \* by function, where it is in the firmware
  Entries,  \* entries that a table may have
  MaxEntries

Funs == {"lz", "copy", "zero", "nop"}

InitAssumption ==
  /\ Size \in Nat \ {0} /\ Ram \in Nat /\ Base \in Nat /\ Base >= Ram /\ MaxEntries \in Nat
  /\ DOMAIN Offset = Funs /\ \A f \in Funs : Offset[f] \in Nat \ {0}
  /\ IsInjective(Offset)
  /\ \A e \in Entries : e.fn \in Funs /\ {e.src, e.dst, e.len} \subseteq Nat

NoFile == 0

VARIABLES
  t117,     \* which of the two programs
  table,
  detected, \* functions whose code was recognised
  lzdec_fn, \* the type of the compression is known
  found_fwaddr, fwaddr,
  ps_size,  \* bytes in front of the first part that is moved
  i,
  files,    \* those saved: the address in the name, and for each byte the address it
            \* belongs to, its value, and the value that the processor puts there
  fo,       \* the one that is open
  next,
  mem,      \* what the processor reads
  pc

vars == <<t117, table, detected, lzdec_fn, found_fwaddr, fwaddr, ps_size, i, files, fo, next, mem, pc>>
input == <<t117, table, detected, lzdec_fn>>

Used(tab) == { tab[k].fn : k \in DOMAIN tab }

Tables == UNION { [1 .. n -> Entries] : n \in 1 .. MaxEntries }

\* Areas of a table do not overlap, and only the firmware of the t117 copies parts within
\* the RAM.
Valid(tab, ums) ==
  /\ \A j, k \in DOMAIN tab : j < k =>
       tab[j].dst + tab[j].len <= tab[k].dst \/ tab[k].dst + tab[k].len <= tab[j].dst
  /\ ~ums => "nop" \notin Used(tab) /\ \A k \in DOMAIN tab : tab[k].fn # "zero" => tab[k].src >= Base

\* Functions that are not linked, not known or not in the order expected are not
\* recognised; the nop of the t117 always is. Behind a lz of an unknown type nothing is.
Init ==
  /\ t117 \in BOOLEAN
  /\ table \in { tab \in Tables : Valid(tab, t117) }
  /\ \E d \in SUBSET {"lz", "copy", "zero"} : detected = d \cup (IF t117 THEN {"nop"} ELSE {})
  /\ \/ lzdec_fn = ("lz" \in detected)
     \/ ~t117 /\ detected = {"lz"} /\ lzdec_fn = FALSE
  /\ found_fwaddr = FALSE
  /\ fwaddr = 0
  /\ ps_size = 0
  /\ i = 1
  /\ files = <<>>
  /\ fo = NoFile
  /\ next = 0
  /\ mem = [a \in 0 .. Base + 2 * Size |-> IF a >= Base THEN <<"dump", a - Base>> ELSE <<"ram">>]
  /\ pc = "guess"

-----------------------------------------------------------------------------

\* p[3]: the function of an entry, as an address
Fn(e) == Base + Offset[e.fn]

\* All entries have one of the functions, if the first one has j.
Fits(j) ==
  LET a == Fn(table[1]) - Offset[j]
  IN \A k \in DOMAIN table : \E f \in detected : Fn(table[k]) - a = Offset[f]

Unique_Any(x) == x # {}

\* x && !(x & (x - 1))
Unique(x) == Cardinality(x) = 1

\* p2[3] == copy_addr and the like: the function that the program takes an entry to have
Is(e, f, fw) == f \in detected /\ Fn(e) - fw = Offset[f]

Moved(e, fw) == ~Is(e, "zero", fw) /\ ~Is(e, "nop", fw) /\ e.src >= fw

PsSize(fw) == Min({Size} \cup { table[k].src - fw : k \in { j \in DOMAIN table : Moved(table[j], fw) } })

Guess ==
  LET x == { j \in detected : Fits(j) }
  IN /\ pc = "guess"
     /\ found_fwaddr' = Unique(x)
     /\ fwaddr' = IF x = {} THEN 0 ELSE Fn(table[1]) - Offset[CHOOSE j \in x : TRUE]
     /\ ps_size' = IF found_fwaddr' THEN PsSize(fwaddr') ELSE 0
     /\ pc' = IF found_fwaddr' THEN "extract" ELSE "done"
     /\ UNCHANGED <<input, i, files, fo, next, mem>>

-----------------------------------------------------------------------------
(* The loop over the entries.                                              *)

Entry == table[i]

Copied_Any == { j \in 1 .. i - 1 : table[j].dst = Entry.src }

\* the entries before that copy to where this one reads
Copied == { j \in 1 .. i - 1 : table[j].dst = Entry.src /\ Is(table[j], "copy", fwaddr) }

\* For the case where compressed data is copied and then decompressed.
Source == IF t117 /\ Copied # {} THEN table[Min(Copied)].src ELSE Entry.src

\* continue
Skipped ==
  \/ Source < fwaddr
  \/ Source - fwaddr >= Size
  \/ ~(Is(Entry, "copy", fwaddr) \/ (lzdec_fn /\ Is(Entry, "lz", fwaddr)))

\* What the processor writes: a decoded byte is known by the stream it comes from.
Runs(e, k) ==
  CASE e.fn = "copy" -> mem[e.src + k]
    [] e.fn = "lz" -> <<"decoded", mem[e.src], k>>
    [] e.fn = "zero" -> <<"zero">>
    [] OTHER -> mem[e.dst + k]

Run == mem' = [a \in DOMAIN mem |-> IF a \in Entry.dst .. Entry.dst + Entry.len - 1
                                      THEN Runs(Entry, a - Entry.dst) ELSE mem[a]]

\* r bytes of the entry, as they are saved
Chunk(r) ==
  LET o == Source - fwaddr
  IN [k \in 1 .. r |-> [addr |-> Entry.dst + k - 1,
                        val |-> IF Is(Entry, "copy", fwaddr) THEN <<"dump", o + k - 1>> ELSE <<"decoded", <<"dump", o>>, k - 1>>,
                        cpu |-> Runs(Entry, k - 1)]]

\* Bytes that there are: a copy ends with the dump, a stream may be damaged.
Lengths ==
  IF Is(Entry, "copy", fwaddr) THEN {Min({Entry.len, Size - (Source - fwaddr)})} ELSE 0 .. Entry.len

Skip ==
  /\ pc = "extract"
  /\ i <= Len(table)
  /\ Skipped
  /\ Run
  /\ i' = i + 1
  /\ UNCHANGED <<input, found_fwaddr, fwaddr, ps_size, files, fo, next, pc>>

NewFile_First == fo = NoFile

\* !fo || p2[1] != next
NewFile == fo = NoFile \/ Entry.dst # next

\* A file that cannot be opened leaves nothing to write to.
Save(r, opens) ==
  /\ pc = "extract"
  /\ i <= Len(table)
  /\ ~Skipped
  /\ r \in Lengths
  /\ LET fs == IF NewFile /\ opens THEN Append(files, [addr |-> Entry.dst, bytes |-> <<>>]) ELSE files
         f == IF NewFile THEN IF opens THEN Len(fs) ELSE NoFile ELSE fo
     IN /\ files' = IF f = NoFile THEN fs ELSE [fs EXCEPT ![f].bytes = @ \o Chunk(r)]
        /\ fo' = f
        /\ next' = Entry.dst + (IF f = NoFile THEN 0 ELSE r)
  /\ Run
  /\ i' = i + 1
  /\ UNCHANGED <<input, found_fwaddr, fwaddr, ps_size, pc>>

Close ==
  /\ pc = "extract"
  /\ i > Len(table)
  /\ fo' = NoFile
  /\ pc' = "done"
  /\ UNCHANGED <<input, found_fwaddr, fwaddr, ps_size, i, files, next, mem>>

Halt == pc = "done" /\ UNCHANGED vars

Next ==
  \/ Guess \/ Skip \/ Close \/ Halt
  \/ \E r \in 0 .. Ram, opens \in BOOLEAN : Save(r, opens)

Spec == Init /\ [][Next]_vars
-----------------------------------------------------------------------------
(* Properties.                                                             *)

\* The open file is one of those that exist, and values are looked for in the dump.
TypeOK ==
  /\ i \in 1 .. MaxEntries + 1
  /\ fo \in 0 .. Len(files)
  /\ ps_size \in 0 .. Size
  /\ \A f \in DOMAIN files : \A k \in DOMAIN files[f].bytes :
       LET v == files[f].bytes[k].val
       IN (IF v[1] = "dump" THEN v[2] ELSE v[2][2]) \in 0 .. Size - 1
  /\ pc \in {"guess", "extract", "done"}

\* The table has only functions that were recognised. If others are among them, an address
\* that fits is not the one of the firmware: nothing in the program tells the two apart.
Recognised == Used(table) \subseteq detected

\* An address that is reported for a table of recognised functions is the one that the
\* firmware runs at; when two fit, none is reported.
GuessRight == found_fwaddr /\ Recognised => fwaddr = Base

\* Every byte of a file is at its place: the file begins at the address in its name and
\* goes on without a gap, also after a part that could not be decoded to its end.
FilesPlaced ==
  \A f \in DOMAIN files : \A k \in DOMAIN files[f].bytes :
    files[f].bytes[k].addr = files[f].addr + k - 1

\* What is saved for a part of memory, with a table of recognised functions, is what the
\* processor puts there, also when it first copies a compressed part into RAM.
SavedRight ==
  Recognised => \A f \in DOMAIN files : \A k \in DOMAIN files[f].bytes :
    files[f].bytes[k].val = files[f].bytes[k].cpu
=============================================================================
