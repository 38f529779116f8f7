------------------------------- MODULE SdBoot -------------------------------
(***************************************************************************)
(* fphelper/main.c, sdboot_helper: from a dump of the flash the program    *)
(* finds a page for the sdboot binary and prints the spd_dump commands     *)
(* that install and remove it.  Here they are also carried out, one by     *)
(* one, and may be cut short.                                              *)
(***************************************************************************)
EXTENDS Integers, Sequences, FiniteSetsExt

CONSTANTS
  Pages,    \* number of 4K pages of the flash
  Block,    \* 8, pages of an nvram block
  FourMB,   \* the page at 4 MB; SC6530 and SC6531 start nothing behind it directly
  MaxCuts   \* how often a list of commands is cut short (bound of the model)

SdBootAssumption ==
  /\ {Pages, Block, FourMB} \subseteq Nat \ {0}
  /\ MaxCuts \in Nat
  /\ Pages % Block = 0

\* Addresses that the entry word may hold: the start of the firmware, the jump code in
\* the line of "=" signs, or a page.
Orig == Pages
Jump == Pages + 1
PageAddrs == 0 .. Pages - 1

\* A page: used up to its last word, used but for its last word, empty, or sdboot with
\* the entry it goes on to (0 as in the file).
Used == [has |-> "data", entry |-> 0]
Part == [has |-> "part", entry |-> 0]
Empty == [has |-> "ff", entry |-> 0]
Sdloader(e) == [has |-> "sdloader", entry |-> e]

VARIABLES
  chip,      \* 1 SC6531E, 2 SC6531, 3 SC6530
  end,       \* page behind the last DRPS
  line,      \* whether the firmware has the line that makes room for the jump
  original,  \* the flash before the first command
  flash,     \* entry word, the line, pages
  plan,      \* what sdboot_helper found: entry, sdboot, jump; ok if supported
  todo,      \* commands left, of the list that is carried out
  doing,     \* "none", "install" or "remove"
  done,      \* the list that was carried out completely, last
  cuts,
  blind      \* history: the helper was run on a flash with half a list carried out

firmware == <<chip, end, line, original>>
fixed == <<chip, end, line>>
vars == <<chip, end, line, original, flash, plan, todo, doing, done, cuts, blind>>

-----------------------------------------------------------------------------
(* The helper.                                                             *)

\* The marks of the jump code at entry - 0x24, and the word it jumps to.
ThroughJump(f) == f.entry = Jump /\ f.line.code
Entry1(f) == IF ThroughJump(f) THEN f.line.to ELSE f.entry

\* "SDLOADER" in a page: the word in front of it is the entry of the firmware.
IsSdboot(f) == Entry1(f) \in PageAddrs /\ f.pages[Entry1(f)].has = "sdloader"
Entry2_First(f) == Entry1(f)

Entry2(f) == IF IsSdboot(f) THEN f.pages[Entry1(f)].entry ELSE Entry1(f)

LastPage(j) == (j \div Block) * Block + Block - 1

Free_Page(f, j) == f.pages[j] = Empty

\* An empty page in a block whose last word is not in use.
Free(f, j) == f.pages[j] = Empty /\ f.pages[LastPage(j)].has # "data"

FreePages(f) == { j \in end .. Pages - 1 : Free(f, j) }

Page(f) == IF IsSdboot(f) THEN Entry1(f) ELSE IF FreePages(f) = {} THEN -1 ELSE Min(FreePages(f))

NeedsJump_Never(p) == FALSE

\* if (chip == 1 || sdboot < 4 << 20) jump_buf = 0
NeedsJump(p) == chip # 1 /\ p >= FourMB

\* sdboot_helper_scan finds the line while it is untouched.
HasJump(f) == ThroughJump(f) \/ (line /\ ~f.line.code)

Scan(f) ==
  [ entry |-> Entry2(f), sdboot |-> Page(f), jump |-> NeedsJump(Page(f)),
    ok |-> Page(f) >= 0 /\ (NeedsJump(Page(f)) => HasJump(f)) ]

Cmd(op, val) == [op |-> op, val |-> val]

Install(p) ==
  (IF p.jump THEN << Cmd("entry", Jump), Cmd("jump4m", 0), Cmd("line_to", p.sdboot) >>
   ELSE << Cmd("entry", p.sdboot) >>)
  \o << Cmd("erase", p.sdboot), Cmd("sdboot", p.sdboot), Cmd("goes_to", <<p.sdboot, p.entry>>) >>

Remove_Erase(p) ==
  << Cmd("erase", p.sdboot), Cmd("entry", p.entry) >>

Remove(p) ==
  << Cmd("entry", p.entry) >>
  \o (IF p.jump THEN << Cmd("jump_orig", 0) >> ELSE <<>>)
  \o << Cmd("erase", p.sdboot) >>

Init ==
  /\ chip \in {1, 2}
  /\ end \in 1 .. Pages
  /\ line \in BOOLEAN
  /\ \E pages \in [PageAddrs -> {Used, Part, Empty}] :
       /\ \A j \in PageAddrs : j < end => pages[j] = Used
       /\ original = [entry |-> Orig, line |-> [code |-> FALSE, to |-> 0], pages |-> pages]
  /\ flash = original
  /\ plan = Scan(flash)
  /\ todo = <<>>
  /\ doing = "none"
  /\ done = "none"
  /\ cuts = 0
  /\ blind = FALSE

-----------------------------------------------------------------------------
(* Carrying the commands out.                                              *)

Start(what, list) ==
  /\ doing = "none"
  /\ plan.ok
  /\ todo' = list
  /\ doing' = what
  /\ UNCHANGED <<firmware, flash, plan, done, cuts, blind>>

StartInstall == Start("install", Install(plan))

\* The commands to remove are those of a scan from before or after the installation.
StartRemove == done # "none" /\ Start("remove", Remove(plan))

\* What a command does to the flash.
Apply(f, c) ==
  CASE c.op = "entry"     -> [f EXCEPT !.entry = c.val]
    [] c.op = "jump4m"    -> [f EXCEPT !.line = [code |-> TRUE, to |-> 0]]
    [] c.op = "line_to"   -> [f EXCEPT !.line.to = c.val]
    [] c.op = "jump_orig" -> [f EXCEPT !.line = [code |-> FALSE, to |-> 0]]
    [] c.op = "erase"     -> [f EXCEPT !.pages[c.val] = Empty]
    [] c.op = "sdboot"    -> [f EXCEPT !.pages[c.val] = Sdloader(0)]
    [] c.op = "goes_to"   -> [f EXCEPT !.pages[c.val[1]].entry = c.val[2]]

Command ==
  /\ doing # "none"
  /\ todo # <<>>
  /\ flash' = Apply(flash, Head(todo))
  /\ todo' = Tail(todo)
  /\ UNCHANGED <<firmware, plan, doing, done, cuts, blind>>

Complete ==
  /\ doing # "none"
  /\ todo = <<>>
  /\ done' = doing
  /\ doing' = "none"
  /\ UNCHANGED <<firmware, flash, plan, todo, cuts, blind>>

\* The cable is pulled: the instructions that were printed are still there.
Cut ==
  /\ doing # "none"
  /\ cuts < MaxCuts
  /\ cuts' = cuts + 1
  /\ doing' = "none"
  /\ todo' = <<>>
  /\ done' = "cut"
  /\ UNCHANGED <<firmware, flash, plan, blind>>

\* The helper runs on a new dump, also on one of a list that was cut short: there
\* the page that the entry word names is blank, or sdboot does not go on to the
\* firmware yet.
Rescan ==
  /\ doing = "none"
  /\ plan' = Scan(flash)
  /\ blind' = (blind \/ done = "cut")
  /\ UNCHANGED <<firmware, flash, todo, doing, done, cuts>>

\* The phone is used: its storage writes into the blocks that it has.
Store ==
  /\ doing = "none"
  /\ \E j \in end .. Pages - 1 :
       /\ original.pages[j] = Empty
       /\ original.pages[LastPage(j)].has = "data"
       /\ original' = [original EXCEPT !.pages[j] = Used]
       /\ flash' = [flash EXCEPT !.pages[j] = Used]
  /\ UNCHANGED <<fixed, plan, todo, doing, done, cuts, blind>>

\* The user leaves it at that.
Leave == doing = "none" /\ UNCHANGED vars

Next == StartInstall \/ StartRemove \/ Command \/ Complete \/ Cut \/ Rescan \/ Store \/ Leave

Spec == Init /\ [][Next]_vars
-----------------------------------------------------------------------------
(* Properties.                                                             *)

\* How the phone starts: what runs, up to the firmware.
Direct(f) == f.entry \in PageAddrs /\ (chip = 1 \/ f.entry < FourMB)
Loader(f) == IF ThroughJump(f) THEN f.line.to ELSE f.entry
Boots(f) ==
  IF f.entry = Orig THEN <<"firmware">>
  ELSE IF (ThroughJump(f) \/ Direct(f)) /\ f.pages[Loader(f)] = Sdloader(Orig) THEN <<"sdboot", "firmware">>
  ELSE <<"nothing">>

\* Pages that the helper and the commands name are pages of the flash.
TypeOK ==
  /\ flash.entry \in {Orig, Jump} \cup PageAddrs
  /\ plan.entry \in {Orig, Jump} \cup PageAddrs
  /\ plan.sdboot \in -1 .. Pages - 1
  /\ doing \in {"none", "install", "remove"}
  /\ done \in {"none", "install", "remove", "cut"}

\* After all commands of an installation, also of one that was cut short and repeated or
\* of an update, the phone starts sdboot and sdboot the firmware.
InstallWorks == doing = "none" /\ done = "install" => Boots(flash) = <<"sdboot", "firmware">>

\* That is so unless the helper took something else for the entry of the firmware, which
\* happens only on the dump of a flash with half a list carried out.
InstalledStarts ==
  /\ plan.entry = Orig => InstallWorks
  /\ ~blind => plan.entry = Orig

\* After all commands of a removal, whatever was carried out before, the flash is again
\* what it was, if the helper never ran on half a list.
RemovedRestores == doing = "none" /\ done = "remove" /\ ~blind => flash = original

\* A scan of the flash with sdboot in it names the same page, entry and way to start as
\* the scan before, so that its commands update and remove what is there.
SamePlan == doing = "none" /\ done = "install" => Scan(flash) = plan

\* A step of a removal behind which the phone still starts if it did before.
KeepsStarting ==
  doing = "remove" /\ doing' = "remove" /\ Boots(flash) # <<"nothing">> => Boots(flash') # <<"nothing">>
=============================================================================
