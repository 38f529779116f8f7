---------------------------- MODULE MCPrograms ----------------------------
(***************************************************************************)
(* The parts of spd_dump, unpac, fphelper and fphelper_t117 that work on   *)
(* arguments, files and dumps, checked on small instances.  They are       *)
(* programs of their own, so every behaviour is one of one part.           *)
(***************************************************************************)
EXTENDS Integers

(* Archives of up to three entries with twelve cells of data, copied three at a time:    *)
(* files of one, three and four cells, an operation without data, and two names that     *)
(* become the same.                                                                      *)
E(id, name, size, offset) == [id |-> id, name |-> name, size |-> size, offset |-> offset]

PacEntries ==
  { E(<<"b">>, <<"a">>, 3, 1), E(<<>>, <<"a", "b">>, 4, 4), E(<<"a", "a">>, <<"b", "a", "b">>, 1, 11),
    E(<<"a">>, <<>>, 0, 0), E(<<>>, <<"a", "u">>, 2, 7), E(<<>>, <<"u", "b">>, 5, 9) }

Unsafe == E(<<"b">>, <<"/", "a">>, 2, 2)

Lists == { <<e>> : e \in PacEntries } \cup { <<e, f>> : e, f \in PacEntries }
         \cup { <<e, f, E(<<>>, <<"b">>, 6, 1)>> : e, f \in PacEntries \cup {Unsafe} }

MCArchives ==
  { [entries |-> l, cells |-> 12, total |-> 12] : l \in Lists }
  \cup { [entries |-> <<>>, cells |-> n, total |-> m] : n \in {4, 7}, m \in 0 .. 8 }

MCPatterns ==
  { <<>>, << <<"a">>, <<"*", "b">> >> }
  \cup { << <<p, q>> >> : p, q \in {"a", "?", "*"} }
  \cup { << <<p, q, r>> >> : p, q, r \in {"b", "*"} }

(* Up to two segments on each side of the widths of the fields, a copy that overlaps     *)
(* itself, copies of copies so that the distance needs its high bits, and all streams of *)
(* five bytes over codes that select every branch.                                       *)
Lits(n) == [j \in 1 .. n |-> j + 10]
S(n, c, d) == [lits |-> Lits(n), copy |-> c, dist |-> d]

First3 ==
  { S(n, c, d) : n \in {2, 6, 7}, c \in {2, 17, 18}, d \in {1, 2} }
  \cup { S(n, c, 0) : n \in {0, 7}, c \in {0, 1, 15, 16} }
First2 == { S(n, c, d) : n \in {2, 3, 4}, c \in {3, 17, 18}, d \in {1, 2} } \cup { S(3, 0, 0) }
Second == { S(1, 3, 1), S(0, 5, 3) }

Far == { << S(2, 257, 1), S(0, 3, 258) >>, << S(2, 257, 1), S(1, 257, 2), S(0, 257, 1), S(1, 4, 770) >> }

MCPlans ==
  { <<3, <<a>> >> : a \in First3 \ {S(0, 0, 0)} }
  \cup { <<3, <<S(3, 0, 0), a, b>> >> : a \in First3, b \in Second }
  \cup { <<2, <<a>> >> : a \in First2 } \cup { <<2, <<S(3, 0, 0), a, b>> >> : a \in First2, b \in Second }
  \cup { <<2, p>> : p \in Far }

MCRaw == [1 .. 5 -> {0, 1, 2, 9, 16, 28}]

(* Texts of up to nine characters in the three codings without a header and with those   *)
(* of messages in parts, names of up to eleven characters, numbers of up to twenty       *)
(* digits, and parties that are refused.                                                 *)
Headers == { <<>>, <<5, 0, 3, 7, 2, 1>>, <<6, 8, 4, 1, 7, 2, 1>> }

Text(l, coding) == [j \in 1 .. l |-> IF coding = 8 THEN 1000 + j * 300 ELSE (j * 37 + 90) % 128]

Msg(s, kind, party, coding, h, l) ==
  [submit |-> s, kind |-> kind, party |-> party, coding |-> coding, header |-> h, text |-> Text(l, coding)]

MCMessages ==
  { Msg(s, "national", <<1, 2, 3>>, c, h, l) : s \in BOOLEAN, c \in {0, 4, 8}, h \in Headers, l \in 0 .. 9 }
  \cup { Msg(TRUE, "alpha", [j \in 1 .. l |-> 64 + j], 0, <<>>, 1) : l \in 1 .. 11 }
  \cup { Msg(FALSE, kind, [j \in 1 .. l |-> j % 10], 8, <<>>, 1) :
           kind \in {"national", "international"}, l \in 1 .. 20 }
  \cup { Msg(FALSE, "national", <<>>, 0, <<>>, 1), Msg(TRUE, "national", <<1, 15>>, 0, <<>>, 1),
         Msg(TRUE, "alpha", <<65, 10>>, 0, <<>>, 1) }

(* Tables of up to three entries over a RAM of six bytes and a dump of four. The         *)
(* functions have equal distances, so that a table may fit two addresses; a source may   *)
(* be in RAM, and a copy may reach past the dump.                                        *)
MCOffset == [nop |-> 1, lz |-> 4, copy |-> 6, zero |-> 8]

MCEntries ==
  [fn : {"copy", "lz"}, src : {2, 10, 13}, dst : {0, 2, 4}, len : {2}]
  \cup [fn : {"zero", "nop"}, src : {0}, dst : {0, 4}, len : {2}]

-----------------------------------------------------------------------------
VARIABLES
  part,  \* the part of the system that runs
  v1, v2, v3, v4, v5, v6, v7, v8, v9, v10, v11, v12, v13, v14, v15  \* its variables

vars == <<part, v1, v2, v3, v4, v5, v6, v7, v8, v9, v10, v11, v12, v13, v14, v15>>

Table == INSTANCE PartTable WITH
  Names <- {"a", "b", "long"}, LongName <- "long", Sizes <- {4, 6, 7}, Unit <- 4,
  Unit4k <- 2, Rest <- 15, Parts <- 2, MaxParts <- 3, Edits <- 2, table <- v1,
  file <- v2, wrong <- v3, edited <- v4, edits <- v5, p <- v6, stage <- v7,
  buf <- v8, sent <- v9, pc <- v10

Dump == INSTANCE AutoDump WITH
  Hdr <- 4, DhtbHdr <- 5, SigHdr <- 2, MinBlocks <- 4, MinBlk <- 2, Half <- 6,
  MaxSig <- 3, Fields <- 0 .. 6, Lens <- {0, 1, 5}, img <- v1, sig <- v2, mode <- v3,
  len <- v4, nread <- v5, dhtb <- v6, file <- v7, short <- v8, pc <- v9

Args == INSTANCE HostArgs WITH
  W <- 5, W2 <- 8, FwBits <- 4, Fw <- 8, Win <- 8, HeadSize <- 4, Blk <- 2, Pkt <- 4,
  Shifts <- 0 .. 3,
  Nums <- {0, 1, 2, 3, 4, 7, 8, 9, 12, 15, 16, 31, 32, 33, 64, 127, 128, 254, 255},
  Files <- {1, 7}, known <- v1, secure <- v2, cmd <- v3, addr <- v4, size <- v5,
  pc <- v6, changed <- v7

Pac == INSTANCE Unpac WITH
  Archives <- MCArchives, Patterns <- MCPatterns, Chunk <- 3, mode <- v1, arc <- v2,
  args <- v3, i <- v4, pos <- v5, left <- v6, files <- v7, seen <- v8, summed <- v9,
  pc <- v10

Lz == INSTANCE LzDec WITH
  Plans <- MCPlans, Raw <- MCRaw, fmt <- v1, plan <- v2, whole <- v3, src <- v4,
  room <- v5, at <- v6, dst <- v7, code <- v8, skip <- v9, len <- v10, dist <- v11,
  pc <- v12

Sd == INSTANCE SdBoot WITH
  Pages <- 6, Block <- 2, FourMB <- 4, MaxCuts <- 2, chip <- v1, end <- v2,
  line <- v3, original <- v4, flash <- v5, plan <- v6, todo <- v7, doing <- v8,
  done <- v9, cuts <- v10, blind <- v11

Sms == INSTANCE Sms WITH
  Messages <- MCMessages, Padding <- 3, msg <- v1, pdu <- v2, p <- v3, name <- v4,
  text <- v5, n <- v6, a <- v7, k <- v8, i <- v9, pc <- v10

Nv == INSTANCE NvStore WITH
  Blocks <- 3, Room <- 2, Ids <- {5, 6, 9}, FatId <- 5, FatLen <- 3, Updates <- 2,
  OddIds <- {9}, blocks <- v1, current <- v2, replaced <- v3, i <- v4, listed <- v5,
  blk_list <- v6, fat_list <- v7, arr <- v8, image <- v9, pc <- v10

Lcd == INSTANCE LcdDec WITH
  Regs <- {0, 1, 4}, Vals <- {0, 1}, Funs <- {"f", "g"}, Thunks <- {"h", "k"},
  MaxData <- 1, Size <- 12, t117 <- v1, mode <- v2, p <- v3, reg <- v4, flags <- v5,
  lcm_wait <- v6, lcm_cmd <- v7, lcm_data <- v8, cs <- v9, last_cmd <- v10,
  data <- v11, out <- v12, cpu <- v13, sent <- v14, pc <- v15

Tab == INSTANCE InitTable WITH
  Base <- 10, Size <- 4, Ram <- 6, Offset <- MCOffset, Entries <- MCEntries,
  MaxEntries <- 3, t117 <- v1, table <- v2, detected <- v3, lzdec_fn <- v4,
  found_fwaddr <- v5, fwaddr <- v6, ps_size <- v7, i <- v8, files <- v9, fo <- v10,
  next <- v11, mem <- v12, pc <- v13

-----------------------------------------------------------------------------
(* One part at a time; the variables it does not have stay 0.              *)

Above13 == <<v14, v15>>
Above12 == <<v13, Above13>>
Above11 == <<v12, Above12>>
Above10 == <<v11, Above11>>
Above9 == <<v10, Above10>>
Above7 == <<v8, v9, Above9>>

Unused13 == v14 = 0 /\ v15 = 0
Unused12 == v13 = 0 /\ Unused13
Unused11 == v12 = 0 /\ Unused12
Unused10 == v11 = 0 /\ Unused11
Unused9 == v10 = 0 /\ Unused10
Unused7 == v8 = 0 /\ v9 = 0 /\ Unused9

Init ==
  \/ part = "table" /\ Table!Init /\ Unused10
  \/ part = "dump" /\ Dump!Init /\ Unused9
  \/ part = "args" /\ Args!Init /\ Unused7
  \/ part = "unpac" /\ Pac!Init /\ Unused10
  \/ part = "lz" /\ Lz!Init /\ Unused12
  \/ part = "sdboot" /\ Sd!Init /\ Unused11
  \/ part = "sms" /\ Sms!Init /\ Unused10
  \/ part = "nv" /\ Nv!Init /\ Unused10
  \/ part = "lcd" /\ Lcd!Init
  \/ part = "init" /\ Tab!Init /\ Unused13

TableNext == part = "table" /\ Table!Next /\ UNCHANGED <<part, Above10>>
DumpNext == part = "dump" /\ Dump!Next /\ UNCHANGED <<part, Above9>>
ArgsNext == part = "args" /\ Args!Next /\ UNCHANGED <<part, Above7>>
PacNext == part = "unpac" /\ Pac!Next /\ UNCHANGED <<part, Above10>>
LzNext == part = "lz" /\ Lz!Next /\ UNCHANGED <<part, Above12>>
SdNext == part = "sdboot" /\ Sd!Next /\ UNCHANGED <<part, Above11>>
SmsNext == part = "sms" /\ Sms!Next /\ UNCHANGED <<part, Above10>>
NvNext == part = "nv" /\ Nv!Next /\ UNCHANGED <<part, Above10>>
LcdNext == part = "lcd" /\ Lcd!Next /\ UNCHANGED part
TabNext == part = "init" /\ Tab!Next /\ UNCHANGED <<part, Above13>>

Next ==
  \/ TableNext \/ DumpNext \/ ArgsNext \/ PacNext \/ LzNext \/ SdNext \/ SmsNext \/ NvNext \/ LcdNext \/ TabNext

Spec == Init /\ [][Next]_vars

ASSUME TableBounds == Table!PartAssumption
ASSUME DumpBounds == Dump!DumpAssumption
ASSUME ArgsBounds == Args!ArgsAssumption
ASSUME PacBounds == Pac!UnpacAssumption
ASSUME LzBounds == Lz!LzAssumption
ASSUME SdBounds == Sd!SdBootAssumption
ASSUME SmsBounds == Sms!SmsAssumption
ASSUME NvBounds == Nv!NvAssumption
ASSUME LcdBounds == Lcd!LcdAssumption
ASSUME TabBounds == Tab!InitAssumption

-----------------------------------------------------------------------------
(* Properties.                                                             *)

\* No decoder, scanner or reader leaves its buffers, and no length is below zero.
TypeOK ==
  CASE part = "table" -> Table!TypeOK
    [] part = "dump" -> Dump!TypeOK
    [] part = "args" -> Args!TypeOK
    [] part = "unpac" -> Pac!TypeOK
    [] part = "lz" -> Lz!TypeOK
    [] part = "sdboot" -> Sd!TypeOK
    [] part = "sms" -> Sms!TypeOK
    [] part = "nv" -> Nv!TypeOK
    [] part = "lcd" -> Lcd!TypeOK
    [] part = "init" -> Tab!TypeOK

\* spd_dump. repartition accepts a file if and only if it has one list of partitions that
\* there is room for, and sends that list; a table that partition_list saved comes back
\* as it was, and one in the wrong unit is never sent. The file of an automatic read is
\* the flash from the start on, and the whole image unless a read ended early. Numbers
\* are sent as the user wrote them, suffix and base included, and no command for an area
\* inside the flash changes the part that a phone with secure boot checks.
HostRight ==
  /\ part = "table" => Table!SentAsListed /\ Table!RoundTrip /\ Table!WrongUnitRefused
  /\ part = "dump" => Dump!FileRight /\ Dump!SavesWhole
  /\ part = "args" => Args!AsWritten /\ Args!HeadKept

\* unpac lists exactly the entries that match one of the patterns, wherever the wildcards
\* stand, and extracts those of them that are files, up to the end of the directory, to
\* data that is cut off or to the entry behind a name that it refuses (what it then
\* leaves out is what ExtractsEvery is about). Files have the bytes the directory names
\* for them, however their size relates to the chunk; check sums every byte that the head
\* counts.
ArchiveRight ==
  part = "unpac" => Pac!ListsChosen /\ Pac!FilesRight /\ Pac!ExtractsChosen /\ Pac!ChecksAll

\* fphelper and fphelper_t117 show what the firmware would: of a compressed part what was
\* encoded, or a beginning of it; of the init table the address the firmware runs at and
\* parts as the processor puts them, at their places, where the functions of the table are
\* recognised; of a disk the last value of each item in the blocks that it sees; of a
\* message its party and its text, behind padding with one character more; of LCD code the calls that it makes.
DecodedRight ==
  /\ part = "lz" => Lz!WritesPrefix /\ Lz!DecodesAll
  /\ part = "init" => Tab!GuessRight /\ Tab!FilesPlaced /\ Tab!SavedRight
  /\ part = "nv" => Nv!ImageCurrent /\ Nv!ListsAll
  /\ part = "sms" => Sms!PartyRight /\ Sms!TextShown
  /\ part = "lcd" => Lcd!ListRight /\ Lcd!DataContinues

\* All files are extracted if names are not specified (unpac/README.md); not so for those
\* behind a name that check_path refuses.
ExtractsEvery == part = "unpac" => Pac!ExtractsEvery

\* After all commands that install sdboot, also of an installation that was cut short and
\* repeated or of an update, the phone starts sdboot and sdboot the firmware, if the
\* instructions name the entry of the firmware; they do unless the helper was run on the
\* dump of a flash with half a list carried out. A new scan of an installation finds the
\* same plan; after all commands that remove sdboot the flash is again what it was, if the
\* helper was never run on half a list (what it prints there is what InstallAlwaysStarts
\* is about).
SdbootRight == part = "sdboot" => Sd!InstalledStarts /\ Sd!SamePlan /\ Sd!RemovedRestores

\* The commands that the helper prints for a dump install sdboot: carried out to the end,
\* the phone starts sdboot and sdboot the firmware. Not so for the dump of a flash with
\* the entry word written and sdboot not yet: the blank page is taken for the firmware.
InstallAlwaysStarts == part = "sdboot" => Sd!InstallWorks

\* While sdboot is being removed a phone that started goes on starting.
RemovalSafe == [][part = "sdboot" => Sd!KeepsStarting]_vars
=============================================================================
