------------------------------ MODULE NvStore ------------------------------
(***************************************************************************)
(* fphelper/main.c, scan_data: storage blocks are found in a dump, their   *)
(* items listed, and disk images put together from items that the phone    *)
(* wrote, replaced and marked as deleted in an order of its own.           *)
(***************************************************************************)
EXTENDS Integers, SequencesExt

CONSTANTS
  Blocks,   \* pages of the flash that hold storage blocks
  Room,     \* items of a block
  Ids,      \* ids of items
  FatId,    \* the id of the first item of a disk
  FatLen,   \* items of the disk, as its FAT12 header says
  Updates,  \* bound on the updates of an item
  OddIds    \* ids of items that have an odd number of bytes, the last not zero

NvAssumption ==
  /\ Blocks \in Nat \ {0} /\ Room \in Nat \ {0} /\ FatLen \in Nat \ {0} /\ Updates \in Nat
  /\ Ids \subseteq Nat /\ FatId \in Ids
  /\ OddIds \subseteq Ids

VARIABLES
  blocks,   \* the flash: by page, the items of its storage block
  current,  \* by id, the value the phone last wrote, 0 if none
  replaced, \* copies that are to be marked as deleted
  i,        \* page that scan_data is at
  listed,   \* items printed: page and place
  blk_list, \* pages in the order of the list, the last one found first
  fat_list,
  arr,      \* by place on the disk, the copy chosen so far
  image,    \* the disk image, by place
  pc

phone == <<blocks, current, replaced>>
vars == <<blocks, current, replaced, i, listed, blk_list, fat_list, arr, image, pc>>

Item(id, val) == [id |-> id, val |-> val, live |-> TRUE]

Init ==
  /\ blocks = [b \in 1 .. Blocks |-> <<>>]
  /\ current = [x \in Ids |-> 0]
  /\ replaced = {}
  /\ i = 1
  /\ listed = <<>>
  /\ blk_list = <<>>
  /\ fat_list = <<>>
  /\ arr = << >>
  /\ image = << >>
  /\ pc = "phone"

-----------------------------------------------------------------------------
(* The phone: an item is written anew, then the old copy is marked.        *)

Copies(x) == { c \in (1 .. Blocks) \X (1 .. Room) : c[2] <= Len(blocks[c[1]]) /\ blocks[c[1]][c[2]].id = x }

Live(c) == blocks[c[1]][c[2]].live

Update(x, b) ==
  /\ pc = "phone"
  /\ replaced = {}
  /\ current[x] < Updates
  /\ Len(blocks[b]) < Room
  /\ current' = [current EXCEPT ![x] = @ + 1]
  /\ blocks' = [blocks EXCEPT ![b] = Append(@, Item(x, current'[x]))]
  /\ replaced' = { c \in Copies(x) : Live(c) }
  /\ UNCHANGED <<i, listed, blk_list, fat_list, arr, image, pc>>

Mark ==
  /\ pc = "phone"
  /\ \E c \in replaced : blocks' = [blocks EXCEPT ![c[1]][c[2]].live = FALSE]
  /\ replaced' = {}
  /\ UNCHANGED <<current, i, listed, blk_list, fat_list, arr, image, pc>>

\* The flash is read, perhaps between the two.
Dump ==
  /\ pc = "phone"
  /\ pc' = "scan"
  /\ UNCHANGED <<phone, i, listed, blk_list, fat_list, arr, image>>

-----------------------------------------------------------------------------
(* scan_data.                                                              *)

\* The check sum of an item is over its bytes rounded up to half words, as the loop over
\* the items has it. The test of the first one does not round up, so that a block that
\* begins with an item of an odd length is passed over.
Found(b) == blocks[b] # <<>> /\ blocks[b][1].id \notin OddIds

\* while (p2[1] == a): every item of the block
Items(b) == Len(blocks[b])

Places_Short(b) == [j \in 1 .. Items(b) - 1 |-> <<b, j>>]

\* The list of the items of a page.
Places(b) == [j \in 1 .. Items(b) |-> <<b, j>>]

ScanPage ==
  /\ pc = "scan"
  /\ i <= Blocks
  /\ Found(i)
  /\ listed' = listed \o Places(i)
  /\ blk_list' = <<i>> \o blk_list
  /\ fat_list' = SelectSeq(Places(i), LAMBDA c : blocks[c[1]][c[2]].id = FatId) \o fat_list
  /\ i' = i + 1
  /\ UNCHANGED <<phone, arr, image, pc>>

\* A page on which no storage block is found.
SkipPage ==
  /\ pc = "scan"
  /\ i <= Blocks
  /\ ~Found(i)
  /\ i' = i + 1
  /\ UNCHANGED <<phone, listed, blk_list, fat_list, arr, image, pc>>

\* arr has room for the items that the header of the disk counts.
Slots == 0 .. FatLen - 1

StartImage ==
  /\ pc = "scan"
  /\ i > Blocks
  /\ arr' = [x \in Slots |-> <<0, 0>>]
  /\ pc' = IF fat_list = <<>> THEN "done" ELSE "collect"
  /\ UNCHANGED <<phone, i, listed, blk_list, fat_list, image>>

Better_Last(old) == TRUE

Better_First(old) == old = <<0, 0>>

\* if (!arr[b] || !((uint16_t*)(buf + arr[b]))[-4])
Better(old) == old = <<0, 0>> \/ ~Live(old)

\* One block of the list: its items in order.
Collect ==
  /\ pc = "collect"
  /\ blk_list # <<>>
  /\ LET b == Head(blk_list)
     IN arr' = FoldLeft(LAMBDA ar, j :
                          LET x == blocks[b][j].id - FatId
                          IN IF x \in DOMAIN ar /\ Better(ar[x]) THEN [ar EXCEPT ![x] = <<b, j>>] ELSE ar,
                        arr, [j \in 1 .. Items(b) |-> j])
  /\ blk_list' = Tail(blk_list)
  /\ UNCHANGED <<phone, i, listed, fat_list, image, pc>>

\* Places without an item are filled with 0xff, here -1.
Save ==
  /\ pc = "collect"
  /\ blk_list = <<>>
  /\ image' = [x \in DOMAIN arr |-> IF arr[x] = <<0, 0>> THEN -1 ELSE blocks[arr[x][1]][arr[x][2]].val]
  /\ pc' = "done"
  /\ UNCHANGED <<phone, i, listed, blk_list, fat_list, arr>>

Rest == pc = "done" /\ UNCHANGED vars

Scan == ScanPage \/ SkipPage \/ StartImage \/ Collect \/ Save

Next == (\E x \in Ids, b \in 1 .. Blocks : Update(x, b)) \/ Mark \/ Dump \/ Scan \/ Rest

Spec == Init /\ [][Next]_vars
-----------------------------------------------------------------------------
(* Properties.                                                             *)

\* Lists name pages and items that are there.
TypeOK ==
  /\ i \in 1 .. Blocks + 1
  /\ \A j \in DOMAIN listed : listed[j][2] <= Len(blocks[listed[j][1]])
  /\ \A j \in DOMAIN blk_list : blk_list[j] \in 1 .. i
  /\ DOMAIN image \subseteq 0 .. FatLen - 1
  /\ pc \in {"phone", "scan", "collect", "done"}

Disk == { x \in Ids : x - FatId \in 0 .. FatLen - 1 }

\* Blocks that scan_data does not see: the check sum of their first item, of an odd
\* length, is taken over one byte less than the phone takes it over.
Hidden == { b \in 1 .. Blocks : blocks[b] # <<>> /\ blocks[b][1].id \in OddIds }

\* The copies of an item that are in the blocks seen.
Seen(x) == { c \in Copies(x) : c[1] \notin Hidden }

\* The image of a disk has the last value of each of its items that has all of its copies
\* in the blocks seen, in whichever order and blocks the phone put them; where an update
\* was under way, the last or the one before.
ImageCurrent ==
  pc = "done" /\ image # << >> =>
    \A x \in { y \in Disk : Seen(y) = Copies(y) } :
      LET v == image[x - FatId]
      IN IF \E c \in replaced : blocks[c[1]][c[2]].id = x THEN v \in {current[x], current[x] - 1}
         ELSE v = IF current[x] = 0 THEN -1 ELSE current[x]

\* Every item of every block seen is listed once, items of an odd length behind the first
\* one too, and a disk whose header is among them gives an image.
ListsAll ==
  pc = "done" =>
    /\ ToSet(listed) = UNION { Seen(x) : x \in Ids }
    /\ IsInjective(listed)
    /\ Seen(FatId) # {} => image # << >>
=============================================================================
