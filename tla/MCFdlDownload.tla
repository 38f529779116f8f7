--------------------------- MODULE MCFdlDownload ---------------------------
(***************************************************************************)
(* Two erase blocks of four bytes in a window at address 4, RAM before and *)
(* after it, one bit per byte: every operation on a byte is bitwise.       *)
(***************************************************************************)
EXTENDS FdlDownload

One == Bits
Zero == {}

Image(s) == [x \in Addr |-> IF s[x + 1] = 1 THEN One ELSE Zero]

\* RAM, block 1, block 2, RAM: a used block before a half used one, and one
\* written to its last byte.
MCContents ==
  { Image(<<0, 0, 0, 0,  0, 1, 0, 1,  1, 0, 1, 1,  0, 0, 0, 0>>),
    Image(<<0, 0, 0, 0,  1, 1, 0, 0,  0, 0, 0, 0,  0, 0, 0, 0>>) }

\* Nothing protected, or the first block.
MCLocks == { {}, {1} }

\* In one block, across both, and in RAM.
MCDownloads ==
  { [start |-> 5, size |-> 2], [start |-> 7, size |-> 4], [start |-> 1, size |-> 1] }

MCPayloads ==
  { <<>>, <<One>>, <<Zero>>, <<One, Zero, One>>, <<Zero, Zero, One>>, <<Zero, Zero, Zero>> }

\* The whole window, not a block, empty, outside.
MCAreas ==
  { [start |-> 4, size |-> 8], [start |-> 6, size |-> 4], [start |-> 4, size |-> 0], [start |-> 0, size |-> 4] }

\* The last block of the window and one more.
MCPastEnd == { [start |-> 8, size |-> 8] }

-----------------------------------------------------------------------------
\* The command's description, "Erase an area of flash": nothing outside the area
\* changes, whatever the outcome.
EraseOnlyArea ==
  job.kind = "erase" => \A x \in Addr : ~InJob(x) => mem[x] = base[x]
=============================================================================
