------------------------------ MODULE HostArgs ------------------------------
(***************************************************************************)
(* The arguments of the commands of spd_dump.c that write to the flash,    *)
(* and their checks: str_to_size, str_to_addr, the limit of the addresses  *)
(* and CHECK_SECURE; and what the custom FDL then changes.                 *)
(***************************************************************************)
EXTENDS Integers

CONSTANTS
  W,        \* bits of an address, 32
  W2,       \* bits of a number, 64
  FwBits,   \* 26: an offset to fw is below 64 MB
  Fw,       \* fw_addr
  Win,      \* 1 << 24: size of the flash window
  HeadSize, \* 0x10000: the part that the boot ROM checks
  Blk,      \* ERASE_BLK
  Pkt,      \* 528, the bytes of a packet
  Shifts,   \* 10, 20 and 30 for K, M and G, and 0
  Nums,     \* numbers that strtoull may return
  Files     \* sizes of files, from the offset on

ArgsAssumption ==
  /\ W \in Nat /\ W2 \in Nat /\ FwBits \in Nat /\ FwBits < W /\ W < W2
  /\ Blk \in Nat \ {0} /\ Pkt \in Nat /\ Pkt >= 4 /\ HeadSize % Blk = 0 /\ Fw % Blk = 0 /\ Win % Blk = 0
  /\ HeadSize <= Win /\ Fw + Win <= 2 ^ W
  /\ Shifts \subseteq 0 .. W2 - 1 /\ 0 \in Shifts
  /\ Nums \subseteq 0 .. 2 ^ W2 - 1 /\ Files \subseteq Nat

VARIABLES
  known,    \* the chip and with it fw_addr are known
  secure,   \* secure_boot
  cmd,      \* command and arguments
  addr, size,
  pc,
  changed   \* addresses of the flash whose bytes may change

vars == <<known, secure, cmd, addr, size, pc, changed>>

\* A number with or without a suffix.
Numbers == [num : Nums, shl : Shifts]

Commands ==
  [op : {"write_word"}, fw : BOOLEAN, addr : Numbers, size : {[num |-> 4, shl |-> 0]}, file : {4}]
  \cup [op : {"write_data"}, fw : BOOLEAN, addr : Numbers, size : Numbers, file : Files]
  \cup [op : {"erase_flash"}, fw : BOOLEAN, addr : Numbers, size : Numbers, file : {0}]

Init ==
  /\ known \in BOOLEAN
  /\ secure \in BOOLEAN
  /\ cmd \in Commands
  /\ addr = 0
  /\ size = 0
  /\ pc = "address"
  /\ changed = {}

-----------------------------------------------------------------------------

\* n >> k of a signed number
Signed(n) == IF n >= 2 ^ (W2 - 1) THEN n - 2 ^ W2 ELSE n

Overflows_Not(x) == FALSE

\* tmp && ~tmp, with tmp >>= 63 - shl
Overflows(x) == x.shl # 0 /\ Signed(x.num) \div 2 ^ (W2 - 1 - x.shl) \notin {0, -1}

\* str_to_size returns n << shl, or exits
Value(x) == (x.num * 2 ^ x.shl) % 2 ^ W2

AddrLimit(fw) == 2 ^ (IF fw THEN FwBits ELSE W)

\* str_to_addr
ParseAddr ==
  /\ pc = "address"
  /\ IF (cmd.fw /\ ~known) \/ Overflows(cmd.addr) \/ Value(cmd.addr) >= AddrLimit(cmd.fw)
       THEN pc' = "exit" /\ addr' = addr
       ELSE pc' = "size" /\ addr' = Value(cmd.addr) + (IF cmd.fw THEN Fw ELSE 0)
  /\ UNCHANGED <<known, secure, cmd, size, changed>>

ParseSize ==
  /\ pc = "size"
  /\ IF Overflows(cmd.size)
       THEN pc' = "exit" /\ size' = size
       ELSE pc' = "limits" /\ size' = Value(cmd.size)
  /\ UNCHANGED <<known, secure, cmd, addr, changed>>

\* (addr | size | (addr + size)) >> 32
Limit ==
  \/ size >= 2 ^ W \/ addr >= 2 ^ W
  \/ cmd.op # "write_word" /\ (addr + size) % 2 ^ W2 >= 2 ^ W

Secure_Signed == known /\ secure /\ addr - Fw \in 1 .. HeadSize - 1

\* (uint32_t)(addr - fw_addr) < 0x10000
Secure == known /\ secure /\ (addr - Fw) % 2 ^ W < HeadSize

\* The file decides when no size is given; it must have as much as is asked for.
Check ==
  /\ pc = "limits"
  /\ pc' = IF Limit \/ Secure \/ (cmd.op = "write_data" /\ size > cmd.file) THEN "exit" ELSE "send"
  /\ size' = IF cmd.op = "write_data" /\ size = 0 THEN cmd.file ELSE size
  /\ UNCHANGED <<known, secure, cmd, addr, changed>>

Window == Fw .. Fw + Win - 1

\* An erase command has three bytes of address, so that it goes on at the start of the
\* flash behind its end.
OnChip(a) == Fw + ((a - Fw) % Win)

\* erase_flash of the FDL: whole blocks, from one in the window on
Erased ==
  IF addr \in Window /\ addr % Blk = 0 /\ size % Blk = 0
    THEN { OnChip(a) : a \in addr .. addr + size - 1 } ELSE {}

\* data_midst: a packet goes into the flash if its first byte does, otherwise into memory.
\* What is behind the end of the flash is not programmed, but its block may be erased.
Written ==
  LET sent == { (addr + k) % 2 ^ W : k \in { n \in 0 .. size - 1 : (addr + n - (n % Pkt)) % 2 ^ W \in Window } }
  IN (sent \cap Window)
     \cup { b \in Window : \E a \in sent \ Window : b \div Blk = OnChip(a) \div Blk }

Send ==
  /\ pc = "send"
  /\ changed' = IF cmd.op = "erase_flash" THEN Erased ELSE Written
  /\ pc' = "done"
  /\ UNCHANGED <<known, secure, cmd, addr, size>>

Halt == pc \in {"done", "exit"} /\ UNCHANGED vars

Next == ParseAddr \/ ParseSize \/ Check \/ Send \/ Halt

Spec == Init /\ [][Next]_vars
-----------------------------------------------------------------------------
(* Properties.                                                             *)

\* Addresses and sizes that are sent have their width, and an area whose size the user
\* gives ends below the highest address.
TypeOK ==
  /\ pc \in {"send", "done"} => addr < 2 ^ W /\ size < 2 ^ W
  /\ pc \in {"send", "done"} /\ cmd.op # "write_word" /\ cmd.size.num # 0 => addr + size < 2 ^ W
  /\ changed \subseteq Window
  /\ pc \in {"address", "size", "limits", "send", "done", "exit"}

Exact(x) == x.num * 2 ^ x.shl

\* What is sent is what the user wrote, suffix and base included: no number that does not
\* fit is cut to one that does.
AsWritten ==
  pc \in {"send", "done"} =>
    /\ addr = Exact(cmd.addr) + (IF cmd.fw THEN Fw ELSE 0)
    /\ size = Exact(cmd.size) \/ (cmd.op = "write_data" /\ cmd.size.num = 0 /\ size = cmd.file)

Protected == Fw .. Fw + HeadSize - 1

\* A command for an area inside the flash never changes the part of it that a phone with
\* secure boot checks. Of one that runs past the end this cannot be said: only its start
\* is looked at.
HeadKept ==
  known /\ secure /\ addr \in Window /\ addr + size <= Fw + Win => changed \cap Protected = {}
=============================================================================
