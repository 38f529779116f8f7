# A verification project for spreadtrum_flash

spreadtrum_flash talks to the boot ROM of Spreadtrum/Unisoc phones over USB:
a host tool (`spd_dump.c`) loads a small program (an FDL) into the phone and
then reads, writes and erases its flash memory through it. The repository also
holds two FDLs of its own (`custom_fdl`, `t117_fdl`) and tools that take
firmware images apart (`unpac`, `fphelper`, `fphelper_t117`).

This directory holds TLA+ modules that model the program, TLC configurations
that check them, and TLAPS proofs. `PROJECT.json` lists the components, runs,
mutants, hazards, findings and theorems, and maps definitions to source lines.

## 1. Inventory

| Part | State | Operations | Talks to | What makes it hard | What makes it correct |
|---|---|---|---|---|---|
| `spd_dump` commands (`main`, `read_flash`, `dump_mem`, `dump_partition`, `read_pactime`, `load_partition`, `find_partition_size`, `send_buf`, `erase_flash`, ...) | position in `argv`, `offset`, the output file, `raw_buf`, outstanding replies | one conversation of requests and replies per command | the device, over a reliable ordered pipe | each wait ends after `io->timeout`; some callers exit, others go on while the answer is still to come | a file holds what was asked for; what counts as written is written; the program ends |
| boot handshake (the `fdl` command) | `fdl_loaded`, `FLAGS_CRC16`, `chip_id`, `secure_boot` | check-baud, connect, download, exec, ten retries | boot ROM, FDL1, FDL2 | three different peers one after the other on one pipe; duplicated answers | host and peer agree on the check sum; answers are matched |
| framing (`encode_msg`, `recv_msg1`; `packet.c` of the FDLs) | `recv_buf`/`recv_pos`/`recv_len`, `raw_buf`, `enc_buf`, `packet_temp` | encode, decode, verify | both sides | bytes arrive in arbitrary pieces; escaping in place; resynchronisation | decode(encode(m)) = m; buffers are large enough |
| arguments (`str_to_size`, `str_to_addr`, limits, `CHECK_SECURE`) | `fw_addr`, `ram_addr`, `blk_size` | parse, range checks | commands | 32 and 64-bit limits | no silent truncation |
| partition table (`scan_xml_partitions`, `partition_list`) | table buffer | parse, print | FDL2 | unit sizes, table limits | table read back = table written |
| `custom_fdl` download and erase (`dl_main` and handlers) | `dl_status`, `flash_id`, the flash | START, MIDST, END, EXEC, ERASE, READ | host, flash chip | NOR flash: bits can only be cleared, a whole block is erased at once; write protection; power loss | acknowledged data is in memory; nothing else changed |
| flash driver (`sfc.c`) | controller registers | erase, program, read id and status | flash chip | pages, 32-byte commands, 3-byte addresses | exactly the given bytes are programmed |
| USB of the FDLs (`usbio.c`) | receive ring (`custom_fdl`), DMA buffer (`t117_fdl`) | receive a packet, getchar, write | packets | full ring, transfers of exactly the packet size | a byte FIFO without loss |
| SDRAM set-up (`t117_fdl/sdram_init.c`) | strengths, delays, the window found so far | calibrate the pads, train two lanes for writing and reading, test | the memory | loops without a limit; failures that are not reported | settings in the middle of what works; "ok" only if all of it works |
| start-up, efuse | hardware registers | register sequences | - | - | - |
| `unpac` | position in the archive, bytes left | list, extract, check | files | one file position for the directory and the data | files as the directory says |
| `fphelper`, `fphelper_t117`: LZ streams and the init table | positions in stream and output, files open | decode, guess the address, extract | files | three field widths per code; parts that depend on earlier parts | decoder inverts encoder; memory as the processor sets it up |
| `fphelper`: sdboot | the flash, the plan printed | scan, install, update, remove | the user and `spd_dump`, command by command | the list of commands can be cut short anywhere | the phone starts; removal restores |
| `fphelper`: messages, storage, LCD code | position in the dump, lists of blocks and items, registers | scan, print | - | bits, half bytes and bytes counted side by side; several copies of an item | what is shown is what is stored |

The list of hazards, with the line where each bites and the property that would
catch it, is in `PROJECT.json`.

## 2. Plan

Most important behaviour first:

1. `SpdSession` - the command session between host and device. Done.
2. `FdlDownload` - what the FDL does to the flash. Done and proved.
3. `Hdlc`, `FdlPacket`, `FdlEscape`, `HostRecv` - framing: the format and both
   check sums, the FDL's receiver and its escaping in place, the host's receiver
   with its transfers. Done; the FDL's side is proved.
4. `UsbRing` - the FDL's receive ring, shown to implement a byte FIFO. Done and
   proved.
5. `SpdBoot` - boot ROM, FDL1 and FDL2 with retries and the check-sum switch. Done
   and proved.
6. `SfcWrite` - program commands within pages, shown to implement the programming
   of a run. Done and proved.
7. `HostArgs`, `AutoDump`, `PartTable` - number parsing, limits, automatic sizes, the
   partition table. Done.
8. `T117Usb`, `ZqCal`, `DdrTrain` - DMA reception and SDRAM set-up of `t117_fdl`. Done
   and proved.
9. `Unpac`, `LzDec`, `InitTable`, `SdBoot`, `NvStore`, `Sms`, `LcdDec` - the tools. Done.

Left: the proofs named at the end of this section; the scanners of `fphelper` that only print, and
`fwcrypto.c` (section 8).

Abstract specifications: a byte FIFO (`ByteFifo`, implemented by 4) and the programming
of a run (`ProgramRun`, implemented by 6). A message channel that may lose messages
and never alters or reorders them is what the properties of (3) say of each receiver.

Theorems worth proving: those of section 6, and, still open, that the host's receiver
returns a frame of an undamaged line as it was sent (`NoFalseExit` and `AllReturned` of
`HostRecv`) and stays inside its buffers (`TypeOK` of `HostRecv`).

## 3. Modules

### SpdSession

The host executes a script of commands (`todo`, `cmd`). A command has up to three
phases, the values of `pc`: `open` (one request, such as `BSL_CMD_READ_START` or
`BSL_CMD_START_DATA`), `body` (a loop with one request per block) and `close`
(`BSL_CMD_READ_END`, `BSL_CMD_END_DATA`).

| `op` | code | phases |
|---|---|---|
| `read` | `read_flash`, `dump_mem` | body |
| `rpart` | `dump_partition` | open, body, close |
| `ptime` | `read_pactime` | open, body (one block, nothing tolerated), close |
| `psize` | `find_partition_size` | open, body (one probe per bit), close |
| `write` | `send_buf` (`write_data`, `write_word`, `send_file`) | open, body, close unless `end_data 0` |
| `wpart` | `load_partition` | open, body, close |
| `erase` | `erase_flash`, `erase_partition`; with length 0 also `reset`, `power_off` and other single acknowledged requests | open |
| `query` | `chip_uid`, `read_efuse`, `partition_list` | open |

Every request is sent in one step (`SendMsg`) and sets `wait`; the step that
takes the reply is the rest of the loop body with all its exits: `CheckReply`
(`send_and_check`), `QueryReply`, `ReadReply`, `LoadReply`, `ProbeReply`. When no
reply is in the pipe the wait may end with nothing, at any moment: this is the
timeout. `HostError` is every other exit (`ERR_EXIT`): a failed transfer or file
operation, an operation not confirmed, a bad argument, a damaged message.

The device handles one request per step and answers it exactly once, at any
later time. `DevStart`, `DevMidst`, `DevEnd`, `DevRead` and `DevErase` are the handlers of
`custom_fdl/main.c`. A write that fails may have erased an area around its block and
programmed a part of it (`Programmed`), an erasure that fails has erased the blocks before.
`DevReadPart` and `DevOther` are the commands of a vendor FDL2 which is not in
the repository and is modelled by what `spd_dump.c` expects of it. Since a vendor's FDL may
also serve the other requests, any answer may be refused or shortened (`faults`).

`DevLog` is `fdl_printf`: the device may send `BSL_REP_LOG` at any time, as often as it
likes; at most `MaxLogs` are waiting. `SkipLog` is a round of the loop in `recv_msg`, which
prints one and starts the wait again with the whole timeout. A timeout may fall into the
middle of a log message, which is then lost.

A timeout may also fall into the middle of a reply. Its bytes are then lost and
`recv_msg` returns nothing, but the answer will not come later either: `TornReply`
takes it out of the pipe and sets `torn`. `HostRecv` shows where this comes from.

Requests carry a number (`id`) that exists in the model only, to say which
request a reply answers. `tolerated` counts the timeouts after which the host
went on.

Uninitialised `ret` in `load_partition`: in the first round of the loop the test
`if (!ret)` may go either way, whatever was received; in later rounds `ret` is
the previous reply's type and never 0.

Left out: the bytes of messages (below), the automatic sizes of `dump_flash` (in
`AutoDump`), and the `fdl` command (in `SpdBoot`).

### FdlDownload

The handlers of `custom_fdl/main.c` over a memory `mem` in which the window
`FW .. FW+Win-1` is serial NOR flash and the rest RAM. A byte is the set of its
1 bits: erasing gives `Bits`, programming intersects. `data_midst` on flash takes
several steps: accept (`MidstFlash`, which advances `dl.recv` and unlocks the
chip), then per block one of `SkipPiece`, `PatchPiece` (program only) or
`EraseBlock`, followed by `Program` (`sfc_write` and the read-back of
`write_and_check`), and `MidstDone`. `Program` may stop after any prefix: a worn or
protected chip. `PowerLoss` may happen between any two steps of a write. `erase_flash`
is `EraseRefused`, `EraseStart` and `EraseNext` per block; `EraseTarget` is the
address the chip sees: `sfc_erase` sends three bytes.

The host may send any packet at any time, but sends no more data after a failed
write (`send_buf` exits). `job`, `base`, `got`, `erased` and `failed` exist in
the model only: which download or erasure is under way, the memory when it began,
what was received, which blocks were erased, whether a failure was reported.

Programming beyond the window has no effect in the model: `sfc_write` then uses a
4-byte address command that a 16 MB chip does not have.

### Hdlc

Operators only: the raw message, `spd_checksum` and `dl_fastchk16`, escaping, the
frame as `encode_msg` and as `dl_escapedata` build it. A byte has `Base` values, two of
them special; `Flip` is the exclusive or with 0x20, of which only the properties
in `AlphabetAssumption` matter. The CRC16 is left out.

### FdlPacket

`dl_get_packet`, one action per kind of byte. The line holds whole frames and
frames whose beginning or end is missing (a serial line that lost bytes, a host
that was stopped). `AwaitHeader` is the loop in `dl_main` that swallows everything up to
the first header. Ghost fields say which frame a byte came from.

A cut frame may draw no `BSL_REP_VERIFY_ERROR`, or several; the properties do not
depend on it. The header in front of the next frame may be taken for the one that
closes the cut frame, so the next frame may be lost, never more.

### FdlEscape

The loop of `dl_escapedata`: the packet lies in the buffer in which the frame is
built. `SendBuf` and `AckBuf` are the two buffers in use, with the sizes in the code.

### HostRecv

`recv_msg1` with the way its bytes get there. The device's frames are cut into USB
packets by `Split` (`usb_channel_write`); `Arrive` and `XferDone` are
`libusb_bulk_transfer`, which gathers packets until one is short or the buffer is
full, or, without libusb, `read`, which takes any number of bytes. `Timeout` may
fall anywhere. With libusb it sets `len` to the number of bytes that did arrive and
leaves `pos` alone, so that these bytes are dropped or read from the middle:
`recvBuf' = xfer` with `pos` unchanged. Both modes, with and without
`FLAGS_TRANSCODE`, are included; serial frames may have bytes missing.

`cuts` counts the timeouts that cost a message. A timeout that falls between a
message and the header behind it does not: `recv_msg1` returns the message, and
with `FLAGS_TRANSCODE` the late header is taken for one more in front of the next frame.

### ByteFifo, UsbRing

`ByteFifo` is what `dl_get_packet` relies on: bytes come out of a queue in the order in
which they were put in. `UsbRing` is `custom_fdl/usbio.c`: `CheckInt`, `Recv`, `Store`,
`ClearEndp2`, `ServeEndp0` and `ClearEndp0` are the accesses of `usb_check_int` to the
controller, `Getchar`, `TakeByte` and `NoByte` the loop of `usb_channel_getchar`, `UsbSend`
and `UsbSent` the two ends of the wait in `usb_send`. The controller is external and runs
beside the program: a packet may arrive between any two of these steps. The source does
not say whether its status bits are events that are remembered until they are cleared or
show the state of the endpoint; `latched` stands for both. `usb_recv` writes the ready bit of
the receive buffer twice (usbio.c:253); the second write is taken to have no effect when the
host has sent the next packet in between. The refinement mapping takes
the queue to be the ring, the packet being copied and the packet in the FIFO.

### SpdBoot

The `fdl` command for FDL1 and FDL2 as a program of steps (`Program`), each a request and
what counts as its answer (`Wanted`). `Send`, `RecvLog`, `Recv` and `Timeout` are the host;
`RomStep` is the boot ROM (external), `Lose` a request that arrives while an FDL starts,
`Start`, `FdlVersion` and `FdlStep` are `dl_main`. Each request carries the check sum its
sender used and the step it belongs to; `judged` pairs the step that waited with the step
that was answered.

### ProgramRun, SfcWrite

`ProgramRun`: a run of bytes is programmed from its start to its end and nothing else
changes. `SfcWrite` gets there with `sfc_unlock` for each maker, a write enable per
command, status registers that are sets of bits and lose those of `Mask` (0xfc or 0xbc) and
`Mask2` (0x40, for GigaDevice both as 0x40fc), the slots of the command buffer (`Fill`, with
the `type_info` left behind by the
command before) and the request. The chip is external: it ignores a command without write
enable or with protection bits set and wraps around inside a page. How the commands for
erasing act is in `FdlDownload`. A chip that is sent one byte for its first register is taken
to keep the second.

### T117Usb

The receive path of `t117_fdl/usbio.c`: `Packet` is the DMA engine (external) that puts a
packet into `usb_recv_buf`, `Handler` is `usb_handler`, which starts the next transfer,
`Read1` is `usb_read1`. The host is `send_msg` with its empty packet, and repeats the check
baud (`Retry`). The control endpoint is left out.

### ZqCal, DdrTrain

The two searches of `t117_fdl/sdram_init.c`. `ZqCal` is `dmc_zq_cal`; the comparator is
external and may answer either way between `low` and `high`. `DdrTrain` is
`ddr_scan_online` with `wde_training` and `rde_training`: a scan of delays with the built-in
self test, the choice of a run, and the conversion of its middle to an offset from the
DLL's delay. A board is a set of steps per path at which data gets through. Delays are in
quarter steps, as in the code. `sdram_init` may skip the scan altogether; this boot begins
at its end.

### PartTable, AutoDump, HostArgs

`PartTable` follows a table from the phone (`partition_list`, `partition_list_4k`) to a
file, through changes by the user (`Insert`, `Delete`) and back (`scan_xml_partitions`,
`repartition`). A file is a sequence of tokens; `ScanToken` is one round of the scanner in
its three stages. `AutoDump` is `dump_flash`: the header, the rest, the signature and its
data are four reads, each of which may end early. `HostArgs` takes a command through
`str_to_addr`, `str_to_size`, the limits and `CHECK_SECURE` to the bytes of the flash that
the FDL then changes, in arithmetic of W and W2 bits. A packet of `Pkt` bytes goes to the
flash if its first byte does, and an erase command wraps at the end of the flash (`OnChip`).

### Unpac

`unpac.c` with one file position: `ReadEntry`, `BadEntry`, `Open`, `Copy` and `Close` are
the loop over the directory, `SumChunk` the check. Names are short sequences with one
character that stands for all outside ASCII; `Matches` in the properties is a second,
declarative definition of the patterns.

### LzDec, InitTable

`LzDec` is `sprd_lzdec2` and `sprd_lzdec3`, one action per field of a code, on streams
that `Encode` makes from literals, copies and zeros, whole and cut off, and on raw ones.
`InitTable` is `print_init_table`: the guess of the address, then one `Skip` or `Save`
per entry; the processor works through the same table in the same steps (`mem`). The
program may have recognised any of the four functions (`detected`).

### SdBoot

`sdboot_helper` is the operator `Scan`; the lists it prints are `Install` and `Remove`.
They are carried out one command at a time (`Command`, `Complete`) and may be cut short
(`Cut`); the phone may write its storage in between (`Store`) and a new dump may be
scanned (`Rescan`), behind a whole list or behind one that was cut. `blind` says that
the helper was run on a dump with half a list carried out.

### NvStore, Sms, LcdDec

`NvStore` is the part of `scan_data` that finds storage blocks and puts disk images
together, on a flash that a phone has written (`Update`, `Mark`), perhaps with an update
under way. A block that begins with an item of odd size (`OddIds`) is not found (`Hidden`):
main.c:1050 checks the first item without the last byte, :1056 all items with the size
rounded up. `Sms` is `sms_decode`, with `Stored` as its reference encoder. `LcdDec` is
`lcd_init_dec` beside a processor that runs the same code; an instruction is chosen when
the decoder gets to it.

### MC modules

The `MC` modules give the constants small values; `MCSpdSession`,
`MCFdlDownload` and `MCPrograms` also state the properties of the runs that are expected to fail.
`MCFdlPacket`, `MCDevice` and `MCPrograms` hold several components that have no state in common: `part`
says which one runs, and in the last two its variables are the first of `v1`, `v2`, .... Their properties
are conjunctions of the named properties of the components, each guarded by its `part`; the
assumptions on constants, plain definitions in the components, are assumed there.

## 4. Runs

| Run | Checks | Result |
|---|---|---|
| `session` | all command lines of three commands out of nine; `find_partition_size` alone on 14 sizes | all properties hold |
| `late_dump` | a dump file always holds what was asked for | violated: stale answer |
| `load_timeout` | "timeout reached" means a timeout | violated: uninitialised `ret` |
| `load_late_ack` | `write_part` that returns has written | violated: late acknowledgement |
| `download` | two downloads or erasures, any packet order | all properties hold |
| `erase_past_end` | an erasure changes nothing outside its area | violated: address wraps |
| `packet` | `dl_get_packet` on three frames, whole, cut or run together; `dl_escapedata` on every packet of up to three payload bytes | all properties hold |
| `recv` | `recv_msg1` on three frames with two timeouts, all modes | all properties hold |
| `device` | `UsbRing`, `SpdBoot`, `T117Usb`, `SfcWrite`, `ZqCal`, `DdrTrain`, one part per behaviour | all properties hold |
| `programs` | `PartTable`, `AutoDump`, `HostArgs`, `Unpac`, `LzDec`, `InitTable`, `SdBoot`, `NvStore`, `Sms`, `LcdDec`, one part per behaviour | all properties hold |
| `unpac_refused` | `unpac` without names extracts every file | violated: refused name |
| `sdboot_rescan` | a list of the sdboot helper carried out to its end gives a phone that starts | violated: helper run on half a list |

What the properties of `session` say:

- `AnswerLag`: each reply taken answers the request sent exactly `tolerated`
  requests ago. Nothing drains the pipe, so one late answer shifts all that follow.
- `DumpFaithful`, `WrittenLanded`, `FinishedComplete`: while no timeout was
  tolerated, files and memory are what the counters say, and a command that
  returns without the device's refusal is complete.
- `QuietWhileReading`: no write of an earlier command takes effect later.
- `HostTerminates`: the program ends, whatever the device answers or does not answer, if
  the device stops sending log messages. Each of them starts the wait again, so that one
  that never stops would keep the host forever.

What the properties of `packet` and `recv` say:

- `OnlySent`: what a receiver returns are messages of the sender, unaltered, in
  order, at most once. With four byte values the check sum is weak; the damaged
  frames considered are ones whose remains do not match by accident.
- `LossBounded`: damage costs one message; the receivers resynchronise.
- `NoFalseAlarm`, `NoFalseExit`: an undamaged conversation raises no error, so the two
  sides agree on the check sums for even and odd lengths.
- `AllReturned`: no transfer waits for more after the last byte of a message.
- `FrameFits`, `UnreadKept`, `FrameRight`: escaping in place is safe and gives the frame.

The findings are the reason for the proviso "no timeout was tolerated": without it
`late_dump` and `load_late_ack` show how the properties fail.

Bounds of `session`: five cells, blocks of two (so that a whole block and a short
last one both occur), areas that overlap, one that reaches past the end of the
memory, three commands (a stale answer needs two commands, a stale answer that
skips one needs three). The number of requests is bounded by the scripts, so the
pipes need no bound. For the size search alone: first step 4 units of 2 cells, every size
from 1 to 14, hence sizes on both sides of every unit boundary.

Bounds of `download`: two blocks of four bytes with RAM on both sides, one bit
per byte (all byte operations are bitwise), downloads inside one block, across
the boundary and in RAM, payloads of up to three bytes so that one download takes
several packets in a block, `MaxStarts = 2` downloads or erasures. The areas
end inside the window; `erase_past_end` is about the one that does not.

Bounds of `packet` and `recv`: two-bit bytes, of which one is the header,
one the escape and two are their escaped forms; payloads of zero to four bytes so
that lengths are even and odd and fields contain bytes that need an escape;
three frames (a damaged one, the one behind it that may suffer, one that must not);
packets of four bytes and a receive buffer of two packets, so that frames need one
and two transfers; two timeouts.

What the properties of `device` say, by component:

- `ImplementsFifo`, `ImplementsRun`: `UsbRing` implements `ByteFifo`, `SfcWrite` with
  `sfc_unlock` implements `ProgramRun`.
- `BootRight`: `SumsAgree` (no message meets the wrong check sum), `AnswersMatch`,
  `DoneMeansRunning`, `ChipAgrees` (`FW_ADDR` and efuse sizes of host and FDL).
- `InOrder` of `T117Usb`, with `NeverPast`: no message is altered or read past its end.
- `SdramTuned`: `Calibrated`; `ScanOkWorks` ("ok" behind a scan means that all paths
  work; a boot without a scan says so of delays that nothing has tested), `InTheMiddle`, `FailureKeeps`.
- `NothingWaits`: every part comes to its end, and control requests are served. Where the
  end is not certain is said by `NoEventLost` and `Terminated`.

And those of `programs`:

- `HostRight`: `SentAsListed`, `RoundTrip`, `WrongUnitRefused`; `FileRight`, `SavesWhole`;
  `AsWritten`, `HeadKept` (the protected part, for areas that end in the flash).
- `ArchiveRight`: `ListsChosen`, `FilesRight`, `ExtractsChosen` (the
  chosen files in order; the program stops early only at data that is cut off or behind a
  name that is refused),
  `ChecksAll`.
- `DecodedRight`: `WritesPrefix`, `DecodesAll`; `GuessRight`, `FilesPlaced`, `SavedRight`;
  `ImageCurrent`, `ListsAll`; `PartyRight`, `TextShown`; `ListRight`, `DataContinues`.
  `GuessRight` and `SavedRight` are about tables all of whose functions were recognised,
  `ImageCurrent` and `ListsAll` about blocks that are found, `TextShown` allows the
  character that padding adds.
- `SdbootRight`: `InstalledStarts`, `SamePlan`, `RemovedRestores`; and `RemovalSafe`. The
  first says that an installation works whenever the helper knows the firmware's entry, and
  that it knows it unless it was run on half a list (`blind`); the third is about the
  user who repeats a list that was cut short instead.

The two expected violations of this module drop one condition each: `ExtractsEvery` that no
name is refused, `InstallAlwaysStarts` that the helper knows the firmware's entry.

Bounds of `device`: a ring of four bytes and packets of two, requests longer than the ring,
two control requests; three check bauds, a chip of each family and all options of the
command line; messages that fill their last packet and others; three pages of eight cells,
commands of six bytes in slots of two, every run of up to 19 bytes; strengths of three bits,
every pair of places where the comparators change; scans of ten steps, with unusual windows
on at most two of the six paths.

Bounds of `programs`: two partitions in sizes that two, one or none of the units divide and
two changes of the file, with room for three; headers of a few bytes with fields below, at
and above each limit; addresses of five bits and numbers of eight; three entries of an
archive and patterns of up to three characters; segments on each side of the widths of the
fields and all raw streams of five bytes over codes that select every branch; three entries
of an init table over six bytes of RAM; six pages in blocks of two and two cuts; three
storage blocks of two items; texts of up to nine characters, all lengths of parties; LCD code
of twelve half words, which has room for a command, a full line, the line after it and a
delay.

## 5. Fairness

- `SpdSession`: weak fairness of the host's steps only. The host process is
  scheduled and each wait of `recv_msg1` ends, with a message or with the timeout (a poll or
  a bulk transfer with a finite `io->timeout`). Nothing is assumed of the device but, in
  `HostTerminates`, that its log messages come to an end; `HostError` is not required to
  happen.
- `FdlDownload`: weak fairness of the steps inside a handler: the processor runs.
  Waiting for the chip's status register inside `sfc_erase` and `sfc_write` is
  assumed to end. No packet is required to come.
- `UsbRing`: weak fairness of the FDL's steps (the processor runs), of the host sending a
  packet that the endpoint accepts and of the host taking one that is ready (a bulk
  transfer is under way whenever the conversation calls for it). No control request is
  required to come.
- `SpdBoot`: weak fairness of the host's steps, of which the timeout is one. Nothing is
  assumed of the device.
- `T117Usb`: weak fairness of the bus, of the FDL and of the host's next message; a
  repeated check baud is not required to come.
- `SfcWrite`, `ZqCal`, `DdrTrain`: weak fairness of the program, which is sequential.

## 6. Proofs

Each theorem holds for every value of the constants that its assumptions admit. The
invariants below are the inductive strengthenings; the properties alone are not inductive.

`SpdSessionProofs` holds for every set of scripts, every memory size, every `Step` and
`Unit`, from `SizesAssumption` (positive sizes), `ScriptsAssumption` (the 8 bytes of
`read_pactime` are one request) and, for the size search only, `ProbeAssumption`
(`TopProbe` is a power of two: `1ll << 47` in units).

- `TypeCorrect`: `Spec => []TypeOK`. The requests a command may send depend on its phase;
  `PhaseOK` says which commands are in which phase. The part of interest is
  `dl.recv <= dl.size`.
- `AnswerLagHolds`: `Spec => []AnswerLag`. The invariant `PipeInv` adds `PipeIds`
  (replies and then requests in the pipes carry consecutive numbers that end with
  the last one sent) and `PipeCount` (their number is `tolerated`, plus one
  while the host waits). Sending appends the next number, answering moves the
  first request to the end of the replies, taking a reply drops the first, a
  tolerated timeout moves one from "waiting" to "tolerated".
- `QuietWhileReadingHolds`: with `tolerated = 0` the pipes hold only the request
  being waited for (from `PipeInv`), and `WriteFree` says that a command that
  only reads never puts a writing request there.
- `DumpFaithfulHolds`: `DumpInv` adds `ReadInFlight` (the request on its way asks for the
  block at `off`, and a reply on its way holds a prefix of these cells). A block
  appended to the file continues it because concatenating adjacent cells gives
  the cells of the union (`CellsConcat`).
- `WrittenLandedHolds`, `FinishedCompleteHolds`, `PartSizeExactHolds`, from `TransferInv`.
  `WriteInv` relates the host's `off` to the device's `dl_status` at each moment of a
  block: equal before the request is answered, one block behind while an acknowledgement
  is on its way. `ReadInv` says that a reply on its way is a whole block unless the device
  failed. `ProbeInv` is the invariant of the binary search: the size lies in the interval
  that the remaining steps can still add, and the step is one of the halvings of `TopProbe`.

`FdlPacketProofs`, for every alphabet, every `MAX_PKT_SIZE` of six or more and every
line of bytes:

- `PacketTypeCorrect`: `Spec => []TypeOK`, of which the point is that at most
  `MAX_PKT_SIZE + 1` bytes are stored. The inductive invariant adds `RoomInv`: never
  more than one byte beyond the length known so far.
- `CheckSumsAgree`: `dl_fastchk16` accepts what `spd_checksum` puts behind a message of
  even or odd length. Both fold the carries of the same sum of words, twice; `Carries` says
  what is left of a sum below `Word * Word`, and that no message that fits the length field
  reaches it.

The other theorems are about lines that a host sends (`FromHost`, evaluated by TLC in
`MCFdlPacket`): the four headers of the check baud, then the frames of any messages that the type and the
length field can hold, of which any number of bytes may be missing at either end.

- `ReceivesAllSound`: every message that fits, whose frame is whole and does not
  follow a cut one is returned (`LossBounded`). `NoFalseAlarmHolds`: if all are like that, nothing is rejected.
- `WholeUnaltered`: packets are returned in the order of the line, none twice, and one
  whose first byte came from a whole frame is that frame's message, whatever is missing
  of the others. `OnlySentHolds`: so `OnlySent` holds as long as no packet returned began in a
  cut frame.

They follow from `ReceiveInv`. `Pos` is the number of bytes taken; `FrameAt` and `Places` say
where on the line the bytes of a message are. `BetweenInv`: behind a header nothing is
stored, because what came before was returned or rejected. `TrackInv`: inside of a frame that
follows a whole one, what is stored is the beginning of its message and `Pos` is where the
rest of it begins, possibly behind the escape byte (`Reading`). `WholeInv`: inside of any
whole frame that is so, or the FDL waits for the next header. `FromInv`: no header came
since the first byte stored; a frame has headers at its ends only (`HeaderFree`), so that
what is stored never spans two whole frames. `ClosedInv`: a header came behind the first
byte of everything returned, which puts packets in order.

`FdlEscapeProofs`, for every alphabet, every `MAX_PKT_SIZE` and every packet that
`read_flash` lets through (`PacketsAssumption`):

- `EscapeTypeCorrect` and `UnreadKeptHolds`, both from `EscapeInv`: there is room for one
  escape per byte in front of the packet and for the longest frame in the buffer
  (`RoomOK`), and the frame is at most twice as long as what was read (`GrowthOK`).
- `FrameRightHolds`: what has been written is the encoding of the bytes read (`FrameInv`).
  That the encoding of one more byte appends its code is an induction over the sequence.
  The library's induction theorems take an operator, so that it is done with sets: the
  set of lengths at which the statement fails has no least element (`LeastNat`, `Induct`).

`FdlDownloadProofs`, for every geometry that `GeometryAssumption` admits (the firmware's
window, the address space and the window's start are whole numbers of erase blocks) and
every content, set of protected blocks, download and cut into packets:

- `DownloadTypeCorrect`: `dl_status.size - dl_status.recv` never wraps.
- `DownloadReceived`, `DownloadOutsideKept`, `DownloadDamageBounded`, `DownloadEraseOnce`
  and `ErasureExact`, from `Inv`. `DownloadInv` says what each cell holds *or will hold if
  the write in progress succeeds*: the received byte, an erased byte ready for the rest,
  or the old one; the saved part of a block counts as promised while it is only in RAM.
  `EraseInv` says that everything before `cur` is blank and the rest untouched.
- The first four are about downloads that lie inside the window or outside of it
  (`OneSided`). A download that crosses an end is stored partly with `memcpy`, which
  cannot write the window, and the code does not refuse it. `ErasureExact` is about areas in
  the window (`InFlash`); the run `erase_past_end` shows what happens behind its end.

`UsbRingProofs`, from `RingAssumption` (the ring is longer than a packet, requests and
answers are not empty), with either behaviour of the status register:

- `RingImplementsFifo`: `Spec => Fifo!Spec`. `RingInv`: the bytes that the host has sent and
  `usb_channel_getchar` has not returned are those between the read and the write position, modulo
  the length of the ring, then those in the local buffer of `usb_int_endp2`, then those in
  the FIFO of the endpoint (`Bytes`); a packet is let in only when the ring has room
  (`RoomInv`). Sending and returning are the steps of `ByteFifo`, all others stutter.
- `RingTypeCorrect`: adds the registers and `DueInv`: the bytes under way and those the host
  will still send are never more than the FDL waits for, so it never receives a byte of a
  request before it asks for it.

`SpdBootProofs`, for every number of attempts and set of chips (`BootAssumption`):
`BootTypeCorrect`, `BootSumsAgree`, `BootAnswersMatch`, `BootDoneMeansRunning` and
`BootChipAgrees`, from `BootInv`. The requests on their way are that of
the host's step, check bauds that were given up and the exec that nobody answers, in the
order of their steps (`RequestInv`); the answers on their way are those of the host's step
(`AnswerInv`); and who runs on the device is known from the step (`StageInv`, `SecondInv`).
Without them a check baud that was repeated could meet the wrong peer or its answer the wrong
step.

`PartsProofs`: the parts of a device that are small sequential programs or drivers.

- `ZqTypeCorrect`, `PadsCalibrated` (`ZqAssumption`: at least two strengths): each
  comparator changes somewhere in the range, possibly late or early by the noise, and the
  two searches without a limit stop because of it.
- `DdrTypeCorrect`, `DdrScanOkMeansWorking` (about boots with a scan), `DdrSamplesMiddle`,
  `DdrFailureHarmless`, from `DdrInv`. `DdrAssumption` is about the constants of
  `sdram_init.c`: offsets of 7 bits in
  steps of 4 reach every delay of a scan, and the shortest run that is accepted has its
  middle behind the shift of the data. Its numbers satisfy them (28 <= 2 * 16, 2 * 8 <= 17).
- `DmaTypeCorrect`, `DmaNeverPast`, `DmaInOrder`, from `DmaInv`. `DmaAssumption`: the buffer
  holds whole packets and a message is shorter than it. `SumInv` counts every byte sent
  as returned, waiting, in the transfer or not on the bus; `OrderInv` says which of them a
  transfer may overwrite: what is left of the check baud.
- `SfcTypeCorrect` and `SfcImplementsRun`: `Spec => Run!Spec`, from `SfcInv`. A command takes
  at least one byte and ends with the page (`AmountFacts`), so that the wrap inside a page
  never happens, and the buffer holds exactly its bytes (`CommandInv`); every command is
  one step of `ProgramRun`, all others stutter. It holds for every set of bits in the status
  registers. `SfcAssumption`: a command is whole words
  and the flash whole pages.

`MCDeviceProofs` carries these theorems to `MCDevice`, the module of the run `device`, with
its values of the constants: `DeviceTypeCorrect`, `DeviceBootRight`, `DeviceSdramTuned`,
`DeviceInOrder`, `DeviceImplementsFifo` and `DeviceImplementsRun`. `DeviceInv` is the
invariant of the part that runs. The components are instantiated twice, by `MCDevice` and
by the modules of proofs; the `Same...` lemmas say that both define the same actions.

Only model-checked:

- `HostTerminates`, `Answered` and `NothingWaits`: liveness under fairness is out of the
  prover's reach.
- That a packet which began in a cut frame is a message of the host (`OnlySent` of
  `FdlPacket`), and `OnlySent` and `LossBounded` of `HostRecv`: for arbitrary damage
  they are false (two messages may have one sum), so that a theorem
  would have to assume away collisions of the inputs considered.
- `NoFalseExit`, `AllReturned` and `TypeOK` of `HostRecv`.
- The properties of `MCPrograms`: the wildcard comparison of `unpac` is a `RECURSIVE` operator,
  which keeps theorems out of every module that reaches it, and what the decoders compute is
  compared with reference definitions on all inputs of the bounds.

## 7. Observed disagreements without a run

Besides the six runs that are expected to fail, modelling showed these; each is kept
out of the properties by the condition named.

- `t117_fdl/sdram_init.c:706`: a boot may skip the scan and still prints "DDR init OK";
  nothing has tested the memory then. `ScanOkWorks` says of it only that the delays are
  those of the DLL.
- `fphelper/main.c:979`: `n` still counts the padding bits between a header and a
  seven-bit text, so that one character too many is printed; the comment at :977 says "skip
  padding if necessary". `TextShown` asks for the exact text only without padding.
- `fphelper/main.c:1050`: the first item of a block is checked without the last byte of
  an odd size, all items with the size rounded up (:1056), so that a block whose first item
  has an odd size is not found. `ImageCurrent` and `ListsAll` leave out the `Hidden` blocks.
- `fphelper/main.c:361`: when a function that the table uses was not recognised, the guess of
  the address may be wrong, with entries of the others. `GuessRight` asks for `Recognised`.
- `spd_dump.c:980`: `partition_list -` writes the line about the wrong unit to a file that
  is not open. `PartTable` stops there (`crash`).
- `spd_dump.c:1386`: `CHECK_SECURE` looks at the start address alone. Data that begins below
  `fw_addr` reaches the protected part with a packet that begins in it, and
  an erasure past the end of the flash comes round to it (as in the run `erase_past_end`).
  `HeadKept` is about areas inside the flash.
- `t117_fdl/usbio.c:97`: the loop over a setup packet advances `i` twice, so that every
  other byte is read uninitialised; the class request that `spd_dump` sends is told by the
  bytes that are read.

## 8. Not modelled

Register initialisation (`init_*.h`, most of `sdram_init.c`, `start.s`, `entry.c`) has no
state that the program's logic reads back. USB enumeration and serial set-up are
operating system calls. The LZMA decoder is third-party code, used by `fphelper` as a
function. `fwcrypto.c` is arithmetic on tables without control. The scanners of `fphelper`
that print guesses (keymaps, GPIO and pin tables, dial codes, clues) compare bytes with
patterns and keep no state that a later step reads. The CRC16 of the boot ROM's protocol
appears in `SpdBoot` as a kind of check sum, not as a function.
