----------------------------- MODULE MCDevice -----------------------------
(***************************************************************************)
(* The parts around the FDLs that run on the device, checked on small      *)
(* instances: the USB ring and the flash programming of custom_fdl, the    *)
(* handshake that starts an FDL, and DMA reception and SDRAM set-up of     *)
(* t117_fdl.  They have no state in common, so every behaviour is one of   *)
(* one part.                                                               *)
(***************************************************************************)
EXTENDS Integers, Sequences

\* A ring of four bytes, packets of two: requests longer than the ring, requests of one
\* packet, and answers that end with a full and with a short packet.
Exchange(n, m) == [size |-> n, answer |-> m]

MCExchanges ==
  { << Exchange(2, 4), Exchange(5, 1), Exchange(1, 2), Exchange(8, 3) >>,
    << Exchange(2, 4), Exchange(1, 1), Exchange(2, 3) >> }

\* Packets of two bytes, a buffer of six: messages of odd and even length behind the
\* check baud.
MCSessions == { <<3, a, b, c>> : a \in 1 .. 5, b \in 1 .. 5, c \in {1, 4} } \cup { <<4, 3, 5>>, <<2, 3, 4>> }

\* Scans of ten steps. No window, all steps, runs at both ends, as short as is allowed
\* and shorter, and one behind a single step that passed, on at most two of the paths.
Family == { {}, 0 .. 12, 0 .. 4, 0 .. 5, 3 .. 6, 3 .. 8, 5 .. 12, 8 .. 12, {1} \cup 4 .. 9, {0, 1, 2, 3} \cup 5 .. 11 }

MCPaths == {"w", "p", "n"} \X {0, 1}

MCWindows ==
  { [p \in MCPaths |-> IF p = a THEN v ELSE IF p = b THEN w ELSE 2 .. 8] : a, b \in MCPaths, v, w \in Family }

-----------------------------------------------------------------------------
VARIABLES
  part,  \* the part of the system that runs
  v1, v2, v3, v4, v5, v6, v7, v8, v9, v10, v11, v12, v13, v14, v15, v16, v17, v18,
  v19, v20, v21  \* its variables

vars == <<part, v1, v2, v3, v4, v5, v6, v7, v8, v9, v10, v11, v12, v13, v14, v15, v16, v17, v18, v19, v20, v21>>

Ring == INSTANCE UsbRing WITH
  BufSize <- 4, MaxRead <- 2, Exchanges <- MCExchanges, MaxSetups <- 2,
  latched <- v1, session <- v2, req <- v3, left <- v4, fifo <- v5, ready <- v6,
  sts2 <- v7, setup <- v8, sts0 <- v9, setups <- v10, pc <- v11, wait <- v12,
  mask <- v13, tmp <- v14, ring <- v15, rpos <- v16, wpos <- v17, out <- v18,
  need <- v19, txq <- v20, sent <- v21

Boot == INSTANCE SpdBoot WITH
  Tries <- 3, Chips <- {\h6531, \h6562, \h9818}, opts <- v1, chip <- v2, k <- v3,
  pc <- v4, tries <- v5, known <- v6, judged <- v7, toDev <- v8, toHost <- v9,
  stage <- v10, down <- v11, naks <- v12

Dma == INSTANCE T117Usb WITH
  BufSize <- 6, PacketSize <- 2, Sessions <- MCSessions, MaxRetries <- 2, high <- v1,
  msgs <- v2, m <- v3, left <- v4, retries <- v5, sent <- v6, count <- v7,
  done <- v8, mem <- v9, idx <- v10, len <- v11, pc <- v12, out <- v13, owed <- v14

Sfc == INSTANCE SfcWrite WITH
  PageSize <- 8, MaxData <- 6, WordLen <- 2, Cells <- 24, MaxSize <- 19, SrBits <- {2, 6, 7},
  vendor <- v1, sr1 <- v2, sr2 <- v3, wel <- v4, mem <- v5, tbuf <- v6, first <- v7,
  length <- v8, src <- v9, pc <- v10

Zq == INSTANCE ZqCal WITH
  Levels <- 8, Target <- 15, low <- v1, high <- v2, reg <- v3, tmp <- v4, inc <- v5,
  deinc <- v6, drvn <- v7, pads <- v8, pc <- v9

Ddr == INSTANCE DdrTrain WITH
  Windows <- MCWindows, Ui <- 8, RdeSteps <- 10, MinRun <- 3, ShiftLen <- 2,
  Din <- 4, Count <- 12, OffLimit <- 32, win <- v1, delay <- v2, tested <- v3,
  shift <- v4, dqin <- v5, phase <- v6, lane <- v7, j <- v8, first <- v9, mid <- v10,
  err <- v11, runs <- v12, pc <- v13

-----------------------------------------------------------------------------
(* One part at a time; the variables it does not have stay 0.              *)

Above14 == <<v15, v16, v17, v18, v19, v20, v21>>
Above13 == <<v14, Above14>>
Above12 == <<v13, Above13>>
Above10 == <<v11, v12, Above12>>
Above9 == <<v10, Above10>>

Unused14 == v15 = 0 /\ v16 = 0 /\ v17 = 0 /\ v18 = 0 /\ v19 = 0 /\ v20 = 0 /\ v21 = 0
Unused13 == v14 = 0 /\ Unused14
Unused12 == v13 = 0 /\ Unused13
Unused10 == v11 = 0 /\ v12 = 0 /\ Unused12
Unused9 == v10 = 0 /\ Unused10

Init ==
  \/ part = "ring" /\ Ring!Init
  \/ part = "boot" /\ Boot!Init /\ Unused12
  \/ part = "dma" /\ Dma!Init /\ Unused14
  \/ part = "sfc" /\ Sfc!Init /\ Unused10
  \/ part = "zq" /\ Zq!Init /\ Unused9
  \/ part = "ddr" /\ Ddr!Init /\ Unused13

RingNext == part = "ring" /\ Ring!Next /\ UNCHANGED part
BootNext == part = "boot" /\ Boot!Next /\ UNCHANGED <<part, Above12>>
DmaNext == part = "dma" /\ Dma!Next /\ UNCHANGED <<part, Above14>>
SfcNext == part = "sfc" /\ Sfc!Next /\ UNCHANGED <<part, Above10>>
ZqNext == part = "zq" /\ Zq!Next /\ UNCHANGED <<part, Above9>>
DdrNext == part = "ddr" /\ Ddr!Next /\ UNCHANGED <<part, Above13>>

Next ==
  \/ RingNext \/ BootNext \/ DmaNext \/ SfcNext \/ ZqNext \/ DdrNext

Spec ==
  /\ Init /\ [][Next]_vars
  /\ WF_vars(part = "ring" /\ Ring!Device /\ UNCHANGED part)
  /\ WF_vars(part = "ring" /\ Ring!HostSend /\ UNCHANGED part)
  /\ WF_vars(part = "ring" /\ Ring!HostTake /\ UNCHANGED part)
  /\ WF_vars(part = "boot" /\ Boot!Host /\ UNCHANGED <<part, Above12>>)
  /\ WF_vars(part = "dma" /\ Dma!Progress /\ UNCHANGED <<part, Above14>>)
  /\ WF_vars(SfcNext \/ ZqNext \/ DdrNext)

ASSUME RingBounds == Ring!RingAssumption
ASSUME BootBounds == Boot!BootAssumption
ASSUME DmaBounds == Dma!DmaAssumption
ASSUME SfcBounds == Sfc!SfcAssumption
ASSUME ZqBounds == Zq!ZqAssumption
ASSUME DdrBounds == Ddr!DdrAssumption

-----------------------------------------------------------------------------
(* Properties.                                                             *)

\* Positions stay in the ring and the buffers, strengths and delays in the fields of
\* their registers.
TypeOK ==
  CASE part = "ring" -> Ring!TypeOK
    [] part = "boot" -> Boot!TypeOK
    [] part = "dma" -> Dma!TypeOK
    [] part = "sfc" -> Sfc!TypeOK
    [] part = "zq" -> Zq!TypeOK
    [] part = "ddr" -> Ddr!TypeOK

Fifo == INSTANCE ByteFifo WITH
  MaxRead <- 2,
  queue <- IF part = "ring" THEN Ring!Queue ELSE <<>>,
  out <- IF part = "ring" THEN v18 ELSE <<>>

\* The ring of usbio.c with its two ways to be filled keeps the promise of a channel:
\* bytes come out in order, none lost and none twice, when getchar waits and when it
\* polls, with the ring at its limit, and wherever a packet arrives while another one is
\* being moved.
ImplementsFifo == Fifo!Spec

Run == INSTANCE ProgramRun WITH
  Source <- Sfc!Source,
  Erased <- Sfc!Erased,
  mem <- IF part = "sfc" THEN v5 ELSE << >>,
  first <- IF part = "sfc" THEN v7 ELSE 0,
  length <- IF part = "sfc" THEN v8 ELSE 0,
  written <- IF part = "sfc" THEN Sfc!Programmed ELSE 0,
  settings <- IF part = "sfc" THEN Sfc!Settings ELSE {}

\* sfc_unlock and sfc_write program the run from its start to its end and change no other
\* cell, wherever in a page it begins and ends and however long it is, on every chip that
\* sfc_unlock knows; a locked chip of another maker is left as it was. The quad enable
\* bit is kept, for every maker.
ImplementsRun == Run!Spec

\* The boot handshake of spd_dump: host, boot ROM and FDL1 change from CRC16 to the sum at
\* the same message; no answer is taken for that of another request, although check bauds
\* are repeated and late ones are answered too; a boot that ends without an error has
\* left the FDL running; what the host derives from the chip id is what the FDL has.
BootRight ==
  part = "boot" => Boot!SumsAgree /\ Boot!AnswersMatch /\ Boot!DoneMeansRunning /\ Boot!ChipAgrees

\* The DMA reception of t117_fdl: the next transfer overwrites the buffer while it is
\* read, and no length is looked at; with one message under way at a time none is altered
\* by that, but for what is left of the check baud, and no byte behind a transfer is read.
InOrder == part = "dma" => Dma!InOrder /\ Dma!NeverPast

\* sdram_init of t117_fdl: strengths and delays are set to what the searches found, in
\* the middle of a window, or stay as they were; in a boot with a scan, memory is reported
\* as working only if every path samples inside its window (a boot that skips the scan
\* reports it untested).
SdramTuned ==
  /\ part = "zq" => Zq!Calibrated
  /\ part = "ddr" => Ddr!ScanOkWorks /\ Ddr!InTheMiddle /\ Ddr!FailureKeeps

\* Where the end is certain: for a controller that remembers events only with requests of
\* one packet, on a full-speed bus only without messages that fill their last packet.
Certain ==
  CASE part = "ring" -> Ring!NoEventLost
    [] part = "dma" -> Dma!Terminated
    [] OTHER -> TRUE

Finished ==
  CASE part = "ring" -> Ring!Answered
    [] part = "boot" -> Boot!Ended
    [] part = "dma" -> Dma!LastSeen
    [] part = "sfc" -> Sfc!Ended
    [] part = "zq" -> Zq!Ended
    [] part = "ddr" -> Ddr!Ended

\* Nothing waits for ever: custom_fdl answers every request, t117_fdl sees every message,
\* the host comes to an end of the boot with a device that never answers too, and the
\* loops of sfc_write and sdram_init end, although some have no limit; a control request
\* is served whatever the FDL is receiving.
NothingWaits ==
  /\ Certain => <>[]Finished
  /\ (part = "ring" /\ Ring!SetupWaits) ~> (part = "ring" /\ ~Ring!SetupWaits)
=============================================================================
