--------------------------- MODULE MCDeviceProofs ---------------------------
(***************************************************************************)
(* The theorems about the parts around the FDLs, carried over              *)
(* from the components, where they hold for all values of the constants,   *)
(* to the composition that the run "device" checks.                        *)
(***************************************************************************)
EXTENDS MCDevice, TLAPS

BootP == INSTANCE SpdBootProofs WITH
  Tries <- 3, Chips <- {\h6531, \h6562, \h9818}, opts <- v1, chip <- v2, k <- v3,
  pc <- v4, tries <- v5, known <- v6, judged <- v7, toDev <- v8, toHost <- v9,
  stage <- v10, down <- v11, naks <- v12

RingP == INSTANCE UsbRingProofs WITH
  BufSize <- 4, MaxRead <- 2, Exchanges <- MCExchanges, MaxSetups <- 2,
  latched <- v1, session <- v2, req <- v3, left <- v4, fifo <- v5, ready <- v6,
  sts2 <- v7, setup <- v8, sts0 <- v9, setups <- v10, pc <- v11, wait <- v12,
  mask <- v13, tmp <- v14, ring <- v15, rpos <- v16, wpos <- v17, out <- v18,
  need <- v19, txq <- v20, sent <- v21

\* The two searches of sdram_init, the reception and the programming, each with nothing of
\* the others.
DdrP == INSTANCE PartsProofs WITH
  Windows <- MCWindows, Ui <- 8, RdeSteps <- 10, MinRun <- 3, ShiftLen <- 2,
  Din <- 4, Count <- 12, OffLimit <- 32, win <- v1, delay <- v2, tested <- v3,
  shift <- v4, dqin <- v5, phase <- v6, lane <- v7, j <- v8, first <- v9, mid <- v10,
  err <- v11, runs <- v12, pc <- v13,
  Levels <- 0, Target <- 0, low <- 0, high <- 0, reg <- 0, tmp <- 0, inc <- 0,
  deinc <- 0, drvn <- 0, pads <- 0,
  BufSize <- 0, PacketSize <- 0, Sessions <- {}, MaxRetries <- 0, msgs <- 0, m <- 0,
  left <- 0, retries <- 0, sent <- 0, count <- 0, done <- 0, mem <- 0, idx <- 0,
  len <- 0, out <- 0, owed <- 0,
  PageSize <- 0, MaxData <- 0, WordLen <- 0, Cells <- 0, MaxSize <- 0, SrBits <- {},
  vendor <- 0, sr1 <- 0, sr2 <- 0, wel <- 0, tbuf <- 0, length <- 0, src <- 0

ZqP == INSTANCE PartsProofs WITH
  Levels <- 8, Target <- 15, low <- v1, high <- v2, reg <- v3, tmp <- v4, inc <- v5,
  deinc <- v6, drvn <- v7, pads <- v8, pc <- v9,
  Windows <- {}, Ui <- 0, RdeSteps <- 0, MinRun <- 0, ShiftLen <- 0,
  Din <- 0, Count <- 0, OffLimit <- 0, win <- 0, delay <- 0, tested <- 0,
  shift <- 0, dqin <- 0, phase <- 0, lane <- 0, j <- 0, first <- 0, mid <- 0,
  err <- 0, runs <- 0,
  BufSize <- 0, PacketSize <- 0, Sessions <- {}, MaxRetries <- 0, msgs <- 0, m <- 0,
  left <- 0, retries <- 0, sent <- 0, count <- 0, done <- 0, mem <- 0, idx <- 0,
  len <- 0, out <- 0, owed <- 0,
  PageSize <- 0, MaxData <- 0, WordLen <- 0, Cells <- 0, MaxSize <- 0, SrBits <- {},
  vendor <- 0, sr1 <- 0, sr2 <- 0, wel <- 0, tbuf <- 0, length <- 0, src <- 0

DmaP == INSTANCE PartsProofs WITH
  BufSize <- 6, PacketSize <- 2, Sessions <- MCSessions, MaxRetries <- 2, high <- v1,
  msgs <- v2, m <- v3, left <- v4, retries <- v5, sent <- v6, count <- v7,
  done <- v8, mem <- v9, idx <- v10, len <- v11, pc <- v12, out <- v13, owed <- v14,
  Levels <- 0, Target <- 0, low <- 0, reg <- 0, tmp <- 0, inc <- 0, deinc <- 0,
  drvn <- 0, pads <- 0, Windows <- {}, Ui <- 0, RdeSteps <- 0, MinRun <- 0, ShiftLen <- 0,
  Din <- 0, Count <- 0, OffLimit <- 0, win <- 0, delay <- 0, tested <- 0,
  shift <- 0, dqin <- 0, phase <- 0, lane <- 0, j <- 0, first <- 0, mid <- 0,
  err <- 0, runs <- 0,
  PageSize <- 0, MaxData <- 0, WordLen <- 0, Cells <- 0, MaxSize <- 0, SrBits <- {},
  vendor <- 0, sr1 <- 0, sr2 <- 0, wel <- 0, tbuf <- 0, length <- 0, src <- 0

SfcP == INSTANCE PartsProofs WITH
  PageSize <- 8, MaxData <- 6, WordLen <- 2, Cells <- 24, MaxSize <- 19, SrBits <- {2, 6, 7},
  vendor <- v1, sr1 <- v2, sr2 <- v3, wel <- v4, mem <- v5, tbuf <- v6, first <- v7,
  length <- v8, src <- v9, pc <- v10,
  Levels <- 0, Target <- 0, low <- 0, high <- 0, reg <- 0, tmp <- 0, inc <- 0, deinc <- 0,
  drvn <- 0, pads <- 0, Windows <- {}, Ui <- 0, RdeSteps <- 0, MinRun <- 0, ShiftLen <- 0,
  Din <- 0, Count <- 0, OffLimit <- 0, win <- 0, delay <- 0, tested <- 0,
  shift <- 0, dqin <- 0, phase <- 0, lane <- 0, j <- 0, mid <- 0, err <- 0, runs <- 0,
  BufSize <- 0, PacketSize <- 0, Sessions <- {}, MaxRetries <- 0, msgs <- 0, m <- 0,
  left <- 0, retries <- 0, sent <- 0, count <- 0, done <- 0, idx <- 0, len <- 0,
  out <- 0, owed <- 0

-----------------------------------------------------------------------------
\* The component is the one that the proofs are about.
LEMMA SameBoot == /\ Boot!Init <=> BootP!Init
                  /\ Boot!Next <=> BootP!Next
                  /\ Boot!vars = BootP!vars
  <1>1. Boot!vars = BootP!vars
    BY ZenonT(30) DEF Boot!vars, BootP!vars
  <1>2. Boot!Init <=> BootP!Init
    BY DEF Boot!Init, BootP!Init
  <1>3. Boot!Send <=> BootP!Send
    BY ZenonT(30) DEF Boot!SendFile, Boot!FirstFdl, Boot!SecondFdl, Boot!Program, Boot!Step,
           Boot!Sum, Boot!Advance, Boot!Send, BootP!SendFile, BootP!FirstFdl,
           BootP!SecondFdl, BootP!Program, BootP!Step, BootP!Sum, BootP!Advance, BootP!Send
  <1>4. Boot!RecvLog <=> BootP!RecvLog
    BY ZenonT(30) DEF Boot!host, Boot!Answer, Boot!AfterLog, Boot!RecvLog, BootP!host, BootP!Answer,
           BootP!AfterLog, BootP!RecvLog
  <1>5. Boot!Recv <=> BootP!Recv
    BY DEF Boot!SendFile, Boot!FirstFdl, Boot!SecondFdl, Boot!Program, Boot!Step,
           Boot!Wanted, Boot!Advance, Boot!Answer, Boot!EfuseWords, Boot!LearnChip,
           Boot!Good, Boot!Recv, BootP!SendFile, BootP!FirstFdl, BootP!SecondFdl,
           BootP!Program, BootP!Step, BootP!Wanted, BootP!Advance, BootP!Answer,
           BootP!EfuseWords, BootP!LearnChip, BootP!Good, BootP!Recv
  <1>6. Boot!Timeout <=> BootP!Timeout
    BY ZenonT(30) DEF Boot!SendFile, Boot!FirstFdl, Boot!SecondFdl, Boot!Program, Boot!Step,
           Boot!MayRetry, Boot!Timeout, BootP!SendFile, BootP!FirstFdl, BootP!SecondFdl,
           BootP!Program, BootP!Step, BootP!MayRetry, BootP!Timeout
  <1>7. Boot!DataStart <=> BootP!DataStart
    BY ZenonT(30) DEF Boot!host, Boot!Request, Boot!Reply, Boot!Take, Boot!DataStart, BootP!host,
           BootP!Request, BootP!Reply, BootP!Take, BootP!DataStart
  <1>8. Boot!DataMidst <=> BootP!DataMidst
    BY ZenonT(30) DEF Boot!host, Boot!Request, Boot!Reply, Boot!Take, Boot!DataMidst, BootP!host,
           BootP!Request, BootP!Reply, BootP!Take, BootP!DataMidst
  <1>9. Boot!DataEnd <=> BootP!DataEnd
    BY ZenonT(30) DEF Boot!host, Boot!Request, Boot!Reply, Boot!Take, Boot!DataEnd, BootP!host,
           BootP!Request, BootP!Reply, BootP!Take, BootP!DataEnd
  <1>10. Boot!DataExec <=> BootP!DataExec
    BY ZenonT(30) DEF Boot!host, Boot!Request, Boot!Reply, Boot!Take, Boot!DataExec, BootP!host,
           BootP!Request, BootP!Reply, BootP!Take, BootP!DataExec
  <1>11. Boot!Connect <=> BootP!Connect
    BY ZenonT(30) DEF Boot!host, Boot!Request, Boot!Reply, Boot!Take, Boot!Connect, BootP!host,
           BootP!Request, BootP!Reply, BootP!Take, BootP!Connect
  <1>12. Boot!KeepCharge <=> BootP!KeepCharge
    BY ZenonT(30) DEF Boot!host, Boot!Request, Boot!Reply, Boot!Take, Boot!KeepCharge, BootP!host,
           BootP!Request, BootP!Reply, BootP!Take, BootP!KeepCharge
  <1>13. Boot!ReadEfuse <=> BootP!ReadEfuse
    BY DEF Boot!host, Boot!Request, Boot!Reply, Boot!Take, Boot!EfuseMax, Boot!ReadEfuse,
           BootP!host, BootP!Request, BootP!Reply, BootP!Take, BootP!EfuseMax,
           BootP!ReadEfuse
  <1>14. Boot!Reject <=> BootP!Reject
    BY ZenonT(30) DEF Boot!host, Boot!Request, Boot!Reply, Boot!Take, Boot!Reject, BootP!host,
           BootP!Request, BootP!Reply, BootP!Take, BootP!Reject
  <1>15. Boot!Lose <=> BootP!Lose
    BY ZenonT(30) DEF Boot!host, Boot!Take, Boot!Lose, BootP!host, BootP!Take, BootP!Lose
  <1>16. Boot!Start <=> BootP!Start
    BY ZenonT(30) DEF Boot!host, Boot!SendFile, Boot!FirstFdl, Boot!SecondFdl, Boot!Exec2,
           Boot!Start, BootP!host, BootP!SendFile, BootP!FirstFdl, BootP!SecondFdl,
           BootP!Exec2, BootP!Start
  <1>17. Boot!FdlVersion <=> BootP!FdlVersion
    BY ZenonT(30) DEF Boot!host, Boot!Request, Boot!Reply, Boot!Take, Boot!FirstHeader,
           Boot!FdlVersion, BootP!host, BootP!Request, BootP!Reply, BootP!Take,
           BootP!FirstHeader, BootP!FdlVersion
  <1>18. Boot!Rest <=> BootP!Rest
    BY ZenonT(30) DEF Boot!vars, Boot!Rest, BootP!vars, BootP!Rest
  <1>19. Boot!RomStep <=> BootP!RomStep
    BY <1>7, <1>8, <1>9, <1>10, <1>11, <1>12, <1>13, <1>14, ZenonT(30) DEF Boot!RomStep,
       Boot!Handlers, Boot!Request, Boot!Reply, Boot!host, Boot!Take, BootP!RomStep,
       BootP!Handlers, BootP!Request, BootP!Reply, BootP!host, BootP!Take
  <1>20. Boot!FdlStep <=> BootP!FdlStep
    BY <1>7, <1>8, <1>9, <1>10, <1>11, <1>12, <1>13, <1>14, ZenonT(30) DEF Boot!FdlStep,
       Boot!Handlers, Boot!Request, Boot!host, Boot!Take, Boot!FirstHeader, BootP!FdlStep,
       BootP!Handlers, BootP!Request, BootP!host, BootP!Take, BootP!FirstHeader
  <1>21. Boot!Next <=> BootP!Next
    BY <1>3, <1>4, <1>5, <1>6, <1>15, <1>16, <1>17, <1>18, <1>19, <1>20, ZenonT(30) DEF
       Boot!Next, Boot!Host, BootP!Next, BootP!Host
  <1> QED BY ONLY <1>1, <1>2, <1>21

LEMMA SameRing == /\ Ring!Init <=> RingP!Init
                  /\ Ring!Next <=> RingP!Next
                  /\ Ring!vars = RingP!vars
                  /\ Ring!Queue = RingP!Queue
  <1>1. Ring!vars = RingP!vars
    BY ZenonT(30) DEF Ring!hostVars, Ring!ctlVars, Ring!epVars, Ring!ringVars, Ring!txVars,
           Ring!vars, RingP!hostVars, RingP!ctlVars, RingP!epVars, RingP!ringVars,
           RingP!txVars, RingP!vars
  <1>2. Ring!Queue = RingP!Queue
    BY ZenonT(30) DEF Ring!Unread, Ring!Queue, RingP!Unread, RingP!Queue
  <1>3. Ring!Init <=> RingP!Init
    BY ZenonT(30) DEF Ring!InitEndp0, Ring!InitEndp2, Ring!InitEndp3, Ring!Init, Ring!Offset,
           RingP!InitEndp0, RingP!InitEndp2, RingP!InitEndp3, RingP!Init, RingP!Offset
  <1>4. Ring!HostSend <=> RingP!HostSend
    BY ZenonT(30) DEF Ring!ctlVars, Ring!ringVars, Ring!txVars, Ring!Least, Ring!HostSend,
           Ring!Offset, RingP!ctlVars, RingP!ringVars, RingP!txVars, RingP!Least,
           RingP!HostSend, RingP!Offset
  <1>5. Ring!HostSetup <=> RingP!HostSetup
    BY ZenonT(30) DEF Ring!hostVars, Ring!epVars, Ring!ringVars, Ring!txVars, Ring!HostSetup,
           RingP!hostVars, RingP!epVars, RingP!ringVars, RingP!txVars, RingP!HostSetup
  <1>6. Ring!HostTake <=> RingP!HostTake
    BY ZenonT(30) DEF Ring!ctlVars, Ring!epVars, Ring!ringVars, Ring!HostTake, RingP!ctlVars,
           RingP!epVars, RingP!ringVars, RingP!HostTake
  <1>7. Ring!CheckInt <=> RingP!CheckInt
    BY ZenonT(30) DEF Ring!hostVars, Ring!ctlVars, Ring!epVars, Ring!ringVars, Ring!txVars,
           Ring!Endp2Pending, Ring!Endp0Pending, Ring!ReadMask, Ring!CheckInt,
           RingP!hostVars, RingP!ctlVars, RingP!epVars, RingP!ringVars, RingP!txVars,
           RingP!Endp2Pending, RingP!Endp0Pending, RingP!ReadMask, RingP!CheckInt
  <1>8. Ring!Recv <=> RingP!Recv
    BY ZenonT(30) DEF Ring!hostVars, Ring!ctlVars, Ring!ringVars, Ring!txVars, Ring!Endp2Pending,
           Ring!Recv, RingP!hostVars, RingP!ctlVars, RingP!ringVars, RingP!txVars,
           RingP!Endp2Pending, RingP!Recv
  <1>9. Ring!Store <=> RingP!Store
    BY ZenonT(30) DEF Ring!hostVars, Ring!ctlVars, Ring!txVars, Ring!Store, RingP!hostVars,
           RingP!ctlVars, RingP!txVars, RingP!Store
  <1>10. Ring!ClearEndp2 <=> RingP!ClearEndp2
    BY ZenonT(30) DEF Ring!hostVars, Ring!ctlVars, Ring!ringVars, Ring!txVars, Ring!ClearEndp2,
           RingP!hostVars, RingP!ctlVars, RingP!ringVars, RingP!txVars, RingP!ClearEndp2
  <1>11. Ring!ServeEndp0 <=> RingP!ServeEndp0
    BY ZenonT(30) DEF Ring!hostVars, Ring!epVars, Ring!ringVars, Ring!txVars, Ring!Endp0Pending,
           Ring!ServeEndp0, RingP!hostVars, RingP!epVars, RingP!ringVars, RingP!txVars,
           RingP!Endp0Pending, RingP!ServeEndp0
  <1>12. Ring!ClearEndp0 <=> RingP!ClearEndp0
    BY ZenonT(30) DEF Ring!hostVars, Ring!epVars, Ring!ringVars, Ring!txVars, Ring!ClearEndp0,
           RingP!hostVars, RingP!epVars, RingP!ringVars, RingP!txVars, RingP!ClearEndp0
  <1>13. Ring!Getchar <=> RingP!Getchar
    BY ZenonT(30) DEF Ring!hostVars, Ring!ctlVars, Ring!epVars, Ring!ringVars, Ring!txVars,
           Ring!Room, Ring!Getchar, RingP!hostVars, RingP!ctlVars, RingP!epVars,
           RingP!ringVars, RingP!txVars, RingP!Room, RingP!Getchar
  <1>14. Ring!TakeByte <=> RingP!TakeByte
    BY ZenonT(30) DEF Ring!hostVars, Ring!ctlVars, Ring!epVars, Ring!PacketSizes, Ring!Advance,
           Ring!TakeByte, RingP!hostVars, RingP!ctlVars, RingP!epVars, RingP!PacketSizes,
           RingP!Advance, RingP!TakeByte
  <1>15. Ring!NoByte <=> RingP!NoByte
    BY ZenonT(30) DEF Ring!hostVars, Ring!ctlVars, Ring!epVars, Ring!ringVars, Ring!txVars,
           Ring!NoByte, RingP!hostVars, RingP!ctlVars, RingP!epVars, RingP!ringVars,
           RingP!txVars, RingP!NoByte
  <1>16. Ring!UsbSend <=> RingP!UsbSend
    BY ZenonT(30) DEF Ring!hostVars, Ring!ctlVars, Ring!epVars, Ring!ringVars, Ring!UsbSend,
           RingP!hostVars, RingP!ctlVars, RingP!epVars, RingP!ringVars, RingP!UsbSend
  <1>17. Ring!UsbSent <=> RingP!UsbSent
    BY ZenonT(30) DEF Ring!hostVars, Ring!ctlVars, Ring!epVars, Ring!ringVars, Ring!UsbSent,
           RingP!hostVars, RingP!ctlVars, RingP!epVars, RingP!ringVars, RingP!UsbSent
  <1>18. Ring!Next <=> RingP!Next
    BY <1>4, <1>5, <1>6, <1>7, <1>8, <1>9, <1>10, <1>11, <1>12, <1>13, <1>14, <1>15, <1>16,
       <1>17, ZenonT(30) DEF Ring!Next, Ring!Device, RingP!Next, RingP!Device
  <1> QED BY ONLY <1>1, <1>3, <1>18, <1>2

LEMMA SameDdr == /\ Ddr!Init <=> DdrP!Init
                 /\ Ddr!Next <=> DdrP!Next
                 /\ Ddr!vars = DdrP!vars
  <1>1. Ddr!vars = DdrP!vars
    BY ZenonT(30) DEF Ddr!vars, DdrP!vars
  <1>2. Ddr!Init <=> DdrP!Init
    BY ZenonT(30) DEF Ddr!Lanes, Ddr!Edges, Ddr!Paths, Ddr!Everything, Ddr!Init, DdrP!Lanes,
           DdrP!Edges, DdrP!Paths, DdrP!Everything, DdrP!Init
  <1>3. Ddr!FirstTest <=> DdrP!FirstTest
    BY ZenonT(30) DEF Ddr!board, Ddr!FirstTest, DdrP!board, DdrP!FirstTest
  <1>4. Ddr!StartLane <=> DdrP!StartLane
    BY ZenonT(30) DEF Ddr!Edges, Ddr!board, Ddr!Mask, Ddr!StartLane, DdrP!Edges, DdrP!board,
           DdrP!Mask, DdrP!StartLane
  <1>5. Ddr!WriteStep <=> DdrP!WriteStep
    BY ZenonT(30) DEF Ddr!board, Ddr!Steps, Ddr!WriteStep, DdrP!board, DdrP!Steps, DdrP!WriteStep
  <1>6. Ddr!TestStep <=> DdrP!TestStep
    BY ZenonT(30) DEF Ddr!board, Ddr!Sample, Ddr!Through, Ddr!Bist, Ddr!Long, Ddr!TestStep,
           DdrP!board, DdrP!Sample, DdrP!Through, DdrP!Bist, DdrP!Long, DdrP!TestStep
  <1>7. Ddr!EndLane <=> DdrP!EndLane
    BY ZenonT(30) DEF Ddr!board, Ddr!Steps, Ddr!Last, Ddr!Bad, Ddr!Middle, Ddr!Reset, Ddr!EndLane,
           DdrP!board, DdrP!Steps, DdrP!Last, DdrP!Bad, DdrP!Middle, DdrP!Reset,
           DdrP!EndLane
  <1>8. Ddr!EndTraining <=> DdrP!EndTraining
    BY ZenonT(30) DEF Ddr!Lanes, Ddr!Edges, Ddr!Paths, Ddr!board, Ddr!Everything, Ddr!Offset,
           Ddr!Trained, Ddr!Restored, Ddr!EndTraining, DdrP!Lanes, DdrP!Edges, DdrP!Paths,
           DdrP!board, DdrP!Everything, DdrP!Offset, DdrP!Trained, DdrP!Restored,
           DdrP!EndTraining
  <1>9. Ddr!LastTest <=> DdrP!LastTest
    BY ZenonT(30) DEF Ddr!board, Ddr!Sample, Ddr!Through, Ddr!Bist, Ddr!LastTest, DdrP!board,
           DdrP!Sample, DdrP!Through, DdrP!Bist, DdrP!LastTest
  <1>10. Ddr!Rest <=> DdrP!Rest
    BY ZenonT(30) DEF Ddr!vars, Ddr!Rest, DdrP!vars, DdrP!Rest
  <1>11. Ddr!Next <=> DdrP!Next
    BY <1>3, <1>4, <1>5, <1>6, <1>7, <1>8, <1>9, <1>10, ZenonT(30) DEF Ddr!Next, DdrP!Next
  <1> QED BY ONLY <1>1, <1>2, <1>11

LEMMA SameZq == /\ Zq!Init <=> ZqP!Zq!Init
                /\ Zq!Next <=> ZqP!Zq!Next
                /\ Zq!vars = ZqP!Zq!vars
  <1>1. Zq!vars = ZqP!Zq!vars
    BY ZenonT(30) DEF Zq!vars, ZqP!Zq!vars
  <1>2. Zq!Init <=> ZqP!Zq!Init
    BY ZenonT(30) DEF Zq!Strengths, Zq!Init, ZqP!Zq!Strengths, ZqP!Zq!Init
  <1>3. Zq!SetTarget <=> ZqP!Zq!SetTarget
    BY ZenonT(30) DEF Zq!chip, Zq!Write, Zq!SetTarget, ZqP!Zq!chip, ZqP!Zq!Write, ZqP!Zq!SetTarget
  <1>4. Zq!FoundN <=> ZqP!Zq!FoundN
    BY ZenonT(30) DEF Zq!chip, Zq!Field, Zq!MayBeWeak, Zq!Write, Zq!Middle, Zq!FoundN, ZqP!Zq!chip,
           ZqP!Zq!Field, ZqP!Zq!MayBeWeak, ZqP!Zq!Write, ZqP!Zq!Middle, ZqP!Zq!FoundN
  <1>5. Zq!FoundP <=> ZqP!Zq!FoundP
    BY ZenonT(30) DEF Zq!chip, Zq!Field, Zq!MayBeWeak, Zq!Write, Zq!Middle, Zq!Pads, Zq!FoundP,
           ZqP!Zq!chip, ZqP!Zq!Field, ZqP!Zq!MayBeWeak, ZqP!Zq!Write, ZqP!Zq!Middle,
           ZqP!Zq!Pads, ZqP!Zq!FoundP
  <1>6. Zq!Rest <=> ZqP!Zq!Rest
    BY ZenonT(30) DEF Zq!vars, Zq!Rest, ZqP!Zq!vars, ZqP!Zq!Rest
  <1>7. Zq!Next <=> ZqP!Zq!Next
    BY <1>3, <1>4, <1>5, <1>6, ZenonT(30) DEF Zq!Next, Zq!chip, Zq!Field, Zq!Write,
       Zq!Begin, Zq!StartUp, Zq!MayBeStrong, Zq!insert_bits, Zq!Strongest, Zq!StrongEnough,
       Zq!MayBeWeak, Zq!Up, Zq!TooWeak, Zq!TooStrong, ZqP!Zq!Next, ZqP!Zq!chip,
       ZqP!Zq!Field, ZqP!Zq!Write, ZqP!Zq!Begin, ZqP!Zq!StartUp, ZqP!Zq!MayBeStrong,
       ZqP!Zq!insert_bits, ZqP!Zq!Strongest, ZqP!Zq!StrongEnough, ZqP!Zq!MayBeWeak,
       ZqP!Zq!Up, ZqP!Zq!TooWeak, ZqP!Zq!TooStrong
  <1> QED BY ONLY <1>1, <1>2, <1>7

LEMMA SameDma == /\ Dma!Init <=> DmaP!Dma!Init
                 /\ Dma!Next <=> DmaP!Dma!Next
                 /\ Dma!vars = DmaP!Dma!vars
  <1>1. Dma!vars = DmaP!Dma!vars
    BY ZenonT(30) DEF Dma!host, Dma!vars, DmaP!Dma!host, DmaP!Dma!vars
  <1>2. Dma!Init <=> DmaP!Dma!Init
    BY ZenonT(30) DEF Dma!Bytes, Dma!NeedsEmpty, Dma!Packets, Dma!Init, DmaP!Dma!Bytes,
           DmaP!Dma!NeedsEmpty, DmaP!Dma!Packets, DmaP!Dma!Init
  <1>3. Dma!Packet <=> DmaP!Dma!Packet
    BY ZenonT(30) DEF Dma!Packet, DmaP!Dma!Packet
  <1>4. Dma!Retry <=> DmaP!Dma!Retry
    BY ZenonT(30) DEF Dma!Bytes, Dma!NeedsEmpty, Dma!Packets, Dma!Retry, DmaP!Dma!Bytes,
           DmaP!Dma!NeedsEmpty, DmaP!Dma!Packets, DmaP!Dma!Retry
  <1>5. Dma!Handler <=> DmaP!Dma!Handler
    BY ZenonT(30) DEF Dma!host, Dma!Rearmed, Dma!Handler, DmaP!Dma!host, DmaP!Dma!Rearmed,
           DmaP!Dma!Handler
  <1>6. Dma!Read1 <=> DmaP!Dma!Read1
    BY ZenonT(30) DEF Dma!host, Dma!Read1, DmaP!Dma!host, DmaP!Dma!Read1
  <1>7. Dma!NextMessage <=> DmaP!Dma!NextMessage
    BY ZenonT(30) DEF Dma!Bytes, Dma!NeedsEmpty, Dma!Packets, Dma!Owed, Dma!NextMessage,
           DmaP!Dma!Bytes, DmaP!Dma!NeedsEmpty, DmaP!Dma!Packets, DmaP!Dma!Owed,
           DmaP!Dma!NextMessage
  <1>8. Dma!Rest <=> DmaP!Dma!Rest
    BY ZenonT(30) DEF Dma!host, Dma!vars, Dma!Rest, DmaP!Dma!host, DmaP!Dma!vars, DmaP!Dma!Rest
  <1>9. Dma!Next <=> DmaP!Dma!Next
    BY <1>3, <1>4, <1>5, <1>6, <1>7, <1>8, ZenonT(30) DEF Dma!Next, Dma!Progress,
       DmaP!Dma!Next, DmaP!Dma!Progress
  <1> QED BY ONLY <1>1, <1>2, <1>9

LEMMA SameSfc == /\ Sfc!Init <=> SfcP!Sfc!Init
                 /\ Sfc!Next <=> SfcP!Sfc!Next
                 /\ Sfc!vars = SfcP!Sfc!vars
  <1>1. Sfc!vars = SfcP!Sfc!vars
    BY ZenonT(30) DEF Sfc!chip, Sfc!run, Sfc!vars, SfcP!Sfc!chip, SfcP!Sfc!run, SfcP!Sfc!vars
  <1>2. Sfc!Init <=> SfcP!Sfc!Init
    BY ZenonT(30) DEF Sfc!Lesser, Sfc!Erased, Sfc!Vendors, Sfc!Init, SfcP!Sfc!Lesser,
           SfcP!Sfc!Erased, SfcP!Sfc!Vendors, SfcP!Sfc!Init
  <1>3. Sfc!Unlock <=> SfcP!Sfc!Unlock
    BY ZenonT(30) DEF Sfc!run, Sfc!Mask, Sfc!Mask2, Sfc!Unlock, SfcP!Sfc!run, SfcP!Sfc!Mask, SfcP!Sfc!Mask2,
           SfcP!Sfc!Unlock
  <1>4. Sfc!WriteEnable <=> SfcP!Sfc!WriteEnable
    BY ZenonT(30) DEF Sfc!chip, Sfc!run, Sfc!WriteEnable, SfcP!Sfc!chip, SfcP!Sfc!run,
           SfcP!Sfc!WriteEnable
  <1>5. Sfc!Fill <=> SfcP!Sfc!Fill
    BY ZenonT(30) DEF Sfc!chip, Sfc!run, Sfc!Lesser, Sfc!addr, Sfc!ToPageEnd, Sfc!Amount,
           Sfc!LeftBehind, Sfc!Slots, Sfc!Fill, Sfc!Min, SfcP!Sfc!chip, SfcP!Sfc!run,
           SfcP!Sfc!Lesser, SfcP!Sfc!addr, SfcP!Sfc!ToPageEnd, SfcP!Sfc!Amount,
           SfcP!Sfc!LeftBehind, SfcP!Sfc!Slots, SfcP!Sfc!Fill, SfcP!Sfc!Min
  <1>6. Sfc!Request <=> SfcP!Sfc!Request
    BY ZenonT(30) DEF Sfc!chip, Sfc!run, Sfc!Source, Sfc!addr, Sfc!ToPageEnd, Sfc!Amount, Sfc!Wire,
           Sfc!PageProgram, Sfc!Protected, Sfc!Request, Sfc!FlattenSeq, Sfc!Min, SfcP!Sfc!chip,
           SfcP!Sfc!run, SfcP!Sfc!Source, SfcP!Sfc!addr, SfcP!Sfc!ToPageEnd,
           SfcP!Sfc!Amount, SfcP!Sfc!Wire, SfcP!Sfc!Protected, SfcP!Sfc!PageProgram, SfcP!Sfc!Request,
           SfcP!Sfc!FlattenSeq, SfcP!Sfc!Min
  <1>7. Sfc!Return <=> SfcP!Sfc!Return
    BY ZenonT(30) DEF Sfc!chip, Sfc!run, Sfc!Return, SfcP!Sfc!chip, SfcP!Sfc!run, SfcP!Sfc!Return
  <1>8. Sfc!Rest <=> SfcP!Sfc!Rest
    BY ZenonT(30) DEF Sfc!chip, Sfc!run, Sfc!vars, Sfc!Rest, SfcP!Sfc!chip, SfcP!Sfc!run,
           SfcP!Sfc!vars, SfcP!Sfc!Rest
  <1>9. Sfc!Next <=> SfcP!Sfc!Next
    BY <1>3, <1>4, <1>5, <1>6, <1>7, <1>8, ZenonT(30) DEF Sfc!Next, SfcP!Sfc!Next
  <1> QED BY ONLY <1>1, <1>2, <1>9

-----------------------------------------------------------------------------
\* What the proofs of the components keep, for the part that runs.
DeviceInv ==
  /\ part \in {"boot", "ring", "zq", "ddr", "dma", "sfc"}
  /\ part = "boot" => BootP!BootInv
  /\ part = "ring" => RingP!RingInv /\ RingP!SessionInv /\ RingP!RegisterInv /\ RingP!DueInv
  /\ part = "zq" => ZqP!ZqInv
  /\ part = "ddr" => DdrP!DdrInv
  /\ part = "dma" => DmaP!DmaInv
  /\ part = "sfc" => SfcP!SfcInv

\* The bounds of the run satisfy the assumptions of the components.
LEMMA Bounds ==
  /\ BootP!BootAssumption /\ RingP!RingAssumption /\ ZqP!Zq!ZqAssumption /\ DdrP!DdrAssumption
  /\ DmaP!Dma!DmaAssumption /\ SfcP!Sfc!SfcAssumption
  <1>1. BootP!BootAssumption
    BY BootBounds DEF Boot!BootAssumption, BootP!BootAssumption
  <1>2. RingP!RingAssumption
    BY RingBounds DEF Ring!RingAssumption, RingP!RingAssumption
  <1>3. ZqP!Zq!ZqAssumption
    BY ZqBounds DEF Zq!ZqAssumption, ZqP!Zq!ZqAssumption
  <1>4. DdrP!DdrAssumption
    BY DdrBounds DEF Ddr!DdrAssumption, DdrP!DdrAssumption, Ddr!Paths, DdrP!Paths, Ddr!Lanes, DdrP!Lanes
  <1>5. DmaP!Dma!DmaAssumption
    BY DmaBounds DEF Dma!DmaAssumption, DmaP!Dma!DmaAssumption
  <1>6. SfcP!Sfc!SfcAssumption
    BY SfcBounds DEF Sfc!SfcAssumption, SfcP!Sfc!SfcAssumption
  <1> QED BY <1>1, <1>2, <1>3, <1>4, <1>5, <1>6

LEMMA DeviceInit == Init => DeviceInv
  <1> SUFFICES ASSUME Init PROVE DeviceInv
    OBVIOUS
  <1>1. CASE part = "boot" /\ Boot!Init
    BY <1>1, SameBoot, Bounds, BootP!BootInit DEF DeviceInv
  <1>2. CASE part = "ring" /\ Ring!Init
    BY <1>2, SameRing, Bounds, RingP!RingStarts, RingP!TypeStarts DEF DeviceInv
  <1>3. CASE part = "zq" /\ Zq!Init
    BY <1>3, SameZq, Bounds, ZqP!ZqStarts DEF DeviceInv
  <1>4. CASE part = "ddr" /\ Ddr!Init
    BY <1>4, SameDdr, Bounds, DdrP!DdrStarts DEF DeviceInv
  <1>5. CASE part = "dma" /\ Dma!Init
    BY <1>5, SameDma, Bounds, DmaP!DmaInit DEF DeviceInv
  <1>6. CASE part = "sfc" /\ Sfc!Init
    BY <1>6, SameSfc, Bounds, SfcP!SfcInit DEF DeviceInv
  <1> QED BY <1>1, <1>2, <1>3, <1>4, <1>5, <1>6 DEF Init

\* A step is one of the part that runs, or changes none of its variables.
LEMMA PartSteps ==
  ASSUME [Next]_vars
  PROVE  /\ part' = part
         /\ part = "boot" => [BootP!Next]_(BootP!vars)
         /\ part = "ring" => [RingP!Next]_(RingP!vars)
         /\ part = "zq" => [ZqP!Zq!Next]_(ZqP!Zq!vars)
         /\ part = "ddr" => [DdrP!Next]_(DdrP!vars)
         /\ part = "dma" => [DmaP!Dma!Next]_(DmaP!Dma!vars)
         /\ part = "sfc" => [SfcP!Sfc!Next]_(SfcP!Sfc!vars)
  <1>1. CASE BootNext
    BY <1>1, SameBoot DEF BootNext
  <1>2. CASE RingNext
    BY <1>2, SameRing DEF RingNext
  <1>3. CASE ZqNext
    BY <1>3, SameZq DEF ZqNext
  <1>4. CASE DdrNext
    BY <1>4, SameDdr DEF DdrNext
  <1>5. CASE DmaNext
    BY <1>5, SameDma DEF DmaNext
  <1>6. CASE SfcNext
    BY <1>6, SameSfc DEF SfcNext
  <1>7. CASE UNCHANGED vars
    BY <1>7 DEF vars, SfcP!Sfc!vars, SfcP!Sfc!chip, SfcP!Sfc!run, DmaP!Dma!vars, DmaP!Dma!host, BootP!vars, BootP!host, RingP!vars, RingP!hostVars, RingP!ctlVars,
                RingP!epVars, RingP!ringVars, RingP!txVars, ZqP!Zq!vars, DdrP!vars
  <1> QED BY <1>1, <1>2, <1>3, <1>4, <1>5, <1>6, <1>7 DEF Next

LEMMA DeviceStep == DeviceInv /\ [Next]_vars => DeviceInv'
  <1> SUFFICES ASSUME DeviceInv, [Next]_vars PROVE DeviceInv'
    OBVIOUS
  <1>1. ASSUME part = "boot" PROVE BootP!BootInv'
    BY <1>1, PartSteps, Bounds, BootP!BootStep DEF DeviceInv
  <1>2. ASSUME part = "ring"
        PROVE  RingP!RingInv' /\ RingP!SessionInv' /\ RingP!RegisterInv' /\ RingP!DueInv'
    BY <1>2, PartSteps, Bounds, RingP!RingStep, RingP!SessionStep, RingP!RegisterStep, RingP!DueStep
       DEF DeviceInv
  <1>3. ASSUME part = "zq" PROVE ZqP!ZqInv'
    BY <1>3, PartSteps, Bounds, ZqP!ZqStep DEF DeviceInv
  <1>4. ASSUME part = "ddr" PROVE DdrP!DdrInv'
    BY <1>4, PartSteps, Bounds, DdrP!DdrStep DEF DeviceInv
  <1>5. ASSUME part = "dma" PROVE DmaP!DmaInv'
    BY <1>5, PartSteps, Bounds, DmaP!DmaStep DEF DeviceInv
  <1>6. ASSUME part = "sfc" PROVE SfcP!SfcInv'
    BY <1>6, PartSteps, Bounds, SfcP!SfcStep DEF DeviceInv
  <1> QED BY <1>1, <1>2, <1>3, <1>4, <1>5, <1>6, PartSteps DEF DeviceInv

LEMMA DeviceAlways == Spec => []DeviceInv
  BY DeviceInit, DeviceStep, PTL DEF Spec

\* Positions stay in the ring and the buffers, strengths and delays in the fields of their
\* registers, commands in the buffer of the flash controller.
THEOREM DeviceTypeCorrect == Spec => []TypeOK
  <1>1. DeviceInv => TypeOK
    <2> SUFFICES ASSUME DeviceInv PROVE TypeOK
      OBVIOUS
    <2>1. CASE part = "boot"
      <3>1. BootP!TypeOK
        BY <2>1 DEF DeviceInv, BootP!BootInv, BootP!TypeInv
      <3>2. Boot!Program(v1) = BootP!Program(v1)
        BY DEF Boot!Program, BootP!Program, Boot!SendFile, BootP!SendFile, Boot!FirstFdl,
               BootP!FirstFdl, Boot!SecondFdl, BootP!SecondFdl, Boot!Exec2, BootP!Exec2
      <3>3. Boot!TypeOK
        BY <3>1, <3>2 DEF Boot!TypeOK, BootP!TypeOK
      <3> QED BY <2>1, <3>3 DEF TypeOK
    <2>2. CASE part = "ring"
      <3>1. RingP!TypeOK
        BY <2>2, RingP!TypeFromInv DEF DeviceInv
      <3>2. Ring!TypeOK
        BY <3>1 DEF Ring!TypeOK, RingP!TypeOK
      <3> QED BY <2>2, <3>2 DEF TypeOK
    <2>3. CASE part = "zq"
      <3>1. ZqP!Zq!TypeOK
        BY <2>3, ZqP!ZqTypeFromInv DEF DeviceInv
      <3>2. Zq!TypeOK
        BY <3>1 DEF Zq!TypeOK, ZqP!Zq!TypeOK, Zq!Strengths, ZqP!Zq!Strengths
      <3> QED BY <2>3, <3>2 DEF TypeOK
    <2>4. CASE part = "ddr"
      <3>1. DdrP!TypeOK
        BY <2>4, Bounds, DdrP!DdrTypeFromInv DEF DeviceInv
      <3>2. Ddr!TypeOK
        BY <3>1 DEF Ddr!TypeOK, DdrP!TypeOK, Ddr!Paths, DdrP!Paths, Ddr!Lanes, DdrP!Lanes,
                    Ddr!Everything, DdrP!Everything, Ddr!Edges, DdrP!Edges
      <3> QED BY <2>4, <3>2 DEF TypeOK
    <2>5. CASE part = "dma"
      <3>1. DmaP!Dma!TypeOK
        BY <2>5, DmaP!DmaTypeFromInv DEF DeviceInv
      <3>2. Dma!TypeOK
        BY <3>1 DEF Dma!TypeOK, DmaP!Dma!TypeOK
      <3> QED BY <2>5, <3>2 DEF TypeOK
    <2>6. CASE part = "sfc"
      <3>1. SfcP!Sfc!TypeOK
        BY <2>6, SfcP!SfcTypeFromInv DEF DeviceInv
      <3>2. Sfc!TypeOK
        BY <3>1 DEF Sfc!TypeOK, SfcP!Sfc!TypeOK, Sfc!Vendors, SfcP!Sfc!Vendors
      <3> QED BY <2>6, <3>2 DEF TypeOK
    <2> QED BY <2>1, <2>2, <2>3, <2>4, <2>5, <2>6 DEF DeviceInv
  <1> QED BY <1>1, DeviceAlways, PTL

\* The boot handshake of spd_dump: check sums are changed at the same message, answers are
\* matched, a boot that ends has left the FDL running, and host and FDL agree on the chip.
THEOREM DeviceBootRight == Spec => []BootRight
  <1>1. DeviceInv => BootRight
    <2> SUFFICES ASSUME DeviceInv, part = "boot"
                 PROVE  Boot!SumsAgree /\ Boot!AnswersMatch /\ Boot!DoneMeansRunning /\ Boot!ChipAgrees
      BY DEF BootRight
    <2>1. BootP!BootInv
      BY DEF DeviceInv
    <2>2. BootP!SumsAgree /\ BootP!AnswersMatch
      BY <2>1 DEF BootP!BootInv
    <2>3. BootP!DoneMeansRunning
      BY <2>1, BootP!RunningFromInv
    <2>4. BootP!ChipAgrees
      BY <2>1, Bounds, BootP!ChipFromInv
    <2>5. Boot!SumsAgree /\ Boot!AnswersMatch
      BY <2>2 DEF Boot!SumsAgree, BootP!SumsAgree, Boot!AnswersMatch, BootP!AnswersMatch
    <2>6. Boot!DoneMeansRunning
      BY <2>3 DEF Boot!DoneMeansRunning, BootP!DoneMeansRunning
    <2>7. Boot!ChipAgrees
      <3>1. Boot!EfuseWords(v6) = BootP!EfuseWords(v6)
        BY DEF Boot!EfuseWords, BootP!EfuseWords
      <3>2. Boot!EfuseMax = BootP!EfuseMax
        BY DEF Boot!EfuseMax, BootP!EfuseMax
      <3>3. Boot!FwAddr(v6) = BootP!FwAddr(v6)
        BY DEF Boot!FwAddr, BootP!FwAddr
      <3> QED BY <2>4, <3>1, <3>2, <3>3 DEF Boot!ChipAgrees, BootP!ChipAgrees
    <2> QED BY <2>5, <2>6, <2>7
  <1> QED BY <1>1, DeviceAlways, PTL

\* sdram_init sets strengths and delays to the middle of what its searches found or
\* leaves them, and with a scan reports only memory that works.
THEOREM DeviceSdramTuned == Spec => []SdramTuned
  <1>1. DeviceInv => SdramTuned
    <2>1. ASSUME DeviceInv, part = "zq" PROVE Zq!Calibrated
      <3>1. ZqP!Zq!Calibrated
        BY <2>1 DEF DeviceInv, ZqP!ZqInv
      <3> QED BY <3>1 DEF Zq!Calibrated, ZqP!Zq!Calibrated
    <2>2. ASSUME DeviceInv, part = "ddr" PROVE Ddr!ScanOkWorks /\ Ddr!InTheMiddle /\ Ddr!FailureKeeps
      <3>1. DdrP!DdrInv
        BY <2>2 DEF DeviceInv
      <3>2. DdrP!ScanOkWorks /\ DdrP!InTheMiddle /\ DdrP!FailureKeeps
        BY <3>1, Bounds, DdrP!DdrMiddleFromInv, DdrP!DdrKeepsFromInv DEF DdrP!DdrInv
      <3>3. Ddr!Paths = DdrP!Paths
        BY DEF Ddr!Paths, DdrP!Paths, Ddr!Lanes, DdrP!Lanes
      <3>4. \A p : Ddr!Sample(p) = DdrP!Sample(p) /\ (Ddr!Through(p) <=> DdrP!Through(p))
        BY DEF Ddr!Sample, DdrP!Sample, Ddr!Through, DdrP!Through
      <3>5. Ddr!ScanOkWorks /\ Ddr!FailureKeeps
        BY <3>2, <3>3, <3>4 DEF Ddr!ScanOkWorks, DdrP!ScanOkWorks, Ddr!Scanned, DdrP!Scanned, Ddr!FailureKeeps, DdrP!FailureKeeps
      <3>6. \A S : Ddr!Cardinality(S) = DdrP!Cardinality(S)
        BY DEF Ddr!Cardinality, DdrP!Cardinality
      <3>7. Ddr!InTheMiddle
        BY <3>2, <3>3, <3>4, <3>6 DEF Ddr!InTheMiddle, DdrP!InTheMiddle
      <3> QED BY <3>5, <3>7
    <2> QED BY <2>1, <2>2 DEF SdramTuned
  <1> QED BY <1>1, DeviceAlways, PTL

\* getchar of t117_fdl returns every message in order although the next transfer is let
\* into the buffer that is still read, and never reads behind a transfer.
THEOREM DeviceInOrder == Spec => []InOrder
  <1>1. DeviceInv => InOrder
    <2> SUFFICES ASSUME DeviceInv, part = "dma" PROVE Dma!InOrder /\ Dma!NeverPast
      BY DEF InOrder
    <2>1. DmaP!Dma!InOrder /\ DmaP!Dma!NeverPast
      BY Bounds, DmaP!InOrderFromInv, DmaP!NeverPastFromInv DEF DeviceInv
    <2> QED BY <2>1 DEF Dma!InOrder, DmaP!Dma!InOrder, Dma!NeverPast, DmaP!Dma!NeverPast
  <1> QED BY <1>1, DeviceAlways, PTL

\* The refinement mapping.
Queued == IF part = "ring" THEN Ring!Queue ELSE <<>>
Returned == IF part = "ring" THEN v18 ELSE <<>>

\* What the mapping shows of a part other than the ring never changes.
LEMMA FifoStep == DeviceInv /\ [Next]_vars => [Fifo!Next]_<<Queued, Returned>>
  <1> SUFFICES ASSUME DeviceInv, [Next]_vars PROVE [Fifo!Next]_<<Queued, Returned>>
    OBVIOUS
  <1>1. CASE part = "ring"
    <2>1. [RingP!Fifo!Next]_<<RingP!Queue, v18>>
      BY <1>1, PartSteps, Bounds, RingP!QueueStep DEF DeviceInv
    <2>2. /\ Queued = RingP!Queue /\ Queued' = RingP!Queue'
          /\ Returned = v18 /\ Returned' = v18'
      BY <1>1, PartSteps
         DEF Queued, Returned, Ring!Queue, RingP!Queue, Ring!Unread, RingP!Unread
    <2>3. CASE UNCHANGED <<RingP!Queue, v18>>
      BY <2>2, <2>3
    <2>4. CASE RingP!Fifo!Put
      BY <2>2, <2>4 DEF RingP!Fifo!Put, Fifo!Put, Fifo!Next, Queued, Returned
    <2>5. CASE RingP!Fifo!Get
      BY <2>2, <2>5 DEF RingP!Fifo!Get, Fifo!Get, Fifo!Next, Queued, Returned
    <2> QED BY <2>1, <2>3, <2>4, <2>5 DEF RingP!Fifo!Next
  <1>2. CASE part # "ring"
    BY <1>2, PartSteps DEF Queued, Returned
  <1> QED BY <1>1, <1>2

\* usb_channel_getchar returns the bytes that the host puts on endpoint 2 in order, none
\* lost and none twice.
THEOREM DeviceImplementsFifo == Spec => ImplementsFifo
  <1>1. Init => Fifo!Init
    <2> SUFFICES ASSUME Init PROVE Fifo!Init
      OBVIOUS
    <2>1. CASE part = "ring" /\ Ring!Init
      <3>1. RingP!Fifo!Init
        BY <2>1, SameRing, Bounds, RingP!QueueInit
      <3> QED BY <2>1, <3>1, SameRing DEF RingP!Fifo!Init, Fifo!Init
    <2>2. CASE part # "ring"
      BY <2>2 DEF Fifo!Init
    <2> QED BY <2>1, <2>2 DEF Init
  <1>2. DeviceInv /\ [Next]_vars => [Fifo!Next]_<<Queued, Returned>>
    BY FifoStep
  <1> QED BY <1>1, <1>2, DeviceAlways, PTL DEF Spec, ImplementsFifo, Fifo!Spec, Queued, Returned

\* The same for the promise of ProgramRun.
Memory == IF part = "sfc" THEN v5 ELSE << >>
Start == IF part = "sfc" THEN v7 ELSE 0
Bytes == IF part = "sfc" THEN v8 ELSE 0
Written == IF part = "sfc" THEN Sfc!Programmed ELSE 0
Kept == IF part = "sfc" THEN Sfc!Settings ELSE {}

LEMMA ProgramStep == DeviceInv /\ [Next]_vars => [Run!Program]_<<Memory, Start, Bytes, Written, Kept>>
  <1> SUFFICES ASSUME DeviceInv, [Next]_vars PROVE [Run!Program]_<<Memory, Start, Bytes, Written, Kept>>
    OBVIOUS
  <1>1. CASE part = "sfc"
    <2>1. [SfcP!Run!Program]_<<v5, v7, v8, SfcP!Sfc!Programmed, SfcP!Sfc!Settings>>
      BY <1>1, PartSteps, Bounds, SfcP!RunStep DEF DeviceInv
    <2>2. /\ Memory = v5 /\ Memory' = v5' /\ Start = v7 /\ Start' = v7' /\ Bytes = v8 /\ Bytes' = v8'
      BY <1>1, PartSteps DEF Memory, Start, Bytes
    <2>3. Written = SfcP!Sfc!Programmed /\ Written' = SfcP!Sfc!Programmed'
      BY <1>1, PartSteps DEF Written, Sfc!Programmed, SfcP!Sfc!Programmed, Sfc!Unprotected,
         SfcP!Sfc!Unprotected, Sfc!Protected, SfcP!Sfc!Protected
    <2>4. Kept = SfcP!Sfc!Settings /\ Kept' = SfcP!Sfc!Settings'
      BY <1>1, PartSteps DEF Kept, Sfc!Settings, SfcP!Sfc!Settings
    <2>5. Sfc!Source = SfcP!Sfc!Source
      BY DEF Sfc!Source, SfcP!Sfc!Source
    <2>6. CASE UNCHANGED <<v5, v7, v8, SfcP!Sfc!Programmed, SfcP!Sfc!Settings>>
      BY <2>2, <2>3, <2>4, <2>6
    <2>7. CASE SfcP!Run!Program
      <3>1. PICK n \in 1 .. v8 - SfcP!Sfc!Programmed :
              /\ SfcP!Sfc!Programmed' = SfcP!Sfc!Programmed + n
              /\ v5' = [a \in DOMAIN v5 |->
                          IF a \in v7 + SfcP!Sfc!Programmed .. v7 + SfcP!Sfc!Programmed + n - 1
                          THEN SfcP!Sfc!Source[a - v7] ELSE v5[a]]
              /\ v7' = v7 /\ v8' = v8 /\ SfcP!Sfc!Settings' = SfcP!Sfc!Settings
        BY <2>7 DEF SfcP!Run!Program
      <3>2. /\ n \in 1 .. Bytes - Written /\ Written' = Written + n
            /\ Memory' = [a \in DOMAIN Memory |->
                            IF a \in Start + Written .. Start + Written + n - 1
                            THEN Sfc!Source[a - Start] ELSE Memory[a]]
            /\ UNCHANGED <<Start, Bytes, Kept>>
        BY <2>2, <2>3, <2>4, <2>5, <3>1
      <3>3. Run!Program
        BY <3>2 DEF Run!Program, Memory, Start, Bytes, Written, Kept
      <3> QED BY <3>3
    <2> QED BY <2>1, <2>6, <2>7
  <1>2. CASE part # "sfc"
    BY <1>2, PartSteps DEF Memory, Start, Bytes, Written, Kept
  <1> QED BY <1>1, <1>2

\* sfc_unlock and sfc_write program the run from its start to its end and change no other
\* cell and no setting of the chip.
THEOREM DeviceImplementsRun == Spec => ImplementsRun
  <1>1. Init => Run!Init
    <2> SUFFICES ASSUME Init PROVE Run!Init
      OBVIOUS
    <2>1. CASE part = "sfc" /\ Sfc!Init
      BY <2>1 DEF Run!Init, Sfc!Init, Sfc!Programmed
    <2>2. CASE part # "sfc"
      BY <2>2 DEF Run!Init
    <2> QED BY <2>1, <2>2 DEF Init
  <1>2. DeviceInv /\ [Next]_vars => [Run!Program]_<<Memory, Start, Bytes, Written, Kept>>
    BY ProgramStep
  <1> QED BY <1>1, <1>2, DeviceAlways, PTL
       DEF Spec, ImplementsRun, Run!Spec, Memory, Start, Bytes, Written, Kept
==============================================================================
