-------------------------- MODULE SpdSessionProofs --------------------------
(***************************************************************************)
(* Theorems about SpdSession, for every set of scripts, every memory size  *)
(* and every block size.                                                   *)
(***************************************************************************)
EXTENDS SpdSession, SequenceTheorems, TLAPS

\* Which commands have an opening request, and which have a loop.
PhaseOK ==
  /\ pc = "open" => cmd.op # "read"
  /\ pc = "body" => cmd.op \notin {"erase", "query"}

\* A product of naturals is a natural, and not below a factor whose cofactor is
\* positive: what ProbeAt needs to be a valid offset.
LEMMA ProductFacts ==
  ASSUME NEW m \in Nat, NEW n \in Nat
  PROVE  m * n \in Nat /\ (n # 0 => m * n - m \in Nat)
<1>1. m * n \in Nat
  OBVIOUS
<1>2. ASSUME n # 0 PROVE m * n - m \in Nat
  <2>1. n - 1 \in Nat
    BY <1>2
  <2>2. m * (n - 1) \in Nat
    BY <2>1
  <2>3. m * (n - 1) = m * n - m
    OBVIOUS
  <2> QED BY <2>2, <2>3
<1> QED BY <1>1, <1>2

\* Appending and removing the head keep a sequence over its set.
LEMMA SeqFacts ==
  ASSUME NEW S, NEW s \in Seq(S)
  PROVE  /\ \A e \in S : Append(s, e) \in Seq(S)
         /\ s # <<>> => Head(s) \in S /\ Tail(s) \in Seq(S)
         /\ \A t \in Seq(S) : s \o t \in Seq(S)
OBVIOUS

\* What Append and Tail do to the length and to the elements.
LEMMA SeqIndexFacts ==
  ASSUME NEW S, NEW s \in Seq(S)
  PROVE  /\ Len(s) \in Nat
         /\ s = <<>> <=> Len(s) = 0
         /\ \A e \in S : /\ Len(Append(s, e)) = Len(s) + 1
                         /\ \A i \in 1 .. Len(s) : Append(s, e)[i] = s[i]
                         /\ Append(s, e)[Len(s) + 1] = e
         /\ s # <<>> => /\ Len(Tail(s)) = Len(s) - 1
                        /\ \A i \in 1 .. Len(s) - 1 : Tail(s)[i] = s[i + 1]
                        /\ Head(s) = s[1]
OBVIOUS

\* A log message, sent or skipped, changes nothing else.
LEMMA QuietSteps ==
  SkipLog \/ DevLog \/ Ended \/ UNCHANGED vars => UNCHANGED coreVars
BY DEF SkipLog, DevLog, Ended, vars

\* The state after spdio_init has the types of TypeOK.
LEMMA InitTypeOK == Init => TypeOK
<1> SUFFICES ASSUME Init PROVE TypeOK
  OBVIOUS
<1>1. todo \in Seq(Command)
  BY ScriptsAssumption DEF Init
<1>2. cmd \in Command
  BY DEF Init, NoCommand, Command, Ops
<1>3. flashSize \in Nat \ {0} /\ flash \in [Cell -> Nat]
  BY SizesAssumption DEF Init, Cell
<1>4. raw \in Reply \cup {NoReply, TornReply}
  BY DEF Init
<1>5. file \in Seq(Nat) /\ toDev \in Seq(Request) /\ toHost \in Seq(Reply)
  BY DEF Init
<1>6. dl \in [at : Nat, size : Nat, recv : Nat] /\ dl.recv <= dl.size
  BY DEF Init
<1>7. wait \in BOOLEAN /\ faults \in BOOLEAN /\ torn \in BOOLEAN
  BY DEF Init
<1>8. off \in Nat /\ probe \in Nat /\ nsent \in Nat /\ tolerated \in Nat /\ logs \in 0 .. MaxLogs
  BY SizesAssumption DEF Init
<1>9. pc \in {"idle", "open", "body", "close", "exit"} /\
      why \in {"running", "done", "timeout", "unexpected", "length", "host"}
  BY DEF Init
<1> QED
  BY <1>1, <1>2, <1>3, <1>4, <1>5, <1>6, <1>7, <1>8, <1>9 DEF TypeOK

-----------------------------------------------------------------------------
\* The block the host asks for next is a natural number of cells, at most Step,
\* while the loop of a dump or a download runs.
LEMMA BlockLenFacts ==
  ASSUME TypeOK
  PROVE  /\ BlockLen \in Int
         /\ off + BlockLen \in Nat
         /\ off < cmd.len => BlockLen \in Nat \ {0}
BY SizesAssumption DEF TypeOK, Command, BlockLen, Least

\* What SendMsg puts in the pipe is a request.
LEMMA SendMsgTypeOK ==
  ASSUME TypeOK, NEW m, NEW data \in Seq(Nat),
         m.type \in {"START", "MIDST", "END", "READ", "ERASE",
                     "QUERY", "RSTART", "RMIDST", "REND"},
         m.at \in Nat, m.len \in Nat,
         SendMsg(m, data)
  PROVE  TypeOK'
<1>1. [id |-> nsent + 1, type |-> m.type, at |-> m.at, len |-> m.len, data |-> data]
        \in Request
  BY DEF TypeOK, Request
<1>2. toDev' \in Seq(Request)
  BY <1>1, SeqFacts DEF TypeOK, SendMsg
<1> QED
  BY <1>2 DEF TypeOK, SendMsg, devVars, Cell

\* What recv_msg takes is a reply, and the rest of the pipe stays well typed.
LEMMA RecvMsgTypeOK ==
  ASSUME TypeOK, NEW r \in Incoming, RecvMsg(r)
  PROVE  /\ r \in Reply \cup {NoReply, TornReply}
         /\ r.data \in Seq(Nat)
         /\ toHost = <<>> => r.type = "none"
         /\ r.type = "none" => toHost' = toHost
         /\ r.type # "none" => toHost' = Tail(toHost)
         /\ logs' \in 0 .. MaxLogs
         /\ raw' \in Reply \cup {NoReply, TornReply}
         /\ wait' \in BOOLEAN
         /\ torn' \in BOOLEAN
         /\ toHost' \in Seq(Reply)
         /\ UNCHANGED <<todo, cmd, nsent, flashSize, flash, dl, faults, toDev>>
<1>1. /\ r \in Reply \cup {NoReply, TornReply}
      /\ toHost = <<>> => r.type = "none"
  <2>1. CASE toHost = <<>>
    BY <2>1 DEF Incoming, NoReply
  <2>2. CASE toHost # <<>>
    <3>1. Head(toHost) \in Reply /\ r \in {Head(toHost), TornReply, NoReply}
      BY <2>2, SeqFacts DEF Incoming, TypeOK
    <3> QED BY <2>2, <3>1
  <2> QED BY <2>1, <2>2
<1>3. r.data \in Seq(Nat)
  <2>1. NoReply.data \in Seq(Nat) /\ TornReply.data \in Seq(Nat)
    BY DEF NoReply, TornReply
  <2>2. \A x \in Reply : x.data \in Seq(Nat)
    BY DEF Reply
  <2> QED BY <1>1, <2>1, <2>2
<1>2. toHost' \in Seq(Reply)
  <2>1. CASE r.type = "none"
    BY <2>1 DEF RecvMsg, TypeOK
  <2>2. CASE r.type # "none"
    BY <1>1, <2>2, SeqFacts DEF RecvMsg, TypeOK
  <2> QED BY <2>1, <2>2
<1>4. torn' \in BOOLEAN
  BY DEF RecvMsg
<1>5. logs' \in 0 .. MaxLogs
  BY SizesAssumption DEF RecvMsg, TypeOK
<1> QED
  BY <1>1, <1>2, <1>3, <1>4, <1>5 DEF RecvMsg, devVars

\* A reply handler keeps the types when it keeps those of what it assigns.
LEMMA HandlerTypeOK ==
  ASSUME TypeOK, NEW r \in Incoming, RecvMsg(r),
         pc' \in {"idle", "open", "body", "close", "exit"},
         why' \in {"running", "done", "timeout", "unexpected", "length", "host"},
         off' \in Nat, probe' \in Nat, file' \in Seq(Nat), tolerated' \in Nat
  PROVE  TypeOK'
BY RecvMsgTypeOK DEF TypeOK, Cell

\* The device's answers are replies, and the host is not touched.
LEMMA AnswerTypeOK ==
  ASSUME TypeOK, toDev # <<>>, NEW type \in {"ACK", "READ", "INFO", "ERR"},
         NEW data \in Seq(Nat), Answer(type, data),
         flashSize' = flashSize, flash' \in [Cell -> Nat],
         dl' \in [at : Nat, size : Nat, recv : Nat], dl'.recv <= dl'.size,
         faults' \in BOOLEAN
  PROVE  TypeOK'
<1>1. Head(toDev) \in Request /\ toDev' \in Seq(Request)
  BY SeqFacts DEF TypeOK, Answer
<1>2. [id |-> Head(toDev).id, type |-> type, data |-> data] \in Reply
  BY <1>1 DEF Request, Reply
<1>3. toHost' \in Seq(Reply)
  BY <1>2, SeqFacts DEF TypeOK, Answer
<1>4. UNCHANGED hostVars /\ UNCHANGED logs
  BY DEF Answer
<1> QED
  BY <1>1, <1>3, <1>4 DEF TypeOK, hostVars, Cell

-----------------------------------------------------------------------------
\* The three kinds of request the host sends are well formed.
LEMMA RequestFacts ==
  ASSUME TypeOK, PhaseOK
  PROVE  /\ pc = "open" => /\ OpenRequest.type \in {"START", "ERASE", "QUERY", "RSTART"}
                           /\ OpenRequest.at \in Nat /\ OpenRequest.len \in Nat
         /\ pc = "body" /\ ~BodyDone =>
              /\ BodyRequest.type \in {"READ", "RMIDST", "MIDST"}
              /\ BodyRequest.at \in Nat /\ BodyRequest.len \in Nat
         /\ pc = "body" /\ ~BodyDone /\ cmd.op \in Downloads => Payload \in Seq(Nat)
         /\ CloseRequest.type \in {"END", "REND"}
         /\ CloseRequest.at = 0 /\ CloseRequest.len = 0
<1> USE SizesAssumption
<1>0. cmd \in Command /\ off \in Nat /\ probe \in Nat
  BY DEF TypeOK
<1>1. ASSUME pc = "open"
      PROVE  /\ OpenRequest.type \in {"START", "ERASE", "QUERY", "RSTART"}
             /\ OpenRequest.at \in Nat /\ OpenRequest.len \in Nat
  <2>1. cmd.op \in {"write", "erase", "query", "rpart", "wpart", "psize", "ptime"}
    BY <1>0, <1>1 DEF PhaseOK, Command, Ops
  <2>2. 2 * Unit * TopProbe \in Nat
    BY ProductFacts, Z3
  <2> QED
    BY <1>0, <2>1, <2>2 DEF OpenRequest, Downloads, Command
<1>2. ASSUME pc = "body", ~BodyDone
      PROVE  /\ BodyRequest.type \in {"READ", "RMIDST", "MIDST"}
             /\ BodyRequest.at \in Nat /\ BodyRequest.len \in Nat
  <2>1. CASE cmd.op = "psize"
    <3>1. ProbeAt \in Nat
      <4>1. probe # 0
        BY <1>2, <2>1 DEF BodyDone
      <4> QED BY <1>0, <4>1, ProductFacts DEF ProbeAt
    <3> QED BY <2>1, <3>1 DEF BodyRequest, Downloads
  <2>2. CASE cmd.op \in {"read", "rpart", "ptime", "write", "wpart"}
    <3>1. off < cmd.len
      BY <1>0, <1>2, <2>2 DEF BodyDone, Command
    <3>2. BlockLen \in Nat
      BY <3>1, BlockLenFacts
    <3> QED BY <1>0, <2>2, <3>2 DEF BodyRequest, Downloads, Command
  <2>3. cmd.op \in {"psize", "read", "rpart", "ptime", "write", "wpart"}
    BY <1>0, <1>2 DEF PhaseOK, Command, Ops
  <2> QED BY <2>1, <2>2, <2>3
<1>3. ASSUME pc = "body", ~BodyDone, cmd.op \in Downloads
      PROVE  Payload \in Seq(Nat)
  <2>1. off < cmd.len
    BY <1>0, <1>3 DEF BodyDone, Command, Downloads
  <2>2. BlockLen \in Nat
    BY <2>1, BlockLenFacts
  <2>3. \A k \in 1 .. BlockLen : cmd.val + off + k - 1 \in Nat
    BY <1>0, <2>2 DEF Command
  <2> QED BY <2>2, <2>3 DEF Payload
<1>4. CloseRequest.type \in {"END", "REND"} /\ CloseRequest.at = 0 /\ CloseRequest.len = 0
  BY DEF CloseRequest
<1> QED BY <1>1, <1>2, <1>3, <1>4

\* What is read, within the memory or not, is a sequence of naturals.
LEMMA CellsFacts ==
  ASSUME TypeOK, NEW a \in Nat, NEW n \in Nat
  PROVE  Cells(a, n) \in Seq(Nat) /\ Len(Cells(a, n)) = n
<1>1. \A k \in 1 .. n : MemAt(a + k - 1) \in Nat
  BY DEF TypeOK, MemAt, ErasedCell
<1> HIDE DEF MemAt
<1> QED BY <1>1 DEF Cells

\* Every host step keeps the types.
LEMMA HostTypeOK == TypeOK /\ PhaseOK /\ (Host \/ HostError) => TypeOK'
<1> SUFFICES ASSUME TypeOK, PhaseOK, Host \/ HostError PROVE TypeOK'
  OBVIOUS
<1> USE SizesAssumption
<1>1. CASE BeginCommand
  <2>1. cmd' \in Command /\ todo' \in Seq(Command)
    BY <1>1, SeqFacts DEF BeginCommand, TypeOK
  <2>2. file' \in Seq(Nat) /\ pc' \in {"idle", "open", "body", "close", "exit"}
    BY <1>1 DEF BeginCommand
  <2> QED BY <1>1, <2>1, <2>2 DEF BeginCommand, TypeOK, devVars, Cell
<1>2. CASE Finish
  BY <1>2 DEF Finish, TypeOK, devVars, Cell
<1>3. CASE SendOpen
  <2>1. OpenRequest.type \in {"START", "ERASE", "QUERY", "RSTART"} /\
        OpenRequest.at \in Nat /\ OpenRequest.len \in Nat /\ <<>> \in Seq(Nat)
    BY <1>3, RequestFacts DEF SendOpen
  <2>2. SendMsg(OpenRequest, <<>>)
    BY <1>3 DEF SendOpen
  <2> QED BY <2>1, <2>2, SendMsgTypeOK
<1>4. CASE SendBody
  <2>1. (IF cmd.op \in Downloads THEN Payload ELSE <<>>) \in Seq(Nat)
    BY <1>4, RequestFacts DEF SendBody
  <2> QED BY <1>4, <2>1, RequestFacts, SendMsgTypeOK DEF SendBody
<1>5. CASE SendClose
  <2>1. CloseRequest.type \in {"END", "REND"} /\
        CloseRequest.at \in Nat /\ CloseRequest.len \in Nat /\ <<>> \in Seq(Nat)
    BY <1>5, RequestFacts
  <2>2. SendMsg(CloseRequest, <<>>)
    BY <1>5 DEF SendClose
  <2> QED BY <2>1, <2>2, SendMsgTypeOK
<1>6. CASE LeaveBody
  BY <1>6 DEF LeaveBody, AfterBody, TypeOK, devVars, Cell
<1>7. CASE CheckReply
  <2> PICK r \in Incoming :
        /\ RecvMsg(r)
        /\ \/ Nothing(r) /\ ErrExit("timeout")
           \/ ~Nothing(r) /\ ~Accepted(r) /\ ErrExit("unexpected")
           \/ Accepted(r) /\ AfterCheck /\ UNCHANGED <<probe, file, why, tolerated>>
    BY <1>7 DEF CheckReply
  <2>1. CASE ErrExit("timeout") \/ ErrExit("unexpected")
    BY <2>1, HandlerTypeOK DEF ErrExit, TypeOK
  <2>2. CASE AfterCheck /\ UNCHANGED <<probe, file, why, tolerated>>
    <3>1. pc \in {"open", "close", "body"}
      BY <1>7 DEF CheckReply
    <3>2. pc' \in {"idle", "body"} /\ off' \in Nat
      BY <2>2, <3>1, BlockLenFacts DEF AfterCheck, TypeOK
    <3> QED BY <2>2, <3>2, HandlerTypeOK DEF TypeOK
  <2> QED BY <2>1, <2>2
<1>8. CASE QueryReply
  <2> PICK r \in Incoming :
        /\ RecvMsg(r)
        /\ \/ r.type # "INFO" /\ ErrExit("unexpected")
           \/ r.type = "INFO" /\ pc' = "idle" /\ UNCHANGED <<off, probe, file, why, tolerated>>
    BY <1>8 DEF QueryReply
  <2> QED BY HandlerTypeOK DEF ErrExit, TypeOK
<1>9. CASE ReadReply
  <2> PICK r \in Incoming :
        /\ RecvMsg(r)
        /\ \/ ErrExit("unexpected")
           \/ /\ r.type # "READ"
              /\ pc' = AfterBody
              /\ Tolerate(r)
              /\ UNCHANGED <<off, probe, file, why>>
           \/ ErrExit("length")
           \/ /\ file' = file \o r.data
              /\ off' = off + Advance(r)
              /\ pc' = IF Len(r.data) = BlockLen THEN "body" ELSE AfterBody
              /\ UNCHANGED <<probe, why, tolerated>>
    BY <1>9 DEF ReadReply
  <2>1. r.data \in Seq(Nat)
    BY RecvMsgTypeOK
  <2>2. off' \in Nat
    BY <2>1 DEF ErrExit, Advance, TypeOK
  <2>3. file' \in Seq(Nat)
    <3>1. file \in Seq(Nat) /\ file \o r.data \in Seq(Nat)
      BY <2>1, SeqFacts DEF TypeOK
    <3> QED BY <3>1 DEF ErrExit
  <2>4. pc' \in {"idle", "open", "body", "close", "exit"}
    BY DEF ErrExit, AfterBody
  <2>5. probe' \in Nat /\ tolerated' \in Nat /\
        why' \in {"running", "done", "timeout", "unexpected", "length", "host"}
    BY DEF ErrExit, Tolerate, TypeOK
  <2> QED BY <2>2, <2>3, <2>4, <2>5, HandlerTypeOK
<1>10. CASE LoadReply
  <2> PICK r \in Incoming :
        /\ RecvMsg(r)
        /\ \/ ErrExit("timeout")
           \/ pc' = AfterBody /\ Tolerate(r) /\ UNCHANGED <<off, probe, file, why>>
           \/ off' = off + BlockLen /\ UNCHANGED <<pc, probe, file, why, tolerated>>
    BY <1>10 DEF LoadReply
  <2>1. off' \in Nat /\ pc' \in {"idle", "open", "body", "close", "exit"}
    BY BlockLenFacts DEF ErrExit, AfterBody, TypeOK
  <2>2. probe' \in Nat /\ tolerated' \in Nat /\ file' \in Seq(Nat) /\
        why' \in {"running", "done", "timeout", "unexpected", "length", "host"}
    BY DEF ErrExit, Tolerate, TypeOK
  <2> QED BY <2>1, <2>2, HandlerTypeOK
<1>11. CASE ProbeReply
  <2> PICK r \in Incoming :
        /\ RecvMsg(r)
        /\ Tolerate(r)
        /\ off' = IF r.type = "READ" THEN ProbeAt + Unit ELSE off
        /\ probe' = probe \div 2
        /\ UNCHANGED <<pc, file, why>>
    BY <1>11 DEF ProbeReply
  <2>1. off' \in Nat
    <3>1. Unit * probe \in Nat /\ Unit \in Nat /\ off \in Nat
      BY ProductFacts DEF TypeOK
    <3>2. \A p \in Nat : off + p - Unit + Unit \in Nat
      BY <3>1
    <3>3. ProbeAt + Unit \in Nat
      BY <3>1, <3>2 DEF ProbeAt
    <3> QED BY <3>1, <3>3
  <2>2. probe' \in Nat
    BY DEF TypeOK
  <2>3. tolerated' \in Nat
    BY DEF Tolerate, TypeOK
  <2> QED BY <2>1, <2>2, <2>3, HandlerTypeOK DEF TypeOK
<1>12. CASE HostError
  BY <1>12 DEF HostError, ErrExit, TypeOK, devVars, Cell
<1>13. CASE SkipLog
  BY <1>13 DEF SkipLog, TypeOK, coreVars, hostVars, devVars, Cell
<1> QED
  BY <1>1, <1>2, <1>3, <1>4, <1>5, <1>6, <1>7, <1>8, <1>9, <1>10, <1>11, <1>12, <1>13 DEF Host

\* Every device step keeps the types.
LEMMA DeviceTypeOK == TypeOK /\ Device => TypeOK'
<1> SUFFICES ASSUME TypeOK, Device PROVE TypeOK'
  OBVIOUS
<1> DEFINE m == Head(toDev)
<1>0. toDev # <<>>
  BY DEF Device, DevStart, DevMidst, DevEnd, DevRead, DevReadPart, DevErase, DevOther, Arrived
<1>1. m \in Request
  BY <1>0, SeqFacts DEF TypeOK
<1>2. m.at \in Nat /\ m.len \in Nat /\ m.data \in Seq(Nat) /\ <<>> \in Seq(Nat)
  BY <1>1 DEF Request
<1>3. /\ flash \in [Cell -> Nat] /\ faults \in BOOLEAN
      /\ dl \in [at : Nat, size : Nat, recv : Nat] /\ dl.recv <= dl.size
  BY DEF TypeOK
<1> HIDE DEF m
<1>4. CASE DevStart
  <2>1. dl' = [at |-> m.at, size |-> m.len, recv |-> 0]
    BY <1>4 DEF DevStart, Announced, m
  <2>2. dl' \in [at : Nat, size : Nat, recv : Nat] /\ dl'.recv <= dl'.size
    BY <1>2, <2>1
  <2> QED BY <1>0, <1>2, <1>3, <1>4, <2>2, AnswerTypeOK DEF DevStart
<1>5. CASE DevMidst
  <2> DEFINE a == BlockAddr(m)
             n == Len(m.data)
             fits == n <= dl.size - dl.recv
  <2>0. /\ dl' = IF fits THEN [dl EXCEPT !.recv = @ + n] ELSE dl
        /\ flash' = flash \/ \E k \in 0 .. n : \E blank : flash' = Programmed(m, k, blank)
        /\ Answer("ACK", <<>>) \/ Answer("ERR", <<>>)
        /\ faults' = faults \/ faults' = TRUE
        /\ UNCHANGED flashSize
    <3>1. n \in Nat
      BY <1>2
    <3>2. n \in 0 .. n /\ \A k \in 0 .. n - 1 : k \in 0 .. n
      BY <3>1
    <3> HIDE DEF fits, n
    <3>3. /\ dl' = IF fits THEN [dl EXCEPT !.recv = @ + n] ELSE dl
          /\ UNCHANGED flashSize
          /\ \/ /\ flash' = IF fits THEN Programmed(m, n, {}) ELSE flash
                /\ Answer(IF fits THEN "ACK" ELSE "ERR", <<>>)
                /\ UNCHANGED faults
             \/ /\ \E k \in 0 .. n - 1, lo \in Cell, hi \in Cell :
                     flash' = Programmed(m, k, lo .. hi)
                /\ Answer("ERR", <<>>)
                /\ faults' = TRUE
      BY <1>5 DEF DevMidst, m, fits, n
    <3> QED BY <3>2, <3>3
  <2>1. n \in Nat /\ a \in Nat
    <3>1. n \in Nat
      BY <1>2
    <3>2. dl.at \in Nat /\ dl.recv \in Nat
      BY <1>3
    <3> QED BY <3>1, <3>2 DEF BlockAddr
  <2>2. dl' \in [at : Nat, size : Nat, recv : Nat] /\ dl'.recv <= dl'.size
    <3>1. CASE fits
      <4>1. dl' = [dl EXCEPT !.recv = dl.recv + n]
        BY <2>0, <3>1
      <4>2. dl'.size = dl.size /\ dl'.recv = dl.recv + n /\ dl'.at = dl.at
        BY <1>3, <4>1
      <4>3. dl.recv + n \in Nat /\ dl.recv + n <= dl.size
        BY <1>3, <2>1, <3>1
      <4> QED BY <1>3, <4>1, <4>2, <4>3
    <3>2. CASE ~fits
      BY <1>3, <2>0, <3>2
    <3> QED BY <3>1, <3>2
  <2>3. flash' \in [Cell -> Nat]
    <3>1. ASSUME NEW k \in 0 .. n, NEW blank PROVE Programmed(m, k, blank) \in [Cell -> Nat]
      <4>1. \A c \in Cell : c \in a .. a + k - 1 => m.data[c - a + 1] \in Nat
        BY <1>2, <2>1
      <4> QED BY <1>3, <4>1 DEF Programmed, ErasedCell
    <3> QED BY <1>3, <2>0, <3>1
  <2>4. faults' \in BOOLEAN
    BY <1>3, <2>0
  <2> HIDE DEF fits
  <2> QED BY <1>0, <1>2, <2>0, <2>2, <2>3, <2>4, AnswerTypeOK
<1>6. CASE DevEnd
  <2>1. (IF dl.size = dl.recv THEN "ACK" ELSE "ERR") \in {"ACK", "READ", "INFO", "ERR"}
    OBVIOUS
  <2> QED BY <1>0, <1>2, <1>3, <1>6, <2>1, AnswerTypeOK DEF DevEnd, devVars
<1>7. CASE DevRead \/ DevReadPart
  <2>1. /\ UNCHANGED <<flashSize, flash, dl>>
        /\ faults' \in BOOLEAN
        /\ \/ Answer("ERR", <<>>)
           \/ \E n \in 0 .. m.len : Answer("READ", Cells(m.at, n))
    <3>1. UNCHANGED <<flashSize, flash, dl>>
      BY <1>7 DEF DevRead, DevReadPart
    <3>2. faults' = faults \/ faults' = TRUE
      BY <1>7 DEF DevRead, DevReadPart
    <3>3. \/ Answer("ERR", <<>>)
          \/ Answer("READ", Cells(m.at, m.len))
          \/ \E n \in 0 .. m.len - 1 : Answer("READ", Cells(m.at, n))
      BY <1>7 DEF DevRead, DevReadPart, m
    <3>4. m.len \in 0 .. m.len /\ 0 .. m.len - 1 \subseteq 0 .. m.len
      BY <1>2
    <3>5. faults' \in BOOLEAN
      BY <1>3, <3>2
    <3> QED BY <3>1, <3>3, <3>4, <3>5
  <2>2. CASE Answer("ERR", <<>>)
    BY <1>0, <1>2, <1>3, <2>1, <2>2, AnswerTypeOK
  <2>3. ASSUME NEW n \in 0 .. m.len, Answer("READ", Cells(m.at, n))
        PROVE  TypeOK'
    <3>1. n \in Nat
      BY <1>2
    <3>2. Cells(m.at, n) \in Seq(Nat)
      BY <1>2, <3>1, CellsFacts
    <3> QED BY <1>0, <1>3, <2>1, <2>3, <3>2, AnswerTypeOK
  <2> QED BY <2>1, <2>2, <2>3
<1>8. CASE DevErase
  <2>1. \/ Answer("ACK", <<>>)
        \/ Answer("ERR", <<>>)
    BY <1>8 DEF DevErase
  <2>2. flash' \in [Cell -> Nat] /\ faults' \in BOOLEAN /\ UNCHANGED <<flashSize, dl>>
    <3>1. UNCHANGED <<flashSize, dl>>
      BY <1>8 DEF DevErase
    <3>2. faults' = faults \/ faults' = TRUE
      BY <1>8 DEF DevErase
    <3>3. faults' \in BOOLEAN
      BY <1>3, <3>2
    <3>4. flash' \in [Cell -> Nat]
      BY <1>3, <1>8 DEF DevErase, ErasedCell
    <3> QED BY <3>1, <3>3, <3>4
  <2> QED BY <1>0, <1>2, <1>3, <2>1, <2>2, AnswerTypeOK
<1>9. CASE DevOther
  <2>1. /\ UNCHANGED <<flashSize, flash, dl>>
        /\ faults' \in BOOLEAN
        /\ Answer("ACK", <<>>) \/ Answer("INFO", <<>>) \/ Answer("ERR", <<>>)
    BY <1>3, <1>9 DEF DevOther
  <2> QED BY <1>0, <1>2, <1>3, <2>1, AnswerTypeOK
<1> QED
  BY <1>4, <1>5, <1>6, <1>7, <1>8, <1>9 DEF Device

\* A log message that is sent keeps the types, and so does a step that changes
\* nothing.
LEMMA LogTypeOK == TypeOK /\ (DevLog \/ Ended \/ UNCHANGED vars) => TypeOK'
<1> SUFFICES ASSUME TypeOK, DevLog \/ Ended \/ UNCHANGED vars PROVE TypeOK'
  OBVIOUS
<1>1. UNCHANGED coreVars
  BY QuietSteps
<1>2. logs' \in 0 .. MaxLogs
  BY SizesAssumption DEF DevLog, Ended, vars, TypeOK
<1> QED BY <1>1, <1>2 DEF TypeOK, coreVars, hostVars, devVars, Cell

-----------------------------------------------------------------------------
\* The host is in a phase its command has.
LEMMA NextPhaseOK == TypeOK /\ PhaseOK /\ [Next]_vars => PhaseOK'
<1> SUFFICES ASSUME TypeOK, PhaseOK, [Next]_vars PROVE PhaseOK'
  OBVIOUS
<1>1. CASE BeginCommand
  BY <1>1 DEF BeginCommand, PhaseOK
<1>2. CASE UNCHANGED <<pc, cmd>>
  BY <1>2 DEF PhaseOK
<1>3. CASE pc' \in {"idle", "close", "exit"}
  BY <1>3 DEF PhaseOK
<1>4. CASE pc = "open" /\ pc' = "body" /\ cmd' = cmd /\ cmd.op \notin {"erase", "query"}
  BY <1>4 DEF PhaseOK
<1>5. ASSUME CheckReply PROVE <1>2!1 \/ <1>3!1 \/ <1>4!1
  BY <1>5 DEF CheckReply, RecvMsg, AfterCheck, ErrExit
<1>6. ASSUME ReadReply \/ LoadReply \/ ProbeReply \/ QueryReply
      PROVE  UNCHANGED <<pc, cmd>> \/ pc' \in {"idle", "close", "exit"}
  BY <1>6 DEF ReadReply, LoadReply, ProbeReply, QueryReply, RecvMsg, ErrExit, AfterBody
<1>7. ASSUME Finish \/ SendOpen \/ SendBody \/ SendClose \/ LeaveBody \/ HostError
      PROVE  UNCHANGED <<pc, cmd>> \/ pc' \in {"idle", "close", "exit"}
  BY <1>7 DEF Finish, SendOpen, SendBody, SendClose, LeaveBody, HostError, SendMsg,
              ErrExit, AfterBody
<1>8. ASSUME Device \/ UNCHANGED coreVars PROVE UNCHANGED <<pc, cmd>>
  BY <1>8 DEF Device, DevStart, DevMidst, DevEnd, DevRead, DevReadPart, DevErase, DevOther,
              Answer, coreVars, hostVars
<1> QED
  BY <1>1, <1>2, <1>3, <1>4, <1>5, <1>6, <1>7, <1>8, QuietSteps DEF Next, Host

\* The types hold in every state, and the device never receives more of a
\* download than it was told to expect.
THEOREM TypeCorrect == Spec => []TypeOK
<1>1. Init => TypeOK /\ PhaseOK
  BY InitTypeOK DEF Init, PhaseOK
<1>2. TypeOK /\ PhaseOK /\ [Next]_vars => (TypeOK /\ PhaseOK)'
  <2> SUFFICES ASSUME TypeOK, PhaseOK, [Next]_vars PROVE TypeOK'
    BY NextPhaseOK
  <2>1. CASE Host \/ HostError
    BY <2>1, HostTypeOK
  <2>2. CASE Device
    BY <2>2, DeviceTypeOK
  <2>3. CASE DevLog \/ Ended \/ UNCHANGED vars
    BY <2>3, LogTypeOK
  <2> QED BY <2>1, <2>2, <2>3 DEF Next
<1> QED
  BY <1>1, <1>2, PTL DEF Spec

-----------------------------------------------------------------------------
(* The pipes.  Requests are numbered in the order they are sent and answered *)
(* in that order, so the two pipes together always hold the numbers up to    *)
(* nsent without a gap; and there are as many of them as there were          *)
(* tolerated timeouts, plus the one the host is waiting for.                 *)

PipeIds ==
  /\ \A i \in 1 .. Len(toDev) : toDev[i].id = nsent - Len(toDev) + i
  /\ \A i \in 1 .. Len(toHost) : toHost[i].id = nsent - Len(toDev) - Len(toHost) + i

PipeCount ==
  /\ pc \in {"idle", "exit"} => ~wait
  /\ pc # "exit" => Len(toDev) + Len(toHost) = tolerated + (IF wait THEN 1 ELSE 0)

PipeInv == TypeOK /\ PhaseOK /\ PipeIds /\ PipeCount

\* A request is appended to the pipe.
LEMMA SendPipe ==
  ASSUME PipeInv, NEW m, NEW data, SendMsg(m, data), TypeOK', pc \notin {"idle", "exit"}
  PROVE  PipeIds' /\ PipeCount'
<1> DEFINE e == [id |-> nsent + 1, type |-> m.type, at |-> m.at, len |-> m.len, data |-> data]
<1>1. toDev' = Append(toDev, e) /\ nsent' = nsent + 1 /\ ~wait /\ wait' = TRUE
      /\ toHost' = toHost /\ pc' = pc /\ tolerated' = tolerated
  BY DEF SendMsg
<1>2. e.id = nsent + 1
  OBVIOUS
<1> HIDE DEF e
<1>3. toDev \in Seq(Request) /\ toDev' \in Seq(Request) /\ toHost \in Seq(Reply) /\ nsent \in Nat
      /\ tolerated \in Nat
  BY DEF PipeInv, TypeOK
<1>4. /\ Len(toDev') = Len(toDev) + 1
      /\ \A i \in 1 .. Len(toDev) : toDev'[i] = toDev[i]
      /\ toDev'[Len(toDev) + 1] = e
  BY <1>1, <1>3
<1>5. Len(toDev) \in Nat /\ Len(toHost) \in Nat
  BY <1>3
<1>6. PipeIds'
  <2>1. /\ \A i \in 1 .. Len(toDev) : toDev[i].id = nsent - Len(toDev) + i
        /\ \A i \in 1 .. Len(toHost) : toHost[i].id = nsent - Len(toDev) - Len(toHost) + i
    BY DEF PipeInv, PipeIds
  <2>2. ASSUME NEW i \in 1 .. Len(toDev')
        PROVE  toDev'[i].id = nsent' - Len(toDev') + i
    <3>1. CASE i \in 1 .. Len(toDev)
      <4>1. toDev'[i].id = nsent - Len(toDev) + i
        BY <1>4, <2>1, <3>1
      <4> QED BY <1>1, <1>3, <1>4, <1>5, <4>1
    <3>2. CASE i = Len(toDev) + 1
      <4>1. toDev'[i].id = nsent + 1
        BY <1>2, <1>4, <3>2
      <4> QED BY <1>1, <1>3, <1>4, <1>5, <3>2, <4>1
    <3> QED BY <1>4, <1>5, <3>1, <3>2
  <2>3. ASSUME NEW i \in 1 .. Len(toHost')
        PROVE  toHost'[i].id = nsent' - Len(toDev') - Len(toHost') + i
    <3>1. toHost[i].id = nsent - Len(toDev) - Len(toHost) + i
      BY <1>1, <2>1
    <3> QED BY <1>1, <1>3, <1>4, <1>5, <3>1
  <2> QED BY <2>2, <2>3 DEF PipeIds
<1>7. PipeCount'
  BY <1>1, <1>3, <1>4, <1>5 DEF PipeInv, PipeCount
<1> QED BY <1>6, <1>7

\* A reply is taken or dropped, or the wait times out.  A handler that goes on after a
\* timeout counts it.
LEMMA RecvPipe ==
  ASSUME PipeInv, NEW r \in Incoming, RecvMsg(r), TypeOK', pc \notin {"idle", "exit"},
         pc' # "exit" => tolerated' = IF r.type = "none" THEN tolerated + 1 ELSE tolerated
  PROVE  PipeIds' /\ PipeCount'
<1>1. /\ wait /\ ~wait' /\ toDev' = toDev /\ nsent' = nsent
      /\ toHost' = IF r.type = "none" THEN toHost ELSE Tail(toHost)
      /\ r.type # "none" => toHost # <<>>
  BY RecvMsgTypeOK DEF RecvMsg, PipeInv
<1>2. toDev \in Seq(Request) /\ toHost \in Seq(Reply) /\ nsent \in Nat /\ tolerated \in Nat
      /\ toHost' \in Seq(Reply)
  BY DEF PipeInv, TypeOK
<1>3. Len(toDev) \in Nat /\ Len(toHost) \in Nat
  BY <1>2
<1>4. PipeIds'
  <2>1. CASE r.type = "none"
    BY <1>1, <2>1 DEF PipeInv, PipeIds
  <2>2. CASE r.type # "none"
    <3>1. Len(toHost') = Len(toHost) - 1 /\ \A i \in 1 .. Len(toHost') : toHost'[i] = toHost[i + 1]
      BY <1>1, <1>2, <2>2, SeqIndexFacts
    <3>2. \A i \in 1 .. Len(toHost') : i + 1 \in 1 .. Len(toHost)
      BY <1>3, <3>1
    <3>3. ASSUME NEW i \in 1 .. Len(toHost')
          PROVE  toHost'[i].id = nsent - Len(toDev) - Len(toHost') + i
      <4>1. toHost[i + 1].id = nsent - Len(toDev) - Len(toHost) + (i + 1)
        BY <3>2, <3>3 DEF PipeInv, PipeIds
      <4>2. \A d, h, x, j \in Int : x - d - h + (j + 1) = x - d - (h - 1) + j
        OBVIOUS
      <4> QED BY <1>2, <1>3, <3>1, <4>1, <4>2
    <3> QED BY <1>1, <3>3 DEF PipeInv, PipeIds
  <2> QED BY <2>1, <2>2
<1>5. PipeCount'
  <2>1. ~wait'
    BY <1>1
  <2>2. ASSUME pc' # "exit" PROVE Len(toDev') + Len(toHost') = tolerated'
    <3>1. Len(toDev) + Len(toHost) = tolerated + 1
      BY <1>1 DEF PipeInv, PipeCount
    <3>2. CASE r.type = "none"
      <4>1. tolerated' = tolerated + 1 /\ toHost' = toHost /\ toDev' = toDev
        BY <1>1, <2>2, <3>2
      <4> QED BY <3>1, <4>1
    <3>3. CASE r.type # "none"
      <4>2. Len(toHost') = Len(toHost) - 1
        BY <1>1, <1>2, <3>3, SeqIndexFacts
      <4>3. tolerated' = tolerated /\ toDev' = toDev
        BY <1>1, <2>2, <3>3
      <4> QED BY <1>2, <1>3, <3>1, <4>2, <4>3
    <3> QED BY <3>2, <3>3
  <2> QED BY <2>1, <2>2, <1>2 DEF PipeCount, TypeOK
<1> QED BY <1>4, <1>5

\* The device moves a number from one pipe to the other.
LEMMA AnswerPipe ==
  ASSUME PipeInv, toDev # <<>>, NEW type, NEW data, Answer(type, data), TypeOK'
  PROVE  PipeIds' /\ PipeCount'
<1> DEFINE e == [id |-> Head(toDev).id, type |-> type, data |-> data]
<1>1. toDev' = Tail(toDev) /\ toHost' = Append(toHost, e)
  BY DEF Answer
<1>2. UNCHANGED <<pc, wait, nsent, tolerated>>
  BY DEF Answer, hostVars
<1>3. e.id = Head(toDev).id
  OBVIOUS
<1> HIDE DEF e
<1>4. toDev \in Seq(Request) /\ toHost \in Seq(Reply) /\ nsent \in Nat /\ tolerated \in Nat
      /\ toHost' \in Seq(Reply)
  BY DEF PipeInv, TypeOK
<1>5. Len(toDev) \in Nat /\ Len(toHost) \in Nat /\ Len(toDev) # 0
  BY <1>4
<1>6. /\ Len(toDev') = Len(toDev) - 1
      /\ \A i \in 1 .. Len(toDev') : toDev'[i] = toDev[i + 1]
      /\ Head(toDev) = toDev[1]
  BY <1>1, <1>4, SeqIndexFacts
<1>7. /\ Len(toHost') = Len(toHost) + 1
      /\ \A i \in 1 .. Len(toHost) : toHost'[i] = toHost[i]
      /\ toHost'[Len(toHost) + 1] = e
  BY <1>1, <1>4
<1>8. \A i \in 1 .. Len(toDev') : toDev'[i].id = nsent - Len(toDev') + i
  <2> SUFFICES ASSUME NEW i \in 1 .. Len(toDev') PROVE toDev'[i].id = nsent - Len(toDev') + i
    OBVIOUS
  <2>1. i + 1 \in 1 .. Len(toDev)
    BY <1>5, <1>6
  <2>2. toDev[i + 1].id = nsent - Len(toDev) + (i + 1)
    BY <2>1 DEF PipeInv, PipeIds
  <2> QED BY <1>4, <1>5, <1>6, <2>2
<1>9. \A i \in 1 .. Len(toHost') : toHost'[i].id = nsent - Len(toDev') - Len(toHost') + i
  <2> SUFFICES ASSUME NEW i \in 1 .. Len(toHost')
               PROVE  toHost'[i].id = nsent - Len(toDev') - Len(toHost') + i
    OBVIOUS
  <2>1. CASE i \in 1 .. Len(toHost)
    <3>1. toHost[i].id = nsent - Len(toDev) - Len(toHost) + i
      BY <2>1 DEF PipeInv, PipeIds
    <3> QED BY <1>4, <1>5, <1>6, <1>7, <2>1, <3>1
  <2>2. CASE i = Len(toHost) + 1
    <3>1. toDev[1].id = nsent - Len(toDev) + 1
      BY <1>5 DEF PipeInv, PipeIds
    <3> QED BY <1>3, <1>4, <1>5, <1>6, <1>7, <2>2, <3>1
  <2> QED BY <1>5, <1>7, <2>1, <2>2
<1>10. PipeCount'
  <2>1. Len(toDev') + Len(toHost') = Len(toDev) + Len(toHost)
    BY <1>5, <1>6, <1>7
  <2> QED BY <1>2, <2>1 DEF PipeInv, PipeCount
<1> QED BY <1>2, <1>8, <1>9, <1>10 DEF PipeIds

\* Every reply handler is an instance of RecvPipe.
LEMMA HandlerPipe ==
  ASSUME PipeInv, TypeOK',
         CheckReply \/ QueryReply \/ ReadReply \/ LoadReply \/ ProbeReply
  PROVE  PipeIds' /\ PipeCount'
<1>1. pc \notin {"idle", "exit"}
  BY DEF CheckReply, QueryReply, ReadReply, LoadReply, ProbeReply
<1>2. PICK r \in Incoming :
        /\ RecvMsg(r)
        /\ pc' # "exit" => tolerated' = IF r.type = "none" THEN tolerated + 1 ELSE tolerated
  <2>1. CASE CheckReply
    BY <2>1 DEF CheckReply, ErrExit, Accepted
  <2>2. CASE QueryReply
    BY <2>2 DEF QueryReply, ErrExit
  <2>3. CASE ReadReply
    BY <2>3 DEF ReadReply, ErrExit, Tolerate
  <2>4. CASE LoadReply
    BY <2>4 DEF LoadReply, ErrExit, Tolerate
  <2>5. CASE ProbeReply
    BY <2>5 DEF ProbeReply, Tolerate
  <2> QED BY <2>1, <2>2, <2>3, <2>4, <2>5
<1> QED BY <1>1, <1>2, RecvPipe

\* With both pipes empty, the invariant on what they hold is true.
LEMMA InitPipeInv == Init => PipeInv
BY InitTypeOK DEF Init, PipeInv, PhaseOK, PipeIds, PipeCount

\* Every step keeps the numbering and the count of what is in the pipes.
LEMMA NextPipeInv == PipeInv /\ [Next]_vars => PipeInv'
<1> SUFFICES ASSUME PipeInv, [Next]_vars PROVE PipeInv'
  OBVIOUS
<1>1. TypeOK' /\ PhaseOK'
  <2>1. PhaseOK'
    BY NextPhaseOK DEF PipeInv
  <2>2. TypeOK'
    <3>1. CASE Host \/ HostError
      BY <3>1, HostTypeOK DEF PipeInv
    <3>2. CASE Device
      BY <3>2, DeviceTypeOK DEF PipeInv
    <3>3. CASE DevLog \/ Ended \/ UNCHANGED vars
      BY <3>3, LogTypeOK DEF PipeInv
    <3> QED BY <3>1, <3>2, <3>3 DEF Next
  <2> QED BY <2>1, <2>2
<1>2. SUFFICES PipeIds' /\ PipeCount'
  BY <1>1 DEF PipeInv
<1>3. CASE SendOpen \/ SendBody \/ SendClose
  BY <1>1, <1>3, SendPipe DEF SendOpen, SendBody, SendClose
<1>4. CASE CheckReply \/ QueryReply \/ ReadReply \/ LoadReply \/ ProbeReply
  BY <1>1, <1>4, HandlerPipe
<1>5. CASE Device
  <2>1. toDev # <<>>
    BY <1>5 DEF Device, DevStart, DevMidst, DevEnd, DevRead, DevReadPart, DevErase, DevOther, Arrived
  <2>2. \E type, data : Answer(type, data)
    BY <1>5 DEF Device, DevStart, DevMidst, DevEnd, DevRead, DevReadPart, DevErase, DevOther
  <2> QED BY <1>1, <2>1, <2>2, AnswerPipe
<1>6. CASE BeginCommand \/ Finish \/ LeaveBody \/ HostError
  <2>1. UNCHANGED <<toDev, toHost, nsent, tolerated>>
    BY <1>6 DEF BeginCommand, Finish, LeaveBody, HostError, ErrExit
  <2>2. PipeIds'
    BY <2>1 DEF PipeInv, PipeIds
  <2>3. pc' \in {"idle", "exit"} => ~wait'
    BY <1>6 DEF BeginCommand, Finish, LeaveBody, HostError, PipeInv, PipeCount
  <2>4. pc' # "exit" => pc # "exit" /\ wait' = wait
    BY <1>6 DEF BeginCommand, Finish, LeaveBody, HostError, ErrExit
  <2> QED BY <2>1, <2>2, <2>3, <2>4 DEF PipeInv, PipeCount
<1>7. CASE UNCHANGED coreVars
  BY <1>7 DEF PipeInv, PipeIds, PipeCount, coreVars, hostVars
<1> QED
  BY <1>3, <1>4, <1>5, <1>6, <1>7, QuietSteps DEF Next, Host

\* The reply the host takes answers the request it sent `tolerated` requests
\* ago: its latest one exactly as long as no timeout was tolerated.
THEOREM AnswerLagHolds == Spec => []AnswerLag
<1>1. PipeInv => AnswerLag
  <2> SUFFICES ASSUME PipeInv, wait, toHost # <<>> PROVE Head(toHost).id = nsent - tolerated
    BY DEF AnswerLag
  <2>1. toDev \in Seq(Request) /\ toHost \in Seq(Reply) /\ nsent \in Nat /\ tolerated \in Nat
    BY DEF PipeInv, TypeOK
  <2>2. Len(toDev) \in Nat /\ Len(toHost) \in Nat /\ Len(toHost) # 0
    BY <2>1
  <2>3. Head(toHost) = toHost[1]
    BY <2>1, SeqIndexFacts
  <2>4. Len(toDev) + Len(toHost) = tolerated + 1
    BY DEF PipeInv, PipeCount
  <2>5. toHost[1].id = nsent - Len(toDev) - Len(toHost) + 1
    BY <2>2 DEF PipeInv, PipeIds
  <2> QED BY <2>1, <2>2, <2>3, <2>4, <2>5
<1> QED
  BY <1>1, InitPipeInv, NextPipeInv, PTL DEF Spec

-----------------------------------------------------------------------------
(* As long as no timeout was tolerated, what a reading command puts in its *)
(* file is the device's memory, and the memory stands still meanwhile.     *)

Writers == Downloads \cup {"erase"}

\* While a command that does not write is the current one, no request that
\* changes the memory is on its way.
WriteFree ==
  tolerated = 0 /\ cmd.op \notin Writers =>
    \A i \in 1 .. Len(toDev) : toDev[i].type \notin {"MIDST", "ERASE"}

\* The one request or reply under way in the loop of a dump is about the block
\* at the host's offset.
ReadInFlight ==
  tolerated = 0 /\ wait /\ pc = "body" /\ cmd.op \in Dumps =>
    /\ \A i \in 1 .. Len(toDev) : /\ toDev[i].type \in {"READ", "RMIDST"}
                                  /\ toDev[i].at = cmd.at + off
    /\ \A i \in 1 .. Len(toHost) : toHost[i].type = "READ" =>
         toHost[i].data = Cells(cmd.at + off, Len(toHost[i].data))

DumpInv == PipeInv /\ WriteFree /\ ReadInFlight /\ DumpFaithful

-----------------------------------------------------------------------------
\* Two adjacent areas of the memory make one.
LEMMA CellsConcat ==
  ASSUME NEW a \in Nat, NEW n \in Nat, NEW m \in Nat,
         Cells(a, n) \in Seq(Nat), Cells(a + n, m) \in Seq(Nat)
  PROVE  Cells(a, n) \o Cells(a + n, m) = Cells(a, n + m)
<1> DEFINE s == Cells(a, n)
           t == Cells(a + n, m)
           u == Cells(a, n + m)
<1>1. Len(s) = n /\ Len(t) = m
  BY DEF Cells
<1>2. /\ \A i \in 1 .. n : s[i] = MemAt(a + i - 1)
      /\ \A i \in 1 .. m : t[i] = MemAt(a + n + i - 1)
  BY DEF Cells
<1>3. u = [i \in 1 .. n + m |-> MemAt(a + i - 1)]
  BY DEF Cells
<1> HIDE DEF s, t, u
<1>4. s \in Seq(Nat) /\ t \in Seq(Nat)
  BY DEF s, t
<1>5. /\ s \o t \in Seq(Nat)
      /\ Len(s \o t) = n + m
      /\ \A i \in 1 .. n + m : (s \o t)[i] = IF i <= n THEN s[i] ELSE t[i - n]
  <2>1. /\ s \o t \in Seq(Nat)
        /\ Len(s \o t) = Len(s) + Len(t)
        /\ \A i \in 1 .. Len(s) + Len(t) : (s \o t)[i] = IF i <= Len(s) THEN s[i] ELSE t[i - Len(s)]
    BY ONLY <1>4, ConcatProperties
  <2> QED BY ONLY <1>1, <2>1
<1>6. \A i \in 1 .. n + m : (s \o t)[i] = MemAt(a + i - 1) /\ MemAt(a + i - 1) \in Nat
  <2> SUFFICES ASSUME NEW i \in 1 .. n + m
               PROVE  (s \o t)[i] = MemAt(a + i - 1) /\ MemAt(a + i - 1) \in Nat
    OBVIOUS
  <2>1. (s \o t)[i] \in Nat
    BY <1>5, ElementOfSeq
  <2>2. CASE i <= n
    <3>1. i \in 1 .. n
      BY <2>2
    <3> QED BY <1>2, <1>5, <2>1, <2>2, <3>1
  <2>3. CASE ~(i <= n)
    <3>1. i - n \in 1 .. m /\ a + n + (i - n) - 1 = a + i - 1
      BY <2>3
    <3>2. t[i - n] = MemAt(a + i - 1)
      BY <1>2, <3>1
    <3> QED BY <1>5, <2>1, <2>3, <3>2
  <2> QED BY <2>2, <2>3
<1>7. u \in Seq(Nat) /\ Len(u) = n + m /\ \A i \in 1 .. n + m : u[i] = MemAt(a + i - 1)
  <2>1. n + m \in Nat
    OBVIOUS
  <2>2. u \in [1 .. n + m -> Nat]
    BY <1>3, <1>6
  <2>3. u \in Seq(Nat)
    BY <2>1, <2>2, IsASeq
  <2>4. Len(u) = n + m
    BY <2>1, <2>2, <2>3, LenProperties
  <2> QED BY <1>3, <2>3, <2>4
<1>8. s \o t = u
  BY <1>5, <1>6, <1>7, SeqEqual
<1> QED BY <1>8 DEF s, t, u

\* Without a tolerated timeout the pipes hold what the host is waiting for, and
\* nothing when it is not waiting.
LEMMA PipesWithoutTimeout ==
  ASSUME PipeInv, tolerated = 0, pc # "exit"
  PROVE  /\ ~wait => toDev = <<>> /\ toHost = <<>>
         /\ wait => Len(toDev) + Len(toHost) = 1
<1>1. toDev \in Seq(Request) /\ toHost \in Seq(Reply)
  BY DEF PipeInv, TypeOK
<1>2. Len(toDev) \in Nat /\ Len(toHost) \in Nat
  BY <1>1
<1>3. ASSUME ~wait PROVE toDev = <<>> /\ toHost = <<>>
  <2>1. Len(toDev) + Len(toHost) = 0
    BY <1>3 DEF PipeInv, PipeCount
  <2> QED BY <1>1, <1>2, <2>1, SeqIndexFacts
<1>4. ASSUME wait PROVE Len(toDev) + Len(toHost) = 1
  BY <1>4 DEF PipeInv, PipeCount
<1> QED BY <1>3, <1>4

\* Without a tolerated timeout, no step changes the memory between commands or
\* during one that does not write.
LEMMA FlashQuiet ==
  ASSUME PipeInv, WriteFree, [Next]_vars, tolerated = 0,
         pc = "idle" \/ cmd.op \notin Writers
  PROVE  UNCHANGED <<flashSize, flash>>
<1>1. CASE Device
  <2>1. toDev # <<>>
    BY <1>1 DEF Device, DevStart, DevMidst, DevEnd, DevRead, DevReadPart, DevErase, DevOther, Arrived
  <2>2. pc # "idle"
    BY <2>1, PipesWithoutTimeout DEF PipeInv, PipeCount
  <2>3. toDev \in Seq(Request)
    BY DEF PipeInv, TypeOK
  <2>4. Head(toDev) = toDev[1] /\ 1 \in 1 .. Len(toDev)
    BY <2>1, <2>3
  <2>5. Head(toDev).type \notin {"MIDST", "ERASE"}
    BY <2>2, <2>4 DEF WriteFree
  <2>6. ~DevMidst /\ ~DevErase
    BY <2>5 DEF DevMidst, DevErase, Arrived
  <2> QED
    BY <1>1, <2>6 DEF Device, DevStart, DevEnd, DevRead, DevReadPart, DevOther, devVars
<1>2. CASE CheckReply \/ QueryReply \/ ReadReply \/ LoadReply \/ ProbeReply
  BY <1>2 DEF CheckReply, QueryReply, ReadReply, LoadReply, ProbeReply, RecvMsg, devVars
<1>3. CASE SendOpen \/ SendBody \/ SendClose
  BY <1>3 DEF SendOpen, SendBody, SendClose, SendMsg, devVars
<1>4. CASE BeginCommand \/ Finish \/ LeaveBody \/ HostError \/ UNCHANGED coreVars
  BY <1>4 DEF BeginCommand, Finish, LeaveBody, HostError, devVars, coreVars
<1> QED BY <1>1, <1>2, <1>3, <1>4, QuietSteps DEF Next, Host

-----------------------------------------------------------------------------
\* tolerated never decreases, and cmd only changes between commands.
LEMMA StepFacts ==
  ASSUME TypeOK, [Next]_vars, tolerated' = 0
  PROVE  tolerated = 0 /\ (cmd' = cmd \/ BeginCommand)
<1>1. CASE Device
  BY <1>1 DEF Device, DevStart, DevMidst, DevEnd, DevRead, DevReadPart, DevErase, DevOther, Answer, hostVars
<1>2. CASE CheckReply \/ QueryReply \/ ReadReply \/ LoadReply \/ ProbeReply
  BY <1>2 DEF CheckReply, QueryReply, ReadReply, LoadReply, ProbeReply, RecvMsg, ErrExit,
              Tolerate, TypeOK
<1>3. CASE SendOpen \/ SendBody \/ SendClose
  BY <1>3 DEF SendOpen, SendBody, SendClose, SendMsg
<1>4. CASE BeginCommand \/ Finish \/ LeaveBody \/ HostError \/ UNCHANGED coreVars
  BY <1>4 DEF BeginCommand, Finish, LeaveBody, HostError, ErrExit, coreVars, hostVars
<1> QED BY <1>1, <1>2, <1>3, <1>4, QuietSteps DEF Next, Host

\* Appended to an empty pipe, a request is alone in it.
LEMMA SendAlone ==
  ASSUME TypeOK, NEW m, NEW data, SendMsg(m, data), TypeOK', toDev = <<>>
  PROVE  /\ Len(toDev') = 1
         /\ toDev'[1].type = m.type /\ toDev'[1].at = m.at
<1> DEFINE e == [id |-> nsent + 1, type |-> m.type, at |-> m.at, len |-> m.len, data |-> data]
<1>1. toDev' = Append(<<>>, e)
  BY DEF SendMsg
<1>2. e.type = m.type /\ e.at = m.at
  OBVIOUS
<1> HIDE DEF e
<1>3. toDev' = <<e>>
  BY <1>1
<1> QED BY <1>2, <1>3

\* A command that does not write sends nothing that changes the memory.
LEMMA HarmlessRequests ==
  ASSUME TypeOK, PhaseOK, cmd.op \notin Writers
  PROVE  /\ pc = "open" => OpenRequest.type \notin {"MIDST", "ERASE"}
         /\ pc = "body" => BodyRequest.type \notin {"MIDST", "ERASE"}
         /\ CloseRequest.type \notin {"MIDST", "ERASE"}
<1>1. cmd.op \in {"read", "query", "rpart", "ptime", "psize"}
  BY DEF TypeOK, Command, Ops, Writers, Downloads
<1>2. pc = "open" => OpenRequest.type \notin {"MIDST", "ERASE"}
  BY <1>1 DEF OpenRequest, PhaseOK, Downloads
<1>3. pc = "body" => BodyRequest.type \notin {"MIDST", "ERASE"}
  BY <1>1 DEF BodyRequest, PhaseOK, Downloads
<1>4. CloseRequest.type \notin {"MIDST", "ERASE"}
  BY DEF CloseRequest
<1> QED BY <1>2, <1>3, <1>4

\* Every step keeps requests that change the memory out of the pipe while a
\* command that only reads is running.
LEMMA NextWriteFree ==
  ASSUME PipeInv, WriteFree, [Next]_vars, PipeInv'
  PROVE  WriteFree'
<1> SUFFICES ASSUME tolerated' = 0, cmd'.op \notin Writers, NEW i \in 1 .. Len(toDev')
             PROVE  toDev'[i].type \notin {"MIDST", "ERASE"}
  BY DEF WriteFree
<1>0. TypeOK /\ TypeOK' /\ PhaseOK /\ toDev \in Seq(Request)
  BY DEF PipeInv, TypeOK
<1>1. tolerated = 0 /\ (cmd' = cmd \/ BeginCommand)
  BY <1>0, StepFacts
<1>2. CASE BeginCommand
  <2>1. toDev = <<>>
    BY <1>1, <1>2, PipesWithoutTimeout DEF BeginCommand, PipeInv, PipeCount
  <2>2. toDev' = <<>>
    BY <1>2, <2>1 DEF BeginCommand
  <2> QED BY <2>2
<1>3. CASE SendOpen \/ SendBody \/ SendClose
  <2>1. cmd' = cmd /\ ~wait /\ pc # "exit"
    BY <1>3 DEF SendOpen, SendBody, SendClose, SendMsg
  <2>2. toDev = <<>>
    BY <1>1, <2>1, PipesWithoutTimeout
  <2>3. cmd.op \notin Writers
    BY <2>1
  <2>4. PICK m, data : SendMsg(m, data) /\ m.type \notin {"MIDST", "ERASE"}
    BY <1>0, <1>3, <2>3, HarmlessRequests DEF SendOpen, SendBody, SendClose
  <2>5. Len(toDev') = 1 /\ toDev'[1].type = m.type
    BY <1>0, <2>2, <2>4, SendAlone
  <2>6. i = 1
    BY <2>5
  <2> QED BY <2>4, <2>5, <2>6
<1>4. CASE Device
  <2>1. toDev # <<>> /\ toDev' = Tail(toDev) /\ cmd' = cmd
    BY <1>4 DEF Device, DevStart, DevMidst, DevEnd, DevRead, DevReadPart, DevErase, DevOther, Arrived,
                Answer, hostVars
  <2>2. Len(toDev') = Len(toDev) - 1 /\ toDev'[i] = toDev[i + 1]
    BY <1>0, <2>1, SeqIndexFacts
  <2>3. i + 1 \in 1 .. Len(toDev)
    BY <1>0, <2>2
  <2> QED BY <1>1, <2>1, <2>2, <2>3 DEF WriteFree
<1>5. CASE toDev' = toDev /\ cmd' = cmd
  BY <1>1, <1>5 DEF WriteFree
<1>6. ASSUME \/ CheckReply \/ QueryReply \/ ReadReply \/ LoadReply \/ ProbeReply
             \/ Finish \/ LeaveBody \/ HostError \/ UNCHANGED coreVars
      PROVE  toDev' = toDev /\ cmd' = cmd
  BY <1>6 DEF CheckReply, QueryReply, ReadReply, LoadReply, ProbeReply, RecvMsg,
              Finish, LeaveBody, HostError, coreVars, hostVars
<1> QED BY <1>2, <1>3, <1>4, <1>5, <1>6, QuietSteps DEF Next, Host

\* As long as no timeout was tolerated, the memory does not change between
\* commands nor during one that only reads.
THEOREM QuietWhileReadingHolds == Spec => QuietWhileReading
<1> DEFINE Inv == PipeInv /\ WriteFree
<1>1. Init => Inv
  BY InitPipeInv DEF Init, WriteFree
<1>2. Inv /\ [Next]_vars => Inv'
  BY NextPipeInv, NextWriteFree
<1>3. Inv /\ [Next]_vars =>
        [ /\ tolerated = 0
          /\ pc # "exit"
          /\ pc = "idle" \/ cmd.op \notin Downloads \cup {"erase"}
          => UNCHANGED flash ]_vars
  BY FlashQuiet DEF Writers
<1> QED
  BY <1>1, <1>2, <1>3, PTL DEF Spec, QuietWhileReading

-----------------------------------------------------------------------------
\* The block under way in the loop of a dump stays the one at the offset.
LEMMA NextReadInFlight ==
  ASSUME DumpInv, [Next]_vars, PipeInv'
  PROVE  ReadInFlight'
<1> SUFFICES ASSUME tolerated' = 0, wait', pc' = "body", cmd'.op \in Dumps
             PROVE  /\ \A i \in 1 .. Len(toDev') : /\ toDev'[i].type \in {"READ", "RMIDST"}
                                                   /\ toDev'[i].at = cmd'.at + off'
                    /\ \A i \in 1 .. Len(toHost') : toHost'[i].type = "READ" =>
                          toHost'[i].data = Cells(cmd.at + off, Len(toHost[i].data))'
  BY DEF ReadInFlight
<1>0. PipeInv /\ WriteFree /\ ReadInFlight /\ TypeOK /\ TypeOK'
      /\ toDev \in Seq(Request) /\ toHost \in Seq(Reply) /\ toHost' \in Seq(Reply)
  BY DEF DumpInv, PipeInv, TypeOK
<1>1. tolerated = 0 /\ (cmd' = cmd \/ BeginCommand)
  BY <1>0, StepFacts
<1>2. ~BeginCommand /\ ~Finish /\ ~LeaveBody /\ ~HostError
  BY DEF BeginCommand, Finish, LeaveBody, HostError, PipeInv, PipeCount, DumpInv
<1>3. ~(CheckReply \/ QueryReply \/ ReadReply \/ LoadReply \/ ProbeReply)
  BY DEF CheckReply, QueryReply, ReadReply, LoadReply, ProbeReply, RecvMsg
<1>4. cmd' = cmd /\ cmd.op \in Dumps /\ cmd.op \notin Writers
  BY <1>1, <1>2 DEF Dumps, Writers, Downloads
<1>5. flash' = flash /\ flashSize' = flashSize
  BY <1>0, <1>1, <1>4, FlashQuiet
<1>6. CASE SendOpen \/ SendBody \/ SendClose
  <2>1. SendMsg(BodyRequest, IF cmd.op \in Downloads THEN Payload ELSE <<>>) /\ pc = "body"
    BY <1>6 DEF SendOpen, SendBody, SendClose, SendMsg
  <2>2. toDev = <<>> /\ toHost = <<>>
    BY <1>0, <1>1, <2>1, PipesWithoutTimeout DEF SendMsg
  <2>3. BodyRequest.type \in {"READ", "RMIDST"} /\ BodyRequest.at = cmd.at + off
    BY <1>4 DEF BodyRequest, Dumps, Downloads
  <2>4. Len(toDev') = 1 /\ toDev'[1].type = BodyRequest.type /\ toDev'[1].at = BodyRequest.at
    BY <1>0, <2>1, <2>2, SendAlone
  <2>5. toHost' = <<>> /\ off' = off
    BY <2>1, <2>2 DEF SendMsg
  <2>6. \A i \in 1 .. Len(toDev') : i = 1
    BY <2>4
  <2>7. Len(toHost') = 0
    BY <2>5
  <2> QED BY <1>4, <2>3, <2>4, <2>5, <2>6, <2>7
<1>7. CASE Device
  <2>1. toDev # <<>> /\ UNCHANGED <<pc, wait, off, cmd>>
    BY <1>7 DEF Device, DevStart, DevMidst, DevEnd, DevRead, DevReadPart, DevErase, DevOther, Arrived,
                Answer, hostVars
  <2>2. Len(toDev) \in Nat /\ Len(toHost) \in Nat /\ Len(toDev) # 0
    BY <1>0, <2>1
  <2>3. Len(toDev) = 1 /\ Len(toHost) = 0 /\ toHost = <<>>
    <3>1. pc = "body" /\ wait
      BY <2>1
    <3>2. Len(toDev) + Len(toHost) = 1
      BY <1>0, <1>1, <3>1, PipesWithoutTimeout
    <3>3. Len(toDev) = 1 /\ Len(toHost) = 0
      <4>1. \A x, y \in Nat : x # 0 /\ x + y = 1 => x = 1 /\ y = 0
        OBVIOUS
      <4> QED BY <2>2, <3>2, <4>1
    <3> QED BY <1>0, <3>3, SeqIndexFacts
  <2>4. Head(toDev) = toDev[1] /\ Len(Tail(toDev)) = 0
    BY <1>0, <2>1, <2>3, SeqIndexFacts
  <2>5. Head(toDev).type \in {"READ", "RMIDST"} /\ Head(toDev).at = cmd.at + off
    BY <1>0, <1>1, <1>4, <2>1, <2>3, <2>4 DEF ReadInFlight
  <2>6. DevRead \/ DevReadPart
    BY <1>7, <2>5 DEF Device, DevStart, DevMidst, DevEnd, DevErase, DevOther, Arrived
  <2>7. /\ toDev' = Tail(toDev)
        /\ \E type, data :
             /\ toHost' = Append(toHost, [id |-> Head(toDev).id, type |-> type, data |-> data])
             /\ type = "READ" => \E n \in Nat : data = Cells(Head(toDev).at, n)
    <3>1. Head(toDev).len \in Nat
      <4>1. Head(toDev) \in Request
        BY <1>0, <2>1, SeqFacts
      <4> QED BY <4>1 DEF Request
    <3>2. \/ Answer("ERR", <<>>)
          \/ \E n \in Nat : Answer("READ", Cells(Head(toDev).at, n))
      BY <2>6, <3>1 DEF DevRead, DevReadPart
    <3>3. CASE Answer("ERR", <<>>)
      <4>1. toDev' = Tail(toDev) /\
            toHost' = Append(toHost, [id |-> Head(toDev).id, type |-> "ERR", data |-> <<>>])
        BY <3>3 DEF Answer
      <4>2. "ERR" # "READ"
        OBVIOUS
      <4> QED BY <4>1, <4>2, Zenon
    <3>4. ASSUME NEW n \in Nat, Answer("READ", Cells(Head(toDev).at, n))
          PROVE  <2>7
      <4>1. toDev' = Tail(toDev) /\
            toHost' = Append(toHost, [id |-> Head(toDev).id, type |-> "READ",
                                      data |-> Cells(Head(toDev).at, n)])
        BY <3>4 DEF Answer
      <4> QED BY <4>1
    <3> QED BY <3>2, <3>3, <3>4
  <2>8. PICK type, data :
             /\ toHost' = Append(toHost, [id |-> Head(toDev).id, type |-> type, data |-> data])
             /\ type = "READ" => \E n \in Nat : data = Cells(Head(toDev).at, n)
    BY <2>7
  <2>9. Len(toHost') = 1 /\ toHost'[1].type = type /\ toHost'[1].data = data
    BY <2>3, <2>8
  <2>10. type = "READ" => data = Cells(cmd.at + off, Len(data))
    <3>1. ASSUME NEW n \in Nat, data = Cells(Head(toDev).at, n) PROVE data = Cells(cmd.at + off, Len(data))
      <4>1. Len(data) = n
        BY <3>1 DEF Cells
      <4> QED BY <2>5, <3>1, <4>1
    <3> QED BY <2>8, <3>1
  <2>11. \A i \in 1 .. Len(toHost') : toHost'[i].type = "READ" =>
           toHost'[i].data = Cells(cmd.at + off, Len(toHost'[i].data))
    BY <2>9, <2>10
  <2>12. \A i \in 1 .. Len(toHost') :
           Cells(cmd.at + off, Len(toHost[i].data))' = Cells(cmd.at + off, Len(toHost'[i].data))
    BY <1>5, <2>1 DEF Cells, MemAt, Cell
  <2>13. Len(toDev') = 0
    BY <2>4, <2>7
  <2> QED BY <2>11, <2>12, <2>13
<1>8. CASE UNCHANGED coreVars
  <2>1. UNCHANGED <<toDev, toHost, cmd, off, flash, flashSize, wait, pc, tolerated>>
    BY <1>8 DEF coreVars, hostVars, devVars
  <2>2. tolerated = 0 /\ wait /\ pc = "body" /\ cmd.op \in Dumps
    BY <2>1
  <2> QED BY <1>0, <2>1, <2>2 DEF ReadInFlight, Cells, MemAt, Cell
<1> QED BY <1>2, <1>3, <1>6, <1>7, <1>8, QuietSteps DEF Next, Host

\* A step that leaves the file, the offset and the command alone, and the memory
\* if that command is a dump, keeps the dump faithful.
LEMMA NextDumpFaithful ==
  ASSUME DumpInv, [Next]_vars, PipeInv'
  PROVE  DumpFaithful'
<1> SUFFICES ASSUME tolerated' = 0, cmd'.op \in Dumps PROVE file' = Cells(cmd.at, off)'
  BY DEF DumpFaithful
<1>0. PipeInv /\ WriteFree /\ ReadInFlight /\ TypeOK /\ TypeOK' /\ DumpFaithful
  BY DEF DumpInv, PipeInv
<1>1. tolerated = 0 /\ (cmd' = cmd \/ BeginCommand)
  BY <1>0, StepFacts
<1>2. CASE BeginCommand
  <2>1. file' = <<>> /\ off' = 0
    BY <1>2 DEF BeginCommand
  <2> QED BY <2>1 DEF Cells
<1>3. ASSUME cmd' = cmd, file' = file, off' = off PROVE file' = Cells(cmd.at, off)'
  <2>1. cmd.op \in Dumps /\ cmd.op \notin Writers
    BY <1>3 DEF Dumps, Writers, Downloads
  <2>2. flash' = flash /\ flashSize' = flashSize
    BY <1>0, <1>1, <2>1, FlashQuiet
  <2> QED BY <1>0, <1>1, <1>3, <2>1, <2>2 DEF DumpFaithful, Cells, MemAt, Cell
<1>4. ASSUME \/ CheckReply \/ QueryReply \/ LoadReply \/ ProbeReply
             \/ SendOpen \/ SendBody \/ SendClose \/ Finish \/ LeaveBody
             \/ HostError \/ Device \/ UNCHANGED coreVars
      PROVE  file' = Cells(cmd.at, off)'
  <2>1. CASE CheckReply
    <3>1. cmd' = cmd /\ cmd.op \notin {"write", "wpart"}
      BY <2>1 DEF CheckReply, RecvMsg, Dumps
    <3>2. file' = file /\ off' = off
      BY <2>1, <3>1 DEF CheckReply, AfterCheck, ErrExit
    <3> QED BY <1>3, <3>1, <3>2
  <2>2. CASE QueryReply
    BY <1>3, <2>2 DEF QueryReply, RecvMsg, ErrExit
  <2>3. CASE LoadReply \/ ProbeReply
    BY <2>3 DEF LoadReply, ProbeReply, RecvMsg, Dumps
  <2>4. CASE SendOpen \/ SendBody \/ SendClose
    BY <1>3, <2>4 DEF SendOpen, SendBody, SendClose, SendMsg
  <2>5. CASE Finish \/ LeaveBody \/ HostError \/ UNCHANGED coreVars
    BY <1>3, <2>5 DEF Finish, LeaveBody, HostError, ErrExit, coreVars, hostVars
  <2>6. CASE Device
    BY <1>3, <2>6 DEF Device, DevStart, DevMidst, DevEnd, DevRead, DevReadPart, DevErase, DevOther,
                      Answer, hostVars
  <2> QED BY <1>4, <2>1, <2>2, <2>3, <2>4, <2>5, <2>6
<1>5. CASE ReadReply
  <2>1. /\ cmd' = cmd /\ cmd.op \in Dumps /\ pc = "body" /\ wait
        /\ flash' = flash /\ flashSize' = flashSize
    BY <1>5 DEF ReadReply, RecvMsg, devVars
  <2>2. PICK r \in Incoming :
          \/ file' = file /\ off' = off
          \/ /\ r.type = "READ"
             /\ file' = file \o r.data
             /\ off' = off + Len(r.data)
    BY <1>5 DEF ReadReply, ErrExit, Advance
  <2>3. CASE file' = file /\ off' = off
    BY <1>3, <2>1, <2>3
  <2>4. CASE r.type = "READ" /\ file' = file \o r.data /\ off' = off + Len(r.data)
    <3>1. toHost # <<>> /\ r = Head(toHost)
      BY <2>4 DEF Incoming, NoReply, TornReply
    <3>2. toHost \in Seq(Reply) /\ file \in Seq(Nat) /\ off \in Nat /\ cmd.at \in Nat
      BY <1>0 DEF TypeOK, Command
    <3>3. r = toHost[1] /\ 1 \in 1 .. Len(toHost) /\ r \in Reply
      BY <3>1, <3>2, SeqIndexFacts, SeqFacts
    <3>4. r.data \in Seq(Nat) /\ Len(r.data) \in Nat
      BY <3>3 DEF Reply
    <3>5. r.data = Cells(cmd.at + off, Len(r.data))
      BY <1>0, <1>1, <2>1, <2>4, <3>3 DEF ReadInFlight
    <3>6. file = Cells(cmd.at, off)
      BY <1>0, <1>1, <2>1 DEF DumpFaithful
    <3>7. Cells(cmd.at, off) \o Cells(cmd.at + off, Len(r.data)) = Cells(cmd.at, off + Len(r.data))
      BY <3>2, <3>4, <3>5, <3>6, CellsConcat
    <3>8. file' = Cells(cmd.at, off + Len(r.data))
      BY <2>4, <3>5, <3>6, <3>7
    <3> QED BY <2>1, <2>4, <3>8 DEF Cells, MemAt, Cell
  <2> QED BY <2>2, <2>3, <2>4
<1> QED BY <1>2, <1>4, <1>5, QuietSteps DEF Next, Host

\* As long as no timeout was tolerated, every dump file holds the device's memory
\* from the requested address on, as far as the host counted.
THEOREM DumpFaithfulHolds == Spec => []DumpFaithful
<1>1. Init => DumpInv
  BY InitPipeInv DEF Init, DumpInv, WriteFree, ReadInFlight, DumpFaithful, NoCommand, Dumps
<1>2. DumpInv /\ [Next]_vars => DumpInv'
  <2> SUFFICES ASSUME DumpInv, [Next]_vars PROVE DumpInv'
    OBVIOUS
  <2>1. PipeInv'
    BY NextPipeInv DEF DumpInv
  <2>2. WriteFree'
    BY <2>1, NextWriteFree DEF DumpInv
  <2>3. ReadInFlight'
    BY <2>1, NextReadInFlight
  <2>4. DumpFaithful'
    BY <2>1, NextDumpFaithful
  <2> QED BY <2>1, <2>2, <2>3, <2>4 DEF DumpInv
<1>3. DumpInv => DumpFaithful
  BY DEF DumpInv
<1> QED
  BY <1>1, <1>2, <1>3, PTL DEF Spec

-----------------------------------------------------------------------------
(* As long as no timeout was tolerated: what a download counts as written  *)
(* is in the device's memory, a transfer that ends is complete, and the    *)
(* search of find_partition_size finds the size.                           *)

Fits == cmd.at + cmd.len <= flashSize

\* The first n cells of the input of a download are in the memory.
Landed(n) == Fits => \A k \in 0 .. n - 1 : flash[cmd.at + k] = cmd.val + k

\* dl_status is about the current download, of which n cells have arrived.
InSync(n) == dl.at = cmd.at /\ dl.size = cmd.len /\ dl.recv = n

\* A download: what is under way, and how far the device is.
WriteInv ==
  tolerated = 0 /\ pc # "exit" /\ cmd.op \in Downloads =>
    /\ off <= cmd.len
    /\ pc = "open" => off = 0
    /\ \A i \in 1 .. Len(toDev) :
         /\ pc = "open" => /\ toDev[i].type = "START"
                           /\ toDev[i].at = cmd.at /\ toDev[i].len = cmd.len
         /\ pc = "body" => toDev[i].type = "MIDST" /\ toDev[i].data = Payload
         /\ pc = "close" => toDev[i].type = "END"
    /\ Landed(off)
    /\ pc = "open" /\ toHost # <<>> => InSync(0)
    /\ pc = "body" /\ toHost = <<>> => InSync(off)
    /\ pc = "body" /\ toHost # <<>> =>
         /\ toHost[1].type = "ACK" => InSync(off + BlockLen) /\ Landed(off + BlockLen)
         /\ ~faults => toHost[1].type = "ACK"
    /\ pc \in {"close", "idle"} /\ ~faults /\ ~torn => off = cmd.len

\* A dump: the reply under way is a whole block, unless the device failed.
ReadInv ==
  tolerated = 0 /\ pc # "exit" /\ cmd.op \in Dumps =>
    /\ off <= cmd.len
    /\ pc = "body" => \A i \in 1 .. Len(toDev) : toDev[i].len = BlockLen
    /\ pc = "body" /\ Fits /\ ~faults => \A i \in 1 .. Len(toHost) :
         toHost[i].type = "READ" /\ Len(toHost[i].data) = BlockLen
    /\ pc \in {"close", "idle"} /\ Fits /\ ~faults /\ ~torn => off = cmd.len

\* The numbers that halving gets from TopProbe down to 1.
Halvings ==
  CHOOSE S \in SUBSET (1 .. TopProbe) :
    TopProbe \in S /\ \A q \in S : q = 1 \/ (q % 2 = 0 /\ q \div 2 \in S)

\* The size that the search is after is above off - Unit and not above the
\* largest it can still reach.
Bracket ==
  /\ off % Unit = 0
  /\ off = 0 \/ off - Unit < flashSize
  /\ IF probe = 0 THEN flashSize <= off
     ELSE probe \in Halvings /\ flashSize <= off + Unit * (2 * probe - 1)

\* A size search: what is under way, and what is known of the size.
ProbeInv ==
  tolerated = 0 /\ pc # "exit" /\ cmd.op = "psize" =>
    /\ pc = "open" => off = 0 /\ probe = TopProbe
    /\ pc = "body" /\ wait => probe # 0
    /\ pc = "body" => \A i \in 1 .. Len(toDev) :
         toDev[i].type = "RMIDST" /\ toDev[i].at = ProbeAt /\ toDev[i].len = 1
    /\ pc = "body" /\ ~faults => \A i \in 1 .. Len(toHost) :
         toHost[i].type = "READ" <=> ProbeAt + 1 <= flashSize
    /\ pc \in {"close", "idle"} => probe = 0
    /\ flashSize <= Unit * (2 * TopProbe - 1) /\ ~faults /\ ~torn => Bracket

TransferInv == DumpInv /\ WriteInv /\ ReadInv /\ ProbeInv

-----------------------------------------------------------------------------
(* Steps without a tolerated timeout: one message at most is under way.    *)

\* A step into a running state comes from one.
LEMMA RunningBefore ==
  ASSUME PipeInv, [Next]_vars, tolerated' = 0, pc' # "exit"
  PROVE  tolerated = 0 /\ pc # "exit" /\ (cmd' = cmd \/ BeginCommand)
<1>1. tolerated = 0 /\ (cmd' = cmd \/ BeginCommand)
  BY StepFacts DEF PipeInv
<1>2. ASSUME pc = "exit" PROVE FALSE
  <2>1. Device \/ UNCHANGED coreVars
    BY <1>2, QuietSteps DEF Next, Host, BeginCommand, Finish, SendOpen, SendBody, SendClose, LeaveBody,
                CheckReply, QueryReply, ReadReply, LoadReply, ProbeReply, HostError
  <2>2. pc' = pc
    BY <2>1 DEF Device, DevStart, DevMidst, DevEnd, DevRead, DevReadPart, DevErase, DevOther, Answer,
                hostVars, coreVars
  <2> QED BY <1>2, <2>2
<1> QED BY <1>1, <1>2

\* A request is sent into empty pipes.
LEMMA SendStep ==
  ASSUME PipeInv, tolerated = 0, pc # "exit", NEW m, NEW data, SendMsg(m, data)
  PROVE  /\ toDev = <<>> /\ toHost = <<>> /\ toHost' = <<>>
         /\ Len(toDev') = 1
         /\ toDev'[1].type = m.type /\ toDev'[1].at = m.at /\ toDev'[1].len = m.len
         /\ toDev'[1].data = data
         /\ UNCHANGED <<cmd, pc, off, probe, tolerated, torn, flashSize, flash, dl, faults>>
<1>1. toDev = <<>> /\ toHost = <<>>
  BY PipesWithoutTimeout DEF SendMsg
<1> DEFINE e == [id |-> nsent + 1, type |-> m.type, at |-> m.at, len |-> m.len, data |-> data]
<1>2. toDev' = Append(<<>>, e) /\ toHost' = <<>>
  BY <1>1 DEF SendMsg
<1>3. e.type = m.type /\ e.at = m.at /\ e.len = m.len /\ e.data = data
  OBVIOUS
<1> HIDE DEF e
<1>4. toDev' = <<e>>
  BY <1>2
<1>5. Len(toDev') = 1 /\ toDev'[1] = e
  BY <1>4
<1> QED BY <1>1, <1>2, <1>3, <1>5 DEF SendMsg, devVars

\* The device takes the only request there is.
LEMMA DeviceStep ==
  ASSUME PipeInv, tolerated = 0, pc # "exit", Device
  PROVE  /\ wait /\ toHost = <<>> /\ Len(toDev) = 1 /\ Head(toDev) = toDev[1]
         /\ toDev' = <<>>
         /\ UNCHANGED <<cmd, pc, off, probe, tolerated, torn, flashSize>>
<1>1. toDev # <<>> /\ toDev' = Tail(toDev) /\ UNCHANGED hostVars /\ UNCHANGED flashSize
  BY DEF Device, DevStart, DevMidst, DevEnd, DevRead, DevReadPart, DevErase, DevOther, Arrived, Answer, devVars
<1>2. toDev \in Seq(Request) /\ toHost \in Seq(Reply)
  BY DEF PipeInv, TypeOK
<1>3. Len(toDev) \in Nat /\ Len(toHost) \in Nat /\ Len(toDev) # 0
  BY <1>1, <1>2
<1>4. wait
  BY <1>1, PipesWithoutTimeout DEF PipeInv, TypeOK
<1>5. Len(toDev) + Len(toHost) = 1
  BY <1>4, PipesWithoutTimeout
<1>6. Len(toDev) = 1 /\ Len(toHost) = 0
  <2>1. \A x, y \in Nat : x # 0 /\ x + y = 1 => x = 1 /\ y = 0
    OBVIOUS
  <2> QED BY <1>3, <1>5, <2>1
<1>7. toHost = <<>> /\ Head(toDev) = toDev[1]
  BY <1>1, <1>2, <1>6, SeqIndexFacts
<1>8. toDev' = <<>>
  <2>1. Tail(toDev) \in Seq(Request) /\ Len(Tail(toDev)) = 0
    BY <1>1, <1>2, <1>6, SeqFacts, SeqIndexFacts
  <2> QED BY <1>1, <2>1, SeqIndexFacts
<1> QED BY <1>1, <1>4, <1>6, <1>7, <1>8 DEF hostVars

\* Its answer is alone in the other pipe.
LEMMA AnswerAlone ==
  ASSUME toHost = <<>>, NEW type, NEW data, Answer(type, data)
  PROVE  /\ Len(toHost') = 1 /\ toHost' # <<>>
         /\ toHost'[1].type = type /\ toHost'[1].data = data
<1> DEFINE e == [id |-> Head(toDev).id, type |-> type, data |-> data]
<1>1. toHost' = Append(<<>>, e)
  BY DEF Answer
<1>2. e.type = type /\ e.data = data
  OBVIOUS
<1> HIDE DEF e
<1>3. toHost' = <<e>>
  BY <1>1
<1>4. Len(toHost') = 1 /\ toHost'[1] = e /\ toHost' # <<>>
  BY <1>3
<1> QED BY <1>2, <1>4

\* What the host takes, unless its timeout expires before an answer is there, is
\* the only reply there is, or the reply is torn.
LEMMA ReplyStep ==
  ASSUME PipeInv, tolerated = 0, pc # "exit", NEW r \in Incoming, RecvMsg(r)
  PROVE  /\ UNCHANGED <<cmd, flashSize, flash, dl, faults>>
         /\ torn' = (torn \/ r.type = "torn")
         /\ r.type # "none" => /\ toHost # <<>> /\ Len(toHost) = 1 /\ toDev = <<>>
                               /\ toDev' = <<>> /\ toHost' = <<>>
                               /\ r = toHost[1] \/ r.type = "torn"
<1>1. wait /\ toDev' = toDev /\ (r.type # "none" => toHost' = Tail(toHost))
  BY DEF RecvMsg
<1>2. toDev \in Seq(Request) /\ toHost \in Seq(Reply)
  BY DEF PipeInv, TypeOK
<1>3. UNCHANGED <<cmd, flashSize, flash, dl, faults>> /\ torn' = (torn \/ r.type = "torn")
  BY DEF RecvMsg, devVars
<1>4. toHost = <<>> => r.type = "none"
  BY DEF Incoming, NoReply
<1>5. ASSUME r.type # "none"
      PROVE  /\ toHost # <<>> /\ Len(toHost) = 1 /\ toDev = <<>>
             /\ toDev' = <<>> /\ toHost' = <<>>
             /\ r = toHost[1] \/ r.type = "torn"
  <2>0. toHost # <<>>
    BY <1>4, <1>5
  <2>1. Len(toDev) \in Nat /\ Len(toHost) \in Nat /\ Len(toHost) # 0
    BY <1>2, <2>0
  <2>2. Len(toDev) + Len(toHost) = 1
    BY <1>1, PipesWithoutTimeout
  <2>3. Len(toHost) = 1 /\ Len(toDev) = 0
    <3>1. \A x, y \in Nat : x # 0 /\ y + x = 1 => x = 1 /\ y = 0
      OBVIOUS
    <3> QED BY <2>1, <2>2, <3>1
  <2>4. toDev = <<>> /\ Head(toHost) = toHost[1]
    BY <1>2, <2>0, <2>3, SeqIndexFacts
  <2>5. Tail(toHost) \in Seq(Reply) /\ Len(Tail(toHost)) = 0
    BY <1>2, <2>0, <2>3, SeqFacts, SeqIndexFacts
  <2>6. toHost' = <<>>
    BY <1>1, <1>5, <2>5, SeqIndexFacts
  <2>7. r = toHost[1] \/ r.type = "torn"
    BY <1>5, <2>0, <2>4 DEF Incoming, TornReply, NoReply
  <2> QED BY <1>1, <2>0, <2>3, <2>4, <2>6, <2>7
<1> QED BY <1>3, <1>4, <1>5

\* Between commands nothing is under way.
LEMMA BeginStep ==
  ASSUME PipeInv, tolerated = 0, BeginCommand
  PROVE  /\ toDev' = <<>> /\ toHost' = <<>> /\ off' = 0 /\ probe' = TopProbe
         /\ pc' = IF cmd'.op = "read" THEN "body" ELSE "open"
         /\ UNCHANGED <<flashSize, flash, dl, faults, torn>>
<1>1. pc = "idle" /\ ~wait
  BY DEF BeginCommand, PipeInv, PipeCount
<1>2. toDev = <<>> /\ toHost = <<>>
  BY <1>1, PipesWithoutTimeout
<1> QED BY <1>2 DEF BeginCommand, devVars

-----------------------------------------------------------------------------
(* Downloads.                                                              *)

\* The numbers of the current command.
LEMMA CommandFacts ==
  ASSUME TypeOK
  PROVE  /\ cmd.at \in Nat /\ cmd.len \in Nat /\ cmd.val \in Nat /\ off \in Nat
         /\ flashSize \in Nat /\ flash \in [Cell -> Nat]
         /\ off <= cmd.len => /\ BlockLen \in Nat /\ off + BlockLen <= cmd.len
                              /\ off < cmd.len => BlockLen # 0
<1>1. /\ cmd.at \in Nat /\ cmd.len \in Nat /\ cmd.val \in Nat /\ off \in Nat
      /\ flashSize \in Nat /\ flash \in [Cell -> Nat]
  BY DEF TypeOK, Command
<1>2. Step \in Nat \ {0}
  BY SizesAssumption
<1> QED BY <1>1, <1>2 DEF BlockLen, Least

\* The opening request is answered.
LEMMA StartWriteInv ==
  ASSUME PipeInv, WriteInv, tolerated = 0, pc # "exit", cmd.op \in Downloads, pc = "open", Device
  PROVE  WriteInv'
<1>1. /\ toHost = <<>> /\ Len(toDev) = 1 /\ Head(toDev) = toDev[1] /\ toDev' = <<>>
      /\ UNCHANGED <<cmd, pc, off, probe, tolerated, torn, flashSize>>
  BY DeviceStep
<1>2. /\ off <= cmd.len /\ off = 0
      /\ toDev[1].type = "START" /\ toDev[1].at = cmd.at /\ toDev[1].len = cmd.len
  BY <1>1 DEF WriteInv
<1>3. DevStart
  BY <1>1, <1>2 DEF Device, DevMidst, DevEnd, DevRead, DevReadPart, DevErase, DevOther, Arrived
<1>4. dl'.at = cmd.at /\ dl'.size = cmd.len /\ dl'.recv = 0 /\ flash' = flash
  BY <1>1, <1>2, <1>3 DEF DevStart, Announced
<1>5. Landed(0)' /\ InSync(0)'
  BY <1>1, <1>4 DEF Landed, InSync
<1> QED BY <1>1, <1>2, <1>5 DEF WriteInv

\* A block arrives and is written, or refused.
LEMMA MidstWriteInv ==
  ASSUME PipeInv, WriteInv, tolerated = 0, pc # "exit", cmd.op \in Downloads, pc = "body", Device
  PROVE  WriteInv'
<1>1. /\ toHost = <<>> /\ Len(toDev) = 1 /\ Head(toDev) = toDev[1] /\ toDev' = <<>>
      /\ UNCHANGED <<cmd, pc, off, probe, tolerated, torn, flashSize>>
  BY DeviceStep
<1>2. /\ off <= cmd.len /\ toDev[1].type = "MIDST" /\ toDev[1].data = Payload
      /\ InSync(off) /\ Landed(off)
  BY <1>1 DEF WriteInv
<1>3. DevMidst
  BY <1>1, <1>2 DEF Device, DevStart, DevEnd, DevRead, DevReadPart, DevErase, DevOther, Arrived
<1>4. /\ cmd.at \in Nat /\ cmd.len \in Nat /\ cmd.val \in Nat /\ off \in Nat /\ flashSize \in Nat
      /\ BlockLen \in Nat /\ off + BlockLen <= cmd.len
  BY <1>2, CommandFacts DEF PipeInv
<1>5. Len(Payload) = BlockLen /\ \A k \in 1 .. BlockLen : Payload[k] = cmd.val + off + k - 1
  BY <1>4 DEF Payload
<1>6. BlockLen' = BlockLen
  BY <1>1 DEF BlockLen
<1>7. /\ dl.at = cmd.at /\ dl.size = cmd.len /\ dl.recv = off
      /\ dl \in [at : Nat, size : Nat, recv : Nat]
  BY <1>2 DEF InSync, PipeInv, TypeOK
<1>8. Len(toDev[1].data) <= dl.size - dl.recv
  BY <1>2, <1>4, <1>5, <1>7
<1> DEFINE Outcome(ok, n, blank) ==
             /\ dl' = [dl EXCEPT !.recv = @ + BlockLen]
             /\ flash' = Programmed(toDev[1], n, blank)
             /\ ok => n = BlockLen
             /\ ~ok => faults'
             /\ Answer(IF ok THEN "ACK" ELSE "ERR", <<>>)
<1>9. PICK ok \in BOOLEAN, n \in 0 .. BlockLen, blank \in SUBSET Int : Outcome(ok, n, blank)
  <2>1. /\ dl' = [dl EXCEPT !.recv = @ + BlockLen]
        /\ \/ flash' = Programmed(toDev[1], BlockLen, {}) /\ Answer("ACK", <<>>)
           \/ /\ \E k \in 0 .. BlockLen - 1, lo \in Cell, hi \in Cell :
                   flash' = Programmed(toDev[1], k, lo .. hi)
              /\ Answer("ERR", <<>>)
              /\ faults' = TRUE
    BY <1>1, <1>2, <1>3, <1>5, <1>8 DEF DevMidst
  <2>2. BlockLen \in 0 .. BlockLen /\ \A k \in 0 .. BlockLen - 1 : k \in 0 .. BlockLen
    BY <1>4
  <2>3. CASE flash' = Programmed(toDev[1], BlockLen, {}) /\ Answer("ACK", <<>>)
    <3>1. Outcome(TRUE, BlockLen, {})
      BY <2>1, <2>3
    <3>2. {} \in SUBSET Int
      OBVIOUS
    <3> HIDE DEF Outcome
    <3> QED BY <2>2, <3>1, <3>2
  <2>4. ASSUME NEW k \in 0 .. BlockLen - 1, NEW lo \in Cell, NEW hi \in Cell,
               flash' = Programmed(toDev[1], k, lo .. hi), Answer("ERR", <<>>), faults' = TRUE
        PROVE  \E ok \in BOOLEAN, n \in 0 .. BlockLen, blank \in SUBSET Int : Outcome(ok, n, blank)
    <3>1. Outcome(FALSE, k, lo .. hi)
      BY <2>1, <2>4
    <3>2. lo .. hi \in SUBSET Int
      BY DEF Cell
    <3> QED BY <2>2, <3>1, <3>2
  <2> QED BY <2>1, <2>3, <2>4
<1>10. /\ dl'.at = cmd.at /\ dl'.size = cmd.len /\ dl'.recv = off + BlockLen
  BY <1>7, <1>9
<1>11. /\ toHost' # <<>> /\ toHost'[1].type = IF ok THEN "ACK" ELSE "ERR"
  BY <1>1, <1>9, AnswerAlone
<1>12. \A c \in Cell :
         /\ ok /\ c \in cmd.at + off .. cmd.at + off + BlockLen - 1 =>
              flash'[c] = Payload[c - (cmd.at + off) + 1]
         /\ c \in cmd.at .. cmd.at + off - 1 => flash'[c] = flash[c]
  <2> SUFFICES ASSUME NEW c \in Cell
               PROVE  /\ ok /\ c \in cmd.at + off .. cmd.at + off + BlockLen - 1 =>
                           flash'[c] = Payload[c - (cmd.at + off) + 1]
                      /\ c \in cmd.at .. cmd.at + off - 1 => flash'[c] = flash[c]
    OBVIOUS
  <2>1. flash'[c] = IF c \in cmd.at + off .. cmd.at + off + n - 1 THEN Payload[c - (cmd.at + off) + 1]
                    ELSE IF c \in blank \ (cmd.at .. cmd.at + off - 1) THEN ErasedCell ELSE flash[c]
    BY <1>2, <1>7, <1>9 DEF Programmed, BlockAddr
  <2>2. c \in cmd.at .. cmd.at + off - 1 => c \notin cmd.at + off .. cmd.at + off + n - 1
    BY <1>4
  <2> QED BY <1>9, <2>1, <2>2
<1>13. ASSUME Fits, NEW k \in 0 .. off + BlockLen - 1, k < off \/ ok
       PROVE flash'[cmd.at + k] = cmd.val + k
  <2>1. cmd.at + k \in Cell
    BY <1>4, <1>13 DEF Fits, Cell
  <2>2. CASE k < off
    <3>1. flash[cmd.at + k] = cmd.val + k
      BY <1>2, <1>4, <1>13, <2>2 DEF Landed
    <3>2. cmd.at + k \in cmd.at .. cmd.at + off - 1
      BY <1>4, <2>2
    <3> QED BY <1>12, <2>1, <3>1, <3>2
  <2>3. CASE ~(k < off)
    <3>1. PICK c \in Cell : c = cmd.at + k
      BY <2>1
    <3>2. c \in cmd.at + off .. cmd.at + off + BlockLen - 1 /\ c - (cmd.at + off) + 1 = k - off + 1
      BY <1>4, <2>3, <3>1
    <3>3. k - off + 1 \in 1 .. BlockLen /\ cmd.val + off + (k - off + 1) - 1 = cmd.val + k
      BY <1>4, <2>3
    <3>4. Payload[k - off + 1] = cmd.val + k
      BY <1>5, <3>3
    <3>5. flash'[c] = Payload[c - (cmd.at + off) + 1]
      BY <1>13, <1>12, <2>3, <3>2
    <3> QED BY <3>1, <3>2, <3>4, <3>5
  <2> QED BY <2>2, <2>3
<1>14. Landed(off)' /\ (ok => Landed(off + BlockLen)')
  <2>1. /\ cmd' = cmd /\ off' = off /\ (off + BlockLen)' = off + BlockLen
        /\ flashSize' = flashSize
    BY <1>1, <1>6
  <2>2. ok => Landed(off + BlockLen)'
    BY <1>4, <1>13, <2>1 DEF Landed, Fits
  <2>3. \A k \in 0 .. off - 1 : k \in 0 .. off + BlockLen - 1 /\ k < off
    BY <1>4
  <2>4. Fits => \A k \in 0 .. off - 1 : flash'[cmd.at + k] = cmd.val + k
    BY <1>13, <2>3
  <2> QED BY <1>4, <2>1, <2>2, <2>4 DEF Landed, Fits
<1>15. InSync(off + BlockLen)'
  BY <1>1, <1>6, <1>10 DEF InSync
<1>16. ~faults' => ok
  BY <1>9
<1> QED BY <1>1, <1>2, <1>11, <1>14, <1>15, <1>16 DEF WriteInv

\* A reply to a request of a download is taken.
LEMMA ReplyWriteInv ==
  ASSUME PipeInv, WriteInv, tolerated = 0, tolerated' = 0, pc # "exit", pc' # "exit",
         cmd.op \in Downloads, CheckReply \/ LoadReply
  PROVE  WriteInv'
<1>1. PICK r \in Incoming :
        /\ RecvMsg(r)
        /\ r.type # "none"
        /\ \/ /\ pc = "open" /\ pc' = "body" /\ off' = off
           \/ /\ pc = "close" /\ pc' = "idle" /\ off' = off
           \/ /\ pc = "body" /\ pc' = "body" /\ r.type = "ACK" /\ off' = off + BlockLen
           \/ /\ pc = "body" /\ pc' = "close" /\ r.type # "ACK" /\ off' = off
  <2>1. CASE CheckReply
    <3>1. PICK r \in Incoming :
            RecvMsg(r) /\ Accepted(r) /\ AfterCheck
      BY <2>1 DEF CheckReply, ErrExit
    <3> QED BY <2>1, <3>1 DEF CheckReply, Accepted, AfterCheck, Downloads
  <2>2. CASE LoadReply
    <3>1. pc = "body" /\ cmd.op = "wpart" /\ AfterBody = "close"
      BY <2>2 DEF LoadReply, AfterBody
    <3>2. PICK r \in Incoming :
            /\ RecvMsg(r)
            /\ \/ r.type # "ACK" /\ pc' = AfterBody /\ Tolerate(r) /\ off' = off
               \/ r.type = "ACK" /\ off' = off + BlockLen /\ pc' = pc
      BY <2>2 DEF LoadReply, ErrExit
    <3>3. r.type # "none"
      BY <3>2 DEF Tolerate
    <3> QED BY <3>1, <3>2, <3>3
  <2> QED BY <2>1, <2>2
<1>2. /\ UNCHANGED <<cmd, flashSize, flash, dl, faults>> /\ torn' = (torn \/ r.type = "torn")
      /\ toHost # <<>> /\ Len(toHost) = 1 /\ toDev = <<>> /\ toDev' = <<>> /\ toHost' = <<>>
      /\ r = toHost[1] \/ r.type = "torn"
  BY <1>1, ReplyStep
<1>3. /\ cmd.at \in Nat /\ cmd.len \in Nat /\ cmd.val \in Nat /\ off \in Nat /\ flashSize \in Nat
  BY CommandFacts DEF PipeInv
<1>4. off <= cmd.len /\ Landed(off)
  BY DEF WriteInv
<1>5. off' = off => Landed(off)'
  BY <1>2, <1>3, <1>4 DEF Landed, Fits
<1>6. CASE pc = "open" /\ pc' = "body" /\ off' = off
  <2>1. off = 0 /\ InSync(0)
    BY <1>2, <1>6 DEF WriteInv
  <2>2. InSync(off)'
    BY <1>2, <1>6, <2>1 DEF InSync
  <2> QED BY <1>2, <1>4, <1>5, <1>6, <2>2 DEF WriteInv
<1>7. CASE pc = "close" /\ pc' = "idle" /\ off' = off
  <2>1. ~faults' /\ ~torn' => off' = cmd'.len
    BY <1>2, <1>7 DEF WriteInv
  <2> QED BY <1>2, <1>4, <1>5, <1>7, <2>1 DEF WriteInv
<1>8. CASE pc = "body" /\ pc' = "body" /\ r.type = "ACK" /\ off' = off + BlockLen
  <2>1. toHost[1].type = "ACK"
    BY <1>2, <1>8
  <2>2. InSync(off + BlockLen) /\ Landed(off + BlockLen) /\ off + BlockLen <= cmd.len
        /\ BlockLen \in Nat
    BY <1>2, <1>4, <1>8, <2>1, CommandFacts DEF WriteInv, PipeInv
  <2>3. InSync(off)'
    BY <1>2, <1>8, <2>2 DEF InSync
  <2>4. Landed(off)'
    BY <1>2, <1>3, <1>8, <2>2 DEF Landed, Fits
  <2> QED BY <1>2, <1>8, <2>2, <2>3, <2>4 DEF WriteInv
<1>9. CASE pc = "body" /\ pc' = "close" /\ r.type # "ACK" /\ off' = off
  <2>1. ~(~faults' /\ ~torn')
    <3>1. r.type = "torn" => torn' = TRUE
      BY <1>2
    <3>2. r = toHost[1] => faults'
      BY <1>2, <1>9 DEF WriteInv
    <3> QED BY <1>2, <3>1, <3>2
  <2> QED BY <1>2, <1>4, <1>5, <1>9, <2>1 DEF WriteInv
<1> QED BY <1>1, <1>6, <1>7, <1>8, <1>9

\* A request of a download is sent.
LEMMA SendWriteInv ==
  ASSUME PipeInv, WriteInv, tolerated = 0, pc # "exit", cmd.op \in Downloads,
         SendOpen \/ SendBody \/ SendClose
  PROVE  WriteInv'
<1>1. PICK m, data :
        /\ SendMsg(m, data)
        /\ pc = "open" => m.type = "START" /\ m.at = cmd.at /\ m.len = cmd.len
        /\ pc = "body" => m.type = "MIDST" /\ data = Payload
        /\ pc = "close" => m.type = "END"
        /\ pc # "idle"
  <2>1. CASE SendOpen
    <3>1. OpenRequest.type = "START" /\ OpenRequest.at = cmd.at /\ OpenRequest.len = cmd.len
      BY DEF OpenRequest, Downloads
    <3> QED BY <2>1, <3>1 DEF SendOpen
  <2>2. CASE SendBody
    <3>1. BodyRequest.type = "MIDST"
      BY DEF BodyRequest, Downloads
    <3> QED BY <2>2, <3>1 DEF SendBody
  <2>3. CASE SendClose
    <3>1. CloseRequest.type = "END"
      BY DEF CloseRequest
    <3> QED BY <2>3, <3>1 DEF SendClose
  <2> QED BY <2>1, <2>2, <2>3
<1>2. /\ toHost = <<>> /\ toHost' = <<>> /\ Len(toDev') = 1
      /\ toDev'[1].type = m.type /\ toDev'[1].at = m.at /\ toDev'[1].len = m.len
      /\ toDev'[1].data = data
      /\ UNCHANGED <<cmd, pc, off, probe, tolerated, torn, flashSize, flash, dl, faults>>
  BY <1>1, SendStep
<1>3. Payload' = Payload
  BY <1>2 DEF Payload, BlockLen
<1>4. \A i \in 1 .. Len(toDev') :
         /\ pc' = "open" => /\ toDev'[i].type = "START"
                            /\ toDev'[i].at = cmd'.at /\ toDev'[i].len = cmd'.len
         /\ pc' = "body" => toDev'[i].type = "MIDST" /\ toDev'[i].data = Payload'
         /\ pc' = "close" => toDev'[i].type = "END"
  <2> SUFFICES ASSUME NEW i \in 1 .. Len(toDev')
               PROVE  /\ pc' = "open" => /\ toDev'[i].type = "START"
                                         /\ toDev'[i].at = cmd'.at /\ toDev'[i].len = cmd'.len
                      /\ pc' = "body" => toDev'[i].type = "MIDST" /\ toDev'[i].data = Payload'
                      /\ pc' = "close" => toDev'[i].type = "END"
    OBVIOUS
  <2>1. i = 1
    BY <1>2
  <2> QED BY <1>1, <1>2, <1>3, <2>1
<1>5. /\ off <= cmd.len /\ Landed(off) /\ (pc = "open" => off = 0) /\ (pc = "body" => InSync(off))
      /\ pc = "close" /\ ~faults /\ ~torn => off = cmd.len
  BY <1>2 DEF WriteInv
<1>6. Landed(off)' /\ (pc = "body" => InSync(off)')
  <2>1. off \in Nat
    BY CommandFacts DEF PipeInv
  <2> QED BY <1>2, <1>5, <2>1 DEF Landed, Fits, InSync
<1> QED BY <1>1, <1>2, <1>4, <1>5, <1>6 DEF WriteInv

\* Every step keeps the invariant of a download.
LEMMA NextWriteInv ==
  ASSUME PipeInv, WriteInv, [Next]_vars
  PROVE  WriteInv'
<1> SUFFICES ASSUME tolerated' = 0, pc' # "exit", cmd'.op \in Downloads PROVE WriteInv'
  BY DEF WriteInv
<1>1. tolerated = 0 /\ pc # "exit" /\ (cmd' = cmd \/ BeginCommand)
  BY RunningBefore
<1>2. CASE BeginCommand
  <2>1. /\ toDev' = <<>> /\ toHost' = <<>> /\ off' = 0 /\ pc' = "open"
    BY <1>1, <1>2, BeginStep DEF Downloads
  <2>2. cmd'.len \in Nat
    BY <1>2, NextPipeInv DEF PipeInv, TypeOK, Command
  <2>3. Landed(off)'
    BY <2>1 DEF Landed
  <2> QED BY <2>1, <2>2, <2>3 DEF WriteInv
<1>3. CASE SendOpen \/ SendBody \/ SendClose
  <2>1. cmd.op \in Downloads
    BY <1>3 DEF SendOpen, SendBody, SendClose, SendMsg
  <2> QED BY <1>1, <1>3, <2>1, SendWriteInv
<1>4. CASE CheckReply \/ LoadReply
  <2>1. cmd.op \in Downloads
    BY <1>4 DEF CheckReply, LoadReply, RecvMsg
  <2> QED BY <1>1, <1>4, <2>1, ReplyWriteInv
<1>5. CASE QueryReply \/ ReadReply \/ ProbeReply
  BY <1>5 DEF QueryReply, ReadReply, ProbeReply, RecvMsg, Downloads, Dumps
<1>6. CASE Device
  <2>1. cmd' = cmd /\ pc' = pc
    BY <1>1, <1>6, DeviceStep
  <2>2. CASE pc \in {"close", "idle"}
    <3>1. /\ toHost = <<>> /\ Len(toDev) = 1 /\ Head(toDev) = toDev[1] /\ toDev' = <<>>
          /\ UNCHANGED <<cmd, pc, off, probe, tolerated, torn, flashSize>> /\ wait
      BY <1>1, <1>6, DeviceStep
    <3>2. pc = "close"
      BY <2>2, <3>1 DEF PipeInv, PipeCount
    <3>3. toDev[1].type = "END" /\ off <= cmd.len /\ Landed(off)
          /\ (~faults /\ ~torn => off = cmd.len)
      BY <1>1, <2>1, <3>1, <3>2 DEF WriteInv
    <3>4. DevEnd
      BY <1>6, <3>1, <3>3 DEF Device, DevStart, DevMidst, DevRead, DevReadPart, DevErase, DevOther, Arrived
    <3>5. UNCHANGED <<flash, faults>>
      BY <3>4 DEF DevEnd, devVars
    <3>6. Landed(off)'
      <4>1. off \in Nat
        BY CommandFacts DEF PipeInv
      <4> QED BY <3>1, <3>3, <3>5, <4>1 DEF Landed, Fits
    <3> QED BY <3>1, <3>2, <3>3, <3>5, <3>6 DEF WriteInv
  <2>3. pc \in {"open", "body", "close", "idle"}
    BY <1>1 DEF PipeInv, TypeOK
  <2> QED BY <1>1, <1>6, <2>1, <2>2, <2>3, StartWriteInv, MidstWriteInv
<1>7. CASE LeaveBody
  <2>1. UNCHANGED <<cmd, off, torn, flashSize, flash, dl, faults, toDev, toHost>> /\ pc = "body"
        /\ ~wait /\ pc' \in {"idle", "close"} /\ BodyDone
    BY <1>7 DEF LeaveBody, AfterBody, devVars
  <2>2. toDev = <<>> /\ toHost = <<>>
    BY <1>1, <2>1, PipesWithoutTimeout
  <2>3. off <= cmd.len /\ Landed(off) /\ off >= cmd.len
    BY <1>1, <2>1 DEF WriteInv, BodyDone, Downloads
  <2>4. off \in Nat /\ cmd.len \in Nat
    BY CommandFacts DEF PipeInv
  <2>5. off = cmd.len
    BY <2>3, <2>4
  <2>6. Landed(off)'
    BY <2>1, <2>3, <2>4 DEF Landed, Fits
  <2> QED BY <2>1, <2>2, <2>3, <2>5, <2>6 DEF WriteInv
<1>8. CASE UNCHANGED coreVars
  BY <1>1, <1>8 DEF coreVars, hostVars, devVars, WriteInv, Landed, Fits, InSync, Payload, BlockLen
<1>9. ~Finish /\ ~HostError
  BY DEF Finish, HostError, ErrExit
<1> QED BY <1>2, <1>3, <1>4, <1>5, <1>6, <1>7, <1>8, <1>9, QuietSteps DEF Next, Host

-----------------------------------------------------------------------------
(* Dumps.                                                                  *)

\* The device reports a failure for good.
LEMMA FaultsStay ==
  ASSUME Device, ~faults'
  PROVE  ~faults
BY DEF Device, DevStart, DevMidst, DevEnd, DevRead, DevReadPart, DevErase, DevOther, devVars

\* The device answers the request for a block.
LEMMA BlockReadInv ==
  ASSUME DumpInv, ReadInv, tolerated = 0, pc # "exit", cmd.op \in Dumps, pc = "body", Device
  PROVE  ReadInv'
<1>1. /\ wait /\ toHost = <<>> /\ Len(toDev) = 1 /\ Head(toDev) = toDev[1] /\ toDev' = <<>>
      /\ UNCHANGED <<cmd, pc, off, probe, tolerated, torn, flashSize>>
  BY DeviceStep DEF DumpInv
<1>2. off <= cmd.len /\ toDev[1].len = BlockLen
  BY <1>1 DEF ReadInv
<1>3. toDev[1].type \in {"READ", "RMIDST"} /\ toDev[1].at = cmd.at + off
  BY <1>1 DEF DumpInv, ReadInFlight
<1>4. DevRead \/ DevReadPart
  BY <1>1, <1>3 DEF Device, DevStart, DevMidst, DevEnd, DevErase, DevOther, Arrived
<1>5. /\ cmd.at \in Nat /\ cmd.len \in Nat /\ off \in Nat /\ flashSize \in Nat
      /\ BlockLen \in Nat /\ off + BlockLen <= cmd.len /\ BlockLen' = BlockLen
  BY <1>1, <1>2, CommandFacts DEF DumpInv, PipeInv, BlockLen
<1>6. ASSUME Fits, ~faults' PROVE toHost'[1].type = "READ" /\ Len(toHost'[1].data) = BlockLen
  <2>1. toDev[1].at + toDev[1].len <= flashSize
    BY <1>2, <1>3, <1>5, <1>6 DEF Fits
  <2>2. ~(toDev[1].at + toDev[1].len > flashSize)
    BY <1>2, <1>3, <1>5, <2>1
  <2>3. Answer("READ", Cells(toDev[1].at, toDev[1].len))
    BY <1>1, <1>4, <1>6, <2>2 DEF DevRead, DevReadPart
  <2>4. toHost'[1].type = "READ" /\ toHost'[1].data = Cells(toDev[1].at, BlockLen)
    BY <1>1, <1>2, <2>3, AnswerAlone
  <2>5. Len(Cells(toDev[1].at, BlockLen)) = BlockLen
    BY <1>5 DEF Cells
  <2> QED BY <2>4, <2>5
<1>7. \A i \in 1 .. Len(toHost') : i = 1
  <2>1. \E type, data : Answer(type, data)
    BY <1>4 DEF DevRead, DevReadPart
  <2>2. Len(toHost') = 1
    BY <1>1, <2>1, AnswerAlone
  <2> QED BY <2>2
<1>8. Fits' = Fits
  BY <1>1 DEF Fits
<1> QED BY <1>1, <1>2, <1>5, <1>6, <1>7, <1>8 DEF ReadInv

\* A reply to a request of a dump is taken.
LEMMA ReplyReadInv ==
  ASSUME PipeInv, ReadInv, tolerated = 0, tolerated' = 0, pc # "exit", pc' # "exit",
         cmd.op \in Dumps, CheckReply \/ ReadReply
  PROVE  ReadInv'
<1>0. /\ cmd.len \in Nat /\ off \in Nat /\ off <= cmd.len
      /\ BlockLen \in Nat /\ off + BlockLen <= cmd.len
  BY CommandFacts DEF PipeInv, ReadInv
<1>1. PICK r \in Incoming :
        /\ RecvMsg(r)
        /\ r.type # "none"
        /\ \/ /\ pc = "open" /\ pc' = "body" /\ off' = off
           \/ /\ pc = "close" /\ pc' = "idle" /\ off' = off
           \/ /\ pc = "body" /\ r.type = "READ"
              /\ Len(r.data) <= BlockLen /\ off' = off + Len(r.data)
              /\ pc' = "body" \/ Len(r.data) # BlockLen
           \/ /\ pc = "body" /\ r.type # "READ" /\ off' = off
  <2>1. CASE CheckReply
    <3>1. PICK r \in Incoming :
            RecvMsg(r) /\ Accepted(r) /\ AfterCheck
      BY <2>1 DEF CheckReply, ErrExit
    <3> QED BY <2>1, <3>1 DEF CheckReply, Accepted, AfterCheck, Dumps
  <2>2. CASE ReadReply
    <3>1. pc = "body"
      BY <2>2 DEF ReadReply
    <3>2. PICK r \in Incoming :
            /\ RecvMsg(r)
            /\ \/ r.type # "READ" /\ Tolerate(r) /\ off' = off
               \/ /\ r.type = "READ" /\ LengthOK(r) /\ off' = off + Advance(r)
                  /\ pc' = IF Len(r.data) = BlockLen THEN "body" ELSE AfterBody
      BY <2>2 DEF ReadReply, ErrExit
    <3>3. r.type # "none"
      BY <3>2 DEF Tolerate
    <3>4. LengthOK(r) => Len(r.data) <= BlockLen
      BY <1>0 DEF LengthOK
    <3> QED BY <3>1, <3>2, <3>3, <3>4 DEF Advance
  <2> QED BY <2>1, <2>2
<1>2. /\ UNCHANGED <<cmd, flashSize, flash, dl, faults>> /\ torn' = (torn \/ r.type = "torn")
      /\ toHost # <<>> /\ Len(toHost) = 1 /\ toDev = <<>> /\ toDev' = <<>> /\ toHost' = <<>>
      /\ r = toHost[1] \/ r.type = "torn"
  BY <1>1, ReplyStep
<1>3. Fits' = Fits
  BY <1>2 DEF Fits
<1>4. CASE pc = "open" /\ pc' = "body" /\ off' = off
  BY <1>0, <1>2, <1>4 DEF ReadInv
<1>5. CASE pc = "close" /\ pc' = "idle" /\ off' = off
  <2>1. Fits' /\ ~faults' /\ ~torn' => off' = cmd'.len
    BY <1>2, <1>3, <1>5 DEF ReadInv
  <2> QED BY <1>0, <1>2, <1>5, <2>1 DEF ReadInv
<1>6. CASE /\ pc = "body" /\ r.type = "READ"
           /\ Len(r.data) <= BlockLen /\ off' = off + Len(r.data)
           /\ pc' = "body" \/ Len(r.data) # BlockLen
  <2>1. r = toHost[1]
    BY <1>2, <1>6
  <2>2. Len(r.data) \in Nat
    <3>1. toHost[1] \in Reply
      BY <1>2 DEF PipeInv, TypeOK
    <3>2. r.data \in Seq(Nat)
      BY <2>1, <3>1 DEF Reply
    <3> QED BY <3>2
  <2>3. off' <= cmd.len
    BY <1>0, <1>6, <2>2
  <2>4. Fits /\ ~faults => Len(r.data) = BlockLen
    BY <1>2, <1>6, <2>1 DEF ReadInv
  <2> QED BY <1>2, <1>3, <1>6, <2>3, <2>4 DEF ReadInv
<1>7. CASE pc = "body" /\ r.type # "READ" /\ off' = off
  <2>1. r.type = "torn" => torn' = TRUE
    BY <1>2
  <2>2. r = toHost[1] => ~(Fits /\ ~faults)
    BY <1>2, <1>7 DEF ReadInv
  <2> QED BY <1>0, <1>2, <1>3, <1>7, <2>1, <2>2 DEF ReadInv
<1> QED BY <1>1, <1>4, <1>5, <1>6, <1>7

\* Every step keeps the invariant of a dump.
LEMMA NextReadInv ==
  ASSUME DumpInv, ReadInv, [Next]_vars
  PROVE  ReadInv'
<1> SUFFICES ASSUME tolerated' = 0, pc' # "exit", cmd'.op \in Dumps PROVE ReadInv'
  BY DEF ReadInv
<1>0. PipeInv
  BY DEF DumpInv
<1>1. tolerated = 0 /\ pc # "exit" /\ (cmd' = cmd \/ BeginCommand)
  BY <1>0, RunningBefore
<1>2. CASE BeginCommand
  <2>1. toDev' = <<>> /\ toHost' = <<>> /\ off' = 0 /\ pc' \in {"open", "body"}
    BY <1>0, <1>1, <1>2, BeginStep
  <2>2. cmd'.len \in Nat
    BY <1>0, <1>2, NextPipeInv DEF PipeInv, TypeOK, Command
  <2> QED BY <2>1, <2>2 DEF ReadInv
<1>3. CASE SendOpen \/ SendBody \/ SendClose
  <2>1. PICK m, data : SendMsg(m, data) /\ (pc = "body" => m = BodyRequest) /\ pc # "idle"
    BY <1>3 DEF SendOpen, SendBody, SendClose
  <2>2. /\ toHost' = <<>> /\ Len(toDev') = 1 /\ toDev'[1].len = m.len
        /\ UNCHANGED <<cmd, pc, off, probe, tolerated, torn, flashSize, flash, dl, faults>>
    BY <1>0, <1>1, <2>1, SendStep
  <2>3. pc = "body" => m.len = BlockLen
    BY <2>1, <2>2 DEF BodyRequest, Dumps
  <2>4. BlockLen' = BlockLen /\ Fits' = Fits
    BY <2>2 DEF BlockLen, Fits
  <2>5. \A i \in 1 .. Len(toDev') : i = 1
    BY <2>2
  <2> QED BY <1>1, <2>2, <2>3, <2>4, <2>5 DEF ReadInv
<1>4. CASE CheckReply \/ ReadReply
  <2>1. cmd.op \in Dumps
    BY <1>4 DEF CheckReply, ReadReply, RecvMsg
  <2> QED BY <1>0, <1>1, <1>4, <2>1, ReplyReadInv
<1>5. CASE QueryReply \/ LoadReply \/ ProbeReply
  BY <1>5 DEF QueryReply, LoadReply, ProbeReply, RecvMsg, Dumps
<1>6. CASE Device
  <2>1. UNCHANGED <<cmd, pc, off, torn, flashSize>>
    BY <1>0, <1>1, <1>6, DeviceStep
  <2>2. CASE pc # "body"
    BY <1>1, <1>6, <2>1, <2>2, FaultsStay DEF ReadInv, Fits
  <2> QED BY <1>1, <1>6, <2>1, <2>2, BlockReadInv
<1>7. CASE LeaveBody
  <2>1. UNCHANGED <<cmd, off, toDev, toHost>> /\ pc = "body" /\ pc' # "body" /\ BodyDone
    BY <1>7 DEF LeaveBody, AfterBody
  <2>2. off <= cmd.len /\ off >= cmd.len
    BY <1>1, <2>1 DEF ReadInv, BodyDone, Dumps
  <2>3. off = cmd.len
    BY <1>0, <2>2, CommandFacts DEF PipeInv
  <2> QED BY <2>1, <2>2, <2>3 DEF ReadInv
<1>8. CASE UNCHANGED coreVars
  BY <1>1, <1>8 DEF coreVars, hostVars, devVars, ReadInv, Fits, BlockLen
<1>9. ~Finish /\ ~HostError
  BY DEF Finish, HostError, ErrExit
<1> QED BY <1>2, <1>3, <1>4, <1>5, <1>6, <1>7, <1>8, <1>9, QuietSteps DEF Next, Host

-----------------------------------------------------------------------------
(* The size search.                                                        *)

\* A multiple of b plus a multiple of b.
LEMMA MultipleSum ==
  ASSUME NEW b \in Nat \ {0}, NEW a \in Nat, NEW q \in Nat, a % b = 0
  PROVE  (a + b * q) % b = 0
<1>1. \A n \in Nat : n \div b \in Nat /\ n % b = n - b * (n \div b)
  OBVIOUS
<1>2. PICK p \in Nat : a = b * p
  <2>1. a \div b \in Nat /\ a = b * (a \div b)
    BY <1>1
  <2> QED BY <2>1
<1>3. p + q \in Nat /\ a + b * q = b * (p + q)
  BY <1>2
<1>4. \A k \in Nat : (b * k) % b = 0
  OBVIOUS
<1> QED BY <1>3, <1>4

\* Halving stays among the halvings until it ends at 1.
LEMMA HalvingFacts ==
  /\ TopProbe \in Halvings
  /\ \A q \in Halvings : /\ q \in Nat \ {0}
                         /\ \/ q = 1 /\ q \div 2 = 0
                            \/ q \div 2 \in Halvings /\ q \div 2 # 0 /\ 2 * (q \div 2) = q
<1> DEFINE Closed(S) == TopProbe \in S /\ \A q \in S : q = 1 \/ (q % 2 = 0 /\ q \div 2 \in S)
<1>1. \E S \in SUBSET (1 .. TopProbe) : Closed(S)
  BY ProbeAssumption
<1>2. Halvings = CHOOSE S \in SUBSET (1 .. TopProbe) : Closed(S)
  BY DEF Halvings
<1> HIDE DEF Closed
<1>3. Halvings \in SUBSET (1 .. TopProbe) /\ Closed(Halvings)
  BY <1>1, <1>2
<1>4. TopProbe \in Nat
  BY SizesAssumption
<1>5. \A q \in Halvings : q \in Nat \ {0}
  BY <1>3, <1>4
<1>6. TopProbe \in Halvings /\ \A q \in Halvings : q = 1 \/ (q % 2 = 0 /\ q \div 2 \in Halvings)
  BY <1>3 DEF Closed
<1>7. ASSUME NEW q \in Halvings
      PROVE  \/ q = 1 /\ q \div 2 = 0
             \/ q \div 2 \in Halvings /\ q \div 2 # 0 /\ 2 * (q \div 2) = q
  <2>1. q \in Nat \ {0}
    BY <1>5
  <2>2. CASE q = 1
    BY <2>2
  <2>3. CASE q % 2 = 0 /\ q \div 2 \in Halvings
    <3>1. q \div 2 # 0
      BY <1>5, <2>3
    <3>2. 2 * (q \div 2) = q
      BY <2>1, <2>3
    <3> QED BY <2>3, <3>1, <3>2
  <2> QED BY <1>6, <2>2, <2>3
<1> QED BY <1>5, <1>6, <1>7

\* One step of the search: data at ProbeAt means that the size reaches past it.
LEMMA BracketStep ==
  ASSUME TypeOK, Bracket, probe # 0, flashSize' = flashSize,
         off' = IF ProbeAt + 1 <= flashSize THEN ProbeAt + Unit ELSE off,
         probe' = probe \div 2
  PROVE  Bracket'
<1> DEFINE h == probe \div 2
           A == Unit * probe
<1>1. /\ off \in Nat /\ flashSize \in Nat /\ Unit \in Nat \ {0} /\ probe \in Nat \ {0}
      /\ probe \in Halvings /\ flashSize <= off + Unit * (2 * probe - 1)
      /\ off % Unit = 0 /\ (off = 0 \/ off - Unit < flashSize)
  BY SizesAssumption DEF Bracket, TypeOK
<1>2. A \in Nat /\ ProbeAt = off + A - Unit /\ Unit * (2 * probe - 1) = 2 * A - Unit
      /\ h \in Nat
  BY <1>1 DEF ProbeAt
<1>3. \/ probe = 1 /\ h = 0 /\ A = Unit
      \/ h \in Halvings /\ h # 0 /\ Unit * (2 * h - 1) = A - Unit
  <2>1. CASE probe = 1 /\ h = 0
    BY <1>1, <2>1
  <2>2. CASE h \in Halvings /\ h # 0 /\ 2 * h = probe
    <3>1. Unit * (probe - 1) = A - Unit
      BY <1>1
    <3> QED BY <2>2, <3>1
  <2> QED BY <1>1, <2>1, <2>2, HalvingFacts
<1>4. (off + A) % Unit = 0
  BY <1>1, MultipleSum
<1> HIDE DEF A
<1>5. CASE ProbeAt + 1 <= flashSize
  <2>1. off' = off + A
    BY <1>1, <1>2, <1>5
  <2>2. off + A - Unit < flashSize
    BY <1>1, <1>2, <1>5
  <2>3. probe' = 0 => flashSize <= off + A
    BY <1>1, <1>2, <1>3
  <2>4. probe' # 0 => h \in Halvings /\ flashSize <= off + A + Unit * (2 * h - 1)
    <3>1. ASSUME h # 0 PROVE h \in Halvings /\ flashSize <= off + A + Unit * (2 * h - 1)
      <4>1. h \in Halvings /\ Unit * (2 * h - 1) = A - Unit
        BY <1>3, <3>1
      <4> QED BY <1>1, <1>2, <4>1
    <3> QED BY <3>1
  <2>5. off' % Unit = 0 /\ off' - Unit < flashSize'
    <3>1. off' % Unit = 0
      BY <1>4, <2>1, Zenon
    <3>2. off' - Unit < flashSize'
      BY <1>1, <1>2, <2>1, <2>2
    <3> QED BY <3>1, <3>2
  <2>6. IF probe' = 0 THEN flashSize' <= off'
        ELSE probe' \in Halvings /\ flashSize' <= off' + Unit * (2 * probe' - 1)
    BY <1>1, <1>2, <2>1, <2>3, <2>4
  <2> QED BY <2>5, <2>6 DEF Bracket
<1>6. CASE ~(ProbeAt + 1 <= flashSize)
  <2>1. off' = off /\ flashSize <= off + A - Unit
    BY <1>1, <1>2, <1>6
  <2>2. probe' = 0 => flashSize <= off
    BY <1>1, <1>2, <1>3, <2>1
  <2>3. probe' # 0 => h \in Halvings /\ flashSize <= off + Unit * (2 * h - 1)
    <3>1. ASSUME h # 0 PROVE h \in Halvings /\ flashSize <= off + Unit * (2 * h - 1)
      <4>1. h \in Halvings /\ Unit * (2 * h - 1) = A - Unit
        BY <1>3, <3>1
      <4> QED BY <1>1, <1>2, <2>1, <4>1
    <3> QED BY <3>1
  <2> QED BY <1>1, <2>1, <2>2, <2>3 DEF Bracket
<1> QED BY <1>5, <1>6

\* The device answers the request at ProbeAt.
LEMMA ProbeAnswered ==
  ASSUME PipeInv, ProbeInv, tolerated = 0, pc # "exit", cmd.op = "psize", pc = "body", Device
  PROVE  ProbeInv'
<1>1. /\ wait /\ toHost = <<>> /\ Len(toDev) = 1 /\ Head(toDev) = toDev[1] /\ toDev' = <<>>
      /\ UNCHANGED <<cmd, pc, off, probe, tolerated, torn, flashSize>>
  BY DeviceStep
<1>2. toDev[1].type = "RMIDST" /\ toDev[1].at = ProbeAt /\ toDev[1].len = 1 /\ probe # 0
  BY <1>1 DEF ProbeInv
<1>3. DevReadPart
  BY <1>1, <1>2 DEF Device, DevStart, DevMidst, DevEnd, DevRead, DevErase, DevOther, Arrived
<1>4. ProbeAt' = ProbeAt /\ Bracket' = Bracket
  BY <1>1 DEF ProbeAt, Bracket
<1>5. Len(toHost') = 1 /\ (~faults' => (toHost'[1].type = "READ" <=> ProbeAt + 1 <= flashSize))
  <2>0. ProbeAt \in Int /\ flashSize \in Int
    <3>1. off \in Nat /\ Unit \in Nat /\ probe \in Nat /\ flashSize \in Nat
      BY SizesAssumption DEF PipeInv, TypeOK
    <3> QED BY <3>1 DEF ProbeAt
  <2>1. CASE ~(ProbeAt + 1 <= flashSize) /\ Answer("ERR", <<>>)
    <3>1. Len(toHost') = 1 /\ toHost'[1].type = "ERR"
      BY <1>1, <2>1, AnswerAlone
    <3> QED BY <2>1, <3>1
  <2>2. CASE ProbeAt + 1 <= flashSize /\ Answer("READ", Cells(ProbeAt, 1))
    <3>1. Len(toHost') = 1 /\ toHost'[1].type = "READ"
      BY <1>1, <2>2, AnswerAlone
    <3> QED BY <2>2, <3>1
  <2>3. CASE faults' /\ \E type, data : Answer(type, data)
    BY <1>1, <2>3, AnswerAlone
  <2>4. <2>1!1 \/ <2>2!1 \/ <2>3!1
    <3>1. ProbeAt + 1 > flashSize <=> ~(ProbeAt + 1 <= flashSize)
      BY <2>0
    <3> QED BY <1>1, <1>2, <1>3, <3>1 DEF DevReadPart
  <2> QED BY <2>1, <2>2, <2>3, <2>4
<1>6. \A i \in 1 .. Len(toHost') : i = 1
  BY <1>5
<1>7. ~faults' => ~faults
  BY FaultsStay
<1> QED BY <1>1, <1>2, <1>4, <1>5, <1>6, <1>7 DEF ProbeInv

\* A reply to a request of the search is taken.
LEMMA ReplyProbeInv ==
  ASSUME PipeInv, ProbeInv, tolerated = 0, tolerated' = 0, pc # "exit", pc' # "exit",
         cmd.op = "psize", CheckReply \/ ProbeReply
  PROVE  ProbeInv'
<1>1. CASE CheckReply
  <2>1. PICK r \in Incoming : RecvMsg(r) /\ r.type # "none"
    BY <1>1 DEF CheckReply, ErrExit, Accepted
  <2>2. \/ pc = "open" /\ pc' = "body" /\ off' = off /\ probe' = probe
        \/ pc = "close" /\ pc' = "idle" /\ off' = off /\ probe' = probe
    BY <1>1 DEF CheckReply, ErrExit, AfterCheck
  <2>3. /\ UNCHANGED <<cmd, flashSize, flash, dl, faults>> /\ torn' = (torn \/ r.type = "torn")
        /\ toDev' = <<>> /\ toHost' = <<>> /\ ~wait'
    BY <2>1, ReplyStep DEF RecvMsg
  <2>4. Bracket' = Bracket /\ (~torn' => ~torn)
    BY <2>2, <2>3 DEF Bracket
  <2> QED BY <2>2, <2>3, <2>4 DEF ProbeInv
<1>2. CASE ProbeReply
  <2>1. PICK r \in Incoming :
          /\ RecvMsg(r) /\ Tolerate(r)
          /\ off' = IF r.type = "READ" THEN ProbeAt + Unit ELSE off
          /\ probe' = probe \div 2
          /\ pc' = pc
    BY <1>2 DEF ProbeReply
  <2>2. pc = "body" /\ r.type # "none" /\ wait /\ ~wait'
    BY <1>2, <2>1 DEF ProbeReply, Tolerate, RecvMsg
  <2>3. /\ UNCHANGED <<cmd, flashSize, flash, dl, faults>> /\ torn' = (torn \/ r.type = "torn")
        /\ toHost # <<>> /\ Len(toHost) = 1 /\ toDev' = <<>> /\ toHost' = <<>>
        /\ r = toHost[1] \/ r.type = "torn"
    BY <2>1, <2>2, ReplyStep
  <2>4. ASSUME flashSize <= Unit * (2 * TopProbe - 1), ~faults, ~torn' PROVE Bracket'
    <3>1. r = toHost[1] /\ ~torn
      BY <2>3, <2>4
    <3>2. r.type = "READ" <=> ProbeAt + 1 <= flashSize
      BY <2>2, <2>3, <2>4, <3>1 DEF ProbeInv
    <3>3. Bracket /\ probe # 0
      BY <2>2, <2>4, <3>1 DEF ProbeInv
    <3>4. off' = IF ProbeAt + 1 <= flashSize THEN ProbeAt + Unit ELSE off
      BY <2>1, <3>2
    <3> QED BY <2>1, <2>3, <3>3, <3>4, BracketStep DEF PipeInv
  <2> QED BY <2>1, <2>2, <2>3, <2>4 DEF ProbeInv
<1> QED BY <1>1, <1>2

\* Every step keeps the invariant of the search.
LEMMA NextProbeInv ==
  ASSUME PipeInv, ProbeInv, [Next]_vars
  PROVE  ProbeInv'
<1> SUFFICES ASSUME tolerated' = 0, pc' # "exit", cmd'.op = "psize" PROVE ProbeInv'
  BY DEF ProbeInv
<1>1. tolerated = 0 /\ pc # "exit" /\ (cmd' = cmd \/ BeginCommand)
  BY RunningBefore
<1>2. CASE BeginCommand
  <2>1. toDev' = <<>> /\ toHost' = <<>> /\ off' = 0 /\ probe' = TopProbe /\ pc' = "open"
        /\ flashSize' = flashSize
    BY <1>1, <1>2, BeginStep
  <2>2. flashSize <= Unit * (2 * TopProbe - 1) => Bracket'
    <3>1. TopProbe \in Halvings /\ TopProbe # 0 /\ Unit \in Nat \ {0} /\ TopProbe \in Nat
      BY HalvingFacts, SizesAssumption
    <3>2. 0 % Unit = 0 /\ 0 + Unit * (2 * TopProbe - 1) = Unit * (2 * TopProbe - 1)
      BY <3>1
    <3> QED BY <2>1, <3>1, <3>2 DEF Bracket
  <2> QED BY <2>1, <2>2 DEF ProbeInv
<1>3. CASE SendOpen \/ SendBody \/ SendClose
  <2>1. PICK m, data :
          SendMsg(m, data) /\ (pc = "body" => m = BodyRequest /\ ~BodyDone) /\ pc # "idle"
    BY <1>3 DEF SendOpen, SendBody, SendClose
  <2>2. /\ toHost' = <<>> /\ Len(toDev') = 1
        /\ toDev'[1].type = m.type /\ toDev'[1].at = m.at /\ toDev'[1].len = m.len
        /\ UNCHANGED <<cmd, pc, off, probe, tolerated, torn, flashSize, flash, dl, faults>>
    BY <1>1, <2>1, SendStep
  <2>3. pc = "body" => m.type = "RMIDST" /\ m.at = ProbeAt /\ m.len = 1 /\ probe # 0
    BY <2>1, <2>2 DEF BodyRequest, BodyDone, Downloads
  <2>4. ProbeAt' = ProbeAt /\ Bracket' = Bracket
    BY <2>2 DEF ProbeAt, Bracket
  <2>5. \A i \in 1 .. Len(toDev') : i = 1
    BY <2>2
  <2> QED BY <1>1, <2>2, <2>3, <2>4, <2>5 DEF ProbeInv
<1>4. CASE CheckReply \/ ProbeReply
  <2>1. cmd.op = "psize"
    BY <1>4 DEF CheckReply, ProbeReply, RecvMsg
  <2> QED BY <1>1, <1>4, <2>1, ReplyProbeInv
<1>5. CASE QueryReply \/ LoadReply \/ ReadReply
  BY <1>5 DEF QueryReply, LoadReply, ReadReply, RecvMsg, Dumps
<1>6. CASE Device
  <2>1. UNCHANGED <<cmd, pc, off, probe, torn, flashSize>>
    BY <1>1, <1>6, DeviceStep
  <2>2. CASE pc # "body"
    <3>1. Bracket' = Bracket
      BY <2>1 DEF Bracket
    <3> QED BY <1>1, <1>6, <2>1, <2>2, <3>1, FaultsStay DEF ProbeInv
  <2> QED BY <1>1, <1>6, <2>1, <2>2, ProbeAnswered
<1>7. CASE LeaveBody
  <2>1. UNCHANGED <<cmd, off, probe, torn, flashSize, faults>> /\ pc = "body" /\ BodyDone
        /\ pc' \in {"close", "idle"}
    BY <1>7 DEF LeaveBody, AfterBody, devVars
  <2>2. probe = 0 /\ Bracket' = Bracket
    BY <2>1 DEF BodyDone, Bracket
  <2> QED BY <1>1, <2>1, <2>2 DEF ProbeInv
<1>8. CASE UNCHANGED coreVars
  BY <1>1, <1>8 DEF coreVars, hostVars, devVars, ProbeInv, Bracket, ProbeAt
<1>9. ~Finish /\ ~HostError
  BY DEF Finish, HostError, ErrExit
<1> QED BY <1>2, <1>3, <1>4, <1>5, <1>6, <1>7, <1>8, <1>9, QuietSteps DEF Next, Host

-----------------------------------------------------------------------------
(* The theorems.                                                           *)

LEMMA DumpInvariance == Spec => []DumpInv
<1>1. Init => DumpInv
  BY InitPipeInv DEF Init, DumpInv, WriteFree, ReadInFlight, DumpFaithful, NoCommand, Dumps
<1>2. DumpInv /\ [Next]_vars => DumpInv'
  BY NextPipeInv, NextWriteFree, NextReadInFlight, NextDumpFaithful DEF DumpInv
<1> QED BY <1>1, <1>2, PTL DEF Spec

\* The transfers' invariant holds in every reachable state.
LEMMA TransferInvariance == Spec => []TransferInv
<1>1. Init => WriteInv /\ ReadInv /\ ProbeInv
  BY DEF Init, NoCommand, WriteInv, ReadInv, ProbeInv, Dumps, Downloads
<1>2. DumpInv /\ WriteInv /\ ReadInv /\ ProbeInv /\ [Next]_vars => (WriteInv /\ ReadInv /\ ProbeInv)'
  BY NextWriteInv, NextReadInv, NextProbeInv DEF DumpInv
<1> QED BY <1>1, <1>2, DumpInvariance, PTL DEF Spec, TransferInv

\* As long as no timeout was tolerated, everything that send_buf and
\* load_partition count as written has landed in the device's memory, for every
\* script, block size and memory: a late or refused MIDST is never counted.
THEOREM WrittenLandedHolds == Spec => []WrittenLanded
<1>1. TransferInv => WrittenLanded
  BY DEF TransferInv, WriteInv, Landed, Fits, WrittenLanded
<1> QED BY <1>1, TransferInvariance, PTL

\* A dump or download from which the program goes on is complete, unless the
\* device refused or shortened an answer or an answer was missed: no loop of
\* read_flash, dump_partition, send_buf or load_partition leaves a block out.
THEOREM FinishedCompleteHolds == Spec => []FinishedComplete
<1>1. TransferInv => FinishedComplete
  BY DEF TransferInv, WriteInv, ReadInv, Fits, FinishedComplete
<1> QED BY <1>1, TransferInvariance, PTL

\* The binary search of find_partition_size returns the partition's size rounded
\* up to a whole MB, for every size below twice the first step.
THEOREM PartSizeExactHolds == Spec => []PartSizeExact
<1>1. TransferInv => PartSizeExact
  <2> SUFFICES ASSUME TransferInv, pc = "idle", cmd.op = "psize", ~faults, tolerated = 0, ~torn,
                      flashSize <= Unit * (2 * TopProbe - 1)
               PROVE  off - Unit < flashSize /\ flashSize <= off /\ off % Unit = 0
    BY DEF PartSizeExact
  <2>1. probe = 0 /\ Bracket
    BY DEF TransferInv, ProbeInv
  <2>2. flashSize \in Nat \ {0} /\ off \in Nat
    BY DEF TransferInv, DumpInv, PipeInv, TypeOK
  <2>3. flashSize <= off /\ off % Unit = 0 /\ (off = 0 \/ off - Unit < flashSize)
    BY <2>1 DEF Bracket
  <2> QED BY <2>2, <2>3
<1> QED BY <1>1, TransferInvariance, PTL
==============================================================================
