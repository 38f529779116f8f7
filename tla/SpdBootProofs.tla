--------------------------- MODULE SpdBootProofs ---------------------------
(***************************************************************************)
(* The boot handshake of spd_dump.c, for every command line, every chip    *)
(* and any number of repeated check bauds.                                 *)
(***************************************************************************)
EXTENDS SpdBoot, SequenceTheorems, TLAPS

Options == [endData : BOOLEAN, keepCharge : BOOLEAN, dist : BOOLEAN, fdls : 1 .. 2, efuse : BOOLEAN]

\* The steps that start FDL1 and that meet it: the first check baud with the sum.
ExecAt == Len(SendFile(opts)) + 3
BaudAt == ExecAt + 1

\* The request of step j, as Send composes it.
RequestOf(j) ==
  [cmd |-> Program(opts)[j], sum |-> IF j > ExecAt THEN "sum" ELSE "crc16", step |-> j]

Waiting(j) == \E i \in DOMAIN toDev : toDev[i].step = j

Commands ==
  {"baud1", "connect", "start", "midst", "end", "jump", "exec", "baud4", "charge", "exec2", "efuse"}
Types ==
  {"VER", "ACK", "LOG", "OPERATION_FAILED", "DOWN_SIZE_ERROR", "DOWN_EARLY_END", "INVALID_CMD",
   "UNKNOWN_CMD", "READ_FLASH", "VERIFY_ERROR", "INCOMPATIBLE_PARTITION"}

Requests == [cmd : Commands, sum : {"sum", "crc16"}, step : Nat]
Answers == [type : Types, step : Nat, id : {0, chip}, words : Nat]

TypeInv ==
  /\ opts \in Options /\ chip \in Chips
  /\ TypeOK
  /\ pc = "send" => tries < Tries
  /\ pc = "done" <=> k > Len(Program(opts))
  /\ known \in {0, chip}
  /\ toDev \in Seq(Requests) /\ toHost \in Seq(Answers)
  /\ down \in [size : {-1, 2}, recv : 0 .. 2]

\* The requests under way are those of the current step, of check bauds that were
\* given up, and of the exec that no one answers; each was sent once but for the
\* check bauds, and they are in the order of their steps.
RequestInv ==
  /\ \A i \in DOMAIN toDev :
       /\ toDev[i] = RequestOf(toDev[i].step)
       /\ toDev[i].step \in {ExecAt, BaudAt, k} /\ toDev[i].step <= k
  /\ \A i, j \in DOMAIN toDev :
       i < j => \/ toDev[i].step < toDev[j].step
                \/ toDev[i].step = BaudAt /\ toDev[j].step = BaudAt
  /\ pc \in {"send", "done"} => k = BaudAt \/ ~Waiting(k)

\* The answers under way are those of the current step, one at most but for a line of
\* log in front of it, and then its request is not under way any more.
AnswerInv ==
  /\ \A i \in DOMAIN toHost : toHost[i].step = k
  /\ Len(toHost) <= 2
  /\ Len(toHost) = 2 => toHost[1].type = "LOG"
  /\ toHost # <<>> =>
       /\ toHost[Len(toHost)].type # "LOG"
       /\ pc # "done" /\ stage # "start2"
       /\ k = BaudAt \/ (pc # "send" /\ ~Waiting(k))
       /\ k = BaudAt => stage = "fdl"

\* Where the device is, as seen from the host's step.
StageInv ==
  /\ stage = "rom" =>
       \/ k <= ExecAt
       \/ k = BaudAt /\ opts.dist /\ toDev # <<>> /\ toDev[1].step = ExecAt
  /\ stage # "rom" => k >= ExecAt /\ \A i \in DOMAIN toDev : toDev[i].step > ExecAt
  /\ k = ExecAt =>
       /\ opts.dist => pc = "send"
       /\ pc = "send" => stage = "rom"
       /\ toHost # <<>> => stage # "rom"
       /\ stage \in {"rom", "start1", "header"}
  /\ stage \in {"start1", "header"} => k <= BaudAt
  /\ k = BaudAt => stage \in {"rom", "start1", "header", "fdl"}

\* The second FDL: started once, and behind it only when it runs.
SecondInv ==
  /\ stage \in {"start2", "fdl2"} => opts.fdls = 2 /\ k >= Exec2
  /\ stage = "start2" => k = Exec2
  /\ stage \in {"start2", "fdl2"} => ~Waiting(Exec2) /\ (k = Exec2 => pc \in {"recv", "exit"})
  /\ opts.fdls = 2 /\ k > Exec2 => stage = "fdl2"
  /\ opts.fdls = 2 /\ k = Exec2 /\ toHost # <<>> =>
       \/ stage = "fdl2"
       \/ toHost = <<Head(toHost)>> /\ Head(toHost).type = "INVALID_CMD"
  /\ stage = "dead" =>
       /\ k > BaudAt /\ k <= Len(Program(opts)) /\ Step = "start" /\ pc \in {"recv", "exit"}
       /\ ~Waiting(k)
       /\ toHost # <<>> => Head(toHost).type = "OPERATION_FAILED"

\* A jump finds something to jump to.
DownInv == stage = "rom" /\ (k > 3 \/ (k = 3 /\ toHost # <<>>)) => down.size = 2

BootInv ==
  /\ TypeInv /\ RequestInv /\ AnswerInv /\ StageInv /\ SecondInv /\ DownInv
  /\ SumsAgree /\ AnswersMatch

-----------------------------------------------------------------------------
(* The program of the host.                                                *)

LEMMA Tuples ==
  ASSUME NEW S, NEW x \in S, NEW y \in S, NEW z \in S
  PROVE  /\ <<>> \in Seq(S) /\ Len(<<>>) = 0
         /\ <<x>> \in Seq(S) /\ Len(<<x>>) = 1 /\ <<x>>[1] = x
         /\ <<x, y>> \in Seq(S) /\ Len(<<x, y>>) = 2 /\ <<x, y>>[1] = x /\ <<x, y>>[2] = y
         /\ <<x, y, z>> \in Seq(S) /\ Len(<<x, y, z>>) = 3
         /\ <<x, y, z>>[1] = x /\ <<x, y, z>>[2] = y /\ <<x, y, z>>[3] = z
  OBVIOUS

LEMMA Joined ==
  ASSUME NEW S, NEW s \in Seq(S), NEW t \in Seq(S)
  PROVE  /\ s \o t \in Seq(S) /\ Len(s \o t) = Len(s) + Len(t)
         /\ \A j \in 1 .. Len(s) : (s \o t)[j] = s[j]
         /\ \A j \in Len(s) + 1 .. Len(s) + Len(t) : (s \o t)[j] = t[j - Len(s)]
  BY ConcatProperties

LEMMA SendFileFacts ==
  ASSUME NEW o \in Options
  PROVE  /\ SendFile(o) \in Seq(Commands)
         /\ Len(SendFile(o)) \in {3, 4}
         /\ SendFile(o)[1] = "start"
         /\ \A j \in 2 .. Len(SendFile(o)) : SendFile(o)[j] \in {"midst", "end"}
  <1> DEFINE a == <<"start", "midst", "midst">>
             b == IF o.endData THEN <<"end">> ELSE <<>>
  <1>1. a \in Seq(Commands) /\ Len(a) = 3 /\ a[1] = "start" /\ a[2] = "midst" /\ a[3] = "midst"
    BY DEF Commands
  <1>2. b \in Seq(Commands) /\ Len(b) \in {0, 1} /\ \A j \in 1 .. Len(b) : b[j] = "end"
    <2>1. CASE o.endData
      BY <2>1 DEF Commands
    <2>2. CASE ~o.endData
      BY <2>2 DEF Commands
    <2> QED BY <2>1, <2>2
  <1>3. SendFile(o) = a \o b
    BY DEF SendFile
  <1> HIDE DEF a, b
  <1>4. /\ a \o b \in Seq(Commands)
        /\ Len(a \o b) = Len(a) + Len(b)
        /\ \A j \in 1 .. Len(a) + Len(b) : (a \o b)[j] = IF j <= Len(a) THEN a[j] ELSE b[j - Len(a)]
    <2>1. a \in Seq(Commands) /\ b \in Seq(Commands)
      BY <1>1, <1>2
    <2> QED BY ONLY <2>1, ConcatProperties, ZenonT(30)
  <1>5. Len(a \o b) \in {3, 4} /\ (a \o b)[1] = "start"
    BY <1>1, <1>2, <1>4
  <1>6. \A j \in 2 .. Len(a \o b) : (a \o b)[j] \in {"midst", "end"}
    <2> TAKE j \in 2 .. Len(a \o b)
    <2>1. CASE j <= 3
      <3>1. j = 2 \/ j = 3
        BY <2>1
      <3> QED BY <3>1, <1>1, <1>2, <1>4
    <2>2. CASE ~(j <= 3)
      <3>1. j - 3 \in 1 .. Len(b) /\ (a \o b)[j] = b[j - 3]
        BY <2>2, <1>1, <1>2, <1>4, <1>5
      <3> QED BY <3>1, <1>2
    <2> QED BY <2>1, <2>2
  <1> QED BY <1>3, <1>4, <1>5, <1>6

\* The first fdl command: check baud, connect, the file, the exec, and FDL1 is met.
LEMMA FirstFdlFacts ==
  ASSUME NEW o \in Options
  PROVE  LET n == Len(SendFile(o))
             p == FirstFdl(o)
         IN /\ p \in Seq(Commands)
            /\ Len(p) \in {n + 5, n + 6}
            /\ p[1] = "baud1" /\ p[2] = "connect"
            /\ \A j \in 3 .. n + 2 : p[j] = SendFile(o)[j - 2]
            /\ p[n + 3] = IF o.dist THEN "jump" ELSE "exec"
            /\ p[n + 4] = "baud4"
            /\ \A j \in n + 5 .. Len(p) : p[j] \in {"connect", "charge"}
  <1> DEFINE n == Len(SendFile(o))
             a == <<"baud1", "connect">>
             s == SendFile(o)
             x == IF o.dist THEN <<"jump">> ELSE <<"exec">>
             y == <<"baud4", "connect">>
             z == IF o.keepCharge THEN <<"charge">> ELSE <<>>
  <1>a. a \in Seq(Commands) /\ Len(a) = 2 /\ a[1] = "baud1" /\ a[2] = "connect"
    BY DEF Commands
  <1>s. s \in Seq(Commands) /\ Len(s) = n /\ n \in {3, 4}
    BY SendFileFacts
  <1>x. x \in Seq(Commands) /\ Len(x) = 1 /\ x[1] = IF o.dist THEN "jump" ELSE "exec"
    <2>1. CASE o.dist
      BY <2>1 DEF Commands
    <2>2. CASE ~o.dist
      BY <2>2 DEF Commands
    <2> QED BY <2>1, <2>2
  <1>y. y \in Seq(Commands) /\ Len(y) = 2 /\ y[1] = "baud4" /\ y[2] = "connect"
    BY DEF Commands
  <1>z. z \in Seq(Commands) /\ Len(z) \in {0, 1} /\ \A j \in 1 .. Len(z) : z[j] = "charge"
    <2>1. CASE o.keepCharge
      BY <2>1 DEF Commands
    <2>2. CASE ~o.keepCharge
      BY <2>2 DEF Commands
    <2> QED BY <2>1, <2>2
  <1>p. FirstFdl(o) = (((a \o s) \o x) \o y) \o z
    BY DEF FirstFdl
  <1> HIDE DEF a, s, x, y, z, n
  <1> DEFINE p1 == a \o s
             p2 == p1 \o x
             p3 == p2 \o y
             p4 == p3 \o z
  <1>1. /\ p1 \in Seq(Commands) /\ Len(p1) = 2 + n
        /\ \A j \in 1 .. 2 : p1[j] = a[j]
        /\ \A j \in 2 + 1 .. 2 + n : p1[j] = s[j - 2]
    <2>1. /\ p1 \in Seq(Commands) /\ Len(p1) = Len(a) + Len(s)
          /\ \A j \in 1 .. Len(a) : p1[j] = a[j]
          /\ \A j \in Len(a) + 1 .. Len(a) + Len(s) : p1[j] = s[j - Len(a)]
      <3>1. a \in Seq(Commands) /\ s \in Seq(Commands)
        BY <1>a, <1>s
      <3> QED BY ONLY <3>1, Joined, ZenonT(30)
    <2> QED BY <2>1, <1>a, <1>s
  <1> HIDE DEF p1
  <1>2. /\ p2 \in Seq(Commands) /\ Len(p2) = (2 + n) + 1
        /\ \A j \in 1 .. 2 + n : p2[j] = p1[j]
        /\ \A j \in (2 + n) + 1 .. (2 + n) + 1 : p2[j] = x[j - (2 + n)]
    <2>1. /\ p2 \in Seq(Commands) /\ Len(p2) = Len(p1) + Len(x)
          /\ \A j \in 1 .. Len(p1) : p2[j] = p1[j]
          /\ \A j \in Len(p1) + 1 .. Len(p1) + Len(x) : p2[j] = x[j - Len(p1)]
      <3>1. p1 \in Seq(Commands) /\ x \in Seq(Commands)
        BY <1>1, <1>x
      <3> QED BY ONLY <3>1, Joined, ZenonT(30)
    <2> QED BY <2>1, <1>1, <1>x, <1>s
  <1> HIDE DEF p2
  <1>3. /\ p3 \in Seq(Commands) /\ Len(p3) = ((2 + n) + 1) + 2
        /\ \A j \in 1 .. (2 + n) + 1 : p3[j] = p2[j]
        /\ \A j \in ((2 + n) + 1) + 1 .. ((2 + n) + 1) + 2 : p3[j] = y[j - ((2 + n) + 1)]
    <2>1. /\ p3 \in Seq(Commands) /\ Len(p3) = Len(p2) + Len(y)
          /\ \A j \in 1 .. Len(p2) : p3[j] = p2[j]
          /\ \A j \in Len(p2) + 1 .. Len(p2) + Len(y) : p3[j] = y[j - Len(p2)]
      <3>1. p2 \in Seq(Commands) /\ y \in Seq(Commands)
        BY <1>2, <1>y
      <3> QED BY ONLY <3>1, Joined, ZenonT(30)
    <2> QED BY <2>1, <1>2, <1>y, <1>s
  <1> HIDE DEF p3
  <1>4. /\ p4 \in Seq(Commands) /\ Len(p4) = (((2 + n) + 1) + 2) + Len(z)
        /\ \A j \in 1 .. ((2 + n) + 1) + 2 : p4[j] = p3[j]
        /\ \A j \in (((2 + n) + 1) + 2) + 1 .. (((2 + n) + 1) + 2) + Len(z) :
             p4[j] = z[j - (((2 + n) + 1) + 2)]
    <2>1. p3 \in Seq(Commands) /\ z \in Seq(Commands)
      BY <1>3, <1>z
    <2>2. /\ p4 \in Seq(Commands) /\ Len(p4) = Len(p3) + Len(z)
          /\ \A j \in 1 .. Len(p3) : p4[j] = p3[j]
          /\ \A j \in Len(p3) + 1 .. Len(p3) + Len(z) : p4[j] = z[j - Len(p3)]
      BY ONLY <2>1, Joined, ZenonT(30)
    <2> QED BY <2>2, <1>3
  <1>5. FirstFdl(o) = p4
    BY <1>p DEF p1, p2, p3, p4
  <1> HIDE DEF p4
  <1>6. \A j \in 1 .. n + 2 : p4[j] = IF j <= 2 THEN a[j] ELSE s[j - 2]
    <2> TAKE j \in 1 .. n + 2
    <2>1. p4[j] = p3[j]
      BY <1>s, <1>z, <1>4
    <2>2. p3[j] = p2[j]
      BY <1>s, <1>3
    <2>3. p2[j] = p1[j]
      BY <1>s, <1>2
    <2> QED BY <2>1, <2>2, <2>3, <1>1, <1>s
  <1>7. p4[n + 3] = x[1]
    <2>1. p4[n + 3] = p3[n + 3]
      BY <1>s, <1>z, <1>4
    <2>2. p3[n + 3] = p2[n + 3]
      BY <1>s, <1>3
    <2>3. p2[n + 3] = x[1]
      BY <1>s, <1>2
    <2> QED BY <2>1, <2>2, <2>3
  <1>8. p4[n + 4] = y[1] /\ p4[n + 5] = y[2]
    <2>1. p4[n + 4] = p3[n + 4] /\ p4[n + 5] = p3[n + 5]
      BY <1>s, <1>z, <1>4
    <2>2. p3[n + 4] = y[1] /\ p3[n + 5] = y[2]
      BY <1>s, <1>3
    <2> QED BY <2>1, <2>2
  <1>9. \A j \in n + 5 .. Len(p4) : p4[j] \in {"connect", "charge"}
    <2> TAKE j \in n + 5 .. Len(p4)
    <2>1. CASE j = n + 5
      BY <2>1, <1>8, <1>y
    <2>2. CASE j # n + 5
      <3>1. j - (((2 + n) + 1) + 2) \in 1 .. Len(z) /\ p4[j] = z[j - (((2 + n) + 1) + 2)]
        BY <2>2, <1>s, <1>z, <1>4
      <3> QED BY <3>1, <1>z
    <2> QED BY <2>1, <2>2
  <1>10. p4[1] = a[1] /\ p4[2] = a[2] /\ \A j \in 3 .. n + 2 : p4[j] = s[j - 2]
    BY <1>6, <1>s
  <1>11. Len(p4) \in {n + 5, n + 6}
    BY <1>4, <1>z, <1>s
  <1> QED
    BY <1>4, <1>5, <1>7, <1>8, <1>9, <1>10, <1>11, <1>a, <1>x, <1>y DEF n, s

\* Where the steps are that the argument below tells apart.
LEMMA ProgramFacts ==
  ASSUME opts \in Options
  PROVE  LET p == Program(opts)
             f == Len(FirstFdl(opts))
         IN /\ p \in Seq(Commands) /\ Len(p) \in Nat /\ f \in Nat
            /\ ExecAt \in {6, 7} /\ BaudAt = ExecAt + 1
            /\ f \in {BaudAt + 1, BaudAt + 2} /\ Len(p) >= f
            /\ Exec2 \in Nat /\ f + 1 < Exec2
            /\ opts.fdls = 2 => Len(p) >= Exec2
            /\ p[3] = "start"
            /\ \A j \in 1 .. Len(p) :
                 /\ p[j] = "baud1" <=> j = 1
                 /\ p[j] = "start" => j = 3 \/ (opts.fdls = 2 /\ j = f + 1)
                 /\ p[j] = "jump" <=> j = ExecAt /\ opts.dist
                 /\ p[j] = "exec" <=> j = ExecAt /\ ~opts.dist
                 /\ p[j] = "baud4" <=> j = BaudAt
                 /\ p[j] = "exec2" <=> j = Exec2 /\ opts.fdls = 2
  <1> DEFINE n == Len(SendFile(opts))
             f == FirstFdl(opts)
             s == SendFile(opts)
             second == SecondFdl(opts)
             b == IF opts.fdls = 2 THEN second ELSE <<>>
             c == IF opts.efuse THEN <<"efuse">> ELSE <<>>
             e == <<"exec2">>
             q == f \o b
             p == q \o c
  <1>f. /\ f \in Seq(Commands)
        /\ Len(f) \in {n + 5, n + 6}
        /\ f[1] = "baud1" /\ f[2] = "connect"
        /\ \A j \in 3 .. n + 2 : f[j] = s[j - 2]
        /\ f[n + 3] = IF opts.dist THEN "jump" ELSE "exec"
        /\ f[n + 4] = "baud4"
        /\ \A j \in n + 5 .. Len(f) : f[j] \in {"connect", "charge"}
    BY FirstFdlFacts
  <1>s. /\ s \in Seq(Commands) /\ n \in {3, 4} /\ Len(s) = n /\ s[1] = "start"
        /\ \A j \in 2 .. n : s[j] \in {"midst", "end"}
    BY SendFileFacts
  <1>e. e \in Seq(Commands) /\ Len(e) = 1 /\ e[1] = "exec2"
    BY DEF Commands
  <1>d. second = s \o e
    BY DEF SecondFdl
  <1>p. Program(opts) = p
    BY DEF Program
  <1>x. ExecAt = n + 3 /\ BaudAt = ExecAt + 1 /\ Exec2 = Len(f) + Len(second)
    BY DEF ExecAt, BaudAt, Exec2
  <1>c. c \in Seq(Commands) /\ Len(c) \in {0, 1} /\ \A j \in 1 .. Len(c) : c[j] = "efuse"
    <2>1. CASE opts.efuse
      BY <2>1 DEF Commands
    <2>2. CASE ~opts.efuse
      BY <2>2 DEF Commands
    <2> QED BY <2>1, <2>2
  <1> HIDE DEF s, e, f, n, c
  <1>2. /\ second \in Seq(Commands) /\ Len(second) = n + 1
        /\ \A j \in 1 .. n + 1 : second[j] = IF j <= n THEN s[j] ELSE e[j - n]
    <2>1. /\ second \in Seq(Commands) /\ Len(second) = Len(s) + Len(e)
          /\ \A j \in 1 .. Len(s) : second[j] = s[j]
          /\ \A j \in Len(s) + 1 .. Len(s) + Len(e) : second[j] = e[j - Len(s)]
      <3>1. s \in Seq(Commands) /\ e \in Seq(Commands)
        BY <1>s, <1>e
      <3> HIDE DEF second
      <3> QED BY <3>1, <1>d, Joined
    <2> HIDE DEF second
    <2> QED BY <2>1, <1>s, <1>e
  <1> HIDE DEF second
  <1>3. /\ second[1] = "start" /\ second[n + 1] = "exec2"
        /\ \A j \in 2 .. n : second[j] \in {"midst", "end"}
    BY <1>2, <1>s, <1>e
  <1>4. b \in Seq(Commands) /\ (opts.fdls = 2 => b = second) /\ (opts.fdls # 2 => Len(b) = 0)
    BY <1>2
  <1>m. Len(b) \in Nat
    BY <1>4
  <1> HIDE DEF b
  <1>5. /\ q \in Seq(Commands) /\ Len(q) = Len(f) + Len(b)
        /\ \A j \in 1 .. Len(f) : q[j] = f[j]
        /\ \A j \in Len(f) + 1 .. Len(f) + Len(b) : q[j] = b[j - Len(f)]
    BY <1>f, <1>4, Joined, SMTT(40)
  <1> HIDE DEF q
  <1>6. /\ p \in Seq(Commands) /\ Len(p) = Len(q) + Len(c)
        /\ \A j \in 1 .. Len(q) : p[j] = q[j]
        /\ \A j \in Len(q) + 1 .. Len(q) + Len(c) : p[j] = c[j - Len(q)]
    BY <1>5, <1>c, Joined, SMTT(40)
  <1> HIDE DEF p
  <1>o. Len(f) \in Nat /\ n \in Nat /\ Len(c) \in Nat
    BY <1>f, <1>s, <1>c
  <1>7. \A j \in 1 .. Len(f) : p[j] = f[j]
    <2> TAKE j \in 1 .. Len(f)
    <2>1. j \in 1 .. Len(q)
      BY ONLY <1>5, <1>m, <1>o, j \in 1 .. Len(f)
    <2> QED BY ONLY <2>1, <1>5, <1>6, j \in 1 .. Len(f), Zenon
  <1>8. opts.fdls = 2 => \A j \in Len(f) + 1 .. Len(f) + n + 1 : p[j] = second[j - Len(f)]
    <2> SUFFICES ASSUME opts.fdls = 2, NEW j \in Len(f) + 1 .. Len(f) + n + 1
                 PROVE  p[j] = second[j - Len(f)]
      OBVIOUS
    <2>1. b = second /\ Len(b) = n + 1
      BY <1>2, <1>4
    <2>2. j \in 1 .. Len(q) /\ j \in Len(f) + 1 .. Len(f) + Len(b)
      BY <2>1, <1>5, <1>o
    <2> QED BY <2>1, <2>2, <1>5, <1>6
  <1>9. Len(q) = IF opts.fdls = 2 THEN Len(f) + n + 1 ELSE Len(f)
    BY <1>5, <1>2, <1>4, <1>f, <1>s
  <1>10. \A j \in Len(q) + 1 .. Len(p) : p[j] = "efuse"
    <2> TAKE j \in Len(q) + 1 .. Len(p)
    <2>1. j - Len(q) \in 1 .. Len(c) /\ p[j] = c[j - Len(q)]
      BY <1>6, <1>9, <1>c, <1>f, <1>s
    <2> QED BY <2>1, <1>c
  <1>11. p[3] = "start"
    BY <1>7, <1>f, <1>s
  <1>12. ASSUME NEW j \in 1 .. Len(p)
         PROVE  /\ p[j] = "baud1" <=> j = 1
                /\ p[j] = "start" => j = 3 \/ (opts.fdls = 2 /\ j = Len(f) + 1)
                /\ p[j] = "jump" <=> j = ExecAt /\ opts.dist
                /\ p[j] = "exec" <=> j = ExecAt /\ ~opts.dist
                /\ p[j] = "baud4" <=> j = BaudAt
                /\ p[j] = "exec2" <=> j = Exec2 /\ opts.fdls = 2
    <2>0. Len(f) \in Nat /\ n \in Nat /\ Len(q) \in Nat /\ j \in Nat
      BY <1>f, <1>s, <1>9, <1>6, <1>c
    <2>1. CASE j = 1
      BY <2>1, <1>7, <1>f, <1>s, <1>x, <1>2, SMTT(40)
    <2>2. CASE j = 2
      <3>1. p[j] = "connect"
        BY <2>2, <1>7, <1>f, <1>s
      <3>2. j # 1 /\ j # ExecAt /\ j # BaudAt /\ j # Exec2
        BY <2>2, <1>x, <1>f, <1>s, <1>2
      <3> QED BY <3>1, <3>2
    <2>3. CASE j \in 3 .. n + 2
      <3>1. p[j] = s[j - 2]
        BY <2>3, <1>7, <1>f, <1>s
      <3>2. (j = 3 /\ p[j] = "start") \/ p[j] \in {"midst", "end"}
        BY <3>1, <2>3, <1>s
      <3>3. j # 1 /\ j # ExecAt /\ j # BaudAt /\ j # Exec2
        BY <2>3, <1>x, <1>f, <1>s, <1>2
      <3> QED BY <3>2, <3>3
    <2>4. CASE j = n + 3
      <3>1. p[j] = IF opts.dist THEN "jump" ELSE "exec"
        BY <2>4, <1>7, <1>f, <1>s
      <3>2. j # 1 /\ j = ExecAt /\ j # BaudAt /\ j # Exec2
        BY <2>4, <1>x, <1>f, <1>s, <1>2
      <3> QED BY <3>1, <3>2
    <2>5. CASE j = n + 4
      <3>1. p[j] = "baud4"
        BY <2>5, <1>7, <1>f, <1>s
      <3>2. j # 1 /\ j # ExecAt /\ j = BaudAt /\ j # Exec2
        BY <2>5, <1>x, <1>f, <1>s, <1>2
      <3> QED BY <3>1, <3>2
    <2>6. CASE j \in n + 5 .. Len(f)
      <3>1. p[j] \in {"connect", "charge"}
        BY <2>6, <2>0, <1>7, <1>f
      <3>2. j # 1 /\ j # ExecAt /\ j # BaudAt /\ j # Exec2
        BY <2>6, <1>x, <1>f, <1>s, <1>2
      <3> QED BY <3>1, <3>2
    <2>7. CASE j \in Len(f) + 1 .. Len(q)
      <3>1. opts.fdls = 2 /\ j - Len(f) \in 1 .. n + 1 /\ p[j] = second[j - Len(f)]
        BY <2>7, <2>0, <1>8, <1>9
      <3>2. \/ j = Len(f) + 1 /\ p[j] = "start"
            \/ j = Exec2 /\ p[j] = "exec2"
            \/ j # Exec2 /\ p[j] \in {"midst", "end"}
        BY <3>1, <2>0, <1>2, <1>3, <1>x
      <3>3. j # 1 /\ j # ExecAt /\ j # BaudAt /\ Len(f) + 1 # Exec2
        BY <2>7, <2>0, <1>x, <1>f, <1>s, <1>2
      <3> QED BY <3>1, <3>2, <3>3
    <2>8. CASE j \in Len(q) + 1 .. Len(p)
      <3>1. p[j] = "efuse"
        BY <2>8, <1>10
      <3>2. j # 1 /\ j # ExecAt /\ j # BaudAt /\ ~(j = Exec2 /\ opts.fdls = 2)
        BY <2>8, <2>0, <1>9, <1>x, <1>f, <1>s, <1>2, SMTT(40)
      <3> QED BY <3>1, <3>2
    <2> QED BY <2>0, <2>1, <2>2, <2>3, <2>4, <2>5, <2>6, <2>7, <2>8
  <1>13. /\ Len(p) \in Nat /\ Len(f) \in Nat
         /\ ExecAt \in {6, 7} /\ BaudAt = ExecAt + 1
         /\ Len(f) \in {BaudAt + 1, BaudAt + 2} /\ Len(p) >= Len(f)
         /\ Exec2 \in Nat /\ Len(f) + 1 < Exec2
         /\ opts.fdls = 2 => Len(p) >= Exec2
    <2>1. Len(second) = n + 1 /\ n \in {3, 4} /\ Len(f) \in {n + 5, n + 6} /\ Len(c) \in {0, 1}
      BY <1>f, <1>s, <1>2, <1>c
    <2>2. Len(p) = Len(q) + Len(c)
      BY <1>6
    <2>3. Len(q) \in Nat /\ Len(q) >= Len(f) /\ (opts.fdls = 2 => Len(q) = Len(f) + n + 1)
      BY <2>1, <1>9
    <2>4. Len(p) \in Nat /\ Len(p) >= Len(f) /\ (opts.fdls = 2 => Len(p) >= Len(f) + n + 1)
      BY <2>1, <2>2, <2>3
    <2> QED BY <2>1, <2>4, <1>x
  <1> QED BY <1>p, <1>6, <1>11, <1>12, <1>13 DEF f

-----------------------------------------------------------------------------
(* The queue of requests.                                                  *)

LEMMA SameProgram ==
  ASSUME opts' = opts
  PROVE  /\ ExecAt' = ExecAt /\ BaudAt' = BaudAt /\ Exec2' = Exec2
         /\ \A j : RequestOf(j)' = RequestOf(j)
         /\ Program(opts)' = Program(opts)
  BY DEF ExecAt, BaudAt, Exec2, RequestOf

\* The request that the device takes next.
LEMMA HeadFacts ==
  ASSUME TypeInv, RequestInv, toDev # <<>>
  PROVE  /\ Request = toDev[1] /\ 1 \in DOMAIN toDev
         /\ Request = RequestOf(Request.step)
         /\ Request.cmd = Program(opts)[Request.step]
         /\ Request.sum = IF Request.step > ExecAt THEN "sum" ELSE "crc16"
         /\ Request.step \in {ExecAt, BaudAt, k} /\ Request.step <= k
         /\ Request.step \in 1 .. Len(Program(opts))
         /\ Waiting(Request.step)
  <1>1. toDev \in Seq(Requests) /\ Len(toDev) \in Nat \ {0} /\ DOMAIN toDev = 1 .. Len(toDev)
    BY EmptySeq DEF TypeInv
  <1>2. 1 \in DOMAIN toDev /\ Request = toDev[1]
    BY <1>1 DEF Request
  <1>3. /\ Request = RequestOf(Request.step)
        /\ Request.step \in {ExecAt, BaudAt, k} /\ Request.step <= k
    BY <1>2 DEF RequestInv
  <1>4. /\ Request.cmd = Program(opts)[Request.step]
        /\ Request.sum = IF Request.step > ExecAt THEN "sum" ELSE "crc16"
    <2>1. Request = [cmd |-> Program(opts)[Request.step],
                     sum |-> IF Request.step > ExecAt THEN "sum" ELSE "crc16",
                     step |-> Request.step]
      BY <1>3 DEF RequestOf
    <2> QED BY <2>1
  <1>5. Waiting(Request.step)
    BY <1>2 DEF Waiting
  <1>6. Request.step \in 1 .. Len(Program(opts))
    <2>1. /\ ExecAt \in {6, 7} /\ BaudAt = ExecAt + 1 /\ Len(Program(opts)) \in Nat
          /\ Len(Program(opts)) > BaudAt
      BY ProgramFacts, SMTT(40) DEF TypeInv
    <2>2. k \in 1 .. Len(Program(opts)) + 1 /\ (pc = "done" <=> k > Len(Program(opts)))
      BY DEF TypeInv, TypeOK
    <2>3. CASE pc = "done"
      <3>1. ~Waiting(k)
        BY <2>1, <2>2, <2>3 DEF RequestInv
      <3>2. Request.step # k
        BY <3>1, <1>5
      <3> QED BY <3>2, <2>1, <1>3
    <2>4. CASE pc # "done"
      BY <2>1, <2>2, <2>4, <1>3
    <2> QED BY <2>3, <2>4
  <1> QED BY <1>2, <1>3, <1>4, <1>5, <1>6

\* The queue without its head.
LEMMA Popped ==
  ASSUME TypeInv, RequestInv, toDev # <<>>, toDev' = Tail(toDev), UNCHANGED <<opts, k, pc>>
  PROVE  /\ toDev' \in Seq(Requests)
         /\ RequestInv'
         /\ \A j : ~Waiting(j) => ~Waiting(j)'
         /\ Request.step = k /\ k # BaudAt => ~Waiting(k)'
         /\ \A i \in DOMAIN toDev' : \E h \in DOMAIN toDev : toDev'[i] = toDev[h]
         /\ Request.step = ExecAt => \A i \in DOMAIN toDev' : toDev'[i].step > ExecAt
  <1> DEFINE q == toDev'
  <1>1. toDev \in Seq(Requests) /\ Len(toDev) \in Nat \ {0} /\ DOMAIN toDev = 1 .. Len(toDev)
    BY EmptySeq DEF TypeInv
  <1>2. /\ q \in Seq(Requests) /\ Len(q) = Len(toDev) - 1 /\ DOMAIN q = 1 .. Len(toDev) - 1
        /\ \A i \in 1 .. Len(q) : q[i] = toDev[i + 1]
    <2>1. /\ Tail(toDev) \in Seq(Requests) /\ Len(Tail(toDev)) = Len(toDev) - 1
          /\ \A i \in 1 .. Len(Tail(toDev)) : Tail(toDev)[i] = toDev[i + 1]
      BY <1>1, HeadTailProperties
    <2> QED BY <2>1
  <1>3. \A i \in DOMAIN q : i + 1 \in DOMAIN toDev /\ q[i] = toDev[i + 1]
    BY <1>1, <1>2
  <1>4. opts' = opts /\ k' = k /\ pc' = pc
    OBVIOUS
  <1>5. /\ ExecAt' = ExecAt /\ BaudAt' = BaudAt /\ \A j : RequestOf(j)' = RequestOf(j)
    BY SameProgram
  <1>6. \A j : ~Waiting(j) => ~Waiting(j)'
    <2> TAKE j
    <2> HAVE ~Waiting(j)
    <2>1. \A i \in DOMAIN q : q[i].step # j
      BY <1>3 DEF Waiting
    <2> QED BY <2>1 DEF Waiting
  <1>7. RequestInv'
    <2>1. \A i \in DOMAIN q :
            /\ q[i] = RequestOf(q[i].step)
            /\ q[i].step \in {ExecAt, BaudAt, k} /\ q[i].step <= k
      BY <1>3 DEF RequestInv
    <2>2. ASSUME NEW i \in DOMAIN q, NEW j \in DOMAIN q, i < j
          PROVE  \/ q[i].step < q[j].step
                 \/ q[i].step = BaudAt /\ q[j].step = BaudAt
      <3>1. i + 1 \in DOMAIN toDev /\ j + 1 \in DOMAIN toDev /\ i + 1 < j + 1
        BY <2>2, <1>1, <1>2
      <3>2. \/ toDev[i + 1].step < toDev[j + 1].step
            \/ toDev[i + 1].step = BaudAt /\ toDev[j + 1].step = BaudAt
        BY <3>1 DEF RequestInv
      <3> QED BY <3>2, <1>3
    <2>3. pc \in {"send", "done"} => k = BaudAt \/ ~Waiting(k)'
      BY <1>6 DEF RequestInv
    <2>4. \A i \in DOMAIN toDev' :
            /\ toDev'[i] = RequestOf(toDev[i].step)'
            /\ toDev'[i].step \in {ExecAt', BaudAt', k'} /\ toDev'[i].step <= k'
      BY <2>1, <1>4, <1>5 DEF RequestOf
    <2>5. Waiting(k)' <=> \E i \in DOMAIN q : q[i].step = k
      BY <1>4 DEF Waiting
    <2> QED BY <2>2, <2>3, <2>4, <2>5, <1>4, <1>5 DEF RequestInv, Waiting
  <1>8. ASSUME NEW i \in DOMAIN q, Request.step # BaudAt PROVE q[i].step > Request.step
    <2>1. Request = toDev[1] /\ 1 \in DOMAIN toDev
      BY HeadFacts
    <2>2. i + 1 \in DOMAIN toDev /\ 1 < i + 1
      BY <1>1, <1>2
    <2>3. toDev[1].step < toDev[i + 1].step
      BY <1>8, <2>1, <2>2 DEF RequestInv
    <2>4. toDev[1].step \in Nat /\ toDev[i + 1].step \in Nat
      <3>1. toDev[1] \in Requests /\ toDev[i + 1] \in Requests
        BY <2>1, <2>2, <1>1, ElementOfSeq
      <3> QED BY <3>1 DEF Requests
    <2> QED BY <2>1, <2>3, <2>4, <1>3
  <1>9. Request.step = k /\ k # BaudAt => ~Waiting(k)'
    <2> SUFFICES ASSUME Request.step = k, k # BaudAt, NEW i \in DOMAIN q, q[i].step = k PROVE FALSE
      BY <1>4 DEF Waiting
    <2>1. q[i].step > Request.step
      BY <1>8
    <2> QED BY <2>1 DEF TypeInv, TypeOK
  <1>10. Request.step = ExecAt => \A i \in DOMAIN q : q[i].step > ExecAt
    <2>1. ExecAt # BaudAt
      BY ProgramFacts, SMTT(40) DEF TypeInv
    <2> QED BY <1>8, <2>1
  <1> QED BY <1>2, <1>3, <1>6, <1>7, <1>9, <1>10

-----------------------------------------------------------------------------
(* What the steps of the device amount to.                                 *)

Quiet == UNCHANGED host /\ naks' = naks /\ down' \in [size : {-1, 2}, recv : 0 .. 2]

Popping == toDev # <<>> /\ toDev' = Tail(toDev)

\* The request of the host's step is answered.
Answered(a) ==
  /\ Popping /\ Request.step = k /\ k # BaudAt
  /\ toHost' = <<a>> /\ a \in Answers /\ a.step = k /\ a.type # "LOG"
  /\ \/ /\ stage' = stage /\ stage \in {"rom", "fdl", "fdl2"}
        /\ k # ExecAt
        /\ stage = "rom" /\ k >= 3 => down'.size = 2
        /\ opts.fdls = 2 /\ k = Exec2 => a.type = "INVALID_CMD"
     \/ /\ stage = "rom" /\ stage' = "start1"
        /\ k = ExecAt
     \/ /\ stage = "fdl" /\ stage' = "dead"
        /\ Step = "start" /\ k > BaudAt /\ a.type = "OPERATION_FAILED"

\* A check baud that was given up, or a request that came too early.
Skipped == Popping /\ toHost' = toHost /\ stage' = stage /\ stage # "rom"

\* The exec without an answer, and that of the second FDL.
Jumped ==
  /\ Popping /\ Request.step = ExecAt /\ k = BaudAt
  /\ toHost' = toHost /\ stage = "rom" /\ stage' = "start1"
Restarted ==
  /\ Popping /\ Request.step = k /\ k = Exec2 /\ opts.fdls = 2
  /\ toHost = <<>> /\ toHost' = <<>> /\ stage = "fdl" /\ stage' = "start2"

\* The FDLs come up, and FDL1 sends its version.
Up1 == UNCHANGED <<toDev, toHost>> /\ stage = "start1" /\ stage' = "header"
Up2 ==
  /\ UNCHANGED toDev /\ stage = "start2" /\ stage' = "fdl2"
  /\ \E a \in Answers :
       /\ a.step = k /\ a.type # "LOG"
       /\ \/ toHost' = <<a>>
          \/ \E l \in Answers : l.step = k /\ l.type = "LOG" /\ toHost' = <<l, a>>
Version(a) ==
  /\ Popping /\ k = BaudAt
  /\ toHost' = <<a>> /\ a \in Answers /\ a.step = k /\ a.type # "LOG"
  /\ stage = "header" /\ stage' = "fdl"

DeviceStep ==
  /\ Quiet
  /\ \/ \E a : Answered(a)
     \/ \E a : Version(a)
     \/ Skipped \/ Jumped \/ Restarted \/ Up1 \/ Up2

LEMMA ReplyIs ==
  ASSUME TypeInv, RequestInv, toDev # <<>>, NEW type \in Types
  PROVE  /\ Reply(type) \in Answers /\ Reply(type).step = Request.step /\ Reply(type).type = type
         /\ \A n \in Nat : LET a == [Reply(type) EXCEPT !.words = n]
                           IN a \in Answers /\ a.step = Request.step /\ a.type = type
         /\ \A c \in {0, chip} : LET a == [Reply(type) EXCEPT !.id = c]
                                 IN a \in Answers /\ a.step = Request.step /\ a.type = type
  <1>1. Request.step \in Nat
    BY HeadFacts
  <1> QED BY <1>1 DEF Reply, Answers

LEMMA Single ==
  ASSUME NEW a
  PROVE  <<>> \o <<a>> = <<a>> /\ <<>> \o <<>> = <<>>
  <1>1. <<a>> \in Seq({a}) /\ <<>> \in Seq({a})
    OBVIOUS
  <1> QED BY <1>1, ConcatEmptySeq

\* When the request of a step other than the check baud is at the device, no answer is
\* under way and the host waits or has given up.
LEMMA Alone ==
  ASSUME TypeInv, RequestInv, AnswerInv, toDev # <<>>, Request.step = k, k # BaudAt
  PROVE  toHost = <<>> /\ pc \in {"recv", "exit"} /\ k \in 1 .. Len(Program(opts))
  <1>1. Waiting(k) /\ k \in 1 .. Len(Program(opts))
    BY HeadFacts
  <1>2. toHost = <<>>
    BY <1>1 DEF AnswerInv
  <1>3. pc \notin {"send", "done"}
    BY <1>1 DEF RequestInv
  <1> QED BY <1>1, <1>2, <1>3 DEF TypeInv, TypeOK

LEMMA HandlerStep ==
  ASSUME BootInv, toDev # <<>>, Request.step = k, k # BaudAt,
         stage \in {"rom", "fdl", "fdl2"},
         stage = "rom" => k <= ExecAt, stage # "rom" => k > BaudAt,
         Handlers, naks' = naks
  PROVE  DeviceStep
  <1>i. TypeInv /\ RequestInv /\ AnswerInv /\ StageInv /\ SecondInv /\ DownInv
    BY DEF BootInv
  <1>n. toDev # <<>>
    BY DEF Popping
  <1>h. Request.cmd = Program(opts)[k] /\ Request.step = k /\ k \in 1 .. Len(Program(opts))
    BY <1>i, <1>n, HeadFacts
  <1>a. toHost = <<>> /\ pc \in {"recv", "exit"}
    BY <1>i, <1>n, Alone
  <1>p. /\ Request.cmd = "start" => k = 3 \/ k > BaudAt
        /\ Request.cmd = "start" /\ stage = "rom" => k = 3
        /\ k = 3 => Request.cmd = "start"
        /\ Request.cmd = "jump" <=> k = ExecAt /\ opts.dist
        /\ Request.cmd = "exec" <=> k = ExecAt /\ ~opts.dist
        /\ Request.cmd = "exec2" <=> k = Exec2 /\ opts.fdls = 2
        /\ ExecAt \in {6, 7} /\ BaudAt = ExecAt + 1 /\ Exec2 \in Nat /\ Exec2 > BaudAt
    <2> DEFINE f == Len(FirstFdl(opts))
    <2>1. /\ Request.cmd = "start" => k = 3 \/ (opts.fdls = 2 /\ k = f + 1)
          /\ Request.cmd = "jump" <=> k = ExecAt /\ opts.dist
          /\ Request.cmd = "exec" <=> k = ExecAt /\ ~opts.dist
          /\ Request.cmd = "exec2" <=> k = Exec2 /\ opts.fdls = 2
      BY <1>h, <1>i, ProgramFacts, SMTT(40) DEF TypeInv
    <2>2. /\ ExecAt \in {6, 7} /\ BaudAt = ExecAt + 1 /\ f \in {BaudAt + 1, BaudAt + 2}
          /\ Exec2 \in Nat /\ f + 1 < Exec2 /\ Program(opts)[3] = "start"
      BY <1>i, ProgramFacts, SMTT(40) DEF TypeInv
    <2> HIDE DEF f
    <2>3. k = 3 => Request.cmd = "start"
      BY <2>2, <1>h
    <2> QED BY <2>1, <2>2, <2>3
  <1>d. down \in [size : {-1, 2}, recv : 0 .. 2]
    BY <1>i DEF TypeInv
  <1>s. stage = "rom" /\ k > 3 => down.size = 2
    BY <1>i DEF DownInv
  <1>k. k \in Nat
    BY <1>h
  <1>t. \A a : Take(<<a>>) => Popping /\ toHost' = <<a>> /\ UNCHANGED host
    BY <1>a, Single DEF Take, Popping
  <1>r. \A type \in Types : Reply(type) \in Answers /\ Reply(type).step = k /\ Reply(type).type = type
    BY <1>i, <1>n, <1>h, ReplyIs
  \* The plain case: an answer, and the stage stays.
  <1>1. ASSUME NEW a \in Answers, a.step = k, a.type # "LOG", Take(<<a>>), stage' = stage,
               down' \in [size : {-1, 2}, recv : 0 .. 2],
               k # ExecAt, opts.fdls = 2 /\ k = Exec2 => a.type = "INVALID_CMD",
               stage = "rom" /\ k >= 3 => down'.size = 2
        PROVE  DeviceStep
    <2>1. Popping /\ toHost' = <<a>> /\ UNCHANGED host
      BY <1>1, <1>t
    <2>2. Answered(a)
      BY <2>1, <1>1, <1>h DEF Answered
    <2> QED BY <2>1, <2>2, <1>1 DEF DeviceStep, Quiet
  <1>2. CASE DataStart
    <2>0. Request.cmd = "start"
      BY <1>2 DEF DataStart
    <2>1. CASE down' = [size |-> 2, recv |-> 0] /\ Take(<<Reply("ACK")>>) /\ UNCHANGED stage
      <3>1. "ACK" \in Types
        BY DEF Types
      <3>2. down' \in [size : {-1, 2}, recv : 0 .. 2] /\ down'.size = 2
        BY <2>1
      <3>3. (k # ExecAt /\ k # Exec2) \/ opts.fdls # 2
        BY <2>0, <1>p
      <3>4. k # ExecAt
        BY <2>0, <1>p
      <3> QED BY <2>1, <3>1, <3>2, <3>3, <3>4, <1>1, <1>r
    <2>2. CASE stage = "fdl" /\ Take(<<Reply("OPERATION_FAILED")>>) /\ stage' = "dead" /\ UNCHANGED down
      <3> DEFINE a == Reply("OPERATION_FAILED")
      <3>1. a \in Answers /\ a.step = k /\ a.type = "OPERATION_FAILED"
        BY <1>r DEF Types
      <3>2. Popping /\ toHost' = <<a>> /\ UNCHANGED host
        BY <2>2, <1>t
      <3> HIDE DEF a
      <3>3. Step = "start" /\ k > BaudAt
        BY <2>0, <2>2, <1>h DEF Step
      <3>4. Answered(a)
        BY <2>2, <3>1, <3>2, <3>3, <1>h DEF Answered
      <3> QED BY <2>2, <3>2, <3>4, <1>d DEF DeviceStep, Quiet
    <2> QED BY <2>1, <2>2, <1>2 DEF DataStart
  <1>3. CASE DataMidst
    <2>0. Request.cmd = "midst" /\ stage' = stage
      BY <1>3 DEF DataMidst
    <2>1. k # ExecAt /\ ~(opts.fdls = 2 /\ k = Exec2) /\ k # 3
      BY <2>0, <1>p
    <2>2. CASE down.recv < down.size /\ down' = [down EXCEPT !.recv = @ + 1] /\ Take(<<Reply("ACK")>>)
      <3>1. down' \in [size : {-1, 2}, recv : 0 .. 2] /\ down'.size = down.size
        BY <2>2, <1>d
      <3>2. "ACK" \in Types
        BY DEF Types
      <3> QED BY <2>0, <2>1, <2>2, <3>1, <3>2, <1>1, <1>r, <1>s, <1>k
    <2>3. CASE Take(<<Reply("DOWN_SIZE_ERROR")>>) /\ UNCHANGED down
      <3>1. down' \in [size : {-1, 2}, recv : 0 .. 2] /\ down'.size = down.size
        BY <2>3, <1>d
      <3>2. "DOWN_SIZE_ERROR" \in Types
        BY DEF Types
      <3> QED BY <2>0, <2>1, <2>3, <3>1, <3>2, <1>1, <1>r, <1>s, <1>k
    <2> QED BY <2>2, <2>3, <1>3 DEF DataMidst
  <1>4. CASE DataEnd \/ Connect \/ KeepCharge
    <2>0. Request.cmd \in {"end", "connect", "charge"} /\ stage' = stage /\ down' = down
      BY <1>4 DEF DataEnd, Connect, KeepCharge
    <2>1. k # ExecAt /\ ~(opts.fdls = 2 /\ k = Exec2) /\ k # 3
      BY <2>0, <1>p
    <2>2. PICK type \in {"ACK", "DOWN_EARLY_END", "UNKNOWN_CMD"} : Take(<<Reply(type)>>)
      <3>1. CASE DataEnd
        BY <3>1 DEF DataEnd
      <3>2. CASE Connect
        BY <3>2 DEF Connect
      <3>3. CASE KeepCharge
        BY <3>3 DEF KeepCharge
      <3> QED BY <3>1, <3>2, <3>3, <1>4
    <2>3. type \in Types /\ type # "LOG"
      BY DEF Types
    <2>4. Reply(type) \in Answers /\ Reply(type).step = k /\ Reply(type).type # "LOG"
      BY <2>3, <1>r
    <2> QED BY <2>0, <2>1, <2>2, <2>4, <1>1, <1>s, <1>k, <1>d
  <1>5. CASE ReadEfuse
    <2> DEFINE a == [Reply("READ_FLASH") EXCEPT !.words = EfuseMax]
    <2>0. Request.cmd = "efuse" /\ stage' = stage /\ down' = down /\ Take(<<a>>)
      BY <1>5 DEF ReadEfuse
    <2>1. k # ExecAt /\ ~(opts.fdls = 2 /\ k = Exec2) /\ k # 3
      BY <2>0, <1>p
    <2>2. EfuseMax \in Nat
      BY DEF EfuseMax
    <2>3. a \in Answers /\ a.step = k /\ a.type # "LOG"
      BY <2>2, <1>i, <1>n, <1>h, ReplyIs DEF Types
    <2> HIDE DEF a
    <2> QED BY <2>0, <2>1, <2>3, <1>1, <1>s, <1>k, <1>d
  <1>6. CASE DataExec
    <2>0. Request.cmd \in {"exec", "exec2", "jump"}
      BY <1>6 DEF DataExec
    <2>1. CASE k = ExecAt
      <3>1. stage = "rom" /\ down.size = 2
        BY <2>1, <1>p, <1>s
      <3>2. ~opts.dist
        BY <2>1, <1>a, <1>i DEF StageInv
      <3>3. Request.cmd = "exec"
        BY <2>1, <3>2, <1>p
      <3>4. Take(<<Reply("ACK")>>) /\ stage' = "start1" /\ down' = [size |-> -1, recv |-> 0]
        BY <3>1, <3>3, <1>6 DEF DataExec
      <3> DEFINE a == Reply("ACK")
      <3>5. a \in Answers /\ a.step = k /\ a.type # "LOG"
        BY <1>r DEF Types
      <3>6. Popping /\ toHost' = <<a>> /\ UNCHANGED host
        BY <3>4, <1>t
      <3> HIDE DEF a
      <3>7. Answered(a)
        BY <2>1, <3>1, <3>4, <3>5, <3>6, <1>h DEF Answered
      <3>8. down' \in [size : {-1, 2}, recv : 0 .. 2]
        BY <3>4
      <3> QED BY <3>6, <3>7, <3>8 DEF DeviceStep, Quiet
    <2>2. CASE k # ExecAt
      <3>1. Request.cmd = "exec2" /\ k = Exec2 /\ opts.fdls = 2
        BY <2>0, <2>2, <1>p
      <3>2. stage = "fdl"
        <4>1. stage # "rom"
          BY <3>1, <1>p
        <4>2. Waiting(Exec2)
          BY <3>1, <1>h, <1>i, <1>n, HeadFacts
        <4> QED BY <4>1, <4>2, <1>i DEF SecondInv
      <3>3. CASE down.size = -1
        <4>1. Take(<<Reply("INVALID_CMD")>>) /\ UNCHANGED <<stage, down>>
          BY <3>3, <1>6 DEF DataExec
        <4>2. "INVALID_CMD" \in Types
          BY DEF Types
        <4> QED BY <4>1, <4>2, <3>2, <2>2, <1>1, <1>r, <1>d
      <3>4. CASE down.size # -1
        <4>1. Take(<<>>) /\ stage' = "start2" /\ down' = [size |-> -1, recv |-> 0]
          BY <3>4, <3>1, <3>2, <1>6 DEF DataExec
        <4>2. Popping /\ toHost' = <<>> /\ UNCHANGED host
          BY <4>1, <1>a, Single DEF Take, Popping
        <4>3. Restarted
          BY <4>1, <4>2, <3>1, <3>2, <1>h, <1>a DEF Restarted
        <4>4. down' \in [size : {-1, 2}, recv : 0 .. 2]
          BY <4>1
        <4> QED BY <4>2, <4>3, <4>4 DEF DeviceStep, Quiet
      <3> QED BY <3>3, <3>4
    <2> QED BY <2>1, <2>2
  <1> QED BY <1>2, <1>3, <1>4, <1>5, <1>6 DEF Handlers

LEMMA DeviceSteps ==
  ASSUME BootInv, RomStep \/ Lose \/ Start \/ FdlVersion \/ FdlStep
  PROVE  DeviceStep
  <1>i. TypeInv /\ RequestInv /\ AnswerInv /\ StageInv /\ SecondInv /\ DownInv
    BY DEF BootInv
  <1>b. /\ ExecAt \in {6, 7} /\ BaudAt = ExecAt + 1 /\ k \in Nat /\ Exec2 \in Nat /\ Exec2 > BaudAt
    BY <1>i, ProgramFacts, SMTT(40) DEF TypeInv, TypeOK
  <1>d. down \in [size : {-1, 2}, recv : 0 .. 2]
    BY <1>i DEF TypeInv
  <1>c. \A j \in 1 .. Len(Program(opts)) :
          /\ Program(opts)[j] = "baud1" <=> j = 1
          /\ Program(opts)[j] = "jump" <=> j = ExecAt /\ opts.dist
          /\ Program(opts)[j] = "baud4" <=> j = BaudAt
    BY <1>i, ProgramFacts, SMTT(40) DEF TypeInv
  <1>1. CASE RomStep
    <2>1. stage = "rom" /\ toDev # <<>>
      BY <1>1 DEF RomStep
    <2>2. \/ k <= ExecAt
          \/ k = BaudAt /\ opts.dist /\ toDev[1].step = ExecAt
      BY <2>1, <1>i DEF StageInv
    <2>3. /\ Request = toDev[1] /\ Request.cmd = Program(opts)[Request.step]
          /\ Request.sum = IF Request.step > ExecAt THEN "sum" ELSE "crc16"
          /\ Request.step \in {ExecAt, BaudAt, k} /\ Request.step <= k
          /\ Request.step \in 1 .. Len(Program(opts))
      BY <2>1, <1>i, HeadFacts
    <2>4. Request.step <= ExecAt /\ Request.sum = "crc16"
      BY <2>2, <2>3, <1>b
    <2>5. CASE Request.cmd = "baud1" /\ Take(<<Reply("VER")>>) /\ UNCHANGED <<stage, down, naks>>
      <3>1. Request.step = 1
        BY <2>5, <2>3, <1>c
      <3>2. k = 1
        BY <3>1, <2>3, <1>b
      <3> DEFINE a == Reply("VER")
      <3>3. a \in Answers /\ a.step = k /\ a.type # "LOG"
        BY <2>1, <3>1, <3>2, <1>i, ReplyIs DEF Types
      <3>4. toHost = <<>>
        BY <2>1, <3>1, <3>2, <1>b, <1>i, Alone
      <3>5. Popping /\ toHost' = <<a>> /\ UNCHANGED host
        BY <2>5, <3>4, Single DEF Take, Popping
      <3> HIDE DEF a
      <3>6. Answered(a)
        BY <2>1, <2>5, <3>1, <3>2, <3>3, <3>5, <1>b DEF Answered
      <3> QED BY <2>5, <3>5, <3>6, <1>d DEF DeviceStep, Quiet
    <2>6. CASE Handlers /\ UNCHANGED naks
      <3>1. CASE k <= ExecAt
        <4>1. Request.step = k
          BY <3>1, <2>3, <1>b
        <4> QED BY <2>1, <2>6, <3>1, <4>1, <1>b, HandlerStep
      <3>2. CASE k = BaudAt /\ opts.dist /\ toDev[1].step = ExecAt
        <4>1. Request.step = ExecAt /\ Request.cmd = "jump"
          BY <3>2, <2>3, <1>c
        <4>2. DataExec
          BY <4>1, <2>6
             DEF Handlers, DataStart, DataMidst, DataEnd, Connect, KeepCharge, ReadEfuse
        <4>3. down.size = 2
          BY <2>1, <3>2, <1>b, <1>i DEF DownInv
        <4>4. Take(<<>>) /\ stage' = "start1" /\ down' = [size |-> -1, recv |-> 0]
          BY <4>1, <4>2, <4>3, <2>1 DEF DataExec
        <4>5. toHost \in Seq(Answers)
          BY <1>i DEF TypeInv
        <4>6. toHost' = toHost /\ Popping /\ UNCHANGED host
          BY <4>4, <4>5, ConcatEmptySeq DEF Take, Popping
        <4>7. Jumped
          BY <4>1, <4>4, <4>6, <3>2, <2>1 DEF Jumped
        <4>8. down' \in [size : {-1, 2}, recv : 0 .. 2]
          BY <4>4
        <4> QED BY <4>6, <4>7, <4>8, <2>6 DEF DeviceStep, Quiet
      <3> QED BY <3>1, <3>2, <2>2
    <2> QED BY <2>4, <2>5, <2>6, <1>1 DEF RomStep
  <1>2. CASE Lose
    <2>1. toHost \in Seq(Answers)
      BY <1>i DEF TypeInv
    <2>2. toHost' = toHost /\ Popping /\ UNCHANGED host
      BY <1>2, <2>1, ConcatEmptySeq DEF Lose, Take, Popping
    <2>3. stage # "rom" /\ UNCHANGED <<stage, down, naks>>
      BY <1>2 DEF Lose
    <2>4. Skipped
      BY <2>2, <2>3 DEF Skipped
    <2> QED BY <2>2, <2>3, <2>4, <1>d DEF DeviceStep, Quiet
  <1>3. CASE Start
    <2>1. UNCHANGED <<host, toDev, down, naks>>
      BY <1>3 DEF Start
    <2>2. CASE stage = "start1" /\ stage' = "header" /\ UNCHANGED toHost
      <3>1. Up1
        BY <2>1, <2>2 DEF Up1
      <3> QED BY <2>1, <3>1, <1>d DEF DeviceStep, Quiet
    <2>3. CASE stage = "start2" /\ ~(stage = "start1" /\ stage' = "header" /\ UNCHANGED toHost)
      <3> DEFINE answer(t) == [type |-> t, step |-> Exec2, id |-> 0, words |-> 0]
      <3>1. stage' = "fdl2"
        BY <1>3, <2>3 DEF Start
      <3>2. PICK type \in {"ACK", "INCOMPATIBLE_PARTITION"}, log \in BOOLEAN :
              toHost' = toHost \o (IF log THEN <<answer("LOG")>> ELSE <<>>) \o <<answer(type)>>
        BY <1>3, <2>3 DEF Start
      <3>3. toHost = <<>> /\ k = Exec2
        BY <2>3, <1>i DEF AnswerInv, SecondInv
      <3>4. \A t \in Types : answer(t) \in Answers /\ answer(t).step = k /\ answer(t).type = t
        BY <3>3, <1>b DEF Answers
      <3> HIDE DEF answer
      <3>5. /\ answer(type) \in Answers /\ answer(type).step = k /\ answer(type).type # "LOG"
            /\ answer("LOG") \in Answers /\ answer("LOG").step = k /\ answer("LOG").type = "LOG"
        BY <3>4 DEF Types
      <3>6. CASE log
        <4>1. <<>> \o <<answer("LOG")>> = <<answer("LOG")>>
          BY Single
        <4>2. <<answer("LOG")>> \o <<answer(type)>> = <<answer("LOG"), answer(type)>>
          <5> DEFINE l == answer("LOG")
                     a == answer(type)
                     s == <<l>>
                     t == <<a>>
                     u == <<l, a>>
          <5>1. /\ s \in Seq(Answers) /\ Len(s) = 1 /\ s[1] = l
                /\ t \in Seq(Answers) /\ Len(t) = 1 /\ t[1] = a
                /\ u \in Seq(Answers) /\ Len(u) = 2 /\ u[1] = l /\ u[2] = a
            BY <3>5
          <5> HIDE DEF l, a, s, t, u
          <5>2. /\ s \o t \in Seq(Answers) /\ Len(s \o t) = Len(s) + Len(t)
                /\ \A j \in 1 .. Len(s) : (s \o t)[j] = s[j]
                /\ \A j \in Len(s) + 1 .. Len(s) + Len(t) : (s \o t)[j] = t[j - Len(s)]
            BY <5>1, Joined
          <5>3. Len(s \o t) = 2 /\ (s \o t)[1] = l /\ (s \o t)[2] = a
            BY <5>1, <5>2
          <5>4. \A j \in 1 .. Len(s \o t) : (s \o t)[j] = u[j]
            BY <5>1, <5>3
          <5>5. s \o t = u
            BY <5>1, <5>2, <5>3, <5>4, SeqEqual
          <5> QED BY <5>5 DEF s, t, u, l, a
        <4>3. toHost' = <<answer("LOG"), answer(type)>>
          BY <3>2, <3>3, <3>6, <4>1, <4>2
        <4>4. Up2
          BY <2>1, <2>3, <3>1, <3>5, <4>3 DEF Up2
        <4> QED BY <2>1, <4>4, <1>d DEF DeviceStep, Quiet
      <3>7. CASE ~log
        <4>1. toHost' = <<answer(type)>>
          BY <3>2, <3>3, <3>7, Single
        <4>2. Up2
          BY <2>1, <2>3, <3>1, <3>5, <4>1 DEF Up2
        <4> QED BY <2>1, <4>2, <1>d DEF DeviceStep, Quiet
      <3> QED BY <3>6, <3>7
    <2> QED BY <2>2, <2>3, <1>3 DEF Start
  <1>4. CASE FdlVersion
    <2>1. toDev # <<>> /\ stage = "header" /\ stage' = "fdl" /\ UNCHANGED <<down, naks>>
      BY <1>4 DEF FdlVersion, FirstHeader
    <2>2. /\ Request = toDev[1] /\ 1 \in DOMAIN toDev
          /\ Request.step \in {ExecAt, BaudAt, k} /\ Request.step <= k
      BY <2>1, <1>i, HeadFacts
    <2>3. Request.step > ExecAt /\ k <= BaudAt
      BY <2>1, <2>2, <1>i DEF StageInv
    <2>4. k = BaudAt /\ Request.step = k
      BY <2>2, <2>3, <1>b
    <2>5. toHost = <<>>
      BY <2>1, <2>4, <1>i DEF AnswerInv
    <2>6. PICK id \in {chip, 0} : Take(<<[Reply("VER") EXCEPT !.id = id]>>)
      BY <1>4 DEF FdlVersion
    <2> DEFINE a == [Reply("VER") EXCEPT !.id = id]
    <2>7. a \in Answers /\ a.step = k /\ a.type # "LOG"
      BY <2>1, <2>4, <1>i, ReplyIs DEF Types
    <2>8. Popping /\ toHost' = <<a>> /\ UNCHANGED host
      BY <2>5, <2>6, Single DEF Take, Popping
    <2> HIDE DEF a
    <2>9. Version(a)
      BY <2>1, <2>4, <2>7, <2>8 DEF Version
    <2> QED BY <2>1, <2>8, <2>9, <1>d DEF DeviceStep, Quiet
  <1>5. CASE FdlStep
    <2>1. stage \in {"fdl", "fdl2"} /\ toDev # <<>>
      BY <1>5 DEF FdlStep
    <2>2. /\ Request = toDev[1] /\ 1 \in DOMAIN toDev /\ Request.cmd = Program(opts)[Request.step]
          /\ Request.sum = IF Request.step > ExecAt THEN "sum" ELSE "crc16"
          /\ Request.step \in {ExecAt, BaudAt, k} /\ Request.step <= k
          /\ Request.step \in 1 .. Len(Program(opts))
      BY <2>1, <1>i, HeadFacts
    <2>3. Request.step > ExecAt
      BY <2>1, <2>2, <1>i DEF StageInv
    <2>4. Request.sum = "sum"
      BY <2>2, <2>3
    <2>5. CASE Request.cmd = "baud4" /\ Take(<<>>) /\ UNCHANGED <<stage, down, naks>>
      <3>1. toHost \in Seq(Answers)
        BY <1>i DEF TypeInv
      <3>2. toHost' = toHost /\ Popping /\ UNCHANGED host
        BY <2>5, <3>1, ConcatEmptySeq DEF Take, Popping
      <3>3. Skipped
        BY <2>1, <2>5, <3>2 DEF Skipped
      <3> QED BY <2>5, <3>2, <3>3, <1>d DEF DeviceStep, Quiet
    <2>6. CASE Request.cmd # "baud4" /\ Handlers /\ UNCHANGED naks
      <3>1. Request.step # BaudAt
        BY <2>2, <2>6, <1>c
      <3>2. Request.step = k /\ k > BaudAt
        BY <2>2, <2>3, <3>1, <1>b
      <3> QED BY <2>1, <2>6, <3>2, <1>b, HandlerStep
    <2> QED BY <2>4, <2>5, <2>6, <1>5 DEF FdlStep
  <1> QED BY <1>1, <1>2, <1>3, <1>4, <1>5

-----------------------------------------------------------------------------
(* The steps of the device keep the invariant.                             *)

LEMMA OneAnswer ==
  ASSUME NEW S, NEW a \in S
  PROVE  /\ <<a>> \in Seq(S) /\ <<a>> # <<>> /\ Len(<<a>>) = 1 /\ DOMAIN <<a>> = 1 .. 1
         /\ <<a>>[1] = a /\ Head(<<a>>) = a /\ Tail(<<a>>) = <<>>
  OBVIOUS

LEMMA DeviceKeeps ==
  ASSUME BootInv, DeviceStep
  PROVE  BootInv'
  <1>i. TypeInv /\ RequestInv /\ AnswerInv /\ StageInv /\ SecondInv /\ DownInv
    BY DEF BootInv
  <1>q. UNCHANGED host /\ naks' = naks /\ down' \in [size : {-1, 2}, recv : 0 .. 2]
    BY DEF DeviceStep, Quiet
  <1>h. UNCHANGED <<opts, chip, k, pc, tries, known, judged>>
    BY <1>q DEF host
  <1>e. /\ ExecAt' = ExecAt /\ BaudAt' = BaudAt /\ Exec2' = Exec2
        /\ Program(opts)' = Program(opts) /\ Step' = Step
    BY <1>h, SameProgram DEF Step
  <1>b. /\ ExecAt \in {6, 7} /\ BaudAt = ExecAt + 1 /\ k \in Nat /\ Exec2 \in Nat /\ Exec2 > BaudAt + 2
        /\ Len(Program(opts)) \in Nat /\ Len(Program(opts)) > BaudAt
    <2>1. k \in Nat
      BY <1>i, ProgramFacts, SMTT(40) DEF TypeInv, TypeOK
    <2> QED BY <2>1, <1>i, ProgramFacts, SMTT(40) DEF TypeInv
  <1>j. SumsAgree' /\ AnswersMatch'
    BY <1>q, <1>h DEF BootInv, SumsAgree, AnswersMatch
  <1>a. Answers' = Answers
    BY <1>h DEF Answers
  <1>t. ASSUME toDev' \in Seq(Requests), toHost' \in Seq(Answers),
               stage' \in {"rom", "start1", "header", "fdl", "start2", "fdl2", "dead"}
        PROVE  TypeInv'
    <2>1. TypeOK'
      <3>1. down'.recv \in 0 .. 2
        BY <1>q
      <3> QED BY <3>1, <1>t, <1>h, <1>q, <1>i DEF TypeInv, TypeOK
    <2>2. Requests' = Requests
      BY DEF Requests
    <2> QED BY <2>1, <2>2, <1>t, <1>a, <1>h, <1>q, <1>e, <1>i DEF TypeInv
  <1>w. \A j : (j = k /\ ~Waiting(j)') => ~Waiting(k)'
    BY <1>h DEF Waiting
  <1>s. stage \in {"rom", "start1", "header", "fdl", "start2", "fdl2", "dead"}
        /\ toHost \in Seq(Answers) /\ toDev \in Seq(Requests)
    BY <1>i DEF TypeInv, TypeOK
  <1>p. ASSUME Popping
        PROVE  /\ toDev' \in Seq(Requests) /\ RequestInv'
               /\ ~Waiting(k) => ~Waiting(k)'
               /\ ~Waiting(Exec2) => ~Waiting(Exec2)'
               /\ Request.step = k /\ k # BaudAt => ~Waiting(k)'
               /\ (\A i \in DOMAIN toDev : toDev[i].step > ExecAt)
                    => \A i \in DOMAIN toDev' : toDev'[i].step > ExecAt
               /\ Request.step = ExecAt => \A i \in DOMAIN toDev' : toDev'[i].step > ExecAt
    <2>1. toDev # <<>> /\ toDev' = Tail(toDev)
      BY <1>p DEF Popping
    <2>2. /\ toDev' \in Seq(Requests)
          /\ RequestInv'
          /\ \A j : ~Waiting(j) => ~Waiting(j)'
          /\ Request.step = k /\ k # BaudAt => ~Waiting(k)'
          /\ \A i \in DOMAIN toDev' : \E h \in DOMAIN toDev : toDev'[i] = toDev[h]
          /\ Request.step = ExecAt => \A i \in DOMAIN toDev' : toDev'[i].step > ExecAt
      BY <2>1, <1>i, <1>h, Popped
    <2>3. ~Waiting(k) => ~Waiting(k)'
      <3>1. ~Waiting(k) => \A h \in DOMAIN toDev : toDev[h].step # k
        BY DEF Waiting
      <3> QED BY <2>2, <3>1, <1>h DEF Waiting
    <2>4. ~Waiting(Exec2) => ~Waiting(Exec2)'
      <3>1. ~Waiting(Exec2) => \A h \in DOMAIN toDev : toDev[h].step # Exec2
        BY DEF Waiting
      <3> QED BY <2>2, <3>1, <1>e DEF Waiting
    <2> QED BY <2>2, <2>3, <2>4
  <1>1. ASSUME NEW a, Answered(a) PROVE BootInv'
    <2>0. /\ Popping /\ Request.step = k /\ k # BaudAt
          /\ toHost' = <<a>> /\ a \in Answers /\ a.step = k /\ a.type # "LOG"
      BY <1>1 DEF Answered
    <2>p. /\ toDev' \in Seq(Requests) /\ RequestInv' /\ ~Waiting(k)'
          /\ ~Waiting(Exec2) => ~Waiting(Exec2)'
          /\ (\A i \in DOMAIN toDev : toDev[i].step > ExecAt)
               => \A i \in DOMAIN toDev' : toDev'[i].step > ExecAt
          /\ Request.step = ExecAt => \A i \in DOMAIN toDev' : toDev'[i].step > ExecAt
      BY <2>0, <1>p
    <2>a. toHost = <<>> /\ pc \in {"recv", "exit"} /\ k \in 1 .. Len(Program(opts))
      <3>1. toDev # <<>>
        BY <2>0 DEF Popping
      <3> QED BY <2>0, <3>1, <1>i, Alone
    <2>r. Waiting(k)
      <3>1. toDev # <<>>
        BY <2>0 DEF Popping
      <3> QED BY <2>0, <3>1, <1>i, HeadFacts
    <2>o. /\ toHost' \in Seq(Answers) /\ toHost' # <<>> /\ Len(toHost') = 1 /\ DOMAIN toHost' = 1 .. 1
          /\ toHost'[1] = a /\ Head(toHost') = a
      BY <2>0, OneAnswer
    <2>g. stage' # "start2" => AnswerInv'
      <3> SUFFICES ASSUME stage' # "start2" PROVE AnswerInv'
        OBVIOUS
      <3>1. \A i \in DOMAIN toHost' : toHost'[i].step = k
        BY <2>0, <2>o
      <3>2. toHost'[Len(toHost')].type # "LOG"
        BY <2>0, <2>o
      <3> QED BY <3>1, <3>2, <2>o, <2>p, <2>a, <2>0, <1>h, <1>e DEF AnswerInv
    <2>1. CASE /\ stage' = stage /\ stage \in {"rom", "fdl", "fdl2"}
               /\ k # ExecAt
               /\ stage = "rom" /\ k >= 3 => down'.size = 2
               /\ opts.fdls = 2 /\ k = Exec2 => a.type = "INVALID_CMD"
      <3>1. TypeInv' /\ AnswerInv'
        BY <2>1, <2>p, <2>o, <2>g, <1>t
      <3>2. StageInv'
        BY <2>1, <2>0, <2>p, <1>h, <1>e, <1>b, <1>i DEF StageInv
      <3>3. SecondInv'
        BY <2>1, <2>0, <2>p, <2>a, <2>o, <2>r, <1>h, <1>e, <1>b, <1>i DEF SecondInv
      <3>4. DownInv'
        BY <2>1, <1>h, <1>b DEF DownInv
      <3> QED BY <3>1, <3>2, <3>3, <3>4, <2>p, <1>j DEF BootInv
    <2>2. CASE stage = "rom" /\ stage' = "start1" /\ k = ExecAt
      <3>1. TypeInv' /\ AnswerInv'
        BY <2>2, <2>p, <2>o, <2>g, <1>t
      <3>2. StageInv'
        BY <2>2, <2>0, <2>p, <2>a, <1>h, <1>e, <1>b, <1>i DEF StageInv
      <3>3. SecondInv'
        BY <2>2, <1>h, <1>e, <1>b DEF SecondInv
      <3>4. DownInv'
        BY <2>2 DEF DownInv
      <3> QED BY <3>1, <3>2, <3>3, <3>4, <2>p, <1>j DEF BootInv
    <2>3. CASE /\ stage = "fdl" /\ stage' = "dead"
               /\ Step = "start" /\ k > BaudAt /\ a.type = "OPERATION_FAILED"
      <3>1. TypeInv' /\ AnswerInv'
        BY <2>3, <2>p, <2>o, <2>g, <1>t
      <3>2. StageInv'
        BY <2>3, <2>0, <2>p, <1>h, <1>e, <1>b, <1>i DEF StageInv
      <3>3. k < Exec2
        <4>1. Program(opts)[k] = "start"
          BY <2>3 DEF Step
        <4> DEFINE f == Len(FirstFdl(opts))
        <4>2. k = 3 \/ k = f + 1
          BY <4>1, <2>a, <1>i, ProgramFacts, SMTT(40) DEF TypeInv
        <4>3. f + 1 < Exec2
          BY <1>i, ProgramFacts, SMTT(40) DEF TypeInv
        <4> QED BY <4>2, <4>3, <1>b
      <3>4. SecondInv'
        BY <2>3, <2>0, <2>p, <2>a, <2>o, <3>3, <1>h, <1>e, <1>b DEF SecondInv
      <3>5. DownInv'
        BY <2>3 DEF DownInv
      <3> QED BY <3>1, <3>2, <3>4, <3>5, <2>p, <1>j DEF BootInv
    <2> QED BY <2>1, <2>2, <2>3, <1>1 DEF Answered
  <1>2. ASSUME NEW a, Version(a) PROVE BootInv'
    <2>0. /\ Popping /\ k = BaudAt /\ stage = "header" /\ stage' = "fdl"
          /\ toHost' = <<a>> /\ a \in Answers /\ a.step = k /\ a.type # "LOG"
      BY <1>2 DEF Version
    <2>p. /\ toDev' \in Seq(Requests) /\ RequestInv'
          /\ (\A i \in DOMAIN toDev : toDev[i].step > ExecAt)
               => \A i \in DOMAIN toDev' : toDev'[i].step > ExecAt
      BY <2>0, <1>p
    <2>o. /\ toHost' \in Seq(Answers) /\ toHost' # <<>> /\ Len(toHost') = 1 /\ DOMAIN toHost' = 1 .. 1
          /\ toHost'[1] = a
      BY <2>0, OneAnswer
    <2>d. pc # "done"
      BY <2>0, <1>b, <1>i DEF TypeInv
    <2>1. TypeInv'
      BY <2>0, <2>p, <2>o, <1>t
    <2>2. AnswerInv'
      <3>1. \A i \in DOMAIN toHost' : toHost'[i].step = k
        BY <2>0, <2>o
      <3>2. toHost'[Len(toHost')].type # "LOG"
        BY <2>0, <2>o
      <3> QED BY <3>1, <3>2, <2>o, <2>0, <2>d, <1>h, <1>e DEF AnswerInv
    <2>3. StageInv'
      BY <2>0, <2>p, <1>h, <1>e, <1>b, <1>i DEF StageInv
    <2>4. SecondInv'
      BY <2>0, <1>h, <1>e, <1>b DEF SecondInv
    <2>5. DownInv'
      BY <2>0 DEF DownInv
    <2> QED BY <2>1, <2>2, <2>3, <2>4, <2>5, <2>p, <1>j DEF BootInv
  <1>3. CASE Skipped
    <2>0. Popping /\ toHost' = toHost /\ stage' = stage /\ stage # "rom"
      BY <1>3 DEF Skipped
    <2>p. /\ toDev' \in Seq(Requests) /\ RequestInv'
          /\ ~Waiting(k) => ~Waiting(k)'
          /\ ~Waiting(Exec2) => ~Waiting(Exec2)'
          /\ (\A i \in DOMAIN toDev : toDev[i].step > ExecAt)
               => \A i \in DOMAIN toDev' : toDev'[i].step > ExecAt
      BY <2>0, <1>p
    <2>1. TypeInv'
      BY <2>0, <2>p, <1>s, <1>t
    <2>2. AnswerInv'
      BY <2>0, <2>p, <1>h, <1>e, <1>i DEF AnswerInv
    <2>3. StageInv'
      BY <2>0, <2>p, <1>h, <1>e, <1>i DEF StageInv
    <2>4. SecondInv'
      BY <2>0, <2>p, <1>h, <1>e, <1>i DEF SecondInv
    <2>5. DownInv'
      BY <2>0 DEF DownInv
    <2> QED BY <2>1, <2>2, <2>3, <2>4, <2>5, <2>p, <1>j DEF BootInv
  <1>4. CASE Jumped
    <2>0. /\ Popping /\ Request.step = ExecAt /\ k = BaudAt
          /\ toHost' = toHost /\ stage = "rom" /\ stage' = "start1"
      BY <1>4 DEF Jumped
    <2>p. /\ toDev' \in Seq(Requests) /\ RequestInv'
          /\ \A i \in DOMAIN toDev' : toDev'[i].step > ExecAt
      BY <2>0, <1>p
    <2>a. toHost = <<>>
      BY <2>0, <1>i DEF AnswerInv
    <2>1. TypeInv'
      BY <2>0, <2>p, <1>s, <1>t
    <2>2. AnswerInv'
      BY <2>0, <2>a, <1>h, <1>i DEF AnswerInv
    <2>3. StageInv'
      BY <2>0, <2>p, <1>h, <1>e, <1>b DEF StageInv
    <2>4. SecondInv'
      BY <2>0, <1>h, <1>e, <1>b DEF SecondInv
    <2>5. DownInv'
      BY <2>0 DEF DownInv
    <2> QED BY <2>1, <2>2, <2>3, <2>4, <2>5, <2>p, <1>j DEF BootInv
  <1>5. CASE Restarted
    <2>0. /\ Popping /\ Request.step = k /\ k = Exec2 /\ opts.fdls = 2
          /\ toHost = <<>> /\ toHost' = <<>> /\ stage = "fdl" /\ stage' = "start2"
      BY <1>5 DEF Restarted
    <2>p. /\ toDev' \in Seq(Requests) /\ RequestInv' /\ ~Waiting(k)'
          /\ (\A i \in DOMAIN toDev : toDev[i].step > ExecAt)
               => \A i \in DOMAIN toDev' : toDev'[i].step > ExecAt
      BY <2>0, <1>p, <1>b
    <2>a. pc \in {"recv", "exit"}
      <3>1. toDev # <<>>
        BY <2>0 DEF Popping
      <3> QED BY <2>0, <3>1, <1>b, <1>i, Alone
    <2>w. ~Waiting(Exec2)'
      BY <2>0, <2>p, <1>h, <1>e DEF Waiting
    <2>1. TypeInv'
      BY <2>0, <2>p, <1>s, <1>t
    <2>2. AnswerInv'
      BY <2>0, <1>h, <1>i DEF AnswerInv
    <2>3. StageInv'
      BY <2>0, <2>p, <1>h, <1>e, <1>b, <1>i DEF StageInv
    <2>4. SecondInv'
      BY <2>0, <2>a, <2>w, <1>h, <1>e, <1>b DEF SecondInv
    <2>5. DownInv'
      BY <2>0 DEF DownInv
    <2> QED BY <2>1, <2>2, <2>3, <2>4, <2>5, <2>p, <1>j DEF BootInv
  <1>r. ASSUME toDev' = toDev
        PROVE  /\ RequestInv' /\ (Waiting(k)' <=> Waiting(k)) /\ (Waiting(Exec2)' <=> Waiting(Exec2))
    <2>1. (Waiting(k)' <=> Waiting(k)) /\ (Waiting(Exec2)' <=> Waiting(Exec2))
      BY <1>r, <1>h, <1>e DEF Waiting
    <2>2. \A i \in DOMAIN toDev' : toDev'[i] = RequestOf(toDev[i].step)'
      BY <1>r, <1>h, <1>e, <1>i DEF RequestInv, RequestOf
    <2> QED BY <2>1, <2>2, <1>r, <1>h, <1>e, <1>i DEF RequestInv
  <1>6. CASE Up1
    <2>0. toDev' = toDev /\ toHost' = toHost /\ stage = "start1" /\ stage' = "header"
      BY <1>6 DEF Up1
    <2>1. TypeInv' /\ RequestInv'
      BY <2>0, <1>s, <1>t, <1>r
    <2>2. AnswerInv'
      BY <2>0, <1>r, <1>h, <1>e, <1>i DEF AnswerInv
    <2>3. StageInv'
      BY <2>0, <1>h, <1>e, <1>i DEF StageInv
    <2>4. SecondInv'
      BY <2>0, <1>h, <1>e, <1>i DEF SecondInv
    <2>5. DownInv'
      BY <2>0 DEF DownInv
    <2> QED BY <2>1, <2>2, <2>3, <2>4, <2>5, <1>j DEF BootInv
  <1>7. CASE Up2
    <2>0. toDev' = toDev /\ stage = "start2" /\ stage' = "fdl2"
      BY <1>7 DEF Up2
    <2>1. PICK a \in Answers :
            /\ a.step = k /\ a.type # "LOG"
            /\ \/ toHost' = <<a>>
               \/ \E l \in Answers : l.step = k /\ l.type = "LOG" /\ toHost' = <<l, a>>
      BY <1>7 DEF Up2
    <2>2. /\ toHost' \in Seq(Answers) /\ toHost' # <<>> /\ Len(toHost') \in 1 .. 2
          /\ \A i \in DOMAIN toHost' : toHost'[i].step = k
          /\ Len(toHost') = 2 => toHost'[1].type = "LOG"
          /\ toHost'[Len(toHost')].type # "LOG"
      <3>1. CASE toHost' = <<a>>
        <4>1. /\ toHost' \in Seq(Answers) /\ toHost' # <<>> /\ Len(toHost') = 1
              /\ DOMAIN toHost' = 1 .. 1 /\ toHost'[1] = a
          BY <3>1, OneAnswer
        <4> QED BY <4>1, <2>1
      <3>2. CASE \E l \in Answers : l.step = k /\ l.type = "LOG" /\ toHost' = <<l, a>>
        <4>1. PICK l \in Answers : l.step = k /\ l.type = "LOG" /\ toHost' = <<l, a>>
          BY <3>2
        <4>2. /\ toHost' \in Seq(Answers) /\ toHost' # <<>> /\ Len(toHost') = 2
              /\ DOMAIN toHost' = 1 .. 2 /\ toHost'[1] = l /\ toHost'[2] = a
          BY <4>1
        <4> QED BY <4>1, <4>2, <2>1
      <3> QED BY <3>1, <3>2, <2>1
    <2>3. /\ opts.fdls = 2 /\ k = Exec2 /\ ~Waiting(Exec2) /\ ~Waiting(k) /\ pc \in {"recv", "exit"}
      BY <2>0, <1>i DEF SecondInv
    <2>4. TypeInv' /\ RequestInv'
      BY <2>0, <2>2, <1>t, <1>r, <1>s
    <2>5. AnswerInv'
      BY <2>0, <2>2, <2>3, <1>r, <1>h, <1>e, <1>b DEF AnswerInv
    <2>6. StageInv'
      BY <2>0, <2>3, <1>h, <1>e, <1>b, <1>i DEF StageInv
    <2>7. SecondInv'
      BY <2>0, <2>3, <1>r, <1>h, <1>e, <1>b DEF SecondInv
    <2>8. DownInv'
      BY <2>0 DEF DownInv
    <2> QED BY <2>4, <2>5, <2>6, <2>7, <2>8, <1>j DEF BootInv
  <1> QED BY <1>1, <1>2, <1>3, <1>4, <1>5, <1>6, <1>7 DEF DeviceStep

-----------------------------------------------------------------------------
(* The steps of the host.                                                  *)

\* What Send puts on the wire.
LEMMA Sent ==
  ASSUME TypeInv, pc = "send"
  PROVE  /\ k \in 1 .. Len(Program(opts))
         /\ [cmd |-> Step, sum |-> Sum, step |-> k] = RequestOf(k)
         /\ RequestOf(k) \in Requests /\ RequestOf(k).step = k
  <1>1. k \in 1 .. Len(Program(opts)) + 1 /\ ~(k > Len(Program(opts)))
    BY DEF TypeInv, TypeOK
  <1>2. Len(Program(opts)) \in Nat /\ Program(opts) \in Seq(Commands)
    BY ProgramFacts, SMTT(40) DEF TypeInv
  <1>3. k \in 1 .. Len(Program(opts))
    BY <1>1, <1>2
  <1>4. Program(opts)[k] \in Commands
    BY <1>2, <1>3, ElementOfSeq
  <1>5. RequestOf(k) \in Requests /\ RequestOf(k).step = k
    BY <1>3, <1>4 DEF RequestOf, Requests
  <1>6. [cmd |-> Step, sum |-> Sum, step |-> k] = RequestOf(k)
    BY DEF RequestOf, Step, Sum, ExecAt
  <1> QED BY <1>3, <1>5, <1>6

\* A request behind the queue.
LEMMA Appended ==
  ASSUME TypeInv, RequestInv, pc = "send", opts' = opts, k' = k, pc' = "recv",
         toDev' = Append(toDev, RequestOf(k))
  PROVE  /\ toDev' \in Seq(Requests) /\ RequestInv'
         /\ DOMAIN toDev' = 1 .. Len(toDev) + 1
         /\ \A i \in DOMAIN toDev : toDev'[i] = toDev[i]
         /\ \A i \in DOMAIN toDev' : toDev'[i].step = k \/ (i \in DOMAIN toDev /\ toDev'[i] = toDev[i])
         /\ \A j : j # k /\ ~Waiting(j) => ~Waiting(j)'
  <1> DEFINE q == toDev'
             n == Len(toDev)
  <1>1. RequestOf(k) \in Requests /\ RequestOf(k).step = k /\ k \in Nat
    BY Sent
  <1>2. toDev \in Seq(Requests) /\ n \in Nat /\ DOMAIN toDev = 1 .. n
    BY DEF TypeInv
  <1>3. /\ q \in Seq(Requests) /\ Len(q) = n + 1 /\ DOMAIN q = 1 .. n + 1
        /\ \A i \in 1 .. n : q[i] = toDev[i]
        /\ q[n + 1] = RequestOf(k)
    BY <1>1, <1>2
  <1>4. \A i \in DOMAIN q :
          \/ i \in DOMAIN toDev /\ q[i] = toDev[i]
          \/ i = n + 1 /\ q[i] = RequestOf(k) /\ q[i].step = k
    BY <1>1, <1>2, <1>3
  <1>5. /\ ExecAt' = ExecAt /\ BaudAt' = BaudAt
    BY SameProgram
  <1>6. \A i \in DOMAIN q :
          /\ q[i] = RequestOf(q[i].step)
          /\ q[i].step \in {ExecAt, BaudAt, k} /\ q[i].step <= k
    BY <1>1, <1>4 DEF RequestInv
  <1>7. \A i \in DOMAIN toDev' :
          /\ toDev'[i] = RequestOf(toDev[i].step)'
          /\ toDev'[i].step \in {ExecAt', BaudAt', k'} /\ toDev'[i].step <= k'
    BY <1>5, <1>6 DEF RequestOf
  <1>8. ASSUME NEW i \in DOMAIN q, NEW j \in DOMAIN q, i < j
        PROVE  \/ q[i].step < q[j].step
               \/ q[i].step = BaudAt /\ q[j].step = BaudAt
    <2>1. i \in DOMAIN toDev /\ q[i] = toDev[i]
      BY <1>2, <1>3, <1>8
    <2>2. CASE j \in DOMAIN toDev /\ q[j] = toDev[j]
      BY <2>1, <2>2, <1>8 DEF RequestInv
    <2>3. CASE q[j].step = k
      <3>1. toDev[i].step <= k /\ (k = BaudAt \/ toDev[i].step # k)
        BY <2>1 DEF RequestInv, Waiting
      <3>2. toDev[i].step \in Nat
        <4>1. toDev[i] \in Requests
          BY <2>1, <1>2, ElementOfSeq
        <4> QED BY <4>1 DEF Requests
      <3> QED BY <2>1, <2>3, <3>1, <3>2, <1>1
    <2> QED BY <2>2, <2>3, <1>4
  <1>9. RequestInv'
    BY <1>5, <1>7, <1>8 DEF RequestInv
  <1>10. \A j : j # k /\ ~Waiting(j) => ~Waiting(j)'
    <2> TAKE j
    <2> HAVE j # k /\ ~Waiting(j)
    <2>1. \A i \in DOMAIN q : q[i].step # j
      BY <1>4 DEF Waiting
    <2> QED BY <2>1 DEF Waiting
  <1> QED BY <1>2, <1>3, <1>4, <1>9, <1>10

LEMMA SendKeeps ==
  ASSUME BootInv, BootAssumption, Send
  PROVE  BootInv'
  <1>i. TypeInv /\ RequestInv /\ AnswerInv /\ StageInv /\ SecondInv /\ DownInv
    BY DEF BootInv
  <1>h. pc = "send" /\ UNCHANGED <<opts, chip, known, judged, toHost, stage, down, naks>>
    BY DEF Send
  <1>e. /\ ExecAt' = ExecAt /\ BaudAt' = BaudAt /\ Exec2' = Exec2
        /\ Program(opts)' = Program(opts)
    BY <1>h, SameProgram
  <1>b. /\ ExecAt \in {6, 7} /\ BaudAt = ExecAt + 1 /\ Exec2 \in Nat /\ Exec2 > BaudAt
        /\ Len(Program(opts)) \in Nat /\ Len(Program(opts)) > BaudAt
        /\ k \in 1 .. Len(Program(opts))
    <2>1. k \in 1 .. Len(Program(opts))
      BY <1>h, <1>i, Sent
    <2> QED BY <2>1, <1>i, ProgramFacts, SMTT(40) DEF TypeInv
  <1>j. SumsAgree' /\ AnswersMatch'
    BY <1>h DEF BootInv, SumsAgree, AnswersMatch
  <1>t. ASSUME toDev' \in Seq(Requests), pc' \in {"send", "recv", "exit"},
               k' \in 1 .. Len(Program(opts)), tries' \in 0 .. Tries, pc' = "send" => tries' < Tries
        PROVE  TypeInv'
    <2>1. TypeOK'
      BY <1>t, <1>h, <1>e, <1>b, <1>i DEF TypeInv, TypeOK
    <2>2. Requests' = Requests /\ Answers' = Answers
      BY <1>h DEF Requests, Answers
    <2>3. pc' # "done" /\ ~(k' > Len(Program(opts)))
      BY <1>t, <1>b
    <2> QED BY <2>1, <2>2, <2>3, <1>t, <1>h, <1>e, <1>i DEF TypeInv
  <1>c. Tries \in Nat \ {0} /\ tries \in 0 .. Tries /\ tries < Tries
    BY <1>h, <1>i DEF BootAssumption, TypeInv, TypeOK
  <1>d. stage # "dead" /\ (stage \in {"start2", "fdl2"} => k # Exec2)
    BY <1>h, <1>i DEF SecondInv
  <1>1. CASE Step = "efuse" /\ known = 0 /\ pc' = "exit" /\ UNCHANGED <<k, tries, toDev>>
    <2>1. k # ExecAt
      <3>1. Program(opts)[k] \notin {"jump", "exec"}
        BY <1>1 DEF Step
      <3> QED BY <3>1, <1>b, <1>i, ProgramFacts, SMTT(40) DEF TypeInv
    <2>2. TypeInv'
      BY <1>1, <1>t, <1>b, <1>c, <1>i DEF TypeInv
    <2>3. RequestInv'
      <3>1. \A i \in DOMAIN toDev' : toDev'[i] = RequestOf(toDev[i].step)'
        BY <1>1, <1>h, <1>e, <1>i DEF RequestInv, RequestOf
      <3> QED BY <3>1, <1>1, <1>e, <1>i DEF RequestInv
    <2>w. (Waiting(k)' <=> Waiting(k)) /\ (Waiting(Exec2)' <=> Waiting(Exec2))
      BY <1>1, <1>e DEF Waiting
    <2>b. k # BaudAt
      <3>1. Program(opts)[k] # "baud4"
        BY <1>1 DEF Step
      <3> QED BY <3>1, <1>b, <1>i, ProgramFacts, SMTT(40) DEF TypeInv
    <2>4. AnswerInv'
      BY <2>b, <2>w, <1>1, <1>h, <1>e, <1>i DEF AnswerInv
    <2>5. StageInv'
      BY <2>1, <1>1, <1>h, <1>e, <1>i DEF StageInv
    <2>6. SecondInv'
      BY <2>w, <1>1, <1>h, <1>e, <1>d, <1>i DEF SecondInv
    <2>7. DownInv'
      BY <1>1, <1>h, <1>i DEF DownInv
    <2> QED BY <2>2, <2>3, <2>4, <2>5, <2>6, <2>7, <1>j DEF BootInv
  <1>2. CASE Step # "jump" /\ k' = k /\ pc' = "recv" /\ tries' = tries + 1
             /\ toDev' = Append(toDev, [cmd |-> Step, sum |-> Sum, step |-> k])
    <2>0. toDev' = Append(toDev, RequestOf(k))
      BY <1>2, <1>h, <1>i, Sent
    <2>p. /\ toDev' \in Seq(Requests) /\ RequestInv'
          /\ DOMAIN toDev' = 1 .. Len(toDev) + 1
          /\ \A i \in DOMAIN toDev : toDev'[i] = toDev[i]
          /\ \A i \in DOMAIN toDev' : toDev'[i].step = k \/ (i \in DOMAIN toDev /\ toDev'[i] = toDev[i])
          /\ \A j : j # k /\ ~Waiting(j) => ~Waiting(j)'
      BY <2>0, <1>2, <1>h, <1>i, Appended
    <2>j. k = ExecAt => ~opts.dist
      <3>1. Program(opts)[k] # "jump"
        BY <1>2 DEF Step
      <3> QED BY <3>1, <1>b, <1>i, ProgramFacts, SMTT(40) DEF TypeInv
    <2>l. toDev \in Seq(Requests) /\ Len(toDev) \in Nat /\ DOMAIN toDev = 1 .. Len(toDev)
      BY <1>i DEF TypeInv
    <2>1. TypeInv'
      BY <2>p, <1>2, <1>t, <1>b, <1>c
    <2>2. AnswerInv'
      BY <1>2, <1>h, <1>e, <1>i DEF AnswerInv
    <2>3. StageInv'
      <3>1. stage = "rom" => k <= ExecAt \/ (k = BaudAt /\ opts.dist /\ toDev' # <<>> /\ toDev'[1].step = ExecAt)
        <4> SUFFICES ASSUME stage = "rom", ~(k <= ExecAt)
                     PROVE  k = BaudAt /\ opts.dist /\ toDev' # <<>> /\ toDev'[1].step = ExecAt
          OBVIOUS
        <4>1. k = BaudAt /\ opts.dist /\ toDev # <<>> /\ toDev[1].step = ExecAt
          BY <1>i DEF StageInv
        <4>2. 1 \in DOMAIN toDev /\ Len(toDev') # 0
          BY <4>1, <2>l, <2>p
        <4> QED BY <4>1, <4>2, <2>p
      <3>2. stage # "rom" => k >= ExecAt /\ \A i \in DOMAIN toDev' : toDev'[i].step > ExecAt
        <4> SUFFICES ASSUME stage # "rom", NEW i \in DOMAIN toDev'
                     PROVE  k >= ExecAt /\ toDev'[i].step > ExecAt
          BY <1>i DEF StageInv
        <4>1. k > ExecAt
          BY <1>h, <1>b, <1>i DEF StageInv
        <4> QED BY <4>1, <1>b, <2>p, <1>i DEF StageInv
      <3> QED BY <3>1, <3>2, <2>j, <1>2, <1>h, <1>e, <1>i DEF StageInv
    <2>4. SecondInv'
      <3>1. stage \in {"start2", "fdl2"} => ~Waiting(Exec2)'
        <4>1. stage \in {"start2", "fdl2"} => ~Waiting(Exec2) /\ Exec2 # k
          BY <1>d, <1>i DEF SecondInv
        <4>2. stage \in {"start2", "fdl2"} => \A i \in DOMAIN toDev' : toDev'[i].step # Exec2
          BY <4>1, <2>p DEF Waiting
        <4> QED BY <4>2, <1>e DEF Waiting
      <3> QED BY <3>1, <1>2, <1>h, <1>e, <1>d, <1>i DEF SecondInv
    <2>5. DownInv'
      BY <1>2, <1>h, <1>i DEF DownInv
    <2> QED BY <2>p, <2>1, <2>2, <2>3, <2>4, <2>5, <1>j DEF BootInv
  <1>3. CASE Step = "jump" /\ Advance
             /\ toDev' = Append(toDev, [cmd |-> Step, sum |-> Sum, step |-> k])
    <2>0. toDev' = Append(toDev, RequestOf(k)) /\ RequestOf(k) \in Requests /\ RequestOf(k).step = k
      BY <1>3, <1>h, <1>i, Sent
    <2>1. k = ExecAt /\ opts.dist
      <3>1. Program(opts)[k] = "jump"
        BY <1>3 DEF Step
      <3> QED BY <3>1, <1>b, <1>i, ProgramFacts, SMTT(40) DEF TypeInv
    <2>2. k' = BaudAt /\ pc' = "send" /\ tries' = 0
      BY <2>1, <1>3, <1>b DEF Advance
    <2>3. stage = "rom" /\ toHost = <<>>
      BY <2>1, <1>h, <1>b, <1>i DEF StageInv, AnswerInv
    <2>4. toDev = <<>>
      <3> SUFFICES ASSUME toDev # <<>> PROVE FALSE
        OBVIOUS
      <3>1. Request.step \in {ExecAt, BaudAt, k} /\ Request.step <= k /\ Waiting(Request.step)
        BY <1>i, HeadFacts
      <3>2. ~Waiting(k)
        BY <2>1, <1>h, <1>b, <1>i DEF RequestInv
      <3> QED BY <3>1, <3>2, <2>1, <1>b
    <2>5. toDev' = <<RequestOf(k)>>
      BY <2>0, <2>4
    <2>6. /\ toDev' \in Seq(Requests) /\ toDev' # <<>> /\ Len(toDev') = 1 /\ DOMAIN toDev' = 1 .. 1
          /\ toDev'[1] = RequestOf(k) /\ toDev'[1].step = ExecAt
      BY <2>0, <2>1, <2>5, OneAnswer
    <2>7. RequestInv'
      <3>1. \A i \in DOMAIN toDev' :
              /\ toDev'[i] = RequestOf(toDev[i].step)'
              /\ toDev'[i].step = ExecAt
        BY <2>0, <2>1, <2>6, <1>h, <1>e DEF RequestOf
      <3> QED BY <3>1, <2>2, <2>6, <1>e, <1>b DEF RequestInv
    <2>8. TypeInv'
      BY <2>2, <2>6, <1>t, <1>b, <1>c
    <2>9. AnswerInv'
      BY <2>2, <2>3, <1>h, <1>i DEF AnswerInv
    <2>10. StageInv'
      BY <2>1, <2>2, <2>3, <2>6, <1>h, <1>e, <1>b DEF StageInv
    <2>11. SecondInv'
      BY <2>2, <2>3, <1>h, <1>e, <1>b DEF SecondInv
    <2>12. DownInv'
      BY <2>1, <2>2, <2>3, <1>h, <1>b, <1>i DEF DownInv
    <2> QED BY <2>7, <2>8, <2>9, <2>10, <2>11, <2>12, <1>j DEF BootInv
  <1> QED BY <1>1, <1>2, <1>3 DEF Send

\* The answer that the host looks at.
LEMMA FirstAnswer ==
  ASSUME TypeInv, AnswerInv, toHost # <<>>
  PROVE  /\ Answer = toHost[1] /\ Answer \in Answers /\ Answer.step = k
         /\ Len(toHost) \in {1, 2}
         /\ Answer.type # "LOG" => Len(toHost) = 1 /\ Tail(toHost) = <<>>
         /\ Answer.type = "LOG" =>
              /\ Len(toHost) = 2 /\ Tail(toHost) \in Seq(Answers) /\ Len(Tail(toHost)) = 1
              /\ DOMAIN Tail(toHost) = 1 .. 1 /\ Tail(toHost)[1] = toHost[2]
              /\ toHost[2].type # "LOG" /\ toHost[2].step = k
  <1>1. toHost \in Seq(Answers) /\ Len(toHost) \in Nat \ {0} /\ DOMAIN toHost = 1 .. Len(toHost)
    BY EmptySeq DEF TypeInv
  <1>2. Len(toHost) \in {1, 2}
    BY <1>1 DEF AnswerInv
  <1>3. Answer = toHost[1] /\ Answer \in Answers /\ 1 \in DOMAIN toHost
    BY <1>1 DEF Answer
  <1>4. Answer.step = k
    BY <1>3 DEF AnswerInv
  <1>5. /\ Tail(toHost) \in Seq(Answers) /\ Len(Tail(toHost)) = Len(toHost) - 1
        /\ \A i \in 1 .. Len(Tail(toHost)) : Tail(toHost)[i] = toHost[i + 1]
    BY <1>1, HeadTailProperties
  <1>6. ASSUME Answer.type # "LOG" PROVE Len(toHost) = 1 /\ Tail(toHost) = <<>>
    <2>1. Len(toHost) = 1
      BY <1>2, <1>3, <1>6 DEF AnswerInv
    <2>2. \A s \in Seq(Answers) : Len(s) = 0 => s = <<>>
      BY EmptySeq
    <2>3. Len(Tail(toHost)) = 0 /\ Tail(toHost) \in Seq(Answers)
      BY <2>1, <1>5
    <2> QED BY <2>1, <2>2, <2>3
  <1>7. ASSUME Answer.type = "LOG"
        PROVE  /\ Len(toHost) = 2 /\ Tail(toHost) \in Seq(Answers) /\ Len(Tail(toHost)) = 1
               /\ DOMAIN Tail(toHost) = 1 .. 1 /\ Tail(toHost)[1] = toHost[2]
               /\ toHost[2].type # "LOG" /\ toHost[2].step = k
    <2>1. Len(toHost) = 2
      BY <1>2, <1>3, <1>7 DEF AnswerInv
    <2>2. toHost[2].type # "LOG" /\ toHost[2].step = k
      BY <2>1, <1>1 DEF AnswerInv
    <2> DEFINE t == Tail(toHost)
    <2>3. t \in Seq(Answers) /\ Len(t) = 1 /\ \A i \in 1 .. Len(t) : t[i] = toHost[i + 1]
      BY <2>1, <1>5
    <2> HIDE DEF t
    <2>4. DOMAIN t = 1 .. 1 /\ t[1] = toHost[2]
      BY <2>3
    <2> QED BY <2>1, <2>2, <2>3, <2>4 DEF t
  <1> QED BY <1>2, <1>3, <1>4, <1>6, <1>7

LEMMA RecvKeeps ==
  ASSUME BootInv, BootAssumption, RecvLog \/ Recv \/ Timeout
  PROVE  BootInv'
  <1>i. TypeInv /\ RequestInv /\ AnswerInv /\ StageInv /\ SecondInv /\ DownInv
    BY DEF BootInv
  <1>h. pc = "recv" /\ UNCHANGED <<opts, chip, toDev, stage, down, naks>>
    BY DEF RecvLog, Recv, Timeout, host
  <1>e. /\ ExecAt' = ExecAt /\ BaudAt' = BaudAt /\ Exec2' = Exec2
        /\ Program(opts)' = Program(opts)
    BY <1>h, SameProgram
  <1>b. /\ ExecAt \in {6, 7} /\ BaudAt = ExecAt + 1 /\ Exec2 \in Nat /\ Exec2 > BaudAt
        /\ Len(Program(opts)) \in Nat /\ Len(Program(opts)) > BaudAt
        /\ k \in 1 .. Len(Program(opts))
    <2>1. k \in 1 .. Len(Program(opts)) + 1 /\ ~(k > Len(Program(opts)))
      BY <1>h, <1>i DEF TypeInv, TypeOK
    <2>2. Len(Program(opts)) \in Nat
      BY <1>i, ProgramFacts, SMTT(40) DEF TypeInv
    <2> QED BY <2>1, <2>2, <1>i, ProgramFacts, SMTT(40) DEF TypeInv
  <1>c. Tries \in Nat \ {0} /\ tries \in 0 .. Tries
    BY <1>i DEF BootAssumption, TypeInv, TypeOK
  <1>s. SumsAgree'
    BY <1>h DEF BootInv, SumsAgree
  <1>t. ASSUME toHost' \in Seq(Answers), pc' \in {"send", "recv", "done", "exit"},
               k' \in 1 .. Len(Program(opts)) + 1, pc' = "done" <=> k' > Len(Program(opts)),
               tries' \in 0 .. Tries, pc' = "send" => tries' < Tries, known' \in {0, chip}
        PROVE  TypeInv'
    <2>1. chip \in Chips
      BY <1>i DEF TypeInv
    <2>2. TypeOK'
      BY <2>1, <1>t, <1>h, <1>e, <1>i DEF TypeInv, TypeOK
    <2>3. Requests' = Requests /\ Answers' = Answers
      BY <1>h DEF Requests, Answers
    <2> QED BY <2>2, <2>3, <1>t, <1>h, <1>e, <1>i DEF TypeInv
  <1>q. /\ \A i \in DOMAIN toDev' : toDev'[i] = RequestOf(toDev[i].step)'
        /\ Waiting(Exec2)' <=> Waiting(Exec2)
    BY <1>h, <1>e, <1>i DEF RequestInv, RequestOf, Waiting
  <1>k. known \in {0, chip} /\ toHost \in Seq(Answers)
    BY <1>i DEF TypeInv
  \* The steps that leave the step and its answers, or drop them.
  <1>1. ASSUME k' = k, judged' = judged \/ AnswersMatch', known' = known, tries' = tries,
               toHost' \in Seq(Answers), pc' \in {"send", "recv", "exit"},
               pc' = "send" => k = BaudAt /\ tries < Tries,
               AnswerInv', SecondInv', pc' = "recv" \/ toHost' = <<>>,
               toHost' # <<>> => toHost # <<>>
        PROVE  BootInv'
    <2>1. TypeInv'
      BY <1>1, <1>t, <1>b, <1>c, <1>k
    <2>2. RequestInv'
      BY <1>1, <1>q, <1>h, <1>e, <1>b, <1>i DEF RequestInv, Waiting
    <2>3. StageInv'
      BY <1>1, <1>h, <1>e, <1>b, <1>i DEF StageInv
    <2>4. DownInv'
      BY <1>1, <1>h, <1>i DEF DownInv
    <2>5. AnswersMatch'
      BY <1>1 DEF BootInv, AnswersMatch
    <2> QED BY <2>1, <2>2, <2>3, <2>4, <2>5, <1>1, <1>s DEF BootInv
  <1>2. CASE RecvLog
    <2>0. /\ toHost # <<>> /\ Answer.type = "LOG" /\ toHost' = Tail(toHost)
          /\ UNCHANGED <<k, pc, tries, known, judged>>
      BY <1>2 DEF RecvLog, AfterLog, host
    <2>1. /\ Answer = toHost[1] /\ Len(toHost) = 2 /\ toHost' \in Seq(Answers) /\ Len(toHost') = 1
          /\ DOMAIN toHost' = 1 .. 1 /\ toHost'[1] = toHost[2]
          /\ toHost[2].type # "LOG" /\ toHost[2].step = k
      BY <2>0, <1>i, FirstAnswer
    <2>2. Waiting(k)' <=> Waiting(k)
      BY <2>0, <1>h DEF Waiting
    <2>3. AnswerInv'
      <3>1. \A i \in DOMAIN toHost' : toHost'[i].step = k
        BY <2>1
      <3>2. toHost'[Len(toHost')].type # "LOG"
        BY <2>1
      <3> QED BY <3>1, <3>2, <2>0, <2>1, <2>2, <1>h, <1>e, <1>i DEF AnswerInv
    <2>4. SecondInv'
      <3>1. stage # "dead"
        <4>1. Head(toHost) = Answer
          BY DEF Answer
        <4> QED BY <4>1, <2>0, <1>i DEF SecondInv
      <3>2. toHost # <<Head(toHost)>>
        <4>1. Len(<<Head(toHost)>>) = 1
          OBVIOUS
        <4> QED BY <4>1, <2>1
      <3>3. opts.fdls = 2 /\ k = Exec2 => stage = "fdl2"
        BY <3>2, <2>0, <1>i DEF SecondInv
      <3> QED BY <3>1, <3>3, <2>0, <1>q, <1>h, <1>e, <1>i DEF SecondInv
    <2> QED BY <2>0, <2>1, <2>3, <2>4, <1>1, <1>h
  <1>3. CASE Timeout
    <2>0. /\ toHost = <<>> /\ toHost' = toHost /\ pc' = IF MayRetry THEN "send" ELSE "exit"
          /\ UNCHANGED <<k, tries, known, judged>>
      BY <1>3 DEF Timeout
    <2>1. MayRetry => k = BaudAt /\ tries < Tries
      <3>1. MayRetry => Program(opts)[k] = "baud4" /\ tries < Tries
        BY DEF MayRetry, Step
      <3> QED BY <3>1, <1>b, <1>i, ProgramFacts, SMTT(40) DEF TypeInv
    <2>2. AnswerInv'
      BY <2>0, <1>i DEF AnswerInv
    <2>3. SecondInv'
      <3>1. stage = "dead" => ~MayRetry
        BY DEF MayRetry, SecondInv, BootInv
      <3>2. stage \in {"start2", "fdl2"} => ~MayRetry
        BY <2>1, <1>b, <1>i DEF SecondInv
      <3>3. (Waiting(k)' <=> Waiting(k)) /\ Step' = Step
        BY <2>0, <1>h DEF Waiting, Step
      <3> QED BY <3>1, <3>2, <3>3, <2>0, <1>q, <1>h, <1>e, <1>i DEF SecondInv
    <2> QED BY <2>0, <2>1, <2>2, <2>3, <1>1, <1>k
  <1>4. CASE Recv
    <2>0. /\ toHost # <<>> /\ Answer.type # "LOG" /\ toHost' = Tail(toHost)
          /\ judged' = judged \cup {<<k, Answer.step>>}
      BY <1>4 DEF Recv
    <2>1. /\ Answer = toHost[1] /\ Answer \in Answers /\ Answer.step = k /\ toHost' = <<>>
      BY <2>0, <1>i, FirstAnswer
    <2>2. AnswersMatch'
      <3>1. \A pair \in judged' : pair \in judged \/ pair = <<k, k>>
        BY <2>0, <2>1
      <3>2. \A pair \in judged : pair[1] = pair[2]
        BY DEF BootInv, AnswersMatch
      <3> QED BY <3>1, <3>2 DEF AnswersMatch
    <2>e. <<>> \in Seq(Answers) /\ Len(<<>>) = 0 /\ DOMAIN <<>> = {}
      OBVIOUS
    <2>3. AnswerInv'
      BY <2>1, <2>e DEF AnswerInv
    <2>4. CASE ~Good /\ pc' = "exit" /\ UNCHANGED <<k, tries, known>>
      <3>1. SecondInv'
        <4>1. (Waiting(k)' <=> Waiting(k)) /\ Step' = Step
          BY <2>4, <1>h DEF Waiting, Step
        <4> QED BY <4>1, <2>1, <2>4, <1>q, <1>h, <1>e, <1>i DEF SecondInv
      <3> QED BY <2>1, <2>2, <2>3, <2>4, <2>e, <3>1, <1>1
    <2>5. CASE Good /\ Advance /\ LearnChip
      <3>0. /\ k' = k + 1 /\ tries' = 0
            /\ pc' = IF k = Len(Program(opts)) THEN "done" ELSE "send"
        BY <2>5 DEF Advance
      <3>1. TypeInv'
        <4>1. Answer.id \in {0, chip}
          BY <2>1 DEF Answers
        <4>2. known' \in {0, chip}
          BY <4>1, <2>5, <1>k DEF LearnChip
        <4>3. /\ pc' \in {"send", "recv", "done", "exit"} /\ k' \in 1 .. Len(Program(opts)) + 1
              /\ (pc' = "done" <=> k' > Len(Program(opts))) /\ tries' \in 0 .. Tries
              /\ (pc' = "send" => tries' < Tries)
          BY <3>0, <1>b, <1>c
        <4> QED BY <4>2, <4>3, <2>1, <2>e, <1>t
      <3>2. k # BaudAt => ~Waiting(k)
        BY <2>0, <1>i DEF AnswerInv
      <3>3. \A i \in DOMAIN toDev : toDev[i].step \in {ExecAt, BaudAt} /\ toDev[i].step <= k
        BY <3>2, <1>i DEF RequestInv, Waiting
      <3>4. RequestInv'
        <4>1. \A i \in DOMAIN toDev' :
                toDev'[i].step \in {ExecAt, BaudAt} /\ toDev'[i].step <= k' /\ toDev'[i].step # k'
          BY <3>0, <3>3, <1>h, <1>b
        <4>2. ~Waiting(k)'
          BY <4>1 DEF Waiting
        <4> QED BY <4>1, <4>2, <1>q, <1>h, <1>e, <1>i DEF RequestInv
      <3>5. StageInv'
        <4>1. k = ExecAt => stage \in {"start1", "header"}
          BY <2>0, <1>i DEF StageInv
        <4>2. k = BaudAt => stage = "fdl"
          BY <2>0, <1>i DEF AnswerInv
        <4>3. stage = "rom" => k < ExecAt
          BY <4>1, <4>2, <1>b, <1>i DEF StageInv
        <4>4. stage \in {"start1", "header"} => k <= ExecAt
          BY <4>2, <1>b, <1>i DEF StageInv
        <4>5. k < ExecAt => stage = "rom"
          BY <1>b, <1>i DEF StageInv
        <4>6. stage # "rom" => k >= ExecAt /\ \A i \in DOMAIN toDev : toDev[i].step > ExecAt
          BY <1>i DEF StageInv
        <4>7. k' = ExecAt => pc' = "send" /\ stage = "rom"
          BY <3>0, <4>5, <1>b
        <4>8. k' = BaudAt => stage \in {"start1", "header"}
          BY <3>0, <4>1, <1>b
        <4>9. stage = "rom" => k' <= ExecAt
          BY <4>3, <3>0, <1>b
        <4>10. stage \in {"start1", "header"} => k' <= BaudAt
          BY <4>4, <3>0, <1>b
        <4>11. stage # "rom" => k' >= ExecAt
          BY <4>6, <3>0, <1>b
        <4> QED BY <4>6, <4>7, <4>8, <4>9, <4>10, <4>11, <2>1, <1>h, <1>e DEF StageInv
      <3>6. SecondInv'
        <4>1. stage # "start2"
          BY <2>0, <1>i DEF AnswerInv
        <4>2. stage # "dead"
          <5> SUFFICES ASSUME stage = "dead" PROVE FALSE
            OBVIOUS
          <5>1. Step = "start" /\ Answer.type = "OPERATION_FAILED"
            BY <2>0, <1>i DEF SecondInv, Answer
          <5>2. Wanted(Step) = {"ACK"}
            BY <5>1 DEF Wanted
          <5> QED BY <5>1, <5>2, <2>5 DEF Good
        <4>3. opts.fdls = 2 /\ k = Exec2 => stage = "fdl2"
          <5> SUFFICES ASSUME opts.fdls = 2, k = Exec2, stage # "fdl2" PROVE FALSE
            OBVIOUS
          <5>1. Answer.type = "INVALID_CMD"
            BY <2>0, <1>i DEF SecondInv, Answer
          <5>2. Step = "exec2"
            BY <1>b, <1>i, ProgramFacts, SMTT(40) DEF Step, TypeInv
          <5>3. Wanted(Step) = {"ACK", "INCOMPATIBLE_PARTITION"}
            BY <5>2 DEF Wanted
          <5> QED BY <5>1, <5>3, <2>5 DEF Good
        <4>4. stage = "fdl2" => opts.fdls = 2 /\ k >= Exec2 /\ ~Waiting(Exec2)
          BY <1>i DEF SecondInv
        <4>5. stage = "fdl2" => k' > Exec2
          BY <4>4, <3>0, <1>b
        <4>6. opts.fdls = 2 /\ k' > Exec2 => stage = "fdl2"
          BY <4>3, <3>0, <1>b, <1>i DEF SecondInv
        <4> QED BY <4>1, <4>2, <4>4, <4>5, <4>6, <2>1, <1>q, <1>h, <1>e, <3>0, <1>b DEF SecondInv
      <3>7. DownInv'
        BY <2>0, <2>1, <3>0, <1>h, <1>b, <1>i DEF DownInv
      <3> QED BY <2>2, <2>3, <3>1, <3>4, <3>5, <3>6, <3>7, <1>s DEF BootInv
    <2> QED BY <2>4, <2>5, <1>4 DEF Recv
  <1> QED BY <1>2, <1>3, <1>4

-----------------------------------------------------------------------------
(* The theorems.                                                           *)

LEMMA BootInit == BootAssumption /\ Init => BootInv
  <1> SUFFICES ASSUME BootAssumption, Init PROVE BootInv
    OBVIOUS
  <1>1. opts \in Options /\ chip \in Chips
    BY DEF Init, Options
  <1>2. /\ ExecAt \in {6, 7} /\ BaudAt = ExecAt + 1 /\ Exec2 \in Nat /\ Exec2 > BaudAt
        /\ Len(Program(opts)) \in Nat /\ Len(Program(opts)) > BaudAt
    BY <1>1, ProgramFacts
  <1>3. <<>> \in Seq(Requests) /\ <<>> \in Seq(Answers) /\ Len(<<>>) = 0 /\ DOMAIN <<>> = {}
    OBVIOUS
  <1>4. /\ k = 1 /\ pc = "send" /\ tries = 0 /\ known = 0 /\ judged = {}
        /\ toDev = <<>> /\ toHost = <<>> /\ stage = "rom" /\ naks = 0
        /\ down = [size |-> -1, recv |-> 0]
    BY DEF Init
  <1>5. down \in [size : {-1, 2}, recv : 0 .. 2] /\ down.recv = 0
    BY <1>4
  <1>6. TypeInv
    BY <1>1, <1>2, <1>3, <1>4, <1>5 DEF TypeInv, TypeOK, BootAssumption
  <1>7. RequestInv /\ AnswerInv
    BY <1>3, <1>4 DEF RequestInv, AnswerInv, Waiting
  <1>8. StageInv /\ SecondInv /\ DownInv
    BY <1>2, <1>4 DEF StageInv, SecondInv, DownInv
  <1>9. SumsAgree /\ AnswersMatch
    BY <1>4 DEF SumsAgree, AnswersMatch
  <1> QED BY <1>6, <1>7, <1>8, <1>9 DEF BootInv

LEMMA BootStep == BootAssumption /\ BootInv /\ [Next]_vars => BootInv'
  <1> SUFFICES ASSUME BootAssumption, BootInv, [Next]_vars PROVE BootInv'
    OBVIOUS
  <1>1. CASE Send
    BY <1>1, SendKeeps
  <1>2. CASE RecvLog \/ Recv \/ Timeout
    BY <1>2, RecvKeeps
  <1>3. CASE RomStep \/ Lose \/ Start \/ FdlVersion \/ FdlStep
    BY <1>3, DeviceSteps, DeviceKeeps
  <1>4. CASE UNCHANGED vars
    BY <1>4 DEF vars, BootInv, TypeInv, TypeOK, RequestInv, AnswerInv, StageInv, SecondInv, DownInv,
                SumsAgree, AnswersMatch, Waiting, RequestOf, ExecAt, BaudAt, Exec2, Step, Answers,
                Requests
  <1> QED BY <1>1, <1>2, <1>3, <1>4 DEF Next, Host, Rest

LEMMA BootAlways == BootAssumption => (Spec => []BootInv)
  <1> SUFFICES ASSUME BootAssumption PROVE Spec => []BootInv
    OBVIOUS
  <1>1. Init => BootInv
    BY BootInit
  <1>2. BootInv /\ [Next]_vars => BootInv'
    BY BootStep
  <1> QED BY <1>1, <1>2, PTL DEF Spec

\* A check baud is sent at most as often as the host's loop allows, and a download never
\* receives more than was announced.
THEOREM BootTypeCorrect == BootAssumption => (Spec => []TypeOK)
  <1> SUFFICES ASSUME BootAssumption PROVE Spec => []TypeOK
    OBVIOUS
  <1>1. BootInv => TypeOK
    BY DEF BootInv, TypeInv
  <1>2. Spec => []BootInv
    BY BootAlways
  <1> QED BY <1>1, <1>2, PTL

\* Host, boot ROM and FDL change from CRC16 to the sum at the same message: no frame
\* meets the other check, however many check bauds are repeated, lost or late.
THEOREM BootSumsAgree == BootAssumption => (Spec => []SumsAgree)
  <1> SUFFICES ASSUME BootAssumption PROVE Spec => []SumsAgree
    OBVIOUS
  <1>1. BootInv => SumsAgree
    BY DEF BootInv
  <1>2. Spec => []BootInv
    BY BootAlways
  <1> QED BY <1>1, <1>2, PTL

\* No answer is taken for that of another request.
THEOREM BootAnswersMatch == BootAssumption => (Spec => []AnswersMatch)
  <1> SUFFICES ASSUME BootAssumption PROVE Spec => []AnswersMatch
    OBVIOUS
  <1>1. BootInv => AnswersMatch
    BY DEF BootInv
  <1>2. Spec => []BootInv
    BY BootAlways
  <1> QED BY <1>1, <1>2, PTL

LEMMA RunningFromInv == BootInv => DoneMeansRunning
  <1> SUFFICES ASSUME BootInv, pc = "done"
               PROVE  stage = IF opts.fdls = 2 THEN "fdl2" ELSE "fdl"
    BY DEF DoneMeansRunning
  <1>i. TypeInv /\ StageInv /\ SecondInv
    BY DEF BootInv
  <1>1. /\ ExecAt \in {6, 7} /\ BaudAt = ExecAt + 1 /\ Exec2 \in Nat
        /\ Len(Program(opts)) \in Nat /\ Len(Program(opts)) > BaudAt
        /\ opts.fdls = 2 => Len(Program(opts)) >= Exec2
    BY <1>i, ProgramFacts, SMTT(40) DEF TypeInv
  <1>2. k \in Nat /\ k > Len(Program(opts))
    BY <1>i, <1>1 DEF TypeInv, TypeOK
  <1>3. CASE opts.fdls = 2
    BY <1>1, <1>2, <1>3, <1>i DEF SecondInv
  <1>4. CASE opts.fdls # 2
    <2>1. stage \notin {"rom", "start1", "header"}
      BY <1>1, <1>2, <1>i DEF StageInv
    <2>2. stage \notin {"start2", "fdl2", "dead"}
      BY <1>4, <1>i DEF SecondInv
    <2> QED BY <2>1, <2>2, <1>4, <1>i DEF TypeInv, TypeOK
  <1> QED BY <1>3, <1>4

\* A boot that ends without an error has left the FDL that was asked for running.
THEOREM BootDoneMeansRunning == BootAssumption => (Spec => []DoneMeansRunning)
  <1> SUFFICES ASSUME BootAssumption PROVE Spec => []DoneMeansRunning
    OBVIOUS
  <1>1. BootInv => DoneMeansRunning
    BY RunningFromInv
  <1>2. Spec => []BootInv
    BY BootAlways
  <1> QED BY <1>1, <1>2, PTL

LEMMA ChipFromInv == BootAssumption /\ BootInv => ChipAgrees
  <1> SUFFICES ASSUME BootAssumption, BootInv, known # 0
               PROVE  /\ EfuseWords(known) = EfuseMax
                      /\ chip # \h9818 => FwAddr(known) = IF chip = \h6562 THEN 256 ELSE 768
    BY DEF ChipAgrees
  <1>1. known = chip /\ chip \in {\h6530, \h6531, \h6562, \h9818}
    BY DEF BootInv, TypeInv, BootAssumption
  <1>2. EfuseWords(chip) = EfuseMax
    BY <1>1 DEF EfuseWords, EfuseMax
  <1>3. chip # \h9818 => FwAddr(chip) = IF chip = \h6562 THEN 256 ELSE 768
    BY <1>1 DEF FwAddr
  <1> QED BY <1>1, <1>2, <1>3

\* What the host derives from the chip id in the version string is what the FDL has.
THEOREM BootChipAgrees == BootAssumption => (Spec => []ChipAgrees)
  <1> SUFFICES ASSUME BootAssumption PROVE Spec => []ChipAgrees
    OBVIOUS
  <1>1. BootInv => ChipAgrees
    BY ChipFromInv
  <1>2. Spec => []BootInv
    BY BootAlways
  <1> QED BY <1>1, <1>2, PTL
=============================================================================
