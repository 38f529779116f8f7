------------------------------- MODULE LzDec -------------------------------
(***************************************************************************)
(* fphelper and fphelper_t117: sprd_lzdec2 and sprd_lzdec3, the decoders   *)
(* of compressed segments (both programs have the same text), with the     *)
(* checks of IN, OUT and CHECK_DIST that end them.                         *)
(***************************************************************************)
EXTENDS Integers, SequencesExt

CONSTANTS
  Plans,  \* what an encoder may be asked to write, a set of sequences of segments
  Raw     \* streams that no encoder wrote

\* A segment is literals and then a copy from dist back, or zeros (lzdec3 only).
Segment == [lits : Seq(0 .. 255), copy : 0 .. 257, dist : 0 .. 1023]

LzAssumption ==
  /\ Plans \subseteq {2, 3} \X Seq(Segment)
  /\ \A p \in Plans : \A j \in DOMAIN p[2] :
       LET s == p[2][j]
       IN s.copy \in (IF s.dist > 0 THEN (IF p[1] = 2 THEN 3 ELSE 2) .. 257
                      ELSE IF p[1] = 2 THEN {0} ELSE 0 .. 255)
  /\ Raw \subseteq Seq(0 .. 255)

VARIABLES
  fmt,    \* which decoder
  plan,   \* the segments that were encoded, <<>> for a raw stream
  whole,  \* whether src has all of the stream
  src,    \* the stream
  room,   \* dst_size
  at,     \* bytes read, src - src_start
  dst,    \* bytes written; 256 is what malloc left there
  code,
  skip,
  len,
  dist,
  pc

vars == <<fmt, plan, whole, src, room, at, dst, code, skip, len, dist, pc>>

-----------------------------------------------------------------------------
(* The streams: what the two formats say.                                  *)

\* A number in a field of the code byte, or zero there and a byte of its own.
Field(n, limit) == IF n < limit THEN n ELSE 0
Extra(n, limit) == IF n \in 1 .. limit - 1 THEN <<>> ELSE <<n>>

Encode3(s) ==
  LET sk == Len(s.lits) + 1
      ln == IF s.dist > 0 THEN s.copy - 2 ELSE s.copy
  IN <<Field(sk, 8) + (IF s.dist > 0 THEN 8 ELSE 0) + 16 * Field(ln, 16)>>
     \o Extra(sk, 8) \o Extra(ln, 16) \o s.lits \o (IF s.dist > 0 THEN <<s.dist>> ELSE <<>>)

Encode2(s) ==
  LET sk == Len(s.lits) + 1
      ln == IF s.copy > 0 THEN s.copy - 2 ELSE 0
      hi == s.dist \div 256
  IN <<Field(sk, 4) + 4 * (IF hi < 3 THEN hi ELSE 3) + 16 * Field(ln, 16)>>
     \o Extra(sk, 4) \o Extra(ln, 16) \o s.lits
     \o (IF ln > 0 THEN <<s.dist % 256>> \o (IF hi < 3 THEN <<>> ELSE <<hi>>) ELSE <<>>)

Encode(f, segs) == FlattenSeq([j \in DOMAIN segs |-> IF f = 3 THEN Encode3(segs[j]) ELSE Encode2(segs[j])])

\* What the segments stand for; a copy may reach into what it writes itself.
Expand(segs) ==
  FoldLeft(LAMBDA out, s :
             LET o == out \o s.lits
             IN o \o [j \in 1 .. s.copy |-> IF s.dist = 0 THEN 0 ELSE o[Len(o) + 1 - s.dist + ((j - 1) % s.dist)]],
           <<>>, segs)

-----------------------------------------------------------------------------
(* The decoders.                                                           *)

\* The file goes on behind the stream.
Following == <<33, 44, 5>>

\* run_decoder: the stream from an address on, dst_size as the user gave it.
Init ==
  /\ \/ \E p \in Plans :
          LET s == Encode(p[1], p[2])
          IN /\ fmt = p[1]
             /\ plan = p[2]
             /\ room \in { Len(Expand(plan)) - 1, Len(Expand(plan)), Len(Expand(plan)) + 1 } \ {-1}
             /\ \/ whole = FALSE /\ \E n \in 0 .. Len(s) - 1 : src = SubSeq(s, 1, n)
                \/ whole = TRUE /\ src = s \o (IF room > Len(Expand(plan)) THEN <<>> ELSE Following)
     \/ fmt \in {2, 3} /\ plan = <<>> /\ whole = FALSE /\ src \in Raw /\ room = 4
  /\ at = 0
  /\ dst = <<>>
  /\ code = 0 /\ skip = 0 /\ len = 0 /\ dist = 0
  /\ pc = "code"

Reads == {"code", "skip", "len", "lits", "dist", "high"}

\* IN at the end of the source
Short ==
  /\ pc \in Reads
  /\ at = Len(src)
  /\ pc' = "done"
  /\ UNCHANGED <<fmt, plan, whole, src, room, at, dst, code, skip, len, dist>>

Byte == src[at + 1]

In ==
  /\ pc \in Reads
  /\ at < Len(src)
  /\ at' = at + 1
  /\ UNCHANGED <<fmt, plan, whole, src, room>>

Again_Beyond(n) == IF n <= room THEN "code" ELSE "done"

\* while (dst < dst_end)
Again(n) == IF n < room THEN "code" ELSE "done"

\* What comes behind the literals when n bytes have been written.
Behind3(c, l, n) == IF (c \div 8) % 2 = 1 THEN "dist" ELSE IF l > 0 THEN "zero" ELSE Again(n)

Behind2(l, n) == IF l > 0 THEN "dist" ELSE Again(n)

Behind(c, l, n) == IF fmt = 3 THEN Behind3(c, l, n) ELSE Behind2(l, n)

ToLits(c, s, l) == IF s > 1 THEN "lits" ELSE Behind(c, l, Len(dst))

SkipBits == IF fmt = 3 THEN 8 ELSE 4

ReadCode ==
  /\ In
  /\ pc = "code"
  /\ code' = Byte
  /\ skip' = Byte % SkipBits
  /\ len' = Byte \div 16
  /\ pc' = IF skip' = 0 THEN "skip" ELSE IF len' = 0 THEN "len" ELSE ToLits(Byte, skip', len')
  /\ UNCHANGED <<dst, dist>>

ReadSkip ==
  /\ In
  /\ pc = "skip"
  /\ skip' = Byte
  /\ pc' = IF Byte = 0 THEN "done" ELSE IF len = 0 THEN "len" ELSE ToLits(code, Byte, len)
  /\ UNCHANGED <<dst, code, len, dist>>

ReadLen ==
  /\ In
  /\ pc = "len"
  /\ len' = Byte
  /\ pc' = ToLits(code, skip, Byte)
  /\ UNCHANGED <<dst, code, skip, dist>>

\* IN(tmp); OUT(tmp)
Literal ==
  /\ In
  /\ pc = "lits"
  /\ IF Len(dst) = room THEN pc' = "done" /\ UNCHANGED <<dst, skip>>
     ELSE /\ dst' = Append(dst, Byte)
          /\ skip' = skip - 1
          /\ pc' = IF skip' > 1 THEN "lits" ELSE Behind(code, len, Len(dst'))
  /\ UNCHANGED <<code, len, dist>>

CheckDist_Far(d) == d > Len(dst) + 1

\* CHECK_DIST
CheckDist(d) == d > Len(dst)

\* len++; do ... while (len--)
Copies == len + 2

StartCopy(d) ==
  /\ dist' = d
  /\ len' = Copies
  /\ pc' = IF CheckDist(d) THEN "done" ELSE "copy"

High2 == (code \div 4) % 4

ReadDist ==
  /\ In
  /\ pc = "dist"
  /\ IF fmt = 2 /\ High2 = 3 THEN dist' = Byte /\ pc' = "high" /\ len' = len
     ELSE StartCopy(Byte + 256 * (IF fmt = 2 THEN High2 ELSE 0))
  /\ UNCHANGED <<dst, code, skip>>

ReadHigh ==
  /\ In
  /\ pc = "high"
  /\ StartCopy(dist + 256 * Byte)
  /\ UNCHANGED <<dst, code, skip>>

From_Off(n) == IF n <= 1 THEN 256 ELSE dst[Len(dst) + 2 - n]

\* dst[-dist]
From(n) == IF n = 0 THEN 256 ELSE dst[Len(dst) + 1 - n]

\* OUT(dst[-dist]) or OUT(0), one byte
Fill ==
  /\ pc \in {"copy", "zero"}
  /\ IF Len(dst) = room THEN pc' = "done" /\ UNCHANGED <<dst, len>>
     ELSE /\ dst' = Append(dst, IF pc = "zero" THEN 0 ELSE From(dist))
          /\ len' = len - 1
          /\ pc' = IF len' > 0 THEN pc ELSE Again(Len(dst'))
  /\ UNCHANGED <<fmt, plan, whole, src, room, at, code, skip, dist>>

Rest == pc = "done" /\ UNCHANGED vars

Next ==
  \/ Short \/ ReadCode \/ ReadSkip \/ ReadLen \/ Literal \/ ReadDist \/ ReadHigh \/ Fill \/ Rest

Spec == Init /\ [][Next]_vars
-----------------------------------------------------------------------------
(* Properties.                                                             *)

\* The decoder stays in its two buffers: a copy begins at what was written before.
TypeOK ==
  /\ at \in 0 .. Len(src)
  /\ dst \in Seq(0 .. 256) /\ Len(dst) <= room
  /\ skip \in 0 .. 255
  /\ len \in 0 .. 257
  /\ pc = "copy" => dist \in 0 .. Len(dst)
  /\ pc \in Reads \cup {"copy", "zero", "done"}

Total == Len(Expand(plan))

\* Of a stream that is cut off anywhere, or does not fit, the decoder writes a
\* beginning of what was encoded.
WritesPrefix == plan # <<>> => IsPrefix(dst, Expand(plan))

\* Of a whole stream it writes everything there is room for, and when the room is what
\* the table says it reads exactly to the end of the stream, which is the end address
\* that run_decoder prints.
DecodesAll ==
  pc = "done" /\ whole =>
    /\ Len(dst) = IF room < Total THEN room ELSE Total
    /\ room = Total => at = Len(Encode(fmt, plan))
=============================================================================
