-------------------------- MODULE RecvParserProofs --------------------------
(***************************************************************************)
(* The parser of one connection, for streams and pieces of any length: it  *)
(* does what a parser does that takes one byte at a time, so that the cuts *)
(* recv makes do not matter.                                               *)
(*                                                                         *)
(* The module computes by recursion along a sequence.  Each such operator  *)
(* is turned once into a function that starts and steps as its definition  *)
(* says (NormalizedRuns, ParsedRuns, ReadRuns); that such functions exist  *)
(* and are unique is proved by looking for the smallest counterexample.    *)
(***************************************************************************)
EXTENDS RecvParser, SequenceTheorems, WellFoundedInduction, TLAPS

(* Min of module FiniteSetsExt is defined on every non-empty set of        *)
(* naturals.                                                               *)
LEMMA MinElement ==
  ASSUME NEW S, S \subseteq Nat, S # {}
  PROVE  Min(S) \in S /\ \A y \in S : Min(S) <= y
<1>1. PICK x \in S : \A y \in S : ~ (<<y, x>> \in OpToRel(<, Nat))
  BY WFMin, NatLessThanWellFounded
<1>2. ASSUME NEW y \in S
      PROVE  x <= y
  <2>1. x \in Nat /\ y \in Nat
    OBVIOUS
  <2>2. ~ (y < x)
    <3>1. y < x => <<y, x>> \in OpToRel(<, Nat)
      BY <2>1 DEF OpToRel
    <3>. QED  BY <3>1, <1>1, Zenon
  <2>. QED  BY <2>1, <2>2
<1>. QED
  BY <1>2 DEF Min

(* Induction up to n, on a set of naturals. *)
LEMMA InductionTo ==
  ASSUME NEW n \in Nat, NEW S, 0 \in S,
         \A i \in 1 .. n : i - 1 \in S => i \in S
  PROVE  0 .. n \subseteq S
<1>. DEFINE missing == (0 .. n) \ S
            least   == Min(missing)
<1>. SUFFICES ASSUME missing # {} PROVE FALSE
  OBVIOUS
<1>1. least \in missing /\ \A y \in missing : least <= y
  BY MinElement
<1>. HIDE DEF least
<1>2. least \in 1 .. n /\ least - 1 \in 0 .. n /\ ~ (least <= least - 1)
  BY <1>1
<1>3. least - 1 \in S
  BY <1>1, <1>2
<1>. QED
  BY <1>1, <1>2, <1>3

(* A run of n steps of a step function. *)
IsRun(run, n, S, start, step) ==
  /\ run \in [0 .. n -> S]
  /\ run[0] = start
  /\ \A i \in 1 .. n : run[i] = step[<<run[i - 1], i>>]

(* There is one from any start, for any number of steps. *)
LEMMA RunExists ==
  ASSUME NEW n \in Nat, NEW S, NEW start \in S, NEW step \in [S \X (1 .. n) -> S]
  PROVE  \E run : IsRun(run, n, S, start, step)
<1>. DEFINE Runs(m, run) == IsRun(run, m, S, start, step)
            reached == { m \in 0 .. n : \E run : Runs(m, run) }
<1>1. 0 \in reached
  <2>1. Runs(0, [i \in 0 .. 0 |-> start])
    BY DEF IsRun
  <2>. HIDE DEF Runs
  <2>. QED
    BY <2>1
<1>2. ASSUME NEW m \in 1 .. n, m - 1 \in reached
      PROVE  m \in reached
  <2>1. PICK run : Runs(m - 1, run)
    BY <1>2
  <2>. DEFINE longer == [i \in 0 .. m |-> IF i < m THEN run[i] ELSE step[<<run[m - 1], m>>]]
  <2>2. step[<<run[m - 1], m>>] \in S
    <3>1. run[m - 1] \in S
      BY <2>1 DEF IsRun
    <3>. QED
      BY <3>1
  <2>3. longer \in [0 .. m -> S] /\ longer[0] = start
    BY <2>1, <2>2 DEF IsRun
  <2>4. ASSUME NEW i \in 1 .. m
        PROVE  longer[i] = step[<<longer[i - 1], i>>]
    <3>1. /\ longer[i - 1] = run[i - 1]
          /\ longer[i] = IF i < m THEN run[i] ELSE step[<<run[m - 1], m>>]
      OBVIOUS
    <3>. HIDE DEF longer
    <3>2. CASE i < m
      BY <2>1, <3>1, <3>2 DEF IsRun
    <3>3. CASE i = m
      BY <3>1, <3>3
    <3>. QED
      BY <3>2, <3>3
  <2>5. Runs(m, longer)
    BY <2>3, <2>4 DEF IsRun
  <2>. HIDE DEF Runs
  <2>. QED
    BY <2>5
<1>. HIDE DEF reached
<1>3. n \in reached
  BY <1>1, <1>2, InductionTo
<1>. QED
  BY <1>3 DEF reached
-----------------------------------------------------------------------------
(* The reference, as a run. *)
State == [output : Seq(Message), buffer : Seq(Text)]

Reads(reads, p, bytes) ==
  /\ reads \in [0 .. Len(bytes) -> State]
  /\ reads[0] = p
  /\ \A i \in 1 .. Len(bytes) : reads[i] = Reading(reads[i - 1], bytes[i])

LEMMA QueuedTyped ==
  ASSUME NEW out \in Seq(Message), NEW line \in Seq(Text)
  PROVE  Queued(out, line) \in Seq(Message)
<1>1. CASE IsMessage(line)
  <2>1. line \in Message
    BY <1>1 DEF IsMessage, Message
  <2>. QED
    BY <1>1, <2>1, AppendProperties DEF Queued
<1>2. CASE ~ IsMessage(line)
  BY <1>2 DEF Queued
<1>. QED
  BY <1>1, <1>2

LEMMA ReadingTyped ==
  ASSUME NEW p \in State, NEW byte \in Byte
  PROVE  Reading(p, byte) \in State
<1>1. p.output \in Seq(Message) /\ p.buffer \in Seq(Text)
  BY DEF State
<1>2. CASE byte \in {"CR", "LF"}
  <2>1. Queued(p.output, p.buffer) \in Seq(Message) /\ <<>> \in Seq(Text)
    BY <1>1, QueuedTyped
  <2>. QED
    BY <1>2, <2>1 DEF Reading, State
<1>3. CASE byte \notin {"CR", "LF"}
  <2>1. byte \in Text
    BY <1>3 DEF Byte
  <2>2. Append(p.buffer, byte) \in Seq(Text)
    BY <1>1, <2>1, AppendProperties
  <2>. QED
    BY <1>3, <2>2 DEF Reading, State
<1>. QED
  BY <1>2, <1>3

LEMMA ReadRuns ==
  ASSUME NEW p \in State, NEW bytes \in Seq(Byte)
  PROVE  \E reads : Reads(reads, p, bytes) /\ ReadFrom(p, bytes) = reads[Len(bytes)]
<1>. DEFINE n == Len(bytes)
            step == [x \in State \X (1 .. n) |-> Reading(x[1], bytes[x[2]])]
            Unfold(f) == [i \in 0 .. n |-> IF i = 0 THEN p ELSE Reading(f[i - 1], bytes[i])]
            reads == CHOOSE f : f = Unfold(f)
<1>1. n \in Nat /\ \A i \in 1 .. n : bytes[i] \in Byte
  BY LenProperties, ElementOfSeq
<1>2. step \in [State \X (1 .. n) -> State]
  BY <1>1, ReadingTyped
<1>3. PICK run : IsRun(run, n, State, p, step)
  <2>. HIDE DEF n, step, Unfold, reads
  <2>. QED
    BY <1>1, <1>2, RunExists
<1>4. \A i \in 1 .. n : run[i] = Reading(run[i - 1], bytes[i])
  <2>1. \A i \in 1 .. n : <<run[i - 1], i>> \in State \X (1 .. n)
    BY <1>1, <1>3 DEF IsRun
  <2>. QED
    BY <1>3, <2>1 DEF IsRun
<1>5. run = Unfold(run)
  BY <1>1, <1>3, <1>4 DEF IsRun
<1>. HIDE DEF step
<1>6. reads = Unfold(reads)
  <2>. HIDE DEF Unfold
  <2>. QED
    BY <1>5
<1>7. ReadFrom(p, bytes) = reads[n]
  BY DEF ReadFrom
<1>. HIDE DEF reads
<1>8. reads[0] = p /\ \A i \in 1 .. n : reads[i] = Reading(reads[i - 1], bytes[i])
  <2>1. reads[0] = p
    BY <1>1, <1>6
  <2>2. ASSUME NEW i \in 1 .. n
        PROVE  reads[i] = Reading(reads[i - 1], bytes[i])
    BY <1>1, <1>6
  <2>. QED
    BY <2>1, <2>2
<1>9. reads \in [0 .. n -> State]
  <2>. DEFINE typed == { i \in 0 .. n : reads[i] \in State }
  <2>1. 0 \in typed
    BY <1>1, <1>8
  <2>2. \A i \in 1 .. n : i - 1 \in typed => i \in typed
    BY <1>1, <1>8, ReadingTyped
  <2>3. 0 .. n \subseteq typed
    <3>. HIDE DEF typed, n
    <3>. QED
      BY <1>1, <2>1, <2>2, InductionTo
  <2>4. DOMAIN reads = 0 .. n /\ reads = [i \in 0 .. n |-> reads[i]]
    BY <1>6
  <2>. QED
    BY <2>3, <2>4
<1>. QED
  BY <1>7, <1>8, <1>9 DEF Reads

LEMMA ReadIsRun ==
  ASSUME NEW p \in State, NEW bytes \in Seq(Byte), NEW reads, Reads(reads, p, bytes)
  PROVE  ReadFrom(p, bytes) = reads[Len(bytes)]
<1>1. PICK run : Reads(run, p, bytes) /\ ReadFrom(p, bytes) = run[Len(bytes)]
  BY ReadRuns
<1>. DEFINE same == { i \in 0 .. Len(bytes) : run[i] = reads[i] }
<1>2. Len(bytes) \in Nat
  BY LenProperties
<1>3. 0 \in same
  BY <1>1, <1>2 DEF Reads
<1>4. \A i \in 1 .. Len(bytes) : i - 1 \in same => i \in same
  BY <1>1, <1>2 DEF Reads
<1>5. 0 .. Len(bytes) \subseteq same
  <2>. HIDE DEF same
  <2>. QED
    BY <1>2, <1>3, <1>4, InductionTo
<1>. QED
  BY <1>1, <1>2, <1>5

(* Reading on from where one has come. *)
LEMMA ReadConcat ==
  ASSUME NEW p \in State, NEW u \in Seq(Byte), NEW v \in Seq(Byte)
  PROVE  /\ ReadFrom(p, u) \in State
         /\ ReadFrom(p, u \o v) = ReadFrom(ReadFrom(p, u), v)
<1>1. PICK f : Reads(f, p, u) /\ ReadFrom(p, u) = f[Len(u)]
  BY ReadRuns
<1>. DEFINE q == ReadFrom(p, u)
            m == Len(u)
            n == Len(v)
<1>2. m \in Nat /\ n \in Nat
  BY LenProperties
<1>3. q \in State
  BY <1>1, <1>2 DEF Reads
<1>4. PICK g : Reads(g, q, v) /\ ReadFrom(q, v) = g[n]
  BY <1>3, ReadRuns
<1>5. /\ u \o v \in Seq(Byte) /\ Len(u \o v) = m + n
      /\ \A i \in 1 .. m + n : (u \o v)[i] = IF i <= m THEN u[i] ELSE v[i - m]
  BY ConcatProperties
<1>6. /\ f \in [0 .. m -> State] /\ f[0] = p /\ f[m] = q
      /\ \A i \in 1 .. m : f[i] = Reading(f[i - 1], u[i])
  BY <1>1 DEF Reads
<1>7. /\ g \in [0 .. n -> State] /\ g[0] = q
      /\ \A i \in 1 .. n : g[i] = Reading(g[i - 1], v[i])
  BY <1>4 DEF Reads
<1>. HIDE DEF q, m, n
<1>. DEFINE w == u \o v
            h == [i \in 0 .. m + n |-> IF i <= m THEN f[i] ELSE g[i - m]]
<1>8. h \in [0 .. m + n -> State] /\ h[0] = p
  BY <1>2, <1>6, <1>7
<1>9. ASSUME NEW i \in 1 .. m + n
      PROVE  h[i] = Reading(h[i - 1], w[i])
  <2>1. CASE i <= m
    <3>1. i \in 1 .. m /\ h[i] = f[i] /\ h[i - 1] = f[i - 1]
      BY <1>2, <2>1
    <3>2. w[i] = u[i]
      BY <1>5, <2>1
    <3>. QED
      BY <1>6, <3>1, <3>2
  <2>2. CASE i > m
    <3>1. i - m \in 1 .. n /\ h[i] = g[i - m]
      BY <1>2, <2>2
    <3>2. h[i - 1] = g[(i - m) - 1]
      <4>1. CASE i = m + 1
        <5>1. h[i - 1] = f[m] /\ (i - m) - 1 = 0
          BY <1>2, <4>1
        <5>. QED
          BY <1>6, <1>7, <5>1
      <4>2. CASE i # m + 1
        <5>1. i - 1 \in 0 .. m + n /\ ~ (i - 1 <= m) /\ (i - 1) - m = (i - m) - 1
          BY <1>2, <2>2, <4>2
        <5>. QED
          BY <5>1
      <4>. QED
        BY <4>1, <4>2
    <3>3. w[i] = v[i - m]
      BY <1>2, <1>5, <2>2
    <3>. QED
      BY <1>7, <3>1, <3>2, <3>3
  <2>3. i <= m \/ i > m
    BY <1>2
  <2>. HIDE DEF h, w
  <2>. QED
    BY <2>1, <2>2, <2>3
<1>10. Reads(h, p, w)
  <2>. HIDE DEF h
  <2>. QED
    BY <1>5, <1>8, <1>9 DEF Reads
<1>11. ReadFrom(p, w) = h[m + n]
  <2>. HIDE DEF h
  <2>. QED
    BY <1>5, <1>10, ReadIsRun
<1>12. h[m + n] = g[n]
  <2>1. CASE n = 0
    BY <1>2, <1>6, <1>7, <2>1
  <2>2. CASE n # 0
    BY <1>2, <2>2
  <2>. QED
    BY <2>1, <2>2
<1>. QED
  BY <1>3, <1>4, <1>11, <1>12 DEF q

LEMMA ReadNothing ==
  ASSUME NEW p \in State
  PROVE  ReadFrom(p, <<>>) = p
<1>1. <<>> \in Seq(Byte) /\ Len(<<>>) = 0
  OBVIOUS
<1>2. PICK reads : Reads(reads, p, <<>>) /\ ReadFrom(p, <<>>) = reads[Len(<<>>)]
  BY <1>1, ReadRuns
<1>. QED
  BY <1>1, <1>2 DEF Reads

LEMMA ReadOne ==
  ASSUME NEW p \in State, NEW byte \in Byte
  PROVE  ReadFrom(p, <<byte>>) = Reading(p, byte)
<1>. DEFINE one == <<byte>>
<1>1. one \in Seq(Byte) /\ Len(one) = 1 /\ one[1] = byte
  OBVIOUS
<1>. HIDE DEF one
<1>2. PICK reads : Reads(reads, p, one) /\ ReadFrom(p, one) = reads[Len(one)]
  BY <1>1, ReadRuns
<1>3. 1 \in 1 .. 1 /\ 1 - 1 = 0
  OBVIOUS
<1>. QED
  BY <1>1, <1>2, <1>3 DEF Reads, one

(* Bytes that end no line pile up in the buffer. *)
LEMMA ReadText ==
  ASSUME NEW p \in State, NEW t \in Seq(Text)
  PROVE  ReadFrom(p, t) = [p EXCEPT !.buffer = p.buffer \o t]
<1>. DEFINE n == Len(t)
            Piled(i) == [p EXCEPT !.buffer = p.buffer \o SubSeq(t, 1, i)]
            reads == [i \in 0 .. n |-> Piled(i)]
<1>1. n \in Nat /\ \A i \in 1 .. n : t[i] \in Text
  BY LenProperties, ElementOfSeq
<1>2. t \in Seq(Byte)
  BY DEF Byte
<1>3. p.buffer \in Seq(Text) /\ p.output \in Seq(Message) /\ p = [output |-> p.output, buffer |-> p.buffer]
  BY DEF State
<1>4. \A i \in 0 .. n : SubSeq(t, 1, i) \in Seq(Text)
  BY <1>1
<1>5. \A i \in 0 .. n : Piled(i) \in State
  BY <1>3, <1>4, ConcatProperties DEF State
<1>6. Piled(0) = p
  <2>1. p.buffer \o SubSeq(t, 1, 0) = p.buffer
    BY <1>3
  <2>. QED
    BY <1>3, <2>1
<1>7. ASSUME NEW i \in 1 .. n
      PROVE  Piled(i) = Reading(Piled(i - 1), t[i])
  <2>1. p.buffer \o SubSeq(t, 1, i) = Append(p.buffer \o SubSeq(t, 1, i - 1), t[i])
    <3>1. i - 1 \in 0 .. n /\ SubSeq(t, 1, i - 1) \in Seq(Text)
      BY <1>1, <1>4
    <3>2. SubSeq(t, 1, i) = Append(SubSeq(t, 1, i - 1), t[i])
      BY <1>1, <1>4, <3>1
    <3>3. \A a, b \in Seq(Text) : a \o Append(b, t[i]) = Append(a \o b, t[i])
      BY <1>1
    <3>. QED
      BY <1>3, <3>1, <3>2, <3>3
  <2>2. t[i] \notin {"CR", "LF"}
    BY <1>1 DEF Text
  <2>3. Piled(i - 1).buffer = p.buffer \o SubSeq(t, 1, i - 1)
    BY <1>3
  <2>. QED
    BY <1>3, <2>1, <2>2, <2>3 DEF Reading
<1>8. Reads(reads, p, t)
  <2>. HIDE DEF Piled
  <2>. QED
    BY <1>1, <1>5, <1>6, <1>7 DEF Reads
<1>9. ReadFrom(p, t) = Piled(n)
  <2>1. ReadFrom(p, t) = reads[n]
    <3>. HIDE DEF reads
    <3>. QED
      BY <1>2, <1>8, ReadIsRun
  <2>. QED
    BY <1>1, <2>1
<1>10. SubSeq(t, 1, n) = t
  BY <1>1
<1>. QED
  BY <1>9, <1>10

(* A "\r\n" ends a line as a "\r" or a "\n" does: the second of two line   *)
(* ends ends an empty line, which is no message.                           *)
LEMMA ReadLineEnd ==
  ASSUME NEW p \in State
  PROVE  /\ ReadFrom(p, <<"CR", "LF">>) = [output |-> Queued(p.output, p.buffer), buffer |-> <<>>]
         /\ ReadFrom(p, <<"CR", "LF">>) = Reading(p, "CR")
         /\ ReadFrom(p, <<"CR", "LF">>) = Reading(p, "LF")
<1>. DEFINE q == [output |-> Queued(p.output, p.buffer), buffer |-> <<>>]
<1>1. Reading(p, "CR") = q /\ Reading(p, "LF") = q
  BY DEF Reading
<1>2. q \in State
  BY <1>1, ReadingTyped DEF Byte
<1>3. Reading(q, "LF") = q
  <2>1. ~ IsMessage(<<>>)
    BY DEF IsMessage, HasCommand
  <2>2. Queued(q.output, <<>>) = q.output
    BY <2>1 DEF Queued
  <2>. QED
    BY <2>2 DEF Reading
<1>. HIDE DEF q
<1>4. <<"CR", "LF">> = <<"CR">> \o <<"LF">> /\ <<"CR">> \in Seq(Byte) /\ <<"LF">> \in Seq(Byte)
  BY DEF Byte
<1>5. ReadFrom(p, <<"CR">>) = Reading(p, "CR") /\ ReadFrom(q, <<"LF">>) = Reading(q, "LF")
  BY <1>2, ReadOne DEF Byte
<1>6. ReadFrom(p, <<"CR">> \o <<"LF">>) = ReadFrom(ReadFrom(p, <<"CR">>), <<"LF">>)
  BY <1>4, ReadConcat
<1>. QED
  BY <1>1, <1>3, <1>4, <1>5, <1>6 DEF q
-----------------------------------------------------------------------------
(* Normalising. *)
Normalizes(normalized, buf) ==
  /\ normalized \in [0 .. Len(buf) -> Seq(Byte)]
  /\ normalized[0] = <<>>
  /\ \A i \in 1 .. Len(buf) : normalized[i] = normalized[i - 1] \o NewLine(buf, i)

(* A line end is either whole or not there. *)
Paired(q) ==
  \A i \in 1 .. Len(q) :
    /\ q[i] = "CR" => i < Len(q) /\ q[i + 1] = "LF"
    /\ q[i] = "LF" => i > 1 /\ q[i - 1] = "CR"

LEMMA NewLineTyped ==
  ASSUME NEW buf \in Seq(Byte), NEW i \in 1 .. Len(buf)
  PROVE  NewLine(buf, i) \in Seq(Byte) /\ Paired(NewLine(buf, i))
<1>1. buf[i] \in Byte
  BY ElementOfSeq
<1>2. <<"CR", "LF">> \in Seq(Byte) /\ Paired(<<"CR", "LF">>)
  BY DEF Byte, Paired
<1>3. <<>> \in Seq(Byte) /\ Paired(<<>>)
  BY DEF Paired
<1>4. ASSUME buf[i] \notin {"CR", "LF"}
      PROVE  <<buf[i]>> \in Seq(Byte) /\ Paired(<<buf[i]>>)
  BY <1>1, <1>4 DEF Paired
<1>5. NewLine(buf, i) \in {<<"CR", "LF">>, <<>>} \/ (buf[i] \notin {"CR", "LF"} /\ NewLine(buf, i) = <<buf[i]>>)
  BY DEF NewLine
<1>. QED
  BY <1>2, <1>3, <1>4, <1>5

LEMMA NormalizedRuns ==
  ASSUME NEW buf \in Seq(Byte)
  PROVE  \E normalized : Normalizes(normalized, buf) /\ Normalized(buf) = normalized[Len(buf)]
<1>. DEFINE n == Len(buf)
            S == Seq(Byte)
            Longer(s, i) == s \o NewLine(buf, i)
            step == [x \in S \X (1 .. n) |-> Longer(x[1], x[2])]
            Unfold(f) == [i \in 0 .. n |-> IF i = 0 THEN <<>> ELSE Longer(f[i - 1], i)]
            normalized == CHOOSE f : f = Unfold(f)
<1>1. n \in Nat /\ <<>> \in S /\ \A s \in S : \A i \in 1 .. n : Longer(s, i) \in S
  <2>1. ASSUME NEW s \in S, NEW i \in 1 .. n
        PROVE  Longer(s, i) \in S
    BY NewLineTyped, ConcatProperties
  <2>. QED
    BY <2>1, LenProperties
<1>2. Normalized(buf) = normalized[n]
  BY DEF Normalized
<1>3. ASSUME NEW f
      PROVE  Normalizes(f, buf) <=> /\ f \in [0 .. n -> S] /\ f[0] = <<>>
                                    /\ \A i \in 1 .. n : f[i] = Longer(f[i - 1], i)
  BY DEF Normalizes
<1>. HIDE DEF S, Longer
<1>4. step \in [S \X (1 .. n) -> S]
  BY <1>1
<1>5. PICK run : IsRun(run, n, S, <<>>, step)
  <2>. HIDE DEF n, step, Unfold, normalized
  <2>. QED
    BY <1>1, <1>4, RunExists
<1>6. \A i \in 1 .. n : run[i] = Longer(run[i - 1], i)
  <2>1. \A i \in 1 .. n : <<run[i - 1], i>> \in S \X (1 .. n)
    BY <1>1, <1>5 DEF IsRun
  <2>. QED
    BY <1>5, <2>1 DEF IsRun
<1>7. run = Unfold(run)
  BY <1>1, <1>5, <1>6 DEF IsRun
<1>. HIDE DEF step
<1>8. normalized = Unfold(normalized)
  <2>. HIDE DEF Unfold
  <2>. QED
    BY <1>7
<1>. HIDE DEF normalized
<1>9. normalized[0] = <<>> /\ \A i \in 1 .. n : normalized[i] = Longer(normalized[i - 1], i)
  <2>1. normalized[0] = <<>>
    BY <1>1, <1>8
  <2>2. ASSUME NEW i \in 1 .. n
        PROVE  normalized[i] = Longer(normalized[i - 1], i)
    BY <1>1, <1>8
  <2>. QED
    BY <2>1, <2>2
<1>10. normalized \in [0 .. n -> S]
  <2>. DEFINE typed == { i \in 0 .. n : normalized[i] \in S }
  <2>1. 0 \in typed
    BY <1>1, <1>9
  <2>2. \A i \in 1 .. n : i - 1 \in typed => i \in typed
    BY <1>1, <1>9
  <2>3. 0 .. n \subseteq typed
    <3>. HIDE DEF typed, n
    <3>. QED
      BY <1>1, <2>1, <2>2, InductionTo
  <2>4. normalized = [i \in 0 .. n |-> normalized[i]]
    BY <1>8
  <2>. QED
    BY <2>3, <2>4
<1>. QED
  BY <1>2, <1>3, <1>9, <1>10

LEMMA PairedConcat ==
  ASSUME NEW u \in Seq(Byte), NEW v \in Seq(Byte), Paired(u), Paired(v)
  PROVE  Paired(u \o v)
<1>. DEFINE w == u \o v
            m == Len(u)
            n == Len(v)
<1>1. m \in Nat /\ n \in Nat
  BY LenProperties
<1>2. Len(w) = m + n /\ \A i \in 1 .. m + n : w[i] = IF i <= m THEN u[i] ELSE v[i - m]
  BY ConcatProperties
<1>3. /\ \A i \in 1 .. m : (u[i] = "CR" => i < m /\ u[i + 1] = "LF") /\ (u[i] = "LF" => i > 1 /\ u[i - 1] = "CR")
      /\ \A i \in 1 .. n : (v[i] = "CR" => i < n /\ v[i + 1] = "LF") /\ (v[i] = "LF" => i > 1 /\ v[i - 1] = "CR")
  BY DEF Paired
<1>. HIDE DEF w, m, n
<1>4. ASSUME NEW i \in 1 .. m + n
      PROVE  /\ w[i] = "CR" => i < m + n /\ w[i + 1] = "LF"
             /\ w[i] = "LF" => i > 1 /\ w[i - 1] = "CR"
  <2>1. CASE i <= m
    <3>1. i \in 1 .. m /\ w[i] = u[i]
      BY <1>1, <1>2, <2>1
    <3>2. i < m => w[i + 1] = u[i + 1]
      BY <1>1, <1>2
    <3>3. i > 1 => w[i - 1] = u[i - 1]
      BY <1>1, <1>2, <2>1
    <3>. QED
      BY <1>1, <1>3, <3>1, <3>2, <3>3
  <2>2. CASE i > m
    <3>1. i - m \in 1 .. n /\ w[i] = v[i - m]
      BY <1>1, <1>2, <2>2
    <3>2. i - m < n => w[i + 1] = v[(i - m) + 1]
      <4>1. i - m < n => i + 1 \in 1 .. m + n /\ ~ (i + 1 <= m) /\ (i + 1) - m = (i - m) + 1
        BY <1>1, <2>2
      <4>. QED
        BY <1>2, <4>1
    <3>3. i - m > 1 => w[i - 1] = v[(i - m) - 1]
      <4>1. i - m > 1 => i - 1 \in 1 .. m + n /\ ~ (i - 1 <= m) /\ (i - 1) - m = (i - m) - 1
        BY <1>1, <2>2
      <4>. QED
        BY <1>2, <4>1
    <3>. QED
      BY <1>1, <1>3, <3>1, <3>2, <3>3
  <2>. QED
    BY <1>1, <2>1, <2>2
<1>. QED
  BY <1>2, <1>4 DEF Paired, w

LEMMA NormalizedPaired ==
  ASSUME NEW buf \in Seq(Byte)
  PROVE  Normalized(buf) \in Seq(Byte) /\ Paired(Normalized(buf))
<1>1. PICK N : Normalizes(N, buf) /\ Normalized(buf) = N[Len(buf)]
  BY NormalizedRuns
<1>. DEFINE paired == { i \in 0 .. Len(buf) : Paired(N[i]) }
<1>2. Len(buf) \in Nat
  BY LenProperties
<1>3. 0 \in paired
  BY <1>1, <1>2 DEF Normalizes, Paired
<1>4. ASSUME NEW i \in 1 .. Len(buf), i - 1 \in paired
      PROVE  i \in paired
  <2>1. N[i - 1] \in Seq(Byte) /\ Paired(N[i - 1]) /\ N[i] = N[i - 1] \o NewLine(buf, i)
    BY <1>1, <1>2, <1>4 DEF Normalizes
  <2>2. NewLine(buf, i) \in Seq(Byte) /\ Paired(NewLine(buf, i))
    BY NewLineTyped
  <2>3. Paired(N[i - 1] \o NewLine(buf, i))
    BY <2>1, <2>2, PairedConcat
  <2>4. Paired(N[i])
    BY <2>1, <2>3, Zenon
  <2>. QED
    BY <1>2, <2>4
<1>5. 0 .. Len(buf) \subseteq paired
  <2>. HIDE DEF paired
  <2>. QED
    BY <1>2, <1>3, <1>4, InductionTo
<1>6. Len(buf) \in 0 .. Len(buf)
  BY <1>2
<1>. QED
  BY <1>1, <1>5, <1>6 DEF Normalizes

(* Normalising makes no difference to the reference. *)
LEMMA ReadNormalized ==
  ASSUME NEW p \in State, NEW buf \in Seq(Byte)
  PROVE  ReadFrom(p, Normalized(buf)) = ReadFrom(p, buf)
<1>1. PICK N : Normalizes(N, buf) /\ Normalized(buf) = N[Len(buf)]
  BY NormalizedRuns
<1>. DEFINE n == Len(buf)
            reads == [i \in 0 .. n |-> ReadFrom(p, N[i])]
<1>2. n \in Nat /\ \A i \in 1 .. n : buf[i] \in Byte
  BY LenProperties, ElementOfSeq
<1>3. /\ N \in [0 .. n -> Seq(Byte)] /\ N[0] = <<>>
      /\ \A i \in 1 .. n : N[i] = N[i - 1] \o NewLine(buf, i)
  BY <1>1 DEF Normalizes
<1>4. \A i \in 0 .. n : ReadFrom(p, N[i]) \in State
  BY <1>3, ReadConcat
<1>5. ASSUME NEW i \in 1 .. n
      PROVE  ReadFrom(p, N[i]) = ReadFrom(ReadFrom(p, N[i - 1]), NewLine(buf, i))
  <2>1. N[i - 1] \in Seq(Byte) /\ NewLine(buf, i) \in Seq(Byte)
    <3>1. i - 1 \in 0 .. n
      BY <1>2
    <3>. QED
      BY <1>3, <3>1, NewLineTyped
  <2>2. ReadFrom(p, N[i - 1] \o NewLine(buf, i)) = ReadFrom(ReadFrom(p, N[i - 1]), NewLine(buf, i))
    BY <2>1, ReadConcat
  <2>. QED
    BY <1>3, <2>2
<1>6. ASSUME NEW i \in 1 .. n
      PROVE  ReadFrom(p, N[i]) = Reading(ReadFrom(p, N[i - 1]), buf[i])
  <2>. DEFINE q == ReadFrom(p, N[i - 1])
  <2>1. q \in State /\ ReadFrom(p, N[i]) = ReadFrom(q, NewLine(buf, i))
    BY <1>2, <1>4, <1>5
  <2>. HIDE DEF q
  <2>2. CASE NewLine(buf, i) = <<"CR", "LF">> /\ buf[i] \in {"CR", "LF"}
    BY <2>1, <2>2, ReadLineEnd DEF q
  <2>3. CASE NewLine(buf, i) = <<buf[i]>>
    BY <1>2, <2>1, <2>3, ReadOne DEF q
  <2>4. CASE NewLine(buf, i) = <<>> /\ buf[i] = "LF" /\ i > 1 /\ buf[i - 1] = "CR"
    <3>. DEFINE r == ReadFrom(p, N[(i - 1) - 1])
    <3>1. i - 1 \in 1 .. n /\ (i - 1) - 1 \in 0 .. n
      BY <1>2, <2>4
    <3>2. r \in State /\ q = ReadFrom(r, NewLine(buf, i - 1))
      BY <1>4, <1>5, <3>1 DEF q
    <3>. HIDE DEF r
    <3>3. NewLine(buf, i - 1) = <<"CR", "LF">>
      BY <2>4 DEF NewLine
    <3>4. q.buffer = <<>>
      <4>1. ReadFrom(r, <<"CR", "LF">>) = [output |-> Queued(r.output, r.buffer), buffer |-> <<>>]
        BY <3>2, ReadLineEnd
      <4>. QED
        BY <3>2, <3>3, <4>1
    <3>5. Reading(q, "LF") = q
      <4>1. ~ IsMessage(<<>>)
        BY DEF IsMessage, HasCommand
      <4>2. q = [output |-> q.output, buffer |-> <<>>]
        BY <2>1, <3>4 DEF State
      <4>. QED
        BY <3>4, <4>1, <4>2 DEF Reading, Queued
    <3>. QED
      BY <2>1, <2>4, <3>5, ReadNothing DEF q
  <2>5. \/ NewLine(buf, i) = <<"CR", "LF">> /\ buf[i] \in {"CR", "LF"}
        \/ NewLine(buf, i) = <<buf[i]>>
        \/ NewLine(buf, i) = <<>> /\ buf[i] = "LF" /\ i > 1 /\ buf[i - 1] = "CR"
    BY DEF NewLine
  <2>. QED
    BY <2>2, <2>3, <2>4, <2>5 DEF q
<1>7. Reads(reads, p, buf)
  <2>1. reads \in [0 .. n -> State]
    BY <1>4
  <2>2. reads[0] = p
    BY <1>2, <1>3, ReadNothing
  <2>3. ASSUME NEW i \in 1 .. n
        PROVE  reads[i] = Reading(reads[i - 1], buf[i])
    BY <1>2, <1>6
  <2>. QED
    BY <2>1, <2>2, <2>3 DEF Reads
<1>8. ReadFrom(p, buf) = reads[n]
  <2>. HIDE DEF reads
  <2>. QED
    BY <1>7, ReadIsRun
<1>. QED
  BY <1>1, <1>2, <1>8
-----------------------------------------------------------------------------
(* Parsing. *)
Start(out) == [output |-> out, buffer |-> <<>>]

(* Where the loop of _parseBuffer may be. *)
Loop == { p \in [output : Seq(Message), buffer : Seq(Byte)] : Paired(p.buffer) }

LEMMA TextOnly ==
  ASSUME NEW s \in Seq(Byte), \A i \in 1 .. Len(s) : s[i] \in Text
  PROVE  s \in Seq(Text)
<1>1. Len(s) \in Nat /\ DOMAIN s = 1 .. Len(s) /\ s \in [1 .. Len(s) -> Byte]
  BY LenProperties
<1>2. s \in [1 .. Len(s) -> Text]
  BY <1>1
<1>3. s \in UNION { [1 .. k -> Text] : k \in Nat }
  BY <1>1, <1>2
<1>. QED
  BY <1>3, SeqDef, Zenon

(* The elements of a concatenation w of u and v, of lengths m and n. *)
Joined(w, u, v, m, n) ==
  /\ w \in Seq(Byte) /\ Len(w) = m + n
  /\ \A i \in 1 .. m + n : w[i] = IF i <= m THEN u[i] ELSE v[i - m]

LEMMA ConcatJoins ==
  ASSUME NEW u \in Seq(Byte), NEW v \in Seq(Byte)
  PROVE  Joined(u \o v, u, v, Len(u), Len(v))
BY ConcatProperties DEF Joined

(* A line of m bytes, its end, and a rest of k bytes. *)
Parts(buf, line, rest, m, k) ==
  /\ m \in Nat /\ k \in Nat
  /\ Len(line) = m /\ Len(rest) = k /\ Len(buf) = m + 2 + k
  /\ \A i \in 1 .. m : buf[i] = line[i]
  /\ buf[m + 1] = "CR" /\ buf[m + 2] = "LF"
  /\ \A i \in 1 .. k : buf[m + 2 + i] = rest[i]

LEMMA ThreeParts ==
  ASSUME NEW buf \in Seq(Byte), NEW line \in Seq(Byte), NEW rest \in Seq(Byte),
         NEW m, NEW k, Parts(buf, line, rest, m, k)
  PROVE  buf = line \o (<<"CR", "LF">> \o rest)
<1>. USE DEF Parts
<1>. DEFINE end == <<"CR", "LF">>
            tail == end \o rest
            all == line \o tail
<1>1. end \in Seq(Byte) /\ Len(end) = 2 /\ end[1] = "CR" /\ end[2] = "LF"
  BY DEF Byte
<1>. HIDE DEF end
<1>2. Joined(tail, end, rest, 2, k)
  BY <1>1, ConcatJoins
<1>. HIDE DEF tail
<1>3. Joined(all, line, tail, m, 2 + k)
  <2>1. tail \in Seq(Byte) /\ Len(tail) = 2 + k
    BY <1>2 DEF Joined
  <2>. QED
    BY <2>1, ConcatJoins
<1>. HIDE DEF all
<1>4. ASSUME NEW i \in 1 .. m + (2 + k)
      PROVE  all[i] = buf[i]
  <2>1. CASE i <= m
    BY <1>3, <2>1 DEF Joined
  <2>2. CASE i = m + 1
    BY <1>1, <1>2, <1>3, <2>2 DEF Joined
  <2>3. CASE i = m + 2
    BY <1>1, <1>2, <1>3, <2>3 DEF Joined
  <2>4. CASE i > m + 2
    <3>1. i - m \in 1 .. 2 + k /\ ~ (i - m <= 2) /\ ~ (i <= m)
      BY <2>4
    <3>2. all[i] = rest[(i - m) - 2]
      BY <1>2, <1>3, <3>1 DEF Joined
    <3>3. (i - m) - 2 \in 1 .. k /\ m + 2 + ((i - m) - 2) = i
      BY <2>4
    <3>. QED
      BY <3>2, <3>3
  <2>5. i <= m \/ i = m + 1 \/ i = m + 2 \/ i > m + 2
    OBVIOUS
  <2>. QED
    BY <2>1, <2>2, <2>3, <2>4, <2>5
<1>5. Len(buf) = m + (2 + k)
  OBVIOUS
<1>6. buf = all
  BY <1>3, <1>4, <1>5, SeqEqual DEF Joined
<1>. QED
  BY <1>6 DEF all, tail, end

(* What stands before the first line end is text. *)
LEMMA FirstLine ==
  ASSUME NEW buf \in Seq(Byte), Paired(buf), NEW pos \in LineEnds(buf),
         \A e \in LineEnds(buf) : pos <= e
  PROVE  /\ SubSeq(buf, 1, pos - 1) \in Seq(Text)
         /\ Erased(buf, pos) \in Seq(Byte) /\ Paired(Erased(buf, pos))
         /\ Len(Erased(buf, pos)) < Len(buf)
         /\ buf = SubSeq(buf, 1, pos - 1) \o (<<"CR", "LF">> \o Erased(buf, pos))
<1>. DEFINE n == Len(buf)
            line == SubSeq(buf, 1, pos - 1)
            rest == Erased(buf, pos)
            end == <<"CR", "LF">>
<1>1. /\ n \in Nat /\ pos \in 1 .. n - 1 /\ buf[pos] = "CR" /\ buf[pos + 1] = "LF"
      /\ \A i \in 1 .. n : buf[i] \in Byte
  BY LenProperties, ElementOfSeq DEF LineEnds
<1>2. ASSUME NEW i \in 1 .. pos - 1
      PROVE  buf[i] \in Text
  <2>1. i \in 1 .. n /\ ~ (pos <= i) /\ ~ (pos <= i - 1) /\ (i - 1) + 1 = i
    BY <1>1
  <2>2. i \notin LineEnds(buf) /\ i - 1 \notin LineEnds(buf)
    BY <2>1
  <2>3. buf[i] # "CR"
    BY <1>1, <2>1, <2>2 DEF Paired, LineEnds
  <2>4. buf[i] # "LF"
    <3>1. buf[i] = "LF" => i > 1 /\ buf[i - 1] = "CR"
      BY <2>1 DEF Paired
    <3>2. i > 1 => i - 1 \in 1 .. n - 1
      BY <1>1, <2>1
    <3>. QED
      BY <2>1, <2>2, <3>1, <3>2 DEF LineEnds
  <2>. QED
    BY <1>1, <2>1, <2>3, <2>4 DEF Byte
<1>3. /\ line \in Seq(Byte) /\ Len(line) = pos - 1
      /\ \A i \in 1 .. pos - 1 : line[i] = buf[i]
  BY <1>1
<1>4. line \in Seq(Text)
  BY <1>2, <1>3, TextOnly
<1>5. /\ rest \in Seq(Byte) /\ Len(rest) = n - pos - 1
      /\ \A i \in 1 .. n - pos - 1 : rest[i] = buf[i + pos + 1]
  BY <1>1 DEF Erased
<1>6. Paired(rest)
  <2>. SUFFICES ASSUME NEW i \in 1 .. n - pos - 1
                PROVE  /\ rest[i] = "CR" => i < n - pos - 1 /\ rest[i + 1] = "LF"
                       /\ rest[i] = "LF" => i > 1 /\ rest[i - 1] = "CR"
    BY <1>5 DEF Paired
  <2>. DEFINE j == i + pos + 1
  <2>1. j \in 1 .. n /\ rest[i] = buf[j]
    BY <1>1, <1>5
  <2>2. ASSUME rest[i] = "CR"
        PROVE  i < n - pos - 1 /\ rest[i + 1] = "LF"
    <3>1. j < n /\ buf[j + 1] = "LF"
      BY <2>1, <2>2 DEF Paired
    <3>2. i + 1 \in 1 .. n - pos - 1 /\ (i + 1) + pos + 1 = j + 1
      BY <1>1, <3>1
    <3>. QED
      BY <1>1, <1>5, <3>1, <3>2
  <2>3. ASSUME rest[i] = "LF"
        PROVE  i > 1 /\ rest[i - 1] = "CR"
    <3>1. buf[j - 1] = "CR"
      BY <2>1, <2>3 DEF Paired
    <3>2. i = 1 => j - 1 = pos + 1
      BY <1>1
    <3>3. i # 1
      BY <1>1, <3>1, <3>2
    <3>4. i - 1 \in 1 .. n - pos - 1 /\ (i - 1) + pos + 1 = j - 1
      BY <1>1, <3>3
    <3>. QED
      BY <1>5, <3>1, <3>3, <3>4
  <2>. QED
    BY <2>2, <2>3
<1>7. buf = line \o (end \o rest)
  <2>1. pos - 1 \in Nat /\ n - pos - 1 \in Nat /\ n = (pos - 1) + 2 + (n - pos - 1)
    BY <1>1
  <2>2. buf[(pos - 1) + 1] = "CR" /\ buf[(pos - 1) + 2] = "LF"
    BY <1>1
  <2>3. \A i \in 1 .. n - pos - 1 : buf[(pos - 1) + 2 + i] = rest[i]
    <3>1. \A i \in 1 .. n - pos - 1 : (pos - 1) + 2 + i = i + pos + 1
      BY <1>1
    <3>. QED
      BY <1>5, <3>1
  <2>. HIDE DEF line, rest
  <2>4. Parts(buf, line, rest, pos - 1, n - pos - 1)
    BY <1>3, <1>5, <2>1, <2>2, <2>3 DEF Parts
  <2>. QED
    BY <1>3, <1>5, <2>4, ThreeParts
<1>8. Len(rest) < n
  BY <1>1, <1>5
<1>. QED
  BY <1>4, <1>5, <1>6, <1>7, <1>8

LEMMA StartState ==
  ASSUME NEW out \in Seq(Message)
  PROVE  Start(out) \in State
BY DEF Start, State

(* A turn of the loop leaves to the reference what it has left to read. *)
LEMMA TurnEffect ==
  ASSUME NEW p \in Loop
  PROVE  /\ Turn(p) \in Loop
         /\ ReadFrom(Start(Turn(p).output), Turn(p).buffer) = ReadFrom(Start(p.output), p.buffer)
         /\ LineEnds(p.buffer) # {} => Len(Turn(p).buffer) < Len(p.buffer)
<1>. DEFINE buf == p.buffer
            out == p.output
<1>1. buf \in Seq(Byte) /\ out \in Seq(Message) /\ Paired(buf)
  BY DEF Loop
<1>2. CASE LineEnds(buf) = {}
  BY <1>2 DEF Turn
<1>3. CASE LineEnds(buf) # {}
  <2>. DEFINE pos  == Min(LineEnds(buf))
              line == SubSeq(buf, 1, pos - 1)
              rest == Erased(buf, pos)
              end  == <<"CR", "LF">>
  <2>1. LineEnds(buf) \subseteq Nat
    BY <1>1 DEF LineEnds
  <2>2. pos \in LineEnds(buf) /\ \A e \in LineEnds(buf) : pos <= e
    BY <1>3, <2>1, MinElement
  <2>3. Turn(p) = [output |-> Queued(out, line), buffer |-> rest]
    BY <1>3 DEF Turn
  <2>. HIDE DEF pos
  <2>4. /\ line \in Seq(Text) /\ rest \in Seq(Byte) /\ Paired(rest) /\ Len(rest) < Len(buf)
        /\ buf = line \o (end \o rest)
    BY <1>1, <2>2, FirstLine
  <2>. HIDE DEF line, rest, buf, out
  <2>5. Queued(out, line) \in Seq(Message)
    BY <1>1, <2>4, QueuedTyped
  <2>6. ReadFrom(Start(out), buf) = ReadFrom(Start(Queued(out, line)), rest)
    <3>1. /\ line \in Seq(Byte) /\ end \in Seq(Byte) /\ end \o rest \in Seq(Byte)
      <4>1. line \in Seq(Byte) /\ end \in Seq(Byte)
        BY <2>4 DEF Byte
      <4>. QED
        BY <2>4, <4>1, ConcatProperties
    <3>. DEFINE p1 == ReadFrom(Start(out), line)
                p2 == ReadFrom(p1, end)
    <3>2. Start(out) \in State
      BY <1>1, StartState
    <3>3. p1 \in State /\ ReadFrom(Start(out), line \o (end \o rest)) = ReadFrom(p1, end \o rest)
      BY <3>1, <3>2, ReadConcat
    <3>4. ReadFrom(p1, end \o rest) = ReadFrom(p2, rest)
      <4>. HIDE DEF p1
      <4>. QED
        BY <2>4, <3>1, <3>3, ReadConcat
    <3>5. p1 = [output |-> out, buffer |-> line]
      <4>1. p1 = [Start(out) EXCEPT !.buffer = Start(out).buffer \o line]
        BY <2>4, <3>2, ReadText
      <4>2. <<>> \o line = line
        BY <2>4
      <4>. HIDE DEF p1
      <4>. QED
        BY <4>1, <4>2 DEF Start
    <3>6. p2 = Start(Queued(out, line))
      <4>. HIDE DEF p1
      <4>1. p2 = [output |-> Queued(p1.output, p1.buffer), buffer |-> <<>>]
        BY <3>3, ReadLineEnd
      <4>. HIDE DEF p2
      <4>. QED
        BY <3>5, <4>1 DEF Start
    <3>. HIDE DEF p1, p2, end
    <3>. QED
      BY <2>4, <3>3, <3>4, <3>6
  <2>. HIDE DEF end
  <2>7. Turn(p).output = Queued(out, line) /\ Turn(p).buffer = rest
    BY <2>3
  <2>8. Turn(p) \in Loop
    BY <2>3, <2>4, <2>5 DEF Loop
  <2>. QED
    BY <2>4, <2>6, <2>7, <2>8 DEF buf, out
<1>. QED
  BY <1>2, <1>3

(* The loop as a run. *)
Parses(parsed, out, buf) ==
  /\ parsed \in [0 .. Len(buf) -> Loop]
  /\ parsed[0] = [output |-> out, buffer |-> buf]
  /\ \A k \in 1 .. Len(buf) : parsed[k] = Turn(parsed[k - 1])

LEMMA ParsedRuns ==
  ASSUME NEW out \in Seq(Message), NEW buf \in Seq(Byte), Paired(buf)
  PROVE  \E parsed : Parses(parsed, out, buf) /\ Parsed(out, buf) = parsed[Len(buf)]
<1>. DEFINE n == Len(buf)
            start == [output |-> out, buffer |-> buf]
            step == [x \in Loop \X (1 .. n) |-> Turn(x[1])]
            Unfold(f) == [k \in 0 .. n |-> IF k = 0 THEN start ELSE Turn(f[k - 1])]
            parsed == CHOOSE f : f = Unfold(f)
<1>1. n \in Nat /\ start \in Loop
  BY LenProperties DEF Loop
<1>2. step \in [Loop \X (1 .. n) -> Loop]
  BY TurnEffect
<1>3. Parsed(out, buf) = parsed[n]
  BY DEF Parsed
<1>. HIDE DEF start
<1>4. PICK run : IsRun(run, n, Loop, start, step)
  <2>. HIDE DEF n, step, Unfold, parsed
  <2>. QED
    BY <1>1, <1>2, RunExists
<1>5. \A k \in 1 .. n : run[k] = Turn(run[k - 1])
  <2>1. ASSUME NEW k \in 1 .. n
        PROVE  run[k - 1] \in Loop
    <3>1. k - 1 \in 0 .. n
      BY <1>1
    <3>. QED
      BY <1>4, <3>1 DEF IsRun
  <2>2. \A k \in 1 .. n : step[<<run[k - 1], k>>] = Turn(run[k - 1])
    BY <2>1
  <2>. QED
    BY <1>4, <2>2 DEF IsRun
<1>6. run = Unfold(run)
  BY <1>1, <1>4, <1>5 DEF IsRun
<1>. HIDE DEF step
<1>7. parsed = Unfold(parsed)
  <2>. HIDE DEF Unfold
  <2>. QED
    BY <1>6
<1>. HIDE DEF parsed
<1>8. parsed[0] = start /\ \A k \in 1 .. n : parsed[k] = Turn(parsed[k - 1])
  <2>1. parsed[0] = start
    BY <1>1, <1>7
  <2>2. ASSUME NEW k \in 1 .. n
        PROVE  parsed[k] = Turn(parsed[k - 1])
    BY <1>1, <1>7
  <2>. QED
    BY <2>1, <2>2
<1>9. parsed \in [0 .. n -> Loop]
  <2>. DEFINE typed == { k \in 0 .. n : parsed[k] \in Loop }
  <2>1. 0 \in typed
    BY <1>1, <1>8
  <2>2. \A k \in 1 .. n : k - 1 \in typed => k \in typed
    BY <1>1, <1>8, TurnEffect
  <2>3. 0 .. n \subseteq typed
    <3>. HIDE DEF typed, n
    <3>. QED
      BY <1>1, <2>1, <2>2, InductionTo
  <2>4. parsed = [k \in 0 .. n |-> parsed[k]]
    BY <1>7
  <2>. QED
    BY <2>3, <2>4
<1>. QED
  BY <1>3, <1>8, <1>9 DEF Parses, start

(* The whole loop does what the reference does. *)
LEMMA ParsedReads ==
  ASSUME NEW out \in Seq(Message), NEW buf \in Seq(Byte), Paired(buf)
  PROVE  Parsed(out, buf) = ReadFrom(Start(out), buf)
<1>1. PICK P : Parses(P, out, buf) /\ Parsed(out, buf) = P[Len(buf)]
  BY ParsedRuns
<1>. DEFINE n == Len(buf)
            Left(k) == ReadFrom(Start(P[k].output), P[k].buffer)
            Done(k) == LineEnds(P[k].buffer) = {} \/ Len(P[k].buffer) + k <= n
            reached == { k \in 0 .. n : Left(k) = ReadFrom(Start(out), buf) /\ Done(k) }
<1>2. n \in Nat
  BY LenProperties
<1>3. /\ P \in [0 .. n -> Loop] /\ P[0] = [output |-> out, buffer |-> buf]
      /\ \A k \in 1 .. n : P[k] = Turn(P[k - 1])
  BY <1>1 DEF Parses
<1>4. 0 \in reached
  BY <1>2, <1>3
<1>5. ASSUME NEW k \in 1 .. n, k - 1 \in reached
      PROVE  k \in reached
  <2>. DEFINE p == P[k - 1]
  <2>1. k - 1 \in 0 .. n /\ (k - 1) + 1 = k /\ k \in 0 .. n
    BY <1>2
  <2>2. p \in Loop /\ P[k] = Turn(p) /\ Left(k - 1) = ReadFrom(Start(out), buf) /\ Done(k - 1)
    BY <1>3, <1>5, <2>1
  <2>3. Left(k) = Left(k - 1)
    BY <2>2, TurnEffect
  <2>4. Done(k)
    <3>1. CASE LineEnds(p.buffer) = {}
      BY <2>2, <3>1 DEF Turn
    <3>2. CASE LineEnds(p.buffer) # {}
      <4>1. Len(Turn(p).buffer) < Len(p.buffer)
        BY <2>2, <3>2, TurnEffect
      <4>2. Len(Turn(p).buffer) \in Nat /\ Len(p.buffer) \in Nat
        <5>1. Turn(p) \in Loop
          BY <2>2, TurnEffect
        <5>. QED
          BY <2>2, <5>1, LenProperties DEF Loop
      <4>3. Len(p.buffer) + (k - 1) <= n
        BY <2>2, <3>2
      <4>. HIDE DEF p, n
      <4>4. Len(Turn(p).buffer) + k <= n
        BY <1>2, <4>1, <4>2, <4>3
      <4>. QED
        BY <2>2, <4>4
    <3>. QED
      BY <3>1, <3>2
  <2>. HIDE DEF Left, Done
  <2>. QED
    BY <2>1, <2>2, <2>3, <2>4
<1>6. n \in reached
  <2>1. 0 .. n \subseteq reached
    <3>. HIDE DEF reached, n
    <3>. QED
      BY <1>2, <1>4, <1>5, InductionTo
  <2>2. n \in 0 .. n
    BY <1>2
  <2>. QED
    BY <2>1, <2>2
<1>. DEFINE p == P[n]
<1>7. /\ p \in Loop /\ p.buffer \in Seq(Byte) /\ p.output \in Seq(Message) /\ Paired(p.buffer)
      /\ p = [output |-> p.output, buffer |-> p.buffer]
  <2>1. p \in Loop
    BY <1>2, <1>3
  <2>. QED
    BY <2>1 DEF Loop
<1>8. Len(p.buffer) \in Nat /\ LineEnds(p.buffer) = {}
  <2>1. Len(p.buffer) \in Nat
    BY <1>7, LenProperties
  <2>2. Done(n)
    BY <1>6
  <2>3. Len(p.buffer) + n <= n => Len(p.buffer) = 0
    BY <1>2, <2>1
  <2>4. Len(p.buffer) = 0 => LineEnds(p.buffer) = {}
    BY DEF LineEnds
  <2>. QED
    BY <2>1, <2>2, <2>3, <2>4
<1>9. p.buffer \in Seq(Text)
  <2>. DEFINE q == p.buffer
  <2>1. q \in Seq(Byte) /\ Paired(q) /\ Len(q) \in Nat /\ LineEnds(q) = {}
    BY <1>7, <1>8
  <2>. HIDE DEF q, p
  <2>2. ASSUME NEW i \in 1 .. Len(q)
        PROVE  q[i] \in Text
    <3>1. q[i] \in Byte
      BY <2>1, ElementOfSeq
    <3>2. ASSUME NEW j \in 1 .. Len(q), q[j] = "CR"
          PROVE  FALSE
      <4>1. j < Len(q) /\ q[j + 1] = "LF"
        BY <2>1, <3>2 DEF Paired
      <4>2. j \in 1 .. Len(q) - 1
        BY <2>1, <4>1
      <4>. QED
        BY <2>1, <3>2, <4>1, <4>2 DEF LineEnds
    <3>3. q[i] = "LF" => i - 1 \in 1 .. Len(q) /\ q[i - 1] = "CR"
      BY <2>1 DEF Paired
    <3>. QED
      BY <3>1, <3>2, <3>3 DEF Byte
  <2>3. q \in Seq(Text)
    BY <2>1, <2>2, TextOnly
  <2>. QED
    BY <2>3 DEF q
<1>10. ReadFrom(Start(p.output), p.buffer) = p
  <2>. HIDE DEF p
  <2>1. ReadFrom(Start(p.output), p.buffer)
          = [Start(p.output) EXCEPT !.buffer = Start(p.output).buffer \o p.buffer]
    BY <1>7, <1>9, StartState, ReadText
  <2>2. <<>> \o p.buffer = p.buffer
    BY <1>7
  <2>3. [Start(p.output) EXCEPT !.buffer = Start(p.output).buffer \o p.buffer]
          = [output |-> p.output, buffer |-> p.buffer]
    BY <2>2 DEF Start
  <2>. QED
    BY <1>7, <2>1, <2>3
<1>11. Left(n) = ReadFrom(Start(out), buf)
  BY <1>6
<1>. QED
  BY <1>1, <1>10, <1>11
-----------------------------------------------------------------------------
(* The parser is where the reference is after the same bytes. *)
ReadInv ==
  /\ fed \in Seq(Byte)
  /\ [output |-> output, buffer |-> buffer] \in State
  /\ [output |-> output, buffer |-> buffer] = Read(fed)

LEMMA InitReads == Init => ReadInv
<1>. SUFFICES ASSUME Init PROVE ReadInv
  OBVIOUS
<1>1. fed = <<>> /\ buffer = <<>> /\ output = <<>>
  BY DEF Init
<1>2. <<>> \in Seq(Byte) /\ <<>> \in Seq(Message) /\ <<>> \in Seq(Text)
  OBVIOUS
<1>3. [output |-> <<>>, buffer |-> <<>>] \in State
  BY <1>2 DEF State
<1>4. Read(<<>>) = [output |-> <<>>, buffer |-> <<>>]
  BY <1>3, ReadNothing DEF Read
<1>. QED
  BY <1>1, <1>2, <1>3, <1>4 DEF ReadInv

(* A piece of any length. *)
LEMMA FeedReads ==
  ASSUME ReadInv, NEW chunk \in Seq(Byte), fed' = fed \o chunk,
         output' = Parsed(output, Normalized(buffer \o chunk)).output,
         buffer' = Parsed(output, Normalized(buffer \o chunk)).buffer
  PROVE  ReadInv'
<1>. DEFINE now  == [output |-> output, buffer |-> buffer]
            buf  == buffer \o chunk
            next == Parsed(output, Normalized(buf))
<1>1. /\ fed \in Seq(Byte) /\ output \in Seq(Message) /\ buffer \in Seq(Text)
      /\ now \in State /\ now = Read(fed)
  BY DEF ReadInv, State
<1>2. buffer \in Seq(Byte) /\ buf \in Seq(Byte)
  <2>1. buffer \in Seq(Byte)
    BY <1>1 DEF Byte
  <2>. QED
    BY <2>1, ConcatProperties
<1>3. next = ReadFrom(Start(output), buf)
  <2>. HIDE DEF buf
  <2>1. Normalized(buf) \in Seq(Byte) /\ Paired(Normalized(buf))
    BY <1>2, NormalizedPaired
  <2>2. next = ReadFrom(Start(output), Normalized(buf))
    BY <1>1, <2>1, ParsedReads
  <2>3. ReadFrom(Start(output), Normalized(buf)) = ReadFrom(Start(output), buf)
    BY <1>1, <1>2, StartState, ReadNormalized
  <2>. QED
    BY <2>2, <2>3
<1>4. ReadFrom(Start(output), buf) = ReadFrom(ReadFrom(Start(output), buffer), chunk)
  BY <1>1, <1>2, StartState, ReadConcat
<1>5. ReadFrom(Start(output), buffer) = now
  <2>1. ReadFrom(Start(output), buffer) = [Start(output) EXCEPT !.buffer = Start(output).buffer \o buffer]
    BY <1>1, StartState, ReadText
  <2>2. <<>> \o buffer = buffer
    BY <1>1
  <2>. QED
    BY <2>1, <2>2 DEF Start
<1>6. Read(fed \o chunk) = ReadFrom(Read(fed), chunk) /\ ReadFrom(Read(fed), chunk) \in State
  <2>1. [output |-> <<>>, buffer |-> <<>>] \in State
    BY DEF State
  <2>2. Read(fed \o chunk) = ReadFrom(Read(fed), chunk)
    BY <1>1, <2>1, ReadConcat DEF Read
  <2>3. ReadFrom(Read(fed), chunk) \in State
    BY <1>1, ReadConcat
  <2>. QED
    BY <2>2, <2>3
<1>. HIDE DEF now, next
<1>7. next = Read(fed') /\ next \in State
  BY <1>1, <1>3, <1>4, <1>5, <1>6
<1>8. [output |-> output', buffer |-> buffer'] = next
  <2>1. next = [output |-> next.output, buffer |-> next.buffer]
    BY <1>7 DEF State
  <2>. QED
    BY <2>1 DEF next
<1>9. fed' \in Seq(Byte)
  BY <1>1, ConcatProperties
<1>. QED
  BY <1>7, <1>8, <1>9 DEF ReadInv

(* Every call of feed leaves parser and buffer as if the whole stream had  *)
(* come byte by byte.                                                      *)
THEOREM ReadInvHolds == Spec => []ReadInv
<1>1. ASSUME ReadInv, Feed
      PROVE  ReadInv'
  <2>0. PICK n \in 1 .. MaxChunk : \E chunk \in [1 .. n -> Byte] :
          /\ fed' = fed \o chunk
          /\ output' = Parsed(output, Normalized(buffer \o chunk)).output
          /\ buffer' = Parsed(output, Normalized(buffer \o chunk)).buffer
    BY <1>1 DEF Feed
  <2>1. PICK chunk \in [1 .. n -> Byte] :
          /\ fed' = fed \o chunk
          /\ output' = Parsed(output, Normalized(buffer \o chunk)).output
          /\ buffer' = Parsed(output, Normalized(buffer \o chunk)).buffer
    BY <2>0
  <2>2. n \in Nat /\ chunk \in UNION { [1 .. k -> Byte] : k \in Nat }
    BY <2>1, RecvParserConstants
  <2>3. chunk \in Seq(Byte)
    BY <2>2, SeqDef, Zenon
  <2>. QED
    BY <1>1, <2>1, <2>3, FeedReads
<1>2. ReadInv /\ UNCHANGED vars => ReadInv'
  BY DEF ReadInv, vars
<1>. QED
  BY <1>1, <1>2, InitReads, PTL DEF Spec

(* However long the stream and its pieces, what is queued are lines of     *)
(* text of at most MaxLine bytes, and the buffer never holds a line end or *)
(* half of one between two pieces.                                         *)
THEOREM ParserTyped == Spec => []TypeOK
<1>1. ReadInv => TypeOK
  BY DEF ReadInv, State, TypeOK
<1>. QED
  BY <1>1, ReadInvHolds, PTL

(* RecvParser::feed queues the same messages in the same order, whatever   *)
(* the pieces in which recv delivers a stream of any length, a "\r\n" cut  *)
(* in two included.                                                        *)
THEOREM CutsNeverMatter == Spec => []CutsDoNotMatter
<1>1. ReadInv => CutsDoNotMatter
  BY DEF ReadInv, CutsDoNotMatter
<1>. QED
  BY <1>1, ReadInvHolds, PTL

(* And it keeps exactly the unfinished line for the next piece.            *)
THEOREM BufferKeepsUnfinishedLine == Spec => []BufferIsUnfinishedLine
<1>1. ReadInv => BufferIsUnfinishedLine
  BY DEF ReadInv, BufferIsUnfinishedLine
<1>. QED
  BY <1>1, ReadInvHolds, PTL
=============================================================================
