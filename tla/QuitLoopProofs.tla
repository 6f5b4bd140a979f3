--------------------------- MODULE QuitLoopProofs ---------------------------
(***************************************************************************)
(* The walk of User::quit, for a client on any number of channels: what    *)
(* modules User and ChannelServer take from QuitLoop.                      *)
(***************************************************************************)
EXTENDS QuitLoop, SequenceTheorems, TLAPS

Size0 == Len(list)
Capped(k) == IF k <= Size0 THEN k ELSE Size0

(* As long as the walk meets channels it has not left, every other word is *)
(* erased: behind the walk stand the even channels, before it what was     *)
(* there, moved down by one word per erasure, and then copies of the last. *)
Striding == 2 * next <= Size0 + 3

StridingInv ==
  /\ mem = [k \in 1 .. Size0 |-> Capped(IF k < next THEN 2 * k ELSE k + next - 1)]
  /\ size = Size0 - next + 1
  /\ left = { j \in 1 .. Size0 : j % 2 = 1 /\ j < 2 * next - 1 }

(* Afterwards there are only those copies; the vector holds the even       *)
(* channels but the last.                                                  *)
RereadingInv ==
  /\ mem \in [1 .. Size0 -> 1 .. Size0]
  /\ \A k \in next .. Size0 : mem[k] = Size0
  /\ size \in 0 .. Size0 /\ 2 * size < Size0 /\ Size0 <= 2 * size + 2
  /\ \A k \in 1 .. size : mem[k] = 2 * k
  /\ left = QuitVisited(list)

(* The inductive invariant. *)
WalkInv ==
  /\ Size0 \in 0 .. MaxChannels
  /\ list = [i \in 1 .. Size0 |-> i]
  /\ next \in 1 .. Size0 + 1
  /\ shared \subseteq 1 .. Size0
  /\ stray \in BOOLEAN
  /\ stray <=> 2 * next > Size0 + 4 /\ Size0 \notin shared
  /\ Striding => StridingInv
  /\ ~ Striding => RereadingInv

LEMMA Parity ==
  ASSUME NEW k \in Int
  PROVE  (2 * k) % 2 = 0 /\ (2 * k + 1) % 2 = 1 /\ (2 * k - 1) % 2 = 1
OBVIOUS

LEMMA VisitedNumbers ==
  ASSUME Size0 \in Nat, list = [i \in 1 .. Size0 |-> i]
  PROVE  QuitVisited(list) = { j \in 1 .. Size0 : j % 2 = 1 \/ j = Size0 }
BY DEF QuitVisited, Size0

LEMMA InitWalk == Init => WalkInv
<1>. SUFFICES ASSUME Init PROVE WalkInv
  OBVIOUS
<1>1. PICK n \in 0 .. MaxChannels : list = [i \in 1 .. n |-> i]
  BY DEF Init
<1>2. n \in Nat /\ list \in Seq(Nat)
  BY <1>1, QuitLoopConstants
<1>3. Size0 = n
  BY <1>1, <1>2 DEF Size0
<1>. HIDE DEF Size0
<1>4. Listed(list) = 1 .. n
  BY <1>1 DEF Listed, ToSet
<1>5. StridingInv
  <2>1. mem = [k \in 1 .. n |-> Capped(IF k < 1 THEN 2 * k ELSE k + 1 - 1)]
    BY <1>1, <1>2, <1>3 DEF Init, Capped
  <2>2. next = 1 /\ size = n /\ left = {}
    BY <1>3 DEF Init, Size0
  <2>. QED
    BY <1>2, <1>3, <2>1, <2>2 DEF StridingInv
<1>6. /\ Size0 \in 0 .. MaxChannels /\ list = [i \in 1 .. Size0 |-> i]
      /\ next = 1 /\ next \in 1 .. Size0 + 1
      /\ ~ (2 * next > Size0 + 4) /\ Striding
  BY <1>1, <1>2, <1>3 DEF Init, Striding
<1>7. shared \subseteq 1 .. Size0 /\ stray = FALSE
  BY <1>3, <1>4 DEF Init
<1>. QED
  BY <1>5, <1>6, <1>7 DEF WalkInv

(* The word the walk reads, and the channels left, as long as it strides. *)
LEMMA StridingReads ==
  ASSUME WalkInv, Striding, Reading
  PROVE  /\ mem[next] = Capped(2 * next - 1)
         /\ mem[next] \in left <=> 2 * next = Size0 + 3
         /\ next \in 1 .. Size0 /\ Size0 \in Nat
<1>. USE DEF Size0
<1>1. next \in 1 .. Size0 /\ Size0 \in Nat
  BY QuitLoopConstants DEF WalkInv, Reading
<1>2. mem[next] = Capped(2 * next - 1)
  BY <1>1 DEF WalkInv, StridingInv
<1>3. 2 * next - 1 <= Size0 => mem[next] \notin left
  BY <1>1, <1>2 DEF WalkInv, StridingInv, Capped
<1>. HIDE DEF Size0
<1>4. ASSUME 2 * next = Size0 + 2
      PROVE  mem[next] \notin left
  <2>1. mem[next] = 2 * (next - 1)
    BY <1>1, <1>2, <1>4 DEF Capped
  <2>. QED
    BY <1>1, <2>1, Parity DEF WalkInv, StridingInv
<1>5. ASSUME 2 * next = Size0 + 3
      PROVE  mem[next] \in left
  <2>1. mem[next] = 2 * (next - 2) + 1 /\ mem[next] \in 1 .. Size0 /\ mem[next] < 2 * next - 1
    BY <1>1, <1>2, <1>5 DEF Capped
  <2>2. mem[next] % 2 = 1
    BY <1>1, <2>1, Parity
  <2>. QED
    BY <2>1, <2>2 DEF WalkInv, StridingInv
<1>. QED
  BY <1>1, <1>2, <1>3, <1>4, <1>5 DEF Striding

LEMMA LeaveWalk ==
  ASSUME WalkInv, LeaveChannel
  PROVE  WalkInv'
<1>1. /\ UNCHANGED <<list, shared, stray>> /\ next' = next + 1 /\ size' = size - 1
      /\ left' = left \cup {mem[next]} /\ Reading /\ mem[next] \notin left
  BY DEF LeaveChannel
<1>2. Size0' = Size0
  BY <1>1 DEF Size0
<1>3. next \in 1 .. Size0 /\ Size0 \in Nat
  BY <1>1, QuitLoopConstants DEF WalkInv, Reading, Size0
<1>. HIDE DEF Size0
<1>4. Striding
  <2>. SUFFICES ASSUME ~ Striding PROVE FALSE
    OBVIOUS
  <2>1. mem[next] = Size0 /\ left = QuitVisited(list) /\ list = [i \in 1 .. Size0 |-> i]
    BY <1>3 DEF WalkInv, RereadingInv
  <2>. QED
    BY <1>1, <1>3, <2>1, VisitedNumbers
<1>5. /\ mem[next] = Capped(2 * next - 1)
      /\ 2 * next <= Size0 + 2
  BY <1>1, <1>3, <1>4, StridingReads DEF Striding
<1>6. PICK i \in 1 .. size :
        /\ mem[i] = mem[next]
        /\ \A k \in 1 .. i - 1 : mem[k] # mem[next]
        /\ mem' = Erased(i)
  BY DEF LeaveChannel
<1>7. /\ mem = [k \in 1 .. Size0 |-> Capped(IF k < next THEN 2 * k ELSE k + next - 1)]
      /\ size = Size0 - next + 1
      /\ left = { j \in 1 .. Size0 : j % 2 = 1 /\ j < 2 * next - 1 }
  BY <1>4 DEF WalkInv, StridingInv
<1>8. mem' = [k \in 1 .. Size0 |-> IF i <= k /\ k < size THEN mem[k + 1] ELSE mem[k]]
  BY <1>6, <1>7 DEF Erased
<1>9. stray' \in BOOLEAN /\ (stray' <=> 2 * next' > Size0' + 4 /\ Size0' \notin shared')
  BY <1>1, <1>2, <1>3, <1>5 DEF WalkInv
<1>10. CASE 2 * next - 1 <= Size0
  <2>1. i = next
    BY <1>3, <1>5, <1>6, <1>7, <1>10 DEF Capped
  <2>2. mem' = [k \in 1 .. Size0 |->
                  Capped(IF k < next + 1 THEN 2 * k ELSE k + (next + 1) - 1)]
    <3>. SUFFICES ASSUME NEW k \in 1 .. Size0
                  PROVE  (IF i <= k /\ k < size THEN mem[k + 1] ELSE mem[k])
                         = Capped(IF k < next + 1 THEN 2 * k ELSE k + (next + 1) - 1)
      BY <1>8
    <3>1. CASE k < next
      BY <1>3, <1>7, <2>1, <3>1
    <3>2. CASE next <= k /\ k < size
      BY <1>3, <1>7, <2>1, <3>2 DEF Capped
    <3>3. CASE next <= k /\ size <= k
      BY <1>3, <1>7, <1>10, <2>1, <3>3 DEF Capped
    <3>. QED
      BY <1>3, <1>7, <3>1, <3>2, <3>3
  <2>3. left' = { j \in 1 .. Size0 : j % 2 = 1 /\ j < 2 * (next + 1) - 1 }
    BY <1>1, <1>3, <1>5, <1>7, <1>10 DEF Capped
  <2>4. Striding'
    BY <1>1, <1>2, <1>3, <1>10 DEF Striding
  <2>5. StridingInv'
    BY <1>1, <1>2, <1>3, <1>7, <2>2, <2>3 DEF StridingInv, Capped
  <2>. QED
    BY <1>1, <1>2, <1>3, <1>9, <2>4, <2>5 DEF WalkInv
<1>11. CASE 2 * next = Size0 + 2
  <2>1. mem[next] = Size0 /\ size = next - 1 /\ mem[next - 1] = Size0 /\ size \in Nat \ {0}
    BY <1>3, <1>5, <1>6, <1>7, <1>11 DEF Capped
  <2>2. i = size
    <3>1. i < size => mem[i] = 2 * i /\ 2 * i < Size0
      BY <1>3, <1>6, <1>7, <1>11, <2>1 DEF Capped
    <3>. QED
      BY <1>3, <1>6, <2>1, <3>1
  <2>3. mem' = mem
    BY <1>3, <1>7, <1>8, <2>2
  <2>4. ~ Striding'
    BY <1>1, <1>2, <1>3, <1>11 DEF Striding
  <2>5. mem \in [1 .. Size0 -> 1 .. Size0]
    BY <1>3, <1>7 DEF Capped
  <2>6. \A k \in next + 1 .. Size0 : mem[k] = Size0
    BY <1>3, <1>7, <1>11 DEF Capped
  <2>7. left' = QuitVisited(list)
    <3>1. left' = { j \in 1 .. Size0 : j % 2 = 1 \/ j = Size0 }
      BY <1>1, <1>3, <1>7, <1>11, <2>1
    <3>. QED
      BY <1>3, <3>1, VisitedNumbers DEF WalkInv
  <2>8. RereadingInv'
    <3>1. size' \in 0 .. Size0 /\ 2 * size' < Size0 /\ Size0 <= 2 * size' + 2
      BY <1>1, <1>3, <1>11, <2>1
    <3>2. \A k \in 1 .. size' : mem[k] = 2 * k
      BY <1>1, <1>3, <1>7, <1>11, <2>1 DEF Capped
    <3>3. QuitVisited(list)' = QuitVisited(list)
      BY <1>1 DEF QuitVisited
    <3>. QED
      BY <1>1, <1>2, <2>3, <2>5, <2>6, <2>7, <3>1, <3>2, <3>3 DEF RereadingInv
  <2>. QED
    BY <1>1, <1>2, <1>3, <1>9, <2>4, <2>8 DEF WalkInv
<1>. QED
  BY <1>3, <1>5, <1>10, <1>11

LEMMA RereadingStays ==
  ASSUME RereadingInv, next \in Nat, next' = next + 1, Size0' = Size0, Size0 \in Nat,
         UNCHANGED <<list, mem, size, left>>
  PROVE  RereadingInv'
<1>1. QuitVisited(list)' = QuitVisited(list)
  BY DEF QuitVisited
<1>. QED
  BY <1>1 DEF RereadingInv

LEMMA RereadWalk ==
  ASSUME WalkInv, Reread
  PROVE  WalkInv'
<1>1. /\ UNCHANGED <<list, mem, size, shared, left>> /\ next' = next + 1
      /\ Reading /\ mem[next] \in left
      /\ stray' = (stray \/ mem[next] \notin shared)
  BY DEF Reread, Destroyed
<1>2. Size0' = Size0
  BY <1>1 DEF Size0
<1>3. next \in 1 .. Size0 /\ Size0 \in Nat
  BY <1>1, QuitLoopConstants DEF WalkInv, Reading, Size0
<1>. HIDE DEF Size0
<1>4. 2 * next >= Size0 + 3
  BY <1>1, <1>3, StridingReads DEF Striding
<1>5. /\ mem[next] = Size0
      /\ RereadingInv'
  <2>1. CASE Striding
    <3>1. 2 * next = Size0 + 3
      BY <1>3, <1>4, <2>1 DEF Striding
    <3>2. /\ mem = [k \in 1 .. Size0 |-> Capped(IF k < next THEN 2 * k ELSE k + next - 1)]
          /\ size = Size0 - next + 1
          /\ left = { j \in 1 .. Size0 : j % 2 = 1 /\ j < 2 * next - 1 }
      BY <2>1 DEF WalkInv, StridingInv
    <3>3. mem \in [1 .. Size0 -> 1 .. Size0] /\ \A k \in next .. Size0 : mem[k] = Size0
      BY <1>3, <3>1, <3>2 DEF Capped
    <3>4. left = QuitVisited(list)
      <4>1. left = { j \in 1 .. Size0 : j % 2 = 1 \/ j = Size0 }
        BY <1>3, <3>1, <3>2
      <4>. QED
        BY <1>3, <4>1, VisitedNumbers DEF WalkInv
    <3>5. mem[next] = Size0
      BY <1>3, <3>3
    <3>6. /\ size \in 0 .. Size0 /\ 2 * size < Size0 /\ Size0 <= 2 * size + 2
          /\ \A k \in 1 .. size : mem[k] = 2 * k
      BY <1>3, <3>1, <3>2 DEF Capped
    <3>7. RereadingInv
      BY <3>3, <3>4, <3>6 DEF RereadingInv
    <3>. QED
      BY <1>1, <1>2, <1>3, <3>5, <3>7, RereadingStays
  <2>2. CASE ~ Striding
    <3>1. RereadingInv
      BY <2>2 DEF WalkInv
    <3>2. mem[next] = Size0
      BY <1>3, <3>1 DEF RereadingInv
    <3>. QED
      BY <1>1, <1>2, <1>3, <3>1, <3>2, RereadingStays
  <2>. QED
    BY <2>1, <2>2
<1>6. ~ Striding'
  BY <1>1, <1>2, <1>3, <1>4 DEF Striding
<1>7. stray' \in BOOLEAN /\ (stray' <=> 2 * next' > Size0' + 4 /\ Size0' \notin shared')
  <2>1. 2 * next' > Size0' + 4 /\ (2 * next > Size0 + 4 => 2 * next' > Size0' + 4)
    BY <1>1, <1>2, <1>3, <1>4
  <2>2. stray' <=> stray \/ Size0 \notin shared
    BY <1>1, <1>5
  <2>3. stray => Size0 \notin shared
    BY DEF WalkInv
  <2>. QED
    BY <1>1, <1>2, <2>1, <2>2, <2>3 DEF WalkInv
<1>. QED
  BY <1>1, <1>2, <1>3, <1>5, <1>6, <1>7 DEF WalkInv

(* Every turn of the walk leaves the memory in the closed form of WalkInv. *)
THEOREM WalkInvHolds == Spec => []WalkInv
<1>1. WalkInv /\ UNCHANGED vars => WalkInv'
  BY DEF vars, WalkInv, Striding, StridingInv, RereadingInv, Capped, Size0
<1>2. WalkInv /\ [Next]_vars => WalkInv'
  BY <1>1, LeaveWalk, RereadWalk DEF Next
<1>. QED
  BY <1>2, InitWalk, PTL DEF Spec

(* However many channels the client is on, the walk never leaves the       *)
(* memory the vector had when it began.                                    *)
THEOREM WalkTyped == Spec => []TypeOK
<1>1. ASSUME WalkInv
      PROVE  TypeOK
  <2>1. Size0 \in Nat /\ next \in 1 .. Size0 + 1
    BY <1>1, QuitLoopConstants DEF WalkInv
  <2>2. mem \in [1 .. Size0 -> 1 .. Size0] /\ size \in 0 .. Size0 /\ left \subseteq 1 .. Size0
    <3>1. CASE Striding
      BY <1>1, <2>1, <3>1 DEF WalkInv, StridingInv, Striding, Capped
    <3>2. CASE ~ Striding
      BY <1>1, <2>1, <3>2, VisitedNumbers DEF WalkInv, RereadingInv
    <3>. QED
      BY <3>1, <3>2
  <2>. HIDE DEF Size0
  <2>3. mem \in [1 .. Size0 -> 1 .. MaxChannels] /\ Size0 <= MaxChannels
    BY <1>1, <2>1, <2>2, QuitLoopConstants DEF WalkInv
  <2>4. mem \in UNION { [1 .. k -> 1 .. MaxChannels] : k \in Nat }
    BY <2>1, <2>3
  <2>5. mem \in Seq(1 .. MaxChannels)
    BY <2>4, SeqDef, Zenon
  <2>6. Len(mem) = Size0
    BY <2>1, <2>3, <2>5, LenProperties
  <2>7. Listed(list) = 1 .. Size0
    BY <1>1 DEF WalkInv, Listed, ToSet
  <2>. QED
    BY <1>1, <2>1, <2>2, <2>5, <2>6, <2>7 DEF WalkInv, TypeOK, Size0
<1>. QED
  BY <1>1, WalkInvHolds, PTL

(* However many channels the client is on, quit takes it out of those at   *)
(* odd positions and the last, and of no other.                            *)
THEOREM QuitVisitsExactly == Spec => []WalkVisits
<1>1. ASSUME WalkInv, ~ Reading
      PROVE  left = QuitVisited(list)
  <2>1. next = Size0 + 1 /\ Size0 \in Nat /\ list = [i \in 1 .. Size0 |-> i]
    BY <1>1, QuitLoopConstants DEF WalkInv, Reading, Size0
  <2>2. CASE Striding
    <3>1. 1 % 2 = 1
      BY Parity
    <3>2. Size0 \in {0, 1} /\ left = { j \in 1 .. Size0 : j % 2 = 1 /\ j < 2 * next - 1 }
      BY <1>1, <2>1, <2>2 DEF WalkInv, Striding, StridingInv
    <3>. HIDE DEF Size0
    <3>3. left = { j \in 1 .. Size0 : j % 2 = 1 \/ j = Size0 }
      BY <2>1, <3>1, <3>2
    <3>. QED
      BY <2>1, <3>3, VisitedNumbers
  <2>3. CASE ~ Striding
    BY <1>1, <2>3 DEF WalkInv, RereadingInv
  <2>. QED
    BY <2>2, <2>3
<1>2. WalkInv => WalkVisits
  BY <1>1 DEF WalkVisits
<1>. QED
  BY <1>2, WalkInvHolds, PTL

(* And it touches a destroyed channel exactly from three channels on, when *)
(* the client was alone on the last.                                       *)
THEOREM QuitStraysExactly == Spec => []WalkStrays
<1>1. ASSUME WalkInv, ~ Reading
      PROVE  stray <=> QuitRereads(list) /\ Last(list) \notin shared
  <2>1. next = Size0 + 1 /\ Size0 \in Nat /\ list = [i \in 1 .. Size0 |-> i]
    BY <1>1, QuitLoopConstants DEF WalkInv, Reading, Size0
  <2>2. Size0 >= 3 => Last(list) = Size0
    BY <2>1 DEF Last, Size0
  <2>. QED
    BY <1>1, <2>1, <2>2 DEF WalkInv, QuitRereads, Size0
<1>2. WalkInv => WalkStrays
  BY <1>1 DEF WalkStrays
<1>. QED
  BY <1>2, WalkInvHolds, PTL

(* However many channels the client is on, the vector holds the channels   *)
(* not yet left, in the order of joining, after every erasure under the    *)
(* walk (User::exitChannel): what getChannel and exitChannel look up       *)
(* meanwhile is the truth.                                                 *)
THEOREM ListStaysRemainder == Spec => []ListIsRemainder
<1>1. ASSUME WalkInv
      PROVE  ListIsRemainder
  <2>1. Size0 \in Nat /\ next \in 1 .. Size0 + 1 /\ Listed(list) = 1 .. Size0
    BY <1>1, QuitLoopConstants DEF WalkInv, Listed, ToSet
  <2>. HIDE DEF Size0
  <2>2. CASE Striding
    <3>0. mem = [k \in 1 .. Size0 |-> Capped(IF k < next THEN 2 * k ELSE k + next - 1)]
      BY <1>1, <2>2 DEF WalkInv, StridingInv
    <3>1. /\ size = Size0 - next + 1
          /\ left = { j \in 1 .. Size0 : j % 2 = 1 /\ j < 2 * next - 1 }
      BY <1>1, <2>2 DEF WalkInv, StridingInv
    <3>2. 2 * next <= Size0 + 3
      BY <2>2 DEF Striding
    <3>3. ASSUME NEW k \in 1 .. size
          PROVE  /\ k \in 1 .. Size0
                 /\ k < next => mem[k] = 2 * k
                 /\ k >= next => mem[k] = k + next - 1
      BY <2>1, <3>0, <3>1, <3>2 DEF Capped
    <3>4. \A i, j \in 1 .. size : i < j => mem[i] < mem[j]
      BY <2>1, <3>1, <3>3
    <3>5. ASSUME NEW k \in 1 .. size
          PROVE  mem[k] \in (1 .. Size0) \ left
      <4>1. CASE k < next
        <5>1. mem[k] = 2 * k /\ 2 * k \in 1 .. Size0
          BY <2>1, <3>1, <3>2, <3>3, <4>1
        <5>2. (2 * k) % 2 = 0
          BY Parity
        <5>. QED
          BY <3>1, <5>1, <5>2
      <4>2. CASE k >= next
        BY <2>1, <3>1, <3>2, <3>3, <4>2
      <4>. QED
        BY <2>1, <3>1, <4>1, <4>2
    <3>6. ASSUME NEW c \in (1 .. Size0) \ left
          PROVE  \E k \in 1 .. size : mem[k] = c
      <4>1. CASE c >= 2 * next - 1
        <5>1. c - next + 1 \in 1 .. size /\ c - next + 1 >= next
          BY <2>1, <3>1, <4>1
        <5>. QED
          BY <2>1, <3>3, <5>1
      <4>2. CASE c < 2 * next - 1
        <5>1. c % 2 = 0
          BY <2>1, <3>1, <4>2
        <5>2. PICK h \in Nat : c = 2 * h
          BY <5>1
        <5>3. h \in 1 .. size /\ h < next
          BY <2>1, <3>1, <3>2, <4>2, <5>2
        <5>. QED
          BY <3>3, <5>2, <5>3
      <4>. QED
        BY <2>1, <4>1, <4>2
    <3>. QED
      BY <2>1, <3>4, <3>5, <3>6 DEF ListIsRemainder
  <2>3. CASE ~ Striding
    <3>1. /\ size \in 0 .. Size0 /\ 2 * size < Size0 /\ Size0 <= 2 * size + 2
          /\ \A k \in 1 .. size : mem[k] = 2 * k
          /\ left = { j \in 1 .. Size0 : j % 2 = 1 \/ j = Size0 }
      BY <1>1, <2>1, <2>3, VisitedNumbers DEF WalkInv, RereadingInv
    <3>2. ASSUME NEW k \in 1 .. size
          PROVE  mem[k] \in (1 .. Size0) \ left
      <4>1. mem[k] = 2 * k /\ 2 * k \in 1 .. Size0 /\ 2 * k # Size0
        BY <2>1, <3>1
      <4>2. (2 * k) % 2 = 0
        BY Parity
      <4>. QED
        BY <3>1, <4>1, <4>2
    <3>3. ASSUME NEW c \in (1 .. Size0) \ left
          PROVE  \E k \in 1 .. size : mem[k] = c
      <4>1. c % 2 = 0 /\ c < Size0
        BY <2>1, <3>1
      <4>2. PICK h \in Nat : c = 2 * h
        BY <4>1
      <4>3. h \in 1 .. size
        BY <2>1, <3>1, <4>1, <4>2
      <4>. QED
        BY <3>1, <4>2, <4>3
    <3>4. \A i, j \in 1 .. size : i < j => mem[i] < mem[j]
      BY <2>1, <3>1
    <3>. QED
      BY <2>1, <3>2, <3>3, <3>4 DEF ListIsRemainder
  <2>. QED
    BY <2>2, <2>3
<1>. QED
  BY <1>1, WalkInvHolds, PTL
=============================================================================
