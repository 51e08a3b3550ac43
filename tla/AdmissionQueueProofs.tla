------------------------ MODULE AdmissionQueueProofs ------------------------
(***************************************************************************)
(* The admission queue for any number of callers and any limits: permits   *)
(* and slots are conserved, no permit lies idle while somebody is in line, *)
(* and the two semaphores implement Admission.                             *)
(*                                                                         *)
(* PermitsConserved is not inductive: that a waiter which finds the queue  *)
(* closed is no longer in line rests on close having sent the line away.   *)
(* QInv adds that, and groups the rest by what the proofs use together.    *)
(***************************************************************************)
EXTENDS AdmissionQueue, FiniteSetTheorems, TLAPS

\* Most leaves are first-order: Zenon proves them.  The others name SMT.
USE ZenonT(30)

Shape ==
    /\ permits \in Nat /\ slots \in Nat
    /\ line \in Seq(Callers)
    /\ assigned \subseteq Callers
    /\ closed \in BOOLEAN /\ slots_closed \in BOOLEAN
    /\ pc \in [Callers -> PCs]

\* Who is in line, and who has been taken out of it with a permit.
Lined ==
    /\ \A i, j \in 1..Len(line) : line[i] = line[j] => i = j
    /\ \A i \in 1..Len(line) : line[i] \notin assigned
    /\ \A i \in 1..Len(line) : pc[line[i]] \in {"waiting", "expired", "cancelled"}
    /\ \A c \in assigned : pc[c] \in {"waiting"} \cup Unwaiting
    /\ closed = TRUE => line = <<>>
    /\ permits > 0 => line = <<>>

Counted ==
    /\ permits + Cardinality(Active) = MaxConcurrency
    /\ slots + Cardinality(SlotHolders) = MaxQueue

QInv == Shape /\ Lined /\ Counted

\* The invariant is what it strengthens.
LEMMA QInvImplies == QInv => PermitsConserved
BY DEF QInv, Shape, Lined, Counted, PermitsConserved, TypeOK, WorkConserving

\* Admission's own Cardinality is the one used here.
LEMMA SameCardinality == \A S : Abs!Cardinality(S) = Cardinality(S)
BY DEF Abs!Cardinality, Cardinality

\* The sets that are counted are finite.
LEMMA FiniteFacts ==
    ASSUME Shape
    PROVE  /\ IsFiniteSet(Active) /\ Cardinality(Active) \in Nat
           /\ IsFiniteSet(SlotHolders) /\ Cardinality(SlotHolders) \in Nat
<1>1. Active \in SUBSET Callers /\ SlotHolders \in SUBSET Callers
  BY DEF Active, SlotHolders, Shape
<1> QED
  BY <1>1, QueueAssumption, FS_Subset, FS_CardinalityType

\* One caller more or fewer in a finite set is one more or fewer in its count.
LEMMA CountFacts ==
    ASSUME NEW S, IsFiniteSet(S), NEW c
    PROVE  /\ Cardinality(S) \in Nat
           /\ c \notin S => Cardinality(S \cup {c}) = Cardinality(S) + 1
           /\ c \in S => Cardinality(S \ {c}) = Cardinality(S) - 1
<1>1. Cardinality(S) \in Nat
  BY FS_CardinalityType
<1>2. c \notin S => Cardinality(S \cup {c}) = Cardinality(S) + 1
  BY FS_AddElement
<1>3. c \in S => Cardinality(S \ {c}) = Cardinality(S) - 1
  BY FS_RemoveElement
<1> QED
  BY <1>1, <1>2, <1>3

\* A caller that takes another's place leaves the count as it is.
LEMMA SwapCount ==
    ASSUME NEW S, IsFiniteSet(S), NEW c \in S, NEW d, d \notin S
    PROVE  Cardinality((S \ {c}) \cup {d}) = Cardinality(S)
<1>1. Cardinality(S) \in Nat /\ IsFiniteSet(S \ {c})
        /\ Cardinality(S \ {c}) = Cardinality(S) - 1
  BY FS_CardinalityType, FS_RemoveElement
<1>2. Cardinality((S \ {c}) \cup {d}) = Cardinality(S \ {c}) + 1
  BY <1>1, FS_AddElement
<1> QED
  BY <1>1, <1>2, SMTT(30)

Removed(s, i) == SubSeq(s, 1, i - 1) \o SubSeq(s, i + 1, Len(s))

\* Leaving a sequence closes the gap.
LEMMA RemoveFacts ==
    ASSUME NEW S, NEW s \in Seq(S), NEW i \in 1..Len(s)
    PROVE  /\ Removed(s, i) \in Seq(S)
           /\ Len(Removed(s, i)) = Len(s) - 1
           /\ \A j \in 1..(Len(s) - 1) :
                Removed(s, i)[j] = IF j < i THEN s[j] ELSE s[j + 1]
<1> DEFINE a == SubSeq(s, 1, i - 1)
           b == SubSeq(s, i + 1, Len(s))
<1>1. a \in Seq(S) /\ Len(a) = i - 1 /\ \A j \in 1..(i - 1) : a[j] = s[j]
  BY SMTT(30)
<1>2. b \in Seq(S) /\ Len(b) = Len(s) - i /\ \A j \in 1..(Len(s) - i) : b[j] = s[i + j]
  BY SMTT(30)
<1>3. Removed(s, i) = a \o b
  BY DEF Removed
<1> HIDE DEF a, b
<1>4. a \o b \in Seq(S) /\ Len(a \o b) = Len(s) - 1
  <2>1. a \o b \in Seq(S) /\ Len(a \o b) = Len(a) + Len(b)
    <3>1. a \in Seq(S) /\ b \in Seq(S)
      BY <1>1, <1>2
    <3> QED
      BY <3>1, SMTT(30)
  <2>2. Len(s) \in Nat /\ (i - 1) + (Len(s) - i) = Len(s) - 1
    BY SMTT(30)
  <2> QED
    BY <1>1, <1>2, <2>1, <2>2
<1>5. \A j \in 1..(Len(s) - 1) : (a \o b)[j] = IF j < i THEN a[j] ELSE b[j - (i - 1)]
  BY <1>1, <1>2, SMTT(30)
<1>6. ASSUME NEW j \in 1..(Len(s) - 1)
      PROVE  (a \o b)[j] = IF j < i THEN s[j] ELSE s[j + 1]
  <2>1. CASE j < i
    BY <1>1, <1>5, <2>1, SMTT(30)
  <2>2. CASE ~(j < i)
    <3>1. j - (i - 1) \in 1..(Len(s) - i) /\ i + (j - (i - 1)) = j + 1
      BY <2>2, SMTT(30)
    <3> QED
      BY <1>2, <1>5, <2>2, <3>1
  <2> QED
    BY <2>1, <2>2
<1> QED
  BY <1>3, <1>4, <1>6

\* AddPermit: the permit goes to the head of the line or into the pool.
LEMMA AddPermitFacts ==
    ASSUME Shape, Lined, NEW rest, AddPermit(rest)
    PROVE  \/ /\ line = <<>> /\ line' = line
              /\ permits' = permits + 1 /\ assigned' = rest
           \/ /\ line # <<>> /\ Head(line) = line[1] /\ line[1] \in Callers
              /\ line[1] \notin assigned
              /\ pc[line[1]] \in {"waiting", "expired", "cancelled"}
              /\ line' \in Seq(Callers) /\ Len(line') = Len(line) - 1
              /\ \A i \in 1..(Len(line) - 1) : line'[i] = line[i + 1]
              /\ permits' = permits /\ permits = 0 /\ assigned' = rest \cup {line[1]}
<1>1. CASE line = <<>>
  BY <1>1 DEF AddPermit
<1>2. CASE line # <<>>
  <2>1. Len(line) \in Nat /\ Len(line) > 0 /\ Head(line) = line[1] /\ line[1] \in Callers
    BY <1>2, SMTT(30) DEF Shape
  <2>2. /\ Tail(line) \in Seq(Callers) /\ Len(Tail(line)) = Len(line) - 1
        /\ \A i \in 1..(Len(line) - 1) : Tail(line)[i] = line[i + 1]
    BY <1>2, SMTT(30) DEF Shape
  <2>3. line' = Tail(line) /\ permits' = permits /\ assigned' = rest \cup {line[1]}
    BY <1>2, <2>1 DEF AddPermit
  <2>4. permits = 0
    BY <1>2, SMTT(30) DEF Lined, Shape
  <2> QED
    BY <1>2, <2>1, <2>2, <2>3, <2>4, SMTT(30) DEF Lined
<1> QED
  BY <1>1, <1>2

-----------------------------------------------------------------------------
\* The initial state.
LEMMA QInit == Init => QInv
<1> SUFFICES ASSUME Init PROVE QInv
  OBVIOUS
<1>1. Shape
  <2>1. pc \in [Callers -> PCs]
    BY DEF Init, PCs
  <2>2. permits \in Nat /\ slots \in Nat /\ line \in Seq(Callers)
    BY QueueAssumption, SMTT(30) DEF Init
  <2> QED
    BY <2>1, <2>2 DEF Init, Shape
<1>4. Lined
  BY SMTT(30) DEF Init, Lined
<1>2. Active = {} /\ SlotHolders = {}
  BY DEF Init, Active, SlotHolders, HasSlot, Unwaiting, DropsSlot
<1>3. Counted
  BY <1>2, FS_EmptySet, QueueAssumption, SMTT(30) DEF Init, Counted
<1> QED
  BY <1>1, <1>3, <1>4 DEF QInv

\* A step of c that leaves the line and closed alone and assigns no permit: what
\* is left to show is where c itself stands.
LEMMA Unlined ==
    ASSUME QInv, NEW c \in Callers, NEW to \in PCs,
           pc' = [pc EXCEPT ![c] = to],
           UNCHANGED <<line, closed, slots_closed>>,
           assigned' \in SUBSET assigned,
           permits' \in Nat, slots' \in Nat, permits' <= permits,
           \/ to \in {"waiting", "expired", "cancelled"}
           \/ \A i \in 1..Len(line) : line[i] # c,
           c \in assigned' => to \in {"waiting"} \cup Unwaiting
    PROVE  Shape' /\ Lined'
<1>1. \A i \in 1..Len(line) : line[i] \in Callers
  BY SMTT(30) DEF QInv, Shape
<1>2. Shape'
  BY DEF QInv, Shape
<1>3. \A i \in 1..Len(line) : pc'[line[i]] \in {"waiting", "expired", "cancelled"}
  BY <1>1 DEF QInv, Lined, Shape
<1>4. \A d \in assigned' : pc'[d] \in {"waiting"} \cup Unwaiting
  BY DEF QInv, Lined, Shape
<1>5. permits \in Nat /\ (permits' > 0 => permits > 0)
  BY SMTT(30) DEF QInv, Shape
<1>6. Lined'
  BY <1>3, <1>4, <1>5, SMTT(30) DEF QInv, Lined
<1> QED
  BY <1>2, <1>6

\* A caller that does not wait is not in line and has no permit assigned.
LEMMA Elsewhere ==
    ASSUME QInv, NEW c \in Callers
    PROVE  /\ pc[c] \notin {"waiting", "expired", "cancelled"}
                => \A i \in 1..Len(line) : line[i] # c
           /\ pc[c] \notin {"waiting", "expired", "cancelled", "refused"} => c \notin assigned
           /\ c \in assigned => \A i \in 1..Len(line) : line[i] # c
BY DEF QInv, Lined, Unwaiting

\* acquire and enqueue.
LEMMA AcquireStep ==
    ASSUME QInv, NEW c \in Callers, acquire(c) \/ enqueue(c)
    PROVE  QInv' /\ (Abs!Admit(c) \/ UNCHANGED <<Active, line, closed>>)
<1> USE DEF Goto, PCs, HasSlot, Unwaiting, DropsSlot, Results
<1>0. pc[c] \in {"idle", "enqueue"} /\ permits \in Nat /\ slots \in Nat
  BY DEF acquire, enqueue, QInv, Shape
<1>1. PICK to \in {"closed", "held", "enqueue", "full", "start"} :
        /\ pc' = [pc EXCEPT ![c] = to]
        /\ to = "held" => permits > 0 /\ ~closed
        /\ to = "start" => slots > 0
        /\ permits' = IF to = "held" THEN permits - 1 ELSE permits
        /\ slots' = IF to = "start" THEN slots - 1 ELSE slots
        /\ UNCHANGED <<line, assigned, closed, slots_closed>>
  BY DEF acquire, enqueue
<1>2. Shape' /\ Lined' /\ c \notin assigned
  <2>1. to \in PCs /\ permits' \in Nat /\ slots' \in Nat /\ permits' <= permits
    BY <1>0, <1>1, SMTT(30)
  <2>2. c \notin assigned /\ \A i \in 1..Len(line) : line[i] # c
    BY <1>0, Elsewhere
  <2> HIDE DEF PCs
  <2> QED
    BY <1>1, <2>1, <2>2, Unlined
<1>3. /\ Active' = IF to = "held" THEN Active \cup {c} ELSE Active
      /\ SlotHolders' = IF to = "start" THEN SlotHolders \cup {c} ELSE SlotHolders
      /\ c \notin Active /\ c \notin SlotHolders
  BY <1>0, <1>1, <1>2, SMTT(30) DEF Active, SlotHolders, QInv, Shape
<1>4. Counted'
  <2>1. /\ Cardinality(Active \cup {c}) = Cardinality(Active) + 1
        /\ Cardinality(SlotHolders \cup {c}) = Cardinality(SlotHolders) + 1
    BY <1>3, FiniteFacts, CountFacts DEF QInv
  <2> QED
    BY <1>0, <1>1, <1>3, <2>1, FiniteFacts, SMTT(30) DEF QInv, Counted
<1>5. to = "held" => Abs!Admit(c)
  <2>1. to = "held" => Cardinality(Active) < MaxConcurrency /\ line = <<>>
    BY <1>0, <1>1, FiniteFacts, QueueAssumption, SMTT(30) DEF QInv, Counted, Lined
  <2>2. ~Abs!InLine(c)
    BY <1>0, Elsewhere DEF Abs!InLine
  <2> QED
    BY <1>1, <1>3, <2>1, <2>2, SameCardinality DEF Abs!Admit
<1> QED
  BY <1>1, <1>2, <1>3, <1>4, <1>5 DEF QInv

\* Everybody in line holds a slot, so a caller with a slot that is not in line
\* leaves room for itself.
LEMMA LineFits ==
    ASSUME QInv, NEW c \in Callers, pc[c] = "start" PROVE Len(line) < MaxQueue
<1>1. line \in Injection(1..Len(line), SlotHolders)
  <2>1. \A i \in 1..Len(line) : line[i] \in SlotHolders
    BY SMTT(30) DEF QInv, Shape, Lined, SlotHolders, HasSlot, Unwaiting
  <2>2. line \in [1..Len(line) -> SlotHolders]
    BY <2>1, SMTT(30) DEF QInv, Shape
  <2> QED
    BY <2>2 DEF QInv, Lined, Injection, IsInjective
<1>2. line \notin Surjection(1..Len(line), SlotHolders)
  <2>1. c \in SlotHolders
    BY DEF SlotHolders, HasSlot
  <2>2. \A i \in 1..Len(line) : line[i] # c
    BY Elsewhere
  <2> QED
    BY <2>1, <2>2 DEF Surjection
<1>3. Len(line) \in Nat /\ Cardinality(1..Len(line)) = Len(line)
  <2>1. Len(line) \in Nat
    BY SMTT(30) DEF QInv, Shape
  <2>2. Cardinality(1..Len(line)) = IF 1 > Len(line) THEN 0 ELSE Len(line) - 1 + 1
    BY <2>1, FS_Interval, SMTT(30)
  <2> QED
    BY <2>1, <2>2, SMTT(30)
<1>4. Cardinality(1..Len(line)) <= Cardinality(SlotHolders)
        /\ Cardinality(1..Len(line)) # Cardinality(SlotHolders)
  BY <1>1, <1>2, FiniteFacts, FS_Injection DEF QInv
<1> QED
  BY <1>3, <1>4, FiniteFacts, SMTT(30) DEF QInv, Counted, Shape

\* The first poll of acquire_owned.
LEMMA FirstPollStep ==
    ASSUME QInv, NEW c \in Callers, FirstPoll(c)
    PROVE  QInv' /\ (Abs!Admit(c) \/ Abs!Join(c) \/ UNCHANGED <<Active, line, closed>>)
<1> USE DEF Goto, PCs, HasSlot, Unwaiting, DropsSlot, Results
<1>0. pc[c] = "start" /\ permits \in Nat /\ slots \in Nat /\ closed \in BOOLEAN
  BY DEF FirstPoll, QInv, Shape
<1>1. CASE permits = 0 /\ closed = FALSE
  <2>1. /\ line' = Append(line, c) /\ pc' = [pc EXCEPT ![c] = "waiting"]
        /\ UNCHANGED <<permits, assigned, closed, slots, slots_closed>>
    BY <1>1, SMTT(30) DEF FirstPoll
  <2>2. /\ line' \in Seq(Callers) /\ Len(line') = Len(line) + 1
        /\ \A i \in 1..Len(line) : line'[i] = line[i]
        /\ line'[Len(line) + 1] = c
        /\ Len(line) \in Nat
    BY <2>1, SMTT(30) DEF QInv, Shape
  <2>3. c \notin assigned /\ \A i \in 1..Len(line) : line[i] # c /\ line[i] \in Callers
    BY <1>0, SMTT(30) DEF QInv, Lined, Shape
  <2>4. Shape'
    BY <2>1, <2>2 DEF QInv, Shape
  <2>5. \A i \in 1..Len(line') : i = Len(line) + 1 \/ i \in 1..Len(line)
    BY <2>2, SMTT(30)
  <2>6. Lined'
    <3>1. \A i, j \in 1..Len(line') : line'[i] = line'[j] => i = j
      BY <2>2, <2>3, <2>5, SMTT(30) DEF QInv, Lined
    <3>2. \A i \in 1..Len(line') : line'[i] \notin assigned'
      BY <2>1, <2>2, <2>3, <2>5, ZenonT(30), SMTT(30) DEF QInv, Lined
    <3>3. \A i \in 1..Len(line') : pc'[line'[i]] \in {"waiting", "expired", "cancelled"}
      BY <2>1, <2>2, <2>3, <2>5, SMTT(30) DEF QInv, Lined, Shape
    <3>4. \A d \in assigned' : pc'[d] \in {"waiting"} \cup Unwaiting
      BY <2>1, <2>3 DEF QInv, Lined, Shape
    <3>5. (closed' = TRUE => line' = <<>>) /\ (permits' > 0 => line' = <<>>)
      BY <1>1, <2>1, SMTT(30)
    <3> QED
      BY <3>1, <3>2, <3>3, <3>4, <3>5 DEF Lined
  <2>7. Active' = Active /\ SlotHolders' = SlotHolders /\ c \notin Active
    BY <1>0, <2>1, <2>3 DEF Active, SlotHolders, QInv, Shape
  <2>8. Abs!Join(c)
    <3>1. Cardinality(Active) = MaxConcurrency
      BY <1>1, FiniteFacts, SMTT(30) DEF QInv, Counted
    <3>2. Len(line) < MaxQueue
      BY <1>0, LineFits
    <3>3. ~Abs!InLine(c)
      BY <2>3 DEF Abs!InLine
    <3> QED
      BY <1>1, <2>1, <2>7, <3>1, <3>2, <3>3, SameCardinality DEF Abs!Join
  <2> QED
    BY <2>1, <2>4, <2>6, <2>7, <2>8 DEF QInv, Counted
<1>2. CASE permits > 0 \/ closed = TRUE
  <2>1. PICK to \in {"refused", "got"} :
          /\ pc' = [pc EXCEPT ![c] = to]
          /\ to = "got" => permits > 0 /\ ~closed
          /\ permits' = IF to = "got" THEN permits - 1 ELSE permits
          /\ UNCHANGED <<line, assigned, closed, slots, slots_closed>>
    BY <1>0, <1>2, SMTT(30) DEF FirstPoll, QInv, Shape
  <2>2. Shape' /\ Lined' /\ c \notin assigned
    <3>1. to \in PCs /\ permits' \in Nat /\ slots' \in Nat /\ permits' <= permits
      BY <1>0, <2>1, SMTT(30)
    <3>2. c \notin assigned /\ \A i \in 1..Len(line) : line[i] # c
      BY <1>0, Elsewhere
    <3> HIDE DEF PCs
    <3> QED
      BY <2>1, <3>1, <3>2, Unlined
  <2>3. /\ Active' = IF to = "got" THEN Active \cup {c} ELSE Active
        /\ SlotHolders' = SlotHolders /\ c \notin Active
    BY <1>0, <2>1, <2>2 DEF Active, SlotHolders, QInv, Shape
  <2>4. Counted'
    <3>1. Cardinality(Active \cup {c}) = Cardinality(Active) + 1
      BY <2>3, FiniteFacts, CountFacts DEF QInv
    <3> QED
      BY <1>0, <2>1, <2>3, <3>1, FiniteFacts, SMTT(30) DEF QInv, Counted
  <2>5. to = "got" => Abs!Admit(c)
    <3>1. to = "got" => Cardinality(Active) < MaxConcurrency /\ line = <<>>
      BY <1>0, <2>1, FiniteFacts, QueueAssumption, SMTT(30) DEF QInv, Counted, Lined
    <3>2. ~Abs!InLine(c)
      BY <1>0, Elsewhere DEF Abs!InLine
    <3> QED
      BY <2>1, <2>3, <3>1, <3>2, SameCardinality DEF Abs!Admit
  <2> QED
    BY <2>1, <2>2, <2>3, <2>4, <2>5 DEF QInv
<1>3. permits = 0 \/ permits > 0
  BY <1>0, SMTT(30)
<1>4. closed = TRUE \/ closed = FALSE
  BY <1>0
<1> QED
  BY <1>1, <1>2, <1>3, <1>4

\* poll, the timer and a client that leaves: the waiter moves on, and keeps or
\* takes the permit assigned to it.
LEMMA WaitEndsStep ==
    ASSUME QInv, NEW c \in Callers, Poll(c) \/ Expire(c) \/ Cancel(c)
    PROVE  QInv' /\ UNCHANGED <<Active, line, closed>>
<1> USE DEF Goto, PCs, HasSlot, Unwaiting, DropsSlot, Results
<1>0. pc[c] = "waiting" /\ permits \in Nat /\ slots \in Nat
  BY DEF Poll, Expire, Cancel, QInv, Shape
<1>1. PICK to \in {"refused", "got", "expired", "cancelled"} :
        /\ pc' = [pc EXCEPT ![c] = to]
        /\ to = "refused" => closed = TRUE
        /\ to = "got" => c \in assigned
        /\ assigned' = IF to = "got" THEN assigned \ {c} ELSE assigned
        /\ UNCHANGED <<permits, line, closed, slots, slots_closed>>
  BY DEF Poll, Expire, Cancel, QInv, Shape
<1>2. to \in {"expired", "cancelled"} \/ \A i \in 1..Len(line) : line[i] # c
  <2>1. CASE to = "refused"
    BY <1>1, <2>1, SMTT(30) DEF QInv, Lined
  <2>2. CASE to = "got"
    BY <1>1, <2>2, Elsewhere
  <2> QED
    BY <2>1, <2>2
<1>3. Shape' /\ Lined'
  <2>1. /\ to \in PCs /\ assigned' \in SUBSET assigned
        /\ c \in assigned' => to \in {"waiting"} \cup Unwaiting
        /\ permits' \in Nat /\ slots' \in Nat /\ permits' <= permits
    BY <1>0, <1>1, SMTT(30)
  <2> HIDE DEF PCs, Unwaiting
  <2> QED
    BY <1>1, <1>2, <2>1, Unlined
<1>4. Active' = Active /\ SlotHolders' = SlotHolders
  BY <1>0, <1>1 DEF Active, SlotHolders, QInv, Shape
<1> QED
  BY <1>1, <1>3, <1>4 DEF QInv, Counted

\* The slot is dropped, or the task comes back.
LEMMA DropSlotStep ==
    ASSUME QInv, NEW c \in Callers, DropSlot(c) \/ Again(c)
    PROVE  QInv' /\ UNCHANGED <<Active, line, closed>>
<1> USE DEF Goto, PCs, HasSlot, Unwaiting, DropsSlot, Results
<1>0. pc[c] \in DropsSlot \cup Results /\ permits \in Nat /\ slots \in Nat
  BY DEF DropSlot, Again, QInv, Shape
<1>1. PICK to \in {"timeout", "closed", "gone", "held", "idle"} :
        /\ pc' = [pc EXCEPT ![c] = to]
        /\ to = "held" <=> pc[c] = "got"
        /\ to = "idle" <=> pc[c] \in Results
        /\ slots' = IF to = "idle" THEN slots ELSE slots + 1
        /\ UNCHANGED <<permits, line, assigned, closed, slots_closed>>
  BY SMTT(30) DEF DropSlot, Again, Outcome
<1>2. c \notin assigned /\ \A i \in 1..Len(line) : line[i] # c
  BY <1>0, Elsewhere
<1>3. Shape' /\ Lined'
  <2>1. to \in PCs /\ permits' \in Nat /\ slots' \in Nat /\ permits' <= permits
    BY <1>0, <1>1, SMTT(30)
  <2> HIDE DEF PCs
  <2> QED
    BY <1>1, <1>2, <2>1, Unlined
<1>4. /\ Active' = Active
      /\ SlotHolders' = IF to = "idle" THEN SlotHolders ELSE SlotHolders \ {c}
      /\ to # "idle" => c \in SlotHolders
  BY <1>0, <1>1 DEF Active, SlotHolders, QInv, Shape
<1>5. Counted'
  <2>1. c \in SlotHolders => Cardinality(SlotHolders \ {c}) = Cardinality(SlotHolders) - 1
    BY FiniteFacts, CountFacts DEF QInv
  <2> QED
    BY <1>0, <1>1, <1>4, <2>1, FiniteFacts, SMTT(30) DEF QInv, Counted
<1> QED
  BY <1>1, <1>3, <1>4, <1>5 DEF QInv

\* A caller gives a permit back, its own or one assigned to it: the head of the
\* line has it at once, or it is free.
LEMMA GiveBackStep ==
    ASSUME QInv, NEW c \in Active, NEW to \in PCs,
           pc' = [pc EXCEPT ![c] = to], to \notin {"got", "held"},
           (to \in HasSlot) = (pc[c] \in HasSlot),
           AddPermit(assigned \ {c}),
           UNCHANGED <<closed, slots, slots_closed>>
    PROVE  QInv' /\ Abs!Release(c)
<1>0. Shape /\ Lined /\ Counted
  BY DEF QInv
<1>1. c \in Callers /\ \A i \in 1..Len(line) : line[i] # c
  BY <1>0 DEF Active, Shape, Lined
<1>2. SlotHolders' = SlotHolders
  BY <1>0, <1>1 DEF SlotHolders, Shape
<1>3. CASE line = <<>>
  <2>1. line' = line /\ permits' = permits + 1 /\ assigned' = assigned \ {c}
    BY <1>0, <1>3, AddPermitFacts
  <2>2. Shape'
    BY <1>0, <1>1, <2>1, SMTT(30) DEF Shape
  <2>3. Lined'
    BY <1>0, <1>3, <2>1, SMTT(30) DEF Lined, Shape
  <2>4. Active' = Active \ {c}
    BY <1>0, <1>1, <2>1 DEF Active, Shape
  <2>5. Counted'
    <3>1. Cardinality(Active') = Cardinality(Active) - 1
      BY <1>0, <2>4, FiniteFacts, CountFacts
    <3> QED
      BY <1>0, <1>2, <2>1, <3>1, FiniteFacts, SMTT(30) DEF Counted, Shape
  <2> QED
    BY <1>3, <2>1, <2>2, <2>3, <2>4, <2>5 DEF QInv, Abs!Release
<1>4. CASE line # <<>>
  <2> DEFINE h == line[1]
  <2>1. /\ Head(line) = h /\ h \in Callers /\ h \notin assigned
        /\ pc[h] \in {"waiting", "expired", "cancelled"}
        /\ line' \in Seq(Callers) /\ Len(line') = Len(line) - 1
        /\ \A i \in 1..(Len(line) - 1) : line'[i] = line[i + 1]
        /\ permits' = permits /\ permits = 0 /\ assigned' = (assigned \ {c}) \cup {h}
    BY <1>0, <1>4, AddPermitFacts
  <2>2. Len(line) \in Nat /\ Len(line) > 0 /\ line' = Tail(line)
    BY <1>0, <1>4, SMTT(30) DEF Shape, AddPermit
  <2>3. h # c /\ \A i \in 1..(Len(line) - 1) : i + 1 \in 1..Len(line) /\ line[i + 1] # h
    BY <1>0, <1>1, <2>2, SMTT(30) DEF Lined
  <2> HIDE DEF h
  <2>4. Shape'
    BY <1>0, <1>1, <2>1 DEF Shape
  <2>5. Lined'
    <3>1. \A i, j \in 1..Len(line') : line'[i] = line'[j] => i = j
      BY <1>0, <2>1, <2>2, <2>3, SMTT(30) DEF Lined
    <3>2. \A i \in 1..Len(line') : line'[i] \notin assigned'
      BY <1>0, <2>1, <2>2, <2>3 DEF Lined
    <3>3. \A i \in 1..Len(line') : line'[i] \in Callers /\ line'[i] # c
                                   /\ pc[line'[i]] \in {"waiting", "expired", "cancelled"}
      BY <1>0, <1>1, <2>1, <2>2, <2>3, SMTT(30) DEF Lined, Shape
    <3>4. \A i \in 1..Len(line') : pc'[line'[i]] \in {"waiting", "expired", "cancelled"}
      BY <1>0, <1>1, <3>3 DEF Shape
    <3>5. \A d \in assigned' : pc'[d] \in {"waiting"} \cup Unwaiting
      BY <1>0, <1>1, <2>1, <2>3, SMTT(30) DEF Lined, Shape, Unwaiting
    <3>6. (closed' = TRUE => line' = <<>>) /\ (permits' > 0 => line' = <<>>)
      BY <1>0, <1>4, <2>1 DEF Lined
    <3> QED
      BY <3>1, <3>2, <3>4, <3>5, <3>6 DEF Lined
  <2>6. Active' = (Active \ {c}) \cup {h} /\ h \notin Active
    BY <1>0, <1>1, <2>1, <2>3 DEF Active, Shape
  <2>7. Counted'
    <3>1. Cardinality(Active') = Cardinality(Active)
      <4>1. IsFiniteSet(Active)
        BY <1>0, FiniteFacts
      <4>2. Cardinality((Active \ {c}) \cup {h}) = Cardinality(Active)
        BY <2>6, <4>1, SwapCount
      <4> QED
        BY <2>6, <4>2
    <3> QED
      BY <1>0, <1>2, <2>1, <3>1 DEF Counted
  <2> QED
    BY <1>4, <2>1, <2>2, <2>4, <2>5, <2>6, <2>7 DEF QInv, Abs!Release
<1> QED
  BY <1>3, <1>4

\* A waiter without a permit leaves the line.
LEMMA LeaveStep ==
    ASSUME QInv, NEW c \in Callers, NEW to \in PCs,
           pc[c] \in Unwaiting, to \in DropsSlot \ {"got"}, c \notin assigned,
           pc' = [pc EXCEPT ![c] = to], LeaveLine(c),
           UNCHANGED <<permits, assigned, closed, slots, slots_closed>>
    PROVE  QInv' /\ (Abs!Leave(c) \/ UNCHANGED <<Active, line, closed>>)
<1>0. Shape /\ Lined /\ Counted
  BY DEF QInv
<1>1. Active' = Active /\ SlotHolders' = SlotHolders
  BY <1>0 DEF Active, SlotHolders, HasSlot, Unwaiting, DropsSlot, Shape
<1>2. CASE \A i \in 1..Len(line) : line[i] # c
  <2>1. line' = line
    BY <1>2 DEF LeaveLine
  <2>2. permits' \in Nat /\ slots' \in Nat /\ permits' <= permits
    BY <1>0, SMTT(30) DEF Shape
  <2>3. Shape' /\ Lined'
    BY <1>2, <2>1, <2>2, Unlined
  <2> QED
    BY <1>0, <1>1, <2>1, <2>3 DEF QInv, Counted
<1>3. ASSUME NEW k \in 1..Len(line), line[k] = c PROVE QInv' /\ Abs!Leave(c)
  <2>1. PICK i \in 1..Len(line) : line[i] = c /\ line' = Removed(line, i)
    BY <1>3 DEF LeaveLine, Removed
  <2>2. /\ line' \in Seq(Callers) /\ Len(line') = Len(line) - 1 /\ Len(line) \in Nat
        /\ \A j \in 1..(Len(line) - 1) : line'[j] = IF j < i THEN line[j] ELSE line[j + 1]
    <3>1. line \in Seq(Callers) /\ Len(line) \in Nat
      BY <1>0, SMTT(30) DEF Shape
    <3>2. /\ Removed(line, i) \in Seq(Callers) /\ Len(Removed(line, i)) = Len(line) - 1
          /\ \A j \in 1..(Len(line) - 1) :
               Removed(line, i)[j] = IF j < i THEN line[j] ELSE line[j + 1]
      BY <3>1, RemoveFacts
    <3> QED
      BY <2>1, <3>1, <3>2
  <2>3. \A j \in 1..Len(line') : \E m \in 1..Len(line) :
            /\ line'[j] = line[m] /\ m # i
            /\ (j < i => m = j) /\ (j >= i => m = j + 1)
    <3>1. \A j \in 1..Len(line') : j \in 1..Len(line) /\ j + 1 \in 1..Len(line)
      BY <2>2, SMTT(30)
    <3>2. ASSUME NEW j \in 1..Len(line'), j < i
          PROVE  line'[j] = line[j] /\ j # i /\ ~(j >= i)
      BY <2>2, <3>2, SMTT(30)
    <3>3. ASSUME NEW j \in 1..Len(line'), ~(j < i)
          PROVE  line'[j] = line[j + 1] /\ j + 1 # i
      BY <2>2, <3>3, SMTT(30)
    <3> QED
      BY <3>1, <3>2, <3>3
  <2>4. Shape'
    BY <1>0, <2>2 DEF Shape
  <2>5. Lined'
    <3>1. \A j, n \in 1..Len(line') : line'[j] = line'[n] => j = n
      BY <1>0, <2>2, <2>3, SMTT(30) DEF Lined
    <3>2. \A j \in 1..Len(line') : line'[j] \notin assigned'
      BY <1>0, <2>3 DEF Lined
    <3>3. \A j \in 1..Len(line') : line'[j] # c /\ line'[j] \in Callers
                                   /\ pc[line'[j]] \in {"waiting", "expired", "cancelled"}
      BY <1>0, <2>1, <2>3, SMTT(30) DEF Lined, Shape
    <3>4. \A j \in 1..Len(line') : pc'[line'[j]] \in {"waiting", "expired", "cancelled"}
      BY <1>0, <3>3 DEF Shape
    <3>5. \A d \in assigned' : pc'[d] \in {"waiting"} \cup Unwaiting
      BY <1>0 DEF Lined, Shape
    <3>6. line # <<>> /\ (closed' = TRUE => line' = <<>>) /\ (permits' > 0 => line' = <<>>)
      BY <1>0, <2>1, SMTT(30) DEF Lined, Shape
    <3> QED
      BY <3>1, <3>2, <3>4, <3>5, <3>6 DEF Lined
  <2>6. Abs!Leave(c)
    BY <1>1, <2>1 DEF Abs!Leave, Removed
  <2> QED
    BY <1>0, <1>1, <2>4, <2>5, <2>6 DEF QInv, Counted
<1> QED
  BY <1>2, <1>3

\* The future of acquire_owned is dropped, or the Permit.
LEMMA DropStep ==
    ASSUME QInv, NEW c \in Callers, DropWaiter(c) \/ Release(c)
    PROVE  QInv' /\ (Abs!Release(c) \/ Abs!Leave(c) \/ UNCHANGED <<Active, line, closed>>)
<1>1. CASE Release(c)
  <2>1. pc[c] = "held" /\ c \in Active /\ assigned = assigned \ {c}
    BY <1>1, Elsewhere DEF Release, Active
  <2>2. pc' = [pc EXCEPT ![c] = "done"] /\ AddPermit(assigned \ {c})
          /\ UNCHANGED <<closed, slots, slots_closed>>
    BY <1>1, <2>1 DEF Release, Goto
  <2>3. "done" \in PCs /\ ("done" \in HasSlot) = (pc[c] \in HasSlot)
    BY <2>1, SMTT(30) DEF PCs, Results, HasSlot, Unwaiting, DropsSlot
  <2> QED
    BY <2>1, <2>2, <2>3, GiveBackStep
<1>2. CASE DropWaiter(c)
  <2> DEFINE to == After[pc[c]]
  <2>1. /\ pc[c] \in Unwaiting /\ to \in DropsSlot \ {"got"} /\ to \in PCs
        /\ to \notin {"got", "held"} /\ (to \in HasSlot) = (pc[c] \in HasSlot)
    BY <1>2, SMTT(30) DEF DropWaiter, After, Unwaiting, DropsSlot, PCs, HasSlot
  <2>2. pc' = [pc EXCEPT ![c] = to] /\ UNCHANGED <<closed, slots, slots_closed>>
    BY <1>2 DEF DropWaiter, Goto
  <2>3. CASE c \in assigned
    <3>1. c \in Active /\ AddPermit(assigned \ {c})
      BY <1>2, <2>3 DEF DropWaiter, Active
    <3> HIDE DEF to
    <3> QED
      BY <2>1, <2>2, <3>1, GiveBackStep
  <2>4. CASE c \notin assigned
    <3>1. LeaveLine(c) /\ UNCHANGED <<permits, assigned>>
      BY <1>2, <2>4 DEF DropWaiter
    <3> HIDE DEF to
    <3> QED
      BY <2>1, <2>2, <2>4, <3>1, LeaveStep
  <2> QED
    BY <2>3, <2>4
<1> QED
  BY <1>1, <1>2

\* close and its second half: the line goes home, the active stay.
LEMMA CloseStep ==
    ASSUME QInv, close \/ close_slots
    PROVE  QInv' /\ (Abs!Close \/ UNCHANGED <<Active, line, closed>>)
<1>1. CASE close
  <2>1. /\ closed' = TRUE /\ line' = <<>>
        /\ UNCHANGED <<permits, assigned, slots, slots_closed, pc>>
    BY <1>1 DEF close
  <2>2. Shape'
    BY <2>1, SMTT(30) DEF QInv, Shape
  <2>3. Lined'
    BY <2>1, SMTT(30) DEF QInv, Lined
  <2>4. Active' = Active /\ SlotHolders' = SlotHolders
    BY <2>1 DEF Active, SlotHolders
  <2>5. Abs!Close
    BY <1>1, <2>4 DEF close, Abs!Close
  <2> QED
    BY <2>1, <2>2, <2>3, <2>4, <2>5 DEF QInv, Counted
<1>2. CASE close_slots
  <2>1. slots_closed' = TRUE /\ UNCHANGED <<permits, line, assigned, closed, slots, pc>>
    BY <1>2 DEF close_slots
  <2>2. Shape'
    BY <2>1 DEF QInv, Shape
  <2>3. Lined' /\ Active' = Active /\ SlotHolders' = SlotHolders
    BY <2>1, SMTT(30) DEF QInv, Lined, Active, SlotHolders
  <2> QED
    BY <2>1, <2>2, <2>3 DEF QInv, Counted
<1> QED
  BY <1>1, <1>2

-----------------------------------------------------------------------------
\* Every step preserves the invariant and is a step of Admission, or none.
LEMMA QStep == QInv /\ [Next]_vars => QInv' /\ [Abs!Next]_Abs!vars
<1> SUFFICES ASSUME QInv, [Next]_vars PROVE QInv' /\ [Abs!Next]_Abs!vars
  OBVIOUS
<1>1. ASSUME NEW c \in Callers, Step(c) \/ Expire(c) \/ Cancel(c) \/ Release(c) \/ Again(c)
      PROVE  QInv' /\ [Abs!Next]_Abs!vars
  BY <1>1, AcquireStep, FirstPollStep, WaitEndsStep, DropSlotStep, DropStep
     DEF Step, Abs!Next, Abs!vars
<1>2. CASE close \/ close_slots
  BY <1>2, CloseStep DEF Abs!Next, Abs!vars
<1>3. CASE UNCHANGED vars
  <2>1. Active' = Active /\ SlotHolders' = SlotHolders /\ Shape' /\ Lined'
    BY <1>3, SMTT(30) DEF vars, Active, SlotHolders, QInv, Shape, Lined
  <2> QED
    BY <1>3, <2>1 DEF vars, QInv, Counted, Abs!vars
<1> QED
  BY <1>1, <1>2, <1>3 DEF Next

\* No permit and no slot is lost or made up and none lies idle, for any number
\* of callers and whatever reaches a waiter first (AdmissionQueue::acquire,
\* close, Permit's drop).
THEOREM Conserved == Spec => []PermitsConserved
<1>1. QInv /\ [Next]_vars => QInv'
  BY QStep
<1> QED
  BY QInit, <1>1, QInvImplies, PTL DEF Spec

\* The two semaphores, used one after the other without a common lock,
\* implement one bounded first-come-first-served admission.
THEOREM QueueImplements == Spec => Implements
<1>1. Init => Abs!Init
  BY DEF Init, Abs!Init, Active
<1>2. QInv /\ [Next]_vars => QInv'
  BY QStep
<1>3. QInv /\ [Next]_vars => [Abs!Next]_Abs!vars
  BY QStep
<1> QED
  BY QInit, <1>1, <1>2, <1>3, PTL DEF Spec, Implements, Abs!Spec

\* First come, first served: whoever becomes active while others are in line was
\* the first of them, although a late caller may find a permit that came back
\* before it joined.  Once closed nobody else becomes active, not even a waiter
\* whose permit was given back by another (AdmissionQueue::acquire, close).
InTurn ==
    /\ \A c \in Active' \ Active : line = <<>> \/ c = Head(line)
    /\ closed => Active' \subseteq Active

\* The line is served in its order, and only while the queue is open, for any
\* number of callers and whatever they do between two semaphore operations.
THEOREM ServedInTurn == Spec => [][InTurn]_vars
<1>1. QInv /\ [Next]_vars => QInv'
  BY QStep
<1>2. QInv /\ [Next]_vars => [InTurn]_vars
  <2> SUFFICES ASSUME QInv, [Next]_vars PROVE InTurn
    OBVIOUS
  <2>1. [Abs!Next]_Abs!vars /\ (closed => line = <<>>)
    BY QStep DEF QInv, Lined
  <2> QED
    BY <2>1 DEF InTurn, Abs!Next, Abs!vars, Abs!Admit, Abs!Join, Abs!Release, Abs!Leave,
                Abs!Close
<1> QED
  BY QInit, <1>1, <1>2, PTL DEF Spec
=============================================================================
