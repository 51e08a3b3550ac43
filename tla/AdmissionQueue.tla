--------------------------- MODULE AdmissionQueue ----------------------------
(***************************************************************************)
(* The admission queue (src/src/queue.rs): two tokio semaphores, one of    *)
(* concurrency permits with a FIFO line of waiters and one of queue slots, *)
(* used one after the other without a common lock.  Every semaphore        *)
(* operation is one action, so callers interleave between them.            *)
(*                                                                         *)
(* tokio's Semaphore is external.  As acquire, drop and close use it:      *)
(*  - a released permit goes to the first waiter, if there is one, and is  *)
(*    then assigned to it before that waiter's task has run again;         *)
(*  - a waiter that is polled asks first whether the semaphore is closed,  *)
(*    even when a permit is assigned to it;                                *)
(*  - dropping a waiter takes it out of the line, or gives back the permit *)
(*    assigned to it.                                                      *)
(***************************************************************************)
EXTENDS Integers, Sequences, FiniteSets

CONSTANTS
    Callers,          \* tasks that call acquire, again and again
    MaxConcurrency,   \* max_concurrency
    MaxQueue          \* max_queue; 0 means no queueing

\* AdmissionQueue::new asserts that max_concurrency is positive.
ASSUME QueueAssumption ==
    /\ MaxConcurrency \in Nat \ {0}
    /\ MaxQueue \in Nat
    /\ IsFiniteSet(Callers)

VARIABLES
    permits,       \* concurrency: permits nobody holds
    line,          \* concurrency: waiters, first come first served
    assigned,      \* concurrency: waiters given a permit and not yet polled
    closed,        \* concurrency is closed
    slots,         \* queue_slots: free slots
    slots_closed,  \* queue_slots is closed
    pc             \* where each caller is

vars == <<permits, line, assigned, closed, slots, slots_closed, pc>>

(***************************************************************************)
(* enqueue: no permit was free.  start: a slot was taken, acquire_owned is *)
(* polled next.  waiting: suspended in timeout(acquire_owned).  expired,   *)
(* refused, cancelled: the wait ended without a permit, its future is to   *)
(* be dropped.  expiring, closing, going and got: the slot is to be        *)
(* dropped.  held: the caller has its Permit.  The rest are results.       *)
(***************************************************************************)
Unwaiting == {"expired", "refused", "cancelled"}
DropsSlot == {"expiring", "closing", "going", "got"}
Results == {"full", "timeout", "closed", "gone", "done"}
PCs == {"idle", "enqueue", "start", "waiting", "held"}
         \cup Unwaiting \cup DropsSlot \cup Results

Init ==
    /\ permits = MaxConcurrency
    /\ line = <<>>
    /\ assigned = {}
    /\ closed = FALSE
    /\ slots = MaxQueue
    /\ slots_closed = FALSE
    /\ pc = [c \in Callers |-> "idle"]

Goto(c, to) == pc' = [pc EXCEPT ![c] = to]

-----------------------------------------------------------------------------
(***************************************************************************)
(* tokio::sync::Semaphore.                                                 *)
(***************************************************************************)

\* Mutant: the last to come is served first.
ServeLast(rest) ==
    \/ line = <<>> /\ permits' = permits + 1 /\ assigned' = rest /\ UNCHANGED line
    \/ /\ line # <<>>
       /\ assigned' = rest \cup {line[Len(line)]}
       /\ line' = SubSeq(line, 1, Len(line) - 1)
       /\ UNCHANGED permits

\* A permit is released: to the head of the line, or back into the pool.  rest
\* are the waiters that keep the permit assigned to them.
AddPermit(rest) ==
    \/ /\ line = <<>>
       /\ permits' = permits + 1
       /\ assigned' = rest
       /\ UNCHANGED line
    \/ /\ line # <<>>
       /\ assigned' = rest \cup {Head(line)}
       /\ line' = Tail(line)
       /\ UNCHANGED permits

\* c is unlinked from the line, if it is in it; the others keep their order.
LeaveLine(c) ==
    \/ \E i \in 1..Len(line) :
         line[i] = c /\ line' = SubSeq(line, 1, i - 1) \o SubSeq(line, i + 1, Len(line))
    \/ (\A i \in 1..Len(line) : line[i] # c) /\ UNCHANGED line

-----------------------------------------------------------------------------
\* acquire: an idle caller tries the concurrency semaphore.
acquire(c) ==
    /\ pc[c] = "idle"
    /\ \/ closed /\ Goto(c, "closed") /\ UNCHANGED permits
       \/ ~closed /\ permits > 0 /\ permits' = permits - 1 /\ Goto(c, "held")
       \/ ~closed /\ permits = 0 /\ Goto(c, "enqueue") /\ UNCHANGED permits
    /\ UNCHANGED <<line, assigned, closed, slots, slots_closed>>

\* enqueue: without a free permit, try a queue slot.
enqueue(c) ==
    /\ pc[c] = "enqueue"
    /\ \/ slots_closed /\ Goto(c, "closed") /\ UNCHANGED slots
       \/ ~slots_closed /\ slots = 0 /\ Goto(c, "full") /\ UNCHANGED slots
       \/ ~slots_closed /\ slots > 0 /\ slots' = slots - 1 /\ Goto(c, "start")
    /\ UNCHANGED <<permits, line, assigned, closed, slots_closed>>

\* The first poll of acquire_owned: a permit may have come back meanwhile.
FirstPoll(c) ==
    /\ pc[c] = "start"
    /\ \/ closed /\ Goto(c, "refused") /\ UNCHANGED <<permits, line>>
       \/ /\ ~closed /\ permits > 0
          /\ permits' = permits - 1 /\ Goto(c, "got") /\ UNCHANGED line
       \/ /\ ~closed /\ permits = 0
          /\ line' = Append(line, c) /\ Goto(c, "waiting") /\ UNCHANGED permits
    /\ UNCHANGED <<assigned, closed, slots, slots_closed>>

\* Mutant: a waiter is woken by a permit only.
PollIgnoresClose(c) ==
    /\ pc[c] = "waiting" /\ c \in assigned
    /\ assigned' = assigned \ {c} /\ Goto(c, "got")
    /\ UNCHANGED <<permits, line, closed, slots, slots_closed>>

\* The waiter is woken: closed comes before a permit assigned to it.
Poll(c) ==
    /\ pc[c] = "waiting"
    /\ \/ closed /\ Goto(c, "refused") /\ UNCHANGED assigned
       \/ ~closed /\ c \in assigned /\ assigned' = assigned \ {c} /\ Goto(c, "got")
    /\ UNCHANGED <<permits, line, closed, slots, slots_closed>>

\* wait_timeout: the timer counts only when acquire_owned is still pending.
Expire(c) ==
    /\ pc[c] = "waiting" /\ ~closed /\ c \notin assigned
    /\ Goto(c, "expired")
    /\ UNCHANGED <<permits, line, assigned, closed, slots, slots_closed>>

\* The caller's task is dropped while it waits: its client has gone.
Cancel(c) ==
    /\ pc[c] = "waiting"
    /\ Goto(c, "cancelled")
    /\ UNCHANGED <<permits, line, assigned, closed, slots, slots_closed>>

After == [expired |-> "expiring", refused |-> "closing", cancelled |-> "going"]

\* Mutant: the permit assigned to a dropped waiter is lost.
DropWaiterLosesPermit(c) ==
    /\ pc[c] \in Unwaiting
    /\ Goto(c, After[pc[c]])
    /\ assigned' = assigned \ {c}
    /\ LeaveLine(c)
    /\ UNCHANGED <<permits, closed, slots, slots_closed>>

\* The future of acquire_owned is dropped.  A permit may have been assigned to
\* it after its last poll: that permit goes on to the next waiter.
DropWaiter(c) ==
    /\ pc[c] \in Unwaiting
    /\ Goto(c, After[pc[c]])
    /\ \/ c \in assigned /\ AddPermit(assigned \ {c})
       \/ c \notin assigned /\ LeaveLine(c) /\ UNCHANGED <<permits, assigned>>
    /\ UNCHANGED <<closed, slots, slots_closed>>

Outcome == [expiring |-> "timeout", closing |-> "closed", going |-> "gone",
            got |-> "held"]

\* The slot is dropped after the wait has ended, with or without a permit.
DropSlot(c) ==
    /\ pc[c] \in DropsSlot
    /\ Goto(c, Outcome[pc[c]])
    /\ slots' = slots + 1
    /\ UNCHANGED <<permits, line, assigned, closed, slots_closed>>

\* The Permit is dropped when the request is over.
Release(c) ==
    /\ pc[c] = "held"
    /\ Goto(c, "done")
    /\ AddPermit(assigned)
    /\ UNCHANGED <<closed, slots, slots_closed>>

\* The task comes back with another request.
Again(c) ==
    /\ pc[c] \in Results
    /\ Goto(c, "idle")
    /\ UNCHANGED <<permits, line, assigned, closed, slots, slots_closed>>

\* close: first one semaphore, which sends its waiters away, then the other.
close ==
    /\ ~closed
    /\ closed' = TRUE /\ line' = <<>>
    /\ UNCHANGED <<permits, assigned, slots, slots_closed, pc>>

close_slots ==
    /\ closed /\ ~slots_closed
    /\ slots_closed' = TRUE
    /\ UNCHANGED <<permits, line, assigned, closed, slots, pc>>

\* Steps a caller's task takes without waiting for anybody.
Step(c) == acquire(c) \/ enqueue(c) \/ FirstPoll(c) \/ Poll(c)
             \/ DropWaiter(c) \/ DropSlot(c)

Next ==
    \/ \E c \in Callers : Step(c) \/ Expire(c) \/ Cancel(c) \/ Release(c) \/ Again(c)
    \/ close \/ close_slots

Spec == Init /\ [][Next]_vars

\* Every task is scheduled and every timer fires; nobody has to release.
FairSpec == Spec /\ \A c \in Callers : WF_vars(Step(c)) /\ WF_vars(Expire(c))

-----------------------------------------------------------------------------
(***************************************************************************)
(* Properties.                                                             *)
(***************************************************************************)
Active == assigned \cup {c \in Callers : pc[c] \in {"got", "held"}}
HasSlot == {"start", "waiting"} \cup Unwaiting \cup DropsSlot
SlotHolders == {c \in Callers : pc[c] \in HasSlot}

\* The semaphores and callers are in a state the code can name, the line has no
\* caller twice, and who waits in it holds a slot and no permit.
TypeOK ==
    /\ permits \in Nat /\ slots \in Nat
    /\ line \in Seq(Callers)
    /\ assigned \subseteq Callers
    /\ closed \in BOOLEAN /\ slots_closed \in BOOLEAN
    /\ pc \in [Callers -> PCs]
    /\ \A i, j \in 1..Len(line) : line[i] = line[j] => i = j
    /\ \A i \in 1..Len(line) : line[i] \notin assigned
    /\ \A i \in 1..Len(line) : pc[line[i]] \in {"waiting", "expired", "cancelled"}
    /\ \A c \in assigned : pc[c] \in {"waiting"} \cup Unwaiting

WorkConserving == permits > 0 => line = <<>>

\* No permit is lost or made up, whichever of permit, timeout, close and
\* cancellation reaches a waiter first: the free permits and the active
\* callers are always max_concurrency, the free slots and the callers between
\* taking and dropping one max_queue (snapshot's subtractions cannot wrap).  And
\* none lies idle: nobody is in line while a permit is free, although acquire
\* looks at the permits and joins the line in two steps.
PermitsConserved ==
    /\ TypeOK
    /\ permits + Cardinality(Active) = MaxConcurrency
    /\ slots + Cardinality(SlotHolders) = MaxQueue
    /\ WorkConserving

\* The two semaphores implement one bounded first-come-first-served admission.
Abs == INSTANCE Admission WITH active <- Active, waiting <- line
Implements == Abs!Spec

\* Every call of acquire that went to the queue comes back: with a permit,
\* with Full, after wait_timeout at the latest, or with Closed.
Resolves ==
    \A c \in Callers : pc[c] \in {"enqueue"} \cup HasSlot
                          ~> pc[c] \in {"held"} \cup Results
=============================================================================
