------------------------------ MODULE Admission ------------------------------
(***************************************************************************)
(* What AdmissionQueue promises: at most MaxConcurrency callers are active *)
(* and at most MaxQueue wait, in a line served first come first served,    *)
(* and nobody waits while there is room.  Once closed it admits nobody.    *)
(***************************************************************************)
EXTENDS Naturals, Sequences, FiniteSets

CONSTANTS Callers, MaxConcurrency, MaxQueue

VARIABLES active,   \* callers holding or about to receive a concurrency slot
          waiting,  \* callers in line, the first is served next
          closed

vars == <<active, waiting, closed>>

InLine(c) == \E i \in 1..Len(waiting) : waiting[i] = c

Init == active = {} /\ waiting = <<>> /\ closed = FALSE

Admit(c) ==
    /\ ~closed /\ c \notin active /\ ~InLine(c)
    /\ waiting = <<>> /\ Cardinality(active) < MaxConcurrency
    /\ active' = active \cup {c}
    /\ UNCHANGED <<waiting, closed>>

Join(c) ==
    /\ ~closed /\ c \notin active /\ ~InLine(c)
    /\ Cardinality(active) = MaxConcurrency /\ Len(waiting) < MaxQueue
    /\ waiting' = Append(waiting, c)
    /\ UNCHANGED <<active, closed>>

\* A caller gives its slot back, and the head of the line gets it at once.
Release(c) ==
    /\ c \in active
    /\ IF waiting = <<>>
       THEN active' = active \ {c} /\ UNCHANGED waiting
       ELSE active' = (active \ {c}) \cup {Head(waiting)} /\ waiting' = Tail(waiting)
    /\ UNCHANGED closed

\* A caller gives up; the others keep their order.
Leave(c) ==
    /\ \E i \in 1..Len(waiting) :
         /\ waiting[i] = c
         /\ waiting' = SubSeq(waiting, 1, i - 1) \o SubSeq(waiting, i + 1, Len(waiting))
    /\ UNCHANGED <<active, closed>>

\* Closing sends the line away; the active stay.
Close == ~closed /\ closed' = TRUE /\ waiting' = <<>> /\ UNCHANGED active

Next == Close \/ \E c \in Callers : Admit(c) \/ Join(c) \/ Release(c) \/ Leave(c)

Spec == Init /\ [][Next]_vars
=============================================================================
