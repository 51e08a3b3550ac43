--------------------------- MODULE ServerProofs ---------------------------
(***************************************************************************)
(* The connection cap, for any number of peers and any max_connections:    *)
(* CapHeld is inductive as it stands.  The argument is a count: a step     *)
(* that takes a permit adds one connection to Running, a step that gives   *)
(* one back takes one away, and the others leave both alone.               *)
(***************************************************************************)
EXTENDS Server, FiniteSetTheorems, TLAPS

\* Most leaves are first-order: Zenon proves them.  The others name SMT.
USE ZenonT(30)

\* Running connections are finitely many.
LEMMA RunningFinite == IsFiniteSet(Running) /\ Cardinality(Running) \in Nat
<1>1. Running \subseteq Conns
  BY DEF Running
<1> QED
  BY <1>1, ServerConstants, FS_Subset, FS_CardinalityType

\* A step in which a connection changes and is running before and after, or
\* neither before nor after, changes no count.
LEMMA SameRunning ==
    ASSUME TypeOK, NEW c \in Conns, NEW s,
           conn' = [conn EXCEPT ![c] = s],
           (s \in {"silent", "serving"}) = (c \in Running)
    PROVE  Running' = Running
BY DEF Running, TypeOK

\* accept: a permit is taken and a connection runs, or the socket is closed.
LEMMA AcceptStep == ASSUME CapHeld, NEW c \in Conns, Accept(c) PROVE CapHeld'
<1> USE DEF CapHeld
<1>1. CASE cap > 0
  <2>1. Running' = Running \cup {c} /\ c \notin Running
    BY <1>1 DEF Accept, TypeOK, Running
  <2>2. Cardinality(Running') = Cardinality(Running) + 1
    BY <2>1, RunningFinite, FS_AddElement
  <2>3. TypeOK'
    BY <1>1, ServerConstants, SMTT(30) DEF Accept, TypeOK
  <2>4. cap' = cap - 1 /\ Running' \subseteq connections'
    BY <1>1, <2>1 DEF Accept
  <2> QED
    BY <2>2, <2>3, <2>4, RunningFinite, SMTT(30) DEF TypeOK
<1>2. CASE ~(cap > 0)
  <2>1. Running' = Running
    BY <1>2 DEF Accept, TypeOK, Running
  <2>2. TypeOK'
    BY <1>2 DEF Accept, TypeOK
  <2> QED
    BY <1>2, <2>1, <2>2 DEF Accept
<1> QED
  BY <1>1, <1>2

\* The end of a task: its permit goes back, and it runs no more.
LEMMA EndsStep == ASSUME CapHeld, NEW c \in Running, Ends(c) PROVE CapHeld'
<1> USE DEF CapHeld
<1>1. c \in Conns
  BY DEF Running
<1>2. Running' = Running \ {c}
  BY <1>1 DEF Ends, TypeOK, Running
<1>3. Cardinality(Running') = Cardinality(Running) - 1
  BY <1>2, RunningFinite, FS_RemoveElement
<1>4. cap + 1 \in 0..MaxConnections
  <2>1. Cardinality(Running) # 0
    BY RunningFinite, FS_EmptySet
  <2> QED
    BY <2>1, RunningFinite, ServerConstants, SMTT(30) DEF TypeOK
<1>5. TypeOK'
  BY <1>1, <1>4 DEF Ends, TypeOK
<1> QED
  BY <1>2, <1>3, <1>5, RunningFinite, SMTT(30) DEF Ends, TypeOK

\* Every step of the server preserves the cap.
LEMMA CapStep == CapHeld /\ [Next]_vars => CapHeld'
<1> SUFFICES ASSUME CapHeld, [Next]_vars PROVE CapHeld'
  OBVIOUS
<1>1. ASSUME NEW c \in Conns, Connect(c) PROVE CapHeld'
  <2>1. Running' = Running
    BY <1>1, SameRunning, SMTT(30) DEF Connect, CapHeld, Running
  <2> QED
    BY <1>1, <2>1 DEF Connect, CapHeld, TypeOK
<1>2. ASSUME NEW c \in Conns, Reap(c) PROVE CapHeld'
  <2>1. Running' = Running /\ c \notin Running
    BY <1>2 DEF Reap, Running
  <2> QED
    BY <1>2, <2>1 DEF Reap, CapHeld, TypeOK
<1>3. ASSUME NEW c \in Conns, FirstRequest(c) PROVE CapHeld'
  <2>1. Running' = Running
    BY <1>3, SameRunning, SMTT(30) DEF FirstRequest, CapHeld, Running
  <2> QED
    BY <1>3, <2>1 DEF FirstRequest, CapHeld, TypeOK
<1>4. ASSUME NEW c \in Conns, Watchdog(c) \/ Finished(c) \/ Aborted(c) PROVE CapHeld'
  BY <1>4, EndsStep DEF Watchdog, Finished, Aborted, Running
<1>5. CASE AcceptError \/ BackoffOver \/ Signal \/ Break \/ DrainTimeout \/ Return
  <2>1. Running' = Running
    BY <1>5 DEF AcceptError, BackoffOver, Signal, Break, DrainTimeout, Return, Running
  <2>2. TypeOK'
    <3>1. CASE AcceptError
      BY <3>1, ServerConstants, SMTT(30) DEF AcceptError, CapHeld, TypeOK
    <3>2. CASE Signal
      BY <3>2 DEF Signal, CapHeld, TypeOK
    <3>3. CASE BackoffOver \/ Break \/ DrainTimeout \/ Return
      BY <3>3 DEF BackoffOver, Break, DrainTimeout, Return, CapHeld, TypeOK
    <3> QED
      BY <1>5, <3>1, <3>2, <3>3
  <2> QED
    BY <1>5, <2>1, <2>2
       DEF AcceptError, BackoffOver, Signal, Break, DrainTimeout, Return, CapHeld
<1>6. CASE UNCHANGED vars
  BY <1>6 DEF vars, CapHeld, TypeOK, Running
<1> QED
  BY <1>1, <1>2, <1>3, <1>4, <1>5, <1>6, AcceptStep DEF Next

\* Whatever peers, requests and accept errors do, and however the drain goes,
\* running connections and free permits add up to max_connections.
THEOREM CapAlwaysHeld == Spec => []CapHeld
<1>1. Init => CapHeld
  <2> SUFFICES ASSUME Init PROVE CapHeld
    OBVIOUS
  <2>1. Running = {} /\ Cardinality(Running) = 0
    BY FS_EmptySet DEF Init, Running
  <2>2. TypeOK
    <3>1. conn \in [Conns -> {"new", "pending", "silent", "serving", "ended", "refused"}]
      BY DEF Init
    <3>2. cap \in 0..MaxConnections
      BY ServerConstants, SMTT(30) DEF Init
    <3> QED
      BY <3>1, <3>2 DEF Init, TypeOK
  <2> QED
    BY <2>1, <2>2, ServerConstants, SMTT(30) DEF Init, CapHeld
<1> QED
  BY <1>1, CapStep, PTL DEF Spec

\* When serve has returned, every task it spawned has ended and was reaped, and
\* every permit of connection_cap is back: drain and abort leave nothing behind.
NothingLeft == loop = "returned" => /\ connections = {} /\ Running = {}
                                    /\ cap = MaxConnections

\* However the drain ends, and whatever peers and accept errors do meanwhile
\* (serve, drain_timeout, abort_all).
THEOREM ReturnsEmpty == Spec => []NothingLeft
<1> DEFINE Reaped == loop = "returned" => connections = {}
<1>1. Init => Reaped
  BY DEF Init
<1>2. CapHeld /\ Reaped /\ [Next]_vars => Reaped'
  BY DEF Next, vars, Connect, Accept, Reap, FirstRequest, Watchdog, Finished, Aborted, Ends,
         AcceptError, BackoffOver, Signal, Break, DrainTimeout, Return
<1>3. CapHeld /\ Reaped => NothingLeft
  <2> SUFFICES ASSUME CapHeld, connections = {} PROVE Running = {} /\ cap = MaxConnections
    BY DEF NothingLeft
  <2>1. Running = {} /\ Cardinality(Running) = 0
    BY FS_EmptySet DEF CapHeld
  <2> QED
    BY <2>1, ServerConstants, SMTT(30) DEF CapHeld, TypeOK
<1> QED
  BY <1>1, <1>2, <1>3, CapAlwaysHeld, PTL DEF Spec
=============================================================================
