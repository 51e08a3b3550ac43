------------------------- MODULE UsageMonitorProofs -------------------------
(***************************************************************************)
(* The usage monitor for any keys, reloads, answers, clock and number of   *)
(* rounds: no record leaves the history without a trace, no key is cooled  *)
(* without a reason, and no change of the keys is missed.                  *)
(***************************************************************************)
EXTENDS UsageMonitor, FiniteSetTheorems, TLAPS

\* Most leaves are first-order: Zenon proves them.  The others name SMT.
USE ZenonT(30)

-----------------------------------------------------------------------------
(***************************************************************************)
(* Sequences.                                                              *)
(***************************************************************************)
\* One more at the end: how queues, lists of attempts and buffers grow.
LEMMA AppendFacts ==
    ASSUME NEW S, NEW s \in Seq(S), NEW x \in S
    PROVE  /\ Append(s, x) \in Seq(S) /\ Append(s, x) # <<>>
           /\ Len(Append(s, x)) = Len(s) + 1 /\ Append(s, x)[Len(s) + 1] = x
           /\ \A i \in 1..Len(s) : Append(s, x)[i] = s[i]
BY SMTT(30)

\* One less at the front: how queues are read.
LEMMA TailFacts ==
    ASSUME NEW S, NEW s \in Seq(S), s # <<>>
    PROVE  /\ Head(s) \in S /\ Tail(s) \in Seq(S) /\ Len(Tail(s)) = Len(s) - 1
           /\ \A i \in 1..Len(Tail(s)) : Tail(s)[i] = s[i + 1]
BY SMTT(30)

\* What a fetch may leave behind, and the state of the polling task.
Bodies == UsageBody \cup {Failed, NotJson}
Handling == {"results", "update", "report"}
Poll == [pc : Handling \cup {"loop", "fetching", "select", "stopped"}, round : SUBSET Keys,
         start : Nat, seen : Nat, answer : [Keys -> Bodies], todo : SUBSET Keys,
         at : Keys \cup {NoKey}]

\* The shape of the records, which TypeOK leaves open, and the clock.
Shapes ==
    /\ keys \in [set : KeySets, version : 0..MaxReloads]
    /\ pool \in [set : KeySets, version : 0..MaxReloads]
    /\ pool = keys \/ pool.version = keys.version + 1
    /\ poll \in Poll /\ poll.start <= now
    /\ rounds \in 0..(MaxRounds + 1)
    /\ cooled \in [Keys -> Nat]
    /\ thread \in [pc : {"recv", "io", "exited"}, rec : Entry \cup {NoRecord}]
    /\ now \in Nat

\* An answer is there exactly while its key waits to be handled, a body that
\* parses comes in a round within the bound, and only such a body is at hand.
Pending ==
    /\ \A k \in Keys :
          /\ poll.answer[k] # Failed <=> k \in poll.todo
          /\ k \in poll.todo => poll.pc \in Handling
          /\ poll.answer[k] \in UsageBody => rounds <= MaxRounds
    /\ poll.pc \in {"update", "report"}
          => poll.at \in poll.todo /\ poll.answer[poll.at] # NotJson

\* The records that were accepted and are neither in a file nor on the way.
InHand == IF thread.pc = "io" THEN {thread.rec} ELSE {}
Lost == (accepted \ written) \ ({queue[i] : i \in 1..Len(queue)} \cup InHand)

\* What is lost was counted, and what is on the way was accepted.
History ==
    /\ accepted \subseteq Entry /\ IsFiniteSet(accepted)
    /\ \A i \in 1..Len(queue) : queue[i] \in accepted
    /\ thread.pc = "io" => thread.rec \in accepted
    /\ Cardinality(Lost) <= failures

\* The status is behind the history by the record at hand at most, not ahead of
\* the rounds, and up to date when the record at hand is evaluated.
Shown ==
    /\ \A e \in accepted :
          \/ snapshots[e.key] >= e.round
          \/ poll.pc = "update" /\ e = [key |-> poll.at, round |-> rounds]
    /\ \A k \in Keys : snapshots[k] <= rounds
    /\ poll.pc = "report" => snapshots[poll.at] = rounds

\* The thread ends after the last sender, with nothing left to do.
Ending ==
    /\ thread.pc = "exited" => queue = <<>> /\ poll.pc = "stopped"
    /\ closing = "returned" => thread.pc = "exited"

\* The inductive invariant.
UInv == TypeOK /\ Shapes /\ Pending /\ History /\ Shown /\ Ending
-----------------------------------------------------------------------------
(***************************************************************************)
(* evaluate.                                                               *)
(***************************************************************************)
\* The latest of up to three instants is one of them.
LEMMA LatestOfThree ==
    ASSUME NEW a \in Int, NEW b \in Int, NEW c \in Int,
           NEW S \in SUBSET {a, b, c}, S # {}
    PROVE  Max(S) \in S /\ \A y \in S : Max(S) >= y
<1>1. \E x \in S : \A y \in S : x >= y
  <2>1. CASE a \in S /\ (b \in S => a >= b) /\ (c \in S => a >= c)
    <3>1. \A y \in S : a >= y
      BY <2>1, SMTT(30)
    <3> QED
      BY <2>1, <3>1
  <2>2. CASE b \in S /\ (a \in S => b >= a) /\ (c \in S => b >= c)
    <3>1. \A y \in S : b >= y
      BY <2>2, SMTT(30)
    <3> QED
      BY <2>2, <3>1
  <2>3. CASE c \in S /\ (a \in S => c >= a) /\ (b \in S => c >= b)
    <3>1. \A y \in S : c >= y
      BY <2>3, SMTT(30)
    <3> QED
      BY <2>3, <3>1
  <2>4. a \in S \/ b \in S \/ c \in S
    OBVIOUS
  <2> QED
    BY <2>1, <2>2, <2>3, <2>4, SMTT(30)
<1> QED
  BY <1>1 DEF Max

\* A cooldown ends at the latest reset still ahead among the windows that count.
LEMMA Evaluated ==
    ASSUME NEW body \in UsageBody, NEW t \in Nat, NEW d, d = evaluate(body, t),
           d # NoCooldown
    PROVE  /\ d \in Int /\ d > 0
           /\ \E w \in Windows : Counts(body, w) /\ body.windows[w].reset = t + d
           /\ \A w \in Windows : Counts(body, w) => body.windows[w].reset <= t + d
<1> DEFINE reset(w) == body.windows[w].reset
           due == {w \in Windows : Counts(body, w) /\ reset(w) > t}
           S == {reset(w) : w \in due}
<1>1. \A w \in Windows : reset(w) \in Int
  BY DEF UsageBody, Window
<1>2. d = IF S = {} THEN NoCooldown ELSE Max(S) - t
  BY DEF evaluate
<1>3. S # {} /\ d = Max(S) - t
  BY <1>2
<1>4. S \in SUBSET {reset("rolling"), reset("weekly"), reset("monthly")}
  BY DEF Windows
<1>5. Max(S) \in S /\ \A y \in S : Max(S) >= y
  <2> HIDE DEF S
  <2>1. reset("rolling") \in Int /\ reset("weekly") \in Int /\ reset("monthly") \in Int
    BY <1>1 DEF Windows
  <2> HIDE DEF reset
  <2> QED
    BY <1>3, <1>4, <2>1, LatestOfThree
<1>6. PICK w \in Windows : Counts(body, w) /\ reset(w) > t /\ reset(w) = Max(S)
  BY <1>5
<1>7. \A v \in Windows : Counts(body, v) /\ reset(v) > t => reset(v) <= Max(S)
  BY <1>5
<1> HIDE DEF S
<1>8. d \in Int /\ d > 0 /\ Max(S) = t + d
  BY <1>1, <1>3, <1>6, SMTT(30)
<1>9. \A v \in Windows : Counts(body, v) => reset(v) <= t + d
  BY <1>1, <1>7, <1>8, SMTT(30)
<1> QED
  BY <1>6, <1>8, <1>9

-----------------------------------------------------------------------------
(***************************************************************************)
(* The parts of the invariant, for the steps that leave most alone.        *)
(***************************************************************************)
\* A step that touches no record leaves the history as complete as it was.
LEMMA HistoryKept ==
    ASSUME History, Shown, UNCHANGED <<histVars, snapshots>>, rounds \in Nat, rounds' \in Nat,
           rounds <= rounds', snapshots \in [Keys -> Nat],
           \/ poll.pc \notin {"update", "report"} /\ poll'.pc # "report"
           \/ poll' = poll /\ rounds' = rounds
    PROVE  History' /\ Shown'
<1>1. History'
  BY DEF History, Lost, InHand, histVars
<1>2. Shown'
  BY SMTT(30) DEF Shown, histVars
<1> QED
  BY <1>1, <1>2

\* What such steps are to the rest: whatever the task does, types are kept.
LEMMA QuietStep ==
    ASSUME UInv, UNCHANGED <<histVars, snapshots>>, rounds' \in 0..(MaxRounds + 1),
           rounds <= rounds', Shapes', Pending', poll'.seen <= keys'.version,
           poll'.todo \subseteq poll'.round,
           \/ poll.pc \notin {"update", "report"} /\ poll'.pc # "report"
           \/ poll' = poll /\ rounds' = rounds,
           poll.pc = "stopped" => poll'.pc = "stopped",
           closing' \in {"no", "task", "thread", "returned"},
           closing' = "returned" => thread.pc = "exited"
    PROVE  UInv'
<1>1. TypeOK'
  <2>1. /\ keys'.set \in KeySets /\ keys'.version \in 0..MaxReloads
        /\ poll'.pc \in Handling \cup {"loop", "fetching", "select", "stopped"}
    BY DEF Shapes, Poll
  <2>2. poll'.seen \in 0..keys'.version
    BY <2>1, UsageConstants, SMTT(30) DEF Shapes, Poll
  <2> QED
    BY <2>1, <2>2 DEF UInv, TypeOK, Handling, histVars
<1>2. Ending'
  BY DEF UInv, Ending, histVars
<1>3. History' /\ Shown'
  <2>1. rounds \in Nat /\ rounds' \in Nat /\ snapshots \in [Keys -> Nat]
    BY UsageConstants, SMTT(30) DEF UInv, TypeOK, Shapes
  <2> QED
    BY <2>1, HistoryKept DEF UInv
<1> QED
  BY <1>1, <1>2, <1>3 DEF UInv

-----------------------------------------------------------------------------
(***************************************************************************)
(* The task.                                                               *)
(***************************************************************************)
LEMMA UInit == Init => UInv
<1> SUFFICES ASSUME Init PROVE UInv
  OBVIOUS
<1>1. TypeOK
  BY UsageConstants, SMTT(30) DEF Init, TypeOK
<1>2. Shapes
  BY UsageConstants, SMTT(30) DEF Init, Shapes, Poll, Bodies
<1>3. Pending
  BY UsageConstants DEF Init, Pending
<1>4. History
  <2>1. accepted = {} /\ queue = <<>> /\ thread.pc = "recv" /\ Lost = {} /\ failures = 0
    BY DEF Init, Lost
  <2> QED
    BY <2>1, FS_EmptySet, SMTT(30) DEF History
<1>5. Shown /\ Ending
  BY SMTT(30) DEF Init, Shown, Ending
<1> QED
  BY <1>1, <1>2, <1>3, <1>4, <1>5 DEF UInv

\* A round begins.
LEMMA BeginRoundStep == ASSUME UInv, BeginRound PROVE UInv'
<1> DEFINE p == [poll EXCEPT !.pc = "fetching", !.round = keys.set, !.start = now]
<1>1. /\ poll' = p /\ poll.pc = "loop"
      /\ UNCHANGED <<keys, pool, cooled, snapshots, histVars, closing, now>>
      /\ rounds' = IF rounds <= MaxRounds THEN rounds + 1 ELSE rounds
  BY DEF BeginRound
<1>2. poll \in Poll /\ keys.set \in SUBSET Keys /\ now \in Nat
  BY UsageConstants DEF UInv, Shapes, TypeOK
<1>3. /\ p \in Poll /\ p.pc = "fetching" /\ p.start = now /\ p.seen = poll.seen
      /\ p.answer = poll.answer /\ p.todo = poll.todo
  BY <1>2 DEF Poll
<1>4. \A k \in Keys : k \notin poll.todo /\ poll.answer[k] = Failed
  BY <1>1 DEF UInv, Pending, Handling
<1>5. poll.todo = {}
  BY <1>2, <1>4 DEF Poll
<1> HIDE DEF p
<1>6. rounds' \in 0..(MaxRounds + 1) /\ rounds <= rounds'
  BY <1>1, UsageConstants, SMTT(30) DEF UInv, Shapes
<1>7. Shapes'
  BY <1>1, <1>2, <1>3, <1>6, SMTT(30) DEF UInv, Shapes, histVars
<1>8. Pending'
  BY <1>1, <1>3, <1>4, UsageConstants DEF Pending
<1>9. poll'.seen <= keys'.version /\ poll'.todo \subseteq poll'.round
  BY <1>1, <1>3, <1>5, SMTT(30) DEF UInv, TypeOK
<1> QED
  BY <1>1, <1>3, <1>6, <1>7, <1>8, <1>9, QuietStep DEF UInv, Ending, TypeOK

\* What a fetch brings: nothing that parses once the bound on rounds is passed.
LEMMA ResultsType ==
    /\ Results \subseteq Bodies
    /\ ~(rounds <= MaxRounds) => Results \cap UsageBody = {}
<1>1. \A a \in Answers : fetch(a) \in Bodies
  BY UsageConstants DEF fetch, Answer, Bodies
<1> QED
  BY <1>1 DEF Results

\* The answers of a round are there together.
LEMMA FetchedStep == ASSUME UInv, Fetched PROVE UInv'
<1>1. PICK a \in [poll.round -> Results] :
        poll' = [poll EXCEPT !.pc = "results",
                             !.todo = {k \in poll.round : a[k] # Failed},
                             !.answer = [k \in Keys |-> IF k \in poll.round THEN a[k] ELSE Failed]]
  BY DEF Fetched
<1> DEFINE todo == {k \in poll.round : a[k] # Failed}
           answer == [k \in Keys |-> IF k \in poll.round THEN a[k] ELSE Failed]
<1>2. /\ poll.pc = "fetching"
      /\ UNCHANGED <<keys, pool, rounds, cooled, snapshots, histVars, closing, now>>
  BY DEF Fetched
<1>3. poll \in Poll /\ poll.round \in SUBSET Keys /\ rounds \in 0..(MaxRounds + 1)
  BY DEF UInv, Shapes, Poll
<1>4. todo \in SUBSET poll.round /\ answer \in [Keys -> Bodies]
  BY <1>3, ResultsType DEF Bodies
<1>5. \A k \in Keys : /\ answer[k] # Failed <=> k \in todo
                      /\ answer[k] \in UsageBody => rounds <= MaxRounds
  BY <1>3, ResultsType, UsageConstants
<1> HIDE DEF todo, answer
<1>6. poll' = [poll EXCEPT !.pc = "results", !.todo = todo, !.answer = answer]
  BY <1>1 DEF todo, answer
<1>7. /\ poll' \in Poll /\ poll'.pc = "results" /\ poll'.start = poll.start
      /\ poll'.seen = poll.seen /\ poll'.answer = answer /\ poll'.todo = todo
      /\ poll'.round = poll.round
  BY <1>3, <1>4, <1>6 DEF Poll, Handling
<1>8. Shapes'
  BY <1>2, <1>7 DEF UInv, Shapes, histVars
<1>9. Pending'
  <2>1. rounds' = rounds
    BY <1>2
  <2> SUFFICES ASSUME NEW k \in Keys
               PROVE  /\ poll'.answer[k] # Failed <=> k \in poll'.todo
                      /\ k \in poll'.todo => poll'.pc = "results"
                      /\ poll'.answer[k] \in UsageBody => rounds' <= MaxRounds
    BY <1>7 DEF Pending, Handling
  <2> QED
    BY <1>5, <1>7, <2>1
<1>10. poll'.seen <= keys'.version /\ poll'.todo \subseteq poll'.round
  BY <1>2, <1>4, <1>7, SMTT(30) DEF UInv, TypeOK
<1>11. rounds' \in 0..(MaxRounds + 1) /\ rounds <= rounds'
  BY <1>2, <1>3, UsageConstants, SMTT(30)
<1>12. /\ poll.pc \notin {"update", "report", "stopped"} /\ poll'.pc # "report"
       /\ closing' \in {"no", "task", "thread", "returned"}
       /\ closing' = "returned" => thread.pc = "exited"
  BY <1>2, <1>7 DEF UInv, Ending, TypeOK
<1> QED
  BY <1>2, <1>8, <1>9, <1>10, <1>11, <1>12, QuietStep

\* The steps of the task that only move it on.
LEMMA MoveStep ==
    ASSUME UInv, UNCHANGED <<keys, pool, rounds, cooled, snapshots, histVars, closing, now>>,
           NEW to \in {"loop", "select", "stopped"}, NEW seen \in 0..keys.version,
           poll.pc \notin {"update", "report", "stopped"}, poll.todo = {},
           poll' = [poll EXCEPT !.pc = to, !.seen = seen]
    PROVE  UInv'
<1>1. poll \in Poll /\ keys.version \in Nat /\ seen \in Nat
  BY SMTT(30) DEF UInv, Shapes, TypeOK
<1>2. /\ poll' \in Poll /\ poll'.pc = to /\ poll'.start = poll.start
      /\ poll'.seen = seen /\ poll'.answer = poll.answer /\ poll'.todo = poll.todo
      /\ poll'.round = poll.round
  BY <1>1 DEF Poll
<1>3. Shapes'
  BY <1>2 DEF UInv, Shapes, histVars
<1>4. Pending'
  BY <1>2 DEF UInv, Pending
<1>5. poll'.seen <= keys'.version /\ poll'.todo \subseteq poll'.round
  BY <1>1, <1>2, SMTT(30)
<1>6. rounds' \in 0..(MaxRounds + 1) /\ rounds <= rounds'
  BY UsageConstants, SMTT(30) DEF UInv, Shapes
<1>7. /\ poll'.pc # "report" /\ closing' \in {"no", "task", "thread", "returned"}
      /\ closing' = "returned" => thread.pc = "exited"
  BY <1>2 DEF UInv, Ending, TypeOK
<1> QED
  BY <1>3, <1>4, <1>5, <1>6, <1>7, QuietStep

\* The steps of the polling task between rounds.
LEMMA MovesStep == ASSUME UInv, EndRound \/ Wake \/ Stopped PROVE UInv'
<1>1. poll \in Poll /\ poll.seen \in 0..keys.version /\ keys.version \in Nat
  BY SMTT(30) DEF UInv, Shapes, TypeOK
<1>2. poll = [poll EXCEPT !.seen = poll.seen]
  BY <1>1 DEF Poll
<1>3. poll.pc \notin Handling => poll.todo = {}
  BY <1>1 DEF UInv, Pending, Poll
<1>4. CASE EndRound
  <2>1. poll' = [poll EXCEPT !.pc = "select", !.seen = poll.seen]
    BY <1>1, <1>4 DEF EndRound, Poll
  <2> QED
    BY <1>1, <1>4, <2>1, MoveStep DEF EndRound
<1>5. CASE Stopped
  <2>1. poll' = [poll EXCEPT !.pc = "stopped", !.seen = poll.seen]
    BY <1>1, <1>5 DEF Stopped, Poll
  <2> QED
    BY <1>1, <1>3, <1>5, <2>1, MoveStep DEF Stopped, Handling
<1>6. CASE Wake
  <2>1. PICK seen \in 0..keys.version : poll' = [poll EXCEPT !.pc = "loop", !.seen = seen]
    <3>1. CASE poll' = [poll EXCEPT !.pc = "loop"]
      <4>1. poll' = [poll EXCEPT !.pc = "loop", !.seen = poll.seen]
        BY <1>1, <3>1 DEF Poll
      <4> QED
        BY <1>1, <4>1
    <3>2. CASE poll' = [poll EXCEPT !.pc = "loop", !.seen = keys.version]
      <4>1. keys.version \in 0..keys.version
        BY <1>1, SMTT(30)
      <4> QED
        BY <3>2, <4>1
    <3> QED
      BY <1>6, <3>1, <3>2 DEF Wake
  <2> QED
    BY <1>1, <1>3, <1>6, <2>1, MoveStep DEF Wake, Handling
<1> QED
  BY <1>4, <1>5, <1>6

\* A reload, the clock and the calls of shutdown.
LEMMA OutsideStep ==
    ASSUME UInv,
           \/ replace_keys \/ \E ks \in KeySets : update_with_keys(ks)
           \/ Tick \/ shutdown \/ Joined
    PROVE  UInv'
<1>1. UNCHANGED <<poll, rounds, snapshots, histVars>>
  BY DEF replace_keys, update_with_keys, Tick, shutdown, Joined
<1> DEFINE Grown ==
               /\ keys' \in [set : KeySets, version : 0..MaxReloads]
               /\ keys.version <= keys'.version
               /\ pool' \in [set : KeySets, version : 0..MaxReloads]
               /\ pool' = keys' \/ pool'.version = keys'.version + 1
               /\ now' \in Nat /\ now <= now'
<1>2. Grown
  <2>1. CASE replace_keys
    BY <2>1, SMTT(30) DEF UInv, Shapes, replace_keys
  <2>2. ASSUME NEW ks \in KeySets, update_with_keys(ks) PROVE Grown
    BY <2>2, UsageConstants, SMTT(30) DEF UInv, Shapes, update_with_keys
  <2>3. CASE Tick \/ shutdown \/ Joined
    BY <2>3, UsageConstants, SMTT(30) DEF UInv, Shapes, Tick, shutdown, Joined
  <2> QED
    BY <2>1, <2>2, <2>3
<1>3. /\ closing' \in {"no", "task", "thread", "returned"}
      /\ closing' = "returned" => thread.pc = "exited"
  BY DEF UInv, TypeOK, Ending, replace_keys, update_with_keys, Tick, shutdown, Joined
<1>4. cooled' \in [Keys -> Nat]
  <2>1. cooled \in [Keys -> Nat] /\ 0 \in Nat
    BY SMTT(30) DEF UInv, Shapes
  <2>2. CASE \E ks \in KeySets : update_with_keys(ks)
    <3>1. PICK ks \in KeySets : cooled' = [k \in Keys |-> IF k \in ks THEN cooled[k] ELSE 0]
      BY <2>2 DEF update_with_keys
    <3> QED
      BY <2>1, <3>1
  <2>3. CASE replace_keys \/ Tick \/ shutdown \/ Joined
    BY <2>1, <2>3 DEF replace_keys, Tick, shutdown, Joined
  <2> QED
    BY <2>2, <2>3
<1>5. Shapes'
  BY <1>1, <1>2, <1>4, SMTT(30) DEF UInv, Shapes, Poll, histVars
<1>6. Pending'
  BY <1>1 DEF UInv, Pending
<1>7. poll'.seen <= keys'.version /\ poll'.todo \subseteq poll'.round
  BY <1>1, <1>2, SMTT(30) DEF UInv, TypeOK, Shapes
<1>8. rounds' \in 0..(MaxRounds + 1) /\ rounds <= rounds'
  BY <1>1, UsageConstants, SMTT(30) DEF UInv, Shapes
<1> QED
  BY <1>1, <1>3, <1>5, <1>6, <1>7, <1>8, QuietStep

\* The sink is taken from the writer: no record is touched.
LEMMA TaskEndedStep == ASSUME UInv, TaskEnded PROVE UInv'
<1>1. /\ UNCHANGED <<keys, pool, poll, rounds, cooled, snapshots, queue, thread, written,
                     failures, accepted, now>>
      /\ closing' = "thread"
  BY DEF TaskEnded
<1>2. TypeOK' /\ Shapes'
  BY <1>1 DEF UInv, TypeOK, Shapes
<1>3. Pending' /\ Shown' /\ Ending'
  BY <1>1 DEF UInv, Pending, Shown, Ending
<1>4. History'
  BY <1>1 DEF UInv, History, Lost, InHand
<1> QED
  BY <1>2, <1>3, <1>4 DEF UInv

-----------------------------------------------------------------------------
(***************************************************************************)
(* The history.                                                            *)
(***************************************************************************)
\* One record more than before is lost at most.
LEMMA LosesAtMost ==
    ASSUME NEW S, IsFiniteSet(S), NEW x, NEW T \in SUBSET (S \cup {x})
    PROVE  IsFiniteSet(T) /\ Cardinality(T) <= Cardinality(S) + 1
<1>1. /\ IsFiniteSet(S \cup {x})
      /\ Cardinality(S \cup {x}) = IF x \in S THEN Cardinality(S) ELSE Cardinality(S) + 1
  BY FS_AddElement
<1>3. Cardinality(S) \in Nat
  BY FS_CardinalityType
<1>2. /\ IsFiniteSet(T) /\ Cardinality(T) \in Nat /\ Cardinality(S \cup {x}) \in Nat
      /\ Cardinality(T) <= Cardinality(S \cup {x})
  BY <1>1, FS_Subset, FS_CardinalityType
<1> QED
  BY <1>1, <1>2, <1>3, SMTT(30)

\* What is lost is finite.
LEMMA LostFinite ==
    ASSUME History
    PROVE  IsFiniteSet(Lost) /\ Cardinality(Lost) \in Nat
<1>1. Lost \in SUBSET accepted
  BY DEF Lost
<1> QED
  BY <1>1, FS_Subset, FS_CardinalityType DEF History

\* The thread takes the next record, or ends.
LEMMA RecvStep == ASSUME UInv, Recv PROVE UInv'
<1>1. /\ UNCHANGED <<keys, pool, poll, rounds, cooled, snapshots, sink, written, failures,
                     accepted, closing, now>>
      /\ thread.pc = "recv" /\ queue \in Seq(Entry) /\ Len(queue) \in Nat
      /\ thread \in [pc : {"recv", "io", "exited"}, rec : Entry \cup {NoRecord}]
  BY SMTT(30) DEF Recv, UInv, TypeOK, Shapes
<1>2. Pending' /\ Shown'
  BY <1>1 DEF UInv, Pending, Shown
<1>3. CASE /\ queue # <<>> /\ queue' = Tail(queue)
           /\ thread' = [pc |-> "io", rec |-> Head(queue)]
  <2>1. /\ queue' \in Seq(Entry) /\ Len(queue') = Len(queue) - 1 /\ Head(queue) = queue[1]
        /\ \A i \in 1..Len(queue') : queue'[i] = queue[i + 1]
        /\ Head(queue) \in Entry
    BY <1>1, <1>3, TailFacts, SMTT(30)
  <2>2. thread'.pc = "io" /\ thread'.rec = queue[1]
    BY <1>3, <2>1
  <2>3. TypeOK' /\ Shapes'
    <3>1. Len(queue') <= Capacity
      BY <1>1, <2>1, UsageConstants, SMTT(30) DEF UInv, TypeOK
    <3>2. thread' \in [pc : {"recv", "io", "exited"}, rec : Entry \cup {NoRecord}]
      BY <1>3, <2>1
    <3> QED
      BY <1>1, <2>1, <2>2, <3>1, <3>2 DEF UInv, TypeOK, Shapes
  <2>4. 1 \in 1..Len(queue) /\ \A i \in 1..Len(queue') : i + 1 \in 1..Len(queue)
    BY <1>1, <1>3, <2>1, SMTT(30)
  <2>5. /\ \A i \in 1..Len(queue') : queue'[i] \in accepted
        /\ thread'.rec \in accepted
    BY <2>1, <2>2, <2>4 DEF UInv, History
  <2>6. Lost' \subseteq Lost
    <3>1. ASSUME NEW i \in 1..Len(queue), queue[i] # queue[1]
          PROVE  \E j \in 1..Len(queue') : queue'[j] = queue[i]
      <4>1. i - 1 \in 1..Len(queue') /\ queue'[i - 1] = queue[(i - 1) + 1]
        BY <1>1, <2>1, <3>1, SMTT(30)
      <4> QED
        BY <4>1, SMTT(30)
    <3> QED
      BY <1>1, <2>2, <3>1, SMTT(30) DEF Lost, InHand
  <2>7. Cardinality(Lost') <= failures
    <3>1. /\ IsFiniteSet(Lost) /\ Cardinality(Lost) \in Nat /\ Cardinality(Lost) <= failures
          /\ failures \in Nat
      BY LostFinite DEF UInv, History, TypeOK
    <3>2. IsFiniteSet(Lost') /\ Cardinality(Lost') <= Cardinality(Lost)
      BY <2>6, <3>1, FS_Subset
    <3>3. Cardinality(Lost') \in Nat
      BY <3>2, FS_CardinalityType
    <3> QED
      BY <3>1, <3>2, <3>3, SMTT(30)
  <2>8. History'
    BY <1>1, <2>2, <2>5, <2>7 DEF UInv, History
  <2>9. Ending'
    BY <1>1, <2>2 DEF UInv, Ending
  <2> QED
    BY <1>2, <2>3, <2>8, <2>9 DEF UInv
<1>4. CASE /\ SendersGone /\ queue = <<>> /\ UNCHANGED queue
           /\ thread' = [thread EXCEPT !.pc = "exited"]
  <2>1. thread'.pc = "exited" /\ thread'.rec = thread.rec
    BY <1>1, <1>4
  <2>2. TypeOK' /\ Shapes'
    BY <1>1, <1>4, <2>1 DEF UInv, TypeOK, Shapes
  <2>3. Lost' = Lost
    BY <1>1, <1>4, <2>1 DEF Lost, InHand
  <2>4. History'
    BY <1>1, <1>4, <2>1, <2>3 DEF UInv, History
  <2>5. Ending'
    BY <1>1, <1>4, <2>1 DEF UInv, Ending, SendersGone
  <2> QED
    BY <1>2, <2>2, <2>4, <2>5 DEF UInv
<1> QED
  BY <1>3, <1>4 DEF Recv

\* The thread has written its record, or counted a failure.
LEMMA WriteStep == ASSUME UInv, write_history_record PROVE UInv'
<1>1. /\ UNCHANGED <<keys, pool, poll, rounds, cooled, snapshots, queue, sink, accepted, closing,
                     now>>
      /\ thread.pc = "io" /\ thread' = [pc |-> "recv", rec |-> NoRecord]
      /\ \/ written' = written \cup {thread.rec} /\ UNCHANGED failures
         \/ failures' = failures + 1 /\ UNCHANGED written
  BY DEF write_history_record
<1>2. /\ thread'.pc = "recv" /\ thread.rec \in accepted /\ failures \in Nat /\ failures' \in Nat
      /\ written' \subseteq accepted
  BY <1>1, SMTT(30) DEF UInv, History, TypeOK
<1>3. TypeOK' /\ Shapes'
  BY <1>1, <1>2 DEF UInv, TypeOK, Shapes
<1>4. Pending' /\ Shown' /\ Ending'
  BY <1>1, <1>2 DEF UInv, Pending, Shown, Ending
<1>5. Cardinality(Lost') <= failures'
  <2>1. /\ IsFiniteSet(Lost) /\ Cardinality(Lost) \in Nat /\ Cardinality(Lost) <= failures
    BY LostFinite DEF UInv, History
  <2>2. CASE written' = written \cup {thread.rec} /\ UNCHANGED failures
    <3>1. Lost' \subseteq Lost
      BY <1>1, <1>2, <2>2 DEF Lost, InHand
    <3>2. /\ IsFiniteSet(Lost') /\ Cardinality(Lost') <= Cardinality(Lost)
      BY <2>1, <3>1, FS_Subset
    <3>3. Cardinality(Lost') \in Nat
      BY <3>2, FS_CardinalityType
    <3> QED
      BY <1>2, <2>1, <2>2, <3>2, <3>3, SMTT(30)
  <2>3. CASE failures' = failures + 1 /\ UNCHANGED written
    <3>1. Lost' \subseteq Lost \cup {thread.rec}
      BY <1>1, <1>2, <2>3 DEF Lost, InHand
    <3>2. IsFiniteSet(Lost') /\ Cardinality(Lost') <= Cardinality(Lost) + 1
      BY <2>1, <3>1, LosesAtMost
    <3>3. Cardinality(Lost') \in Nat
      BY <3>2, FS_CardinalityType
    <3> QED
      BY <1>2, <2>1, <2>3, <3>2, <3>3, SMTT(30)
  <2> QED
    BY <1>1, <2>2, <2>3
<1>6. History'
  BY <1>1, <1>2, <1>5 DEF UInv, History
<1> QED
  BY <1>3, <1>4, <1>6 DEF UInv

\* A result leaves the list of those to be handled, with no record touched.
LEMMA HandledStep ==
    ASSUME UInv, NEW k \in Keys, poll.pc \in {"results", "report"}, k \in poll.todo,
           poll.pc = "report" => poll.at = k, NEW at \in Keys \cup {NoKey},
           poll' = [poll EXCEPT !.pc = "results", !.at = at, !.todo = @ \ {k},
                                !.answer[k] = Failed],
           cooled' \in [Keys -> Nat],
           UNCHANGED <<keys, pool, rounds, snapshots, histVars, closing, now>>
    PROVE  UInv'
<1>1. poll \in Poll /\ rounds \in 0..(MaxRounds + 1) /\ poll.pc # "update"
  BY DEF UInv, Shapes
<1>2. /\ poll' \in Poll /\ poll'.pc = "results" /\ poll'.start = poll.start
      /\ poll'.seen = poll.seen /\ poll'.todo = poll.todo \ {k} /\ poll'.round = poll.round
      /\ poll'.answer = [poll.answer EXCEPT ![k] = Failed]
  BY <1>1 DEF Poll, Bodies, Handling
<1>3. \A j \in Keys : poll'.answer[j] = IF j = k THEN Failed ELSE poll.answer[j]
  BY <1>1, <1>2 DEF Poll
<1>4. Pending'
  <2> SUFFICES ASSUME NEW j \in Keys
               PROVE  /\ poll'.answer[j] # Failed <=> j \in poll'.todo
                      /\ j \in poll'.todo => poll'.pc = "results"
                      /\ poll'.answer[j] \in UsageBody => rounds' <= MaxRounds
    BY <1>2 DEF Pending, Handling
  <2>1. /\ poll.answer[j] # Failed <=> j \in poll.todo
        /\ poll.answer[j] \in UsageBody => rounds' <= MaxRounds
    BY DEF UInv, Pending
  <2>2. Failed \notin UsageBody
    BY UsageConstants
  <2>3. CASE j = k
    BY <1>2, <1>3, <2>2, <2>3
  <2>4. CASE j # k
    BY <1>2, <1>3, <2>1, <2>4
  <2> QED
    BY <2>3, <2>4
<1>5. TypeOK' /\ Shapes'
  BY <1>2 DEF UInv, TypeOK, Shapes, histVars
<1>6. History'
  <2>1. Lost' = Lost
    BY DEF Lost, InHand, histVars
  <2> QED
    BY <2>1 DEF UInv, History, histVars
<1>7. Shown'
  BY <1>1, <1>2 DEF UInv, Shown, histVars
<1>8. Ending'
  BY DEF UInv, Ending, histVars
<1> QED
  BY <1>4, <1>5, <1>6, <1>7, <1>8 DEF UInv

\* A body that does not parse is passed over.
LEMMA SkipStep == ASSUME UInv, NEW k \in Keys, SkipResult(k) PROVE UInv'
<1>1. poll \in Poll /\ poll.at \in Keys \cup {NoKey} /\ cooled \in [Keys -> Nat]
  BY DEF UInv, Shapes, Poll
<1>2. /\ poll.pc = "results" /\ k \in poll.todo
      /\ poll' = [poll EXCEPT !.todo = @ \ {k}, !.answer[k] = Failed]
      /\ UNCHANGED <<keys, pool, rounds, cooled, snapshots, histVars, closing, now>>
  BY DEF SkipResult
<1>3. poll' = [poll EXCEPT !.pc = "results", !.at = poll.at, !.todo = @ \ {k},
                           !.answer[k] = Failed]
  BY <1>1, <1>2 DEF Poll
<1> QED
  BY <1>1, <1>2, <1>3, HandledStep

\* What a key at hand is cooled for.
LEMMA AtHand ==
    ASSUME UInv, NEW k \in Keys, k \in poll.todo, poll.answer[k] # NotJson
    PROVE  poll.answer[k] \in UsageBody /\ rounds \in 0..MaxRounds /\ rounds <= MaxRounds
<1>1. poll \in Poll /\ rounds \in 0..(MaxRounds + 1)
  BY DEF UInv, Shapes
<1>2. poll.answer[k] \in UsageBody /\ rounds <= MaxRounds
  BY <1>1 DEF UInv, Pending, Poll, Bodies
<1> QED
  BY <1>1, <1>2, UsageConstants, SMTT(30)

\* What report_proactive_cooldown makes of a duration.
LEMMA Reported ==
    ASSUME UInv, NEW k \in Keys, NEW d \in Nat, report_proactive_cooldown(k, d)
    PROVE  /\ cooled' \in [Keys -> Nat]
           /\ \A j \in Keys : j # k => cooled'[j] = cooled[j]
           /\ cooled'[k] >= cooled[k]
           /\ cooled'[k] # cooled[k]
                => k \in pool.set /\ cooled'[k] <= now + d /\ cooled'[k] <= now + MAX_COOLDOWN
           /\ k \in pool.set => cooled'[k] >= now + d \/ cooled'[k] >= now + MAX_COOLDOWN
<1> DEFINE e == deadline_after(now, d)
<1>1. cooled \in [Keys -> Nat] /\ now \in Nat /\ cooled[k] \in Nat
  BY DEF UInv, Shapes
<1>2. /\ e \in Nat /\ e <= now + d /\ e <= now + MAX_COOLDOWN
      /\ e >= now + d \/ e >= now + MAX_COOLDOWN
  BY <1>1, UsageConstants, SMTT(30) DEF deadline_after
<1>3. cooled' = IF k \in pool.set /\ cooled[k] <= e THEN [cooled EXCEPT ![k] = e] ELSE cooled
  BY DEF report_proactive_cooldown
<1> HIDE DEF e
<1>4. CASE k \in pool.set /\ cooled[k] <= e
  <2>1. cooled' = [cooled EXCEPT ![k] = e] /\ cooled'[k] = e
    BY <1>1, <1>3, <1>4
  <2>2. cooled' \in [Keys -> Nat] /\ \A j \in Keys : j # k => cooled'[j] = cooled[j]
    BY <1>1, <1>2, <2>1
  <2> QED
    BY <1>1, <1>2, <1>4, <2>1, <2>2, SMTT(30)
<1>5. CASE ~(k \in pool.set /\ cooled[k] <= e)
  <2>1. cooled' = cooled
    BY <1>3, <1>5
  <2>2. k \in pool.set => cooled[k] >= e
    BY <1>1, <1>2, <1>5, SMTT(30)
  <2> QED
    BY <1>1, <1>2, <2>1, <2>2, UsageConstants, SMTT(30)
<1> QED
  BY <1>4, <1>5

\* The result at hand is evaluated.
LEMMA EvaluateStep == ASSUME UInv, NEW k \in Keys, EvaluateResult(k) PROVE UInv'
<1>1. /\ poll.pc = "report" /\ poll.at = k
      /\ poll' = [poll EXCEPT !.pc = "results", !.at = NoKey, !.todo = @ \ {k},
                              !.answer[k] = Failed]
      /\ UNCHANGED <<keys, pool, rounds, snapshots, histVars, closing, now>>
  BY DEF EvaluateResult
<1>2. k \in poll.todo /\ poll.answer[k] # NotJson /\ poll.start \in Nat
      /\ cooled \in [Keys -> Nat]
  BY <1>1 DEF UInv, Pending, Shapes, Poll
<1> DEFINE d == evaluate(poll.answer[k], poll.start)
<1>3. d # NoCooldown => d \in Nat
  <2>1. d # NoCooldown => d \in Int /\ d > 0
    BY <1>2, AtHand, Evaluated
  <2> HIDE DEF d
  <2> QED
    BY <2>1, SMTT(30)
<1>4. IF d = NoCooldown THEN UNCHANGED cooled ELSE report_proactive_cooldown(k, d)
  BY DEF EvaluateResult
<1> HIDE DEF d
<1>5. cooled' \in [Keys -> Nat]
  BY <1>2, <1>3, <1>4, Reported
<1> QED
  BY <1>1, <1>2, <1>5, HandledStep

\* The record at hand is shown.
LEMMA UpdateStep == ASSUME UInv, NEW k \in Keys, update(k) PROVE UInv'
<1>1. /\ poll.pc = "update" /\ poll.at = k /\ poll' = [poll EXCEPT !.pc = "report"]
      /\ snapshots' = [snapshots EXCEPT ![k] = rounds]
      /\ UNCHANGED <<keys, pool, rounds, cooled, histVars, closing, now>>
  BY DEF update
<1>2. /\ poll \in Poll /\ snapshots \in [Keys -> 0..MaxRounds]
      /\ k \in poll.todo /\ poll.answer[k] # NotJson
  BY <1>1 DEF UInv, Shapes, TypeOK, Pending
<1>3. /\ poll' \in Poll /\ poll'.pc = "report" /\ poll'.start = poll.start /\ poll'.at = k
      /\ poll'.seen = poll.seen /\ poll'.todo = poll.todo /\ poll'.round = poll.round
      /\ poll'.answer = poll.answer
  BY <1>1, <1>2 DEF Poll, Handling
<1>4. rounds \in 0..MaxRounds /\ rounds \in Nat
  BY <1>2, AtHand, UsageConstants, SMTT(30)
<1>5. snapshots' \in [Keys -> 0..MaxRounds]
  BY <1>1, <1>2, <1>4
<1>6. TypeOK' /\ Shapes'
  BY <1>1, <1>3, <1>5 DEF UInv, TypeOK, Shapes, histVars
<1>7. Pending'
  BY <1>1, <1>2, <1>3 DEF UInv, Pending, Handling
<1>8. History' /\ Ending'
  <2>1. Lost' = Lost
    BY <1>1 DEF Lost, InHand, histVars
  <2>2. thread.pc # "exited" /\ thread' = thread
    BY <1>1 DEF UInv, Ending, histVars
  <2> QED
    BY <1>1, <2>1, <2>2 DEF UInv, History, Ending, histVars
<1>9. Shown'
  <2>1. \A j \in Keys : snapshots'[j] = IF j = k THEN rounds ELSE snapshots[j]
    BY <1>1, <1>2
  <2>2. \A j \in Keys : snapshots[j] <= rounds /\ snapshots[j] \in Nat
    BY <1>2, SMTT(30) DEF UInv, Shown
  <2>3. ASSUME NEW f \in accepted PROVE snapshots'[f.key] >= f.round
    <3>1. f.key \in Keys /\ f.round \in Nat
      BY SMTT(30) DEF UInv, History, Entry
    <3>2. CASE snapshots[f.key] >= f.round
      BY <1>4, <2>1, <2>2, <3>1, <3>2, SMTT(30)
    <3>3. CASE f = [key |-> k, round |-> rounds]
      <4>1. f.key = k /\ f.round = rounds
        BY <3>3
      <4> QED
        BY <1>4, <2>1, <4>1, SMTT(30)
    <3>4. snapshots[f.key] >= f.round \/ f = [key |-> k, round |-> rounds]
      BY <1>1 DEF UInv, Shown
    <3> QED
      BY <3>2, <3>3, <3>4
  <2>4. \A j \in Keys : snapshots'[j] <= rounds'
    BY <1>1, <1>4, <2>1, <2>2, SMTT(30)
  <2>5. accepted' = accepted /\ rounds' = rounds /\ snapshots'[k] = rounds
    BY <1>1, <2>1 DEF histVars
  <2> QED
    BY <1>3, <2>3, <2>4, <2>5 DEF Shown
<1> QED
  BY <1>6, <1>7, <1>8, <1>9 DEF UInv

\* A body that parses is offered to the history, which takes it or not.
LEMMA RecordStep == ASSUME UInv, NEW k \in Keys, RecordResult(k) PROVE UInv'
<1>1. /\ UNCHANGED <<keys, pool, rounds, cooled, snapshots, sink, thread, written, failures,
                     closing, now>>
      /\ poll.pc = "results" /\ k \in poll.todo /\ poll.answer[k] # NotJson
      /\ poll' = [poll EXCEPT !.pc = "update", !.at = k] /\ Offer(k)
  BY DEF RecordResult
<1>2. /\ poll \in Poll /\ queue \in Seq(Entry) /\ Len(queue) \in Nat
      /\ snapshots \in [Keys -> 0..MaxRounds] /\ failures \in Nat
  BY SMTT(30) DEF UInv, Shapes, TypeOK
<1>3. /\ poll' \in Poll /\ poll'.pc = "update" /\ poll'.start = poll.start /\ poll'.at = k
      /\ poll'.seen = poll.seen /\ poll'.todo = poll.todo /\ poll'.round = poll.round
      /\ poll'.answer = poll.answer
  BY <1>1, <1>2 DEF Poll, Handling
<1>4. Pending'
  BY <1>1, <1>3 DEF UInv, Pending, Handling
<1>5. ASSUME queue' \in Seq(Entry), Len(queue') <= Capacity, accepted \subseteq accepted'
      PROVE  TypeOK' /\ Shapes'
  BY <1>1, <1>3, <1>5 DEF UInv, TypeOK, Shapes
<1>6. Ending'
  <2>1. thread.pc # "exited"
    BY <1>1 DEF UInv, Ending
  <2> QED
    BY <1>1, <2>1 DEF UInv, Ending
<1> DEFINE e == [key |-> k, round |-> rounds]
<1>7. e \in Entry
  BY <1>1, AtHand DEF Entry
<1>8. \/ UNCHANGED <<queue, accepted>>
      \/ /\ Len(queue) < Capacity /\ queue' = Append(queue, e) /\ accepted' = accepted \cup {e}
  BY <1>1 DEF Offer
<1>9. Shown'
  <2>1. \A f \in accepted' : f \in accepted \/ f = [key |-> poll'.at, round |-> rounds']
    BY <1>1, <1>3, <1>8
  <2>2. \A f \in accepted : snapshots'[f.key] >= f.round
    BY <1>1 DEF UInv, Shown
  <2>3. \A j \in Keys : snapshots'[j] <= rounds'
    BY <1>1 DEF UInv, Shown
  <2> QED
    BY <1>3, <2>1, <2>2, <2>3 DEF Shown
<1> HIDE DEF e
<1>10. CASE UNCHANGED <<queue, accepted>>
  <2>1. TypeOK' /\ Shapes'
    BY <1>2, <1>5, <1>10 DEF UInv, TypeOK
  <2>2. Lost' = Lost
    BY <1>1, <1>10 DEF Lost, InHand
  <2>3. History'
    BY <1>1, <1>10, <2>2 DEF UInv, History
  <2> QED
    BY <1>4, <1>6, <1>9, <2>1, <2>3 DEF UInv
<1>11. CASE /\ Len(queue) < Capacity /\ queue' = Append(queue, e)
            /\ accepted' = accepted \cup {e}
  <2>1. /\ queue' \in Seq(Entry) /\ Len(queue') = Len(queue) + 1
        /\ \A i \in 1..Len(queue) : queue'[i] = queue[i]
        /\ queue'[Len(queue) + 1] = e
    BY <1>2, <1>7, <1>11, AppendFacts, SMTT(30)
  <2>2. TypeOK' /\ Shapes'
    <3>1. Len(queue') <= Capacity
      BY <1>2, <1>11, <2>1, UsageConstants, SMTT(30)
    <3> QED
      BY <1>5, <1>11, <2>1, <3>1
  <2>3. accepted' \subseteq Entry /\ IsFiniteSet(accepted')
    BY <1>7, <1>11, FS_AddElement DEF UInv, History
  <2>4. \A i \in 1..Len(queue') : queue'[i] \in accepted'
    <3> SUFFICES ASSUME NEW i \in 1..Len(queue') PROVE queue'[i] \in accepted'
      OBVIOUS
    <3>1. i \in 1..Len(queue) \/ i = Len(queue) + 1
      BY <1>2, <2>1, SMTT(30)
    <3> QED
      BY <1>11, <2>1, <3>1 DEF UInv, History
  <2>5. Lost' \subseteq Lost
    <3>1. \A i \in 1..Len(queue) : i \in 1..Len(queue')
      BY <1>2, <2>1, SMTT(30)
    <3>2. Len(queue) + 1 \in 1..Len(queue')
      BY <1>2, <2>1, SMTT(30)
    <3> QED
      BY <1>1, <1>11, <2>1, <3>1, <3>2 DEF Lost, InHand
  <2>6. Cardinality(Lost') <= failures'
    <3>1. /\ IsFiniteSet(Lost) /\ Cardinality(Lost) \in Nat /\ Cardinality(Lost) <= failures
      BY LostFinite DEF UInv, History
    <3>2. IsFiniteSet(Lost') /\ Cardinality(Lost') <= Cardinality(Lost)
      BY <2>5, <3>1, FS_Subset
    <3>3. Cardinality(Lost') \in Nat
      BY <3>2, FS_CardinalityType
    <3> QED
      BY <1>1, <1>2, <3>1, <3>2, <3>3, SMTT(30)
  <2>7. History'
    BY <1>1, <1>11, <2>3, <2>4, <2>6 DEF UInv, History
  <2> QED
    BY <1>4, <1>6, <1>9, <2>2, <2>7 DEF UInv
<1> QED
  BY <1>8, <1>10, <1>11

\* A step of the handling of a result.
LEMMA HandleStep == ASSUME UInv, NEW k \in Keys, HandleResult(k) PROVE UInv'
BY SkipStep, RecordStep, UpdateStep, EvaluateStep DEF HandleResult

-----------------------------------------------------------------------------
(***************************************************************************)
(* The theorems.                                                           *)
(***************************************************************************)
\* Every step preserves the invariant.
LEMMA UStep == UInv /\ [Next]_vars => UInv'
<1> SUFFICES ASSUME UInv, [Next]_vars PROVE UInv'
  OBVIOUS
<1>1. CASE Task
  BY <1>1, BeginRoundStep, FetchedStep, MovesStep, HandleStep DEF Task
<1>2. CASE Stopped
  BY <1>2, MovesStep
<1>3. CASE Thread
  BY <1>3, RecvStep, WriteStep DEF Thread
<1>4. CASE TaskEnded
  BY <1>4, TaskEndedStep
<1>5. CASE \/ shutdown \/ Joined \/ Tick \/ replace_keys
           \/ \E ks \in KeySets : update_with_keys(ks)
  BY <1>5, OutsideStep
<1>6. CASE UNCHANGED vars
  <2>1. TypeOK' /\ Shapes' /\ Pending'
    BY <1>6 DEF UInv, TypeOK, Shapes, Pending, vars, histVars
  <2>2. History' /\ Shown' /\ Ending'
    BY <1>6, SMTT(30) DEF UInv, History, Lost, InHand, Shown, Ending, vars, histVars
  <2> QED
    BY <2>1, <2>2 DEF UInv
<1> QED
  BY <1>1, <1>2, <1>3, <1>4, <1>5, <1>6 DEF Next

\* Whatever the disk does and however rounds, reloads and the shutdown fall
\* together, the channel keeps its bound, the status is behind the history by the
\* record just offered at most, and when shutdown returns every record that was
\* accepted is in a file or was counted as a failure (try_record, update,
\* UsageHistoryWriter::shutdown).
THEOREM HistoryAlwaysComplete == Spec => []HistoryComplete
<1>1. UInv => HistoryComplete
  <2> SUFFICES ASSUME UInv PROVE HistoryComplete
    OBVIOUS
  <2>1. ASSUME closing = "returned"
        PROVE  queue = <<>> /\ Cardinality(accepted \ written) <= failures
    <3>1. thread.pc = "exited" /\ queue = <<>>
      BY <2>1 DEF UInv, Ending
    <3>2. Lost = accepted \ written
      BY <3>1, SMTT(30) DEF Lost, InHand
    <3> QED
      BY <3>1, <3>2 DEF UInv, History
  <2> QED
    BY <2>1 DEF HistoryComplete, UInv, Shown
<1> QED
  BY UInit, UStep, <1>1, PTL DEF Spec

\* What CoolingJustified asks of a step, for one key.
Cooling(k) ==
    LET body == poll.answer[k]
        due == Due(body, poll.start)
    IN  /\ cooled'[k] > cooled[k]
             => /\ k \in pool.set /\ body \notin {Failed, NotJson}
                /\ snapshots[k] = rounds
                /\ \E r \in due : cooled'[k] <= r + (now - poll.start)
                /\ cooled'[k] <= now + MAX_COOLDOWN
        /\ cooled'[k] < cooled[k] => k \notin pool'.set
        /\ k \in poll.todo \ poll'.todo /\ k \in pool.set /\ body # NotJson
             => \A r \in due : cooled'[k] >= r \/ cooled'[k] >= now + MAX_COOLDOWN

\* The resets that are due are those of the windows evaluate counts.
LEMMA DueCounts ==
    ASSUME NEW body \in UsageBody, NEW t \in Nat
    PROVE  Due(body, t) = {body.windows[w].reset :
                             w \in {v \in Windows : Counts(body, v)
                                                      /\ body.windows[v].reset > t}}
<1>1. \A w \in Windows : body.windows[w].percent \in Int /\ body.windows[w].limited \in BOOLEAN
  BY DEF UsageBody, Window
<1>2. \A w \in Windows : body.windows[w].percent \in Threshold..100
                           <=> Threshold <= body.windows[w].percent
                                 /\ body.windows[w].percent <= 100
  BY <1>1, UsageConstants, SMTT(30)
<1>3. \A w \in Windows : Counts(body, w) <=> Exceeded(body, w)
  BY <1>2 DEF Counts, Exceeded, HasLimitedWindow
<1> QED
  BY <1>3 DEF Due

\* A step that handles no result prolongs no cooldown and finishes no result.
LEMMA NotCooling ==
    ASSUME NEW k \in Keys, cooled[k] \in Nat, cooled'[k] = cooled[k],
           k \notin poll.todo \ poll'.todo
    PROVE  Cooling(k)
<1>1. ~(cooled'[k] > cooled[k]) /\ ~(cooled'[k] < cooled[k])
  BY SMTT(30)
<1> QED
  BY <1>1 DEF Cooling

\* The step that evaluates a result.
LEMMA EvaluateCools ==
    ASSUME UInv, NEW j \in Keys, EvaluateResult(j), NEW k \in Keys
    PROVE  Cooling(k)
<1>1. /\ poll \in Poll /\ now \in Nat /\ poll.start \in Nat /\ poll.start <= now
      /\ cooled \in [Keys -> Nat] /\ cooled[k] \in Nat
  BY DEF UInv, Shapes, Poll
<1>2. /\ poll.pc = "report" /\ poll.at = j
      /\ poll' = [poll EXCEPT !.pc = "results", !.at = NoKey, !.todo = @ \ {j},
                              !.answer[j] = Failed]
      /\ pool' = pool
  BY DEF EvaluateResult
<1>3. poll'.todo = poll.todo \ {j}
  BY <1>1, <1>2 DEF Poll
<1>4. j \in poll.todo /\ poll.answer[j] # NotJson /\ snapshots[j] = rounds
  BY <1>2 DEF UInv, Pending, Shown
<1> DEFINE body == poll.answer[j]
           d == evaluate(body, poll.start)
           due == Due(body, poll.start)
<1>5. body \in UsageBody
  BY <1>4, AtHand
<1>6. IF d = NoCooldown THEN cooled' = cooled ELSE report_proactive_cooldown(j, d)
  BY DEF EvaluateResult
<1>7. due = {body.windows[w].reset :
               w \in {v \in Windows : Counts(body, v) /\ body.windows[v].reset > poll.start}}
  BY <1>1, <1>5, DueCounts
<1>8. \A r \in due : r \in Int
  BY <1>5, <1>7 DEF UsageBody, Window
<1>9. d = NoCooldown => due = {}
  <2>1. d = IF due = {} THEN NoCooldown ELSE Max(due) - poll.start
    BY <1>7 DEF evaluate
  <2>2. due # {} => d # NoCooldown
    <3> SUFFICES ASSUME due # {} PROVE d # NoCooldown
      OBVIOUS
    <3>1. due \in SUBSET {body.windows["rolling"].reset, body.windows["weekly"].reset,
                          body.windows["monthly"].reset}
      BY <1>7 DEF Windows
    <3>2. /\ body.windows["rolling"].reset \in Int /\ body.windows["weekly"].reset \in Int
          /\ body.windows["monthly"].reset \in Int
      BY <1>5 DEF UsageBody, Window, Windows
    <3>3. \A r \in due : r > poll.start
      BY <1>7
    <3> HIDE DEF due, body
    <3>4. Max(due) \in due
      BY <3>1, <3>2, LatestOfThree
    <3> HIDE DEF d
    <3> QED
      BY <1>1, <1>8, <2>1, <3>3, <3>4, SMTT(30) DEF NoCooldown
  <2> QED
    BY <2>2
<1>10. d # NoCooldown =>
         /\ d \in Nat /\ d > 0
         /\ \E r \in due : r = poll.start + d
         /\ \A r \in due : r <= poll.start + d
  <2> SUFFICES ASSUME d # NoCooldown
               PROVE  /\ d \in Nat /\ d > 0
                      /\ \E r \in due : r = poll.start + d
                      /\ \A r \in due : r <= poll.start + d
    OBVIOUS
  <2>1. /\ d \in Int /\ d > 0
        /\ \E w \in Windows : Counts(body, w) /\ body.windows[w].reset = poll.start + d
        /\ \A w \in Windows : Counts(body, w) => body.windows[w].reset <= poll.start + d
    BY <1>1, <1>5, Evaluated
  <2>2. d \in Nat
    <3> HIDE DEF d
    <3> QED
      BY <2>1, SMTT(30)
  <2>3. PICK w \in Windows : Counts(body, w) /\ body.windows[w].reset = poll.start + d
    BY <2>1
  <2>4. body.windows[w].reset > poll.start
    <3> HIDE DEF d, body
    <3> QED
      BY <1>1, <2>1, <2>2, <2>3, SMTT(30)
  <2> QED
    BY <1>7, <2>1, <2>2, <2>3, <2>4
<1> HIDE DEF d, due, body
<1>11. CASE d = NoCooldown
  <2>1. cooled'[k] = cooled[k]
    BY <1>6, <1>11
  <2>2. ~(cooled'[k] > cooled[k]) /\ ~(cooled'[k] < cooled[k])
    BY <1>1, <2>1, SMTT(30)
  <2>3. k \in poll.todo \ poll'.todo => Due(poll.answer[k], poll.start) = {}
    BY <1>3, <1>9, <1>11 DEF due, body
  <2> QED
    BY <2>2, <2>3 DEF Cooling
<1>12. CASE d # NoCooldown
  <2>1. /\ cooled' \in [Keys -> Nat]
        /\ \A i \in Keys : i # j => cooled'[i] = cooled[i]
        /\ cooled'[j] >= cooled[j]
        /\ cooled'[j] # cooled[j]
             => j \in pool.set /\ cooled'[j] <= now + d /\ cooled'[j] <= now + MAX_COOLDOWN
        /\ j \in pool.set => cooled'[j] >= now + d \/ cooled'[j] >= now + MAX_COOLDOWN
    BY <1>6, <1>10, <1>12, Reported
  <2>2. CASE k # j
    <3>1. cooled'[k] = cooled[k] /\ k \notin poll.todo \ poll'.todo
      BY <1>3, <2>1, <2>2
    <3> QED
      BY <1>1, <3>1, NotCooling
  <2>3. CASE k = j
    <3>1. PICK r \in due : r = poll.start + d
      BY <1>10, <1>12
    <3>2. ~(cooled'[k] < cooled[k]) /\ (cooled'[k] > cooled[k] => cooled'[k] # cooled[k])
      BY <1>1, <2>1, <2>3, SMTT(30)
    <3>3. cooled'[k] > cooled[k] => cooled'[k] <= r + (now - poll.start)
      BY <1>1, <1>8, <1>10, <1>12, <2>1, <2>3, <3>1, <3>2, SMTT(30)
    <3>4. k \in pool.set => \A q \in due : cooled'[k] >= q \/ cooled'[k] >= now + MAX_COOLDOWN
      BY <1>1, <1>8, <1>10, <1>12, <2>1, <2>3, UsageConstants, SMTT(30)
    <3>5. due = Due(poll.answer[k], poll.start) /\ poll.answer[k] \notin {Failed, NotJson}
      BY <1>5, <2>3, UsageConstants DEF due, body
    <3> QED
      BY <1>4, <2>1, <2>3, <3>1, <3>2, <3>3, <3>4, <3>5 DEF Cooling
  <2> QED
    BY <2>2, <2>3
<1> QED
  BY <1>11, <1>12

\* Only an evaluation prolongs a cooldown, and only a reload ends one.
LEMMA CoolingStep == UInv /\ [Next]_vars => \A k \in Keys : Cooling(k)
<1> SUFFICES ASSUME UInv, [Next]_vars, NEW k \in Keys PROVE Cooling(k)
  OBVIOUS
<1>1. poll \in Poll /\ cooled \in [Keys -> Nat] /\ cooled[k] \in Nat
  BY DEF UInv, Shapes
<1>2. CASE \E j \in Keys : EvaluateResult(j)
  BY <1>2, EvaluateCools
<1>3. ASSUME NEW j \in Keys, SkipResult(j) PROVE Cooling(k)
  <2>1. cooled'[k] = cooled[k] /\ poll.answer[j] = NotJson
    BY <1>3 DEF SkipResult
  <2>2. poll'.todo = poll.todo \ {j}
    BY <1>1, <1>3 DEF SkipResult, Poll
  <2>3. ~(cooled'[k] > cooled[k]) /\ ~(cooled'[k] < cooled[k])
    BY <1>1, <2>1, SMTT(30)
  <2> QED
    BY <2>1, <2>2, <2>3 DEF Cooling
<1>4. ASSUME NEW ks \in KeySets, update_with_keys(ks) PROVE Cooling(k)
  <2>1. poll' = poll /\ pool'.set = ks /\ cooled'[k] = IF k \in ks THEN cooled[k] ELSE 0
    BY <1>4 DEF update_with_keys
  <2>2. CASE k \in ks
    BY <1>1, <2>1, <2>2, NotCooling
  <2>3. CASE k \notin ks
    <3>1. ~(cooled'[k] > cooled[k])
      BY <1>1, <2>1, <2>3, SMTT(30)
    <3> QED
      BY <2>1, <2>3, <3>1 DEF Cooling
  <2> QED
    BY <2>2, <2>3
<1>5. CASE Fetched
  <2>1. poll.todo = {} /\ cooled' = cooled
    BY <1>1, <1>5 DEF Fetched, UInv, Pending, Handling, Poll
  <2> QED
    BY <1>1, <2>1, NotCooling
<1>6. CASE BeginRound \/ EndRound \/ Wake \/ Stopped
  <2>1. poll'.todo = poll.todo /\ cooled' = cooled
    BY <1>1, <1>6 DEF BeginRound, EndRound, Wake, Stopped, Poll
  <2> QED
    BY <1>1, <2>1, NotCooling
<1>7. ASSUME NEW j \in Keys, RecordResult(j) \/ update(j) PROVE Cooling(k)
  <2>1. poll'.todo = poll.todo /\ cooled' = cooled
    BY <1>1, <1>7 DEF RecordResult, update, Poll
  <2> QED
    BY <1>1, <2>1, NotCooling
<1>8. CASE \/ Thread \/ shutdown \/ TaskEnded \/ Joined \/ Tick \/ replace_keys
           \/ UNCHANGED vars
  <2>1. poll' = poll /\ cooled' = cooled
    BY <1>8 DEF Thread, Recv, write_history_record, shutdown, TaskEnded, Joined, Tick,
                replace_keys, vars
  <2> QED
    BY <1>1, <2>1, NotCooling
<1> QED
  BY <1>2, <1>3, <1>4, <1>5, <1>6, <1>7, <1>8 DEF Next, Task, HandleResult

\* For any responses, reloads and rounds of any length, a cooldown is prolonged
\* only for a limit that a response of this round exceeds and the status shows,
\* no further than the round's length past its reset; a handled result leaves its
\* key cooled past every reset that is due or for the longest cooldown; and only a
\* removal from the pool ends one (evaluate, report_proactive_cooldown).
THEOREM CoolingsJustified == Spec => CoolingJustified
BY UInit, UStep, CoolingStep, PTL DEF Spec, CoolingJustified, Cooling

-----------------------------------------------------------------------------
(***************************************************************************)
(* No change of the keys is missed.  It is the part of NewKeysPolled that  *)
(* needs no fairness.                                                      *)
(***************************************************************************)
\* A round that has begun polls the keys of now, or the watch channel still has
\* a change for the task, which then does not sleep through the interval: a
\* round reads the keys without marking them as seen (run, replace_keys).
NoChangeMissed ==
    poll.pc \notin {"loop", "stopped"} =>
        poll.round = keys.set \/ poll.seen < keys.version

\* A step keeps it: only a reload changes the keys, and it adds a version; only
\* the wake-up marks a version as seen, and a new round follows it.
LEMMA ChangeStep == UInv /\ NoChangeMissed /\ [Next]_vars => NoChangeMissed'
<1> SUFFICES ASSUME UInv, NoChangeMissed, [Next]_vars
             PROVE  NoChangeMissed'
  OBVIOUS
<1>1. /\ poll \in Poll /\ keys.version \in Nat
      /\ poll.seen \in Nat /\ poll.seen <= keys.version
  BY SMTT(30) DEF UInv, Shapes, TypeOK, Poll
<1>2. CASE BeginRound
  <2>1. poll'.round = keys.set /\ keys' = keys
    BY <1>1, <1>2 DEF BeginRound, Poll
  <2> QED
    BY <2>1 DEF NoChangeMissed
<1>3. CASE Wake \/ Stopped
  <2>1. poll'.pc \in {"loop", "stopped"}
    BY <1>1, <1>3 DEF Wake, Stopped, Poll
  <2> QED
    BY <2>1 DEF NoChangeMissed
<1>4. CASE Fetched \/ EndRound \/ \E k \in Keys : HandleResult(k)
  <2>1. /\ poll.pc \notin {"loop", "stopped"} /\ keys' = keys
    BY <1>4 DEF Fetched, EndRound, HandleResult, SkipResult, RecordResult, update,
                EvaluateResult
  <2>2. CASE Fetched
    BY <1>1, <2>1, <2>2 DEF Fetched, Poll, NoChangeMissed
  <2>3. CASE EndRound
    BY <1>1, <2>1, <2>3 DEF EndRound, Poll, NoChangeMissed
  <2>4. CASE \E k \in Keys : HandleResult(k)
    <3>1. poll'.round = poll.round /\ poll'.seen = poll.seen
      BY <1>1, <2>4 DEF HandleResult, SkipResult, RecordResult, update, EvaluateResult, Poll
    <3> QED
      BY <2>1, <3>1 DEF NoChangeMissed
  <2> QED
    BY <1>4, <2>2, <2>3, <2>4
<1>5. CASE replace_keys
  <2>1. keys'.version = keys.version + 1 /\ poll' = poll
    BY <1>5 DEF replace_keys, UInv, Shapes
  <2>2. poll'.seen < keys'.version
    BY <1>1, <2>1, SMTT(30)
  <2> QED
    BY <2>2 DEF NoChangeMissed
<1>6. CASE UNCHANGED <<keys, poll>>
  BY <1>6 DEF NoChangeMissed
<1>7. CASE \/ Thread \/ shutdown \/ TaskEnded \/ Joined \/ Tick \/ UNCHANGED vars
           \/ \E ks \in KeySets : update_with_keys(ks)
  BY <1>6, <1>7 DEF Thread, Recv, write_history_record, shutdown, TaskEnded, Joined, Tick,
                    update_with_keys, vars
<1> QED
  BY <1>2, <1>3, <1>4, <1>5, <1>7 DEF Next, Task

\* For any keys and any number of reloads, however they fall into a round: no
\* change of the keys waits unnoticed for the next interval (run, replace_keys).
THEOREM ChangesNeverMissed == Spec => []NoChangeMissed
<1>1. Init => UInv /\ NoChangeMissed
  <2>1. Init => poll.pc = "loop"
    BY SMTT(30) DEF Init
  <2> QED
    BY <2>1, UInit DEF NoChangeMissed
<1>2. (UInv /\ NoChangeMissed) /\ [Next]_vars => (UInv /\ NoChangeMissed)'
  BY UStep, ChangeStep
<1> QED
  BY <1>1, <1>2, PTL DEF Spec
=============================================================================
