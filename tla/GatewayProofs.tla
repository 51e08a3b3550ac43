--------------------------- MODULE GatewayProofs ---------------------------
(***************************************************************************)
(* The resources, the gateway key and the audit record of a request, and   *)
(* its attempts, for any number of requests, any limits and any history of *)
(* reloads.  The parts: what holds of a request wherever it is; its        *)
(* attempts; that its answer stands; its resources, key and record; the    *)
(* theorems.                                                               *)
(*                                                                         *)
(* ResourcesHeld is not inductive: a permit that is given back goes to the *)
(* head of the line, so Lined adds that who is in line is waiting there,   *)
(* once and without a permit, and that nobody is once admission is closed. *)
(* Place says for one request what it holds and what is known of it where  *)
(* it is: besides the claims, that an attempt is on its list while it is   *)
(* made, and that whoever is pumped got its status line.  A step of a      *)
(* request changes its own Place, and of the others' only who has a permit.*)
(***************************************************************************)
EXTENDS Gateway, TLAPS

\* Most leaves are first-order: Zenon proves them.  The others name SMT.
USE ZenonT(30)

-----------------------------------------------------------------------------
(***************************************************************************)
(* Sequences.                                                              *)
(***************************************************************************)
\* A sequence is a function on the numbers up to its length.
LEMMA LengthFacts ==
    ASSUME NEW S, NEW s \in Seq(S)
    PROVE  Len(s) \in Nat /\ DOMAIN s = 1..Len(s) /\ s \in [1..Len(s) -> S]
BY SMTT(30)

\* Its elements are of the kind it is made of.
LEMMA ElementFact ==
    ASSUME NEW S, NEW s \in Seq(S), NEW i \in 1..Len(s)
    PROVE  s[i] \in S
BY SMTT(30)

\* The empty sequence is the only one of length 0.
LEMMA EmptyFacts ==
    ASSUME NEW S
    PROVE  /\ <<>> \in Seq(S) /\ Len(<<>>) = 0
           /\ \A s \in Seq(S) : s # <<>> => Len(s) \in Nat \ {0}
BY SMTT(30)

\* One more at the end: how queues, lists of attempts and buffers grow.
LEMMA AppendFacts ==
    ASSUME NEW S, NEW s \in Seq(S), NEW x \in S
    PROVE  /\ Append(s, x) \in Seq(S) /\ Append(s, x) # <<>>
           /\ Len(Append(s, x)) = Len(s) + 1 /\ Append(s, x)[Len(s) + 1] = x
           /\ \A i \in 1..Len(s) : Append(s, x)[i] = s[i]
BY SMTT(30)

\* Another element in the place of one.
LEMMA ExceptFacts ==
    ASSUME NEW S, NEW s \in Seq(S), NEW i \in 1..Len(s), NEW x \in S
    PROVE  /\ [s EXCEPT ![i] = x] \in Seq(S) /\ Len([s EXCEPT ![i] = x]) = Len(s)
           /\ \A j \in 1..Len(s) : [s EXCEPT ![i] = x][j] = IF j = i THEN x ELSE s[j]
BY SMTT(30)

\* The last element of a sequence that is not empty.
LEMMA LastOfSome ==
    ASSUME NEW S, NEW s \in Seq(S), s # <<>>
    PROVE  Len(s) \in 1..Len(s) /\ s[Len(s)] \in S
<1>1. Len(s) \in Nat
  BY LengthFacts
<1>2. Len(s) # 0
  BY EmptyFacts
<1>3. Len(s) \in 1..Len(s)
  BY <1>1, <1>2, SMTT(30)
<1> QED
  BY <1>3, ElementFact

-----------------------------------------------------------------------------
(***************************************************************************)
(* What holds in every state.                                              *)
(***************************************************************************)
Trying == {"sent", "errbody", "prefetch"}

\* What a request holds and what is known of it.
Place(r) ==
    /\ pc(r) \in HoldsPermit => r \in active
    /\ r \in active => pc(r) \in HoldsPermit \cup {"queued"}
    /\ r \in bodies <=> pc(r) \in HoldsBody
    /\ r \in streams <=> pc(r) \in Pumping /\ task[r].streaming
    /\ pc(r) \in Trying => Attempts(r) # <<>>
    /\ pc(r) \in Pumping => seen[r] = "u200"
    /\ pc(r) \in Served => r \in vouched
    /\ IF pc(r) = "over"
       THEN /\ Len(audit[r]) = 1
            /\ audit[r][1].status = seen[r]
            /\ audit[r][1].outcome # "none" <=> seen[r] = "u200"
       ELSE audit[r] = <<>>

\* Who is in line.
Lined ==
    /\ \A i, j \in 1..Len(waiting) : waiting[i] = waiting[j] => i = j
    /\ \A i \in 1..Len(waiting) : waiting[i] \notin active /\ pc(waiting[i]) = "queued"
    /\ closed => waiting = <<>>

Limits ==
    /\ Cardinality(active) <= MaxConcurrency
    /\ Cardinality(bodies) <= MaxBodies
    /\ Cardinality(streams) <= MaxStreams

GInv == TypeOK /\ (\A r \in Requests : Place(r)) /\ Lined /\ Limits

-----------------------------------------------------------------------------
(***************************************************************************)
(* The attempts of a request and its saved error, for any number of        *)
(* requests and keys.                                                      *)
(*                                                                         *)
(* SavedErrorReturned and AttemptsAccounted speak of requests that are     *)
(* over.  Story is what leads there: it says of each place in the attempt  *)
(* loop and the pump what the list of attempts, the saved error and the    *)
(* answer have become.  It is about one task, which no other request       *)
(* touches; Closed is what its last step adds.                             *)
(***************************************************************************)
Before == {"new", "acquire", "queued", "admitted", "snapshot", "budget", "reading"}
Decided == {"final", "respond"} \cup Pumping

KeysIn(s) == {s[i].key : i \in 1..Len(s)}
KeysOf(t) == KeysIn(t.attempts)
Latest(t) == t.attempts[Len(t.attempts)]

\* The list after Report, and the list after Selected.
Told(s, v) == [s EXCEPT ![Len(s)].verdict = v]
Longer(s, k, a) == Append(Targeted(s, k), a)

\* All attempts but the last failed, were reported, and name their successor.
Chain(s) ==
    \A i \in 1..Len(s) :
        IF i < Len(s)
        THEN s[i].verdict # "none" /\ ~s[i].committed /\ s[i].failover_target = s[i + 1].key
        ELSE s[i].failover_target = NoKey

\* The last one too.
Settled(t) == t.attempts # <<>> => Latest(t).verdict # "none" /\ ~Latest(t).committed

\* An answer that was decided: the response of the last attempt, or else the
\* error that was saved, if one was.
Answered(t) ==
    IF t.answer.status = "u200"
    THEN t.attempts # <<>> /\ Latest(t).committed /\ t.answer.key = Latest(t).key
    ELSE /\ Settled(t)
         /\ t.last_response # NoAnswer => t.answer = t.last_response
         /\ t.answer.status \in Retryable => t.last_response # NoAnswer

\* What is known of a task where it is.
Story(t) ==
    /\ Chain(t.attempts)
    /\ t.last_response # NoAnswer =>
         t.last_response.status \in Retryable /\ t.last_response.key \in KeysOf(t)
    /\ t.pc \in Before => t.attempts = <<>> /\ t.last_response = NoAnswer
    /\ t.pc = "next" => Settled(t)
    /\ t.pc \in Trying => ~Latest(t).committed
    /\ t.pc = "errbody" => t.status \in Retryable
    /\ t.pc \in Decided => Answered(t)
    /\ t.pc \in Pumping => t.answer.status = "u200"

\* What the record says of a task that is over, beside what its client was told.
Closed(t, told, record) ==
    /\ told \in Retryable \cup {"u200"} => record.key \in KeysOf(t)
    /\ told = "u200" => record.key = Latest(t).key
    /\ t.last_response # NoAnswer /\ t.answer.status # "u200" =>
         told = t.last_response.status /\ record.key = t.last_response.key
    /\ t.attempts # <<>> =>
         /\ Latest(t).committed <=> t.answer.status = "u200"
         /\ Latest(t).verdict = "none" =>
              \/ record.outcome = "client_cancel"
              \/ Latest(t).committed /\ told = "service_unavailable"

SInv ==
    \A r \in Requests :
        /\ Story(task[r])
        /\ task[r].pc = "over" => Closed(task[r], seen[r], audit[r][1])

-----------------------------------------------------------------------------
(***************************************************************************)
(* Facts about the state.                                                  *)
(***************************************************************************)
\* The invariant contains what is claimed.
LEMMA SInvImplies == GInv /\ SInv => SavedErrorReturned /\ AttemptsAccounted
<1> SUFFICES ASSUME GInv, SInv, NEW r \in Requests, pc(r) = "over"
             PROVE  /\ LET key == audit[r][1].key
                       IN  /\ seen[r] \in Retryable \cup {"u200"} => key \in UsedKeys(r)
                           /\ seen[r] = "u200" => key = Attempts(r)[Current(r)].key
                           /\ task[r].last_response # NoAnswer /\ task[r].answer.status # "u200"
                                => /\ seen[r] = task[r].last_response.status
                                   /\ key = task[r].last_response.key
                    /\ \A i \in 1..Current(r) :
                         LET a == Attempts(r)[i]
                         IN  IF i < Current(r)
                             THEN /\ a.verdict # "none" /\ ~a.committed
                                  /\ a.failover_target = Attempts(r)[i + 1].key
                             ELSE /\ a.failover_target = NoKey
                                  /\ a.committed <=> task[r].answer.status = "u200"
                                  /\ a.verdict = "none"
                                       => \/ audit[r][1].outcome = "client_cancel"
                                          \/ a.committed /\ seen[r] = "service_unavailable"
  BY DEF SavedErrorReturned, AttemptsAccounted, At
<1>1. Story(task[r]) /\ Closed(task[r], seen[r], audit[r][1])
  BY DEF SInv, pc
<1>2. /\ Attempts(r) = task[r].attempts /\ Current(r) = Len(task[r].attempts)
      /\ UsedKeys(r) = KeysOf(task[r])
  BY DEF Attempts, Current, UsedKeys, KeysOf, KeysIn
<1>3. task[r].attempts \in Seq(AttemptSummary)
  BY DEF GInv, TypeOK, Task
<1>4. LET key == audit[r][1].key
      IN  /\ seen[r] \in Retryable \cup {"u200"} => key \in UsedKeys(r)
          /\ seen[r] = "u200" => key = Attempts(r)[Current(r)].key
          /\ task[r].last_response # NoAnswer /\ task[r].answer.status # "u200"
               => /\ seen[r] = task[r].last_response.status
                  /\ key = task[r].last_response.key
  BY <1>1, <1>2 DEF Closed, Latest
<1>5. ASSUME NEW i \in 1..Current(r)
      PROVE  LET a == Attempts(r)[i]
             IN  IF i < Current(r)
                 THEN /\ a.verdict # "none" /\ ~a.committed
                      /\ a.failover_target = Attempts(r)[i + 1].key
                 ELSE /\ a.failover_target = NoKey
                      /\ a.committed <=> task[r].answer.status = "u200"
                      /\ a.verdict = "none"
                           => \/ audit[r][1].outcome = "client_cancel"
                              \/ a.committed /\ seen[r] = "service_unavailable"
  <2>1. CASE i < Current(r)
    BY <1>1, <1>2, <2>1 DEF Story, Chain
  <2>2. CASE ~(i < Current(r))
    <3>1. i = Len(task[r].attempts) /\ task[r].attempts # <<>>
      BY <1>2, <1>3, <2>2, SMTT(30)
    <3>2. task[r].attempts[i].failover_target = NoKey
      BY <1>1, <1>2, <3>1, SMTT(30) DEF Story, Chain
    <3> QED
      BY <1>1, <1>2, <2>2, <3>1, <3>2 DEF Closed, Latest
  <2> QED
    BY <2>1, <2>2
<1> QED
  BY <1>4, <1>5

\* The initial state.
LEMMA SInit == Init => SInv
<1> SUFFICES ASSUME Init, NEW r \in Requests
             PROVE  Story(task[r]) /\ task[r].pc # "over"
  BY DEF SInv
<1>1. task[r] = NewTask
  BY DEF Init
<1>2. /\ NewTask.pc = "new" /\ NewTask.attempts = <<>> /\ NewTask.last_response = NoAnswer
  BY DEF NewTask
<1>3. Chain(<<>>)
  BY SMTT(30) DEF Chain
<1> QED
  BY <1>1, <1>2, <1>3 DEF Story, Trying, Decided, Pumping

-----------------------------------------------------------------------------
(***************************************************************************)
(* The kinds of steps.                                                     *)
(***************************************************************************)
\* A step of r's touches no other client and no other record.
OnlyOf(r) == \A s \in Requests \ {r} : seen'[s] = seen[s] /\ audit'[s] = audit[s]

\* A step that changes neither clients nor records.
LEMMA Quiet ==
    ASSUME NEW r \in Requests, UNCHANGED <<seen, audit>>
    PROVE  OnlyOf(r)
BY DEF OnlyOf

\* A step brings r to t.
LEMMA Onward ==
    ASSUME GInv, SInv, NEW r \in Requests, NEW t, task' = [task EXCEPT ![r] = t], OnlyOf(r),
           Story(t), t.pc = "over" => Closed(t, seen'[r], audit'[r][1])
    PROVE  SInv'
<1>1. task'[r] = t /\ \A s \in Requests \ {r} : task'[s] = task[s]
  BY DEF GInv, TypeOK
<1> SUFFICES ASSUME NEW s \in Requests
             PROVE  /\ Story(task'[s])
                    /\ task'[s].pc = "over" => Closed(task'[s], seen'[s], audit'[s][1])
  BY DEF SInv
<1>2. CASE s = r
  BY <1>1, <1>2
<1>3. CASE s # r
  <2>1. task'[s] = task[s] /\ seen'[s] = seen[s] /\ audit'[s] = audit[s]
    BY <1>1, <1>3 DEF OnlyOf
  <2> QED
    BY <2>1 DEF SInv
<1> QED
  BY <1>2, <1>3

\* A task that only goes to another place keeps its story.
LEMMA GotoStory ==
    ASSUME GInv, NEW r \in Requests, NEW to \in PCs, Goto(r, to)
    PROVE  \E t : /\ task' = [task EXCEPT ![r] = t] /\ t.pc = to
                  /\ t.attempts = task[r].attempts /\ t.status = task[r].status
                  /\ t.last_response = task[r].last_response /\ t.answer = task[r].answer
<1> DEFINE t == [task[r] EXCEPT !.pc = to]
<1>1. task[r] \in Task
  BY DEF GInv, TypeOK
<1>2. /\ t.pc = to /\ t.attempts = task[r].attempts /\ t.status = task[r].status
      /\ t.last_response = task[r].last_response /\ t.answer = task[r].answer
  BY <1>1 DEF Task
<1>3. task' = [task EXCEPT ![r] = t]
  BY DEF Goto
<1> QED
  BY <1>2, <1>3

\* A move to a place of which no more is known than of the one before.
LEMMA MoveOn ==
    ASSUME GInv, SInv, NEW r \in Requests, NEW to \in PCs \ ({"over"} \cup Trying),
           Goto(r, to), OnlyOf(r),
           to \in Before => pc(r) \in Before,
           to = "next" => pc(r) \in Before,
           to \in Decided => pc(r) \in Decided,
           to \in Pumping => task[r].answer.status = "u200"
    PROVE  SInv'
<1>1. PICK t : /\ task' = [task EXCEPT ![r] = t] /\ t.pc = to
               /\ t.attempts = task[r].attempts /\ t.status = task[r].status
               /\ t.last_response = task[r].last_response /\ t.answer = task[r].answer
  BY GotoStory
<1>2. Story(task[r])
  BY DEF SInv
<1>3. Latest(t) = Latest(task[r]) /\ KeysOf(t) = KeysOf(task[r])
  BY <1>1 DEF Latest, KeysOf
<1>4. Settled(task[r]) => Settled(t)
  BY <1>1, <1>3 DEF Settled
<1>5. Answered(task[r]) => Answered(t)
  BY <1>1, <1>3, <1>4 DEF Answered
<1>6. pc(r) \in Before => Settled(t)
  BY <1>1, <1>2 DEF Story, Settled, pc
<1>7. to # "errbody"
  BY DEF Trying
<1>8. Story(t)
  BY <1>1, <1>2, <1>3, <1>5, <1>6, <1>7 DEF Story, pc
<1> QED
  BY <1>1, <1>8, Onward

\* A response that is not streamed: what it must agree with.
LEMMA RespondOn ==
    ASSUME GInv, SInv, NEW r \in Requests, pc(r) # "over",
           NEW status, status # "u200", NEW key, Respond(r, status, key),
           status \in Retryable => key \in KeysOf(task[r]),
           task[r].last_response # NoAnswer /\ task[r].answer.status # "u200" =>
             status = task[r].last_response.status /\ key = task[r].last_response.key,
           task[r].attempts # <<>> =>
             /\ Latest(task[r]).committed <=> task[r].answer.status = "u200"
             /\ Latest(task[r]).verdict = "none" =>
                  Latest(task[r]).committed /\ status = "service_unavailable"
    PROVE  SInv'
<1>1. PICK t : /\ task' = [task EXCEPT ![r] = t] /\ t.pc = "over"
               /\ t.attempts = task[r].attempts /\ t.status = task[r].status
               /\ t.last_response = task[r].last_response /\ t.answer = task[r].answer
  BY GotoStory, SMTT(30) DEF Respond, PCs
<1>2. Story(task[r])
  BY DEF SInv
<1>3. Latest(t) = Latest(task[r]) /\ KeysOf(t) = KeysOf(task[r])
  BY <1>1 DEF Latest, KeysOf
<1>4. Story(t)
  BY <1>1, <1>2, <1>3 DEF Story, Before, Trying, Decided, Pumping
<1> DEFINE record == Record(status, key, "none", Attempts(r))
<1>5. record.key = key
  BY DEF Record
<1>6. /\ seen' = [seen EXCEPT ![r] = status]
      /\ audit' = [audit EXCEPT ![r] = Append(@, record)]
  BY DEF Respond
<1> HIDE DEF record
<1>7. /\ seen \in [Requests -> Statuses \cup {"none"}]
      /\ audit \in [Requests -> Seq(AuditRecord)] /\ audit[r] = <<>>
  BY DEF GInv, TypeOK, Place
<1>8. seen'[r] = status /\ audit'[r] = <<record>>
  BY <1>6, <1>7, SMTT(30)
<1>9. OnlyOf(r)
  BY <1>6, <1>7 DEF OnlyOf
<1>10. Closed(t, status, record)
  BY <1>1, <1>3, <1>5 DEF Closed
<1>11. audit'[r][1] = record
  BY <1>8, SMTT(30)
<1> QED
  BY <1>1, <1>4, <1>8, <1>9, <1>10, <1>11, Onward

\* A refusal before the first attempt.
LEMMA RefuseEarly ==
    ASSUME GInv, SInv, NEW r \in Requests, pc(r) \in Before,
           NEW status \in Local, Respond(r, status, NoKey)
    PROVE  SInv'
<1>1. task[r].attempts = <<>> /\ task[r].last_response = NoAnswer
  BY DEF SInv, Story, pc
<1>2. pc(r) # "over" /\ status # "u200" /\ status \notin Retryable
  BY DEF Before, Local, Retryable
<1> QED
  BY <1>1, <1>2, RespondOn

-----------------------------------------------------------------------------
(***************************************************************************)
(* Lists of attempts.                                                      *)
(***************************************************************************)
\* A change of the last attempt that leaves its key and its target alone.
LEMMA LastChanged ==
    ASSUME NEW s \in Seq(AttemptSummary), s # <<>>, Chain(s), NEW b \in AttemptSummary,
           b.key = s[Len(s)].key, b.failover_target = NoKey,
           NEW u, u = [s EXCEPT ![Len(s)] = b]
    PROVE  /\ Chain(u) /\ u # <<>> /\ u[Len(u)] = b
           /\ KeysIn(u) = KeysIn(s)
<1> DEFINE n == Len(s)
<1>1. n \in Nat /\ n \in 1..n
  BY SMTT(30)
<1>2. /\ u \in Seq(AttemptSummary) /\ Len(u) = n
      /\ \A j \in 1..n : u[j] = IF j = n THEN b ELSE s[j]
  BY <1>1, ExceptFacts, SMTT(30)
<1>7. n = Len(s)
  OBVIOUS
<1> HIDE DEF n
<1>3. u[n] = b /\ u # <<>>
  BY <1>1, <1>2, SMTT(30)
<1>4. \A j \in 1..n : u[j].key = s[j].key
  BY <1>2, SMTT(30)
<1>5. Chain(u)
  <2> SUFFICES ASSUME NEW i \in 1..n
               PROVE  IF i < n
                      THEN /\ u[i].verdict # "none" /\ ~u[i].committed
                           /\ u[i].failover_target = u[i + 1].key
                      ELSE u[i].failover_target = NoKey
    BY <1>2 DEF Chain
  <2>1. CASE i < n
    <3>1. i + 1 \in 1..n /\ u[i] = s[i] /\ i # n
      BY <1>1, <1>2, <2>1, SMTT(30)
    <3>2. s[i].verdict # "none" /\ ~s[i].committed /\ s[i].failover_target = s[i + 1].key
      BY <1>7, <2>1 DEF Chain
    <3> QED
      BY <1>4, <2>1, <3>1, <3>2, SMTT(30)
  <2>2. CASE ~(i < n)
    <3>1. i = n
      BY <1>1, <2>2, SMTT(30)
    <3> QED
      BY <1>3, <2>2, <3>1
  <2> QED
    BY <2>1, <2>2
<1>6. KeysIn(u) = KeysIn(s)
  <2>1. \A k : k \in KeysIn(u) <=> \E i \in 1..n : k = u[i].key
    BY <1>2 DEF KeysIn
  <2>2. \A k : k \in KeysIn(s) <=> \E i \in 1..n : k = s[i].key
    BY <1>7 DEF KeysIn
  <2>3. \A k : k \in KeysIn(u) <=> k \in KeysIn(s)
    <3>1. ASSUME NEW k, NEW i \in 1..n, k = u[i].key PROVE k \in KeysIn(s)
      <4>1. k = s[i].key
        BY <1>4, <3>1
      <4> QED
        BY <2>2, <4>1
    <3>2. ASSUME NEW k, NEW i \in 1..n, k = s[i].key PROVE k \in KeysIn(u)
      <4>1. k = u[i].key
        BY <1>4, <3>2
      <4> QED
        BY <2>1, <4>1
    <3> QED
      BY <2>1, <2>2, <3>1, <3>2
  <2> QED
    BY <2>3
<1> QED
  BY <1>2, <1>3, <1>5, <1>6

\* The next attempt: the one before names it as its target.
LEMMA Lengthened ==
    ASSUME NEW s \in Seq(AttemptSummary), Chain(s), NEW k \in Keys,
           s # <<>> => s[Len(s)].verdict # "none" /\ ~s[Len(s)].committed,
           NEW a \in AttemptSummary, a.key = k, a.failover_target = NoKey,
           NEW u, u = Longer(s, k, a)
    PROVE  /\ Chain(u) /\ u # <<>> /\ u[Len(u)] = a
           /\ KeysIn(s) \subseteq KeysIn(u)
<1> DEFINE p == Targeted(s, k)
           n == Len(s)
<1>0. n \in Nat
  BY SMTT(30)
<1>1. /\ p \in Seq(AttemptSummary) /\ Len(p) = n
      /\ \A i \in 1..n : /\ p[i].key = s[i].key
                         /\ p[i].verdict # "none" /\ ~p[i].committed
                         /\ p[i].failover_target = IF i < n THEN s[i + 1].key ELSE k
  <2>1. CASE s = <<>>
    BY <2>1, SMTT(30) DEF Targeted
  <2>2. CASE s # <<>>
    <3> DEFINE b == [s[n] EXCEPT !.failover_target = k]
    <3>1. n \in 1..n /\ s[n] \in AttemptSummary
      BY <2>2, SMTT(30)
    <3>2. /\ b \in AttemptSummary /\ b.key = s[n].key /\ b.verdict = s[n].verdict
          /\ b.committed = s[n].committed /\ b.failover_target = k
      BY <3>1 DEF AttemptSummary
    <3>3. p = [s EXCEPT ![n] = b]
      BY <2>2 DEF Targeted
    <3> HIDE DEF b, p
    <3>4. /\ p \in Seq(AttemptSummary) /\ Len(p) = n
          /\ \A j \in 1..n : p[j] = IF j = n THEN b ELSE s[j]
      BY <3>1, <3>2, <3>3, ExceptFacts, SMTT(30)
    <3>5. ASSUME NEW i \in 1..n
          PROVE  /\ p[i].key = s[i].key
                 /\ p[i].verdict # "none" /\ ~p[i].committed
                 /\ p[i].failover_target = IF i < n THEN s[i + 1].key ELSE k
      <4>1. CASE i < n
        <5>1. p[i] = s[i]
          BY <1>0, <3>4, <4>1, SMTT(30)
        <5> QED
          BY <4>1, <5>1 DEF Chain
      <4>2. CASE ~(i < n)
        <5>1. i = n /\ p[i] = b
          BY <1>0, <3>4, <4>2, SMTT(30)
        <5> QED
          BY <2>2, <3>2, <4>2, <5>1
      <4> QED
        BY <4>1, <4>2
    <3> QED
      BY <3>4, <3>5
  <2> QED
    BY <2>1, <2>2
<1>2. /\ Len(u) = n + 1 /\ u # <<>> /\ u[n + 1] = a
      /\ \A i \in 1..n : u[i] = p[i]
  <2>1. u = Append(p, a)
    BY DEF Longer
  <2> HIDE DEF p
  <2> QED
    BY <1>1, <2>1, AppendFacts, SMTT(30)
<1> HIDE DEF p
<1>3. Chain(u)
  <2> SUFFICES ASSUME NEW i \in 1..(n + 1)
               PROVE  IF i < n + 1
                      THEN /\ u[i].verdict # "none" /\ ~u[i].committed
                           /\ u[i].failover_target = u[i + 1].key
                      ELSE u[i].failover_target = NoKey
    BY <1>2 DEF Chain
  <2>1. CASE i < n
    <3>1. i \in 1..n /\ i + 1 \in 1..n /\ i < n + 1
      BY <1>0, <2>1, SMTT(30)
    <3> QED
      BY <1>1, <1>2, <2>1, <3>1
  <2>2. CASE i = n
    <3>1. i \in 1..n /\ ~(i < n) /\ i < n + 1
      BY <1>0, <2>2, SMTT(30)
    <3> QED
      BY <1>1, <1>2, <2>2, <3>1
  <2>3. CASE i = n + 1
    BY <1>0, <1>2, <2>3, SMTT(30)
  <2>4. i < n \/ i = n \/ i = n + 1
    BY <1>0, SMTT(30)
  <2> QED
    BY <2>1, <2>2, <2>3, <2>4
<1>4. KeysIn(s) \subseteq KeysIn(u)
  <2> SUFFICES ASSUME NEW i \in 1..n PROVE \E j \in 1..Len(u) : u[j].key = s[i].key
    BY SMTT(30) DEF KeysIn
  <2>1. i \in 1..Len(u) /\ u[i].key = s[i].key
    BY <1>0, <1>1, <1>2, SMTT(30)
  <2> QED
    BY <2>1
<1> QED
  BY <1>2, <1>3, <1>4

-----------------------------------------------------------------------------
(***************************************************************************)
(* The actions.                                                            *)
(***************************************************************************)
\* Up to the body, and the client that leaves: there is no attempt yet, or
\* none any more.
LEMMA EarlyOn ==
    ASSUME GInv, SInv, NEW r \in Requests,
           \/ healthz(r) \/ readyz(r) \/ Unrouted(r) \/ Lookup(r) \/ Arrive(r)
           \/ acquire(r) \/ Admitted(r) \/ GiveUp(r) \/ Revalidate(r)
           \/ snapshot_and_request(r) \/ ReserveBody(r) \/ ReadBody(r) \/ BodyTimeout(r)
    PROVE  SInv'
<1>1. pc(r) \in Before
  BY DEF healthz, readyz, Probed, Unrouted, Lookup, Arrive, acquire, Admitted, GiveUp,
         Revalidate, snapshot_and_request, ReserveBody, ReadBody, BodyTimeout, Before
<1>2. CASE \E status \in Local : Respond(r, status, NoKey)
  BY <1>1, <1>2, RefuseEarly
<1>3. CASE /\ \E to \in {"probed", "acquire", "admitted", "queued", "snapshot", "budget",
                         "reading", "next"} : Goto(r, to)
           /\ OnlyOf(r)
  <2>1. PICK to \in {"probed", "acquire", "admitted", "queued", "snapshot", "budget",
                     "reading", "next"} : Goto(r, to)
    BY <1>3
  <2>2. /\ to \in PCs \ ({"over"} \cup Trying) /\ to \notin Decided
        /\ to \notin Pumping
    BY DEF PCs, Precommit, Trying, Decided, Pumping
  <2> QED
    BY <1>1, <1>3, <2>1, <2>2, MoveOn
<1>4. CASE healthz(r) \/ readyz(r)
  <2>1. PICK status : Probed(r, status)
    BY <1>4 DEF healthz, readyz
  <2>2. seen \in [Requests -> Statuses \cup {"none"}]
    BY DEF GInv, TypeOK
  <2>3. Goto(r, "probed") /\ OnlyOf(r)
    BY <2>1, <2>2 DEF Probed, OnlyOf
  <2> QED
    BY <1>3, <2>3
<1>5. CASE Unrouted(r) \/ Lookup(r) \/ GiveUp(r) \/ BodyTimeout(r)
  BY <1>2, <1>5 DEF Unrouted, Lookup, GiveUp, BodyTimeout, RespondAndRelease, Local
<1>6. CASE Arrive(r) \/ acquire(r) \/ Revalidate(r) \/ ReadBody(r)
  <2>1. \/ \E status \in Local : Respond(r, status, NoKey)
        \/ /\ \E to \in {"acquire", "admitted", "queued", "snapshot", "next"} : Goto(r, to)
           /\ UNCHANGED <<seen, audit>>
    BY <1>6 DEF Arrive, acquire, Revalidate, ReadBody, RespondAndRelease, Local,
                read_limited, extract_model
  <2> QED
    BY <1>2, <1>3, <2>1, Quiet
<1>7. CASE Admitted(r) \/ snapshot_and_request(r) \/ ReserveBody(r)
  <2>1. /\ \E to \in {"admitted", "budget", "reading"} : Goto(r, to)
        /\ UNCHANGED <<seen, audit>>
    BY <1>7 DEF Admitted, snapshot_and_request, ReserveBody
  <2> QED
    BY <1>3, <2>1, Quiet
<1> QED
  BY <1>4, <1>5, <1>6, <1>7

\* The client goes away, or the body is dropped once the answer is decided.
LEMMA DropOn ==
    ASSUME GInv, SInv, NEW r \in Requests,
           Disconnect(r) \/ DropBodyStream(r) \/ DropBody(r)
    PROVE  SInv'
<1>1. CASE Disconnect(r)
  <2>1. Goto(r, "dropped") /\ OnlyOf(r)
    BY <1>1, Quiet DEF Disconnect
  <2>2. /\ "dropped" \in PCs \ ({"over"} \cup Trying)
        /\ "dropped" \notin Before \cup Decided \cup Pumping
    BY DEF PCs, Trying, Before, Decided, Pumping
  <2> QED
    BY <2>1, <2>2, MoveOn
<1>2. CASE DropBodyStream(r)
  BY <1>2 DEF DropBodyStream, SInv
<1>3. CASE DropBody(r)
  <2>1. Goto(r, "respond") /\ OnlyOf(r) /\ pc(r) \in Decided
    BY <1>3, Quiet DEF DropBody, Decided
  <2>2. /\ "respond" \in PCs \ ({"over"} \cup Trying)
        /\ "respond" \notin Before \cup Pumping
    BY DEF PCs, Trying, Before, Pumping
  <2> QED
    BY <2>1, <2>2, MoveOn
<1> QED
  BY <1>1, <1>2, <1>3

\* next(): a key is selected, or the loop is left with an answer.
LEMMA NextOn ==
    ASSUME GInv, SInv, NEW r \in Requests, Selected(r) \/ Unavailable(r) \/ Exhausted(r)
    PROVE  SInv'
<1>0. /\ pc(r) = "next" /\ task \in [Requests -> Task] /\ task[r] \in Task
      /\ OnlyOf(r) /\ Story(task[r])
  BY Quiet DEF GInv, TypeOK, SInv, Selected, Unavailable, Exhausted, Break
<1>1. task[r].attempts \in Seq(AttemptSummary) /\ Settled(task[r]) /\ Chain(task[r].attempts)
  BY <1>0 DEF Task, Story, pc
<1>2. CASE Selected(r)
  <2>1. PICK k \in Keys :
          task' = [task EXCEPT
                     ![r].pc = "sent",
                     ![r].attempts = Append(Targeted(@, k),
                         [key |-> k, verdict |-> "none", committed |-> FALSE,
                          failover_target |-> NoKey])]
    BY <1>2 DEF Selected
  <2> DEFINE a == [key |-> k, verdict |-> "none", committed |-> FALSE, failover_target |-> NoKey]
             s == Append(Targeted(task[r].attempts, k), a)
             t == [task[r] EXCEPT !.pc = "sent", !.attempts = s]
  <2>2. /\ a \in AttemptSummary /\ a.key = k /\ a.failover_target = NoKey /\ ~a.committed
    BY DEF AttemptSummary, Verdicts
  <2>3. task' = [task EXCEPT ![r] = t]
    BY <1>0, <2>1
  <2>8. s = Append(Targeted(task[r].attempts, k), a)
    OBVIOUS
  <2> HIDE DEF a, s
  <2>4. /\ Chain(s) /\ s[Len(s)] = a
        /\ KeysOf(task[r]) \subseteq KeysIn(s)
    <3>1. task[r].attempts # <<>> =>
            /\ task[r].attempts[Len(task[r].attempts)].verdict # "none"
            /\ ~task[r].attempts[Len(task[r].attempts)].committed
      BY <1>1 DEF Settled, Latest
    <3>2. PICK o, u, b : o = task[r].attempts /\ u = s /\ b = a
      OBVIOUS
    <3>3. /\ o \in Seq(AttemptSummary) /\ Chain(o)
          /\ u = Longer(o, k, b)
          /\ b \in AttemptSummary /\ b.key = k /\ b.failover_target = NoKey
      BY <1>1, <2>2, <2>8, <3>2 DEF Longer
    <3>4. o # <<>> => o[Len(o)].verdict # "none" /\ ~o[Len(o)].committed
      BY <3>1, <3>2
    <3>5. Chain(u) /\ u[Len(u)] = b /\ KeysIn(o) \subseteq KeysIn(u)
      BY <3>3, <3>4, Lengthened, SMTT(30)
    <3> QED
      BY <3>2, <3>5 DEF KeysOf
  <2>5. /\ t.pc = "sent" /\ t.attempts = s /\ t.last_response = task[r].last_response
    BY <1>0 DEF Task
  <2> HIDE DEF t
  <2>6. ~Latest(t).committed /\ KeysOf(task[r]) \subseteq KeysOf(t)
    BY <2>2, <2>4, <2>5 DEF Latest, KeysOf
  <2>7. Story(t)
    BY <1>0, <2>4, <2>5, <2>6 DEF Story, Before, Decided, Pumping
  <2> QED
    BY <1>0, <2>3, <2>5, <2>7, Onward
<1>3. ASSUME NEW answer, Break(r, answer),
             answer.status # "u200",
             task[r].last_response # NoAnswer => answer = task[r].last_response,
             answer.status \in Retryable => task[r].last_response # NoAnswer
      PROVE  SInv'
  <2> DEFINE t == [task[r] EXCEPT !.pc = "final", !.answer = answer]
  <2>1. task' = [task EXCEPT ![r] = t]
    BY <1>0, <1>3 DEF Break
  <2>2. /\ t.pc = "final" /\ t.attempts = task[r].attempts
        /\ t.last_response = task[r].last_response /\ t.answer = answer
    BY <1>0 DEF Task
  <2> HIDE DEF t
  <2>3. Latest(t) = Latest(task[r]) /\ KeysOf(t) = KeysOf(task[r])
    BY <2>2 DEF Latest, KeysOf
  <2>4. Answered(t)
    BY <1>1, <1>3, <2>2, <2>3 DEF Answered, Settled
  <2>5. Story(t)
    BY <1>0, <2>2, <2>3, <2>4 DEF Story, Before, Trying, Pumping
  <2> QED
    BY <1>0, <2>1, <2>2, <2>5, Onward
<1>4. CASE Unavailable(r)
  <2>1. Break(r, [status |-> "keys_unavailable", key |-> NoKey]) /\ task[r].last_response = NoAnswer
    BY <1>4 DEF Unavailable, MayWait
  <2> QED
    BY <1>3, <2>1 DEF Retryable
<1>5. CASE Exhausted(r)
  <2>1. CASE task[r].last_response # NoAnswer
    <3>1. Break(r, task[r].last_response)
      BY <1>5, <2>1 DEF Exhausted
    <3>2. task[r].last_response.status # "u200"
      BY <1>0, <2>1 DEF Story, Retryable
    <3> QED
      BY <1>3, <2>1, <3>1, <3>2
  <2>2. CASE task[r].last_response = NoAnswer
    <3>1. Break(r, [status |-> "service_unavailable", key |-> NoKey])
      BY <1>5, <2>2 DEF Exhausted
    <3> QED
      BY <1>3, <2>2, <3>1 DEF Retryable
  <2> QED
    BY <2>1, <2>2
<1> QED
  BY <1>2, <1>4, <1>5

\* The attempt under way, reported as v: the list goes on as it was.
LEMMA Reported ==
    ASSUME NEW s \in Seq(AttemptSummary), s # <<>>, Chain(s), NEW v \in Verdicts,
           NEW u, u = Told(s, v)
    PROVE  /\ Chain(u) /\ u # <<>> /\ u[Len(u)].key = s[Len(s)].key
           /\ KeysIn(u) = KeysIn(s)
           /\ u[Len(u)].verdict = v /\ u[Len(u)].committed = s[Len(s)].committed
<1> DEFINE a == s[Len(s)]
           b == [a EXCEPT !.verdict = v]
<1>1. Len(s) \in 1..Len(s) /\ a \in AttemptSummary
  BY SMTT(30)
<1>2. a.failover_target = NoKey
  BY <1>1, SMTT(30) DEF Chain
<1>3. /\ b \in AttemptSummary /\ b.key = a.key /\ b.failover_target = NoKey
      /\ b.verdict = v /\ b.committed = a.committed
  BY <1>1, <1>2 DEF AttemptSummary
<1>4. u = [s EXCEPT ![Len(s)] = b]
  BY DEF Told
<1> HIDE DEF b
<1>5. /\ Chain(u) /\ u # <<>> /\ u[Len(u)] = b
      /\ KeysIn(u) = KeysIn(s)
  BY <1>3, <1>4, LastChanged
<1> QED
  BY <1>3, <1>5

\* The same for an attempt that is committed.
LEMMA Committed ==
    ASSUME NEW s \in Seq(AttemptSummary), s # <<>>, Chain(s),
           NEW u, u = [s EXCEPT ![Len(s)].committed = TRUE]
    PROVE  /\ Chain(u) /\ u # <<>> /\ u[Len(u)].key = s[Len(s)].key
           /\ KeysIn(u) = KeysIn(s)
           /\ u[Len(u)].committed
<1> DEFINE a == s[Len(s)]
           b == [a EXCEPT !.committed = TRUE]
<1>1. Len(s) \in 1..Len(s) /\ a \in AttemptSummary
  BY SMTT(30)
<1>2. a.failover_target = NoKey
  BY <1>1, SMTT(30) DEF Chain
<1>3. b \in AttemptSummary /\ b.key = a.key /\ b.failover_target = NoKey /\ b.committed
  BY <1>1, <1>2 DEF AttemptSummary
<1>4. u = [s EXCEPT ![Len(s)] = b]
  OBVIOUS
<1> HIDE DEF b
<1>5. /\ Chain(u) /\ u # <<>> /\ u[Len(u)] = b
      /\ KeysIn(u) = KeysIn(s)
  BY <1>3, <1>4, LastChanged
<1> QED
  BY <1>3, <1>5

\* A failed attempt: it is reported, its error perhaps saved, and the loop goes
\* on.
LEMMA FailedOn ==
    ASSUME GInv, SInv, NEW r \in Requests, pc(r) \in Trying, OnlyOf(r),
           NEW v \in Verdicts \ {"none"}, NEW t, task' = [task EXCEPT ![r] = t],
           t.pc = "next", t.attempts = Report(r, v),
           \/ t.last_response = task[r].last_response
           \/ /\ t.last_response.status \in Retryable
              /\ t.last_response.key = Latest(task[r]).key
    PROVE  SInv'
<1>1. /\ task[r] \in Task /\ task[r].attempts # <<>> /\ Story(task[r])
  BY DEF GInv, TypeOK, Place, Attempts, SInv
<1>2. ~Latest(task[r]).committed /\ Chain(task[r].attempts)
  BY <1>1 DEF Story, pc
<1>3. t.attempts = [task[r].attempts EXCEPT ![Len(task[r].attempts)].verdict = v]
  BY DEF Report, Attempts, Current
<1>4. /\ Chain(t.attempts) /\ t.attempts # <<>> /\ Latest(t).verdict = v
      /\ ~Latest(t).committed /\ KeysOf(t) = KeysOf(task[r])
  <2>1. task[r].attempts \in Seq(AttemptSummary) /\ v \in Verdicts
    BY <1>1 DEF Task
  <2>2. /\ Chain(t.attempts) /\ t.attempts # <<>>
        /\ KeysIn(t.attempts) = KeysOf(task[r])
        /\ t.attempts[Len(t.attempts)].verdict = v
        /\ t.attempts[Len(t.attempts)].committed = Latest(task[r]).committed
    <3>1. PICK o : o = task[r].attempts
      OBVIOUS
    <3>2. /\ o \in Seq(AttemptSummary) /\ o # <<>> /\ Chain(o)
          /\ t.attempts = Told(o, v)
      BY <1>1, <1>2, <1>3, <2>1, <3>1 DEF Told
    <3>3. /\ Chain(t.attempts) /\ t.attempts # <<>>
          /\ t.attempts[Len(t.attempts)].key = o[Len(o)].key
          /\ KeysIn(t.attempts) = KeysIn(o)
          /\ t.attempts[Len(t.attempts)].verdict = v
          /\ t.attempts[Len(t.attempts)].committed = o[Len(o)].committed
      BY <2>1, <3>2, Reported, SMTT(30)
    <3> QED
      BY <3>1, <3>3 DEF KeysOf, Latest
  <2> QED
    BY <1>2, <2>2 DEF Latest, KeysOf
<1>5. Latest(task[r]).key \in KeysOf(task[r])
  <2>1. Len(task[r].attempts) \in 1..Len(task[r].attempts)
    BY <1>1, SMTT(30) DEF Task
  <2> QED
    BY <2>1 DEF Latest, KeysOf, KeysIn
<1>6. t.last_response # NoAnswer =>
        t.last_response.status \in Retryable /\ t.last_response.key \in KeysOf(t)
  BY <1>1, <1>4, <1>5 DEF Story
<1>7. Story(t)
  BY <1>4, <1>6 DEF Story, Settled, Before, Trying, Decided, Pumping
<1> QED
  BY <1>7, Onward

\* An attempt, from the request to the first event or the end of an error body.
LEMMA AttemptOn ==
    ASSUME GInv, SInv, NEW r \in Requests,
           \/ ResponseHead(r) \/ HeaderTimeout(r) \/ ErrorBody(r) \/ ErrorBodyTimeout(r)
           \/ CommitAtOnce(r) \/ CommitFirstEvent(r) \/ PrefetchFails(r) \/ FirstEventTimeout(r)
    PROVE  SInv'
<1>0. /\ pc(r) \in Trying /\ UNCHANGED <<seen, audit>>
  BY DEF ResponseHead, HeaderTimeout, ErrorBody, ErrorBodyTimeout, CommitAtOnce,
         CommitFirstEvent, PrefetchFails, FirstEventTimeout, AttemptFailed, Commit, Trying
<1>1. /\ task \in [Requests -> Task] /\ task[r] \in Task /\ task[r].attempts # <<>>
      /\ OnlyOf(r) /\ Story(task[r])
  BY <1>0, Quiet DEF GInv, TypeOK, Place, Attempts, SInv
<1>2. ~Latest(task[r]).committed /\ Chain(task[r].attempts)
  BY <1>0, <1>1 DEF Story, pc
<1>3. ASSUME NEW v \in Verdicts \ {"none"}, AttemptFailed(r, v) PROVE SInv'
  <2> DEFINE t == [task[r] EXCEPT !.pc = "next", !.attempts = Report(r, v)]
  <2>1. task' = [task EXCEPT ![r] = t]
    BY <1>1, <1>3 DEF AttemptFailed
  <2>2. /\ t.pc = "next" /\ t.attempts = Report(r, v)
        /\ t.last_response = task[r].last_response
    BY <1>1 DEF Task
  <2> HIDE DEF t
  <2> QED
    BY <1>0, <1>1, <2>1, <2>2, FailedOn
<1>4. ASSUME NEW t, task' = [task EXCEPT ![r] = t], t.pc \in {"errbody", "prefetch"},
             t.pc = "errbody" => t.status \in Retryable,
             t.attempts = task[r].attempts, t.last_response = task[r].last_response
      PROVE  SInv'
  <2>1. Latest(t) = Latest(task[r]) /\ KeysOf(t) = KeysOf(task[r])
    BY <1>4 DEF Latest, KeysOf
  <2>2. Story(t)
    BY <1>1, <1>2, <1>4, <2>1 DEF Story, Before, Decided, Pumping
  <2>3. t.pc # "over"
    BY <1>4
  <2> QED
    BY <1>1, <1>4, <2>2, <2>3, Onward
<1>5. CASE \E status \in Retryable :
              task' = [task EXCEPT ![r].pc = "errbody", ![r].status = status]
  <2>1. PICK status \in Retryable :
              task' = [task EXCEPT ![r].pc = "errbody", ![r].status = status]
    BY <1>5
  <2> DEFINE t == [task[r] EXCEPT !.pc = "errbody", !.status = status]
  <2>2. task' = [task EXCEPT ![r] = t]
    BY <1>1, <2>1
  <2>3. /\ t.pc = "errbody" /\ t.status = status /\ t.attempts = task[r].attempts
        /\ t.last_response = task[r].last_response
    BY <1>1 DEF Task
  <2> HIDE DEF t
  <2> QED
    BY <1>4, <2>2, <2>3
<1>6. CASE \E streaming \in BOOLEAN :
              task' = [task EXCEPT ![r].pc = "prefetch", ![r].streaming = streaming]
  <2>1. PICK streaming \in BOOLEAN :
              task' = [task EXCEPT ![r].pc = "prefetch", ![r].streaming = streaming]
    BY <1>6
  <2> DEFINE t == [task[r] EXCEPT !.pc = "prefetch", !.streaming = streaming]
  <2>2. task' = [task EXCEPT ![r] = t]
    BY <1>1, <2>1
  <2>3. /\ t.pc = "prefetch" /\ t.attempts = task[r].attempts
        /\ t.last_response = task[r].last_response
    BY <1>1 DEF Task
  <2> HIDE DEF t
  <2> QED
    BY <1>4, <2>2, <2>3
<1>7. \A status, complete : VerdictsFor(status, complete) \subseteq Verdicts \ {"none"}
  BY DEF VerdictsFor, classify_429, Verdicts
<1>8. CASE ErrorBody(r) \/ ErrorBodyTimeout(r)
  <2>1. task[r].status \in Retryable
    <3>1. pc(r) = "errbody"
      BY <1>8 DEF ErrorBody, ErrorBodyTimeout
    <3> QED
      BY <1>1, <3>1 DEF Story, pc
  <2>2. ASSUME NEW v \in Verdicts \ {"none"}, NEW last,
               \/ last = task[r].last_response
               \/ last.status \in Retryable /\ last.key = Latest(task[r]).key,
               task' = [task EXCEPT ![r].pc = "next", ![r].status = "none",
                                    ![r].attempts = Report(r, v), ![r].last_response = last]
        PROVE  SInv'
    <3> DEFINE t == [task[r] EXCEPT !.pc = "next", !.status = "none",
                                    !.attempts = Report(r, v), !.last_response = last]
    <3>1. task' = [task EXCEPT ![r] = t]
      BY <1>1, <2>2
    <3>2. t.pc = "next" /\ t.attempts = Report(r, v) /\ t.last_response = last
      BY <1>1 DEF Task
    <3> HIDE DEF t
    <3>3. \/ t.last_response = task[r].last_response
          \/ /\ t.last_response.status \in Retryable
             /\ t.last_response.key = Latest(task[r]).key
      BY <2>2, <3>2
    <3>4. t.pc = "next" /\ t.attempts = Report(r, v)
      BY <3>2
    <3> QED
      BY <1>0, <1>1, <3>1, <3>3, <3>4, FailedOn
  <2>3. ASSUME NEW v \in Verdicts \ {"none"},
               task' = [task EXCEPT ![r].pc = "next", ![r].status = "none",
                                    ![r].attempts = Report(r, v)]
        PROVE  SInv'
    <3>1. task' = [task EXCEPT ![r].pc = "next", ![r].status = "none",
                               ![r].attempts = Report(r, v),
                               ![r].last_response = task[r].last_response]
      BY <1>1, <2>3 DEF Task
    <3> QED
      BY <2>2, <3>1
  <2>4. ASSUME NEW v \in Verdicts \ {"none"},
               task' = [task EXCEPT ![r].pc = "next", ![r].status = "none",
                                    ![r].attempts = Report(r, v),
                                    ![r].last_response =
                                        [status |-> task[r].status,
                                         key |-> Attempts(r)[Current(r)].key]]
        PROVE  SInv'
    <3> DEFINE last == [status |-> task[r].status, key |-> Attempts(r)[Current(r)].key]
    <3>1. last.status \in Retryable /\ last.key = Latest(task[r]).key
      BY <2>1 DEF Latest, Attempts, Current
    <3> QED
      BY <2>2, <2>4, <3>1
  <2>5. CASE ErrorBodyTimeout(r)
    <3>1. PICK v \in VerdictsFor(task[r].status, FALSE) :
            task' = [task EXCEPT ![r].pc = "next", ![r].status = "none",
                                 ![r].attempts = Report(r, v)]
      BY <2>5 DEF ErrorBodyTimeout
    <3> QED
      BY <1>7, <2>3, <3>1
  <2>6. CASE ErrorBody(r)
    BY <1>7, <2>3, <2>4, <2>6 DEF ErrorBody
  <2> QED
    BY <1>8, <2>5, <2>6
<1>9. CASE Commit(r)
  <2> DEFINE s == [task[r].attempts EXCEPT ![Len(task[r].attempts)].committed = TRUE]
             answer == [status |-> "u200", key |-> Attempts(r)[Current(r)].key]
             t == [task[r] EXCEPT !.pc = "final", !.attempts = s, !.answer = answer]
  <2>1. task' = [task EXCEPT ![r] = t]
    BY <1>1, <1>9 DEF Commit, Attempts, Current
  <2>2. answer.status = "u200" /\ answer.key = Latest(task[r]).key
    BY DEF Latest, Attempts, Current
  <2>3. /\ task[r].attempts \in Seq(AttemptSummary)
        /\ s = [task[r].attempts EXCEPT ![Len(task[r].attempts)].committed = TRUE]
    BY <1>1 DEF Task
  <2> HIDE DEF s, answer
  <2>4. /\ Chain(s) /\ s # <<>> /\ s[Len(s)].committed /\ s[Len(s)].key = Latest(task[r]).key
        /\ KeysIn(s) = KeysOf(task[r])
    <3>1. PICK o : o = task[r].attempts
      OBVIOUS
    <3>2. /\ o \in Seq(AttemptSummary) /\ o # <<>> /\ Chain(o)
          /\ s = [o EXCEPT ![Len(o)].committed = TRUE]
      BY <1>1, <1>2, <2>3, <3>1
    <3>3. /\ Chain(s) /\ s # <<>> /\ s[Len(s)].key = o[Len(o)].key
          /\ KeysIn(s) = KeysIn(o)
          /\ s[Len(s)].committed
      BY <3>2, Committed
    <3> QED
      BY <3>1, <3>3 DEF KeysOf, Latest
  <2>5. /\ t.pc = "final" /\ t.attempts = s /\ t.answer = answer
        /\ t.last_response = task[r].last_response
    BY <1>1 DEF Task
  <2> HIDE DEF t
  <2>6. Answered(t) /\ KeysOf(t) = KeysOf(task[r])
    BY <2>2, <2>4, <2>5 DEF Answered, Latest, KeysOf
  <2>7. Story(t)
    BY <1>1, <2>4, <2>5, <2>6 DEF Story, Before, Trying, Pumping
  <2> QED
    BY <1>1, <2>1, <2>5, <2>7, Onward
<1> QED
  BY <1>3, <1>5, <1>6, <1>8, <1>9
     DEF ResponseHead, HeaderTimeout, CommitAtOnce, CommitFirstEvent, PrefetchFails,
         FirstEventTimeout, Verdicts

\* The answer: the gateway's own, the saved error, or a response to be pumped.
LEMMA AnswerOn ==
    ASSUME GInv, SInv, NEW r \in Requests,
           Refuse(r) \/ finalize_consumed_error(r) \/ finalize_response(r)
    PROVE  SInv'
<1>0. pc(r) = "respond" /\ pc(r) # "over"
  BY DEF Refuse, finalize_consumed_error, finalize_response
<1>1. Story(task[r]) /\ Answered(task[r])
  BY <1>0 DEF SInv, Story, pc, Decided
<1>2. CASE Refuse(r)
  <2>1. /\ Respond(r, task[r].answer.status, NoKey)
        /\ task[r].answer.status \notin Retryable \cup {"u200"}
    BY <1>2 DEF Refuse, RespondAndRelease, Local, Retryable
  <2>2. task[r].last_response = NoAnswer
    BY <1>1, <2>1 DEF Answered, Story
  <2> QED
    BY <1>0, <1>1, <2>1, <2>2, RespondOn DEF Answered, Settled
<1>3. CASE finalize_consumed_error(r)
  <2>1. /\ Respond(r, task[r].answer.status, task[r].answer.key)
        /\ task[r].answer.status \in Retryable /\ task[r].answer.status # "u200"
    BY <1>3 DEF finalize_consumed_error, RespondAndRelease, Retryable
  <2>2. /\ task[r].last_response # NoAnswer /\ task[r].answer = task[r].last_response
        /\ task[r].answer.key \in KeysOf(task[r])
    BY <1>1, <2>1 DEF Answered, Story
  <2> QED
    BY <1>0, <1>1, <2>1, <2>2, RespondOn DEF Answered, Settled
<1>4. CASE finalize_response(r)
  <2>1. task[r].answer.status = "u200"
    BY <1>4 DEF finalize_response
  <2>2. CASE RespondAndRelease(r, "service_unavailable", task[r].answer.key)
    <3>1. Respond(r, "service_unavailable", task[r].answer.key)
      BY <2>2 DEF RespondAndRelease
    <3>2. Latest(task[r]).committed
      BY <1>1, <2>1 DEF Answered
    <3> QED
      BY <1>0, <2>1, <3>1, <3>2, RespondOn DEF Retryable
  <2>3. ASSUME NEW to \in Pumping, Forward(r, to) PROVE SInv'
    <3>1. seen \in [Requests -> Statuses \cup {"none"}]
      BY DEF GInv, TypeOK
    <3>2. Goto(r, to) /\ OnlyOf(r)
      BY <2>3, <3>1 DEF Forward, OnlyOf
    <3>3. to \in PCs \ ({"over"} \cup Trying) /\ to \notin Before \cup {"next"}
      BY DEF Pumping, PCs, Trying, Before
    <3> QED
      BY <1>0, <2>1, <3>2, <3>3, MoveOn DEF Decided
  <2> QED
    BY <1>4, <2>2, <2>3 DEF finalize_response, Pumping
<1> QED
  BY <1>2, <1>3, <1>4

\* The pump: chunks, and the end of the task.
LEMMA PumpOn ==
    ASSUME GInv, SInv, NEW r \in Requests,
           \/ Chunk(r) \/ Sent(r) \/ UpstreamEnds(r) \/ UpstreamStalls(r)
           \/ WriteTimeout(r) \/ Cancelled(r)
    PROVE  SInv'
<1>0. pc(r) \in Pumping /\ task[r] \in Task /\ task \in [Requests -> Task]
  BY
     DEF GInv, TypeOK, Chunk, Sent, UpstreamEnds, UpstreamStalls, WriteTimeout, Cancelled, Pumping
<1>1. /\ Story(task[r]) /\ Answered(task[r]) /\ task[r].answer.status = "u200"
      /\ Chain(task[r].attempts)
  BY <1>0 DEF SInv, Story, pc, Decided
<1>2. /\ task[r].attempts # <<>> /\ Latest(task[r]).committed
      /\ task[r].answer.key = Latest(task[r]).key
  BY <1>1 DEF Answered
<1>3. CASE Chunk(r) \/ Sent(r)
  <2>1. PICK to \in Pumping : Goto(r, to)
    BY <1>3 DEF Chunk, Sent, Pumping
  <2>2. OnlyOf(r)
    BY <1>3, Quiet DEF Chunk, Sent
  <2>3. to \in PCs \ ({"over"} \cup Trying) /\ to \notin Before \cup {"next"}
    BY DEF Pumping, PCs, Trying, Before
  <2> QED
    BY <1>0, <1>1, <2>1, <2>2, <2>3, MoveOn DEF Decided
<1>4. ASSUME NEW outcome \in Outcomes \ {"none"}, PumpEnds(r, outcome)
      PROVE  SInv'
  <2> DEFINE v == PumpVerdict[outcome]
             s == Report(r, v)
             t == [task[r] EXCEPT !.pc = "over", !.attempts = s]
             record == PumpRecord(r, outcome, s)
  <2>1. v \in Verdicts /\ (v = "none" => outcome = "client_cancel")
    BY SMTT(30) DEF PumpVerdict, Outcomes, Verdicts
  <2>2. /\ task' = [task EXCEPT ![r] = t]
        /\ audit' = [audit EXCEPT ![r] = Append(@, record)] /\ seen' = seen
    BY <1>0, <1>4 DEF PumpEnds
  <2>3. s = [task[r].attempts EXCEPT ![Len(task[r].attempts)].verdict = v]
    BY DEF Report, Attempts, Current
  <2> HIDE DEF s, v
  <2>4. /\ Chain(s) /\ s # <<>> /\ s[Len(s)].key = Latest(task[r]).key
        /\ KeysIn(s) = KeysOf(task[r])
        /\ s[Len(s)].verdict = v /\ s[Len(s)].committed = Latest(task[r]).committed
    <3>1. task[r].attempts \in Seq(AttemptSummary)
      BY <1>0 DEF Task
    <3>2. PICK o, u, w : o = task[r].attempts /\ u = s /\ w = v
      OBVIOUS
    <3>3. /\ o \in Seq(AttemptSummary) /\ o # <<>> /\ Chain(o) /\ w \in Verdicts
          /\ u = Told(o, w)
      BY <1>1, <1>2, <2>1, <2>3, <3>1, <3>2 DEF Told
    <3>4. /\ Chain(u) /\ u # <<>> /\ u[Len(u)].key = o[Len(o)].key
          /\ KeysIn(u) = KeysIn(o)
          /\ u[Len(u)].verdict = w /\ u[Len(u)].committed = o[Len(o)].committed
      BY <3>3, Reported, SMTT(30)
    <3> QED
      BY <3>2, <3>4 DEF KeysOf, Latest
  <2>5. /\ t.pc = "over" /\ t.attempts = s /\ t.answer = task[r].answer
        /\ t.last_response = task[r].last_response
    BY <1>0 DEF Task
  <2>6. record.key = Latest(task[r]).key /\ record.outcome = outcome
    BY <1>2 DEF PumpRecord, Record
  <2> HIDE DEF t, record
  <2>7. /\ Latest(t).key = Latest(task[r]).key /\ Latest(t).committed
        /\ Latest(t).verdict = v /\ KeysOf(t) = KeysOf(task[r])
    BY <1>2, <2>4, <2>5 DEF Latest, KeysOf
  <2>8. Story(t)
    BY <1>1, <2>4, <2>5, <2>7 DEF Story, Before, Trying, Decided, Pumping
  <2>9. Latest(t).key \in KeysOf(t)
    <3>1. task[r].attempts \in Seq(AttemptSummary)
      BY <1>0 DEF Task
    <3>2. Len(task[r].attempts) \in 1..Len(task[r].attempts)
      BY <1>2, <3>1, LastOfSome
    <3>3. Latest(task[r]).key \in KeysOf(task[r])
      BY <3>2 DEF Latest, KeysOf, KeysIn
    <3> QED
      BY <2>7, <3>3
  <2>10. Closed(t, seen[r], record)
    BY <1>1, <2>1, <2>5, <2>6, <2>7, <2>9 DEF Closed
  <2>11. audit \in [Requests -> Seq(AuditRecord)] /\ audit[r] = <<>>
    BY <1>0 DEF GInv, TypeOK, Place, Pumping
  <2>12. audit'[r] = <<record>> /\ OnlyOf(r)
    BY <2>2, <2>11, SMTT(30) DEF OnlyOf
  <2>13. audit'[r][1] = record
    BY <2>12, SMTT(30)
  <2> QED
    BY <2>2, <2>8, <2>10, <2>12, <2>13, Onward
<1> QED
  BY <1>3, <1>4 DEF UpstreamEnds, UpstreamStalls, WriteTimeout, Cancelled, Outcomes

\* Every step preserves the invariant.
LEMMA SStep == GInv /\ SInv /\ [Next]_vars => SInv'
<1> SUFFICES ASSUME GInv, SInv, [Next]_vars PROVE SInv'
  OBVIOUS
<1>1. ASSUME NEW r \in Requests, Handler(r) PROVE SInv'
  BY <1>1, EarlyOn, DropOn, NextOn, AttemptOn, AnswerOn DEF Handler
<1>2. ASSUME NEW r \in Requests, External(r) PROVE SInv'
  BY <1>2, EarlyOn, DropOn, AttemptOn, PumpOn DEF External
<1>3. ASSUME NEW r \in Requests, UpstreamStalls(r) \/ WriteTimeout(r) \/ Cancelled(r)
      PROVE  SInv'
  BY <1>3, PumpOn
<1>4. CASE Reload \/ Close \/ UNCHANGED vars
  <2>1. task' = task /\ seen' = seen /\ audit' = audit
    BY <1>4 DEF Reload, Close, vars, state
  <2> QED
    BY <2>1 DEF SInv
<1> QED
  BY <1>1, <1>2, <1>3, <1>4 DEF Next

-----------------------------------------------------------------------------
(***************************************************************************)
(* The answer stands.                                                      *)
(***************************************************************************)
\* Where a client has been told a status.
Responding == Pumping \cup {"over", "probed"}

\* Nobody is told a status before its response is returned.
Silent == \A r \in Requests : seen[r] # "none" => pc(r) \in Responding

\* No step takes back a status, tries another key once the client has one, or
\* touches a record that was written: failover ends where the response begins
\* (proxy_request, finalize_response, the pump's end).
AnswerStands ==
    \A r \in Requests :
        /\ seen[r] # "none" =>
             seen'[r] = seen[r] /\ Len(task'[r].attempts) = Len(task[r].attempts)
        /\ audit[r] # <<>> => audit'[r] = audit[r]

\* A step of r's: its client is told while none was, or the pump goes on with
\* the attempt it has.
StepsOnce(r) ==
    /\ \A s \in Requests \ {r} : task'[s] = task[s]
    /\ OnlyOf(r)
    /\ \/ pc(r) \notin Responding /\ (seen'[r] = seen[r] \/ pc(r)' \in Responding)
       \/ /\ pc(r) \in Pumping /\ pc(r)' \in Responding /\ seen'[r] = seen[r]
          /\ Len(task'[r].attempts) = Len(task[r].attempts)

\* Such a step lets every answer stand.
LEMMA StepsOnceStands ==
    ASSUME GInv, Silent, NEW r \in Requests, StepsOnce(r)
    PROVE  AnswerStands /\ Silent'
<1>1. \A s \in Requests \ {r} :
        task'[s] = task[s] /\ seen'[s] = seen[s] /\ audit'[s] = audit[s] /\ pc(s)' = pc(s)
  BY DEF StepsOnce, OnlyOf, pc
<1>2. pc(r) # "over"
  BY DEF StepsOnce, Responding, Pumping
<1>3. audit[r] = <<>>
  BY <1>2 DEF GInv, Place
<1>4. \/ seen[r] = "none" /\ (seen'[r] = seen[r] \/ pc(r)' \in Responding)
      \/ /\ pc(r)' \in Responding /\ seen'[r] = seen[r]
         /\ Len(task'[r].attempts) = Len(task[r].attempts)
  BY DEF Silent, StepsOnce
<1>5. AnswerStands
  BY <1>1, <1>3, <1>4 DEF AnswerStands
<1>6. Silent'
  BY <1>1, <1>4 DEF Silent
<1> QED
  BY <1>5, <1>6

\* A step before the response that tells the client nothing.
LEMMA MuteStep ==
    ASSUME GInv, NEW r \in Requests, NEW t, task' = [task EXCEPT ![r] = t],
           pc(r) \notin Responding, UNCHANGED <<seen, audit>>
    PROVE  StepsOnce(r)
<1>1. \A s \in Requests \ {r} : task'[s] = task[s]
  BY DEF GInv, TypeOK
<1> QED
  BY <1>1, Quiet DEF StepsOnce

\* A step that goes somewhere else and leaves the rest of the task alone.
LEMMA WentTo ==
    ASSUME GInv, NEW r \in Requests, NEW to, Goto(r, to)
    PROVE  /\ \A s \in Requests \ {r} : task'[s] = task[s]
           /\ task' = [task EXCEPT ![r] = [task[r] EXCEPT !.pc = to]]
           /\ pc(r)' = to /\ task'[r].attempts = task[r].attempts
<1>1. task \in [Requests -> Task] /\ task[r] \in Task
  BY DEF GInv, TypeOK
<1>2. task' = [task EXCEPT ![r] = [task[r] EXCEPT !.pc = to]]
  BY <1>1 DEF Goto
<1> QED
  BY <1>1, <1>2 DEF pc, Task

\* An answer of the handler's own, with its record.
LEMMA RespondStepsOnce ==
    ASSUME GInv, NEW r \in Requests, NEW status, NEW key, Respond(r, status, key),
           pc(r) \notin Responding
    PROVE  StepsOnce(r)
<1>1. /\ \A s \in Requests \ {r} : task'[s] = task[s]
      /\ pc(r)' \in Responding
  BY WentTo DEF Respond, Responding
<1>2. OnlyOf(r)
  BY DEF GInv, TypeOK, Respond, OnlyOf
<1> QED
  BY <1>1, <1>2 DEF StepsOnce

\* The steps up to the attempts.
LEMMA EarlyStands ==
    ASSUME GInv, NEW r \in Requests,
           \/ healthz(r) \/ readyz(r) \/ Unrouted(r) \/ Lookup(r) \/ Arrive(r)
           \/ acquire(r) \/ Admitted(r) \/ GiveUp(r) \/ Revalidate(r)
           \/ snapshot_and_request(r) \/ ReserveBody(r) \/ ReadBody(r) \/ BodyTimeout(r)
           \/ Disconnect(r)
    PROVE  StepsOnce(r)
<1>1. pc(r) \notin Responding
  BY DEF healthz, readyz, Probed, Unrouted, Lookup, Arrive, acquire, Admitted, GiveUp,
         Revalidate, snapshot_and_request, ReserveBody, ReadBody, BodyTimeout, Disconnect,
         Awaits, Precommit, Responding, Pumping
<1>2. CASE \E status, key : Respond(r, status, key)
  BY <1>1, <1>2, RespondStepsOnce
<1>3. CASE (\E to : Goto(r, to)) /\ UNCHANGED <<seen, audit>>
  BY <1>1, <1>3, WentTo, MuteStep
<1>4. CASE healthz(r) \/ readyz(r)
  <2>1. PICK status : Probed(r, status)
    BY <1>4 DEF healthz, readyz
  <2>2. OnlyOf(r)
    BY <2>1 DEF Probed, OnlyOf, GInv, TypeOK
  <2>3. /\ \A s \in Requests \ {r} : task'[s] = task[s]
        /\ pc(r)' \in Responding
    BY <2>1, WentTo DEF Probed, Responding
  <2> QED
    BY <1>1, <2>2, <2>3 DEF StepsOnce
<1>5. CASE Unrouted(r) \/ Lookup(r) \/ GiveUp(r) \/ BodyTimeout(r)
  BY <1>2, <1>5 DEF Unrouted, Lookup, GiveUp, BodyTimeout, RespondAndRelease
<1>6. CASE Arrive(r) \/ acquire(r) \/ Revalidate(r) \/ ReadBody(r)
  BY <1>2, <1>3, <1>6 DEF Arrive, acquire, Revalidate, ReadBody, RespondAndRelease
<1>7. CASE \/ Admitted(r) \/ snapshot_and_request(r) \/ ReserveBody(r) \/ Disconnect(r)
  BY <1>3, <1>7 DEF Admitted, snapshot_and_request, ReserveBody, Disconnect
<1> QED
  BY <1>4, <1>5, <1>6, <1>7

\* The attempt loop.
LEMMA LoopStands ==
    ASSUME GInv, NEW r \in Requests,
           \/ Selected(r) \/ Unavailable(r) \/ Exhausted(r)
           \/ ResponseHead(r) \/ HeaderTimeout(r) \/ ErrorBody(r) \/ ErrorBodyTimeout(r)
           \/ CommitAtOnce(r) \/ CommitFirstEvent(r) \/ PrefetchFails(r)
           \/ FirstEventTimeout(r) \/ DropBody(r)
    PROVE  StepsOnce(r)
<1>1. pc(r) \in {"next", "final"} \cup Trying /\ UNCHANGED <<seen, audit>>
  BY DEF Selected, Unavailable, Exhausted, Break, ResponseHead, HeaderTimeout, ErrorBody,
         ErrorBodyTimeout, CommitAtOnce, CommitFirstEvent, PrefetchFails, FirstEventTimeout,
         AttemptFailed, Commit, DropBody, Trying
<1>2. pc(r) \notin Responding
  BY <1>1 DEF Responding, Pumping, Trying
<1>3. \A s \in Requests \ {r} : task'[s] = task[s]
  <2>1. task \in [Requests -> Task]
    BY DEF GInv, TypeOK
  <2>2. CASE Selected(r) \/ Unavailable(r) \/ Exhausted(r)
    BY <2>1, <2>2 DEF Selected, Unavailable, Exhausted, Break
  <2>3. CASE ResponseHead(r) \/ HeaderTimeout(r) \/ PrefetchFails(r) \/ FirstEventTimeout(r)
    BY <2>1, <2>3 DEF ResponseHead, HeaderTimeout, PrefetchFails, FirstEventTimeout, AttemptFailed
  <2>4. CASE ErrorBody(r) \/ ErrorBodyTimeout(r)
    BY <2>1, <2>4 DEF ErrorBody, ErrorBodyTimeout
  <2>5. CASE CommitAtOnce(r) \/ CommitFirstEvent(r) \/ DropBody(r)
    BY <2>1, <2>5 DEF CommitAtOnce, CommitFirstEvent, Commit, DropBody, Goto
  <2> QED
    BY <2>2, <2>3, <2>4, <2>5
<1> QED
  BY <1>1, <1>2, <1>3, Quiet DEF StepsOnce

\* The response is returned, or refused.
LEMMA ReturnStands ==
    ASSUME GInv, NEW r \in Requests,
           Refuse(r) \/ finalize_consumed_error(r) \/ finalize_response(r)
    PROVE  StepsOnce(r)
<1>1. pc(r) \notin Responding
  BY DEF Refuse, finalize_consumed_error, finalize_response, Responding, Pumping
<1>2. CASE \E status, key : RespondAndRelease(r, status, key)
  BY <1>1, <1>2, RespondStepsOnce DEF RespondAndRelease
<1>3. CASE \E to \in Pumping : Forward(r, to)
  <2>1. PICK to \in Pumping : Forward(r, to)
    BY <1>3
  <2>2. /\ \A s \in Requests \ {r} : task'[s] = task[s]
        /\ pc(r)' \in Responding
    BY <2>1, WentTo DEF Forward, Responding
  <2>3. OnlyOf(r)
    BY <2>1 DEF Forward, OnlyOf, GInv, TypeOK
  <2> QED
    BY <1>1, <2>2, <2>3 DEF StepsOnce
<1> QED
  BY <1>2, <1>3 DEF Refuse, finalize_consumed_error, finalize_response, Pumping

\* The pump.
LEMMA PumpStands ==
    ASSUME GInv, NEW r \in Requests,
           \/ Chunk(r) \/ Sent(r) \/ UpstreamEnds(r) \/ UpstreamStalls(r)
           \/ WriteTimeout(r) \/ Cancelled(r)
    PROVE  StepsOnce(r)
<1>1. pc(r) \in Pumping /\ seen' = seen /\ task \in [Requests -> Task] /\ task[r] \in Task
  BY DEF GInv, TypeOK, Chunk, Sent, UpstreamEnds, UpstreamStalls, WriteTimeout, Cancelled,
         PumpEnds, Pumping
<1>2. CASE Chunk(r) \/ Sent(r)
  <2>1. PICK to \in Pumping : Goto(r, to)
    BY <1>2 DEF Chunk, Sent, Pumping
  <2>2. OnlyOf(r)
    BY <1>2, Quiet DEF Chunk, Sent
  <2>3. /\ \A s \in Requests \ {r} : task'[s] = task[s]
        /\ pc(r)' \in Responding /\ task'[r].attempts = task[r].attempts
    BY <2>1, WentTo DEF Responding
  <2> QED
    BY <1>1, <2>2, <2>3 DEF StepsOnce
<1>3. ASSUME NEW outcome, PumpEnds(r, outcome) PROVE StepsOnce(r)
  <2> DEFINE s == Report(r, PumpVerdict[outcome])
  <2>1. Len(s) = Len(task[r].attempts)
    <3>1. task[r].attempts \in Seq(AttemptSummary)
      BY <1>1 DEF Task
    <3>2. \A o \in Seq(AttemptSummary) : \A i, v : Len([o EXCEPT ![i].verdict = v]) = Len(o)
      BY SMTT(30)
    <3> QED
      BY <3>1, <3>2 DEF Report, Attempts
  <2> HIDE DEF s
  <2>2. /\ task' = [task EXCEPT ![r] = [task[r] EXCEPT !.pc = "over", !.attempts = s]]
        /\ \A q \in Requests \ {r} : audit'[q] = audit[q]
    <3>1. /\ task' = [task EXCEPT ![r].pc = "over", ![r].attempts = s]
          /\ audit' = [audit EXCEPT ![r] = Append(@, PumpRecord(r, outcome, s))]
          /\ audit \in [Requests -> Seq(AuditRecord)]
      BY <1>3 DEF PumpEnds, s, GInv, TypeOK
    <3> QED
      BY <1>1, <3>1
  <2>3. /\ \A q \in Requests \ {r} : task'[q] = task[q]
        /\ task'[r].pc = "over" /\ task'[r].attempts = s
    BY <1>1, <2>2 DEF Task
  <2> QED
    BY <1>1, <2>1, <2>2, <2>3 DEF StepsOnce, OnlyOf, Responding, pc
<1> QED
  BY <1>2, <1>3 DEF UpstreamEnds, UpstreamStalls, WriteTimeout, Cancelled

\* Every step lets every answer stand.
LEMMA StandsStep == GInv /\ Silent /\ [Next]_vars => AnswerStands /\ Silent'
<1> SUFFICES ASSUME GInv, Silent, [Next]_vars PROVE AnswerStands /\ Silent'
  OBVIOUS
<1>1. CASE UNCHANGED <<task, seen, audit>>
  BY <1>1 DEF AnswerStands, Silent, pc
<1>2. ASSUME NEW r \in Requests, StepsOnce(r) PROVE AnswerStands /\ Silent'
  BY <1>2, StepsOnceStands
<1>3. ASSUME NEW r \in Requests, Handler(r) PROVE StepsOnce(r)
  BY <1>3, EarlyStands, LoopStands, ReturnStands DEF Handler
<1>4. ASSUME NEW r \in Requests, External(r) PROVE StepsOnce(r) \/ DropBodyStream(r)
  BY <1>4, EarlyStands, LoopStands, PumpStands DEF External
<1>5. ASSUME NEW r \in Requests, UpstreamStalls(r) \/ WriteTimeout(r) \/ Cancelled(r)
      PROVE  StepsOnce(r)
  BY <1>5, PumpStands
<1>6. CASE Reload \/ Close \/ UNCHANGED vars \/ \E r \in Requests : DropBodyStream(r)
  <2>1. task' = task /\ seen' = seen /\ audit' = audit
    BY <1>6 DEF Reload, Close, vars, state, DropBodyStream
  <2> QED
    BY <1>1, <2>1
<1> QED
  BY <1>2, <1>3, <1>4, <1>5, <1>6 DEF Next

-----------------------------------------------------------------------------
\* From here on sets are counted.
INSTANCE FiniteSetTheorems

(***************************************************************************)
(* The resources, the gateway key and the audit record.                    *)
(***************************************************************************)
\* The invariant contains what is claimed.
LEMMA GInvImplies == GInv => ResourcesHeld /\ AuditTellsAnswer /\ WithdrawnKeyRefused
<1> SUFFICES ASSUME GInv PROVE ResourcesHeld /\ AuditTellsAnswer /\ WithdrawnKeyRefused
  OBVIOUS
<1>1. active \subseteq Requests /\ bodies \subseteq Requests /\ streams \subseteq Requests
  BY DEF GInv, TypeOK
<1>2. /\ At(HoldsPermit) \subseteq active /\ active \subseteq At(HoldsPermit \cup {"queued"})
      /\ bodies = At(HoldsBody)
      /\ streams = {r \in At(Pumping) : task[r].streaming}
  BY <1>1 DEF GInv, Place, At
<1>3. AuditTellsAnswer
  BY DEF GInv, Place, AuditTellsAnswer
<1>4. WithdrawnKeyRefused
  BY DEF GInv, Place, WithdrawnKeyRefused, At
<1> QED
  BY <1>2, <1>3, <1>4 DEF GInv, Limits, ResourcesHeld

\* Admission's own Cardinality is the one used here.
LEMMA SameCardinality == \A S : Q!Cardinality(S) = Cardinality(S)
BY DEF Q!Cardinality, Cardinality

\* Requests that are counted are finitely many.
LEMMA FiniteFacts ==
    ASSUME NEW S, S \subseteq Requests
    PROVE  IsFiniteSet(S) /\ Cardinality(S) \in Nat
BY GatewayAssumption, FS_Subset, FS_CardinalityType

\* One request more is at most one more in the count.
LEMMA AddedCount ==
    ASSUME NEW S, S \subseteq Requests, NEW r, NEW n \in Nat, Cardinality(S) < n
    PROVE  Cardinality(S \cup {r}) <= n
<1>1. IsFiniteSet(S) /\ Cardinality(S) \in Nat
  BY FiniteFacts
<1>2. CASE r \in S
  <2>1. S \cup {r} = S
    BY <1>2
  <2> QED
    BY <1>1, <2>1, SMTT(30)
<1>3. CASE r \notin S
  <2>1. Cardinality(S \cup {r}) = Cardinality(S) + 1
    BY <1>1, <1>3, FS_AddElement
  <2> QED
    BY <1>1, <2>1, SMTT(30)
<1> QED
  BY <1>2, <1>3

\* One request fewer is not more in the count.
LEMMA RemovedCount ==
    ASSUME NEW S, S \subseteq Requests, NEW r, NEW n \in Nat, Cardinality(S) <= n
    PROVE  /\ Cardinality(S \ {r}) <= n
           /\ r \in S => Cardinality(S \ {r}) < n
<1>1. IsFiniteSet(S) /\ Cardinality(S) \in Nat
  BY FiniteFacts
<1>2. CASE r \notin S
  <2>1. S \ {r} = S
    BY <1>2
  <2> QED
    BY <1>1, <1>2, <2>1
<1>3. CASE r \in S
  <2>1. Cardinality(S \ {r}) = Cardinality(S) - 1
    BY <1>1, <1>3, FS_RemoveElement
  <2> QED
    BY <1>1, <2>1, SMTT(30)
<1> QED
  BY <1>2, <1>3

\* A quarter of the concurrency is a number.
LEMMA StreamsType == MaxStreams \in Nat
BY GatewayAssumption, SMTT(30) DEF MaxStreams

\* The initial state.
LEMMA GInit == Init => GInv
<1> SUFFICES ASSUME Init PROVE GInv
  OBVIOUS
<1>1. active = {} /\ waiting = <<>> /\ closed = FALSE
  BY DEF Init, Q!Init
<1>2. Cardinality({}) = 0
  BY FS_EmptySet
<1>3. NewTask \in Task
  BY SMTT(30) DEF NewTask, Task, PCs, NoAnswer, Answer
<1>4. TypeOK
  BY <1>1, <1>3, GatewayAssumption, SMTT(30) DEF Init, TypeOK
<1>5. Limits
  BY <1>1, <1>2, StreamsType, GatewayAssumption, SMTT(30) DEF Init, Limits
<1>6. Lined
  BY <1>1, SMTT(30) DEF Lined
<1>7. ASSUME NEW r \in Requests PROVE Place(r)
  BY <1>1 DEF Init, NewTask, Place, pc, Attempts, HoldsPermit, HoldsBody, Pumping,
              Trying, Served
<1> QED
  BY <1>4, <1>5, <1>6, <1>7 DEF GInv

-----------------------------------------------------------------------------
(***************************************************************************)
(* The admission queue.                                                    *)
(***************************************************************************)
\* A step of r's leaves the queue in order: whoever else has a permit keeps it,
\* and only somebody who waits in line is handed one.
InOrder(r) ==
    /\ active' \subseteq Requests /\ waiting' \in Seq(Requests) /\ closed' \in BOOLEAN
    /\ Cardinality(active') <= MaxConcurrency
    /\ \A s \in Requests \ {r} : s \in active => s \in active'
    /\ \A s \in Requests \ {r} : s \in active' => s \in active \/ pc(s) = "queued"
    /\ \A i, j \in 1..Len(waiting') : waiting'[i] = waiting'[j] => i = j
    /\ \A i \in 1..Len(waiting') : waiting'[i] \notin active'
    /\ \A i \in 1..Len(waiting') : waiting'[i] = r \/ task[waiting'[i]].pc = "queued"
    /\ closed' => waiting' = <<>>

OutOfLine(r) == \A i \in 1..Len(waiting') : waiting'[i] # r

\* Nobody who does not wait is in line.
LEMMA NotInLine ==
    ASSUME GInv, NEW r \in Requests, pc(r) # "queued"
    PROVE  \A i \in 1..Len(waiting) : waiting[i] # r
BY DEF GInv, Lined

\* A step that leaves admission alone.
LEMMA QueueUnchanged ==
    ASSUME GInv, NEW r \in Requests, UNCHANGED queue
    PROVE  /\ InOrder(r)
           /\ r \in active' <=> r \in active
           /\ pc(r) # "queued" => OutOfLine(r)
<1>1. active' = active /\ waiting' = waiting /\ closed' = closed
  BY DEF queue
<1>2. pc(r) # "queued" => OutOfLine(r)
  BY <1>1, NotInLine DEF OutOfLine
<1> QED
  BY <1>1, <1>2 DEF GInv, TypeOK, Lined, Limits, InOrder, pc

\* One request is admitted.
LEMMA AdmitEffect ==
    ASSUME GInv, NEW r \in Requests, pc(r) # "queued", Q!Admit(r)
    PROVE  InOrder(r) /\ r \in active' /\ OutOfLine(r)
<1>1. active' = active \cup {r} /\ waiting' = waiting /\ waiting = <<>> /\ closed' = closed
  BY DEF Q!Admit
<1>2. Cardinality(active) < MaxConcurrency
  BY SameCardinality DEF Q!Admit
<1>3. active \subseteq Requests /\ closed \in BOOLEAN
  BY DEF GInv, TypeOK
<1>4. Cardinality(active') <= MaxConcurrency
  BY <1>1, <1>2, <1>3, AddedCount, GatewayAssumption
<1> QED
  BY <1>1, <1>3, <1>4, SMTT(30) DEF InOrder, OutOfLine

\* One joins the line.
LEMMA JoinEffect ==
    ASSUME GInv, NEW r \in Requests, pc(r) # "queued", Q!Join(r)
    PROVE  InOrder(r) /\ r \notin active'
<1>1. /\ active' = active /\ waiting' = Append(waiting, r) /\ closed' = closed
      /\ r \notin active
  BY DEF Q!Join
<1>2. /\ active \subseteq Requests /\ closed \in BOOLEAN /\ waiting \in Seq(Requests)
      /\ Cardinality(active) <= MaxConcurrency
  BY DEF GInv, TypeOK, Limits
<1>3. /\ waiting' \in Seq(Requests) /\ Len(waiting') = Len(waiting) + 1
      /\ \A i \in 1..Len(waiting) : waiting'[i] = waiting[i]
      /\ waiting'[Len(waiting) + 1] = r
  BY <1>1, <1>2, SMTT(30)
<1>4. Len(waiting) \in Nat /\ \A i \in 1..Len(waiting) : waiting[i] # r
  BY <1>2, NotInLine, SMTT(30)
<1>5. \A i, j \in 1..Len(waiting') : waiting'[i] = waiting'[j] => i = j
  BY <1>3, <1>4, SMTT(30) DEF GInv, Lined
<1>6. \A i \in 1..Len(waiting') : /\ waiting'[i] \notin active
                                  /\ waiting'[i] = r \/ task[waiting'[i]].pc = "queued"
  BY <1>1, <1>3, <1>4, SMTT(30) DEF GInv, Lined, pc
<1>7. waiting' \in Seq(Requests) /\ Cardinality(active') <= MaxConcurrency
  BY <1>1, <1>2, <1>3
<1>8. active' = active /\ closed' = closed /\ r \notin active /\ ~closed
  BY <1>1 DEF Q!Join
<1> QED
  BY <1>2, <1>5, <1>6, <1>7, <1>8 DEF InOrder

\* A permit goes to the head of the line, or is free.
LEMMA ReleaseEffect ==
    ASSUME GInv, NEW r \in Requests, Q!Release(r)
    PROVE  InOrder(r) /\ r \notin active' /\ OutOfLine(r)
<1>1. r \in active /\ closed' = closed
  BY DEF Q!Release
<1>2. /\ active \subseteq Requests /\ closed \in BOOLEAN /\ waiting \in Seq(Requests)
      /\ Cardinality(active) <= MaxConcurrency /\ MaxConcurrency \in Nat
  BY GatewayAssumption DEF GInv, TypeOK, Limits
<1>3. Cardinality(active \ {r}) < MaxConcurrency
  BY <1>1, <1>2, RemovedCount
<1>4. \A i \in 1..Len(waiting) : waiting[i] # r
  BY <1>1 DEF GInv, Lined
<1>5. CASE waiting = <<>>
  <2>1. active' = active \ {r} /\ waiting' = waiting
    BY <1>5 DEF Q!Release
  <2>2. Cardinality(active') <= MaxConcurrency
    BY <1>2, <2>1, RemovedCount
  <2> QED
    BY <1>1, <1>2, <1>5, <2>1, <2>2, SMTT(30) DEF InOrder, OutOfLine
<1>6. CASE waiting # <<>>
  <2> DEFINE h == Head(waiting)
  <2>1. active' = (active \ {r}) \cup {h} /\ waiting' = Tail(waiting)
    BY <1>6 DEF Q!Release
  <2>2. /\ Len(waiting) \in Nat /\ 1 \in 1..Len(waiting) /\ h = waiting[1]
        /\ waiting' \in Seq(Requests) /\ Len(waiting') = Len(waiting) - 1
        /\ \A i \in 1..Len(waiting') : i + 1 \in 1..Len(waiting) /\ waiting'[i] = waiting[i + 1]
    BY <1>2, <1>6, <2>1, SMTT(30)
  <2>3. h \in Requests /\ h # r /\ pc(h) = "queued"
    BY <1>2, <1>4, <2>2, SMTT(30) DEF GInv, Lined
  <2> HIDE DEF h
  <2>4. Cardinality(active') <= MaxConcurrency
    <3>1. active \ {r} \subseteq Requests
      BY <1>2
    <3> QED
      BY <1>2, <1>3, <2>1, <3>1, AddedCount
  <2>5. \A i, j \in 1..Len(waiting') : waiting'[i] = waiting'[j] => i = j
    <3>1. \A i, j \in 1..Len(waiting) : waiting[i] = waiting[j] => i = j
      BY DEF GInv, Lined
    <3> QED
      BY <2>2, <3>1, SMTT(30)
  <2>6. \A i \in 1..Len(waiting') : /\ waiting'[i] \notin active'
                                    /\ waiting'[i] # r /\ task[waiting'[i]].pc = "queued"
    <3> SUFFICES ASSUME NEW i \in 1..Len(waiting')
                 PROVE  /\ waiting'[i] \notin active'
                        /\ waiting'[i] # r /\ task[waiting'[i]].pc = "queued"
      OBVIOUS
    <3>1. i + 1 \in 1..Len(waiting) /\ waiting'[i] = waiting[i + 1] /\ i + 1 # 1
      BY <2>2, SMTT(30)
    <3>2. waiting[i + 1] # h
      BY <2>2, <3>1 DEF GInv, Lined
    <3> QED
      BY <1>4, <2>1, <3>1, <3>2 DEF GInv, Lined, pc
  <2>7. ~closed
    BY <1>6 DEF GInv, Lined
  <2> QED
    BY <1>1, <1>2, <2>1, <2>2, <2>3, <2>4, <2>5, <2>6, <2>7 DEF InOrder, OutOfLine
<1> QED
  BY <1>5, <1>6

\* A request that leaves the line closes the gap.
LEMMA LeaveEffect ==
    ASSUME GInv, NEW r \in Requests, Q!Leave(r)
    PROVE  InOrder(r) /\ r \notin active' /\ OutOfLine(r)
<1>1. PICK i \in 1..Len(waiting) :
        /\ waiting[i] = r
        /\ waiting' = SubSeq(waiting, 1, i - 1) \o SubSeq(waiting, i + 1, Len(waiting))
  BY DEF Q!Leave
<1>2. active' = active /\ closed' = closed
  BY DEF Q!Leave
<1>3. /\ active \subseteq Requests /\ closed \in BOOLEAN /\ waiting \in Seq(Requests)
      /\ Cardinality(active) <= MaxConcurrency
  BY DEF GInv, TypeOK, Limits
<1> DEFINE a == SubSeq(waiting, 1, i - 1)
           b == SubSeq(waiting, i + 1, Len(waiting))
<1>4. a \in Seq(Requests) /\ Len(a) = i - 1 /\ \A j \in 1..(i - 1) : a[j] = waiting[j]
  BY <1>3, SMTT(30)
<1>5. /\ b \in Seq(Requests) /\ Len(b) = Len(waiting) - i
      /\ \A j \in 1..(Len(waiting) - i) : b[j] = waiting[i + j]
  BY <1>3, SMTT(30)
<1>6. waiting' = a \o b
  BY <1>1
<1> HIDE DEF a, b
<1>7. waiting' \in Seq(Requests) /\ Len(waiting') = Len(a) + Len(b)
  <2>1. a \in Seq(Requests) /\ b \in Seq(Requests)
    BY <1>4, <1>5
  <2> QED
    BY <1>6, <2>1, SMTT(30)
<1>8. Len(waiting) \in Nat /\ Len(waiting') = Len(waiting) - 1
  <2>1. Len(waiting) \in Nat
    BY <1>3, SMTT(30)
  <2> QED
    BY <1>4, <1>5, <1>7, <2>1, SMTT(30)
<1>9. ASSUME NEW j \in 1..Len(waiting')
      PROVE  \E n \in 1..Len(waiting) :
               /\ n = IF j < i THEN j ELSE j + 1
               /\ n # i /\ waiting'[j] = waiting[n]
  <2>1. waiting'[j] = IF j < i THEN a[j] ELSE b[j - (i - 1)]
    BY <1>4, <1>5, <1>6, <1>8, SMTT(30)
  <2>2. CASE j < i
    BY <1>4, <1>8, <2>1, <2>2, SMTT(30)
  <2>3. CASE ~(j < i)
    <3>1. j - (i - 1) \in 1..(Len(waiting) - i) /\ i + (j - (i - 1)) = j + 1
      BY <1>8, <2>3, SMTT(30)
    <3> QED
      BY <1>5, <1>8, <2>1, <2>3, <3>1, SMTT(30)
  <2> QED
    BY <2>2, <2>3
<1>10. \A m, n \in 1..Len(waiting) : waiting[m] = waiting[n] => m = n
  BY DEF GInv, Lined
<1>11. \A m, n \in 1..Len(waiting') : waiting'[m] = waiting'[n] => m = n
  BY <1>8, <1>9, <1>10, SMTT(30)
<1>12. \A j \in 1..Len(waiting') : waiting'[j] \notin active
                                  /\ waiting'[j] # r /\ task[waiting'[j]].pc = "queued"
  <2> SUFFICES ASSUME NEW j \in 1..Len(waiting')
               PROVE  /\ waiting'[j] \notin active
                      /\ waiting'[j] # r /\ task[waiting'[j]].pc = "queued"
    OBVIOUS
  <2>1. PICK n \in 1..Len(waiting) : n # i /\ waiting'[j] = waiting[n]
    BY <1>9
  <2>2. waiting[n] \notin active /\ task[waiting[n]].pc = "queued" /\ waiting[n] # waiting[i]
    BY <1>10, <2>1 DEF GInv, Lined, pc
  <2> QED
    BY <1>1, <2>1, <2>2
<1>13. r \notin active /\ ~closed
  <2>1. waiting # <<>>
    BY <1>1, SMTT(30)
  <2> QED
    BY <1>1, <2>1 DEF GInv, Lined
<1> QED
  BY <1>2, <1>3, <1>7, <1>11, <1>12, <1>13 DEF InOrder, OutOfLine

-----------------------------------------------------------------------------
(***************************************************************************)
(* From one request to all.                                                *)
(***************************************************************************)
\* Besides the queue, a step of r's touches nothing of the others.
Alone(r) ==
    \A s \in Requests \ {r} :
        /\ task'[s] = task[s] /\ seen'[s] = seen[s] /\ audit'[s] = audit[s]
        /\ s \in bodies' <=> s \in bodies
        /\ s \in streams' <=> s \in streams

\* Then the invariant follows from what holds of r.
LEMMA Together ==
    ASSUME GInv, NEW r \in Requests, TypeOK', Alone(r), InOrder(r), Place(r)',
           vouched \subseteq vouched',
           OutOfLine(r) \/ pc(r)' = "queued",
           Cardinality(bodies') <= MaxBodies, Cardinality(streams') <= MaxStreams
    PROVE  GInv'
<1>1. ASSUME NEW s \in Requests \ {r} PROVE Place(s)'
  <2>1. /\ task'[s] = task[s] /\ seen'[s] = seen[s] /\ audit'[s] = audit[s]
        /\ s \in bodies' <=> s \in bodies
        /\ s \in streams' <=> s \in streams
        /\ s \in active => s \in active'
        /\ s \in active' => s \in active \/ pc(s) = "queued"
    BY DEF Alone, InOrder
  <2>2. pc(s)' = pc(s) /\ Attempts(s)' = Attempts(s)
    BY <2>1 DEF pc, Attempts
  <2>3. Place(s)
    BY DEF GInv
  <2> QED
    BY <2>1, <2>2, <2>3 DEF Place
<1>2. Lined'
  <2>1. ASSUME NEW i \in 1..Len(waiting') PROVE task'[waiting'[i]].pc = "queued"
    <3>1. waiting'[i] \in Requests
      BY SMTT(30) DEF InOrder
    <3>2. CASE waiting'[i] = r
      BY <3>2 DEF OutOfLine, pc
    <3>3. CASE waiting'[i] # r
      BY <3>1, <3>3 DEF InOrder, Alone
    <3> QED
      BY <3>2, <3>3
  <2> QED
    BY <2>1 DEF Lined, InOrder, pc
<1>3. Limits'
  BY DEF Limits, InOrder
<1> QED
  BY <1>1, <1>2, <1>3 DEF GInv

-----------------------------------------------------------------------------
(***************************************************************************)
(* The kinds of steps.                                                     *)
(***************************************************************************)
\* A step brings r to t and leaves the queue in order; r holds what it should.
LEMMA MoveStep ==
    ASSUME GInv, Vouch, NEW r \in Requests, NEW t \in Task,
           NEW status \in Statuses \cup {"none"},
           task' = [task EXCEPT ![r] = t], seen' = [seen EXCEPT ![r] = status],
           UNCHANGED <<Others, audit>>,
           pc(r) # "over", t.pc # "over",
           InOrder(r), OutOfLine(r) \/ t.pc = "queued",
           t.pc \in HoldsPermit => r \in active',
           r \in active' => t.pc \in HoldsPermit \cup {"queued"},
           bodies' = IF t.pc \in HoldsBody THEN bodies \cup {r} ELSE bodies \ {r},
           streams' = IF t.pc \in Pumping /\ t.streaming THEN streams \cup {r}
                      ELSE streams \ {r},
           Cardinality(bodies') <= MaxBodies, Cardinality(streams') <= MaxStreams,
           t.pc \in Trying => t.attempts # <<>>,
           t.pc \in Pumping => status = "u200",
           t.pc \in Served => r \in vouched'
    PROVE  GInv'
<1>1. /\ task \in [Requests -> Task] /\ bodies \subseteq Requests /\ streams \subseteq Requests
      /\ vouched \subseteq Requests /\ seen \in [Requests -> Statuses \cup {"none"}]
  BY DEF GInv, TypeOK
<1>2. task' \in [Requests -> Task] /\ task'[r] = t /\ \A s \in Requests \ {r} : task'[s] = task[s]
  BY <1>1
<1>3. /\ seen' \in [Requests -> Statuses \cup {"none"}] /\ seen'[r] = status
      /\ \A s \in Requests \ {r} : seen'[s] = seen[s]
  BY <1>1
<1>4. vouched \subseteq vouched' /\ vouched' \subseteq Requests
  BY <1>1 DEF Vouch, InOrder
<1>5. TypeOK'
  <2>1. /\ generation' \in 0..MaxGeneration /\ gone' \subseteq Requests
        /\ audit' \in [Requests -> Seq(AuditRecord)]
    BY DEF GInv, TypeOK, Others
  <2>2. active' \subseteq Requests /\ waiting' \in Seq(Requests) /\ closed' \in BOOLEAN
    BY DEF InOrder
  <2>3. bodies' \subseteq Requests /\ streams' \subseteq Requests
    BY <1>1
  <2> QED
    BY <1>2, <1>3, <1>4, <2>1, <2>2, <2>3 DEF TypeOK
<1>6. Alone(r)
  BY <1>2, <1>3 DEF Alone
<1>7. audit'[r] = <<>>
  BY DEF GInv, Place
<1>8. Place(r)'
  BY <1>2, <1>3, <1>7 DEF Place, pc, Attempts
<1>9. OutOfLine(r) \/ pc(r)' = "queued"
  BY <1>2 DEF pc
<1> QED
  BY <1>4, <1>5, <1>6, <1>8, <1>9, Together

\* The same for a step that takes nothing and gives nothing back.
LEMMA QuietStep ==
    ASSUME GInv, Vouch, NEW r \in Requests, NEW t \in Task,
           task' = [task EXCEPT ![r] = t], UNCHANGED <<Shared, Others, seen, audit>>,
           pc(r) \notin {"over", "queued"}, t.pc \notin {"over", "queued"},
           pc(r) \in HoldsPermit <=> t.pc \in HoldsPermit,
           pc(r) \in HoldsBody <=> t.pc \in HoldsBody,
           pc(r) \in Pumping <=> t.pc \in Pumping,
           t.pc \in Pumping => t.streaming = task[r].streaming,
           t.pc \in Trying => t.attempts # <<>>,
           t.pc \in Served => pc(r) \in Served \/ r \in vouched'
    PROVE  GInv'
<1>1. UNCHANGED queue /\ bodies' = bodies /\ streams' = streams
  BY DEF Shared
<1>2. InOrder(r) /\ (r \in active' <=> r \in active) /\ OutOfLine(r)
  BY <1>1, QueueUnchanged
<1>3. Place(r)
  BY DEF GInv
<1>4. /\ t.pc \in HoldsPermit => r \in active'
      /\ r \in active' => t.pc \in HoldsPermit \cup {"queued"}
  BY <1>2, <1>3 DEF Place
<1>5. /\ bodies' = IF t.pc \in HoldsBody THEN bodies \cup {r} ELSE bodies \ {r}
      /\ streams' = IF t.pc \in Pumping /\ t.streaming THEN streams \cup {r}
                    ELSE streams \ {r}
  BY <1>1, <1>3 DEF Place
<1>6. Cardinality(bodies') <= MaxBodies /\ Cardinality(streams') <= MaxStreams
  BY <1>1 DEF GInv, Limits
<1>7. /\ t.pc \in Pumping => seen[r] = "u200"
      /\ t.pc \in Served => r \in vouched'
  BY <1>3 DEF Place, Vouch
<1>8. seen[r] \in Statuses \cup {"none"} /\ seen' = [seen EXCEPT ![r] = seen[r]]
  BY DEF GInv, TypeOK
<1> QED
  BY <1>2, <1>4, <1>5, <1>6, <1>7, <1>8, MoveStep DEF Shared

\* A request is over: it has its record, and holds nothing any more.
LEMMA EndStep ==
    ASSUME GInv, Vouch, NEW r \in Requests, NEW t \in Task, NEW record \in AuditRecord,
           task' = [task EXCEPT ![r] = t], seen' = [seen EXCEPT ![r] = record.status],
           audit' = [audit EXCEPT ![r] = Append(@, record)], UNCHANGED Others,
           pc(r) # "over", t.pc = "over",
           record.outcome # "none" <=> record.status = "u200",
           InOrder(r), OutOfLine(r), r \notin active',
           bodies' = bodies \ {r}, streams' = streams \ {r}
    PROVE  GInv'
<1>1. /\ task \in [Requests -> Task] /\ bodies \subseteq Requests /\ streams \subseteq Requests
      /\ vouched \subseteq Requests /\ seen \in [Requests -> Statuses \cup {"none"}]
      /\ audit \in [Requests -> Seq(AuditRecord)]
  BY DEF GInv, TypeOK
<1>2. task' \in [Requests -> Task] /\ task'[r] = t /\ \A s \in Requests \ {r} : task'[s] = task[s]
  BY <1>1
<1>3. audit[r] = <<>> /\ record.status \in Statuses
  BY DEF GInv, Place, AuditRecord
<1>4. /\ seen' \in [Requests -> Statuses \cup {"none"}] /\ seen'[r] = record.status
      /\ \A s \in Requests \ {r} : seen'[s] = seen[s]
  BY <1>1, <1>3
<1>5. /\ audit' \in [Requests -> Seq(AuditRecord)] /\ audit'[r] = <<record>>
      /\ \A s \in Requests \ {r} : audit'[s] = audit[s]
  BY <1>1, <1>3, SMTT(30)
<1>6. vouched \subseteq vouched' /\ vouched' \subseteq Requests
  BY <1>1 DEF Vouch, InOrder
<1>7. TypeOK'
  BY <1>1, <1>2, <1>4, <1>5, <1>6 DEF GInv, TypeOK, Others, InOrder
<1>8. Alone(r)
  BY <1>2, <1>4, <1>5 DEF Alone
<1>9. Place(r)'
  <2>1. pc(r)' = "over"
    BY <1>2 DEF pc
  <2>2. Len(audit'[r]) = 1 /\ audit'[r][1] = record
    BY <1>5, SMTT(30)
  <2> QED
    BY <1>4, <2>1, <2>2 DEF Place, HoldsPermit, HoldsBody, Pumping, Trying, Served
<1>10. Cardinality(bodies') <= MaxBodies /\ Cardinality(streams') <= MaxStreams
  BY <1>1, RemovedCount, StreamsType, GatewayAssumption DEF GInv, Limits
<1> QED
  BY <1>6, <1>7, <1>8, <1>9, <1>10, Together

\* A task that only goes to another place.
LEMMA GotoFacts ==
    ASSUME TypeOK, NEW r \in Requests, NEW to \in PCs, Goto(r, to)
    PROVE  \E t \in Task : /\ task' = [task EXCEPT ![r] = t] /\ t.pc = to
                           /\ t.attempts = task[r].attempts
                           /\ t.streaming = task[r].streaming
<1> DEFINE t == [task[r] EXCEPT !.pc = to]
<1>1. t \in Task /\ t.pc = to /\ t.attempts = task[r].attempts
        /\ t.streaming = task[r].streaming
  BY ZenonT(30), SMTT(30) DEF TypeOK, Task
<1>2. task' = [task EXCEPT ![r] = t]
  BY DEF Goto
<1> QED
  BY <1>1, <1>2

\* record_audit and the return of a response that is not streamed.
LEMMA RespondStep ==
    ASSUME GInv, Vouch, NEW r \in Requests, pc(r) # "over", pc(r) \notin Pumping,
           NEW status \in Statuses \ {"u200"}, NEW key \in Keys \cup {NoKey},
           Respond(r, status, key), InOrder(r), OutOfLine(r), r \notin active',
           bodies' = bodies \ {r}, streams' = streams
    PROVE  GInv'
<1>0. TypeOK /\ "over" \in PCs
  BY DEF GInv, PCs
<1>1. PICK t \in Task : task' = [task EXCEPT ![r] = t] /\ t.pc = "over"
  BY <1>0, GotoFacts, SMTT(30) DEF Respond
<1> DEFINE record == Record(status, key, "none", Attempts(r))
<1>2. /\ record \in AuditRecord /\ record.status = status
      /\ record.outcome # "none" <=> record.status = "u200"
  <2>1. Attempts(r) \in Seq(AttemptSummary)
    BY <1>0 DEF TypeOK, Attempts, Task
  <2> QED
    BY <2>1 DEF Record, AuditRecord, Outcomes
<1>3. /\ seen' = [seen EXCEPT ![r] = record.status]
      /\ audit' = [audit EXCEPT ![r] = Append(@, record)] /\ UNCHANGED Others
  BY <1>2 DEF Respond
<1>4. streams' = streams \ {r}
  BY DEF GInv, Place
<1> HIDE DEF record
<1> QED
  BY <1>1, <1>2, <1>3, <1>4, EndStep

\* The same from a place where the request holds no permit.
LEMMA RefuseStep ==
    ASSUME GInv, Vouch, NEW r \in Requests, pc(r) \in {"new", "acquire"},
           NEW status \in Statuses \ {"u200"}, Respond(r, status, NoKey), UNCHANGED Shared
    PROVE  GInv'
<1>1. UNCHANGED queue /\ bodies' = bodies /\ streams' = streams
  BY DEF Shared
<1>2. r \notin active /\ r \notin bodies /\ pc(r) \notin Pumping
  BY DEF GInv, Place, HoldsPermit, HoldsBody, Pumping
<1>3. InOrder(r) /\ r \notin active' /\ OutOfLine(r)
  BY <1>1, <1>2, QueueUnchanged
<1>4. bodies' = bodies \ {r}
  BY <1>1, <1>2
<1> QED
  BY <1>1, <1>2, <1>3, <1>4, RespondStep

\* The same with a permit, and perhaps a body.
LEMMA ReleaseStep ==
    ASSUME GInv, Vouch, NEW r \in Requests, pc(r) # "over", pc(r) \notin Pumping,
           NEW status \in Statuses \ {"u200"}, NEW key \in Keys \cup {NoKey},
           RespondAndRelease(r, status, key)
    PROVE  GInv'
<1>1. InOrder(r) /\ r \notin active' /\ OutOfLine(r)
  BY ReleaseEffect DEF RespondAndRelease
<1> QED
  BY <1>1, RespondStep DEF RespondAndRelease

-----------------------------------------------------------------------------
(***************************************************************************)
(* The actions.                                                            *)
(***************************************************************************)
\* The routes that wait for nothing, and the first authentication.
LEMMA ArriveStep ==
    ASSUME GInv, Vouch, NEW r \in Requests,
           healthz(r) \/ readyz(r) \/ Unrouted(r) \/ Lookup(r) \/ Arrive(r)
    PROVE  GInv'
<1>0. TypeOK /\ pc(r) = "new"
  BY DEF GInv, healthz, readyz, Probed, Unrouted, Lookup, Arrive
<1>1. ASSUME NEW status \in Statuses, Probed(r, status) PROVE GInv'
  <2>1. PICK t \in Task : task' = [task EXCEPT ![r] = t] /\ t.pc = "probed"
    BY <1>0, <1>1, GotoFacts, SMTT(30) DEF Probed, PCs
  <2>2. UNCHANGED queue /\ bodies' = bodies /\ streams' = streams
    BY <1>1 DEF Probed, Shared
  <2>3. r \notin active /\ r \notin bodies /\ r \notin streams
    BY <1>0 DEF GInv, Place, HoldsPermit, HoldsBody, Pumping
  <2>4. InOrder(r) /\ r \notin active' /\ OutOfLine(r)
    BY <1>0, <2>2, <2>3, QueueUnchanged
  <2>5. Cardinality(bodies') <= MaxBodies /\ Cardinality(streams') <= MaxStreams
    BY <2>2 DEF GInv, Limits
  <2>6. t.pc \notin HoldsPermit \cup HoldsBody \cup Pumping \cup Trying \cup Served
    BY <2>1 DEF HoldsPermit, HoldsBody, Pumping, Trying, Served
  <2> QED
    BY <1>0, <1>1, <2>1, <2>2, <2>3, <2>4, <2>5, <2>6, MoveStep, ZenonT(30), SMTT(30) DEF Probed
<1>2. CASE healthz(r) \/ readyz(r)
  BY <1>1, <1>2 DEF healthz, readyz, Statuses, Local
<1>3. CASE Unrouted(r) \/ Lookup(r)
  BY <1>0, <1>3, RefuseStep DEF Unrouted, Lookup, Statuses, Local
<1>4. CASE Arrive(r)
  <2>1. CASE Respond(r, "unauthorized", NoKey)
    BY <1>0, <1>4, <2>1, RefuseStep DEF Arrive, Statuses, Local
  <2>2. CASE Goto(r, "acquire") /\ UNCHANGED <<seen, audit, Others>>
    <3>1. PICK t \in Task : task' = [task EXCEPT ![r] = t] /\ t.pc = "acquire"
      BY <1>0, <2>2, GotoFacts, SMTT(30) DEF PCs
    <3>2. /\ {pc(r), t.pc} \cap {"over", "queued"} = {}
          /\ {pc(r), t.pc} \cap (HoldsPermit \cup HoldsBody \cup Pumping \cup Trying \cup Served)
               = {}
      BY <1>0, <3>1 DEF HoldsPermit, HoldsBody, Pumping, Trying, Served
    <3> QED
      BY <1>4, <2>2, <3>1, <3>2, QuietStep DEF Arrive
  <2> QED
    BY <1>4, <2>1, <2>2 DEF Arrive
<1> QED
  BY <1>2, <1>3, <1>4

\* queue.acquire and the wait in line.
LEMMA AcquireStep ==
    ASSUME GInv, Vouch, NEW r \in Requests, acquire(r) \/ Admitted(r) \/ GiveUp(r)
    PROVE  GInv'
<1>0. TypeOK
  BY DEF GInv
<1>1. pc(r) \in {"acquire", "queued"} /\ bodies' = bodies /\ streams' = streams
  BY DEF acquire, Admitted, GiveUp, Shared
<1>2. r \notin bodies /\ r \notin streams /\ pc(r) # "over" /\ pc(r) \notin Pumping
  BY <1>1 DEF GInv, Place, HoldsBody, Pumping
<1>3. Cardinality(bodies') <= MaxBodies /\ Cardinality(streams') <= MaxStreams
  BY <1>1 DEF GInv, Limits
<1>4. ASSUME NEW to \in {"admitted", "queued"}, Goto(r, to),
             UNCHANGED <<seen, audit, Others>>, InOrder(r),
             OutOfLine(r) \/ to = "queued", to = "admitted" => r \in active'
      PROVE  GInv'
  <2>1. PICK t \in Task : task' = [task EXCEPT ![r] = t] /\ t.pc = to
    BY <1>0, <1>4, GotoFacts, SMTT(30) DEF PCs, Precommit
  <2>2. /\ t.pc \notin HoldsBody \cup Pumping \cup Trying \cup Served
        /\ t.pc \in HoldsPermit \cup {"queued"}
        /\ t.pc \in HoldsPermit => r \in active'
    BY <1>4, <2>1 DEF HoldsPermit, HoldsBody, Pumping, Trying, Served
  <2>3. seen[r] \in Statuses \cup {"none"} /\ seen' = [seen EXCEPT ![r] = seen[r]]
    BY <1>0, <1>4 DEF TypeOK
  <2>4. /\ bodies' = IF t.pc \in HoldsBody THEN bodies \cup {r} ELSE bodies \ {r}
        /\ streams' = IF t.pc \in Pumping /\ t.streaming THEN streams \cup {r}
                      ELSE streams \ {r}
    BY <1>1, <1>2, <2>2
  <2>5. /\ UNCHANGED <<Others, audit>> /\ t.pc # "over"
        /\ OutOfLine(r) \/ t.pc = "queued"
        /\ t.pc \notin Trying /\ t.pc \notin Pumping /\ t.pc \notin Served
    BY <1>4, <2>1, <2>2
  <2> QED
    BY <1>2, <1>3, <1>4, <2>1, <2>2, <2>3, <2>4, <2>5, MoveStep, ZenonT(30), SMTT(30)
<1>5. ASSUME Respond(r, "service_unavailable", NoKey), InOrder(r), r \notin active', OutOfLine(r)
      PROVE  GInv'
  BY <1>1, <1>2, <1>5, RespondStep DEF Statuses, Local
<1>6. CASE acquire(r)
  <2>1. pc(r) = "acquire"
    BY <1>6 DEF acquire
  <2>2. CASE Q!Admit(r) /\ Goto(r, "admitted") /\ UNCHANGED <<seen, audit, Others>>
    BY <1>4, <2>1, <2>2, AdmitEffect
  <2>3. CASE Q!Join(r) /\ Goto(r, "queued") /\ UNCHANGED <<seen, audit, Others>>
    BY <1>4, <2>1, <2>3, JoinEffect
  <2>4. CASE Respond(r, "service_unavailable", NoKey) /\ UNCHANGED queue
    BY <1>1, <2>1, <2>4, RefuseStep DEF Shared, Statuses, Local
  <2> QED
    BY <1>6, <2>2, <2>3, <2>4 DEF acquire
<1>7. CASE Admitted(r)
  <2>1. /\ r \in active /\ UNCHANGED queue /\ Goto(r, "admitted")
        /\ UNCHANGED <<seen, audit, Others>>
    BY <1>7 DEF Admitted, Shared
  <2>2. OutOfLine(r)
    BY <2>1 DEF OutOfLine, GInv, Lined, queue
  <2> QED
    BY <1>4, <2>1, <2>2, QueueUnchanged
<1>8. CASE GiveUp(r)
  <2>1. Respond(r, "service_unavailable", NoKey)
    BY <1>8 DEF GiveUp
  <2>2. CASE Q!Release(r)
    BY <1>5, <2>1, <2>2, ReleaseEffect
  <2>3. CASE Q!Leave(r)
    BY <1>5, <2>1, <2>3, LeaveEffect
  <2>4. CASE r \notin active /\ closed /\ UNCHANGED queue
    <3>1. waiting' = <<>>
      BY <2>4 DEF GInv, Lined, queue
    <3>2. OutOfLine(r)
      BY <3>1, SMTT(30) DEF OutOfLine
    <3> QED
      BY <1>5, <2>1, <2>4, <3>2, QueueUnchanged
  <2> QED
    BY <1>8, <2>2, <2>3, <2>4 DEF GiveUp
<1> QED
  BY <1>6, <1>7, <1>8

\* The second authentication, with the permit in hand, and the snapshot.
LEMMA RevalidateStep ==
    ASSUME GInv, Vouch, NEW r \in Requests, Revalidate(r) \/ snapshot_and_request(r)
    PROVE  GInv'
<1>0. TypeOK /\ pc(r) \in {"admitted", "snapshot"}
  BY DEF GInv, Revalidate, snapshot_and_request
<1>1. pc(r) # "over" /\ pc(r) \notin Pumping /\ r \in active
  BY <1>0 DEF Pumping, GInv, Place, HoldsPermit
<1>2. CASE RespondAndRelease(r, "unauthorized", NoKey)
  BY <1>1, <1>2, ReleaseStep DEF Statuses, Local
<1>3. ASSUME NEW to \in {"snapshot", "budget"}, Goto(r, to),
             UNCHANGED <<Shared, Others, seen, audit>>,
             pc(r) = "snapshot" \/ Accepted(r)
      PROVE  GInv'
  <2>1. PICK t \in Task : task' = [task EXCEPT ![r] = t] /\ t.pc = to
    BY <1>0, <1>3, GotoFacts, SMTT(30) DEF PCs, Precommit
  <2>2. /\ {pc(r), t.pc} \cap ({"over", "queued"} \cup HoldsBody \cup Pumping \cup Trying) = {}
        /\ {pc(r), t.pc} \subseteq HoldsPermit
        /\ pc(r) = "snapshot" => pc(r) \in Served
    BY <1>0, <1>3, <2>1 DEF HoldsPermit, HoldsBody, Pumping, Trying, Served
  <2>3. Accepted(r) => r \in vouched'
    BY <1>1, <1>3 DEF Accepted, Vouch, Shared, queue, Others
  <2> QED
    BY <1>3, <2>1, <2>2, <2>3, QuietStep
<1> QED
  BY <1>2, <1>3 DEF Revalidate, snapshot_and_request

\* The body budget, the body, and the drop of the body.
LEMMA BodyStep ==
    ASSUME GInv, Vouch, NEW r \in Requests,
           ReserveBody(r) \/ ReadBody(r) \/ BodyTimeout(r) \/ DropBody(r)
    PROVE  GInv'
<1>0. TypeOK /\ pc(r) \in {"budget", "reading", "final"}
  BY DEF GInv, ReserveBody, ReadBody, BodyTimeout, DropBody
<1>1. /\ pc(r) # "over" /\ pc(r) # "queued" /\ pc(r) \notin Pumping
      /\ r \in active /\ r \in vouched /\ r \notin streams
  BY <1>0 DEF Pumping, GInv, Place, HoldsPermit, HoldsBody, Served
<1>2. CASE \E status \in {"service_unavailable"} \cup read_limited \cup extract_model :
              RespondAndRelease(r, status, NoKey)
  BY <1>1, <1>2, ReleaseStep DEF read_limited, extract_model, Statuses, Local
<1>3. CASE ReadBody(r) /\ Goto(r, "next") /\ UNCHANGED <<Shared, Others, seen, audit>>
  <2>1. PICK t \in Task : task' = [task EXCEPT ![r] = t] /\ t.pc = "next"
    BY <1>0, <1>3, GotoFacts, SMTT(30) DEF PCs, Precommit
  <2>2. pc(r) = "reading"
    BY <1>3 DEF ReadBody
  <2>3. /\ {pc(r), t.pc} \cap ({"over", "queued"} \cup Pumping \cup Trying) = {}
        /\ {pc(r), t.pc} \subseteq HoldsPermit \cap HoldsBody \cap Served
    BY <2>1, <2>2 DEF HoldsPermit, HoldsBody, Pumping, Trying, Served
  <2> QED
    BY <1>3, <2>1, <2>3, QuietStep
<1>4. CASE ReserveBody(r) \/ DropBody(r)
  <2>1. /\ UNCHANGED <<queue, streams, Others, seen, audit>>
        /\ \/ Goto(r, "reading") /\ bodies' = bodies \cup {r} /\ Cardinality(bodies) < MaxBodies
           \/ Goto(r, "respond") /\ bodies' = bodies \ {r}
    BY <1>4 DEF ReserveBody, DropBody
  <2>2. PICK t \in Task :
          /\ task' = [task EXCEPT ![r] = t]
          /\ \/ t.pc = "reading" /\ bodies' = bodies \cup {r} /\ Cardinality(bodies) < MaxBodies
             \/ t.pc = "respond" /\ bodies' = bodies \ {r}
    BY <1>0, <2>1, GotoFacts, SMTT(30) DEF PCs, Precommit
  <2>3. bodies \subseteq Requests /\ Cardinality(bodies) <= MaxBodies
          /\ Cardinality(streams) <= MaxStreams /\ MaxBodies \in Nat
    BY GatewayAssumption DEF GInv, TypeOK, Limits
  <2>4. Cardinality(bodies') <= MaxBodies
    BY <2>2, <2>3, AddedCount, RemovedCount
  <2>5. /\ t.pc \in HoldsPermit /\ t.pc \notin {"over", "queued"} \cup Pumping \cup Trying
        /\ bodies' = IF t.pc \in HoldsBody THEN bodies \cup {r} ELSE bodies \ {r}
    BY <2>2 DEF HoldsPermit, HoldsBody, Pumping, Trying
  <2>6. InOrder(r) /\ r \in active' /\ OutOfLine(r) /\ r \in vouched'
    BY <1>1, <2>1, QueueUnchanged DEF Vouch
  <2>7. seen[r] \in Statuses \cup {"none"} /\ seen' = [seen EXCEPT ![r] = seen[r]]
    BY <1>0, <2>1 DEF TypeOK
  <2> QED
    BY <1>1, <2>1, <2>2, <2>3, <2>4, <2>5, <2>6, <2>7, MoveStep
<1> QED
  BY <1>2, <1>3, <1>4 DEF ReadBody, BodyTimeout

\* The attempt loop keeps permit and body.
LEMMA LoopMove ==
    ASSUME GInv, Vouch, NEW r \in Requests, NEW t \in Task,
           task' = [task EXCEPT ![r] = t], UNCHANGED <<Shared, Others, seen, audit>>,
           pc(r) \in {"next"} \cup Trying, t.pc \in {"next", "final"} \cup Trying,
           t.pc \in Trying => t.attempts # <<>>
    PROVE  GInv'
<1>1. /\ {pc(r), t.pc} \cap ({"over", "queued"} \cup Pumping) = {}
      /\ {pc(r), t.pc} \subseteq HoldsPermit \cap HoldsBody \cap Served
  BY DEF HoldsPermit, HoldsBody, Pumping, Trying, Served
<1> QED
  BY <1>1, QuietStep

\* A change of the last attempt leaves a list of attempts, an empty one empty.
LEMMA LastAttempt ==
    ASSUME NEW s \in Seq(AttemptSummary), NEW v \in Verdicts, NEW k \in Keys \cup {NoKey}
    PROVE  /\ [s EXCEPT ![Len(s)].verdict = v] \in Seq(AttemptSummary)
           /\ [s EXCEPT ![Len(s)].committed = TRUE] \in Seq(AttemptSummary)
           /\ Targeted(s, k) \in Seq(AttemptSummary)
<1>1. CASE s = <<>>
  <2>1. ASSUME NEW b PROVE [s EXCEPT ![Len(s)] = b] = s
    BY <1>1, SMTT(30)
  <2> QED
    BY <1>1, <2>1 DEF Targeted
<1>2. CASE s # <<>>
  <2> DEFINE a == s[Len(s)]
  <2>1. Len(s) \in 1..Len(s) /\ a \in AttemptSummary
    BY <1>2, LastOfSome
  <2>2. /\ [a EXCEPT !.verdict = v] \in AttemptSummary
        /\ [a EXCEPT !.committed = TRUE] \in AttemptSummary
        /\ [a EXCEPT !.failover_target = k] \in AttemptSummary
    BY <2>1 DEF AttemptSummary
  <2>3. ASSUME NEW b \in AttemptSummary
        PROVE  [s EXCEPT ![Len(s)] = b] \in Seq(AttemptSummary)
    BY <2>1, ExceptFacts
  <2> QED
    BY <1>2, <2>2, <2>3 DEF Targeted
<1> QED
  BY <1>1, <1>2

\* next(): a key is selected, or the loop is left with an answer.
LEMMA NextStep ==
    ASSUME GInv, Vouch, NEW r \in Requests, Selected(r) \/ Unavailable(r) \/ Exhausted(r)
    PROVE  GInv'
<1>0. /\ pc(r) = "next" /\ task \in [Requests -> Task] /\ task[r] \in Task
      /\ UNCHANGED <<Shared, Others, seen, audit>>
  BY DEF GInv, TypeOK, Selected, Unavailable, Exhausted, Break
<1>1. CASE Selected(r)
  <2>1. PICK k \in Keys :
          task' = [task EXCEPT
                     ![r].pc = "sent",
                     ![r].attempts = Append(Targeted(@, k),
                         [key |-> k, verdict |-> "none", committed |-> FALSE,
                          failover_target |-> NoKey])]
    BY <1>1 DEF Selected
  <2> DEFINE a == [key |-> k, verdict |-> "none", committed |-> FALSE, failover_target |-> NoKey]
             s == Append(Targeted(task[r].attempts, k), a)
             t == [task[r] EXCEPT !.pc = "sent", !.attempts = s]
  <2>2. a \in AttemptSummary
    BY DEF AttemptSummary, Verdicts
  <2>3. Targeted(task[r].attempts, k) \in Seq(AttemptSummary)
    BY <1>0, LastAttempt DEF Task, Verdicts
  <2>4. s \in Seq(AttemptSummary) /\ s # <<>>
    <3>1. PICK q \in Seq(AttemptSummary) : q = Targeted(task[r].attempts, k)
      BY <2>3
    <3>2. PICK e \in AttemptSummary : e = a
      BY <2>2
    <3>3. Append(q, e) \in Seq(AttemptSummary) /\ Append(q, e) # <<>>
      BY AppendFacts, ZenonT(30), SMTT(30)
    <3> QED
      BY <3>1, <3>2, <3>3
  <2>5. task' = [task EXCEPT ![r] = t]
    BY <1>0, <2>1
  <2> HIDE DEF s
  <2>6. t \in Task /\ t.pc = "sent" /\ t.attempts # <<>>
    BY <1>0, <2>4 DEF Task, PCs, Precommit
  <2> HIDE DEF t
  <2> QED
    BY <1>0, <2>5, <2>6, LoopMove DEF Trying
<1>2. ASSUME NEW answer \in Answer, Break(r, answer)
      PROVE  GInv'
  <2> DEFINE t == [task[r] EXCEPT !.pc = "final", !.answer = answer]
  <2>1. task' = [task EXCEPT ![r] = t]
    BY <1>0, <1>2 DEF Break
  <2>2. t \in Task /\ t.pc = "final"
    BY <1>0 DEF Task, PCs
  <2> HIDE DEF t
  <2> QED
    BY <1>0, <2>1, <2>2, LoopMove DEF Trying
<1>3. /\ task[r].last_response \in Answer
      /\ [status |-> "keys_unavailable", key |-> NoKey] \in Answer
      /\ [status |-> "service_unavailable", key |-> NoKey] \in Answer
  BY <1>0 DEF Task, Answer, Statuses, Local
<1> QED
  BY <1>1, <1>2, <1>3 DEF Unavailable, Exhausted

\* A failed attempt: the last summary says how, and the loop goes on.
LEMMA FailedStep ==
    ASSUME GInv, Vouch, NEW r \in Requests, NEW v \in Verdicts, pc(r) \in Trying,
           NEW t, t.pc = "next", t.attempts = Report(r, v),
           t \in [pc: {"next"}, attempts: {Report(r, v)},
                  status: Statuses \cup {"none"}, streaming: BOOLEAN,
                  last_response: Answer, answer: Answer],
           task' = [task EXCEPT ![r] = t], UNCHANGED <<Shared, Others, seen, audit>>
    PROVE  GInv'
<1>1. task[r].attempts \in Seq(AttemptSummary)
  BY DEF GInv, TypeOK, Task
<1>2. Report(r, v) \in Seq(AttemptSummary)
  BY <1>1, LastAttempt DEF Report, Attempts, Current
<1>3. t \in Task
  BY <1>2 DEF Task, PCs, Precommit
<1> QED
  BY <1>3, LoopMove DEF Trying

\* An attempt, from the request to the first event or the end of an error body.
LEMMA AttemptStep ==
    ASSUME GInv, Vouch, NEW r \in Requests,
           \/ ResponseHead(r) \/ HeaderTimeout(r) \/ ErrorBody(r) \/ ErrorBodyTimeout(r)
           \/ CommitAtOnce(r) \/ CommitFirstEvent(r) \/ PrefetchFails(r) \/ FirstEventTimeout(r)
    PROVE  GInv'
<1>0. /\ pc(r) \in Trying /\ task \in [Requests -> Task] /\ task[r] \in Task
      /\ UNCHANGED <<Shared, Others, seen, audit>>
  BY
     DEF GInv, TypeOK, ResponseHead, HeaderTimeout, ErrorBody, ErrorBodyTimeout, CommitAtOnce,
         CommitFirstEvent, PrefetchFails, FirstEventTimeout, AttemptFailed, Commit, Trying
<1>1. task[r].attempts \in Seq(AttemptSummary) /\ task[r].attempts # <<>>
  BY <1>0 DEF GInv, Place, Attempts, Task
<1>2. Attempts(r)[Current(r)].key \in Keys
  <2>1. PICK s \in Seq(AttemptSummary) : s = task[r].attempts /\ s # <<>>
    BY <1>1
  <2>2. s[Len(s)] \in AttemptSummary
    BY <2>1, LastOfSome
  <2>3. s[Len(s)].key \in Keys
    BY <2>2 DEF AttemptSummary
  <2> QED
    BY <2>1, <2>3 DEF Attempts, Current
<1>3. ASSUME NEW v \in Verdicts, AttemptFailed(r, v) PROVE GInv'
  <2> DEFINE t == [task[r] EXCEPT !.pc = "next", !.attempts = Report(r, v)]
  <2>1. task' = [task EXCEPT ![r] = t]
    BY <1>0, <1>3 DEF AttemptFailed
  <2>2. /\ t.pc = "next" /\ t.attempts = Report(r, v)
        /\ t \in [pc: {"next"}, attempts: {Report(r, v)},
                  status: Statuses \cup {"none"}, streaming: BOOLEAN,
                  last_response: Answer, answer: Answer]
    BY <1>0 DEF Task
  <2> HIDE DEF t
  <2> QED
    BY <1>0, <2>1, <2>2, FailedStep
<1>4. CASE \E status \in Retryable :
              task' = [task EXCEPT ![r].pc = "errbody", ![r].status = status]
  <2>1. PICK status \in Retryable :
              task' = [task EXCEPT ![r].pc = "errbody", ![r].status = status]
    BY <1>4
  <2> DEFINE t == [task[r] EXCEPT !.pc = "errbody", !.status = status]
  <2>2. task' = [task EXCEPT ![r] = t]
    BY <1>0, <2>1
  <2>3. t \in Task /\ t.pc = "errbody" /\ t.attempts = task[r].attempts
    BY <1>0 DEF Task, PCs, Precommit, Statuses
  <2> HIDE DEF t
  <2> QED
    BY <1>0, <1>1, <2>2, <2>3, LoopMove DEF Trying
<1>5. CASE \E streaming \in BOOLEAN :
              task' = [task EXCEPT ![r].pc = "prefetch", ![r].streaming = streaming]
  <2>1. PICK streaming \in BOOLEAN :
              task' = [task EXCEPT ![r].pc = "prefetch", ![r].streaming = streaming]
    BY <1>5
  <2> DEFINE t == [task[r] EXCEPT !.pc = "prefetch", !.streaming = streaming]
  <2>2. task' = [task EXCEPT ![r] = t]
    BY <1>0, <2>1
  <2>3. t \in Task /\ t.pc = "prefetch" /\ t.attempts = task[r].attempts
    BY <1>0 DEF Task, PCs, Precommit
  <2> HIDE DEF t
  <2> QED
    BY <1>0, <1>1, <2>2, <2>3, LoopMove DEF Trying
<1>6. \A status, complete : VerdictsFor(status, complete) \subseteq Verdicts
  BY DEF VerdictsFor, classify_429, Verdicts
<1>7. ASSUME NEW v \in Verdicts, NEW last \in Answer,
             task' = [task EXCEPT ![r].pc = "next", ![r].status = "none",
                                  ![r].attempts = Report(r, v), ![r].last_response = last]
      PROVE  GInv'
  <2> DEFINE t == [task[r] EXCEPT !.pc = "next", !.status = "none",
                                  !.attempts = Report(r, v), !.last_response = last]
  <2>1. task' = [task EXCEPT ![r] = t]
    BY <1>0, <1>7
  <2>2. /\ t.pc = "next" /\ t.attempts = Report(r, v)
        /\ t \in [pc: {"next"}, attempts: {Report(r, v)},
                  status: Statuses \cup {"none"}, streaming: BOOLEAN,
                  last_response: Answer, answer: Answer]
    BY <1>0 DEF Task
  <2> HIDE DEF t
  <2> QED
    BY <1>0, <2>1, <2>2, FailedStep
<1>8. ASSUME NEW v \in Verdicts,
             task' = [task EXCEPT ![r].pc = "next", ![r].status = "none",
                                  ![r].attempts = Report(r, v)]
      PROVE  GInv'
  <2>1. task[r].last_response \in Answer
    BY <1>0 DEF Task
  <2>2. task' = [task EXCEPT ![r].pc = "next", ![r].status = "none",
                             ![r].attempts = Report(r, v),
                             ![r].last_response = task[r].last_response]
    BY <1>0, <1>8, ZenonT(30), SMTT(30) DEF Task
  <2> QED
    BY <1>7, <2>1, <2>2
<1>9. CASE ErrorBody(r) \/ ErrorBodyTimeout(r)
  <2>1. [status |-> task[r].status, key |-> Attempts(r)[Current(r)].key] \in Answer
    BY <1>0, <1>2 DEF Task, Answer
  <2> QED
    BY <1>6, <1>7, <1>8, <1>9, <2>1 DEF ErrorBody, ErrorBodyTimeout
<1>10. CASE Commit(r)
  <2> DEFINE s == [task[r].attempts EXCEPT ![Len(task[r].attempts)].committed = TRUE]
             answer == [status |-> "u200", key |-> Attempts(r)[Current(r)].key]
             t == [task[r] EXCEPT !.pc = "final", !.attempts = s, !.answer = answer]
  <2>1. task' = [task EXCEPT ![r] = t]
    BY <1>0, <1>10 DEF Commit, Attempts, Current
  <2>2. s \in Seq(AttemptSummary) /\ answer \in Answer
    BY <1>1, <1>2, LastAttempt DEF Verdicts, Answer, Statuses
  <2> HIDE DEF s, answer
  <2>3. t \in Task /\ t.pc = "final"
    BY <1>0, <2>2 DEF Task, PCs
  <2> HIDE DEF t
  <2> QED
    BY <1>0, <2>1, <2>3, LoopMove DEF Trying
<1> QED
  BY <1>3, <1>4, <1>5, <1>9, <1>10
     DEF ResponseHead, HeaderTimeout, CommitAtOnce, CommitFirstEvent, PrefetchFails,
         FirstEventTimeout, Verdicts

\* The answer: the gateway's own, the saved error, or a response to be pumped.
LEMMA AnswerStep ==
    ASSUME GInv, Vouch, NEW r \in Requests,
           Refuse(r) \/ finalize_consumed_error(r) \/ finalize_response(r)
    PROVE  GInv'
<1>0. TypeOK /\ pc(r) = "respond" /\ task[r].answer \in Answer
  BY DEF GInv, TypeOK, Task, Refuse, finalize_consumed_error, finalize_response
<1>1. /\ pc(r) # "over" /\ pc(r) # "queued" /\ pc(r) \notin Pumping
      /\ r \in active /\ r \in vouched /\ r \notin streams /\ r \notin bodies
  BY <1>0 DEF Pumping, GInv, Place, HoldsPermit, HoldsBody, Served
<1>2. task[r].answer.key \in Keys \cup {NoKey}
  BY <1>0 DEF Answer
<1>3. CASE Refuse(r) \/ finalize_consumed_error(r)
  BY <1>1, <1>2, <1>3, ReleaseStep DEF Refuse, finalize_consumed_error, Statuses, Local, Retryable
<1>4. CASE RespondAndRelease(r, "service_unavailable", task[r].answer.key)
  BY <1>1, <1>2, <1>4, ReleaseStep DEF Statuses, Local
<1>5. ASSUME NEW to \in Pumping, Forward(r, to),
             streams' = IF task[r].streaming THEN streams \cup {r} ELSE streams,
             task[r].streaming => StreamSlotFree
      PROVE  GInv'
  <2>1. PICK t \in Task : /\ task' = [task EXCEPT ![r] = t] /\ t.pc = to
                          /\ t.streaming = task[r].streaming
    BY <1>0, <1>5, GotoFacts, SMTT(30) DEF Forward, PCs
  <2>2. UNCHANGED <<queue, bodies, Others, audit>> /\ seen' = [seen EXCEPT ![r] = "u200"]
    BY <1>5 DEF Forward
  <2>3. /\ t.pc \in HoldsPermit /\ t.pc \in Pumping
        /\ t.pc \notin HoldsBody \cup Trying \cup {"over", "queued"}
    BY <1>5, <2>1 DEF HoldsPermit, HoldsBody, Pumping, Trying
  <2>4. InOrder(r) /\ r \in active' /\ OutOfLine(r) /\ r \in vouched'
    BY <1>1, <2>2, QueueUnchanged DEF Vouch
  <2>5. Cardinality(bodies') <= MaxBodies /\ Cardinality(streams') <= MaxStreams
    BY <1>0, <1>5, <2>2, AddedCount, StreamsType
       DEF GInv, Limits, StreamSlotFree, TypeOK
  <2>6. /\ bodies' = bodies \ {r}
        /\ streams' = IF t.pc \in Pumping /\ t.streaming THEN streams \cup {r}
                      ELSE streams \ {r}
    BY <1>1, <1>5, <2>1, <2>2, <2>3
  <2>7. "u200" \in Statuses \cup {"none"}
    BY DEF Statuses
  <2> QED
    BY <1>1, <2>1, <2>2, <2>3, <2>4, <2>5, <2>6, <2>7, MoveStep
<1> QED
  BY <1>3, <1>4, <1>5 DEF finalize_response, Pumping

\* The pump: chunks, and the end of the task.
LEMMA PumpStep ==
    ASSUME GInv, Vouch, NEW r \in Requests,
           \/ Chunk(r) \/ Sent(r) \/ UpstreamEnds(r) \/ UpstreamStalls(r)
           \/ WriteTimeout(r) \/ Cancelled(r)
    PROVE  GInv'
<1>0. TypeOK /\ pc(r) \in Pumping /\ task[r] \in Task
  BY
     DEF GInv, TypeOK, Chunk, Sent, UpstreamEnds, UpstreamStalls, WriteTimeout, Cancelled, Pumping
<1>1. pc(r) # "over" /\ seen[r] = "u200" /\ r \notin bodies
  BY <1>0 DEF GInv, Place, Pumping, HoldsBody
<1>2. ASSUME NEW to \in Pumping, Goto(r, to), UNCHANGED <<Shared, Others, seen, audit>>
      PROVE  GInv'
  <2>1. PICK t \in Task : /\ task' = [task EXCEPT ![r] = t] /\ t.pc = to
                          /\ t.streaming = task[r].streaming
    BY <1>0, <1>2, GotoFacts DEF PCs
  <2>2. /\ {pc(r), t.pc} \cap ({"over", "queued"} \cup HoldsBody \cup Trying) = {}
        /\ {pc(r), t.pc} \subseteq HoldsPermit \cap Pumping \cap Served
    BY <1>0, <1>2, <2>1 DEF HoldsPermit, HoldsBody, Pumping, Trying, Served
  <2> QED
    BY <1>2, <2>1, <2>2, QuietStep
<1>3. ASSUME NEW outcome \in Outcomes \ {"none"}, PumpEnds(r, outcome)
      PROVE  GInv'
  <2> DEFINE attempts == Report(r, PumpVerdict[outcome])
             t == [task[r] EXCEPT !.pc = "over", !.attempts = attempts]
             record == PumpRecord(r, outcome, attempts)
  <2>1. attempts \in Seq(AttemptSummary)
    <3>1. task[r].attempts \in Seq(AttemptSummary)
      BY <1>0 DEF Task
    <3>2. PumpVerdict[outcome] \in Verdicts
      BY SMTT(30) DEF PumpVerdict, Outcomes, Verdicts
    <3> QED
      BY <3>1, <3>2, LastAttempt DEF Report, Attempts, Current
  <2>2. /\ task' = [task EXCEPT ![r] = t]
        /\ audit' = [audit EXCEPT ![r] = Append(@, record)]
        /\ streams' = streams \ {r} /\ Q!Release(r) /\ bodies' = bodies /\ UNCHANGED Others
        /\ seen' = seen
    BY <1>0, <1>3 DEF PumpEnds, TypeOK
  <2> HIDE DEF attempts
  <2>3. t \in Task /\ t.pc = "over"
    BY <1>0, <2>1 DEF Task, PCs
  <2>4. /\ record \in AuditRecord /\ record.status = "u200" /\ record.outcome # "none"
    <3>1. task[r].answer.key \in Keys \cup {NoKey}
      BY <1>0 DEF Task, Answer
    <3> QED
      BY <2>1, <3>1 DEF PumpRecord, Record, AuditRecord, Statuses
  <2>5. seen' = [seen EXCEPT ![r] = record.status] /\ bodies' = bodies \ {r}
    BY <1>0, <1>1, <2>2, <2>4 DEF TypeOK
  <2>6. InOrder(r) /\ r \notin active' /\ OutOfLine(r)
    BY <2>2, ReleaseEffect
  <2> HIDE DEF t, record
  <2> QED
    BY <1>1, <2>2, <2>3, <2>4, <2>5, <2>6, EndStep
<1>4. CASE Chunk(r) \/ Sent(r)
  BY <1>2, <1>4 DEF Chunk, Sent, Pumping
<1> QED
  BY <1>3, <1>4 DEF UpstreamEnds, UpstreamStalls, WriteTimeout, Cancelled, Outcomes

\* The client goes away before there is a response, or afterwards.
LEMMA ClientStep ==
    ASSUME GInv, Vouch, NEW r \in Requests, Disconnect(r) \/ DropBodyStream(r)
    PROVE  GInv'
<1>0. TypeOK
  BY DEF GInv
<1>1. CASE Disconnect(r)
  <2>1. PICK t \in Task : task' = [task EXCEPT ![r] = t] /\ t.pc = "dropped"
    BY <1>0, <1>1, GotoFacts, SMTT(30) DEF Disconnect, PCs
  <2>2. /\ pc(r) # "over" /\ pc(r) \notin Pumping
        /\ bodies' = bodies \ {r} /\ UNCHANGED <<streams, Others, seen, audit>>
    BY <1>1 DEF Disconnect, Awaits, Precommit, Pumping, Others
  <2>3. r \notin streams
    BY <2>2 DEF GInv, Place
  <2>4. InOrder(r) /\ r \notin active' /\ OutOfLine(r)
    <3>1. CASE Q!Release(r)
      BY <3>1, ReleaseEffect
    <3>2. CASE Q!Leave(r)
      BY <3>2, LeaveEffect
    <3>3. CASE r \notin active /\ ~Q!InLine(r) /\ UNCHANGED queue
      <4>1. OutOfLine(r)
        BY <3>3 DEF OutOfLine, Q!InLine, queue
      <4> QED
        BY <3>3, <4>1, QueueUnchanged
    <3> QED
      BY <1>1, <3>1, <3>2, <3>3 DEF Disconnect
  <2>5. Cardinality(bodies') <= MaxBodies /\ Cardinality(streams') <= MaxStreams
    BY <1>0, <2>2, RemovedCount, GatewayAssumption DEF GInv, Limits, TypeOK
  <2>6. t.pc \notin HoldsPermit \cup HoldsBody \cup Pumping \cup Trying \cup Served
    BY <2>1 DEF HoldsPermit, HoldsBody, Pumping, Trying, Served
  <2>7. seen[r] \in Statuses \cup {"none"} /\ seen' = [seen EXCEPT ![r] = seen[r]]
    BY <1>0, <2>2 DEF TypeOK
  <2> QED
    BY <2>1, <2>2, <2>3, <2>4, <2>5, <2>6, <2>7, MoveStep
<1>2. CASE DropBodyStream(r)
  <2>1. /\ UNCHANGED queue /\ bodies' = bodies /\ streams' = streams /\ generation' = generation
        /\ task' = task /\ seen' = seen /\ audit' = audit /\ gone' = gone \cup {r}
    BY <1>2 DEF DropBodyStream, Shared
  <2>2. InOrder(r) /\ (r \in active' <=> r \in active)
    BY <2>1, QueueUnchanged
  <2>3. pc(r) # "queued"
    BY <1>2 DEF DropBodyStream, Pumping
  <2>4. OutOfLine(r)
    BY <2>1, <2>3, QueueUnchanged
  <2>5. vouched \subseteq vouched' /\ vouched' \subseteq Requests
    BY <1>0, <2>2 DEF Vouch, InOrder, TypeOK
  <2>6. TypeOK' /\ Alone(r)
    BY <1>0, <2>1, <2>2, <2>5 DEF TypeOK, Alone, InOrder
  <2>7. Place(r)'
    <3>1. pc(r)' = pc(r) /\ Attempts(r)' = Attempts(r) /\ Place(r)
      BY <2>1 DEF pc, Attempts, GInv
    <3> QED
      BY <2>1, <2>2, <2>5, <3>1 DEF Place
  <2> QED
    BY <2>1, <2>2, <2>4, <2>5, <2>6, <2>7, Together DEF GInv, Limits
<1> QED
  BY <1>1, <1>2

\* A reload, the closing of admission, and no step at all.
LEMMA AroundStep ==
    ASSUME GInv, (Vouch /\ (Reload \/ Close)) \/ UNCHANGED vars
    PROVE  GInv'
<1>1. /\ bodies' = bodies /\ streams' = streams /\ task' = task /\ gone' = gone
      /\ seen' = seen /\ audit' = audit /\ active' = active
  BY DEF Reload, Close, Q!Close, Shared, queue, vars, state
<1>2. /\ generation' \in 0..MaxGeneration /\ closed' \in BOOLEAN
      /\ waiting' = waiting \/ waiting' = <<>>
      /\ closed' => waiting' = <<>>
  <2>1. /\ generation \in 0..MaxGeneration /\ closed \in BOOLEAN
        /\ closed => waiting = <<>>
    BY DEF GInv, TypeOK, Lined
  <2>2. CASE Reload
    BY <2>1, <2>2, GatewayAssumption, SMTT(30) DEF Reload, Shared, queue
  <2>3. CASE Close
    BY <2>1, <2>3 DEF Close, Q!Close
  <2>4. CASE UNCHANGED vars
    BY <2>1, <2>4 DEF vars, state
  <2> QED
    BY <2>2, <2>3, <2>4
<1>3. vouched \subseteq vouched' /\ vouched' \subseteq Requests
  BY <1>1 DEF Vouch, vars, GInv, TypeOK
<1>4. TypeOK'
  <2>1. waiting' \in Seq(Requests)
    <3>1. waiting \in Seq(Requests) /\ <<>> \in Seq(Requests)
      BY SMTT(30) DEF GInv, TypeOK
    <3> QED
      BY <1>2, <3>1
  <2> QED
    BY <1>1, <1>2, <1>3, <2>1 DEF GInv, TypeOK
<1>5. ASSUME NEW s \in Requests PROVE Place(s)'
  <2>1. pc(s)' = pc(s) /\ Attempts(s)' = Attempts(s) /\ Place(s)
    BY <1>1 DEF pc, Attempts, GInv
  <2> QED
    BY <1>1, <1>3, <2>1 DEF Place
<1>6. Lined'
  BY <1>1, <1>2, SMTT(30) DEF GInv, Lined, pc
<1>7. Limits'
  BY <1>1 DEF GInv, Limits
<1> QED
  BY <1>4, <1>5, <1>6, <1>7 DEF GInv

\* Every step preserves the invariant.
LEMMA GStep == GInv /\ [Next]_vars => GInv'
<1> SUFFICES ASSUME GInv, [Next]_vars PROVE GInv'
  OBVIOUS
<1>1. ASSUME NEW r \in Requests, Vouch, Handler(r) PROVE GInv'
  BY <1>1, AcquireStep, RevalidateStep, BodyStep, NextStep, AttemptStep, AnswerStep
     DEF Handler
<1>2. ASSUME NEW r \in Requests, Vouch, External(r) PROVE GInv'
  BY <1>2, ArriveStep, BodyStep, AttemptStep, PumpStep, ClientStep DEF External
<1>3. ASSUME NEW r \in Requests, Vouch, UpstreamStalls(r) \/ WriteTimeout(r) \/ Cancelled(r)
      PROVE  GInv'
  BY <1>3, PumpStep
<1> QED
  BY <1>1, <1>2, <1>3, AroundStep DEF Next

-----------------------------------------------------------------------------
\* For any number of requests and any limits, wherever a client leaves, an
\* upstream fails or a deadline expires: a request holds exactly the permit,
\* body bytes and stream slot of the place where it is, and the limits of
\* admission, body budget and streams hold (proxy_request, stream_response).
THEOREM ResourcesAlwaysHeld == Spec => []ResourcesHeld
<1>1. GInv => ResourcesHeld
  BY GInvImplies
<1> QED
  BY GInit, GStep, <1>1, PTL DEF Spec

\* Whatever the reloads and however long the line, nobody is served whose
\* gateway key was not valid while it held its permit (proxy_request's second
\* authentication).
THEOREM WithdrawnAlwaysRefused == Spec => []WithdrawnKeyRefused
<1>1. GInv => WithdrawnKeyRefused
  BY GInvImplies
<1> QED
  BY GInit, GStep, <1>1, PTL DEF Spec

\* Every request that ends with a response has one record, which agrees with
\* what the client was told; no other has one (record_audit, the pump's end).
THEOREM AuditAlwaysTells == Spec => []AuditTellsAnswer
<1>1. GInv => AuditTellsAnswer
  BY GInvImplies
<1> QED
  BY GInit, GStep, <1>1, PTL DEF Spec

\* For any keys and any number of requests: whoever has an upstream error saved
\* is answered with it or with a response of a later attempt, and its record
\* names the key the answer came from (the attempt loop of proxy_request,
\* finalize_consumed_error, the pump's end).
THEOREM SavedErrorAlwaysReturned == Spec => []SavedErrorReturned
<1>1. GInv /\ SInv => SavedErrorReturned
  BY SInvImplies
<1> QED
  BY GInit, GStep, SInit, SStep, <1>1, PTL DEF Spec

\* Every attempt of a request that is over was reported to the pool and names
\* the next, except a last one whose stream was cancelled or got no slot
\* (report_failure and report_success in proxy_request and stream_response).
THEOREM AttemptsAlwaysAccounted == Spec => []AttemptsAccounted
<1>1. GInv /\ SInv => AttemptsAccounted
  BY SInvImplies
<1> QED
  BY GInit, GStep, SInit, SStep, <1>1, PTL DEF Spec

\* For any keys and any number of requests: the status a client was told is
\* never replaced, no other key is tried after it, and a record once written is
\* neither changed nor doubled (proxy_request, finalize_response, the pump).
THEOREM AnswersStand == Spec => [][AnswerStands]_vars
<1>1. Init => Silent
  BY SMTT(30) DEF Init, Silent
<1>2. GInv /\ Silent /\ [Next]_vars => Silent' /\ [AnswerStands]_vars
  BY StandsStep
<1> QED
  BY GInit, GStep, <1>1, <1>2, PTL DEF Spec
=============================================================================
