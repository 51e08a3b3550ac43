--------------------------- MODULE KeyPoolProofs ----------------------------
(***************************************************************************)
(* KeyPool for every number of keys, models, requests and usage            *)
(* observations, every policy that PoolPolicy::validate accepts and every  *)
(* length of time: type correctness and what each kind of step may do, the *)
(* safety invariants, what a step may never do, the bound on attempts.     *)
(***************************************************************************)
EXTENDS KeyPool, TLAPS

\* Most leaves are first-order: Zenon proves them.  The others name SMT.
USE ZenonT(30)

-----------------------------------------------------------------------------
(***************************************************************************)
(* Facts about the helpers.                                                *)
(***************************************************************************)

\* A remainder is smaller than the divisor: what the cursor arithmetic rests on.
LEMMA ModBound == \A a \in Nat : \A n \in Nat \ {0} : a % n \in 0..(n - 1)
  BY SMTT(30)

\* A deadline is a natural number, not earlier than the instant it starts from
\* and at most MAX_COOLDOWN later (deadline_after).
LEMMA DeadlineAfter ==
  ASSUME NEW t \in Nat, NEW c \in Nat
  PROVE  /\ deadline_after(t, c) \in Nat
         /\ deadline_after(t, c) >= t
         /\ deadline_after(t, c) <= t + MaxCooldown
         /\ c > 0 => deadline_after(t, c) > t
  BY PolicyAssumption, SMTT(30) DEF deadline_after, Min2

\* In every well-typed state the key list is a non-empty list of keys and the
\* cursor arithmetic stays inside it.
LEMMA OrderFacts ==
  ASSUME TypeOK
  PROVE  /\ order \in Seq(Keys)
         /\ Len(order) \in Nat \ {0}
         /\ DOMAIN order = 1..Len(order)
         /\ Live \subseteq Keys
         /\ \A off \in Nat : Following(off) \in 0..(Len(order) - 1)
  <1>1. order \in Seq(Keys) /\ Len(order) \in Nat \ {0}
    BY InputAssumption, SMTT(30) DEF TypeOK
  <1>2. DOMAIN order = 1..Len(order)
    BY <1>1, SMTT(30)
  <1>3. Live \subseteq Keys
    BY <1>1, <1>2, SMTT(30) DEF Live, Range
  <1>4. \A off \in Nat : cursor + off \in Nat
    BY <1>1, SMTT(30) DEF TypeOK
  <1>5. \A off \in Nat : Following(off) \in 0..(Len(order) - 1)
    BY <1>1, <1>4, ModBound DEF Following
  <1>. QED BY <1>1, <1>2, <1>3, <1>5

\* advance_cursor leaves the cursor inside the key list.
LEMMA CursorAdvances ==
  ASSUME TypeOK, NEW ent, NEW t, advance_cursor(ent, t)
  PROVE  cursor' \in 0..(Len(order) - 1)
  <1>1. \/ \E off \in 1..Len(order) : cursor' = Following(off)
        \/ cursor' = cursor
    BY DEF advance_cursor
  <1>2. \A off \in 1..Len(order) : Following(off) \in 0..(Len(order) - 1)
    BY OrderFacts, SMTT(30)
  <1>. QED BY <1>1, <1>2 DEF TypeOK

\* Writing an entry of a key in the pool keeps the entries well typed, leaves
\* the keys outside the pool alone and the cursor inside the list.
LEMMA StoreTypes ==
  ASSUME TypeOK, NEW k \in Live, NEW e \in KeyEntry, NEW applied \in BOOLEAN, NEW t,
         Store(k, e, applied, t)
  PROVE  /\ entry' = [entry EXCEPT ![k] = e]
         /\ entry' \in [Keys -> KeyEntry]
         /\ \A j \in Keys \ Live : entry'[j] = Fresh
         /\ cursor' \in 0..(Len(order) - 1)
  <1>1. entry' = [entry EXCEPT ![k] = e]
    BY DEF Store
  <1>2. cursor' \in 0..(Len(order) - 1)
    BY CursorAdvances DEF Store, TypeOK
  <1>. QED BY <1>1, <1>2, OrderFacts DEF TypeOK

\* A key that was never reported has a well-typed entry.
LEMMA FreshType == Fresh \in KeyEntry
  BY SMTT(30) DEF Fresh, KeyEntry, Reasons, NoDeadline, NoId

\* Applying a cooldown keeps an entry well typed.
LEMMA CooledType ==
  ASSUME NEW e \in KeyEntry, NEW d \in Nat, NEW reason \in Reasons, NEW id \in Int
  PROVE  Cooled(e, d, reason, id) \in KeyEntry
  BY DEF Cooled, KeyEntry

-----------------------------------------------------------------------------
(***************************************************************************)
(* The initial state and selections.                                       *)
(***************************************************************************)

\* The initial pool is well typed (with_jitter).
LEMMA InitTypes == Init => TypeOK
  BY FreshType, InputAssumption, SMTT(30)
     DEF Init, TypeOK, RequestAttempts, NewRequest, PCs, Selection, NoSelection,
         NoId, NoDeadline, Observation, NoObservation

\* A selection is a key of the pool with the next id, and a claim is a deadline.
LEMMA SelectTypes ==
  ASSUME TypeOK, NEW r \in Requests, Select(r)
  PROVE  TypeOK'
  <1>1. PICK i \in 1..Len(req[r].candidates) :
           LET k == req[r].candidates[i]
           IN  /\ Selectable(r, k)
               /\ req' = [req EXCEPT
                            ![r].pc = "holding",
                            ![r].used = @ \cup {k},
                            ![r].sel = [key |-> k, id |-> next_id,
                                        claim |-> ClaimDeadline(entry[k])]]
               /\ entry' = [entry EXCEPT ![k] = Claimed(@, next_id)]
               /\ next_id' = next_id + 1
               /\ UNCHANGED <<order, cursor, poll, now>>
    BY DEF Select, TakeId
  <1> DEFINE k == req[r].candidates[i]
  <1>2. k \in Live /\ k \in Keys
    BY <1>1, OrderFacts DEF Selectable
  <1>3. deadline_after(now, BreakerCooldown) \in Nat
    BY DeadlineAfter, PolicyAssumption DEF TypeOK
  <1>4. Claimed(entry[k], next_id) \in KeyEntry
    <2>1. entry[k] \in KeyEntry /\ next_id \in Int
      BY <1>2, SMTT(30) DEF TypeOK
    <2>2. Cooled(entry[k], deadline_after(now, BreakerCooldown), "circuit_breaker",
                 next_id) \in KeyEntry
      BY <2>1, <1>3, CooledType DEF Reasons
    <2>. QED BY <2>1, <2>2 DEF Claimed
  <1>5. ClaimDeadline(entry[k]) \in Nat
    BY <1>3 DEF ClaimDeadline, NoDeadline
  <1>6. req' \in [Requests -> RequestAttempts]
    <2> DEFINE q == [req[r] EXCEPT
                       !.pc = "holding",
                       !.used = @ \cup {k},
                       !.sel = [key |-> k, id |-> next_id,
                                claim |-> ClaimDeadline(entry[k])]]
    <2>1. [key |-> k, id |-> next_id, claim |-> ClaimDeadline(entry[k])] \in Selection
      BY <1>2, <1>5, SMTT(30) DEF TypeOK, Selection
    <2>2. q \in RequestAttempts
      BY <1>2, <2>1 DEF TypeOK, RequestAttempts, PCs
    <2>3. req' = [req EXCEPT ![r] = q]
      BY <1>1
    <2>. QED BY <2>2, <2>3 DEF TypeOK
  <1>7. entry' \in [Keys -> KeyEntry] /\ \A j \in Keys \ Live : entry'[j] = Fresh
    BY <1>1, <1>2, <1>4 DEF TypeOK
  <1>. QED BY <1>1, <1>6, <1>7, SMTT(30) DEF TypeOK, Live

-----------------------------------------------------------------------------
(***************************************************************************)
(* What a report may do to the entry of its key.  Every failure report and *)
(* every usage observation either leaves the pool alone or worsens one     *)
(* entry: its cooldown is not shortened and ends within MAX_COOLDOWN, it   *)
(* becomes half-open only under a full breaker cooldown, and its markers   *)
(* take the id of the report or stay.                                      *)
(***************************************************************************)
Worse(e, f, id) ==
    /\ f \in KeyEntry
    /\ f.cooling_until >= e.cooling_until
    /\ \/ f.cooling_until = e.cooling_until
       \/ f.cooling_until <= now + MaxCooldown
    /\ f.half_open => \/ e.half_open
                      \/ f.cooling_until >= deadline_after(now, BreakerCooldown)
    /\ f.cooling_by \in {e.cooling_by, id}
    /\ f.last_failure_by \in {e.last_failure_by, id}
    /\ \A m \in Models : \/ f.liveness_cooling[m] = e.liveness_cooling[m]
                          \/ f.liveness_cooling[m] <= now + MaxCooldown

Worsened(k, id) ==
    /\ k \in Live
    /\ \E f : Worse(entry[k], f, id) /\ entry' = [entry EXCEPT ![k] = f]

\* The effect of a report on the pool as a whole.
Reported(k, id) ==
    /\ UNCHANGED order
    /\ cursor' \in 0..(Len(order) - 1)
    /\ UNCHANGED entry \/ Worsened(k, id)

\* Writing an entry that is only worse makes the step a report.
LEMMA StoreWorsens ==
  ASSUME TypeOK, NEW k \in Live, NEW f, NEW id, NEW applied \in BOOLEAN, NEW t,
         Worse(entry[k], f, id), Store(k, f, applied, t), UNCHANGED order
  PROVE  Reported(k, id)
  <1>1. f \in KeyEntry
    BY DEF Worse
  <1>. QED BY <1>1, StoreTypes, ZenonT(30), SMTT(30) DEF Reported, Worsened

\* A longer cooldown, whatever its reason, worsens an entry.
LEMMA CooledWorse ==
  ASSUME NEW e \in KeyEntry, NEW d \in Nat, NEW reason \in Reasons, NEW id \in Int,
         NEW step \in Nat, ~Absorbed(e, d), d <= now + MaxCooldown
  PROVE  /\ Worse(e, Cooled(e, d, reason, id), id)
         /\ Worse(e, [Cooled(e, d, reason, id) EXCEPT !.backoff_step = step], id)
  <1> DEFINE f == Cooled(e, d, reason, id)
             g == [f EXCEPT !.backoff_step = step]
  <1>1. f \in KeyEntry /\ g \in KeyEntry
    BY DEF Cooled, KeyEntry
  <1>2. /\ f.cooling_until = d /\ g.cooling_until = d
        /\ f.half_open = e.half_open /\ g.half_open = e.half_open
        /\ f.cooling_by = id /\ g.cooling_by = id
        /\ f.last_failure_by = id /\ g.last_failure_by = id
        /\ f.liveness_cooling = e.liveness_cooling
        /\ g.liveness_cooling = e.liveness_cooling
    BY DEF Cooled, KeyEntry
  <1>3. d >= e.cooling_until
    BY SMTT(30) DEF Absorbed, KeyEntry
  <1> HIDE DEF f, g
  <1>4. Worse(e, f, id) /\ Worse(e, g, id)
    BY <1>1, <1>2, <1>3 DEF Worse
  <1>. QED BY <1>4 DEF f, g

\* A counted network failure worsens an entry.
LEMMA CountedWorse ==
  ASSUME NEW e \in KeyEntry, NEW id \in Int
  PROVE  Worse(e, CountFailure(e, id), id)
  <1> DEFINE f == CountFailure(e, id)
  <1>1. f \in KeyEntry
    <2> DEFINE n == e.consecutive_failures + 1
    <2>1. n \in Nat
      BY SMTT(30) DEF KeyEntry
    <2>2. f = [e EXCEPT !.consecutive_failures = n, !.last_failure_by = id]
      BY DEF CountFailure
    <2> HIDE DEF n
    <2>. QED BY <2>1, <2>2 DEF KeyEntry
  <1>2. /\ f.cooling_until = e.cooling_until /\ f.half_open = e.half_open
        /\ f.cooling_by = e.cooling_by /\ f.last_failure_by = id
        /\ f.liveness_cooling = e.liveness_cooling
    BY DEF CountFailure, KeyEntry
  <1>3. e.cooling_until >= e.cooling_until
    BY SMTT(30) DEF KeyEntry
  <1> HIDE DEF f
  <1>4. Worse(e, f, id)
    BY <1>1, <1>2, <1>3 DEF Worse
  <1>. QED BY <1>4 DEF f

\* So does a liveness cooldown of one model.
LEMMA LivenessWorse ==
  ASSUME NEW e \in KeyEntry, NEW id \in Int, NEW m, NEW d \in Nat,
         d <= now + MaxCooldown
  PROVE  Worse(e, [e EXCEPT !.liveness_cooling[m] = d], id)
  <1> DEFINE f == [e EXCEPT !.liveness_cooling[m] = d]
  <1>1. f \in KeyEntry
    BY DEF KeyEntry
  <1>2. /\ f.cooling_until = e.cooling_until /\ f.half_open = e.half_open
        /\ f.cooling_by = e.cooling_by /\ f.last_failure_by = e.last_failure_by
        /\ f.liveness_cooling = [e.liveness_cooling EXCEPT ![m] = d]
    BY DEF KeyEntry
  <1>3. e.cooling_until >= e.cooling_until /\ e.liveness_cooling \in [Models -> Nat]
    BY SMTT(30) DEF KeyEntry
  <1> HIDE DEF f
  <1>4. Worse(e, f, id)
    BY <1>1, <1>2, <1>3 DEF Worse
  <1>. QED BY <1>4 DEF f

\* The key of a selection that is in the pool has a well-typed entry.
LEMMA HeldFacts ==
  ASSUME TypeOK, NEW r \in Requests
  PROVE  /\ req[r].sel.id \in Int
         /\ req[r] \in RequestAttempts
         /\ now \in Nat
         /\ \A k \in Live : entry[k] \in KeyEntry
  BY OrderFacts DEF TypeOK, RequestAttempts, Selection

\* Failure::UsageLimit.
LEMMA UsageLimitReports ==
  ASSUME TypeOK, NEW r \in Requests, NEW c \in UsageCooldowns, UsageLimit(r, c)
  PROVE  Reported(req[r].sel.key, req[r].sel.id)
  <1> DEFINE k == req[r].sel.key
             d == deadline_after(now, c)
             f == Cooled(entry[k], d, "usage_limit", req[r].sel.id)
  <1>1. d \in Nat /\ d <= now + MaxCooldown
    BY DeadlineAfter, InputAssumption DEF TypeOK
  <1>2. CASE UNCHANGED <<entry, cursor>>
    BY <1>2 DEF Reported, TypeOK, UsageLimit, Failed
  <1>3. CASE k \in Live /\ ~Absorbed(entry[k], d) /\ Store(k, f, TRUE, now)
    <2>1. Worse(entry[k], f, req[r].sel.id)
      BY <1>1, <1>3, HeldFacts, CooledWorse DEF Reasons
    <2>. QED BY <1>3, <2>1, StoreWorsens DEF UsageLimit, Failed
  <1>. QED BY <1>2, <1>3 DEF UsageLimit, Removed

\* Failure::RateLimited and Failure::Unavailable.
LEMMA BackOffReports ==
  ASSUME TypeOK, NEW r \in Requests, NEW reason \in {"rate_limited", "unavailable"},
         NEW ra \in RetryAfters, BackOff(r, reason, ra)
  PROVE  Reported(req[r].sel.key, req[r].sel.id)
  <1> DEFINE k == req[r].sel.key
             e == entry[k]
             f(d) == [Cooled(e, d, reason, req[r].sel.id)
                        EXCEPT !.backoff_step = BackoffStep(e, ra)]
  <1>1. CASE UNCHANGED <<entry, cursor>>
    BY <1>1 DEF Reported, TypeOK, BackOff, Failed
  <1>2. ASSUME NEW c \in (IF ra > 0 THEN {ra} ELSE Backoffs(e.backoff_step)),
               k \in Live, ~Absorbed(e, deadline_after(now, c)),
               Store(k, f(deadline_after(now, c)), TRUE, now)
        PROVE  Reported(k, req[r].sel.id)
    <2> DEFINE d == deadline_after(now, c)
    <2>1. c \in Nat
      BY InputAssumption, PolicyAssumption, SMTT(30) DEF Backoffs
    <2>2. d \in Nat /\ d <= now + MaxCooldown
      BY <2>1, DeadlineAfter DEF TypeOK
    <2>3. e \in KeyEntry
      BY <1>2, HeldFacts
    <2>4. BackoffStep(e, ra) \in Nat
      BY <2>3, SMTT(30) DEF BackoffStep, KeyEntry
    <2>5. Worse(e, f(d), req[r].sel.id)
      BY <1>2, <2>2, <2>3, <2>4, HeldFacts, CooledWorse DEF Reasons
    <2>. QED BY <1>2, <2>5, StoreWorsens DEF BackOff, Failed
  <1>. QED BY <1>1, <1>2 DEF BackOff, Removed

\* Failure::Network: counted, or the breaker trips.
LEMMA NetworkReports ==
  ASSUME TypeOK, NEW r \in Requests, Network(r)
  PROVE  Reported(req[r].sel.key, req[r].sel.id)
  <1> DEFINE k == req[r].sel.key
             e == entry[k]
             d == deadline_after(now, BreakerCooldown)
             id == req[r].sel.id
  <1>1. d \in Nat /\ d <= now + MaxCooldown
    BY DeadlineAfter, PolicyAssumption DEF TypeOK
  <1>2. CASE UNCHANGED <<entry, cursor>>
    BY <1>2 DEF Reported, TypeOK, Network, Failed
  <1>3. CASE k \in Live /\ Store(k, CountFailure(e, id), FALSE, now)
    <2>1. Worse(e, CountFailure(e, id), id)
      BY <1>3, HeldFacts, CountedWorse
    <2>. QED BY <1>3, <2>1, StoreWorsens DEF Network, Failed
  <1>4. CASE k \in Live /\ Trips(e, d) /\ Store(k, Trip(e, d, id), TRUE, now)
    <2> DEFINE f == Trip(e, d, id)
    <2>1. e \in KeyEntry /\ id \in Int
      BY <1>4, HeldFacts
    <2>2. f \in KeyEntry
      BY <1>1, <2>1 DEF Trip, Cooled, KeyEntry, Reasons
    <2>3. d >= e.cooling_until
      BY <1>1, <1>4, <2>1, SMTT(30) DEF Trips, Absorbed, KeyEntry
    <2>4. /\ f.cooling_until = d /\ f.cooling_by = id /\ f.last_failure_by = id
          /\ f.liveness_cooling = e.liveness_cooling
      BY <2>1 DEF Trip, Cooled, KeyEntry
    <2> HIDE DEF f
    <2>5. Worse(e, f, id)
      BY <1>1, <2>2, <2>3, <2>4, SMTT(30) DEF Worse
    <2>. QED BY <1>4, <2>5, StoreWorsens DEF Network, Failed, f
  <1>. QED BY <1>2, <1>3, <1>4 DEF Network, Removed

\* report_liveness_failure: one model of one key.
LEMMA LivenessReports ==
  ASSUME TypeOK, NEW r \in Requests, report_liveness_failure(r)
  PROVE  Reported(req[r].sel.key, req[r].sel.id)
  <1> DEFINE k == req[r].sel.key
             e == entry[k]
             d == deadline_after(now, BackoffInitial)
             f == [e EXCEPT !.liveness_cooling[req[r].model] = d]
  <1>1. d \in Nat /\ d <= now + MaxCooldown
    BY DeadlineAfter, PolicyAssumption DEF TypeOK
  <1>2. CASE UNCHANGED <<entry, cursor>>
    BY <1>2 DEF Reported, TypeOK, report_liveness_failure, Failed
  <1>3. CASE k \in Live /\ Store(k, f, FALSE, now)
    <2>1. Worse(e, f, req[r].sel.id)
      BY <1>1, <1>3, HeldFacts, LivenessWorse
    <2>. QED BY <1>3, <2>1, StoreWorsens DEF report_liveness_failure, Failed
  <1>. QED BY <1>2, <1>3 DEF report_liveness_failure, Removed

\* A usage observation read the clock before it took the lock: its deadline is
\* still within MAX_COOLDOWN of the present.
ObservedInPast ==
    \A p \in Polls : poll[p].deadline <= now + MaxCooldown

\* report_proactive_cooldown: absorbed, or one key cooled under a new id.
LEMMA ProactiveReports ==
  ASSUME TypeOK, ObservedInPast, NEW p \in Polls, report_proactive_cooldown(p)
  PROVE  Reported(poll[p].key, next_id)
  <1> DEFINE k == poll[p].key
             d == poll[p].deadline
             f == Cooled(entry[k], d, "proactive_usage", next_id)
  <1>1. d \in Nat /\ d <= now + MaxCooldown
    BY DEF TypeOK, Observation, ObservedInPast
  <1>2. CASE UNCHANGED <<entry, cursor>>
    BY <1>2 DEF Reported, TypeOK, report_proactive_cooldown
  <1>3. CASE k \in Live /\ ~Absorbed(entry[k], d) /\ Store(k, f, TRUE, poll[p].at)
    <2>1. k \in Keys
      BY <1>3, OrderFacts
    <2>2. entry[k] \in KeyEntry /\ next_id \in Int
      BY <2>1, SMTT(30) DEF TypeOK
    <2>3. Worse(entry[k], f, next_id)
      BY <1>1, <1>3, <2>2, CooledWorse DEF Reasons
    <2>. QED BY <1>3, <2>3, StoreWorsens DEF report_proactive_cooldown
  <1>. QED BY <1>2, <1>3 DEF report_proactive_cooldown

-----------------------------------------------------------------------------
(***************************************************************************)
(* What a step may do, seen from the invariants.  Every step of a request  *)
(* but a selection is quiet: it leaves no attempt in flight and keeps or   *)
(* drops the set of used keys.                                             *)
(***************************************************************************)
NewIsUnused == \A r \in Requests : req[r].pc = "new" => req[r].used = {}

Base == TypeOK /\ ObservedInPast /\ NewIsUnused

Quiet(r) ==
    \E q \in RequestAttempts :
        /\ req' = [req EXCEPT ![r] = q]
        /\ q.pc \notin {"new", "holding"}
        /\ \/ q.used = {}
           \/ q.used = req[r].used /\ q.candidates = req[r].candidates

\* A request that holds nothing is well typed.
LEMMA NewRequestType ==
  ASSUME NEW pc \in PCs
  PROVE  [NewRequest EXCEPT !.pc = pc] \in RequestAttempts
  <1>1. NoSelection \in Selection
    BY SMTT(30) DEF Selection, NoSelection, NoId, NoDeadline
  <1>2. <<>> \in Seq(Keys)
    BY SMTT(30)
  <1>. QED BY <1>1, <1>2 DEF NewRequest, RequestAttempts, PCs

\* A request that is over has dropped its RequestAttempts.
LEMMA OverIsQuiet ==
  ASSUME TypeOK, NEW r \in Requests, NEW pc \in Over,
         req' = [req EXCEPT ![r] = [NewRequest EXCEPT !.pc = pc]]
  PROVE  Quiet(r)
  <1> DEFINE q == [NewRequest EXCEPT !.pc = pc]
  <1>1. q \in RequestAttempts
    BY NewRequestType DEF Over, PCs
  <1>2. q.pc = pc /\ q.used = {}
    BY DEF NewRequest
  <1>3. pc \notin {"new", "holding"}
    BY DEF Over
  <1>. QED BY <1>1, <1>2, <1>3 DEF Quiet

\* request() pins keys of the pool as candidates.
LEMMA RequestIsQuiet ==
  ASSUME Base, NEW r \in Requests, Request(r)
  PROVE  Quiet(r)
  <1> DEFINE cands == [i \in 1..Len(order) |-> order[Following(i - 1) + 1]]
             d == deadline_after(now, WaitTimeout)
             q == [req[r] EXCEPT !.pc = "body", !.candidates = cands, !.deadline = d]
  <1>0. TypeOK
    BY DEF Base
  <1>1. cands \in Seq(Keys)
    <2>1. ASSUME NEW i \in 1..Len(order)
          PROVE  order[Following(i - 1) + 1] \in Keys
      <3> DEFINE f == Following(i - 1)
      <3>1. i - 1 \in Nat
        BY <1>0, OrderFacts, SMTT(30)
      <3>2. f \in 0..(Len(order) - 1)
        BY <1>0, <3>1, OrderFacts
      <3> HIDE DEF f
      <3>3. f + 1 \in 1..Len(order)
        BY <1>0, <3>2, OrderFacts, SMTT(30)
      <3>4. order[f + 1] \in Keys
        BY <1>0, <3>3, OrderFacts, SMTT(30)
      <3>. QED BY <3>4 DEF f
    <2>. QED BY <1>0, <2>1, OrderFacts, SMTT(30)
  <1>2. d \in Nat
    BY <1>0, DeadlineAfter, PolicyAssumption DEF TypeOK
  <1>3. req' = [req EXCEPT ![r] = q] /\ req[r].pc = "new"
    BY <1>0 DEF Request, TypeOK
  <1> HIDE DEF cands, d
  <1>4. q \in RequestAttempts
    BY <1>0, <1>1, <1>2, ZenonT(30), SMTT(30) DEF TypeOK, RequestAttempts, PCs
  <1>5. q.pc = "body" /\ q.used = req[r].used
    BY <1>0 DEF TypeOK, RequestAttempts
  <1>6. req[r].used = {}
    BY <1>3 DEF Base, NewIsUnused
  <1>. QED BY <1>3, <1>4, <1>5, <1>6 DEF Quiet

\* The steps of next() that find no key, and the end of a request.
LEMMA NoSelectionIsQuiet ==
  ASSUME Base, NEW r \in Requests,
         \/ AttemptsSpent(r) \/ NextImmediateNone(r) \/ Drop(r)
         \/ ReadClock(r) \/ Recover(r) \/ Wake(r)
         \/ \E m \in Models : set_model(r, m)
         \/ TrySelect(r) /\ ~Select(r)
  PROVE  Quiet(r) /\ UNCHANGED <<pool, poll, now>>
  <1> USE DEF Base
  <1>0. /\ req[r].model \in Models \cup {NoModel} /\ req[r].sel \in Selection
        /\ req[r].clock \in Nat /\ req[r].wake \in Nat /\ req[r].deadline \in Nat
        /\ req[r] \in RequestAttempts /\ now \in Nat
    BY DEF TypeOK, RequestAttempts
  <1>1. ASSUME NEW pc \in Over, Finish(r, pc)
        PROVE  Quiet(r) /\ UNCHANGED <<pool, poll, now>>
    BY <1>1, OverIsQuiet DEF Finish
  <1>2. ASSUME NEW pc \in {"ready", "stuck"}, Goto(r, pc)
        PROVE  Quiet(r) /\ UNCHANGED <<pool, poll, now>>
    <2> DEFINE q == [req[r] EXCEPT !.pc = pc, !.clock = 0, !.wake = 0]
    <2>1. /\ q \in RequestAttempts /\ q.pc = pc
          /\ q.used = req[r].used /\ q.candidates = req[r].candidates
      BY <1>0 DEF RequestAttempts, PCs
    <2>2. req' = [req EXCEPT ![r] = q]
      BY <1>2 DEF Goto
    <2>. QED BY <1>2, <2>1, <2>2 DEF Goto, Quiet
  <1>3. CASE AttemptsSpent(r) \/ NextImmediateNone(r) \/ Drop(r)
    BY <1>1, <1>3 DEF AttemptsSpent, NextImmediateNone, Drop, Over
  <1>4. CASE ReadClock(r)
    <2> DEFINE q == [req[r] EXCEPT !.pc = "timed", !.clock = now]
    <2>1. /\ q \in RequestAttempts /\ q.pc = "timed"
          /\ q.used = req[r].used /\ q.candidates = req[r].candidates
      BY <1>0 DEF RequestAttempts, PCs
    <2>2. req' = [req EXCEPT ![r] = q]
      BY <1>4 DEF ReadClock
    <2>. QED BY <1>4, <2>1, <2>2 DEF ReadClock, Quiet
  <1>5. CASE Recover(r)
    <2>1. CASE Finish(r, "unavailable")
      BY <1>1, <2>1 DEF Over
    <2>2. ASSUME NEW d \in Recoveries(r),
                 req' = [req EXCEPT ![r].pc = "sleeping", ![r].clock = 0,
                                    ![r].wake = Min2(d, req[r].deadline)],
                 UNCHANGED <<pool, poll, now>>
          PROVE  Quiet(r) /\ UNCHANGED <<pool, poll, now>>
      <3>1. d \in Nat
        <4>1. PICK k \in Live : d = RecoveryOf(r, k)
          BY DEF Recoveries
        <4>2. entry[k] \in KeyEntry
          BY <4>1, HeldFacts
        <4>3. entry[k].cooling_until \in Nat /\ entry[k].liveness_cooling \in [Models -> Nat]
          BY <4>2 DEF KeyEntry
        <4>. QED BY <1>0, <4>1, <4>3 DEF RecoveryOf, Max2, NoDeadline
      <3>2. Min2(d, req[r].deadline) \in Nat
        BY <1>0, <3>1 DEF Min2
      <3> DEFINE w == Min2(d, req[r].deadline)
                 q == [req[r] EXCEPT !.pc = "sleeping", !.clock = 0, !.wake = w]
      <3>3. req' = [req EXCEPT ![r] = q]
        BY <2>2
      <3> HIDE DEF w
      <3>4. /\ q \in RequestAttempts /\ q.pc = "sleeping"
            /\ q.used = req[r].used /\ q.candidates = req[r].candidates
        BY <1>0, <3>2 DEF RequestAttempts, PCs, w
      <3>. QED BY <2>2, <3>3, <3>4 DEF Quiet
    <2>. QED BY <1>5, <2>1, <2>2 DEF Recover
  <1>6. CASE Wake(r)
    BY <1>2, <1>6 DEF Wake
  <1>7. CASE \E m \in Models : set_model(r, m)
    <2>1. PICK m \in Models : set_model(r, m)
      BY <1>7
    <2> DEFINE q == [req[r] EXCEPT !.pc = "ready", !.model = m]
    <2>2. /\ q \in RequestAttempts /\ q.pc = "ready"
          /\ q.used = req[r].used /\ q.candidates = req[r].candidates
      BY <1>0 DEF RequestAttempts, PCs
    <2>3. req' = [req EXCEPT ![r] = q]
      BY <2>1 DEF set_model
    <2>. QED BY <2>1, <2>2, <2>3 DEF set_model, Quiet
  <1>8. CASE TrySelect(r) /\ ~Select(r)
    BY <1>1, <1>2, <1>8 DEF TrySelect, Over
  <1>. QED BY <1>3, <1>4, <1>5, <1>6, <1>7, <1>8

\* A failed attempt is reported and no longer in flight.
LEMMA FailedIsQuiet ==
  ASSUME TypeOK, NEW r \in Requests, Failed(r)
  PROVE  Quiet(r)
  <1> DEFINE q == [req[r] EXCEPT !.pc = "ready", !.sel = NoSelection]
  <1>1. req[r] \in RequestAttempts /\ NoSelection \in Selection
    BY SMTT(30) DEF TypeOK, NoSelection, Selection, NoId, NoDeadline
  <1>2. req' = [req EXCEPT ![r] = q]
    BY DEF Failed
  <1>3. q \in RequestAttempts
    BY <1>1 DEF RequestAttempts, PCs
  <1>4. q.pc = "ready" /\ q.used = req[r].used /\ q.candidates = req[r].candidates
    BY <1>1 DEF RequestAttempts
  <1>. QED BY <1>2, <1>3, <1>4 DEF Quiet

Moves(r) == Quiet(r) /\ UNCHANGED <<pool, poll, now>>

Selects(r) == req[r].pc = "ready" /\ BudgetLeft(r) /\ Select(r)

Fails(r) == /\ Holds(r) /\ Quiet(r)
            /\ Reported(req[r].sel.key, req[r].sel.id)
            /\ UNCHANGED <<next_id, poll, now>>

\* What one request does.
Acts(r) == \/ Request(r)
           \/ \E m \in Models : set_model(r, m)
           \/ AttemptsSpent(r)
           \/ NextStep(r)
           \/ NextImmediateNone(r)
           \/ Report(r)
           \/ Drop(r)
           \/ report_liveness_failure(r)

\* Every step of a request is one of these.
LEMMA ActionKinds ==
  ASSUME Base, NEW r \in Requests, Acts(r)
  PROVE  Moves(r) \/ Selects(r) \/ Fails(r) \/ report_success(r)
  <1> USE DEF Base
  <1>1. CASE Request(r)
    BY <1>1, RequestIsQuiet DEF Moves, Request
  <1>2. CASE \/ AttemptsSpent(r) \/ NextImmediateNone(r) \/ Drop(r)
             \/ \E m \in Models : set_model(r, m)
    BY <1>2, NoSelectionIsQuiet DEF Moves
  <1>3. CASE NextStep(r)
    <2>1. CASE Select(r) /\ TrySelect(r)
      BY <2>1 DEF Selects, TrySelect
    <2>2. CASE ~(Select(r) /\ TrySelect(r))
      BY <1>3, <2>2, NoSelectionIsQuiet DEF NextStep, Moves
    <2>. QED BY <2>1, <2>2
  <1>4. ASSUME Failed(r), Reported(req[r].sel.key, req[r].sel.id)
        PROVE  Fails(r)
    BY <1>4, FailedIsQuiet DEF Fails, Failed
  <1>5. CASE Report(r)
    <2>1. ASSUME NEW c \in UsageCooldowns, UsageLimit(r, c)
          PROVE  Fails(r)
      BY <1>4, <2>1, UsageLimitReports DEF UsageLimit
    <2>2. ASSUME NEW reason \in {"rate_limited", "unavailable"}, NEW ra \in RetryAfters,
                 BackOff(r, reason, ra)
          PROVE  Fails(r)
      BY <1>4, <2>2, BackOffReports DEF BackOff
    <2>3. CASE Server(r)
      BY <1>4, <2>3 DEF Server, Reported, Failed, TypeOK
    <2>4. CASE Network(r)
      BY <1>4, <2>4, NetworkReports DEF Network
    <2>. QED BY <1>5, <2>1, <2>2, <2>3, <2>4 DEF Report
  <1>6. CASE report_liveness_failure(r)
    BY <1>4, <1>6, LivenessReports DEF report_liveness_failure
  <1>. QED BY <1>1, <1>2, <1>3, <1>5, <1>6 DEF Acts

\* Every step of the pool is one of a request or one of the others.
LEMMA StepKinds ==
  ASSUME Base, [Next]_vars
  PROVE  \/ \E r \in Requests : Moves(r) \/ Selects(r) \/ Fails(r) \/ report_success(r)
         \/ \E p \in Polls : \E k \in Keys, c \in UsageCooldowns : ProactiveObserve(p, k, c)
         \/ \E p \in Polls : report_proactive_cooldown(p)
         \/ \E l \in KeyLists : replace_keys(l)
         \/ Tick
         \/ UNCHANGED vars
  <1>1. ASSUME NEW r \in Requests, Acts(r)
        PROVE  Moves(r) \/ Selects(r) \/ Fails(r) \/ report_success(r)
    BY <1>1, ActionKinds
  <1>2. \/ \E r \in Requests : Acts(r)
        \/ \E p \in Polls : \E k \in Keys, c \in UsageCooldowns : ProactiveObserve(p, k, c)
        \/ \E p \in Polls : report_proactive_cooldown(p)
        \/ \E l \in KeyLists : replace_keys(l)
        \/ Tick
        \/ UNCHANGED vars
    BY DEF Next, Step, Acts
  <1>. QED BY <1>1, <1>2

-----------------------------------------------------------------------------
(***************************************************************************)
(* Type correctness.                                                       *)
(***************************************************************************)

\* A report keeps the pool well typed.
LEMMA ReportedTypes ==
  ASSUME TypeOK, NEW k, NEW id, Reported(k, id)
  PROVE  /\ entry' \in [Keys -> KeyEntry]
         /\ \A j \in Keys \ Live' : entry'[j] = Fresh
         /\ order' \in KeyLists /\ cursor' \in 0..(Len(order') - 1)
  <1>1. order' = order /\ Live' = Live
    BY DEF Reported, Live
  <1>2. CASE UNCHANGED entry
    BY <1>1, <1>2 DEF Reported, TypeOK
  <1>3. CASE Worsened(k, id)
    <2>1. PICK f \in KeyEntry : entry' = [entry EXCEPT ![k] = f]
      BY <1>3 DEF Worsened, Worse
    <2>2. k \in Live
      BY <1>3 DEF Worsened
    <2>. QED BY <1>1, <2>1, <2>2 DEF Reported, TypeOK
  <1>. QED BY <1>2, <1>3 DEF Reported

\* A step that leaves the pool alone keeps it well typed.
LEMMA QuietTypes ==
  ASSUME TypeOK, NewIsUnused, NEW r \in Requests, Quiet(r)
  PROVE  req' \in [Requests -> RequestAttempts] /\ NewIsUnused'
  BY DEF Quiet, TypeOK, NewIsUnused

\* A success keeps the pool well typed.
LEMMA SuccessTypes ==
  ASSUME TypeOK, NEW r \in Requests, report_success(r)
  PROVE  /\ Quiet(r) /\ UNCHANGED <<order, next_id, poll, now>>
         /\ entry' \in [Keys -> KeyEntry] /\ \A j \in Keys \ Live : entry'[j] = Fresh
         /\ cursor' \in 0..(Len(order) - 1)
  <1> DEFINE k == req[r].sel.key
             f == Reset(entry[k])
  <1>1. Quiet(r) /\ UNCHANGED <<order, next_id, poll, now>>
    BY OverIsQuiet DEF report_success, Over
  <1>2. CASE UNCHANGED <<entry, cursor>>
    BY <1>1, <1>2 DEF TypeOK
  <1>3. CASE k \in Live /\ Store(k, f, FALSE, now)
    <2>1. entry[k] \in KeyEntry
      BY <1>3, HeldFacts
    <2>2. f \in KeyEntry
      BY <2>1, FreshType DEF KeyEntry, Reset
    <2>. QED BY <1>1, <1>3, <2>2, StoreTypes
  <1>. QED BY <1>2, <1>3 DEF report_success, Removed

\* Base holds initially and every step preserves it.
LEMMA BaseInit == Init => Base
  <1>1. ASSUME Init
        PROVE  ObservedInPast /\ NewIsUnused
    BY <1>1, PolicyAssumption, SMTT(30)
       DEF Init, ObservedInPast, NewIsUnused, NoObservation, NewRequest
  <1>. QED BY <1>1, InitTypes DEF Base

\* Every step preserves Base, by the kind of step it is.
LEMMA BaseStep == Base /\ [Next]_vars => Base'
  <1> SUFFICES ASSUME Base, [Next]_vars
               PROVE  Base'
    OBVIOUS
  <1> USE DEF Base
  <1>1. ASSUME NEW r \in Requests, Moves(r)
        PROVE  Base'
    <2>1. req' \in [Requests -> RequestAttempts] /\ NewIsUnused'
      BY <1>1, QuietTypes DEF Moves
    <2>. QED BY <1>1, <2>1 DEF Moves, TypeOK, ObservedInPast, pool, Live
  <1>2. ASSUME NEW r \in Requests, Selects(r)
        PROVE  Base'
    <2>1. TypeOK'
      BY <1>2, SelectTypes DEF Selects
    <2>2. UNCHANGED <<poll, now>>
      BY <1>2 DEF Selects, Select
    <2>3. NewIsUnused'
      BY <1>2, SMTT(30) DEF Selects, Select, NewIsUnused, TypeOK, RequestAttempts
    <2>. QED BY <2>1, <2>2, <2>3 DEF ObservedInPast
  <1>3. ASSUME NEW r \in Requests, Fails(r)
        PROVE  Base'
    <2>1. req' \in [Requests -> RequestAttempts] /\ NewIsUnused'
      BY <1>3, QuietTypes DEF Fails
    <2>. QED BY <1>3, <2>1, ReportedTypes DEF Fails, TypeOK, ObservedInPast
  <1>4. ASSUME NEW r \in Requests, report_success(r)
        PROVE  Base'
    <2>1. req' \in [Requests -> RequestAttempts] /\ NewIsUnused'
      BY <1>4, SuccessTypes, QuietTypes
    <2>. QED BY <1>4, <2>1, SuccessTypes DEF TypeOK, ObservedInPast, Live
  <1>5. ASSUME NEW p \in Polls, NEW k \in Keys, NEW c \in UsageCooldowns,
               ProactiveObserve(p, k, c)
        PROVE  Base'
    <2> DEFINE o == [pc |-> "timed", key |-> k, at |-> now, deadline |-> deadline_after(now, c)]
    <2>1. /\ deadline_after(now, c) \in Nat
          /\ deadline_after(now, c) <= now + MaxCooldown
      BY DeadlineAfter, InputAssumption DEF TypeOK
    <2>2. o \in Observation
      BY <2>1 DEF Observation, TypeOK
    <2>3. poll' = [poll EXCEPT ![p] = o] /\ UNCHANGED <<pool, req, now>>
      BY <1>5 DEF ProactiveObserve
    <2>4. ObservedInPast'
      BY <2>1, <2>3 DEF ObservedInPast, TypeOK
    <2>. QED BY <2>2, <2>3, <2>4 DEF TypeOK, NewIsUnused, pool, Live
  <1>6. ASSUME NEW p \in Polls, report_proactive_cooldown(p)
        PROVE  Base'
    <2> DEFINE o == [NoObservation EXCEPT !.pc = "done"]
    <2>1. poll' = [poll EXCEPT ![p] = o] /\ UNCHANGED <<order, req, now>>
      BY <1>6 DEF report_proactive_cooldown
    <2>2. o \in Observation /\ o.deadline = 0
      BY DEF NoObservation, Observation
    <2>3. poll' \in [Polls -> Observation] /\ ObservedInPast'
      BY <2>1, <2>2, PolicyAssumption, SMTT(30) DEF TypeOK, ObservedInPast
    <2>4. next_id' \in Nat
      <3>1. next_id' = next_id \/ next_id' = next_id + 1
        BY <1>6 DEF report_proactive_cooldown, TakeId
      <3>. QED BY <3>1, SMTT(30) DEF TypeOK
    <2>5. Reported(poll[p].key, next_id)
      BY <1>6, ProactiveReports
    <2>. QED BY <2>1, <2>3, <2>4, <2>5, ReportedTypes DEF TypeOK, NewIsUnused
  <1>7. ASSUME NEW l \in KeyLists, replace_keys(l)
        PROVE  Base'
    <2>1. l \in Seq(Keys) /\ Len(l) \in Nat \ {0}
      BY InputAssumption, SMTT(30)
    <2>2. cursor' \in 0..(Len(order') - 1)
      BY <1>7, <2>1, OrderFacts, SMTT(30) DEF replace_keys, Min2, TypeOK
    <2>3. Live' = Range(l)
      BY <1>7 DEF replace_keys, Live
    <2>4. /\ entry' \in [Keys -> KeyEntry]
          /\ \A k \in Keys \ Live' : entry'[k] = Fresh
      BY <1>7, <2>3, FreshType DEF replace_keys, TypeOK
    <2>. QED BY <1>7, <2>2, <2>4 DEF replace_keys, TypeOK, ObservedInPast, NewIsUnused
  <1>8. CASE Tick
    <2>1. now' = now + 1 /\ UNCHANGED <<pool, req, poll>> /\ now \in Nat
      BY <1>8 DEF Tick, TypeOK
    <2>2. ObservedInPast'
      BY <2>1, PolicyAssumption, SMTT(30) DEF ObservedInPast, TypeOK, Observation
    <2>. QED BY <2>1, <2>2, SMTT(30) DEF TypeOK, NewIsUnused, pool, Live
  <1>9. CASE UNCHANGED vars
    BY <1>9 DEF vars, TypeOK, ObservedInPast, NewIsUnused, Live
  <1>. QED BY <1>1, <1>2, <1>3, <1>4, <1>5, <1>6, <1>7, <1>8, <1>9, StepKinds

\* Every reachable state is well typed: the cursor is an index of the key list
\* and removed keys leave nothing behind.
THEOREM TypeCorrect == Spec => []TypeOK
  <1>1. Spec => []Base
    BY BaseInit, BaseStep, PTL DEF Spec
  <1>2. Base => TypeOK
    BY DEF Base
  <1>. QED BY <1>1, <1>2, PTL


-----------------------------------------------------------------------------
(***************************************************************************)
(* The effect of each kind of step, entry by entry and request by request. *)
(***************************************************************************)

\* What a quiet step leaves as it was.
LEMMA QuietEffect ==
  ASSUME TypeOK, NEW r \in Requests, Quiet(r)
  PROVE  /\ ~Holds(r)'
         /\ \A s \in Requests \ {r} : req'[s] = req[s]
         /\ \A s \in Requests : Holds(s)' => Holds(s) /\ req'[s] = req[s]
  <1>1. PICK q \in RequestAttempts : req' = [req EXCEPT ![r] = q] /\ q.pc # "holding"
    BY DEF Quiet
  <1>2. ~Holds(r)' /\ \A s \in Requests \ {r} : req'[s] = req[s]
    BY <1>1 DEF Holds, TypeOK
  <1>. QED BY <1>2 DEF Holds

\* A failure report leaves each entry as it was or worsens it.
LEMMA ReportedEffect ==
  ASSUME TypeOK, NEW k, NEW id, Reported(k, id)
  PROVE  \A j \in Keys : entry'[j] = entry[j] \/ Worse(entry[j], entry'[j], id)
  <1>1. CASE UNCHANGED entry
    BY <1>1
  <1>2. CASE Worsened(k, id)
    <2>1. PICK f : Worse(entry[k], f, id) /\ entry' = [entry EXCEPT ![k] = f]
      BY <1>2 DEF Worsened
    <2>2. k \in Keys
      BY <1>2, OrderFacts DEF Worsened
    <2>3. entry'[k] = f /\ \A j \in Keys \ {k} : entry'[j] = entry[j]
      BY <2>1, <2>2 DEF TypeOK
    <2>. QED BY <2>1, <2>3
  <1>. QED BY <1>1, <1>2 DEF Reported

\* A success resets an entry, unless the key was removed or the success is
\* older than the key's last failure marker.
LEMMA SuccessEffect ==
  ASSUME TypeOK, NEW r \in Requests, report_success(r)
  PROVE  /\ Holds(r)
         /\ \A j \in Keys :
               \/ entry'[j] = entry[j]
               \/ /\ j = req[r].sel.key
                  /\ entry[j].last_failure_by <= req[r].sel.id
                  /\ entry'[j] = Reset(entry[j])
  <1> DEFINE k == req[r].sel.key
             f == Reset(entry[k])
  <1>1. Holds(r)
    BY DEF report_success
  <1>2. CASE UNCHANGED entry
    BY <1>1, <1>2
  <1>3. CASE /\ k \in Live /\ entry[k].last_failure_by <= req[r].sel.id
             /\ Store(k, f, FALSE, now)
    <2>1. k \in Keys /\ entry' = [entry EXCEPT ![k] = f]
      BY <1>3, OrderFacts DEF Store
    <2>2. entry'[k] = f /\ \A j \in Keys \ {k} : entry'[j] = entry[j]
      BY <2>1 DEF TypeOK
    <2>. QED BY <1>1, <1>3, <2>2
  <1>. QED BY <1>2, <1>3 DEF report_success, Removed

\* A selection: the key, its new entry, and the rest left alone.
Picked(r, k) ==
    /\ k \in Live /\ k \in Range(req[r].candidates) /\ k \notin req[r].used
    /\ ~Cooling(entry[k]) /\ ~LivenessCooling(entry[k], req[r].model)
    /\ req'[r].pc = "holding"
    /\ req'[r].used = req[r].used \cup {k}
    /\ req'[r].candidates = req[r].candidates
    /\ req'[r].sel.key = k /\ req'[r].sel.id = next_id
    /\ req'[r].sel.claim = ClaimDeadline(entry[k])
    /\ \A s \in Requests \ {r} : req'[s] = req[s]
    /\ entry'[k] = Claimed(entry[k], next_id)
    /\ \A j \in Keys \ {k} : entry'[j] = entry[j]
    /\ next_id' = next_id + 1
    /\ UNCHANGED <<order, cursor, poll, now>>

\* What a selection changes: one key, with an id nobody has yet.
LEMMA SelectEffect ==
  ASSUME TypeOK, NEW r \in Requests, Select(r)
  PROVE  \E k \in Keys : Picked(r, k)
  <1>1. PICK i \in 1..Len(req[r].candidates) :
           LET k == req[r].candidates[i]
           IN  /\ Selectable(r, k)
               /\ req' = [req EXCEPT
                            ![r].pc = "holding",
                            ![r].used = @ \cup {k},
                            ![r].sel = [key |-> k, id |-> next_id,
                                        claim |-> ClaimDeadline(entry[k])]]
               /\ entry' = [entry EXCEPT ![k] = Claimed(@, next_id)]
               /\ next_id' = next_id + 1
               /\ UNCHANGED <<order, cursor, poll, now>>
    BY DEF Select, TakeId
  <1> DEFINE k == req[r].candidates[i]
  <1>2. k \in Live /\ k \in Keys
    BY <1>1, OrderFacts DEF Selectable
  <1>3. k \in Range(req[r].candidates)
    BY SMTT(30) DEF TypeOK, RequestAttempts, Range
  <1>4. entry'[k] = Claimed(entry[k], next_id) /\ \A j \in Keys \ {k} : entry'[j] = entry[j]
    BY <1>1, <1>2 DEF TypeOK
  <1>5. /\ req'[r].pc = "holding"
        /\ req'[r].used = req[r].used \cup {k}
        /\ req'[r].candidates = req[r].candidates
        /\ req'[r].sel = [key |-> k, id |-> next_id, claim |-> ClaimDeadline(entry[k])]
        /\ \A s \in Requests \ {r} : req'[s] = req[s]
    BY <1>1, ZenonT(30), SMTT(30) DEF TypeOK, RequestAttempts
  <1>6. /\ req'[r].sel.key = k /\ req'[r].sel.id = next_id
        /\ req'[r].sel.claim = ClaimDeadline(entry[k])
    BY <1>5, SMTT(30)
  <1>7. Picked(r, k)
    BY <1>1, <1>2, <1>3, <1>4, <1>5, <1>6 DEF Picked, Selectable
  <1>. QED BY <1>2, <1>7

\* The fields of an entry, spelled out for the arithmetic below.
LEMMA FieldTypes ==
  ASSUME TypeOK
  PROVE  /\ \A k \in Keys : /\ entry[k].cooling_until \in Nat
                            /\ entry[k].cooling_by \in Int
                            /\ entry[k].last_failure_by \in Int
                            /\ entry[k].half_open \in BOOLEAN
                            /\ entry[k].liveness_cooling \in [Models -> Nat]
         /\ \A r \in Requests : /\ req[r].sel.id \in Int
                                /\ req[r].sel.claim \in Nat
         /\ now \in Nat /\ next_id \in Nat
  BY DEF TypeOK, KeyEntry, RequestAttempts, Selection

\* What is left of an entry after a success.
LEMMA ResetFields ==
  ASSUME NEW e
  PROVE  /\ Reset(e).cooling_until = 0
         /\ Reset(e).cooling_by = -1
         /\ Reset(e).last_failure_by = -1
         /\ Reset(e).half_open = FALSE
         /\ Reset(e).liveness_cooling = e.liveness_cooling
  BY DEF Reset, Fresh, NoDeadline, NoId

\* What claiming a half-open key changes in its entry.
LEMMA ClaimedFields ==
  ASSUME NEW e \in KeyEntry, NEW id \in Int
  PROVE  LET f == Claimed(e, id)
         IN  /\ ~e.half_open => f = e
             /\ e.half_open => /\ f.cooling_until = deadline_after(now, BreakerCooldown)
                               /\ f.cooling_by = id /\ f.last_failure_by = id
             /\ f.half_open = e.half_open
             /\ f.liveness_cooling = e.liveness_cooling
  BY DEF Claimed, Cooled, KeyEntry

\* What a selection does to the entry of the key it picks.
LEMMA PickedEntry ==
  ASSUME TypeOK, NEW r \in Requests, NEW k \in Keys, Picked(r, k)
  PROVE  /\ ~entry[k].half_open => entry'[k] = entry[k]
         /\ entry[k].half_open =>
              /\ entry'[k].cooling_until = deadline_after(now, BreakerCooldown)
              /\ entry'[k].cooling_by = next_id /\ entry'[k].last_failure_by = next_id
         /\ entry'[k].half_open = entry[k].half_open
         /\ entry'[k].liveness_cooling = entry[k].liveness_cooling
         /\ entry[k].cooling_until <= now
  <1>1. entry'[k] = Claimed(entry[k], next_id) /\ ~Cooling(entry[k])
    BY DEF Picked
  <1>2. entry[k] \in KeyEntry /\ next_id \in Int
    BY SMTT(30) DEF TypeOK
  <1>3. entry[k].cooling_until \in Nat /\ now \in Nat
    BY FieldTypes
  <1>4. entry[k].cooling_until <= now
    BY <1>1, <1>3, SMTT(30) DEF Cooling
  <1>. QED BY <1>1, <1>2, <1>4, ClaimedFields, SMTT(30)

-----------------------------------------------------------------------------
(***************************************************************************)
(* Ids.                                                                    *)
(***************************************************************************)
\* Every step keeps the ids ordered.
LEMMA IdsStep == Base /\ IdsAreOrdered /\ [Next]_vars => IdsAreOrdered'
  <1> SUFFICES ASSUME Base, IdsAreOrdered, [Next]_vars
               PROVE  IdsAreOrdered'
    OBVIOUS
  <1>0. TypeOK /\ TypeOK'
    BY BaseStep DEF Base
  <1>a. next_id \in Nat
    BY <1>0 DEF TypeOK
  <1>b. ASSUME next_id' >= next_id, next_id' \in Nat,
               \A k \in Keys :
                 entry'[k].cooling_by < next_id' /\ entry'[k].last_failure_by < next_id',
               \A s \in Requests : Holds(s)' => Holds(s) /\ req'[s] = req[s]
        PROVE  IdsAreOrdered'
    BY <1>0, <1>a, <1>b, FieldTypes, SMTT(30) DEF IdsAreOrdered
  <1>c. ASSUME next_id' = next_id, UNCHANGED entry
        PROVE  \A k \in Keys :
                 entry'[k].cooling_by < next_id' /\ entry'[k].last_failure_by < next_id'
    BY <1>c DEF IdsAreOrdered
  <1>1. ASSUME NEW r \in Requests, Moves(r)
        PROVE  IdsAreOrdered'
    <2>1. /\ UNCHANGED <<entry, next_id>>
          /\ \A s \in Requests : Holds(s)' => Holds(s) /\ req'[s] = req[s]
      BY <1>0, <1>1, QuietEffect DEF Moves, pool
    <2>. QED BY <1>a, <1>b, <1>c, <2>1, SMTT(30)
  <1>2. ASSUME NEW r \in Requests, Selects(r)
        PROVE  IdsAreOrdered'
    <2>1. PICK k \in Keys : Picked(r, k)
      BY <1>0, <1>2, SelectEffect DEF Selects
    <2>3. \A j \in Keys : entry'[j].cooling_by < next_id' /\ entry'[j].last_failure_by < next_id'
      <3>1. entry'[k].cooling_by \in {entry[k].cooling_by, next_id}
        BY <1>0, <2>1, PickedEntry
      <3>2. entry'[k].last_failure_by \in {entry[k].last_failure_by, next_id}
        BY <1>0, <2>1, PickedEntry
      <3>. QED BY <1>0, <1>a, <2>1, <3>1, <3>2, FieldTypes, SMTT(30) DEF Picked, IdsAreOrdered
    <2>4. /\ req'[r].sel.id = next_id
          /\ \A s \in Requests \ {r} : req'[s] = req[s] /\ (Holds(s)' => Holds(s))
          /\ next_id' = next_id + 1
      BY <2>1 DEF Picked, Holds
    <2>. QED BY <1>0, <1>a, <2>3, <2>4, FieldTypes, SMTT(30) DEF IdsAreOrdered
  <1>3. ASSUME NEW r \in Requests, Fails(r)
        PROVE  IdsAreOrdered'
    <2>1. /\ UNCHANGED next_id /\ Holds(r)
          /\ \A s \in Requests : Holds(s)' => Holds(s) /\ req'[s] = req[s]
      BY <1>0, <1>3, QuietEffect DEF Fails
    <2>2. req[r].sel.id < next_id
      BY <1>a, <2>1, <1>0, FieldTypes, SMTT(30) DEF IdsAreOrdered
    <2>3. \A j \in Keys : entry'[j].cooling_by < next_id /\ entry'[j].last_failure_by < next_id
      BY <1>0, <1>3, <2>2, ReportedEffect, SMTT(30) DEF Fails, Worse, IdsAreOrdered
    <2>. QED BY <1>a, <1>b, <2>1, <2>3, SMTT(30)
  <1>4. ASSUME NEW r \in Requests, report_success(r)
        PROVE  IdsAreOrdered'
    <2>1. UNCHANGED next_id /\ \A s \in Requests : Holds(s)' => Holds(s) /\ req'[s] = req[s]
      BY <1>0, <1>4, SuccessTypes, QuietEffect
    <2>2. \A j \in Keys : entry'[j].cooling_by < next_id /\ entry'[j].last_failure_by < next_id
      <3> SUFFICES ASSUME NEW j \in Keys
                   PROVE  entry'[j].cooling_by < next_id /\ entry'[j].last_failure_by < next_id
        OBVIOUS
      <3>1. CASE entry'[j] = entry[j]
        BY <3>1 DEF IdsAreOrdered
      <3>2. CASE entry'[j] = Reset(entry[j])
        <4>1. entry'[j].cooling_by = -1 /\ entry'[j].last_failure_by = -1
          BY <3>2, ResetFields
        <4>. QED BY <1>a, <4>1, SMTT(30)
      <3>. QED BY <1>0, <1>4, <3>1, <3>2, SuccessEffect
    <2>. QED BY <1>a, <1>b, <2>1, <2>2, SMTT(30)
  <1>5. ASSUME NEW p \in Polls, NEW k \in Keys, NEW c \in UsageCooldowns,
               ProactiveObserve(p, k, c)
        PROVE  IdsAreOrdered'
    BY <1>5 DEF ProactiveObserve, pool, IdsAreOrdered, Holds
  <1>6. ASSUME NEW p \in Polls, report_proactive_cooldown(p)
        PROVE  IdsAreOrdered'
    <2>1. Reported(poll[p].key, next_id)
      BY <1>6, ProactiveReports DEF Base
    <2>2. \/ UNCHANGED <<entry, next_id>>
          \/ next_id' = next_id + 1
      BY <1>6 DEF report_proactive_cooldown, TakeId
    <2>3. \A s \in Requests : Holds(s)' => Holds(s) /\ req'[s] = req[s]
      BY <1>6 DEF report_proactive_cooldown, Holds
    <2>4. CASE UNCHANGED <<entry, next_id>>
      BY <1>a, <1>b, <1>c, <2>3, <2>4, SMTT(30)
    <2>5. CASE next_id' = next_id + 1
      <3>1. \A j \in Keys : entry'[j].cooling_by < next_id' /\ entry'[j].last_failure_by < next_id'
        BY <1>0, <1>a, <2>1, <2>5, ReportedEffect, FieldTypes, SMTT(30) DEF Worse, IdsAreOrdered
      <3>. QED BY <1>a, <1>b, <2>3, <2>5, <3>1, SMTT(30)
    <2>. QED BY <2>2, <2>4, <2>5
  <1>7. ASSUME NEW l \in KeyLists, replace_keys(l)
        PROVE  IdsAreOrdered'
    <2>1. \A k \in Keys : entry'[k] = entry[k] \/ entry'[k] = Fresh
      BY <1>7 DEF replace_keys
    <2>2. Fresh.cooling_by = -1 /\ Fresh.last_failure_by = -1
      BY DEF Fresh, NoId
    <2>3. \A j \in Keys : entry'[j].cooling_by < next_id /\ entry'[j].last_failure_by < next_id
      BY <1>a, <2>1, <2>2, SMTT(30) DEF IdsAreOrdered
    <2>. QED BY <1>7, <1>a, <1>b, <2>3, SMTT(30) DEF replace_keys, Holds
  <1>8. CASE Tick \/ UNCHANGED vars
    BY <1>8 DEF Tick, vars, pool, IdsAreOrdered, Holds
  <1>. QED BY <1>1, <1>2, <1>3, <1>4, <1>5, <1>6, <1>7, <1>8, StepKinds

\* Markers never run ahead of the id counter and no two attempts in flight have
\* the same id, so "older" means the same to every report.
THEOREM IdsOrdered == Spec => []IdsAreOrdered
  <1>1. Init => IdsAreOrdered
    BY SMTT(30) DEF Init, IdsAreOrdered, Fresh, NoId, Holds, NewRequest
  <1>2. Base /\ IdsAreOrdered /\ [Next]_vars => (Base /\ IdsAreOrdered)'
    BY IdsStep, BaseStep
  <1>. QED BY <1>1, <1>2, BaseInit, PTL DEF Spec

-----------------------------------------------------------------------------
(***************************************************************************)
(* Cooldowns are bounded.                                                  *)
(***************************************************************************)
\* Every step keeps the cooldowns within MAX_COOLDOWN of now.
LEMMA BoundedStep == Base /\ CooldownBounded /\ [Next]_vars => CooldownBounded'
  <1> SUFFICES ASSUME Base, CooldownBounded, [Next]_vars
               PROVE  CooldownBounded'
    OBVIOUS
  <1>0. TypeOK
    BY DEF Base
  <1>a. MaxCooldown \in Nat /\ now \in Nat
    BY <1>0, PolicyAssumption DEF TypeOK
  <1>b. ASSUME UNCHANGED <<entry, now>>
        PROVE  CooldownBounded'
    BY <1>b DEF CooldownBounded
  <1>1. ASSUME NEW r \in Requests, Moves(r)
        PROVE  CooldownBounded'
    BY <1>1, <1>b DEF Moves, pool
  <1>2. ASSUME NEW r \in Requests, Selects(r)
        PROVE  CooldownBounded'
    <2>1. PICK k \in Keys : Picked(r, k)
      BY <1>0, <1>2, SelectEffect DEF Selects
    <2>3. deadline_after(now, BreakerCooldown) <= now + MaxCooldown
      BY <1>a, DeadlineAfter, PolicyAssumption
    <2>4. /\ entry'[k].cooling_until
               \in {entry[k].cooling_until, deadline_after(now, BreakerCooldown)}
          /\ entry'[k].liveness_cooling = entry[k].liveness_cooling
      BY <1>0, <2>1, PickedEntry
    <2>. QED BY <2>1, <2>3, <2>4, ZenonT(30), SMTT(30) DEF Picked, CooldownBounded
  <1>3. ASSUME NEW r \in Requests, Fails(r)
        PROVE  CooldownBounded'
    BY <1>0, <1>3, ReportedEffect DEF Fails, Worse, CooldownBounded
  <1>4. ASSUME NEW r \in Requests, report_success(r)
        PROVE  CooldownBounded'
    <2>1. now' = now
      BY <1>4 DEF report_success
    <2>2. ASSUME NEW j \in Keys
          PROVE  /\ entry'[j].cooling_until \in {0, entry[j].cooling_until}
                 /\ entry'[j].liveness_cooling = entry[j].liveness_cooling
      <3>1. CASE entry'[j] = Reset(entry[j])
        BY <3>1, ResetFields
      <3>. QED BY <1>0, <1>4, <3>1, SuccessEffect
    <2>. QED BY <1>a, <2>1, <2>2, SMTT(30) DEF CooldownBounded
  <1>5. ASSUME NEW p \in Polls, NEW k \in Keys, NEW c \in UsageCooldowns,
               ProactiveObserve(p, k, c)
        PROVE  CooldownBounded'
    BY <1>5, <1>b DEF ProactiveObserve, pool
  <1>6. ASSUME NEW p \in Polls, report_proactive_cooldown(p)
        PROVE  CooldownBounded'
    <2>1. Reported(poll[p].key, next_id) /\ now' = now
      BY <1>6, ProactiveReports DEF Base, report_proactive_cooldown
    <2>. QED BY <1>0, <2>1, ReportedEffect DEF Worse, CooldownBounded
  <1>7. ASSUME NEW l \in KeyLists, replace_keys(l)
        PROVE  CooldownBounded'
    <2>1. now' = now /\ \A k \in Keys : entry'[k] = entry[k] \/ entry'[k] = Fresh
      BY <1>7 DEF replace_keys
    <2>2. Fresh.cooling_until = 0 /\ \A m \in Models : Fresh.liveness_cooling[m] = 0
      BY DEF Fresh, NoDeadline
    <2>. QED BY <1>a, <2>1, <2>2, SMTT(30) DEF CooldownBounded
  <1>8. CASE Tick
    <2>1. now' = now + 1 /\ UNCHANGED entry
      BY <1>8 DEF Tick, pool
    <2>. QED BY <1>0, <1>a, <2>1, FieldTypes, SMTT(30) DEF CooldownBounded
  <1>9. CASE UNCHANGED vars
    BY <1>9, <1>b DEF vars
  <1>. QED BY <1>1, <1>2, <1>3, <1>4, <1>5, <1>6, <1>7, <1>8, <1>9, StepKinds

\* No key is ever kept out for longer than MAX_COOLDOWN from now, whatever
\* durations the upstream sends and however reports interleave.
THEOREM CooldownsBounded == Spec => []CooldownBounded
  <1>1. Init => CooldownBounded
    BY PolicyAssumption, SMTT(30) DEF Init, CooldownBounded, Fresh, NoDeadline
  <1>2. Base /\ CooldownBounded /\ [Next]_vars => (Base /\ CooldownBounded)'
    BY BoundedStep, BaseStep
  <1>. QED BY <1>1, <1>2, BaseInit, PTL DEF Spec

-----------------------------------------------------------------------------
(***************************************************************************)
(* The circuit breaker lets one probe through at a time.  OneProbe alone   *)
(* is not inductive: it says nothing of a key a probe is out on, so a step *)
(* that selects the key again must be excluded by ProbeCovered.            *)
(***************************************************************************)
ProbeInv == ProbeCovered /\ OneProbe

\* What remains of a running claim in a step that starts none.
LEMMA ProbingBefore ==
  ASSUME TypeOK, TypeOK', now' >= now, NEW r \in Requests, NEW k,
         Holds(r)' => Holds(r) /\ req'[r] = req[r],
         Probing(r, k)'
  PROVE  Probing(r, k) /\ req'[r].sel = req[r].sel
  <1>1. Holds(r) /\ req'[r] = req[r]
    BY DEF Probing
  <1>2. now \in Nat /\ now' \in Nat /\ req[r].sel.claim \in Nat
    <2>1. now \in Nat /\ now' \in Nat
      BY DEF TypeOK
    <2>. QED BY <2>1, FieldTypes
  <1>3. req[r].sel.key = k /\ req[r].sel.claim > now'
    BY <1>1 DEF Probing
  <1>4. req[r].sel.claim > now
    BY <1>2, <1>3, SMTT(30)
  <1>. QED BY <1>1, <1>3, <1>4 DEF Probing

\* Every step keeps probes covered and alone.
LEMMA ProbeStep == Base /\ ProbeInv /\ [Next]_vars => ProbeInv'
  <1> SUFFICES ASSUME Base, ProbeInv, [Next]_vars
               PROVE  ProbeInv'
    OBVIOUS
  <1> DEFINE D(t) == deadline_after(t, BreakerCooldown)
  <1>0. TypeOK /\ TypeOK'
    BY BaseStep DEF Base
  <1>a. /\ D(now) \in Nat /\ D(now) > now /\ now \in Nat
        /\ now' = now \/ now' = now + 1 => D(now') >= D(now)
    <2>1. now \in Nat
      BY <1>0 DEF TypeOK
    <2>2. PICK b \in Nat \ {0} : \A t \in Nat : D(t) = t + b
      BY PolicyAssumption DEF deadline_after, Min2
    <2> HIDE DEF D
    <2>3. now' = now \/ now' = now + 1 => D(now') >= D(now)
      BY <2>1, <2>2, SMTT(30)
    <2>. QED BY <2>1, <2>2, <2>3, SMTT(30)
  \* A step that starts no claim and lifts no cooldown of a half-open key.
  <1>b. ASSUME now' = now \/ now' = now + 1,
               \A s \in Requests : Holds(s)' => Holds(s) /\ req'[s] = req[s],
               \A k \in Keys : entry'[k].half_open =>
                   \/ entry[k].half_open /\ entry'[k].cooling_until >= entry[k].cooling_until
                   \/ entry'[k].cooling_until >= D(now)
        PROVE  ProbeInv'
    <2>1. now' >= now
      BY <1>a, <1>b, SMTT(30)
    <2>2. ASSUME NEW k \in Keys, NEW r \in Requests, Probing(r, k)'
          PROVE  Probing(r, k) /\ req'[r].sel = req[r].sel
      BY <1>0, <1>b, <2>1, <2>2, ProbingBefore
    <2>3. OneProbe'
      BY <2>2 DEF OneProbe, ProbeInv
    <2>4. ASSUME NEW k \in Keys, NEW r \in Requests, Probing(r, k)'
          PROVE  /\ req'[r].sel.claim <= D(now')
                 /\ entry'[k].half_open => entry'[k].cooling_until >= req'[r].sel.claim
      <3>1. /\ req'[r].sel.claim = req[r].sel.claim
            /\ req[r].sel.claim <= D(now)
            /\ entry[k].half_open => entry[k].cooling_until >= req[r].sel.claim
        BY <2>2, <2>4 DEF ProbeInv, ProbeCovered
      <3>2. /\ req[r].sel.claim \in Nat /\ entry[k].cooling_until \in Nat
            /\ entry'[k].cooling_until \in Nat
        BY <1>0, FieldTypes DEF TypeOK, KeyEntry
      <3>3. D(now') \in Nat
        BY <1>0, DeadlineAfter, PolicyAssumption DEF TypeOK
      <3> HIDE DEF D
      <3>. QED BY <1>a, <1>b, <3>1, <3>2, <3>3, SMTT(30)
    <2>. QED BY <2>3, <2>4 DEF ProbeInv, ProbeCovered
  <1> HIDE DEF D
  <1>1. ASSUME NEW r \in Requests, Moves(r)
        PROVE  ProbeInv'
    <2>1. UNCHANGED <<entry, now>> /\ \A s \in Requests : Holds(s)' => Holds(s) /\ req'[s] = req[s]
      BY <1>0, <1>1, QuietEffect DEF Moves, pool
    <2>2. \A k \in Keys : entry[k].cooling_until >= entry[k].cooling_until
      BY <1>0, FieldTypes, SMTT(30)
    <2>. QED BY <1>b, <2>1, <2>2
  <1>2. ASSUME NEW r \in Requests, Selects(r)
        PROVE  ProbeInv'
    <2>1. PICK k \in Keys : Picked(r, k)
      BY <1>0, <1>2, SelectEffect DEF Selects
    <2>3. /\ ~entry[k].half_open => entry'[k] = entry[k]
          /\ entry[k].half_open => entry'[k].cooling_until = D(now)
          /\ entry'[k].half_open = entry[k].half_open
      BY <1>0, <2>1, PickedEntry DEF D
    <2>4. /\ req'[r].sel.key = k
          /\ req'[r].sel.claim = IF entry[k].half_open THEN D(now) ELSE 0
      <3>1. req'[r].sel.key = k /\ req'[r].sel.claim = ClaimDeadline(entry[k])
        BY <2>1 DEF Picked
      <3>. QED BY <3>1 DEF ClaimDeadline, NoDeadline, D
    <2>5. ASSUME NEW s \in Requests \ {r}, NEW j
          PROVE  (Probing(s, j)' <=> Probing(s, j)) /\ req'[s] = req[s]
      <3>1. req'[s] = req[s] /\ now' = now
        BY <2>1 DEF Picked
      <3>. QED BY <3>1 DEF Probing, Holds
    <2>6. ASSUME entry[k].half_open, NEW s \in Requests
          PROVE  ~Probing(s, k)
      <3>1. entry[k].cooling_until <= now
        BY <1>0, <2>1, PickedEntry
      <3>2. ASSUME Probing(s, k)
            PROVE  FALSE
        <4>1. entry[k].cooling_until >= req[s].sel.claim
          BY <2>6, <3>2 DEF ProbeInv, ProbeCovered
        <4>2. req[s].sel.claim > now
          BY <3>2 DEF Probing
        <4>3. /\ entry[k].cooling_until \in Nat /\ now \in Nat
              /\ req[s].sel.claim \in Nat
          BY <1>0, FieldTypes
        <4>. QED BY <3>1, <4>1, <4>2, <4>3, SMTT(30)
      <3>. QED BY <3>2
    <2>7. ASSUME NEW j, Probing(r, j)'
          PROVE  j = k /\ entry[k].half_open
      <3>1. req'[r].sel.key = j /\ req'[r].sel.claim > now' /\ now' = now
        BY <2>1, <2>7 DEF Probing, Picked
      <3>. QED BY <1>a, <2>4, <3>1, SMTT(30)
    <2>8. OneProbe'
      <3> SUFFICES ASSUME NEW j \in Keys, NEW s \in Requests, NEW u \in Requests,
                          Probing(s, j)', Probing(u, j)'
                   PROVE  s = u
        BY DEF OneProbe
      <3>1. CASE s # r /\ u # r
        BY <2>5, <3>1 DEF ProbeInv, OneProbe
      <3>2. CASE s = r /\ u # r
        BY <2>5, <2>6, <2>7, <3>2
      <3>3. CASE s # r /\ u = r
        BY <2>5, <2>6, <2>7, <3>3
      <3>. QED BY <3>1, <3>2, <3>3
    <2>9. ASSUME NEW j \in Keys, NEW s \in Requests, Probing(s, j)'
          PROVE  /\ req'[s].sel.claim <= D(now')
                 /\ entry'[j].half_open => entry'[j].cooling_until >= req'[s].sel.claim
      <3>0. now' = now
        BY <2>1 DEF Picked
      <3>1. CASE s = r
        <4>1. /\ j = k /\ entry[k].half_open
              /\ req'[r].sel.claim = D(now) /\ entry'[k].cooling_until = D(now)
          BY <2>3, <2>4, <2>7, <2>9, <3>1
        <4>. QED BY <1>a, <3>0, <3>1, <4>1
      <3>2. CASE s # r
        <4>1. Probing(s, j) /\ req'[s] = req[s]
          BY <2>5, <2>9, <3>2
        <4>2. CASE j = k
          BY <2>3, <2>6, <3>0, <4>1, <4>2 DEF ProbeInv, ProbeCovered, D
        <4>3. CASE j # k
          BY <2>1, <3>0, <4>1, <4>3 DEF Picked, ProbeInv, ProbeCovered, D
        <4>. QED BY <4>2, <4>3
      <3>. QED BY <3>1, <3>2
    <2>. QED BY <2>8, <2>9 DEF ProbeInv, ProbeCovered, D
  <1>3. ASSUME NEW r \in Requests, Fails(r)
        PROVE  ProbeInv'
    <2>1. now' = now /\ \A s \in Requests : Holds(s)' => Holds(s) /\ req'[s] = req[s]
      BY <1>0, <1>3, QuietEffect DEF Fails
    <2>2. \A k \in Keys : entry[k].cooling_until >= entry[k].cooling_until
      BY <1>0, FieldTypes, SMTT(30)
    <2>. QED BY <1>0, <1>3, <1>b, <2>1, <2>2, ReportedEffect DEF Fails, Worse, D
  <1>4. ASSUME NEW r \in Requests, report_success(r)
        PROVE  ProbeInv'
    <2>1. now' = now /\ \A s \in Requests : Holds(s)' => Holds(s) /\ req'[s] = req[s]
      BY <1>0, <1>4, SuccessTypes, QuietEffect
    <2>2. ASSUME NEW k \in Keys, entry'[k].half_open
          PROVE  entry[k].half_open /\ entry'[k].cooling_until >= entry[k].cooling_until
      <3>1. entry'[k] = entry[k]
        BY <1>0, <1>4, <2>2, SuccessEffect, ResetFields
      <3>. QED BY <1>0, <2>2, <3>1, FieldTypes, SMTT(30)
    <2>. QED BY <1>b, <2>1, <2>2
  <1>5. ASSUME NEW p \in Polls, NEW k \in Keys, NEW c \in UsageCooldowns,
               ProactiveObserve(p, k, c)
        PROVE  ProbeInv'
    BY <1>5 DEF ProactiveObserve, pool, ProbeInv, ProbeCovered, OneProbe, Probing, Holds
  <1>6. ASSUME NEW p \in Polls, report_proactive_cooldown(p)
        PROVE  ProbeInv'
    <2>1. Reported(poll[p].key, next_id) /\ now' = now /\ UNCHANGED req
      BY <1>6, ProactiveReports DEF Base, report_proactive_cooldown
    <2>2. \A k \in Keys : entry[k].cooling_until >= entry[k].cooling_until
      BY <1>0, FieldTypes, SMTT(30)
    <2>. QED BY <1>0, <1>b, <2>1, <2>2, ReportedEffect DEF Worse, D, Holds
  <1>7. ASSUME NEW l \in KeyLists, replace_keys(l)
        PROVE  ProbeInv'
    <2>1. UNCHANGED <<now, req>> /\ \A k \in Keys : entry'[k] = entry[k] \/ entry'[k] = Fresh
      BY <1>7 DEF replace_keys
    <2>2. ~Fresh.half_open
      BY DEF Fresh
    <2>3. \A k \in Keys : entry[k].cooling_until >= entry[k].cooling_until
      BY <1>0, FieldTypes, SMTT(30)
    <2>. QED BY <1>b, <2>1, <2>2, <2>3 DEF Holds
  <1>8. CASE Tick
    <2>1. now' = now + 1 /\ UNCHANGED <<entry, req>>
      BY <1>8 DEF Tick, pool
    <2>2. \A k \in Keys : entry[k].cooling_until >= entry[k].cooling_until
      BY <1>0, FieldTypes, SMTT(30)
    <2>. QED BY <1>b, <2>1, <2>2 DEF Holds
  <1>9. CASE UNCHANGED vars
    BY <1>9 DEF vars, ProbeInv, ProbeCovered, OneProbe, Probing, Holds
  <1>. QED BY <1>1, <1>2, <1>3, <1>4, <1>5, <1>6, <1>7, <1>8, <1>9, StepKinds

\* A tripped key has at most one running probe, however selections, failures,
\* usage observations and reloads interleave.
THEOREM BreakerLetsOneThrough == Spec => []OneProbe
  <1>1. Init => ProbeInv
    BY SMTT(30) DEF Init, ProbeInv, ProbeCovered, OneProbe, Probing, Holds, NewRequest
  <1>2. Base /\ ProbeInv /\ [Next]_vars => (Base /\ ProbeInv)'
    BY ProbeStep, BaseStep
  <1>3. ProbeInv => OneProbe
    BY DEF ProbeInv
  <1>. QED BY <1>1, <1>2, <1>3, BaseInit, PTL DEF Spec

-----------------------------------------------------------------------------
(***************************************************************************)
(* What a step may never do.                                               *)
(***************************************************************************)
\* No step shortens a cooldown except by a reset.
LEMMA NeverShortenedStep == Base /\ [Next]_vars => NeverShortened
  <1> SUFFICES ASSUME Base, [Next]_vars, NEW k \in Live \cap Live',
                      entry'[k].cooling_until < entry[k].cooling_until
               PROVE  Resets(k)
    BY DEF NeverShortened
  <1>0. TypeOK /\ TypeOK'
    BY BaseStep DEF Base
  <1>a. k \in Keys
    BY <1>0, OrderFacts
  <1>b. /\ entry[k].cooling_until \in Nat /\ entry'[k].cooling_until \in Nat
        /\ entry[k] \in KeyEntry /\ now \in Nat /\ next_id \in Int
    BY <1>0, <1>a, SMTT(30) DEF TypeOK, KeyEntry
  <1>c. entry'[k] # entry[k]
    BY <1>b, SMTT(30)
  <1>1. ASSUME NEW r \in Requests, Moves(r)
        PROVE  FALSE
    BY <1>1, <1>c DEF Moves, pool
  <1>2. ASSUME NEW r \in Requests, Selects(r)
        PROVE  FALSE
    <2>1. PICK j \in Keys : Picked(r, j)
      BY <1>0, <1>2, SelectEffect DEF Selects
    <2>2. j = k
      BY <1>a, <1>c, <2>1 DEF Picked
    <2>3. entry'[k].cooling_until \in {entry[k].cooling_until, deadline_after(now, BreakerCooldown)}
      BY <1>0, <2>1, <2>2, PickedEntry
    <2>4. entry[k].cooling_until <= now
      BY <1>0, <2>1, <2>2, PickedEntry
    <2>5. /\ deadline_after(now, BreakerCooldown) \in Nat
          /\ deadline_after(now, BreakerCooldown) >= now
      BY <1>b, DeadlineAfter, PolicyAssumption
    <2>. QED BY <1>b, <2>3, <2>4, <2>5, SMTT(30)
  <1>3. ASSUME NEW r \in Requests, Fails(r)
        PROVE  FALSE
    BY <1>0, <1>3, <1>a, <1>b, <1>c, ReportedEffect, SMTT(30) DEF Fails, Worse
  <1>4. ASSUME NEW r \in Requests, report_success(r)
        PROVE  Resets(k)
    BY <1>0, <1>4, <1>a, <1>c, SuccessEffect DEF Resets
  <1>5. ASSUME NEW p \in Polls, NEW j \in Keys, NEW c \in UsageCooldowns,
               ProactiveObserve(p, j, c)
        PROVE  FALSE
    BY <1>5, <1>c DEF ProactiveObserve, pool
  <1>6. ASSUME NEW p \in Polls, report_proactive_cooldown(p)
        PROVE  FALSE
    <2>1. Reported(poll[p].key, next_id)
      BY <1>6, ProactiveReports DEF Base
    <2>. QED BY <1>0, <1>a, <1>b, <1>c, <2>1, ReportedEffect, SMTT(30) DEF Worse
  <1>7. ASSUME NEW l \in KeyLists, replace_keys(l)
        PROVE  FALSE
    BY <1>7, <1>a, <1>c DEF replace_keys, Live
  <1>8. CASE Tick \/ UNCHANGED vars
    BY <1>8, <1>c DEF Tick, pool, vars
  <1>. QED BY <1>1, <1>2, <1>3, <1>4, <1>5, <1>6, <1>7, <1>8, StepKinds

\* Only a success that is not older than the key's last failure marker ends a
\* cooldown early.
THEOREM CooldownsNeverShortened == Spec => CooldownNeverShortened
  <1>1. Base /\ [Next]_vars => [NeverShortened]_vars
    BY NeverShortenedStep
  <1>. QED BY <1>1, BaseInit, BaseStep, PTL DEF Spec, CooldownNeverShortened

-----------------------------------------------------------------------------
(***************************************************************************)
(* Silences.  What the entries hold is what was reported, although         *)
(* successes, claims and failures rewrite the entries in between.          *)
(***************************************************************************)
SilenceKnown == /\ silent \in [Keys -> [Models -> Nat]]
                /\ \A k \in Keys : silent[k] = entry[k].liveness_cooling

SameSilences == \A k \in Keys : entry'[k].liveness_cooling = entry[k].liveness_cooling

\* Writing an entry with the same silences changes none.
LEMMA StoreSilences ==
  ASSUME TypeOK, NEW k \in Live, NEW f, f.liveness_cooling = entry[k].liveness_cooling,
         NEW applied, NEW t, Store(k, f, applied, t)
  PROVE  SameSilences
  <1>1. k \in Keys
    BY OrderFacts
  <1>2. entry'[k] = f /\ \A j \in Keys \ {k} : entry'[j] = entry[j]
    BY <1>1 DEF Store, TypeOK
  <1>. QED BY <1>2 DEF SameSilences

\* A network failure, counted or tripping the breaker, leaves the silences alone.
LEMMA NetworkSilences ==
  ASSUME NEW e \in KeyEntry, NEW d, NEW id
  PROVE  /\ CountFailure(e, id).liveness_cooling = e.liveness_cooling
         /\ Trip(e, d, id).liveness_cooling = e.liveness_cooling
  BY DEF Cooled, CountFailure, Trip, KeyEntry

\* No report but that of a silence changes one.
LEMMA ReportSilences ==
  ASSUME TypeOK, NEW r \in Requests, Report(r)
  PROVE  SameSilences
  <1> DEFINE k == req[r].sel.key
             id == req[r].sel.id
  <1>0. \A j \in Live : entry[j] \in KeyEntry
    BY HeldFacts
  <1>a. UNCHANGED entry => SameSilences
    BY DEF SameSilences
  <1>1. CASE report_success(r)
    BY <1>1, SuccessEffect, ResetFields DEF SameSilences
  <1>2. ASSUME NEW c \in UsageCooldowns, UsageLimit(r, c)
        PROVE  SameSilences
    <2> DEFINE d == deadline_after(now, c)
               f == Cooled(entry[k], d, "usage_limit", id)
    <2>1. UNCHANGED entry \/ (k \in Live /\ Store(k, f, TRUE, now))
      BY <1>2 DEF UsageLimit, Removed
    <2>2. ASSUME k \in Live
          PROVE  f.liveness_cooling = entry[k].liveness_cooling
      <3>1. entry[k] \in KeyEntry
        BY <1>0, <2>2
      <3>. QED BY <3>1 DEF Cooled, KeyEntry
    <2> HIDE DEF f
    <2>. QED BY <1>a, <2>1, <2>2, StoreSilences
  <1>3. ASSUME NEW reason \in {"rate_limited", "unavailable"}, NEW ra \in RetryAfters,
               BackOff(r, reason, ra)
        PROVE  SameSilences
    <2> DEFINE f(d) == [Cooled(entry[k], d, reason, id)
                          EXCEPT !.backoff_step = BackoffStep(entry[k], ra)]
    <2>1. UNCHANGED entry \/ (k \in Live /\ \E d : Store(k, f(d), TRUE, now))
      BY <1>3 DEF BackOff, Removed
    <2>2. ASSUME k \in Live, NEW d
          PROVE  f(d).liveness_cooling = entry[k].liveness_cooling
      <3>1. entry[k] \in KeyEntry
        BY <1>0, <2>2
      <3>. QED BY <3>1 DEF Cooled, KeyEntry
    <2> HIDE DEF f
    <2>. QED BY <1>a, <2>1, <2>2, StoreSilences
  <1>4. CASE Server(r)
    BY <1>a, <1>4 DEF Server
  <1>5. CASE Network(r)
    <2> DEFINE d == deadline_after(now, BreakerCooldown)
    <2>1. \/ UNCHANGED entry
          \/ k \in Live /\ Store(k, CountFailure(entry[k], id), FALSE, now)
          \/ k \in Live /\ Store(k, Trip(entry[k], d, id), TRUE, now)
      BY <1>5 DEF Network, Removed
    <2>2. ASSUME k \in Live
          PROVE  /\ CountFailure(entry[k], id).liveness_cooling = entry[k].liveness_cooling
                 /\ Trip(entry[k], d, id).liveness_cooling = entry[k].liveness_cooling
      BY <1>0, <2>2, NetworkSilences
    <2>. QED BY <1>a, <2>1, <2>2, StoreSilences
  <1>. QED BY <1>1, <1>2, <1>3, <1>4, <1>5 DEF Report

\* Nor does any other step but a reload.
LEMMA StepSilences ==
  ASSUME TypeOK, Step
  PROVE  SameSilences
  <1>a. UNCHANGED entry => SameSilences
    BY DEF SameSilences
  <1>1. ASSUME NEW r \in Requests, Select(r)
        PROVE  SameSilences
    <2>1. PICK k \in Keys : Picked(r, k)
      BY <1>1, SelectEffect
    <2>2. entry'[k].liveness_cooling = entry[k].liveness_cooling
      BY <2>1, PickedEntry
    <2>3. \A j \in Keys \ {k} : entry'[j] = entry[j]
      BY <2>1 DEF Picked
    <2>. QED BY <2>2, <2>3 DEF SameSilences
  <1>2. ASSUME NEW r \in Requests, NextStep(r)
        PROVE  SameSilences
    BY <1>1, <1>2, <1>a DEF NextStep, TrySelect, ReadClock, Recover, Wake, Goto, Finish, pool
  <1>3. ASSUME NEW p \in Polls, report_proactive_cooldown(p)
        PROVE  SameSilences
    <2> DEFINE k == poll[p].key
               f == Cooled(entry[k], poll[p].deadline, "proactive_usage", next_id)
    <2>1. UNCHANGED entry \/ (k \in Live /\ Store(k, f, TRUE, poll[p].at))
      BY <1>3 DEF report_proactive_cooldown
    <2>2. ASSUME k \in Live
          PROVE  f.liveness_cooling = entry[k].liveness_cooling
      <3>1. entry[k] \in KeyEntry
        BY <2>2, OrderFacts DEF TypeOK
      <3>. QED BY <3>1 DEF Cooled, KeyEntry
    <2> HIDE DEF f
    <2>. QED BY <1>a, <2>1, <2>2, StoreSilences
  <1>4. ASSUME NEW r \in Requests,
               \/ Request(r) \/ (\E m \in Models : set_model(r, m)) \/ AttemptsSpent(r)
               \/ NextImmediateNone(r) \/ Drop(r)
        PROVE  SameSilences
    BY <1>4, <1>a DEF Request, set_model, AttemptsSpent, NextImmediateNone, Drop, Finish, pool
  <1>5. ASSUME \/ \E p \in Polls : \E k \in Keys, c \in UsageCooldowns : ProactiveObserve(p, k, c)
               \/ Tick
        PROVE  SameSilences
    BY <1>5, <1>a DEF ProactiveObserve, Tick, pool
  <1>. QED BY <1>2, <1>3, <1>4, <1>5, ReportSilences DEF Step

\* Initially nothing is silent.
LEMMA KnownInit == Init => SilenceKnown
  BY SMTT(30) DEF Init, SilenceKnown, Fresh, NoDeadline

\* Every step keeps the entries in agreement with what was reported: a reload
\* forgets the silences of the keys it removes, on both sides.
LEMMA KnownStep == Base /\ SilenceKnown /\ [Next]_vars => SilenceKnown'
  <1> SUFFICES ASSUME Base, SilenceKnown, [Next]_vars
               PROVE  SilenceKnown'
    OBVIOUS
  <1>0. TypeOK /\ now \in Nat
    BY DEF Base, TypeOK
  <1>1. CASE Step /\ UNCHANGED silent
    BY <1>0, <1>1, StepSilences DEF SilenceKnown, SameSilences
  <1>2. ASSUME NEW r \in Requests, report_liveness_failure(r), Silenced(r)
        PROVE  SilenceKnown'
    <2> DEFINE k == req[r].sel.key
               m == req[r].model
               d == deadline_after(now, BackoffInitial)
               f == [entry[k] EXCEPT !.liveness_cooling[m] = d]
    <2>1. CASE k \notin Live
      <3>1. UNCHANGED <<entry, silent>>
        BY <1>2, <2>1 DEF report_liveness_failure, Removed, Silenced
      <3>. QED BY <3>1 DEF SilenceKnown
    <2>2. CASE k \in Live
      <3>1. Store(k, f, FALSE, now)
        BY <1>2, <2>2 DEF report_liveness_failure, Removed
      <3>2. k \in Keys /\ entry[k] \in KeyEntry
        BY <1>0, <2>2, OrderFacts DEF TypeOK
      <3>3. entry'[k] = f /\ \A j \in Keys \ {k} : entry'[j] = entry[j]
        BY <1>0, <3>1, <3>2 DEF Store, TypeOK
      <3>4. f.liveness_cooling = [entry[k].liveness_cooling EXCEPT ![m] = d]
        BY <3>2 DEF KeyEntry
      <3>5. d \in Nat
        BY <1>0, DeadlineAfter, PolicyAssumption
      <3>6. silent' = [silent EXCEPT ![k] = [silent[k] EXCEPT ![m] = d]]
        BY <1>2, <2>2, <3>2 DEF Silenced, SilenceKnown
      <3> HIDE DEF f, d
      <3>7. silent'[k] = [silent[k] EXCEPT ![m] = d]
        BY <3>2, <3>6 DEF SilenceKnown
      <3>8. \A j \in Keys \ {k} : silent'[j] = silent[j]
        BY <3>6 DEF SilenceKnown
      <3>9. silent' \in [Keys -> [Models -> Nat]]
        BY <3>2, <3>5, <3>6 DEF SilenceKnown
      <3>. QED BY <3>2, <3>3, <3>4, <3>7, <3>8, <3>9 DEF SilenceKnown
    <2>. QED BY <2>1, <2>2
  <1>3. ASSUME NEW l \in KeyLists, replace_keys(l), Forgotten(l)
        PROVE  SilenceKnown'
    <2>1. Fresh.liveness_cooling = [m \in Models |-> NoDeadline] /\ NoDeadline \in Nat
      BY SMTT(30) DEF Fresh, NoDeadline
    <2>2. silent' \in [Keys -> [Models -> Nat]]
      BY <1>3, <2>1 DEF Forgotten, SilenceKnown
    <2>3. ASSUME NEW k \in Keys
          PROVE  silent'[k] = entry'[k].liveness_cooling
      BY <1>3, <2>1 DEF Forgotten, replace_keys, SilenceKnown
    <2>. QED BY <2>2, <2>3 DEF SilenceKnown
  <1>4. CASE UNCHANGED vars
    BY <1>4 DEF vars, SilenceKnown
  <1>. QED BY <1>1, <1>2, <1>3, <1>4 DEF Next

\* A request that searches either selects or has found nothing selectable.
LEMMA SearchOutcome ==
  ASSUME Base, [Next]_vars, NEW r \in Requests, Searches(r)
  PROVE  Select(r) \/ (NoneSelectable(r) /\ req'[r].pc # "holding")
  <1>0. TypeOK
    BY DEF Base
  <1>a. req'[r].pc # req[r].pc
    BY DEF Searches
  <1>1. ASSUME NEW s \in Requests, s # r, Acts(s)
        PROVE  FALSE
    <2>1. CASE Selects(s)
      BY <1>0, <1>1, <1>a, <2>1, SelectEffect DEF Selects, Picked
    <2>2. CASE Moves(s) \/ Fails(s) \/ report_success(s)
      <3>1. Quiet(s)
        BY <1>0, <2>2, SuccessTypes DEF Moves, Fails
      <3>. QED BY <1>0, <1>1, <1>a, <3>1, QuietEffect
    <2>. QED BY <1>1, <2>1, <2>2, ActionKinds
  <1>2. CASE Acts(r)
    <2>1. CASE TrySelect(r) \/ NextImmediateNone(r)
      <3>1. ASSUME Goto(r, "stuck") \/ Finish(r, "exhausted")
            PROVE  req'[r].pc # "holding"
        BY <1>0, <3>1 DEF Goto, Finish, NewRequest, TypeOK, RequestAttempts
      <3>. QED BY <2>1, <3>1 DEF TrySelect, NextImmediateNone
    <2>2. CASE Drop(r)
      <3>1. req'[r].pc = "done"
        BY <1>0, <2>2 DEF Drop, Finish, NewRequest, TypeOK, RequestAttempts
      <3>. QED BY <3>1 DEF Searches
    <2>3. ~(Report(r) \/ report_liveness_failure(r))
      BY DEF Searches, Report, report_liveness_failure, report_success, UsageLimit, BackOff,
             Server, Network, Failed, Holds
    <2>4. ~(\/ Request(r) \/ (\E m \in Models : set_model(r, m)) \/ AttemptsSpent(r)
            \/ ReadClock(r) \/ Recover(r) \/ Wake(r))
      BY DEF Searches, Request, set_model, AttemptsSpent, ReadClock, Recover, Wake
    <2>. QED BY <1>2, <2>1, <2>2, <2>3, <2>4 DEF Acts, NextStep
  <1>3. ASSUME \/ \E p \in Polls : \E k \in Keys, c \in UsageCooldowns : ProactiveObserve(p, k, c)
               \/ \E p \in Polls : report_proactive_cooldown(p)
               \/ \E l \in KeyLists : replace_keys(l)
               \/ Tick \/ UNCHANGED vars
        PROVE  FALSE
    BY <1>3, <1>a DEF ProactiveObserve, report_proactive_cooldown, replace_keys, Tick, vars
  <1>. QED BY <1>1, <1>2, <1>3 DEF Next, Step, Acts

\* A search heeds what was reported.
LEMMA HeededStep ==
  ASSUME Base, SilenceKnown, [Next]_vars, NEW r \in Requests, Searches(r)
  PROVE  Heeded(r)
  <1>0. TypeOK /\ Live \subseteq Keys
    BY OrderFacts DEF Base
  <1>a. \A k \in Keys : Silent(r, k) <=> LivenessCooling(entry[k], req[r].model)
    BY DEF SilenceKnown, Silent, LivenessCooling
  <1>1. CASE Select(r)
    <2>1. PICK k \in Keys : Picked(r, k)
      BY <1>0, <1>1, SelectEffect
    <2>. QED BY <1>a, <2>1 DEF Picked, Heeded
  <1>2. CASE NoneSelectable(r) /\ req'[r].pc # "holding"
    BY <1>0, <1>a, <1>2 DEF NoneSelectable, Selectable, Heeded
  <1>. QED BY <1>1, <1>2, SearchOutcome

\* A silence reported for a key and a model keeps that key from requests for
\* that model until it ends, and from no other request.
THEOREM SilencesHeeded == Spec => SilenceHeeded
  <1>1. Base /\ SilenceKnown /\ [Next]_vars =>
          [\A r \in Requests : Searches(r) => Heeded(r)]_vars
    BY HeededStep
  <1>2. Base /\ SilenceKnown /\ [Next]_vars => (Base /\ SilenceKnown)'
    BY BaseStep, KnownStep
  <1>. QED BY <1>1, <1>2, BaseInit, KnownInit, PTL DEF Spec, SilenceHeeded

-----------------------------------------------------------------------------
\* From here on sets are counted.
INSTANCE FiniteSetTheorems

(***************************************************************************)
(* Attempts.  The used keys are a finite set, or their number would say    *)
(* nothing.                                                                *)
(***************************************************************************)
AttemptsInv == AttemptsBounded /\ \A r \in Requests : IsFiniteSet(req[r].used)

\* Every step keeps the attempts of each request within its budget.
LEMMA AttemptsStep == Base /\ AttemptsInv /\ [Next]_vars => AttemptsInv'
  <1> SUFFICES ASSUME Base, AttemptsInv, [Next]_vars
               PROVE  AttemptsInv'
    OBVIOUS
  <1> DEFINE Good(q) == /\ IsFiniteSet(q.used) /\ Cardinality(q.used) <= MaxAttempts
                        /\ q.used \subseteq Range(q.candidates)
                        /\ q.pc = "holding" => q.sel.key \in q.used
  <1>0. TypeOK
    BY DEF Base
  <1>a. AttemptsInv <=> \A r \in Requests : Good(req[r])
    BY DEF AttemptsInv, AttemptsBounded, Holds
  <1>b. AttemptsInv' <=> \A r \in Requests : Good(req'[r])
    BY DEF AttemptsInv, AttemptsBounded, Holds
  <1>1. ASSUME NEW s \in Requests, Quiet(s)
        PROVE  AttemptsInv'
    <2>1. PICK q \in RequestAttempts :
             /\ req' = [req EXCEPT ![s] = q]
             /\ q.pc \notin {"new", "holding"}
             /\ \/ q.used = {}
                \/ q.used = req[s].used /\ q.candidates = req[s].candidates
      BY <1>1 DEF Quiet
    <2>2. IsFiniteSet({}) /\ Cardinality({}) = 0
      BY FS_EmptySet
    <2>3. Good(q)
      <3>1. CASE q.used = {}
        <4>1. Cardinality(q.used) <= MaxAttempts
          BY <2>2, <3>1, PolicyAssumption, SMTT(30)
        <4>. QED BY <2>1, <2>2, <3>1, <4>1
      <3>2. CASE q.used = req[s].used /\ q.candidates = req[s].candidates
        BY <1>a, <2>1, <3>2
      <3>. QED BY <2>1, <3>1, <3>2
    <2>. QED BY <1>0, <1>a, <1>b, <2>1, <2>3 DEF TypeOK
  <1>2. ASSUME NEW s \in Requests, Selects(s)
        PROVE  AttemptsInv'
    <2>1. PICK k \in Keys : Picked(s, k)
      BY <1>0, <1>2, SelectEffect DEF Selects
    <2>2. /\ IsFiniteSet(req[s].used) /\ Cardinality(req[s].used) < MaxAttempts
          /\ req[s].used \subseteq Range(req[s].candidates)
      BY <1>2, <1>a DEF Selects, BudgetLeft
    <2>3. /\ IsFiniteSet(req[s].used \cup {k})
          /\ Cardinality(req[s].used \cup {k}) = Cardinality(req[s].used) + 1
          /\ Cardinality(req[s].used) \in Nat
      <3>1. k \notin req[s].used
        BY <2>1 DEF Picked
      <3>2. Cardinality(req[s].used) \in Nat
        BY <2>2, FS_CardinalityType
      <3>3. IsFiniteSet(req[s].used \cup {k})
        BY <2>2, FS_AddElement
      <3>. QED BY <2>2, <3>1, <3>2, <3>3, FS_AddElement
    <2>4. Good(req'[s])
      <3>1. /\ req'[s].used = req[s].used \cup {k}
            /\ req'[s].candidates = req[s].candidates
            /\ req'[s].sel.key = k /\ k \in Range(req[s].candidates)
        BY <2>1 DEF Picked
      <3>2. Cardinality(req'[s].used) <= MaxAttempts
        BY <2>2, <2>3, <3>1, PolicyAssumption, SMTT(30)
      <3>3. req'[s].used \subseteq Range(req'[s].candidates)
        BY <2>2, <3>1
      <3>. QED BY <2>3, <3>1, <3>2, <3>3
    <2>. QED BY <1>a, <1>b, <2>1, <2>4 DEF Picked
  <1>3. ASSUME UNCHANGED req
        PROVE  AttemptsInv'
    BY <1>3, <1>a, <1>b
  <1>4. ASSUME \/ \E p \in Polls : \E k \in Keys, c \in UsageCooldowns : ProactiveObserve(p, k, c)
               \/ \E p \in Polls : report_proactive_cooldown(p)
               \/ \E l \in KeyLists : replace_keys(l)
               \/ Tick \/ UNCHANGED vars
        PROVE  UNCHANGED req
    BY <1>4 DEF ProactiveObserve, report_proactive_cooldown, replace_keys, Tick, vars
  <1>5. ASSUME NEW s \in Requests, Moves(s) \/ Fails(s) \/ report_success(s)
        PROVE  Quiet(s)
    BY <1>0, <1>5, SuccessTypes DEF Moves, Fails
  <1>. QED BY <1>1, <1>2, <1>3, <1>4, <1>5, StepKinds

\* No request tries more than max_attempts keys, or one it did not pin.
THEOREM AttemptsAreBounded == Spec => []AttemptsBounded
  <1>1. Init => AttemptsInv
    <2>1. IsFiniteSet({}) /\ Cardinality({}) <= MaxAttempts
      BY FS_EmptySet, PolicyAssumption, SMTT(30)
    <2>2. ASSUME Init, NEW r \in Requests
          PROVE  req[r].used = {} /\ ~Holds(r)
      BY <2>2 DEF Init, Holds, NewRequest
    <2>. QED BY <2>1, <2>2 DEF AttemptsInv, AttemptsBounded
  <1>2. Base /\ AttemptsInv /\ [Next]_vars => (Base /\ AttemptsInv)'
    BY AttemptsStep, BaseStep
  <1>3. AttemptsInv => AttemptsBounded
    BY DEF AttemptsInv
  <1>. QED BY <1>1, <1>2, <1>3, BaseInit, PTL DEF Spec
=============================================================================
