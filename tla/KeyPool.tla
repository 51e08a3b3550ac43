------------------------------- MODULE KeyPool -------------------------------
(***************************************************************************)
(* The fill-first pool of upstream keys (src/src/pool.rs).                 *)
(*                                                                         *)
(* The pool is one RwLock<PoolState> and an atomic id counter.  Every      *)
(* critical section under that lock is one action.  A request calls        *)
(* request(), then next() or next_immediate() for each attempt, and        *)
(* reports the outcome of every selection it was given at most once; the   *)
(* usage monitor calls report_proactive_cooldown; hot reload calls         *)
(* replace_keys.  next() takes the lock twice and reads the clock in       *)
(* between, so it is three actions with a suspension point.                *)
(*                                                                         *)
(* Time is a natural number advanced by Tick.  An Option<Instant> is a     *)
(* natural number with NoDeadline for None: the code only ever asks        *)
(* whether a deadline is later than a clock reading, and NoDeadline is     *)
(* later than none.  An Option<u64> id is an integer with NoId for None.   *)
(***************************************************************************)
EXTENDS Integers, Sequences, FiniteSets, Functions

CONSTANTS
    Keys,              \* key fingerprints
    Models,            \* model names a request can ask for
    Requests,          \* client requests, each makes one attempt series
    Polls,             \* proactive usage observations, each reported once
    NoKey, NoModel,    \* absent values
    KeyLists,          \* key lists hot reload can install
    UsageCooldowns,    \* reset durations of usage-limit responses and polls
    RetryAfters,       \* Retry-After values; 0 is an absent or zero header
    BackoffInitial, BackoffMax, BreakerThreshold, BreakerCooldown,
    WaitTimeout, MaxAttempts,           \* PoolPolicy
    MaxCooldown,       \* MAX_COOLDOWN
    MaxClock           \* bound: time stops here

(***************************************************************************)
(* PoolPolicy::validate, and what config validation and with_jitter demand *)
(* of a key list: not empty, no duplicates.                                *)
(***************************************************************************)
ASSUME PolicyAssumption ==
    /\ BackoffInitial \in Nat \ {0}
    /\ BackoffMax \in Nat /\ BackoffMax >= BackoffInitial
    /\ BreakerThreshold \in Nat \ {0}
    /\ BreakerCooldown \in Nat \ {0}
    /\ WaitTimeout \in Nat \ {0}
    /\ MaxAttempts \in 1..2
    /\ MaxCooldown \in Nat \ {0}
    /\ MaxClock \in Nat

ASSUME InputAssumption ==
    /\ KeyLists # {}
    /\ \A l \in KeyLists : /\ l \in Seq(Keys)
                           /\ Len(l) > 0
                           /\ IsInjective(l)
    /\ UsageCooldowns \subseteq Nat
    /\ RetryAfters \subseteq Nat
    /\ NoKey \notin Keys
    /\ NoModel \notin Models

VARIABLES
    order,    \* PoolState.entries: the key list, in order
    cursor,   \* PoolState.cursor, an offset into order
    entry,    \* the KeyEntry of each key; Fresh for a key not in order
    next_id,  \* PoolInner.next_id
    req,      \* the RequestAttempts of each request and where it is in next()
    poll,     \* usage observations being reported
    now,      \* the clock
    silent    \* history: until when a reported silence of key and model lasts

pool == <<order, cursor, entry, next_id>>
state == <<order, cursor, entry, next_id, req, poll, now>>
vars == <<order, cursor, entry, next_id, req, poll, now, silent>>

NoDeadline == 0
NoId == -1

Reasons == {"none", "proactive_usage", "usage_limit", "rate_limited",
            "unavailable", "circuit_breaker"}

KeyEntry == [cooling_until: Nat, cooling_reason: Reasons, cooling_by: Int,
             consecutive_failures: Nat, backoff_step: Nat,
             last_failure_by: Int, half_open: BOOLEAN,
             liveness_cooling: [Models -> Nat]]

Fresh == [cooling_until |-> NoDeadline, cooling_reason |-> "none",
          cooling_by |-> NoId, consecutive_failures |-> 0,
          backoff_step |-> 0, last_failure_by |-> NoId,
          half_open |-> FALSE,
          liveness_cooling |-> [m \in Models |-> NoDeadline]]

(***************************************************************************)
(* claim is a history field: the deadline the selection put on a half-open *)
(* key when it claimed it, NoDeadline for any other selection.             *)
(***************************************************************************)
Selection == [key: Keys \cup {NoKey}, id: Int, claim: Nat]
NoSelection == [key |-> NoKey, id |-> NoId, claim |-> NoDeadline]

(***************************************************************************)
(* Where a request is.  body: request() ran, set_model did not yet.        *)
(* ready: about to run try_select_unused.  stuck: it found nothing, the    *)
(* clock is read next.  timed: earliest_recovery runs next.  sleeping: in  *)
(* sleep_until.  holding: an attempt is in flight.  The rest are results.  *)
(***************************************************************************)
PCs == {"new", "body", "ready", "stuck", "timed", "sleeping", "holding",
        "unavailable", "exhausted", "done"}
InNext == {"stuck", "timed", "sleeping"}
Over == {"unavailable", "exhausted", "done"}

RequestAttempts ==
    [pc: PCs, candidates: Seq(Keys), used: SUBSET Keys, deadline: Nat,
     model: Models \cup {NoModel}, sel: Selection, clock: Nat, wake: Nat]

NewRequest == [pc |-> "new", candidates |-> <<>>, used |-> {},
               deadline |-> 0, model |-> NoModel, sel |-> NoSelection,
               clock |-> 0, wake |-> 0]

Observation == [pc: {"idle", "timed", "done"}, key: Keys \cup {NoKey},
                at: Nat, deadline: Nat]
NoObservation == [pc |-> "idle", key |-> NoKey, at |-> 0, deadline |-> 0]

Init ==
    /\ order \in KeyLists
    /\ cursor = 0
    /\ entry = [k \in Keys |-> Fresh]
    /\ next_id = 0
    /\ req = [r \in Requests |-> NewRequest]
    /\ poll = [p \in Polls |-> NoObservation]
    /\ now = 0
    /\ silent = [k \in Keys |-> [m \in Models |-> NoDeadline]]

-----------------------------------------------------------------------------
(***************************************************************************)
(* Helpers.                                                                *)
(***************************************************************************)
Min2(a, b) == IF a <= b THEN a ELSE b
Max2(a, b) == IF a >= b THEN a ELSE b

Live == Range(order)

\* Mutant: the cooldown is not clamped.
UnclampedDeadline(t, cooldown) == t + cooldown

\* A cooldown starting at the instant t ends here.
deadline_after(t, cooldown) == t + Min2(cooldown, MaxCooldown)

\* The doubling loop leaves BackoffInitial * 2^step, cut at BackoffMax.
backoff_at(step) == Min2(BackoffInitial * 2^Min2(step, 20), BackoffMax)

\* Cooldowns the jittered backoff can yield: up to half as long again, capped.
Backoffs(step) ==
    {c \in 0..BackoffMax : \E j \in 0..(backoff_at(step) \div 2) :
                              c = Min2(backoff_at(step) + j, BackoffMax)}

Cooling(e) == e.cooling_until > now

LivenessCooling(e, m) == m # NoModel /\ e.liveness_cooling[m] > now

\* Mutant: a report replaces whatever cooldown is in place.
NeverAbsorbed(e, d) == FALSE

\* A report is absorbed when a longer cooldown is already in place.
Absorbed(e, d) == e.cooling_until > d

Cooled(e, d, reason, id) ==
    [e EXCEPT !.cooling_until = d, !.cooling_reason = reason,
              !.cooling_by = id, !.last_failure_by = id]

\* Mutant: every report gets the same id.
StuckId == UNCHANGED next_id

\* next_id.fetch_add(1), always under the state lock.
TakeId == next_id' = next_id + 1

(***************************************************************************)
(* advance_cursor at instant t, the entries being ent: the first key after *)
(* the cursor that is not cooling, the cursor's own key last.              *)
(***************************************************************************)
Following(off) == (cursor + off) % Len(order)

advance_cursor(ent, t) ==
    LET Healthy(off) == ent[order[Following(off) + 1]].cooling_until <= t
    IN  \/ \E off \in 1..Len(order) :
              /\ Healthy(off)
              /\ \A o \in 1..(off - 1) : ~Healthy(o)
              /\ cursor' = Following(off)
        \/ /\ \A off \in 1..Len(order) : ~Healthy(off)
           /\ UNCHANGED cursor

-----------------------------------------------------------------------------
(***************************************************************************)
(* Request-scoped attempts.                                                *)
(***************************************************************************)

\* request(): the candidates are pinned, in cursor order, and the deadline of
\* all waits is fixed.  Bound: only a request whose deadline the clock reaches.
Request(r) ==
    /\ req[r].pc = "new"
    /\ now + WaitTimeout <= MaxClock
    /\ req' = [req EXCEPT
                 ![r].pc = "body",
                 ![r].candidates =
                     [i \in 1..Len(order) |-> order[Following(i - 1) + 1]],
                 ![r].deadline = deadline_after(now, WaitTimeout)]
    /\ UNCHANGED <<pool, poll, now>>

\* The gateway learns the model only when the body has been read.
set_model(r, m) ==
    /\ req[r].pc = "body"
    /\ req' = [req EXCEPT ![r].pc = "ready", ![r].model = m]
    /\ UNCHANGED <<pool, poll, now>>

\* The condition try_select_unused puts on a candidate.
Selectable(r, k) ==
    /\ k \notin req[r].used
    /\ k \in Live
    /\ ~Cooling(entry[k])
    /\ ~LivenessCooling(entry[k], req[r].model)

NoneSelectable(r) == \A k \in Range(req[r].candidates) : ~Selectable(r, k)

\* Mutant: a half-open key is handed out without being claimed.
NotClaimed(e, id) == e

\* A selection of a half-open key claims it for one breaker cooldown.
Claimed(e, id) ==
    IF e.half_open
    THEN Cooled(e, deadline_after(now, BreakerCooldown), "circuit_breaker", id)
    ELSE e

ClaimDeadline(e) ==
    IF e.half_open THEN deadline_after(now, BreakerCooldown) ELSE NoDeadline

\* try_select_unused when it finds a key: the first selectable candidate.
Select(r) ==
    \E i \in 1..Len(req[r].candidates) :
      LET k == req[r].candidates[i]
      IN  /\ Selectable(r, k)
          /\ \A j \in 1..(i - 1) : ~Selectable(r, req[r].candidates[j])
          /\ req' = [req EXCEPT
                       ![r].pc = "holding",
                       ![r].used = @ \cup {k},
                       ![r].sel = [key |-> k, id |-> next_id,
                                   claim |-> ClaimDeadline(entry[k])]]
          /\ entry' = [entry EXCEPT ![k] = Claimed(@, next_id)]
          /\ TakeId
          /\ UNCHANGED <<order, cursor, poll, now>>

has_unused(r) == ~(Range(req[r].candidates) \subseteq req[r].used)

Goto(r, pc) == /\ req' = [req EXCEPT ![r].pc = pc, ![r].clock = 0, ![r].wake = 0]
               /\ UNCHANGED <<pool, poll, now>>

\* The request is over and its RequestAttempts is dropped.
Finish(r, pc) == /\ req' = [req EXCEPT ![r] = [NewRequest EXCEPT !.pc = pc]]
                 /\ UNCHANGED <<pool, poll, now>>

BudgetLeft(r) == Cardinality(req[r].used) < MaxAttempts

\* next() and next_immediate() once the attempt budget is used up.
AttemptsSpent(r) == req[r].pc = "ready" /\ ~BudgetLeft(r) /\ Finish(r, "exhausted")

\* The first half of an iteration of next(): one critical section.  It is also
\* next_immediate() when that finds a key.
TrySelect(r) ==
    /\ req[r].pc = "ready" /\ BudgetLeft(r)
    /\ \/ Select(r)
       \/ NoneSelectable(r) /\ has_unused(r) /\ Goto(r, "stuck")
       \/ NoneSelectable(r) /\ ~has_unused(r) /\ Finish(r, "exhausted")

\* next_immediate() when nothing is selectable now: the gateway calls it when
\* an earlier attempt left a response, and then does not wait.
NextImmediateNone(r) ==
    /\ req[r].pc = "ready" /\ BudgetLeft(r)
    /\ req[r].used # {}
    /\ NoneSelectable(r)
    /\ Finish(r, "exhausted")

\* next() reads the clock before it asks for the earliest recovery.
ReadClock(r) ==
    /\ req[r].pc = "stuck"
    /\ req' = [req EXCEPT ![r].pc = "timed", ![r].clock = now]
    /\ UNCHANGED <<pool, poll, now>>

\* The deadlines earliest_recovery takes the minimum of.  Candidates already
\* used count too; a deadline that has passed does not.
RecoveryOf(r, k) ==
    Max2(entry[k].cooling_until,
         IF req[r].model = NoModel THEN NoDeadline
         ELSE entry[k].liveness_cooling[req[r].model])

Recoveries(r) ==
    {RecoveryOf(r, k) : k \in Live \cap Range(req[r].candidates)} \ 0..now

\* Mutant: next() keeps waiting after its deadline.
NeverOver(r) == FALSE

WaitOver(r) == req[r].clock >= req[r].deadline

\* The second half of an iteration of next().  Its test "earliest <= now" is
\* never true: earliest_recovery compares with a later clock reading.
Recover(r) ==
    /\ req[r].pc = "timed"
    /\ \/ /\ WaitOver(r) \/ Recoveries(r) = {}
          /\ Finish(r, "unavailable")
       \/ /\ ~WaitOver(r)
          /\ \E d \in Recoveries(r) :
                /\ \A other \in Recoveries(r) : d <= other
                /\ req' = [req EXCEPT ![r].pc = "sleeping", ![r].clock = 0,
                                      ![r].wake = Min2(d, req[r].deadline)]
          /\ UNCHANGED <<pool, poll, now>>

Wake(r) == req[r].pc = "sleeping" /\ now >= req[r].wake /\ Goto(r, "ready")

\* The client goes away, the response is committed and ends without a verdict
\* on the key, or the gateway gives the request up: nothing is reported.
Drop(r) == req[r].pc \notin {"new"} \cup Over /\ Finish(r, "done")

-----------------------------------------------------------------------------
(***************************************************************************)
(* Reports.  A report for a key that was removed changes nothing.          *)
(***************************************************************************)
Holds(r) == req[r].pc = "holding"

\* The attempt has failed and is reported: the request asks for another key.
Failed(r) == /\ Holds(r)
             /\ req' = [req EXCEPT ![r].pc = "ready", ![r].sel = NoSelection]
             /\ UNCHANGED <<order, next_id, poll, now>>

\* Entry k becomes e; the cursor moves on iff a cooldown was applied.
Store(k, e, applied, t) ==
    /\ entry' = [entry EXCEPT ![k] = e]
    /\ IF applied THEN advance_cursor([entry EXCEPT ![k] = e], t)
                  ELSE UNCHANGED cursor

Removed(r) == req[r].sel.key \notin Live /\ UNCHANGED <<entry, cursor>>

\* What a success makes of an entry: only the liveness cooldowns stay.
Reset(e) == [Fresh EXCEPT !.liveness_cooling = e.liveness_cooling]

report_success(r) ==
    LET k == req[r].sel.key
    IN  /\ Holds(r)
        /\ req' = [req EXCEPT ![r] = [NewRequest EXCEPT !.pc = "done"]]
        /\ UNCHANGED <<order, next_id, poll, now>>
        /\ \/ Removed(r)
           \/ /\ k \in Live
              /\ entry[k].last_failure_by > req[r].sel.id
              /\ UNCHANGED <<entry, cursor>>
           \/ /\ k \in Live
              /\ entry[k].last_failure_by <= req[r].sel.id
              /\ Store(k, Reset(entry[k]), FALSE, now)

\* Failure::UsageLimit: the reset duration is the cooldown.
UsageLimit(r, c) ==
    LET k == req[r].sel.key
        e == entry[k]
        d == deadline_after(now, c)
    IN  /\ Failed(r)
        /\ \/ Removed(r)
           \/ k \in Live /\ Absorbed(e, d) /\ UNCHANGED <<entry, cursor>>
           \/ /\ k \in Live /\ ~Absorbed(e, d)
              /\ Store(k, Cooled(e, d, "usage_limit", req[r].sel.id), TRUE, now)

\* Failure::RateLimited and Failure::Unavailable: a positive Retry-After is
\* honoured, otherwise the backoff applies and, unless absorbed, escalates.
BackoffStep(e, ra) == IF ra = 0 THEN e.backoff_step + 1 ELSE e.backoff_step

BackOff(r, reason, ra) ==
    LET k == req[r].sel.key
        e == entry[k]
    IN  /\ Failed(r)
        /\ \/ Removed(r)
           \/ /\ k \in Live
              /\ \E c \in (IF ra > 0 THEN {ra} ELSE Backoffs(e.backoff_step)) :
                   LET d == deadline_after(now, c)
                   IN  \/ Absorbed(e, d) /\ UNCHANGED <<entry, cursor>>
                       \/ /\ ~Absorbed(e, d)
                          /\ Store(k, [Cooled(e, d, reason, req[r].sel.id)
                                         EXCEPT !.backoff_step =
                                                   BackoffStep(e, ra)],
                                   TRUE, now)

\* Failure::Server: the key is neither cooled nor circuit-broken.
Server(r) == Failed(r) /\ UNCHANGED <<entry, cursor>>

\* Failure::Network: counted, and the breaker trips at the threshold unless a
\* longer cooldown is in place.
CountFailure(e, id) == [e EXCEPT !.consecutive_failures = @ + 1,
                                 !.last_failure_by = id]

Trips(e, d) == /\ e.consecutive_failures + 1 >= BreakerThreshold
               /\ ~Absorbed(e, d)

Trip(e, d, id) == [Cooled(e, d, "circuit_breaker", id)
                     EXCEPT !.consecutive_failures = 0, !.half_open = TRUE]

Network(r) ==
    LET k == req[r].sel.key
        e == entry[k]
        d == deadline_after(now, BreakerCooldown)
        id == req[r].sel.id
    IN  /\ Failed(r)
        /\ \/ Removed(r)
           \/ /\ k \in Live /\ ~Trips(e, d)
              /\ Store(k, CountFailure(e, id), FALSE, now)
           \/ /\ k \in Live /\ Trips(e, d)
              /\ Store(k, Trip(e, d, id), TRUE, now)

\* Mutant: a silent stream cools its key for every model.
SilentForAllModels(r) ==
    LET k == req[r].sel.key
    IN  /\ Failed(r)
        /\ \/ Removed(r)
           \/ /\ k \in Live
              /\ Store(k, [entry[k] EXCEPT
                             !.liveness_cooling =
                                 [m \in Models |-> deadline_after(now, BackoffInitial)]],
                       FALSE, now)

\* The stream of this key and model went silent: only that pair is cooled.
report_liveness_failure(r) ==
    LET k == req[r].sel.key
    IN  /\ Failed(r)
        /\ \/ Removed(r)
           \/ /\ k \in Live
              /\ Store(k, [entry[k] EXCEPT
                             !.liveness_cooling[req[r].model] =
                                 deadline_after(now, BackoffInitial)],
                       FALSE, now)

\* report_proactive_cooldown reads the clock before it asks for the lock ...
ProactiveObserve(p, k, c) ==
    /\ poll[p].pc = "idle"
    /\ poll' = [poll EXCEPT ![p] = [pc |-> "timed", key |-> k, at |-> now,
                                    deadline |-> deadline_after(now, c)]]
    /\ UNCHANGED <<pool, req, now>>

\* ... and takes its id under the lock, also when the report is absorbed.
report_proactive_cooldown(p) ==
    LET k == poll[p].key
        d == poll[p].deadline
        e == entry[k]
    IN  /\ poll[p].pc = "timed"
        /\ poll' = [poll EXCEPT ![p] = [NoObservation EXCEPT !.pc = "done"]]
        /\ UNCHANGED <<order, req, now>>
        /\ \/ k \notin Live /\ UNCHANGED <<entry, cursor, next_id>>
           \/ /\ k \in Live /\ Absorbed(e, d)
              /\ TakeId
              /\ UNCHANGED <<entry, cursor>>
           \/ /\ k \in Live /\ ~Absorbed(e, d)
              /\ TakeId
              /\ Store(k, Cooled(e, d, "proactive_usage", next_id), TRUE,
                       poll[p].at)

-----------------------------------------------------------------------------
\* Mutant: the cursor is left where it was.
replace_keys_cursor_kept(l) ==
    /\ order' = l
    /\ entry' = [k \in Keys |-> IF k \in Live \cap Range(l) THEN entry[k] ELSE Fresh]
    /\ UNCHANGED <<cursor, next_id, req, poll, now>>

\* Hot reload: keys that stay keep their state, the others are forgotten.
replace_keys(l) ==
    /\ order' = l
    /\ entry' = [k \in Keys |-> IF k \in Live \cap Range(l) THEN entry[k] ELSE Fresh]
    /\ cursor' = Min2(cursor, Len(l) - 1)
    /\ UNCHANGED <<next_id, req, poll, now>>

Tick == now < MaxClock /\ now' = now + 1 /\ UNCHANGED <<pool, req, poll>>

\* A step of next() that needs nobody else; it is the caller's own thread.
NextStep(r) == TrySelect(r) \/ ReadClock(r) \/ Recover(r) \/ Wake(r)

\* What a request or a usage observation tells the pool, but for a silence.
Report(r) ==
    \/ report_success(r)
    \/ \E c \in UsageCooldowns : UsageLimit(r, c)
    \/ \E reason \in {"rate_limited", "unavailable"}, ra \in RetryAfters :
          BackOff(r, reason, ra)
    \/ Server(r)
    \/ Network(r)

Step ==
    \/ \E r \in Requests :
          \/ Request(r)
          \/ \E m \in Models : set_model(r, m)
          \/ AttemptsSpent(r)
          \/ NextStep(r)
          \/ NextImmediateNone(r)
          \/ Report(r)
          \/ Drop(r)
    \/ \E p \in Polls :
          \/ \E k \in Keys, c \in UsageCooldowns : ProactiveObserve(p, k, c)
          \/ report_proactive_cooldown(p)
    \/ Tick

\* The history of a silence that is reported ...
Silenced(r) ==
    silent' = IF req[r].sel.key \notin Live THEN silent
              ELSE [silent EXCEPT ![req[r].sel.key][req[r].model] =
                                     deadline_after(now, BackoffInitial)]

\* ... and of a key that leaves the pool, with which its silences are forgotten.
Forgotten(l) ==
    silent' = [k \in Keys |-> IF k \in Live \cap Range(l) THEN silent[k]
                             ELSE [m \in Models |-> NoDeadline]]

Next ==
    \/ Step /\ UNCHANGED silent
    \/ \E r \in Requests : report_liveness_failure(r) /\ Silenced(r)
    \/ \E l \in KeyLists : replace_keys(l) /\ Forgotten(l)

Spec == Init /\ [][Next]_vars

\* Time passes, and a task that can take a step of next() is scheduled.
FairSpec == /\ Spec
            /\ WF_state(Tick)
            /\ \A r \in Requests : WF_state(NextStep(r) \/ AttemptsSpent(r))

-----------------------------------------------------------------------------
(***************************************************************************)
(* Properties.                                                             *)
(***************************************************************************)

\* The state has the shape of PoolState, KeyEntry and RequestAttempts: the
\* cursor is an index of the key list, and a key that is not in the pool has
\* no state left (replace_keys).
TypeOK ==
    /\ order \in KeyLists
    /\ cursor \in 0..(Len(order) - 1)
    /\ entry \in [Keys -> KeyEntry]
    /\ \A k \in Keys \ Live : entry[k] = Fresh
    /\ next_id \in Nat
    /\ req \in [Requests -> RequestAttempts]
    /\ poll \in [Polls -> Observation]
    /\ now \in Nat

\* Ids order reports: every marker an entry keeps (cooling_by,
\* last_failure_by) names a selection or report already made, and no two
\* selections in flight share an id, so "older" is decided the same way by
\* every report (try_select_unused, report_proactive_cooldown).
IdsAreOrdered ==
    /\ \A k \in Keys : /\ entry[k].cooling_by < next_id
                       /\ entry[k].last_failure_by < next_id
    /\ \A r \in Requests : Holds(r) => req[r].sel.id \in 0..(next_id - 1)
    /\ \A r, s \in Requests : Holds(r) /\ Holds(s) /\ r # s
                                => req[r].sel.id # req[s].sel.id

\* No report, claim or observation keeps a key out for longer than
\* MAX_COOLDOWN from now, whatever duration the upstream sent
\* (deadline_after): no key is wedged.
CooldownBounded ==
    \A k \in Keys : /\ entry[k].cooling_until <= now + MaxCooldown
                    /\ \A m \in Models :
                          entry[k].liveness_cooling[m] <= now + MaxCooldown

\* An attempt series uses at most max_attempts keys, all of them candidates
\* pinned when it began, and the key in flight is one of them.
AttemptsBounded ==
    \A r \in Requests :
        /\ Cardinality(req[r].used) <= MaxAttempts
        /\ req[r].used \subseteq Range(req[r].candidates)
        /\ Holds(r) => req[r].sel.key \in req[r].used

\* While the claim of a half-open probe runs, no second selection claims the
\* same key: the breaker lets one probe through at a time, whatever reports
\* arrive meanwhile and even if the key list is replaced.
Probing(r, k) == Holds(r) /\ req[r].sel.key = k /\ req[r].sel.claim > now

OneProbe ==
    \A k \in Keys : \A r, s \in Requests : Probing(r, k) /\ Probing(s, k) => r = s

\* Why OneProbe holds: a key still half-open under a running claim is cooling
\* at least until that claim ends, and a claim is never longer than one
\* breaker cooldown.
ProbeCovered ==
    \A k \in Keys : \A r \in Requests :
        Probing(r, k) =>
            /\ req[r].sel.claim <= deadline_after(now, BreakerCooldown)
            /\ entry[k].half_open => entry[k].cooling_until >= req[r].sel.claim

\* A key that stays in the pool never has its cooldown shortened, except by a
\* success of a selection at least as recent as the key's last failure marker,
\* which resets the key (report_failure, report_proactive_cooldown,
\* report_success).
Resets(k) ==
    /\ entry'[k] = Reset(entry[k])
    /\ \E r \in Requests : /\ Holds(r)
                           /\ req[r].sel.key = k
                           /\ entry[k].last_failure_by <= req[r].sel.id

NeverShortened ==
    \A k \in Live \cap Live' :
        entry'[k].cooling_until < entry[k].cooling_until => Resets(k)

CooldownNeverShortened == [][NeverShortened]_vars

\* A silence keeps its key from requests for its model, and from no others.
\* From report_liveness_failure until the reported silence ends or the key
\* leaves the pool, no request for that model is given the key, whatever
\* successes, reports, reloads and later silences come in between and however
\* late the request learns its model.  And a request finds nothing only if each
\* key it could still use is cooling as a whole or silent for its own model.
Silent(r, k) == req[r].model # NoModel /\ silent[k][req[r].model] > now

Searches(r) == /\ req[r].pc = "ready" /\ BudgetLeft(r)
               /\ req'[r].pc \in {"holding", "stuck", "exhausted"}

Heeded(r) ==
    /\ req'[r].pc = "holding" => ~Silent(r, req'[r].sel.key)
    /\ req'[r].pc # "holding" =>
          \A k \in (Live \cap Range(req[r].candidates)) \ req[r].used :
             Cooling(entry[k]) \/ Silent(r, k)

SilenceHeeded == [][\A r \in Requests : Searches(r) => Heeded(r)]_vars

\* Every call of next() returns: it selects, or gives up at its deadline at
\* the latest (next, sleep_until of the earlier of recovery and deadline).
NextReturns ==
    \A r \in Requests : req[r].pc \in InNext \cup {"ready"}
                           ~> req[r].pc \notin InNext \cup {"ready"}

\* As KeyEntry::cooling_by is documented: "a stale success from an older
\* selection must leave a newer cooldown untouched".  A running cooldown is
\* lifted only by a success at least as recent as what applied it.
StaleSuccessHarmless ==
    [][\A k \in Live \cap Live' :
          Cooling(entry[k]) /\ entry'[k].cooling_until = NoDeadline
            => \E r \in Requests : /\ Holds(r) /\ req'[r].pc = "done"
                                   /\ req[r].sel.key = k
                                   /\ entry[k].cooling_by <= req[r].sel.id]_vars
=============================================================================
