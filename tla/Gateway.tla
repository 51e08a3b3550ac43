------------------------------- MODULE Gateway -------------------------------
(***************************************************************************)
(* One client request through the gateway (src/src/gateway.rs):            *)
(* proxy_request, the handler, and the task stream_response spawns to pump *)
(* a committed body; and the routes that are answered at once.  Every      *)
(* await, and every step on state shared with other requests, is an        *)
(* action, so requests, hot reloads, clients that go away and the closing  *)
(* of admission interleave.                                                *)
(*                                                                         *)
(* The admission queue is its abstract specification, Admission, which     *)
(* AdmissionQueue implements.  The key pool is what KeyPool shows of       *)
(* next(): a key not tried before within the attempt budget, or no key.    *)
(* Upstream and client may do anything at any time; a status is what the   *)
(* gateway tells apart: a retryable error (429, 401 or 403, 5xx) or "u200",*)
(* any status it forwards.                                                 *)
(***************************************************************************)
EXTENDS Integers, Sequences, FiniteSets

CONSTANTS
    Requests,        \* client requests
    Keys, NoKey,     \* fingerprints of the upstream keys
    MaxConcurrency, MaxQueue,   \* limits of the admission queue
    MaxBodies,       \* requests the body budget holds at once
    MaxAttempts,     \* PoolPolicy.max_attempts
    MaxGeneration,   \* bound: hot reloads
    Accepts          \* whose gateway key each generation accepts

ASSUME GatewayAssumption ==
    /\ IsFiniteSet(Requests) /\ NoKey \notin Keys
    /\ MaxConcurrency \in Nat \ {0} /\ MaxQueue \in Nat
    /\ MaxBodies \in Nat \ {0}
    /\ MaxAttempts \in 1..2
    /\ MaxGeneration \in Nat
    /\ Accepts \in [0..MaxGeneration -> SUBSET Requests]

\* with_runtime: a quarter of the concurrency, but one at least.
MaxStreams == IF MaxConcurrency >= 4 THEN MaxConcurrency \div 4 ELSE 1

VARIABLES
    active, waiting, closed,  \* the admission queue
    bodies,      \* requests holding a BodyPermit
    streams,     \* requests holding a stream slot
    generation,  \* of the RuntimeState published last
    task,        \* where each request is and what it knows
    gone,        \* requests whose client has dropped the response body
    seen,        \* the status line each client got
    audit,       \* the audit records of each request
    vouched      \* history: requests whose gateway key was valid at some time
                 \* since they hold a permit

queue == <<active, waiting, closed>>
state == <<active, waiting, closed, bodies, streams, generation, task, gone, seen, audit>>
vars == <<state, vouched>>

Q == INSTANCE Admission WITH Callers <- Requests

Retryable == {"u429", "u401", "u5xx"}
Local == {"ok", "unauthorized", "not_found", "method_not_allowed", "too_large",
          "bad_request", "service_unavailable", "keys_unavailable"}
Statuses == Retryable \cup Local \cup {"u200"}
Outcomes == {"none", "completed", "upstream_error", "client_cancel",
             "event_idle_timeout"}
Verdicts == {"none", "success", "network", "liveness", "server", "unavailable",
             "rate_limited", "usage_limit"}

\* An AttemptSummary: its key, what was reported to the pool, whether its
\* response was committed, and the key the request failed over to.
AttemptSummary == [key: Keys, verdict: Verdicts, committed: BOOLEAN,
                   failover_target: Keys \cup {NoKey}]

\* A response and the key it came from, if it came from upstream.
Answer == [status: Statuses \cup {"none"}, key: Keys \cup {NoKey}]
NoAnswer == [status |-> "none", key |-> NoKey]

AuditRecord == [status: Statuses, key: Keys \cup {NoKey}, outcome: Outcomes,
                attempts: Seq(AttemptSummary)]

(***************************************************************************)
(* acquire: authenticated once.  queued: in acquire().await.  admitted:    *)
(* has a permit.  snapshot: authenticated again.  budget, reading: under   *)
(* the body_read deadline.  next: calling the pool.  sent: awaiting        *)
(* response headers.  errbody: reading an error body.  prefetch: awaiting  *)
(* the first event.  final, respond: the loop is left.  sending, pulling:  *)
(* the pump.  over: answered and audited.  dropped: the future was dropped.*)
(* probed: a probe, answered without a record.                             *)
(***************************************************************************)
Precommit == {"queued", "budget", "reading", "next", "sent", "errbody", "prefetch"}
Pumping == {"sending", "pulling"}
PCs == Precommit \cup Pumping
         \cup {"new", "acquire", "admitted", "snapshot", "final", "respond",
               "over", "dropped", "probed"}
HoldsBody == {"reading", "next", "sent", "errbody", "prefetch", "final"}
HoldsPermit == HoldsBody \cup Pumping
                 \cup {"admitted", "snapshot", "budget", "respond"}

Task == [pc: PCs, attempts: Seq(AttemptSummary),
         status: Statuses \cup {"none"}, streaming: BOOLEAN,
         last_response: Answer, answer: Answer]
NewTask == [pc |-> "new", attempts |-> <<>>,
            status |-> "none", streaming |-> FALSE,
            last_response |-> NoAnswer, answer |-> NoAnswer]

Init ==
    /\ Q!Init
    /\ bodies = {} /\ streams = {} /\ gone = {}
    /\ generation = 0
    /\ task = [r \in Requests |-> NewTask]
    /\ seen = [r \in Requests |-> "none"]
    /\ audit = [r \in Requests |-> <<>>]
    /\ vouched = {}

-----------------------------------------------------------------------------
pc(r) == task[r].pc
Goto(r, to) == task' = [task EXCEPT ![r].pc = to]
Attempts(r) == task[r].attempts
Current(r) == Len(Attempts(r))
UsedKeys(r) == {Attempts(r)[i].key : i \in 1..Current(r)}

Shared == <<queue, bodies, streams>>
Others == <<generation, gone>>

Record(status, key, outcome, attempts) ==
    [status |-> status, key |-> key, outcome |-> outcome, attempts |-> attempts]

\* record_audit and the return of a response without a streamed body.
Respond(r, status, key) ==
    /\ Goto(r, "over")
    /\ seen' = [seen EXCEPT ![r] = status]
    /\ audit' = [audit EXCEPT ![r] = Append(@, Record(status, key, "none", Attempts(r)))]
    /\ UNCHANGED Others

\* The same when the request holds its permit and perhaps its body: both are
\* dropped on return, the permit after the record.
RespondAndRelease(r, status, key) ==
    /\ Respond(r, status, key)
    /\ Q!Release(r)
    /\ bodies' = bodies \ {r}
    /\ UNCHANGED streams

\* The last attempt is reported to the pool as v; the loop continues.
Report(r, v) == [Attempts(r) EXCEPT ![Current(r)].verdict = v]

Accepted(r) == r \in Accepts[generation]

-----------------------------------------------------------------------------
(***************************************************************************)
(* The routes that wait for nothing (build_router).  Probes need no key and*)
(* leave no record; everything else is audited, what is not found included.*)
(***************************************************************************)
Probed(r, status) ==
    /\ pc(r) = "new"
    /\ Goto(r, "probed")
    /\ seen' = [seen EXCEPT ![r] = status]
    /\ UNCHANGED <<Shared, Others, audit>>

healthz(r) == Probed(r, "ok")

\* Whether a key is available is the pool's to say.
readyz(r) ==
    \/ closed /\ Probed(r, "service_unavailable")
    \/ ~closed /\ \E status \in {"keys_unavailable", "ok"} : Probed(r, status)

Unrouted(r) ==
    /\ pc(r) = "new"
    /\ \E status \in {"not_found", "method_not_allowed"} : Respond(r, status, NoKey)
    /\ UNCHANGED Shared

\* models and status: what is published now, to a client with a gateway key.
Lookup(r) ==
    /\ pc(r) = "new"
    /\ Respond(r, IF Accepted(r) THEN "ok" ELSE "unauthorized", NoKey)
    /\ UNCHANGED Shared

-----------------------------------------------------------------------------
(***************************************************************************)
(* Admission.                                                              *)
(***************************************************************************)

\* The first authentication, on the headers alone.
Arrive(r) ==
    /\ pc(r) = "new"
    /\ \/ Accepted(r) /\ Goto(r, "acquire") /\ UNCHANGED <<seen, audit, Others>>
       \/ ~Accepted(r) /\ Respond(r, "unauthorized", NoKey)
    /\ UNCHANGED Shared

\* queue.acquire: admitted, in line, or refused.  A caller can be told Full at
\* any time: it looks for a permit and for a slot in two steps.
acquire(r) ==
    /\ pc(r) = "acquire"
    /\ \/ Q!Admit(r) /\ Goto(r, "admitted") /\ UNCHANGED <<seen, audit, Others>>
       \/ Q!Join(r) /\ Goto(r, "queued") /\ UNCHANGED <<seen, audit, Others>>
       \/ Respond(r, "service_unavailable", NoKey) /\ UNCHANGED queue
    /\ UNCHANGED <<bodies, streams>>

\* A permit was handed to the waiter, and admission is still open.
Admitted(r) ==
    /\ pc(r) = "queued" /\ r \in active /\ ~closed
    /\ Goto(r, "admitted")
    /\ UNCHANGED <<Shared, Others, seen, audit>>

\* The waiter gives up: its wait timed out, or admission was closed.  A permit
\* may just have been handed to it.
GiveUp(r) ==
    /\ pc(r) = "queued"
    /\ Respond(r, "service_unavailable", NoKey)
    /\ \/ Q!Release(r)
       \/ Q!Leave(r)
       \/ r \notin active /\ closed /\ UNCHANGED queue
    /\ UNCHANGED <<bodies, streams>>

\* Mutant: the key was checked before the request queued, and not again.
RevalidateNothing(r) ==
    /\ pc(r) = "admitted"
    /\ Goto(r, "snapshot")
    /\ UNCHANGED <<Shared, Others, seen, audit>>

\* The second authentication, with the permit in hand.
Revalidate(r) ==
    /\ pc(r) = "admitted"
    /\ \/ Accepted(r) /\ Goto(r, "snapshot") /\ UNCHANGED <<Shared, Others, seen, audit>>
       \/ ~Accepted(r) /\ RespondAndRelease(r, "unauthorized", NoKey)

\* One critical section takes the runtime state and the candidate keys.  The
\* request keeps both to its end, so no later step looks at generation.
snapshot_and_request(r) ==
    /\ pc(r) = "snapshot"
    /\ Goto(r, "budget")
    /\ UNCHANGED <<Shared, Others, seen, audit>>

-----------------------------------------------------------------------------
(***************************************************************************)
(* The request body.                                                       *)
(***************************************************************************)
\* body_budget.acquire.
ReserveBody(r) ==
    /\ pc(r) = "budget" /\ Cardinality(bodies) < MaxBodies
    /\ bodies' = bodies \cup {r}
    /\ Goto(r, "reading")
    /\ UNCHANGED <<queue, streams, Others, seen, audit>>

\* What is wrong with a body: longer than max_body_bytes, or broken off ...
read_limited == {"too_large", "bad_request"}

\* ... or without a model of the snapshot's list.
extract_model == {"bad_request"}

ReadBody(r) ==
    /\ pc(r) = "reading"
    /\ \/ Goto(r, "next") /\ UNCHANGED <<Shared, Others, seen, audit>>
       \/ \E status \in read_limited \cup extract_model :
             RespondAndRelease(r, status, NoKey)

\* Mutant: only the wait for the budget is under the deadline.
BodyTimeoutBudgetOnly(r) ==
    /\ pc(r) = "budget"
    /\ RespondAndRelease(r, "service_unavailable", NoKey)

\* body_read: one deadline for the wait for the budget and for the body.
BodyTimeout(r) ==
    /\ pc(r) \in {"budget", "reading"}
    /\ RespondAndRelease(r, "service_unavailable", NoKey)

-----------------------------------------------------------------------------
(***************************************************************************)
(* The attempt loop.                                                       *)
(***************************************************************************)
\* An attempt and a key are left.
More(r) == Current(r) < MaxAttempts /\ ~(Keys \subseteq UsedKeys(r))

\* The previous attempt failed over to k.
Targeted(attempts, k) ==
    IF attempts = <<>> THEN attempts
    ELSE [attempts EXCEPT ![Len(attempts)].failover_target = k]

\* A key was selected.  Its summary is kept from here on, with what the pool
\* was told of it.
Selected(r) ==
    /\ pc(r) = "next" /\ More(r)
    /\ \E k \in Keys \ UsedKeys(r) :
          task' = [task EXCEPT
                     ![r].pc = "sent",
                     ![r].attempts = Append(Targeted(@, k),
                         [key |-> k, verdict |-> "none", committed |-> FALSE,
                          failover_target |-> NoKey])]
    /\ UNCHANGED <<Shared, Others, seen, audit>>

\* The loop is left with this answer.
Break(r, answer) ==
    /\ task' = [task EXCEPT ![r].pc = "final", ![r].answer = answer]
    /\ UNCHANGED <<Shared, Others, seen, audit>>

\* Mutant: the request waits for a key although it has a response already.
MayWaitAlways(r) == TRUE

\* next() is called only while no response has been received.
MayWait(r) == task[r].last_response = NoAnswer

\* next(): every key is cooling until the deadline of the pool.
Unavailable(r) ==
    /\ pc(r) = "next" /\ MayWait(r) /\ More(r)
    /\ Break(r, [status |-> "keys_unavailable", key |-> NoKey])

\* next() without another key or attempt, or next_immediate() without a key
\* that is available now: the last response, if there was one.
Exhausted(r) ==
    /\ pc(r) = "next"
    /\ ~More(r) \/ task[r].last_response # NoAnswer
    /\ Break(r, IF task[r].last_response # NoAnswer
                THEN task[r].last_response
                ELSE [status |-> "service_unavailable", key |-> NoKey])

\* Mutant: a failed attempt is not reported.
AttemptFailedSilently(r, verdict) ==
    /\ Goto(r, "next")
    /\ UNCHANGED <<Shared, Others, seen, audit>>

\* The attempt ended without a response: it is reported, the loop goes on.
AttemptFailed(r, verdict) ==
    /\ task' = [task EXCEPT ![r].pc = "next", ![r].attempts = Report(r, verdict)]
    /\ UNCHANGED <<Shared, Others, seen, audit>>

\* forward_request: a response head, or a transport error.
ResponseHead(r) ==
    /\ pc(r) = "sent"
    /\ \/ AttemptFailed(r, "network")
       \/ \E status \in Retryable :
             /\ task' = [task EXCEPT ![r].pc = "errbody", ![r].status = status]
             /\ UNCHANGED <<Shared, Others, seen, audit>>
       \/ \E streaming \in BOOLEAN :
             /\ task' = [task EXCEPT ![r].pc = "prefetch", ![r].streaming = streaming]
             /\ UNCHANGED <<Shared, Others, seen, audit>>

\* upstream_header.
HeaderTimeout(r) == pc(r) = "sent" /\ AttemptFailed(r, "network")

\* A body names a usage limit, with its dimension, or it is any other text.
classify_429 == {"usage_limit", "rate_limited"}

\* What a retryable status says of the key; only a 429 whose whole body was
\* read can be a usage limit.
VerdictsFor(status, complete) ==
    CASE status = "u429" -> IF complete THEN classify_429 ELSE {"rate_limited"}
      [] status = "u401" -> {"unavailable"}
      [] OTHER -> {"server"}

\* consume_classify_body: the body ends or overruns the cap, and the response
\* is kept as the one to return; or it breaks off.
ErrorBody(r) ==
    /\ pc(r) = "errbody"
    /\ \/ \E v \in VerdictsFor(task[r].status, TRUE) :
             /\ task' = [task EXCEPT
                           ![r].pc = "next", ![r].status = "none",
                           ![r].attempts = Report(r, v),
                           ![r].last_response =
                               [status |-> task[r].status,
                                key |-> Attempts(r)[Current(r)].key]]
             /\ UNCHANGED <<Shared, Others, seen, audit>>
       \/ \E v \in VerdictsFor(task[r].status, FALSE) :
             /\ task' = [task EXCEPT ![r].pc = "next", ![r].status = "none",
                                     ![r].attempts = Report(r, v)]
             /\ UNCHANGED <<Shared, Others, seen, audit>>

\* upstream_error_body.
ErrorBodyTimeout(r) ==
    /\ pc(r) = "errbody"
    /\ \E v \in VerdictsFor(task[r].status, FALSE) :
          task' = [task EXCEPT ![r].pc = "next", ![r].status = "none",
                               ![r].attempts = Report(r, v)]
    /\ UNCHANGED <<Shared, Others, seen, audit>>

\* prepare_response: the response of the attempt becomes the answer.
Commit(r) ==
    /\ task' = [task EXCEPT
                  ![r].pc = "final",
                  ![r].attempts = [@ EXCEPT ![Current(r)].committed = TRUE],
                  ![r].answer = [status |-> "u200",
                                 key |-> Attempts(r)[Current(r)].key]]
    /\ UNCHANGED <<Shared, Others, seen, audit>>

\* A body that is not an event stream is not read ahead.
CommitAtOnce(r) == pc(r) = "prefetch" /\ ~task[r].streaming /\ Commit(r)

\* The first complete event.
CommitFirstEvent(r) == pc(r) = "prefetch" /\ task[r].streaming /\ Commit(r)

\* The event stream breaks, or ends or overruns its cap before an event.
PrefetchFails(r) ==
    /\ pc(r) = "prefetch" /\ task[r].streaming
    /\ \E v \in {"network", "liveness"} : AttemptFailed(r, v)

\* first_event_timeout.
FirstEventTimeout(r) ==
    pc(r) = "prefetch" /\ task[r].streaming /\ AttemptFailed(r, "liveness")

-----------------------------------------------------------------------------
(***************************************************************************)
(* The response.                                                           *)
(***************************************************************************)
\* Mutant: the body is kept until the response is over.
KeepBody(r) ==
    /\ pc(r) = "final"
    /\ Goto(r, "respond")
    /\ UNCHANGED <<Shared, Others, seen, audit>>

\* The buffered body is no longer needed: drop(body_permit).
DropBody(r) ==
    /\ pc(r) = "final"
    /\ bodies' = bodies \ {r}
    /\ Goto(r, "respond")
    /\ UNCHANGED <<queue, streams, Others, seen, audit>>

\* No upstream response to return: an answer of the gateway's own.
Refuse(r) ==
    /\ pc(r) = "respond" /\ task[r].answer.status \in Local
    /\ RespondAndRelease(r, task[r].answer.status, NoKey)

\* The saved upstream error, and the key it came from.
finalize_consumed_error(r) ==
    /\ pc(r) = "respond" /\ task[r].answer.status \in Retryable
    /\ RespondAndRelease(r, task[r].answer.status, task[r].answer.key)

\* The handler returns the response; its task pumps the body.
Forward(r, to) ==
    /\ Goto(r, to)
    /\ seen' = [seen EXCEPT ![r] = "u200"]
    /\ UNCHANGED <<queue, bodies, Others, audit>>

\* stream_slots.try_acquire_owned.
StreamSlotFree == Cardinality(streams) < MaxStreams

\* An event stream needs a slot, and begins with the prefetched bytes.
finalize_response(r) ==
    /\ pc(r) = "respond" /\ task[r].answer.status = "u200"
    /\ \/ ~task[r].streaming /\ Forward(r, "pulling") /\ UNCHANGED streams
       \/ /\ task[r].streaming /\ StreamSlotFree
          /\ streams' = streams \cup {r}
          /\ Forward(r, "sending")
       \/ /\ task[r].streaming /\ ~StreamSlotFree
          /\ RespondAndRelease(r, "service_unavailable", task[r].answer.key)

\* pump_upstream: a chunk arrives, and is taken by the client's channel.
Chunk(r) ==
    /\ pc(r) = "pulling" /\ Goto(r, "sending")
    /\ UNCHANGED <<Shared, Others, seen, audit>>

Sent(r) ==
    /\ pc(r) = "sending" /\ r \notin gone /\ Goto(r, "pulling")
    /\ UNCHANGED <<Shared, Others, seen, audit>>

PumpVerdict == [completed |-> "success", upstream_error |-> "network",
                client_cancel |-> "none", event_idle_timeout |-> "liveness"]

\* Mutant: the record of a cancelled stream does not say how it ended.
PumpRecordWithoutOutcome(r, outcome, attempts) ==
    Record("u200", task[r].answer.key,
           IF outcome = "client_cancel" THEN "none" ELSE outcome, attempts)

PumpRecord(r, outcome, attempts) ==
    Record("u200", task[r].answer.key, outcome, attempts)

\* The end of the task: pool feedback, record, slot and permit, in this order.
PumpEnds(r, outcome) ==
    LET attempts == Report(r, PumpVerdict[outcome])
    IN  /\ task' = [task EXCEPT ![r].pc = "over", ![r].attempts = attempts]
        /\ audit' = [audit EXCEPT ![r] = Append(@, PumpRecord(r, outcome, attempts))]
        /\ streams' = streams \ {r}
        /\ Q!Release(r)
        /\ UNCHANGED <<bodies, Others, seen>>

\* The upstream body ends or breaks off.
UpstreamEnds(r) ==
    /\ pc(r) = "pulling"
    /\ \E outcome \in {"completed", "upstream_error"} : PumpEnds(r, outcome)

\* inter_event_timeout for an event stream, upstream_error_body otherwise.
UpstreamStalls(r) ==
    /\ pc(r) = "pulling"
    /\ PumpEnds(r, IF task[r].streaming THEN "event_idle_timeout" ELSE "upstream_error")

\* Mutant: only a client that has gone is given up.
WriteTimeoutIfGone(r) == pc(r) = "sending" /\ r \in gone /\ PumpEnds(r, "client_cancel")

\* response_write.
WriteTimeout(r) == pc(r) = "sending" /\ PumpEnds(r, "client_cancel")

\* The client is gone: notified, or the channel is closed.
Cancelled(r) == pc(r) \in Pumping /\ r \in gone /\ PumpEnds(r, "client_cancel")

-----------------------------------------------------------------------------
(***************************************************************************)
(* The environment.                                                        *)
(***************************************************************************)
\* The handler is suspended.
Awaits(r) ==
    /\ pc(r) \in Precommit
    /\ pc(r) = "next" => MayWait(r) /\ More(r)
    /\ pc(r) = "prefetch" => task[r].streaming

\* The client goes away before the response is committed: the server drops the
\* handler at an await, with all it holds.
Disconnect(r) ==
    /\ Awaits(r)
    /\ Goto(r, "dropped")
    /\ \/ Q!Release(r)
       \/ Q!Leave(r)
       \/ r \notin active /\ ~Q!InLine(r) /\ UNCHANGED queue
    /\ bodies' = bodies \ {r}
    /\ UNCHANGED <<streams, generation, gone, seen, audit>>

\* The client goes away afterwards: the response body is dropped.
DropBodyStream(r) ==
    /\ pc(r) \in Pumping /\ r \notin gone
    /\ gone' = gone \cup {r}
    /\ UNCHANGED <<Shared, generation, task, seen, audit>>

\* update_with_keys.
Reload ==
    /\ generation < MaxGeneration
    /\ generation' = generation + 1
    /\ UNCHANGED <<Shared, task, gone, seen, audit>>

Close == Q!Close /\ UNCHANGED <<bodies, streams, generation, task, gone, seen, audit>>

\* Steps the handler takes by itself, its timers included.
Handler(r) ==
    \/ acquire(r) \/ Admitted(r) \/ GiveUp(r)
    \/ Revalidate(r) \/ snapshot_and_request(r)
    \/ ReserveBody(r) \/ BodyTimeout(r)
    \/ Selected(r) \/ Unavailable(r) \/ Exhausted(r)
    \/ HeaderTimeout(r) \/ ErrorBodyTimeout(r) \/ FirstEventTimeout(r)
    \/ CommitAtOnce(r)
    \/ DropBody(r) \/ Refuse(r) \/ finalize_consumed_error(r) \/ finalize_response(r)

\* Steps it waits for.
External(r) ==
    \/ healthz(r) \/ readyz(r) \/ Unrouted(r) \/ Lookup(r)
    \/ Arrive(r) \/ ReadBody(r)
    \/ ResponseHead(r) \/ ErrorBody(r) \/ CommitFirstEvent(r) \/ PrefetchFails(r)
    \/ Chunk(r) \/ Sent(r) \/ UpstreamEnds(r)
    \/ Disconnect(r) \/ DropBodyStream(r)

\* Who holds a permit, and a key that is valid now.
Vouch == vouched' = vouched \cup {r \in active' : r \in Accepts[generation']}

Next ==
    /\ \/ Reload \/ Close
       \/ \E r \in Requests :
             Handler(r) \/ External(r) \/ UpstreamStalls(r) \/ WriteTimeout(r) \/ Cancelled(r)
    /\ Vouch

Spec == Init /\ [][Next]_vars

\* Tasks are scheduled and timers fire; clients and upstream owe nothing.
FairSpec ==
    /\ Spec
    /\ \A r \in Requests :
          /\ WF_state(Handler(r)) /\ WF_state(Cancelled(r))
          /\ WF_state(UpstreamStalls(r)) /\ WF_state(WriteTimeout(r))

-----------------------------------------------------------------------------
(***************************************************************************)
(* Properties.                                                             *)
(***************************************************************************)
Served == HoldsPermit \ {"admitted"}
At(pcs) == {r \in Requests : pc(r) \in pcs}

\* Every variable has a value the code can give it.
TypeOK ==
    /\ active \subseteq Requests /\ closed \in BOOLEAN
    /\ waiting \in Seq(Requests)
    /\ bodies \subseteq Requests /\ streams \subseteq Requests
    /\ gone \subseteq Requests
    /\ generation \in 0..MaxGeneration
    /\ task \in [Requests -> Task]
    /\ seen \in [Requests -> Statuses \cup {"none"}]
    /\ audit \in [Requests -> Seq(AuditRecord)]
    /\ vouched \subseteq Requests

\* On every way through the handler and the pump, and wherever a client leaves,
\* a request holds exactly the resources of the place where it is: its permit
\* from admission to its end, body bytes from the reservation until an answer
\* is decided and never during a response, a slot while an event stream is
\* pumped.  None is leaked, and the three limits hold.
ResourcesHeld ==
    /\ TypeOK
    /\ At(HoldsPermit) \subseteq active /\ active \subseteq At(HoldsPermit \cup {"queued"})
    /\ bodies = At(HoldsBody)
    /\ streams = {r \in At(Pumping) : task[r].streaming}
    /\ Cardinality(active) <= MaxConcurrency
    /\ Cardinality(bodies) <= MaxBodies
    /\ Cardinality(streams) <= MaxStreams

\* A gateway key that a reload withdraws while its request is in line serves
\* it no more: whoever gets as far as the runtime snapshot had a valid key at
\* some time since it holds its permit, not only when it arrived.  (A reload
\* between the second check and the snapshot is too late.)
WithdrawnKeyRefused == At(Served) \subseteq vouched

\* proxy_request: "still audited exactly once".  A request has one record once
\* it is over, refused, failed, streamed to the end or cancelled, and none
\* before; the record has the status the client saw, and tells how its body
\* ended if and only if one was streamed.
AuditTellsAnswer ==
    \A r \in Requests :
        IF pc(r) = "over"
        THEN /\ Len(audit[r]) = 1
             /\ audit[r][1].status = seen[r]
             /\ audit[r][1].outcome # "none" <=> seen[r] = "u200"
        ELSE audit[r] = <<>>

\* DECISIONS.md:19: a key that cools never replaces an upstream error that was
\* saved.  Such a request answers with the latest one saved, or with a
\* response of a later attempt, whatever the attempts after it met; and the
\* record names the key the answer came from, the last one for a stream.
SavedErrorReturned ==
    \A r \in At({"over"}) :
        LET key == audit[r][1].key
        IN  /\ seen[r] \in Retryable \cup {"u200"} => key \in UsedKeys(r)
            /\ seen[r] = "u200" => key = Attempts(r)[Current(r)].key
            /\ task[r].last_response # NoAnswer /\ task[r].answer.status # "u200"
                 => seen[r] = task[r].last_response.status /\ key = task[r].last_response.key

\* The pool hears of every attempt, and the audit record names its successor:
\* all but the last failed before anything was committed, were reported and
\* failed over to the next; only a stream the client cancelled, or one refused
\* for want of a slot, ends without a report.
AttemptsAccounted ==
    \A r \in At({"over"}) :
        \A i \in 1..Current(r) :
            LET a == Attempts(r)[i]
            IN  IF i < Current(r)
                THEN /\ a.verdict # "none" /\ ~a.committed
                     /\ a.failover_target = Attempts(r)[i + 1].key
                ELSE /\ a.failover_target = NoKey
                     /\ a.committed <=> task[r].answer.status = "u200"
                     /\ a.verdict = "none"
                          => \/ audit[r][1].outcome = "client_cancel"
                             \/ a.committed /\ seen[r] = "service_unavailable"

\* ADR 0001: "place deadlines around every externally controlled wait".  Nobody
\* stays where it waits for a permit, the budget, its client or upstream.
EveryWaitEnds ==
    \A r \in Requests : \A wait \in Precommit \cup Pumping :
        pc(r) = wait ~> pc(r) # wait

\* A permit comes back, unless its client takes chunk after chunk forever: not
\* from one that stops reading, that leaves, or whose upstream is silent.
PermitComesBack ==
    \A r \in Requests : []<>(r \notin active) \/ []<><<Sent(r)>>_state
=============================================================================
