# orihsus in TLA+

A verification project for the orihsus gateway (Rust, `src/src/*.rs`): TLA+
modules translated from the source, TLC configurations that check them on small
instances, and TLAPS proofs that hold for every value of the constants.

Run a configuration with `tlc -config <run>.cfg <module>` and the proofs with
`tlapm <module>.tla` on each of the eight modules of section 4. `PROJECT.json`
lists every run, the source lines each definition stands for, the hazards the
properties are aimed at, and for each property a mutation of the model that it
detects.

## 1. The system

orihsus is one process between OpenCode clients and one upstream. It holds
several upstream keys, each with its own limits. A request is authenticated,
admitted, given a snapshot of the configuration, read into memory, and tried on
at most two keys; the first usable answer is streamed to the client.

| Part | State | Operations | What is hard | What must hold |
|---|---|---|---|---|
| Key pool `pool.rs` | key list, cursor, per key: cooldown, model cooldowns, failure count, back-off step, half-open flag, ids of what applied them | `request`, `next` (select, wait, give up), `report_success`, `report_failure`, `report_proactive_cooldown`, `replace_keys` | reports in any order, two requests probing one key, a lock released between two looks, clocks read early | one probe per key, cooldowns kept and bounded, a silence shuts out its own model only, `next()` returns |
| Admission `queue.rs` | two semaphores and their waiters | `acquire`, timeout, cancellation, release, `close` | a permit assigned to a waiter that is giving up; two semaphores closed one after the other | permits and slots conserved, no idle permit while someone waits, everyone answered |
| Request handling `gateway.rs` | per request: permit, snapshot, body reservation, attempts, saved answer, stream slot, audit record | routes, `proxy_request`, attempts, commit, the pump task | a client that leaves at any await; reloads between two snapshots; ends of a stream that race; a deadline against late bytes | nothing leaked on any path, one truthful record, withdrawn keys refused, every attempt reported, every wait ends |
| Audit writer `audit.rs` | bounded channel, thread, open file, counters | `try_record`, `reopen`, `shutdown_bounded`, `Drop`, `write_loop` | stalled disk; reopens carried out after their timeout; rotation | accepted records are written once or counted, the reopen promise, calls return |
| Hot reload `hot_reload.rs`, callback in `main.rs` | bridge channel, worker, status | watch, debounce, load, refuse, apply, drop | dropped wake-ups; half-applied files | keys and settings of one file, the last change applied, an honest status |
| Model synchronisation `models.rs` | watch channel, monitor | fetch, check, publish, shut down | check-then-publish against a reload; broken lists | lists keep being published, only whole lists, a manual list stays |
| Usage monitor `usage.rs` | watched key list, round, snapshots, history channel and thread | poll, evaluate, report, offer, shutdown | stuck disk; clock read before the fetches; keys removed meanwhile | only justified cooldowns and all of them, polling independent of the disk, new keys polled |
| HTTP server `server.rs` | connection permits, task set | accept, reap, watchdog, drain | silent peers; streams that outlive the drain | the cap, silent peers removed, a bounded drain |
| Lifecycle `main.rs`, `app.rs` | place in start and cleanup, references to the audit writer, exit code | arguments, load, assemble, bind, signal, server failure, flush, exit | failing half-way through the start; a pump that still holds the writer | a clean exit means a complete log, shutdown is bounded but for the usage history's disk, the exit code is honest |
| Configuration `config.rs` | none | defaults, validation | limits checked here and asserted elsewhere | what validates makes no constructor panic or refuse, `audit.queue_capacity` excepted |

The parts meet in few places. A request goes through admission, takes store
snapshot and key candidates in one critical section, and calls the pool before
and after each attempt. A reload replaces pool and store under the store's
lock. The usage monitor only adds cooldowns to the pool. Pump tasks offer audit
records. The lifecycle builds everything from one validated configuration, and
at the end closes admission and reload, drains the server, and flushes the audit
log last.

## 2. The modules

| Module | Models | Run on |
|---|---|---|
| `KeyPool` | the key pool, the requests and the usage reports that call it | `MCKeyPool` |
| `Admission` | what admission promises: the admitted, a FIFO line, both bounded | |
| `AdmissionQueue` | the two semaphores; implements `Admission` | itself |
| `Gateway` | the routes, `proxy_request` and the pump task, over `Admission` | `MCGateway` |
| `Stream` | one answer byte by byte: prefetch, commit, pump, deadlines, channel; extends `SseParser` | itself |
| `SseParser` | the usage parsers of `gateway.rs`, and the load generator's decoder as reference | `Stream` |
| `AuditWriter` | the audit writer | `MCLifecycle` |
| `Config` | defaults and validation, and what the constructors demand | `MCLifecycle` |
| `Startup` | command line, opening and loading the file; extends `Config` | `MCLifecycle` |
| `Lifecycle` | `main`, `run`, `run_lifecycle` and the flush; extends `AuditWriter` and `Startup` | `MCLifecycle` |
| `ConfigReload` | hot reload, runtime store and model monitor | `MCConfigReload` |
| `Server` | accept loop and connection tasks | itself |
| `UsageMonitor` | polling rounds, `evaluate`, snapshots, the history thread | `MCUsageMonitor` |
| `KeyPoolProofs`, `AdmissionQueueProofs`, `GatewayProofs`, `StreamProofs`, `LifecycleProofs`, `ConfigReloadProofs`, `ServerProofs`, `UsageMonitorProofs` | the theorems of section 4 | |

Operators introduced as "Mutant: ..." or with a phrase such as "A flush without a
deadline" are wrong variants of a definition after them. No specification uses
them; they show that a property can fail (`mutants` in `PROJECT.json`).

### KeyPool

`order`, `cursor`, `entry` and `next_id` are the pool's state, `req` is one
`RequestAttempts` per request with the place it has reached inside `next()`,
`poll` a usage report between its clock reading and its lock. Each critical
section is one action, so anything can happen between looking for a key and
computing the earliest recovery. Times are naturals, `MaxCooldown` stands for
`MAX_COOLDOWN`; the durations upstream sends include one beyond it. `silent` is a
history variable: until when a reported silence of a key and a model lasts, apart
from the entries, which every report rewrites.

### Admission and AdmissionQueue

`AdmissionQueue` has, per caller, the place reached in `acquire` and `enqueue`,
and for the semaphores the free permits and slots and the line of waiters. A
permit is assigned to the head of the line in one step and noticed by the waiter
in another; timeouts, cancellations and both halves of `close` fall in between.
tokio's semaphore is external and modelled from how `queue.rs` uses it.
`Implements` maps this to `Admission`.

### Gateway

Per request: the place in the handler or the pump, its attempts with what the pool
was told of each, the saved upstream error, the answer, the status its client saw
and its audit records. Shared: permits (as `Admission`), body reservations, stream
slots and the generation of the runtime state, which decides whose gateway key is
valid. Bodies, headers and chunks are reduced to the outcomes the code branches on.
Probes, unknown paths and the routes that only look something up are answered in
one step. A client that leaves before the commit drops the handler at an await;
afterwards the pump has to find out. The pool is a choice between a key not yet
used and none; what it really does is KeyPool's subject. `vouched` is a history
variable: who had a valid key at some time while holding its permit.

### Stream and SseParser

`Gateway` leaves open which ending a stream has; `Stream` has the bytes and clocks
that decide it. A body is a sequence of tokens (the text of a data line, other
text, the two bytes of line ends) with one style of line ends, cut into chunks
anywhere. A deadline is the
number of ticks left; every wait polls what it waits for before its deadline.
`SseParser` runs the byte-wise state machine of `SseUsageParser` over a chunk, and
has `JsonUsageParser` for other bodies. The reference is not a second copy of it
but the line-based decoder of `tools/loadtest`, which reads the same bytes as a
client.

### AuditWriter

The file at `audit.path` is a generation: a rotation moves it away and the next
open creates another. The thread takes a command in one step and carries out its
file operation in the next, which may fail after part of a line.

### Config, Startup and Lifecycle

A raw configuration is a record of the fields a file sets. `Valid` is
`Config::try_from` section by section, `try_from` what the program then sees,
and `Assembled` what `assemble` makes of it: the assertions, expects and errors of
`PoolPolicy`, `AdmissionQueue`, `AuditWriter` and `BodyBudget`, in their order.
`MAX_SLOTS` is the longest buffer `sync_channel` can lay out, `MAX_PERMITS` what
tokio's semaphore takes.
`Startup` adds `parse_args`, the refusal to run as root, and the checks on the
opened file. `Lifecycle` runs these as `main` does, any step of which may end the
process, then serves. Per record it has the stream whose pump holds the writer
and records as its last act; a pump may outlive its connection. A server that
ends by a panic is a case of `ServerDies` in builds that unwind only; release
builds abort.

### ConfigReload

A file is what the code tells apart: does it validate, does it agree with the
service in the fields that need a restart, its keys, its synchronisation interval
(0: off) and its models. The apply callback is several steps because the monitor
runs between them. The worker awaits only in `recv` and `sleep`, so an abort takes
effect only there. The callback's error path is unreachable: `replace_keys`
refuses only an empty list, which does not validate. A fetch of the monitor's is a
status, a length against `BODY_LIMIT` and a list of ids, which `parse_models`
takes as a whole or not at all. The monitor's watch channel cannot be closed under
it before its worker ends, so the branch for that (`changed.is_err()`) is never
taken.

### Server and UsageMonitor

In `Server` a permit lives in its connection's task, and a task that ended stays
in the set until it is joined. In `UsageMonitor` a round fetches all watched keys
(each answer a status, a length and a usage response or none) and handles the results
one by one, in three steps between which the history thread, the status route and a
reload run: a result is offered to the history channel, shown in the status, and
evaluated. `evaluate` works on a response with a top-level limit and windows. A
reload reaches the pool first and the monitor's channel later, so a round may report
keys that the pool no longer has. `cooled` is the monitor's part of the pool's
cooldowns; what other reports add is `KeyPool`'s. The wall clock that resets are
compared with and the monotonic clock of the pool are one clock here.

## 3. The runs

| Run | Checks | Instance | Distinct states |
|---|---|---|---|
| `PoolSelection` | ids, one probe per key, cooldowns never shortened, silences heeded by their model only | 1 key, 2 models, 3 requests of 1 attempt, 1 usage report, clock to 2 | 940,078 |
| `PoolWaits` | types, bounded cooldowns, `next()` returns | 2 keys, one of them dropped and added again, 1 request of 2 attempts, 1 usage report, clock to 3 | 150,199 |
| `Queue` | permits and slots, no idle permit, refinement of `Admission`, everyone is answered | 4 callers, 1 permit, 2 places | 171,326 |
| `GatewayAttempts` | saved errors are returned, attempts are reported and accounted for, every wait ends, permits come back | 1 request, 3 keys, 2 attempts, 1 reload that withdraws its key | 17,284 |
| `GatewayShared` | each place holds exactly its resources, one record that tells the answer, withdrawn keys are refused | 3 requests, 2 permits, 1 place, 1 body, 1 stream slot, 1 reload that withdraws all keys | 500,513 |
| `Stream` | parser and client agree on events and usage, endings are deserved, completed means whole, event streams end | 1 answer of up to 2 events or 6 tokens, cap of 5, both line ends, every deadline 1 tick, channel of 1 | 416,854 |
| `Process` | clean exits are complete, exit codes honest, validated configurations fit, reopen promise, nothing lost silently, shutdown bounded, calls return | every command line of up to 2 words, files with up to 2 fields at the edges of their limits, 2 streams, channel of 2, 2 reopens, 1 rotation | 207,868 |
| `Reload` | keys and settings of one file, honest status, last change applied, synchronisation goes on | 2 changes, 2 hangups, bridge of 1, good, broken, oversized and duplicated lists | 298,211 |
| `Connections` | the cap, silence ends, a bounded drain that leaves nothing | 4 peers, cap 2, accept errors without end | 11,235 |
| `Usage` | justified cooldowns, complete history, polling despite a stuck disk, new keys, shutdown | 2 keys, responses at, above, below and out of range of the threshold, at the top only and with a reset beyond `MAX_COOLDOWN`, too large or unparsable ones, 2 reloads, channel of 1 | 794,536 |

Bounds. For each limit the instance has more users than places: requests than permits,
bodies and slots, wake-ups than the bridge, peers than the cap, and reopens beside
records in the audit channel. A second probe of a key needs three requests, since the
one whose failure opened the breaker cannot take the key again; with the usage report
they give every order of four reports. In `PoolWaits` a key is lost while it is selected
or waited for. The clock passes one cooldown and one wait. In `Stream` the cap of 5
tokens lets an event fit, one with a comment exceed it, and a prefetch overrun it, and
two events let usage be replaced. In `Process` each field is tried below, at and above
its limits, alone and with every other field. Two file changes give every pair among
refused, invalid and valid; two hangups fill the bridge meanwhile. In `Usage` the rounds
after the first fail to fetch, which keeps the counters finite; that a later round
shortens no cooldown is therefore shown by the theorem only, and for the pool by
`CooldownNeverShortened`. Counters are capped in the guards by the constants named
`Max...`. Requests are symmetric in `PoolSelection` and `GatewayShared`, models in
`PoolSelection`; neither checks liveness. `PoolSelection`, `PoolWaits`, `Queue` and
`Stream` check for deadlock. The other instances end, with every request over or the
process gone, so that stopping is no error there; that nothing waits for ever is what
their liveness properties say.

What the instances leave to others: a reload meets one request in `PoolWaits`, several
only in the theorems of section 4. Waits for a permit occur in `GatewayShared` and
`Queue`, not in `GatewayAttempts` (one request), so that they end is `Queue`'s
`Resolves`. With one request no stream is refused its slot either: of such a stream
`AttemptsAccounted` is shown by the theorem only. `BodyTimeout` does not depend on who
holds the budget. `NewKeysPolled` meets two reloads; for any number it is `ChangesNeverMissed` that no
change is missed. `GatewayShared` has one key and one attempt; failover is
`GatewayAttempts`'s.

Fairness. A task that can step does (weak fairness), since tokio polls woken tasks; a
deadline of the code is an action with weak fairness. `Gateway`'s and `KeyPool`'s are
over `state`, without the history variable. Clients, peers, upstream and streams have
none. File operations have none either: where a property needs the disk, it says so
itself: `ShutdownReturns` of `UsageMonitor` assumes `DiskWorks`, and `ShutdownBounded`
of `Lifecycle` promises the exit under `MonitorsStop` only, and without it that shutdown
gets as far as the monitors. Strong fairness is assumed of branches of `select!`, which
tokio polls in random order (`Reap` and `Break` of `Server`, `Stopped` of `UsageMonitor`
and of `ConfigReload`); of a successful fetch in `ConfigReload`, without which no list
could be expected; and of `ReadTimeout` in `Stream`, because a read that finds nothing
looks at its deadline in the same poll.

### Where the code and its documentation differ

Two runs expect a violation; `PROJECT.json` quotes the lines.

- `PoolStaleSuccess`: a late network failure of an older selection lowers
  `last_failure_by`, and a success older than the cooldown in force then clears
  it. `cooling_by`'s comment excludes this.
- `ReloadManualList`: the model monitor checks its setting and publishes in two
  critical sections. A reload in between installs a manual list, which the fetched
  one replaces until the next reload.

Others were met while modelling and are kept in the models as the code has them,
without a run of their own:

- `next()` computes the earliest recovery after releasing the lock and can answer
  Unavailable although a cooldown has just ended (`pool.rs:766`).
- A second failure of one key moves the cursor off a healthy key (`pool.rs:690`).
- Full can be answered although a permit became free after the first try
  (`queue.rs:74`).
- The second authentication and the snapshot of a request can fall on both sides
  of a reload (`gateway.rs:1157`).
- A request whose client leaves before its response is committed has no audit record;
  `gateway.rs:135` speaks of one per proxied request. `AuditTellsAnswer` promises one to
  each request that ends with a response.
- Requests refused for their key are audited (`gateway.rs:1128`), which
  `docs/WORKLOG.md:40` denies.
- `finalize_consumed_error` answers with an error body of its own; its comment says
  the upstream body is passed through byte for byte (`gateway.rs:1831`).
- An event above the cap is not counted and does not extend the deadline
  (`gateway.rs:2387`), so a stream of such events ends as silent; `BlameEarned`
  excludes it. A blank line whose two line ends differ in style ends no event.
- The event deadline runs while a slow client is written to, so the write timeout
  is not the only deadline a slow client meets (`gateway.rs:2253`).
- When the client's departure is noticed first, the record's stream counters are
  zero, whatever was sent (`gateway.rs:2139`).
- `inter_event_timeout` has no upper limit and is added to an `Instant`
  (`gateway.rs:2207`, `gateway.rs:2253`); `pool.rs:89` says that such an addition
  panics when it does not fit, and clamps.
- `audit.queue_capacity` has no upper limit (`config.rs:643`), and the channel is
  allocated at the start (`audit.rs:508`): a value that cannot be laid out panics, which
  ends the process. `ConfigFits` names it as the one exception. What happens when the
  memory merely runs out is not modelled.
- A write that fails in the middle of a line leaves the next record on the same
  line (`audit.rs:549`).
- The debounce is a sleep after which the bridge is emptied, so events during the
  sleep do not prolong it (`hot_reload.rs:340`).
- Shutdown joins the usage history thread without a bound (`usage.rs:444`), and main
  does so before it flushes the audit log (`main.rs:347`), so a stuck history disk hangs
  the exit. `main.rs:354` says that "a writer stuck on disk I/O must not hang the
  graceful shutdown" (of the audit writer), `usage.rs:160` "Never block shutdown on a
  stuck filesystem" (of `Drop`, which is not reached then), and the ADR (line 36) asks
  for deadlines "around every externally controlled wait". `ShutdownReturns` therefore
  assumes `DiskWorks`, and the exit in `ShutdownBounded` `MonitorsStop`.
- A key at the threshold is cooled (`usage.rs:558`); `README.md:55` says "above which".
- A key is cooled past the reported reset by as long as the round took
  (`usage.rs:501`); `CoolingJustified` bounds it by that.
- A reset further away than `MAX_COOLDOWN` is not waited for (`pool.rs:707`).
- A record is in the history channel, and may be in the file, before the status shows
  it (`usage.rs:511`, `usage.rs:514`).

## 4. The proofs

All are for any value of the constants that the named assumptions admit, which are
what the constructors and the validation enforce.

| Module | Theorem | Statement | Also checked in |
|---|---|---|---|
| `KeyPoolProofs` | `TypeCorrect` | `Spec => []TypeOK` | `PoolWaits` |
| | `IdsOrdered` | `Spec => []IdsAreOrdered` | `PoolSelection` |
| | `CooldownsBounded` | `Spec => []CooldownBounded` | `PoolWaits` |
| | `BreakerLetsOneThrough` | `Spec => []OneProbe` | `PoolSelection` |
| | `CooldownsNeverShortened` | `Spec => CooldownNeverShortened` | `PoolSelection` |
| | `SilencesHeeded` | `Spec => SilenceHeeded` | `PoolSelection` |
| | `AttemptsAreBounded` | `Spec => []AttemptsBounded` | |
| `AdmissionQueueProofs` | `Conserved` | `Spec => []PermitsConserved` | `Queue` |
| | `QueueImplements` | `Spec => Implements` | `Queue` |
| | `ServedInTurn` | `Spec => [][InTurn]_vars` | |
| `GatewayProofs` | `ResourcesAlwaysHeld` | `Spec => []ResourcesHeld` | `GatewayShared` |
| | `WithdrawnAlwaysRefused` | `Spec => []WithdrawnKeyRefused` | `GatewayShared` |
| | `AuditAlwaysTells` | `Spec => []AuditTellsAnswer` | `GatewayShared` |
| | `SavedErrorAlwaysReturned` | `Spec => []SavedErrorReturned` | `GatewayAttempts` |
| | `AttemptsAlwaysAccounted` | `Spec => []AttemptsAccounted` | `GatewayAttempts` |
| | `AnswersStand` | `Spec => [][AnswerStands]_vars` | |
| `StreamProofs` | `SplittersAlwaysAgree` | `Spec => []SplittersAgree` | `Stream` |
| | `BlameAlwaysEarned` | `Spec => []BlameEarned` | `Stream` |
| | `CompletedAlwaysWhole` | `Spec => []CompletedWhole` | `Stream` |
| `LifecycleProofs` | `ReopenKept` | `Spec => []ReopenGuarantee` | |
| | `LossesCounted` | `Spec => []NoneLostSilently` | |
| | `ReopensKept` | `LSpec => []ReopenGuarantee` | `Process` |
| | `LossesAlwaysCounted` | `LSpec => []NoneLostSilently` | `Process` |
| | `CleanExits` | `LSpec => []CleanExitComplete` | `Process` |
| | `ExitsHonest` | `LSpec => []ExitHonest` | `Process` |
| | `ConfigurationsFit` | `LSpec => []ConfigFits` | `Process` |
| `ServerProofs` | `CapAlwaysHeld` | `Spec => []CapHeld` | `Connections` |
| | `ReturnsEmpty` | `Spec => []NothingLeft` | |
| `ConfigReloadProofs` | `KnownGood` | `Spec => []LastKnownGood` | `Reload` |
| | `StatusStaysHonest` | `Spec => StatusHonest` | `Reload` |
| | `WakeUpsKept` | `Spec => []NoWakeUpLost` | |
| `UsageMonitorProofs` | `HistoryAlwaysComplete` | `Spec => []HistoryComplete` | `Usage` |
| | `CoolingsJustified` | `Spec => CoolingJustified` | `Usage` |
| | `ChangesNeverMissed` | `Spec => []NoChangeMissed` | |

**KeyPool** (`PolicyAssumption`, `InputAssumption`: a policy that `PoolPolicy::validate`
accepts, lists of distinct keys). Everything rests on `Base == TypeOK /\ ObservedInPast
/\ NewIsUnused`: the deadline of a usage report that waits for the lock is within
`MaxCooldown` of the present, and a request that has not begun has used no key. `Worse`
states once what a report may do to an entry: not shorten its cooldown, not extend it
beyond the bound, make it half-open only under a full breaker cooldown, and stamp it
with its own id; one lemma per kind of report shows that it does no more. `StepKinds`
then reduces `Next` to a few kinds of steps, and each invariant has one step lemma with
a case per kind. `OneProbe` is not inductive: it does not say why the key a probe is out
on cannot be selected again. `ProbeCovered` does. While a claim runs, a key that is
still half-open cools until the claim ends at least, and a claim is no longer than a
breaker cooldown from now. A success resets the key and its half-open mark together, and
a new mark comes with a full breaker cooldown, so the fact survives every report;
`ProbeInv` is the conjunction. For `SilenceHeeded`, `SilenceKnown` says that what the
entries hold is what was reported: successes, claims and failures rewrite entries but
not their silences, and a reload forgets both sides together. `AttemptsBounded` is
strengthened by the finiteness of the used keys.

**AdmissionQueue** (`QueueAssumption`). `PermitsConserved` is not inductive: a waiter
that finds the queue closed must not be in line any more. `QInv` adds that closing
empties the line. For `Implements`, initial states map to initial states and each
action to a step of `Admission` or a stutter, action by action. `ServedInTurn`
follows from that: whoever becomes active was the first in line or found nobody
there, and after closing nobody does, because every step of `Admission` is of that
kind and the line is empty once closed.

**Gateway** (`GatewayAssumption`). `GInv` is `TypeOK`, `Place`, `Lined` and `Limits`.
`Place(r)` says for each place of the handler and the pump what the request holds and
what is known of it: permit, body, slot, a key that was valid while it held its
permit, the open attempt, the status its client got, and its records. `Lined` says
that who is in line is there once, without a permit, and that nobody is once
admission has closed; `Limits` has the three bounds. An action is one of five kinds
of steps (a move, a quiet step, an end, an answer, a release), each with its lemma.
`SavedErrorReturned` and `AttemptsAccounted` speak of requests that are over, so
`SInv` says what leads there. `Chain` is the list of attempts: all but the last failed,
were reported and name their successor. `Story` says for each place what the list, the
saved error and the answer have become: nothing before the first attempt, every
attempt settled where the next key is chosen, the last one open while it is tried,
and once an answer is decided it is the response of the last attempt or else the
saved error, if there is one. `Closed` adds what the last step writes into the record.
A task is touched by its own request alone, so each action is a case about one task,
and few lemmas about lists (the last attempt changes, one is added) carry `Chain`.
`AnswersStand` is about steps: a status once told is never replaced, no key is tried
after it, and a written record is neither changed nor doubled. It needs `Silent`, that
nobody has a status before its response is returned; then a step of a request either
comes before that or is the pump's, which only closes the attempt it has.

**Stream and SseParser** (`StreamConstants`). The cap, the deadlines, the number and
size of chunks, where they are cut and how long the body is are arbitrary. That
parser and client agree is a simulation: `Agree` relates a state of the parser to
the state of a decoder that has read the same bytes. The last four bytes the parser
keeps are those of the decoder's line and of the line end before it; unless an event
was too large, the buffer has as many data lines as the decoder, as far as none,
one and more are told apart; and the counters are the same. `ByteAgrees` takes one
byte through both, one case per kind of byte. A state holds the parser where it is
and the decoder at the end of what upstream has sent, so the invariant says that
there are the bytes sent so far and the states of both between any two of them
(`Reads`), and where in them the parser, the chunk in hand and the prefetched chunks
are (`Position`, `Cut`). `SplittersAgree` is not inductive without that: while bytes
are under way it says nothing, and after them it needs every step in between. The
same positions show that what was not sent is exactly what is owed, hence
`CompletedWhole`; and `Deadline`, that while no complete event waits the time left
and the time since the last event make up the deadline, hence `BlameEarned`. A body
that is no event stream has `PlainBody`: unless it overflowed, the parser's bytes and
those on the wire are what upstream sent. `PushSse` is a recursive function, and what
it does to a chunk is shown by induction on the bytes of the chunk.

**AuditWriter and Lifecycle** (`AuditConstants`, `ConfigConstants`, `RawIsTyped`).
`AInv` says that generations only grow (from the promise, over the reply that waits
to be read, to the open file), that a record is in no file older than its promise,
that accepted records are queued, in hand or written as long as nothing has failed,
and that the thread ends with an empty queue. `Account` is for `NoneLostSilently`: no
record is twice in the queue or in the files, none in two of queue, hand and files,
only accepted ones are in any, and those that are in none are no more than the counted
failures; a step loses the record in hand at most, and then counts. `Composed` shows
that every step of the process is a step of the writer or none, so both carry over;
`PInv` adds the phases of `main`, and that no pump holds the writer once its shutdown
is under way. `ConfigFits` comes from `ValidFits`, which goes through the demands of
the constructors one by one, the channel's excepted.

**Server** (`ServerConstants`). `CapHeld` is inductive as it stands; the argument is
a count. `ReturnsEmpty` (when `serve` has returned, no task is left and every permit is
back) adds that the loop returns only with an empty set, and nothing is spawned after.

**ConfigReload** (`ReloadConstants`). `LastKnownGood` speaks of the states between
reloads. `RInv` adds `Whole`, what each step of the apply callback leaves to the
next, and `Budget`, which bounds the versions of the watch channel: each publication
is paid for by a change or a signal, through a wake-up in one place at a time.
`WakeUpsKept` is what `LastChangeApplied` and `SyncGoesOn` need besides fairness: the
worker waits with no wake-up on its way only if the file on disk is in force or cannot
be applied, and the monitor waits only with synchronisation off, although a full bridge
drops wake-ups and the drain discards them. `Owed` follows the file through the worker:
a wake-up is on its way, the load is still to come, or the worker has that very file.

**UsageMonitor** (`UsageConstants`). `HistoryComplete` is not inductive: that a
record is lost only with a failure counted needs to know where the others are. `UInv`
adds `History` (what is accepted and neither written, queued nor in the thread's hand
is no more than `failures`; queue and hand hold accepted records only), `Shown` (a
snapshot is at least as new as any accepted record of its key, but for the record just
offered), `Pending` (an answer is there exactly while its key waits to be handled) and
`Ending` (the thread ends after the last sender, with an empty queue).
`CoolingsJustified` needs from it the shapes, that the round began in the past, which
key is at hand and that the status shows its answer before it is evaluated. The rest is
`evaluate` (`EvaluateCools`: the windows it counts are those of `Due`, and it takes the
latest) and the clamp.
`ChangesNeverMissed` is what `NewKeysPolled` needs besides fairness: a round under way
polls the keys of now, or the channel still has a change for the task. It holds because
a round reads the keys without marking them as seen.

Layout. Each module names Zenon as its default prover (`USE`), which suits first-order
leaves; a leaf that needs arithmetic or sequences names SMT. The few facts about
sequences are lemmas of the module that needs them, and `GatewayProofs`, `KeyPoolProofs`
and `LifecycleProofs` take the theorems about finite sets where counting begins: a
smaller context keeps the leaves small.

`InTurn`, `NothingLeft`, `NoWakeUpLost`, `NoChangeMissed` and `AnswerStands` belong to no
run. TLC finds no violation of them with the constants of `Queue`, `Connections`,
`Reload`, `Usage` and `GatewayAttempts`; of `AnswerStands` also with those of
`GatewayShared` for two requests instead of three.

Induction over data. A step `n \in S => n + 1 \in S` for a set `S` that holds 0
gives `Nat \subseteq S` (lemma `Induction` of `StreamProofs`), so that facts about
recursive functions are proved by naming the set of numbers for which they hold.

Only model-checked: the liveness properties (`NextReturns`, `Resolves`,
`EveryWaitEnds`, `PermitComesBack`, `StreamEnds`, `CallsReturn`, `ShutdownBounded`,
`LastChangeApplied`, `SyncGoesOn`, `SilenceEnds`, `ShutdownReturns`, `PollingGoesOn`,
`NewKeysPolled`), since fairness and `ENABLED` are outside the prover. Every
invariant and every action property of the passing runs is proved.

## 5. Not modelled

- In `gateway.rs`: which headers are forwarded, the wording of errors, token counts
  (usage is the number of the event it came from), and how long a cooldown read from
  a 429 is (`classify_429` and `parse_resets_in` are a choice of durations in
  `KeyPool`). `Stream` follows one answer; that streams share slots and permits is
  `Gateway`'s.
- A deadline added to an `Instant` cannot overflow in the models, whose clocks count
  ticks (see section 3 for where the code's can), and neither can memory run out.
- YAML and JSON themselves, and texts: a text is blank, too long, or a name.
- HTTP, TLS and DNS (hyper, reqwest), the layout of audit records and history
  lines, the queue inside the watcher library (assumed not to overflow).
- That the usage monitor stops is assumed by `Lifecycle` and shown by `UsageMonitor`
  under `DiskWorks`.
- The crate root and the build script (declarations, a commit hash), `deploy/` and
  `tests/`, and of `tools/` everything but the load generator's event decoder: they
  are not part of the service.

## 6. Plan

1. `classify_429`, `parse_resets_in` and the back-off schedule as operators, checked
   against reference definitions over bounded inputs.
2. What `KeyPool` promises to a request as an abstract specification that `Gateway`
   uses, and the pool shown to implement it.
