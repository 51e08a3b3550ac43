---------------------------- MODULE UsageMonitor ----------------------------
(***************************************************************************)
(* The usage monitor (src/usage.rs): a task that asks the upstream for the *)
(* usage of every key in rounds, offers what it read to a history thread   *)
(* over a bounded channel, shows it in the status and cools the keys it    *)
(* finds near their limit in the pool; the replacement of the keys, first  *)
(* of the pool and then of the monitor, by a reload; and its shutdown,     *)
(* which waits for the task and then for the thread.                       *)
(*                                                                         *)
(* The history thread may stall in a file operation for ever.              *)
(***************************************************************************)
EXTENDS Integers, Sequences, FiniteSets, FiniteSetsExt

CONSTANTS
    Keys,         \* all keys ever configured
    KeySets,      \* the key lists reloads install
    InitialKeys,  \* the one the service starts with
    Answers,      \* what a fetch may meet
    BODY_LIMIT,   \* the bytes a fetch reads at most
    Failed,       \* a fetch without a body
    NotJson,      \* a body that does not parse
    Threshold,    \* usage.soft_threshold_percent
    MAX_COOLDOWN, \* the longest cooldown the pool takes over
    Capacity,     \* USAGE_HISTORY_QUEUE_CAPACITY
    MaxReloads,   \* bound: replacements of the keys
    MaxRounds,    \* bound: rounds that offer records
    MaxClock      \* bound: the clock

Windows == {"rolling", "weekly", "monthly"}
NoReset == -1
NoCooldown == -1

\* A window that is absent from the response has no reset and is not limited.
Window == [limited : BOOLEAN, percent : Int, reset : Int]
UsageBody == [top : BOOLEAN, windows : [Windows -> Window]]

\* answered: there is a response, and all of it within the fetch's timeout;
\* length: its Content-Length, 0 without one.
Answer == [answered : BOOLEAN, success : BOOLEAN, length : Nat, bytes : Nat,
           body : UsageBody \cup {NotJson}]

ASSUME UsageConstants ==
    /\ InitialKeys \in KeySets /\ KeySets \subseteq SUBSET Keys
    /\ Failed # NotJson /\ {Failed, NotJson} \cap UsageBody = {}
    /\ Answers \subseteq Answer /\ BODY_LIMIT \in Nat
    /\ Capacity \in Nat \ {0} /\ Threshold \in 1..100 /\ MAX_COOLDOWN \in Nat \ {0}
    /\ MaxReloads \in Nat /\ MaxRounds \in Nat /\ MaxClock \in Nat

VARIABLES
    keys,      \* the watch channel: [set, version]
    pool,      \* the keys of the pool, [set, version]: ahead of the channel
               \* while a reload is between the two
    poll,      \* the task: [pc, keys of the round, start, seen, answers,
               \* keys whose answer is still to be handled, the one at hand]
    rounds,    \* rounds begun, up to one past the bound
    stop,      \* the stop one-shot has been sent
    cooled,    \* per key of the pool: until when the monitor has cooled it
    snapshots, \* UsageSnapshotStore: per key, the round of its last snapshot
    queue,     \* the history channel
    sink,      \* the writer's own sender has not been taken
    thread,    \* the history thread: [pc, record in hand]
    written,   \* the records in the history files
    failures,  \* write_failures
    accepted,  \* history: records that entered the channel
    closing,   \* shutdown: "no", "task", "thread" or "returned"
    now        \* the clock

histVars == <<queue, sink, thread, written, failures, accepted>>
vars == <<keys, pool, poll, rounds, stop, cooled, snapshots, histVars, closing, now>>

NoKey == "none"
NoRecord == [key |-> NoKey, round |-> 0]

Init ==
    /\ keys = [set |-> InitialKeys, version |-> 0]
    /\ pool = [set |-> InitialKeys, version |-> 0]
    /\ poll = [pc |-> "loop", round |-> {}, start |-> 0, seen |-> 0,
               answer |-> [k \in Keys |-> Failed], todo |-> {}, at |-> NoKey]
    /\ rounds = 0
    /\ stop = FALSE
    /\ cooled = [k \in Keys |-> 0]
    /\ snapshots = [k \in Keys |-> 0]
    /\ queue = <<>> /\ sink = TRUE
    /\ thread = [pc |-> "recv", rec |-> NoRecord]
    /\ written = {} /\ failures = 0 /\ accepted = {}
    /\ closing = "no"
    /\ now = 0

-----------------------------------------------------------------------------
(***************************************************************************)
(* evaluate: how long a key is to be cooled, from one response.            *)
(***************************************************************************)
HasLimitedWindow(body) == \E w \in Windows : body.windows[w].limited

\* A limit that is reported at the top only applies to every window.
Counts(body, w) ==
    LET win == body.windows[w]
    IN  \/ body.top /\ (~HasLimitedWindow(body) \/ win.limited)
        \/ win.limited
        \/ win.percent \in Threshold..100

\* A check that counts the windows below the threshold too.
EvaluateAll(body, t) ==
    LET resets == {r \in {body.windows[w].reset : w \in Windows} : r > t}
    IN  IF resets = {} THEN NoCooldown ELSE Max(resets) - t

evaluate(body, t) ==
    LET due == {w \in Windows : Counts(body, w) /\ body.windows[w].reset > t}
        resets == {body.windows[w].reset : w \in due}
    IN  IF resets = {} THEN NoCooldown ELSE Max(resets) - t

-----------------------------------------------------------------------------
(***************************************************************************)
(* The polling task.                                                       *)
(***************************************************************************)

\* A task that reads the keys once, when it starts.
BeginRoundInitial ==
    /\ poll.pc = "loop"
    /\ poll' = [poll EXCEPT !.pc = "fetching", !.round = InitialKeys, !.start = now]
    /\ rounds' = IF rounds <= MaxRounds THEN rounds + 1 ELSE rounds
    /\ UNCHANGED <<keys, pool, stop, cooled, snapshots, histVars, closing, now>>

\* A round begins: the keys are read, not marked as seen, and the clock is read.
BeginRound ==
    /\ poll.pc = "loop"
    /\ poll' = [poll EXCEPT !.pc = "fetching", !.round = keys.set, !.start = now]
    /\ rounds' = IF rounds <= MaxRounds THEN rounds + 1 ELSE rounds
    /\ UNCHANGED <<keys, pool, stop, cooled, snapshots, histVars, closing, now>>

\* HttpUsageFetcher::fetch: a success status, and a body within BODY_LIMIT
\* whatever its Content-Length says.
fetch(a) ==
    IF a.answered /\ a.success /\ a.length <= BODY_LIMIT /\ a.bytes <= BODY_LIMIT
      THEN a.body ELSE Failed

\* After MaxRounds rounds (the bound) no fetch brings a usage response.
Results == {fetch(a) : a \in Answers} \ IF rounds <= MaxRounds THEN {} ELSE UsageBody

\* join_all: every fetch has answered, failed or timed out.
Fetched ==
    /\ poll.pc = "fetching"
    /\ \E a \in [poll.round -> Results] :
          poll' = [poll EXCEPT
                     !.pc = "results",
                     !.todo = {k \in poll.round : a[k] # Failed},
                     !.answer = [k \in Keys |-> IF k \in poll.round THEN a[k]
                                                                    ELSE Failed]]
    /\ UNCHANGED <<keys, pool, rounds, stop, cooled, snapshots, histVars, closing, now>>

\* A history that waits until there is room.
OfferBlocking(k) ==
    /\ Len(queue) < Capacity
    /\ queue' = Append(queue, [key |-> k, round |-> rounds])
    /\ accepted' = accepted \cup {[key |-> k, round |-> rounds]}

\* try_record of the history sink: what does not fit is dropped and counted.
Offer(k) ==
    IF Len(queue) < Capacity
      THEN /\ queue' = Append(queue, [key |-> k, round |-> rounds])
           /\ accepted' = accepted \cup {[key |-> k, round |-> rounds]}
      ELSE UNCHANGED <<queue, accepted>>

\* The results are handled one after the other.  A body that does not parse is
\* neither recorded nor evaluated ...
SkipResult(k) ==
    /\ poll.pc = "results" /\ k \in poll.todo /\ poll.answer[k] = NotJson
    /\ poll' = [poll EXCEPT !.todo = @ \ {k}, !.answer[k] = Failed]
    /\ UNCHANGED <<keys, pool, rounds, stop, cooled, snapshots, histVars, closing, now>>

\* ... one that does goes to the history, from where its thread takes it at once,
RecordResult(k) ==
    /\ poll.pc = "results" /\ k \in poll.todo /\ poll.answer[k] # NotJson
    /\ poll' = [poll EXCEPT !.pc = "update", !.at = k]
    /\ Offer(k)
    /\ UNCHANGED <<keys, pool, rounds, stop, cooled, snapshots, sink, thread, written,
                   failures, closing, now>>

\* then to the status,
update(k) ==
    /\ poll.pc = "update" /\ poll.at = k
    /\ poll' = [poll EXCEPT !.pc = "report"]
    /\ snapshots' = [snapshots EXCEPT ![k] = rounds]
    /\ UNCHANGED <<keys, pool, rounds, stop, cooled, histVars, closing, now>>

deadline_after(t, d) == t + IF d <= MAX_COOLDOWN THEN d ELSE MAX_COOLDOWN

\* report_proactive_cooldown: the pool adds the duration to its own clock, keeps
\* a longer cooldown and knows nothing of a key that a reload has removed.
report_proactive_cooldown(k, d) ==
    cooled' = IF k \in pool.set /\ cooled[k] <= deadline_after(now, d)
                THEN [cooled EXCEPT ![k] = deadline_after(now, d)]
                ELSE cooled

\* and is evaluated at last, against the clock the round began with.
EvaluateResult(k) ==
    /\ poll.pc = "report" /\ poll.at = k
    /\ poll' = [poll EXCEPT !.pc = "results", !.at = NoKey, !.todo = @ \ {k},
                            !.answer[k] = Failed]
    /\ LET cooldown == evaluate(poll.answer[k], poll.start)
       IN  IF cooldown = NoCooldown THEN UNCHANGED cooled
                                    ELSE report_proactive_cooldown(k, cooldown)
    /\ UNCHANGED <<keys, pool, rounds, stop, snapshots, histVars, closing, now>>

HandleResult(k) == SkipResult(k) \/ RecordResult(k) \/ update(k) \/ EvaluateResult(k)

EndRound ==
    /\ poll.pc = "results" /\ poll.todo = {}
    /\ poll' = [poll EXCEPT !.pc = "select"]
    /\ UNCHANGED <<keys, pool, rounds, stop, cooled, snapshots, histVars, closing, now>>

\* The interval is over, or the keys have changed.
Wake ==
    /\ poll.pc = "select"
    /\ \/ poll' = [poll EXCEPT !.pc = "loop"]
       \/ /\ poll.seen # keys.version
          /\ poll' = [poll EXCEPT !.pc = "loop", !.seen = keys.version]
    /\ UNCHANGED <<keys, pool, rounds, stop, cooled, snapshots, histVars, closing, now>>

\* A task that does not look at the stop channel.
NeverStops == poll.pc = "none" /\ UNCHANGED vars

Stopped ==
    /\ poll.pc = "select" /\ stop
    /\ poll' = [poll EXCEPT !.pc = "stopped"]
    /\ UNCHANGED <<keys, pool, rounds, stop, cooled, snapshots, histVars, closing, now>>

\* The apply callback of a reload: first the pool, whose new entries are not
\* cooling, ...
update_with_keys(ks) ==
    /\ pool = keys /\ pool.version < MaxReloads
    /\ pool' = [set |-> ks, version |-> pool.version + 1]
    /\ cooled' = [k \in Keys |-> IF k \in ks THEN cooled[k] ELSE 0]
    /\ UNCHANGED <<keys, poll, rounds, stop, snapshots, histVars, closing, now>>

\* ... then the watch channel of the monitor.
replace_keys ==
    /\ pool # keys
    /\ keys' = pool
    /\ UNCHANGED <<pool, poll, rounds, stop, cooled, snapshots, histVars, closing, now>>

Tick ==
    /\ now < MaxClock
    /\ now' = now + 1
    /\ UNCHANGED <<keys, pool, poll, rounds, stop, cooled, snapshots, histVars, closing>>

-----------------------------------------------------------------------------
(***************************************************************************)
(* The history thread.  The channel is closed when both senders are gone:  *)
(* the writer's own and the task's.                                        *)
(***************************************************************************)
SendersGone == ~sink /\ poll.pc = "stopped"

\* A thread that ends with its senders, whatever is queued.
RecvUnlessClosed ==
    /\ thread.pc = "recv"
    /\ \/ /\ ~SendersGone /\ queue # <<>>
          /\ thread' = [pc |-> "io", rec |-> Head(queue)]
          /\ queue' = Tail(queue)
       \/ /\ SendersGone
          /\ thread' = [thread EXCEPT !.pc = "exited"]
          /\ UNCHANGED queue
    /\ UNCHANGED <<keys, pool, poll, rounds, stop, cooled, snapshots, sink, written, failures,
                   accepted, closing, now>>

Recv ==
    /\ thread.pc = "recv"
    /\ \/ /\ queue # <<>>
          /\ thread' = [pc |-> "io", rec |-> Head(queue)]
          /\ queue' = Tail(queue)
       \/ /\ SendersGone /\ queue = <<>>
          /\ thread' = [thread EXCEPT !.pc = "exited"]
          /\ UNCHANGED queue
    /\ UNCHANGED <<keys, pool, poll, rounds, stop, cooled, snapshots, sink, written, failures,
                   accepted, closing, now>>

write_history_record ==
    /\ thread.pc = "io"
    /\ \/ written' = written \cup {thread.rec} /\ UNCHANGED failures
       \/ failures' = failures + 1 /\ UNCHANGED written
    /\ thread' = [pc |-> "recv", rec |-> NoRecord]
    /\ UNCHANGED <<keys, pool, poll, rounds, stop, cooled, snapshots, queue, sink, accepted,
                   closing, now>>

-----------------------------------------------------------------------------
(***************************************************************************)
(* shutdown: stop, wait for the task, take the sink, join the thread.      *)
(***************************************************************************)
shutdown ==
    /\ closing = "no"
    /\ stop' = TRUE
    /\ closing' = "task"
    /\ UNCHANGED <<keys, pool, poll, rounds, cooled, snapshots, histVars, now>>

TaskEnded ==
    /\ closing = "task" /\ poll.pc = "stopped"
    /\ sink' = FALSE
    /\ closing' = "thread"
    /\ UNCHANGED <<keys, pool, poll, rounds, stop, cooled, snapshots, queue, thread, written,
                   failures, accepted, now>>

Joined ==
    /\ closing = "thread" /\ thread.pc = "exited"
    /\ closing' = "returned"
    /\ UNCHANGED <<keys, pool, poll, rounds, stop, cooled, snapshots, histVars, now>>

Task == BeginRound \/ Fetched \/ EndRound \/ Wake \/ \E k \in Keys : HandleResult(k)
Thread == Recv \/ write_history_record

Next ==
    \/ Task \/ Stopped \/ Thread
    \/ shutdown \/ TaskEnded \/ Joined
    \/ Tick
    \/ replace_keys
    \/ \E ks \in KeySets : update_with_keys(ks)

Spec == Init /\ [][Next]_vars

\* The task, its timers and the caller of shutdown run (a fetch has a timeout
\* of its own, and select! takes a branch that stays ready), and a reload does
\* not wait between pool and channel; file operations may stall for ever.
FairSpec ==
    /\ Spec
    /\ WF_vars(Task) /\ SF_vars(Stopped) /\ WF_vars(TaskEnded \/ Joined)
    /\ WF_vars(replace_keys)

\* File operations end, well or badly.
DiskWorks == WF_vars(Thread)

-----------------------------------------------------------------------------
(***************************************************************************)
(* Properties.                                                             *)
(***************************************************************************)
Entry == [key : Keys, round : 0..MaxRounds]

\* The variables have the shape of the channels, the task's locals and the
\* history writer, and the channel never exceeds its capacity.
TypeOK ==
    /\ keys.set \in KeySets /\ keys.version \in 0..MaxReloads
    /\ poll.pc \in {"loop", "fetching", "results", "update", "report", "select", "stopped"}
    /\ poll.seen \in 0..keys.version /\ poll.todo \subseteq poll.round
    /\ queue \in Seq(Entry) /\ Len(queue) <= Capacity
    /\ thread.pc \in {"recv", "io", "exited"}
    /\ written \subseteq accepted /\ failures \in Nat
    /\ snapshots \in [Keys -> 0..MaxRounds]
    /\ closing \in {"no", "task", "thread", "returned"}

\* The resets a response gives reason to wait for: they lie ahead of the clock
\* the round began with, and their window is limited, or used to the threshold or
\* more but not out of range, or the response is limited at the top and blames
\* no window.
Exceeded(body, w) ==
    LET win == body.windows[w]
    IN  \/ win.limited
        \/ Threshold <= win.percent /\ win.percent <= 100
        \/ body.top /\ \A v \in Windows : ~body.windows[v].limited

Due(body, t) ==
    {body.windows[w].reset : w \in {v \in Windows : /\ Exceeded(body, v)
                                                    /\ body.windows[v].reset > t}}

\* The monitor prolongs a cooldown only of a key in the pool, for a response of
\* this round that the status already shows, and by no more than the time the
\* round has taken past a reset that is due; it shortens none, a reload that
\* removes the key excepted; and once a result is handled its key, if still in
\* the pool, is cooled past every reset that is due, or for MAX_COOLDOWN, which
\* no cooldown exceeds (evaluate, poll_once_with_observers,
\* report_proactive_cooldown, deadline_after).
CoolingJustified ==
    [][\A k \in Keys :
          LET body == poll.answer[k]
              due == Due(body, poll.start)
          IN  /\ cooled'[k] > cooled[k]
                   => /\ k \in pool.set /\ body \notin {Failed, NotJson}
                      /\ snapshots[k] = rounds
                      /\ \E r \in due : cooled'[k] <= r + (now - poll.start)
                      /\ cooled'[k] <= now + MAX_COOLDOWN
              /\ cooled'[k] < cooled[k] => k \notin pool'.set
              /\ k \in poll.todo \ poll'.todo /\ k \in pool.set /\ body # NotJson
                   => \A r \in due : cooled'[k] >= r \/ cooled'[k] >= now + MAX_COOLDOWN
      ]_vars

\* The history channel keeps its bound; the status is behind the history by at
\* most the record that has just been offered, whose update is the task's next
\* step; and when shutdown has returned, each record that entered the history is
\* in a file or was counted as a failure: the thread is joined only after the
\* last sender is gone (try_record, update, UsageHistoryWriter::shutdown).
HistoryComplete ==
    /\ TypeOK
    /\ \A e \in accepted :
          \/ snapshots[e.key] >= e.round
          \/ poll.pc = "update" /\ e = [key |-> poll.at, round |-> rounds]
    /\ closing = "returned" => /\ queue = <<>>
                               /\ Cardinality(accepted \ written) <= failures

\* As the README says, "disk failures never block polling or cooldown
\* decisions": rounds go on although the history thread is stuck.
PollingGoesOn == []<>(poll.pc \in {"loop", "stopped"})

\* Keys a reload has put into the pool are polled from some round on, also when
\* they come in the middle of a round or while the task is deciding to wait, and
\* no removed key is polled for ever (keys_rx).
NewKeysPolled ==
    \A ks \in KeySets : <>[](pool.set = ks /\ ~stop) => <>[](poll.round = ks)

\* shutdown returns once file operations end: the task sees the stop at the end
\* of its round and the thread drains.
ShutdownReturns == DiskWorks => ((closing = "task") ~> (closing = "returned"))
=============================================================================
