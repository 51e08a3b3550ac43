---------------------------- MODULE ConfigReload ----------------------------
(***************************************************************************)
(* Hot reload of the configuration (src/hot_reload.rs, the apply callback  *)
(* of src/main.rs) and the model synchronisation it shares the runtime     *)
(* store with (src/models.rs, RuntimeStore of src/gateway.rs).             *)
(*                                                                         *)
(* The file changes under the service; the watcher's thread forwards each  *)
(* change to a bounded bridge; a worker wakes up, waits, empties the       *)
(* bridge, loads the file and publishes it.  Meanwhile the model monitor   *)
(* fetches the upstream's model list and publishes that.  Each critical    *)
(* section of the store, and each use of the watch channel, is a step.     *)
(***************************************************************************)
EXTENDS Integers, Sequences, FiniteSets

CONSTANTS
    Files,        \* contents the file takes: [ok, frozen, keys, sync, models]
    Initial,      \* the file the service was started with
    Ids,          \* what an item of the upstream's list may have as its id
    Usable,       \* those that are not blank and within MAX_MODEL_BYTES
    Answers,      \* what a fetch may meet
    BODY_LIMIT,   \* the bytes a fetch reads at most
    EventBuffer,  \* EVENT_BUFFER
    MaxWrites,    \* bound: changes of the file
    MaxSignals    \* bound: hangup signals

\* ok: the file parses and validates; frozen: it agrees with the running
\* service in every field that needs a restart; sync: the interval of model
\* synchronisation, 0 when it is off, as it is with a manual list.
Distinct(s) == \A i, j \in 1..Len(s) : s[i] = s[j] => i = j
ModelLists == {s \in Seq(Usable) : s # <<>> /\ Distinct(s)}
ConfigFile == [ok : BOOLEAN, frozen : BOOLEAN, keys : Nat, sync : Nat,
               models : ModelLists]

\* answered: there is a response, and all of it within the fetch's timeout;
\* length: its Content-Length, 0 without one; json: it has an array "data", the
\* ids of which are data.
Answer == [answered : BOOLEAN, success : BOOLEAN, length : Nat, bytes : Nat,
           json : BOOLEAN, data : Seq(Ids)]

ASSUME ReloadConstants ==
    /\ Files \subseteq ConfigFile
    /\ Usable \subseteq Ids /\ Answers \subseteq Answer /\ BODY_LIMIT \in Nat
    /\ Initial \in Files /\ Initial.ok /\ Initial.frozen
    /\ EventBuffer \in Nat \ {0}
    /\ MaxWrites \in Nat /\ MaxSignals \in Nat

VARIABLES
    file,      \* the content of the configuration file
    writes,    \* changes made so far
    signals,   \* hangup signals so far
    notified,  \* change events the watcher's thread has not forwarded yet
    bridge,    \* wake-ups in the bridge channel
    worker,    \* the reload worker: [pc, cfg loaded, models read]
    status,    \* StatusState: [outcome of the last reload, needs_restart]
    stopped,   \* the reloader has been dropped
    store,     \* RuntimeStore: [keys (the rest of the state with them), models]
    pool,      \* the key list of the pool
    usage,     \* the key list of the usage monitor
    sync,      \* the watch channel of the model monitor: [interval, version]
    monitor,   \* the model monitor: [pc, generation, seen, fetched]
    stop,      \* the model monitor has been told to stop
    active     \* history: the file last applied with success

fileVars == <<file, writes>>
storeVars == <<store, pool, usage>>
vars == <<fileVars, signals, notified, bridge, worker, status, stopped,
          storeVars, sync, monitor, stop, active>>

NoModels == <<>>

Init ==
    /\ file = Initial /\ writes = 0 /\ signals = 0
    /\ notified = 0 /\ bridge = 0
    /\ worker = [pc |-> "recv", cfg |-> Initial, models |-> NoModels]
    /\ status = [last |-> "none", needs_restart |-> FALSE]
    /\ stopped = FALSE
    /\ store = [keys |-> Initial.keys, models |-> Initial.models]
    /\ pool = Initial.keys /\ usage = Initial.keys
    /\ sync = [interval |-> Initial.sync, version |-> 0]
    /\ monitor = [pc |-> "loop", generation |-> 0, seen |-> 0,
                  fetched |-> NoModels]
    /\ stop = FALSE
    /\ active = Initial

-----------------------------------------------------------------------------
(***************************************************************************)
(* The file, its watcher and the hangup signal.                            *)
(***************************************************************************)

\* An editor saves, truncates or replaces the file; the watcher has an event.
Save(f) ==
    /\ writes < MaxWrites /\ f # file
    /\ file' = f /\ writes' = writes + 1
    /\ notified' = notified + 1
    /\ UNCHANGED <<signals, bridge, worker, status, stopped, storeVars, sync,
                   monitor, stop, active>>

\* try_send on the bridge: a full bridge drops the wake-up.
Woken == bridge' = IF bridge < EventBuffer THEN bridge + 1 ELSE bridge

\* The watcher's thread (build_watcher); it ends with the watcher.
Forward ==
    /\ ~stopped /\ notified > 0
    /\ notified' = notified - 1
    /\ Woken
    /\ UNCHANGED <<fileVars, signals, worker, status, stopped, storeVars, sync,
                   monitor, stop, active>>

\* ReloadTrigger::fire, at the end of on_sighup.
fire ==
    /\ signals < MaxSignals
    /\ signals' = signals + 1
    /\ Woken
    /\ UNCHANGED <<fileVars, notified, worker, status, stopped, storeVars, sync,
                   monitor, stop, active>>

-----------------------------------------------------------------------------
(***************************************************************************)
(* The reload worker.  It awaits in recv and sleep only; Drop's abort takes*)
(* effect there, never between load and the record of the outcome.         *)
(***************************************************************************)
At(p) == worker.pc = p
Goto(p) == worker' = [worker EXCEPT !.pc = p]
\* The file goes out of scope.
Done == worker' = [worker EXCEPT !.pc = "recv", !.cfg = Initial]
Awaiting == worker.pc \in {"recv", "sleep"}
NothingApplied == UNCHANGED <<storeVars, sync, active>>

Recv ==
    /\ At("recv") /\ ~stopped /\ bridge > 0
    /\ bridge' = bridge - 1
    /\ Goto("sleep")
    /\ UNCHANGED <<fileVars, signals, notified, status, stopped, storeVars, sync,
                   monitor, stop, active>>

\* The debounce is over: everything in the bridge is thrown away.
Drain ==
    /\ At("sleep") /\ ~stopped
    /\ bridge' = 0
    /\ Goto("drained")
    /\ UNCHANGED <<fileVars, signals, notified, status, stopped, storeVars, sync,
                   monitor, stop, active>>

StillEmpty ==
    /\ At("drained")
    /\ Goto(IF bridge = 0 THEN "load" ELSE "sleep")
    /\ UNCHANGED <<fileVars, signals, notified, bridge, status, stopped, storeVars,
                   sync, monitor, stop, active>>

\* config::load reads, parses and validates the file as it is now.
load ==
    /\ At("load")
    /\ worker' = [worker EXCEPT !.pc = "check", !.cfg = file]
    /\ UNCHANGED <<fileVars, signals, notified, bridge, status, stopped, storeVars,
                   sync, monitor, stop, active>>

\* A failure that forgets the restart an earlier file asked for.
RecordFailureClears ==
    /\ At("check") /\ ~worker.cfg.ok
    /\ status' = [last |-> "failed", needs_restart |-> FALSE]
    /\ Done
    /\ NothingApplied
    /\ UNCHANGED <<fileVars, signals, notified, bridge, stopped, monitor, stop>>

record_failure ==
    /\ At("check") /\ ~worker.cfg.ok
    /\ status' = [status EXCEPT !.last = "failed"]
    /\ Done
    /\ NothingApplied
    /\ UNCHANGED <<fileVars, signals, notified, bridge, stopped, monitor, stop>>

record_needs_restart ==
    /\ At("check") /\ worker.cfg.ok /\ ~worker.cfg.frozen
    /\ status' = [last |-> "refused", needs_restart |-> TRUE]
    /\ Done
    /\ NothingApplied
    /\ UNCHANGED <<fileVars, signals, notified, bridge, stopped, monitor, stop>>

\* The apply callback, one step per critical section: first the monitor's
\* setting is replaced (ModelSyncHandle::replace) ...
ApplySync ==
    /\ At("check") /\ worker.cfg.ok /\ worker.cfg.frozen
    /\ sync' = [interval |-> worker.cfg.sync, version |-> sync.version + 1]
    /\ Goto("models")
    /\ UNCHANGED <<fileVars, signals, notified, bridge, status, stopped, storeVars,
                   monitor, stop, active>>

\* ... then the list to publish is chosen: with synchronisation, the one in
\* the store ...
ApplyModels ==
    /\ At("models")
    /\ worker' = [worker EXCEPT
                    !.pc = "publish",
                    !.models = IF worker.cfg.sync # 0 THEN store.models
                                                  ELSE worker.cfg.models]
    /\ UNCHANGED <<fileVars, signals, notified, bridge, status, stopped, storeVars,
                   sync, monitor, stop, active>>

\* ... and pool and store are replaced in one critical section.  It cannot
\* fail: a validated file has keys.
update_with_keys ==
    /\ At("publish")
    /\ pool' = worker.cfg.keys
    /\ store' = [keys |-> worker.cfg.keys, models |-> worker.models]
    /\ worker' = [worker EXCEPT !.pc = "usage", !.models = NoModels]
    /\ UNCHANGED <<fileVars, signals, notified, bridge, status, stopped, usage,
                   sync, monitor, stop, active>>

\* A worker that throws away the events it takes for echoes of its own work.
RecordSuccessDrains ==
    /\ At("usage")
    /\ usage' = worker.cfg.keys
    /\ active' = worker.cfg
    /\ status' = [last |-> "success", needs_restart |-> FALSE]
    /\ Done
    /\ bridge' = 0
    /\ UNCHANGED <<fileVars, signals, notified, stopped, store, pool, sync, monitor, stop>>

\* UsageKeysHandle::replace_keys, then record_success.
record_success ==
    /\ At("usage")
    /\ usage' = worker.cfg.keys
    /\ active' = worker.cfg
    /\ status' = [last |-> "success", needs_restart |-> FALSE]
    /\ Done
    /\ UNCHANGED <<fileVars, signals, notified, bridge, stopped, store, pool, sync,
                   monitor, stop>>

Abort ==
    /\ stopped /\ Awaiting
    /\ Goto("aborted")
    /\ UNCHANGED <<fileVars, signals, notified, bridge, status, stopped, storeVars,
                   sync, monitor, stop, active>>

\* Drop: the worker is told to abort, the watcher's thread ends.
Drop ==
    /\ ~stopped
    /\ stopped' = TRUE
    /\ UNCHANGED <<fileVars, signals, notified, bridge, worker, status, storeVars,
                   sync, monitor, stop, active>>

Worker ==
    \/ Recv \/ Drain \/ StillEmpty \/ load
    \/ record_failure \/ record_needs_restart
    \/ ApplySync \/ ApplyModels \/ update_with_keys \/ record_success
    \/ Abort

-----------------------------------------------------------------------------
(***************************************************************************)
(* The model monitor.                                                      *)
(***************************************************************************)
Monitored(p) == monitor.pc = p
Rest == <<fileVars, signals, notified, bridge, worker, status, stopped, stop, active>>

\* The setting is read without being marked as seen.
ReadSetting ==
    /\ Monitored("loop")
    /\ monitor' = [monitor EXCEPT
                     !.generation = sync.interval,
                     !.pc = IF sync.interval # 0 THEN "fetch" ELSE "idle"]
    /\ UNCHANGED <<Rest, storeVars, sync>>

\* HttpModelFetcher::fetch: a success status, and a body within BODY_LIMIT
\* whatever its Content-Length says.
fetch(a) ==
    a.answered /\ a.success /\ a.length <= BODY_LIMIT /\ a.bytes <= BODY_LIMIT

\* The list is taken as a whole or not at all: one id that is missing, unusable
\* or seen before, and nothing is published.
parse_models(a) ==
    IF a.json /\ a.data # <<>>
         /\ \A i \in 1..Len(a.data) :
              a.data[i] \in Usable /\ a.data[i] \notin {a.data[j] : j \in 1..(i - 1)}
      THEN a.data ELSE NoModels

\* The fetch ends.  Nothing happens between its end and the parsing of its
\* body but the check of the setting, so the body is parsed here.
FetchAnswers(a) ==
    /\ Monitored("fetch")
    /\ monitor' = [monitor EXCEPT
                     !.pc = "check",
                     !.fetched = IF fetch(a) THEN parse_models(a) ELSE NoModels]
    /\ UNCHANGED <<Rest, storeVars, sync>>

CheckSetting ==
    /\ Monitored("check")
    /\ IF sync.interval = monitor.generation /\ monitor.fetched # NoModels
         THEN monitor' = [monitor EXCEPT !.pc = "publish"]
         ELSE monitor' = [monitor EXCEPT !.pc = "sleep", !.generation = 0,
                                             !.fetched = NoModels]
    /\ UNCHANGED <<Rest, storeVars, sync>>

\* A publication that also writes back the keys of an older snapshot.
UpdateFromSnapshot ==
    /\ Monitored("publish")
    /\ store' = [keys |-> Initial.keys, models |-> monitor.fetched]
    /\ monitor' = [monitor EXCEPT !.pc = "sleep", !.generation = 0,
                                        !.fetched = NoModels]
    /\ UNCHANGED <<Rest, pool, usage, sync>>

\* update_models replaces the list in the current state, under the lock.
update_models ==
    /\ Monitored("publish")
    /\ store' = [store EXCEPT !.models = monitor.fetched]
    /\ monitor' = [monitor EXCEPT !.pc = "sleep", !.generation = 0,
                                        !.fetched = NoModels]
    /\ UNCHANGED <<Rest, pool, usage, sync>>

\* The interval is over.
Interval ==
    /\ Monitored("sleep")
    /\ monitor' = [monitor EXCEPT !.pc = "loop"]
    /\ UNCHANGED <<Rest, storeVars, sync>>

\* A monitor that, when switched off, waits for its interval only.
ChangedAsleep ==
    /\ Monitored("sleep") /\ monitor.seen # sync.version
    /\ monitor' = [monitor EXCEPT !.pc = "loop", !.seen = sync.version]
    /\ UNCHANGED <<Rest, storeVars, sync>>

\* watch::Receiver::changed: a version not seen yet wakes the monitor up.
Changed ==
    /\ monitor.pc \in {"idle", "sleep"} /\ monitor.seen # sync.version
    /\ monitor' = [monitor EXCEPT !.pc = "loop", !.seen = sync.version]
    /\ UNCHANGED <<Rest, storeVars, sync>>

\* The stop is looked at where the monitor waits, never during a fetch.
Stopped ==
    /\ monitor.pc \in {"idle", "sleep"} /\ stop
    /\ monitor' = [monitor EXCEPT !.pc = "returned"]
    /\ UNCHANGED <<Rest, storeVars, sync>>

\* ModelMonitor::shutdown, which main calls after it has dropped the reloader.
shutdown ==
    /\ stopped /\ ~stop
    /\ stop' = TRUE
    /\ UNCHANGED <<fileVars, signals, notified, bridge, worker, status, stopped,
                   storeVars, sync, monitor, active>>

Monitor ==
    \/ ReadSetting \/ CheckSetting \/ update_models \/ Interval \/ Changed
    \/ Stopped
    \/ \E a \in Answers : FetchAnswers(a)

Next ==
    \/ \E f \in Files : Save(f)
    \/ Forward \/ fire \/ Drop \/ shutdown
    \/ Worker
    \/ Monitor

Spec == Init /\ [][Next]_vars

\* A fetch that yields a list.
FetchesList == \E a \in Answers : FetchAnswers(a) /\ monitor'.fetched # NoModels

\* The watcher's thread, both tasks and the timers run, a fetch ends (it has a
\* timeout) and is not answered badly for ever, and a select! that finds the
\* stop ready again and again takes it.
FairSpec ==
    /\ Spec
    /\ WF_vars(Forward) /\ WF_vars(Worker) /\ WF_vars(Monitor)
    /\ SF_vars(FetchesList) /\ SF_vars(Stopped)

-----------------------------------------------------------------------------
(***************************************************************************)
(* Properties.                                                             *)
(***************************************************************************)

\* The variables have the shape of the channels, the worker's and monitor's
\* locals and RuntimeState, and the bridge never exceeds EVENT_BUFFER.
TypeOK ==
    /\ file \in Files /\ active \in Files /\ worker.cfg \in Files
    /\ notified \in 0..MaxWrites /\ bridge \in 0..EventBuffer
    /\ worker.pc \in {"recv", "sleep", "drained", "load", "check", "models",
                      "publish", "usage", "aborted"}
    /\ worker.models \in ModelLists \cup {NoModels} /\ store.models \in ModelLists
    /\ status.last \in {"none", "failed", "refused", "success"}
    /\ sync.version \in 0..(MaxWrites + MaxSignals)
    /\ monitor.pc \in {"loop", "idle", "fetch", "check", "publish", "sleep",
                       "returned"}
    /\ monitor.seen \in 0..sync.version
    /\ monitor.fetched \in ModelLists \cup {NoModels}

\* Between reloads the keys of pool and store, the keys the usage monitor polls
\* and the setting of the model monitor are those of one file: the last that was
\* valid and needed no restart.  A rejected file, a concurrent publication of
\* models or a dropped reloader never leaves a part of another one behind
\* (worker, the apply callback, update_models, Drop).  The list of models is
\* ManualListServed's.
InApply == worker.pc \in {"models", "publish", "usage"}

LastKnownGood ==
    /\ TypeOK
    /\ active.ok /\ active.frozen
    /\ pool = store.keys
    /\ ~InApply => /\ store.keys = active.keys
                   /\ usage = active.keys
                   /\ sync.interval = active.sync

\* needs_restart tells the operator that a change is waiting for a restart: it
\* is set by a refused file and only a reload that applies a file resets it, so
\* a file that fails to parse in between does not hide it (record_failure).
StatusHonest ==
    [][status' # status
         => /\ status'.last = "success" <=> active' = worker.cfg /\ At("usage")
            /\ status.needs_restart /\ ~status'.needs_restart
                 => status'.last = "success"
            /\ ~status.needs_restart /\ status'.needs_restart
                 => ~worker.cfg.frozen]_vars

\* Once the file is left alone, what it says is in force: a valid file that
\* needs no restart becomes the running configuration, although wake-ups are
\* dropped when the bridge is full (try_send, the order of drain and load).
Applicable == file.ok /\ file.frozen
LastChangeApplied ==
    \A f \in Files : <>[](file = f /\ Applicable /\ ~stopped) => <>[](active = f)

\* While synchronisation stays on, a list published by a fetch reaches the
\* store again and again, even if a reload writes back an older one
\* (ApplyModels, update_with_keys, changed); and a monitor that is told to stop
\* returns, whatever it was doing: main awaits it (shutdown).
SyncGoesOn ==
    /\ <>[](sync.interval # 0 /\ ~stop) => []<>(Monitored("publish"))
    /\ stop ~> Monitored("returned")

\* As the README says of a manual list: "it overrides and disables automatic
\* synchronization".  Once a file with one is in force, its models are served.
ManualListServed ==
    ~InApply /\ active.sync = 0 => store.models = active.models
=============================================================================
