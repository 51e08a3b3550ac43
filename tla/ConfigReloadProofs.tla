------------------------- MODULE ConfigReloadProofs -------------------------
(***************************************************************************)
(* Hot reload for any files, model lists and numbers of changes, signals   *)
(* and wake-ups.                                                           *)
(*                                                                         *)
(* LastKnownGood speaks of the states between reloads.  Whole adds what    *)
(* each step of the apply callback leaves to the next: the file it is at   *)
(* work on was accepted, its interval is in the watch channel from         *)
(* ApplySync on, and its keys are in pool and store once the worker is     *)
(* about to replace the usage monitor's.  Budget bounds the versions of    *)
(* the watch channel: every publication is paid for by a change of the     *)
(* file or a signal, through a wake-up that is in one place at a time.     *)
(* Owed follows a changed file to where it is applied.                     *)
(***************************************************************************)
EXTENDS ConfigReload, TLAPS

\* Most leaves are first-order: Zenon proves them.  The others name SMT.
USE ZenonT(30)

WorkerPCs == {"recv", "sleep", "drained", "load", "check", "models", "publish",
              "usage", "aborted"}
MonitorPCs == {"loop", "idle", "fetch", "check", "publish", "sleep",
               "returned"}

Shape ==
    /\ file \in Files /\ active \in Files
    /\ worker \in [pc : WorkerPCs, cfg : Files, models : ModelLists \cup {NoModels}]
    /\ status \in [last : {"none", "failed", "refused", "success"},
                   needs_restart : BOOLEAN]
    /\ store \in [keys : Nat, models : ModelLists]
    /\ sync \in [interval : Nat, version : Nat]
    /\ monitor \in [pc : MonitorPCs, generation : Nat, seen : Nat,
                    fetched : ModelLists \cup {NoModels}]
    /\ worker.pc = "publish" => worker.models # NoModels
    /\ monitor.pc = "publish" => monitor.fetched # NoModels

Whole ==
    /\ active.ok /\ active.frozen
    /\ pool = store.keys
    /\ InApply => /\ worker.cfg.ok /\ worker.cfg.frozen
                  /\ sync.interval = worker.cfg.sync
    /\ worker.pc = "usage" => store.keys = worker.cfg.keys
    /\ ~InApply => /\ store.keys = active.keys
                   /\ usage = active.keys
                   /\ sync.interval = active.sync

InHand == IF worker.pc \in {"sleep", "drained", "load", "check"} THEN 1 ELSE 0

Budget ==
    /\ writes \in 0..MaxWrites /\ signals \in 0..MaxSignals
    /\ notified \in 0..writes /\ bridge \in 0..EventBuffer
    /\ monitor.seen <= sync.version
    /\ sync.version + notified + bridge + InHand <= writes + signals

RInv == Shape /\ Whole /\ Budget

\* A file of the model has the fields of a configuration.
LEMMA FileFacts ==
    ASSUME NEW f \in Files
    PROVE  /\ f.ok \in BOOLEAN /\ f.frozen \in BOOLEAN
           /\ f.keys \in Nat /\ f.sync \in Nat /\ f.models \in ModelLists
BY ReloadConstants DEF ConfigFile

\* A fetch yields a list that can be served, or none.
LEMMA ParsedFacts ==
    ASSUME NEW a \in Answers PROVE parse_models(a) \in ModelLists \cup {NoModels}
<1>1. a.data \in Seq(Ids)
  BY ReloadConstants DEF Answer
<1>2. CASE /\ a.data # <<>>
           /\ \A i \in 1..Len(a.data) :
                a.data[i] \in Usable /\ a.data[i] \notin {a.data[j] : j \in 1..(i - 1)}
  <2>1. a.data \in Seq(Usable)
    BY <1>1, <1>2, SMTT(30)
  <2>2. ASSUME NEW i \in 1..Len(a.data), NEW j \in 1..Len(a.data), a.data[i] = a.data[j]
        PROVE  i = j
    <3>1. ~(i < j) /\ ~(j < i)
      BY <1>1, <1>2, <2>2, SMTT(30)
    <3> QED
      BY <1>1, <3>1, SMTT(30)
  <2> QED
    BY <1>2, <2>1, <2>2 DEF parse_models, ModelLists, Distinct
<1> QED
  BY <1>2 DEF parse_models

\* No list that can be served is empty.
LEMMA NoModelsFact == NoModels \notin ModelLists
BY DEF NoModels, ModelLists

\* The invariant contains what is claimed.
LEMMA RInvImplies == RInv => LastKnownGood
<1> SUFFICES ASSUME RInv PROVE LastKnownGood
  OBVIOUS
<1>1. InHand \in {0, 1} /\ sync.version \in Nat /\ monitor.seen \in Nat
  BY DEF InHand, RInv, Shape
<1>2. /\ sync.version \in 0..(MaxWrites + MaxSignals) /\ monitor.seen \in 0..sync.version
      /\ notified \in 0..MaxWrites /\ bridge \in 0..EventBuffer
  BY <1>1, ReloadConstants, SMTT(30) DEF RInv, Budget
<1>3. TypeOK
  BY <1>2 DEF RInv, Shape, TypeOK, WorkerPCs, MonitorPCs
<1> QED
  BY <1>3 DEF RInv, Whole, LastKnownGood

\* The initial state.
LEMMA RInit == Init => RInv
<1> SUFFICES ASSUME Init PROVE RInv
  OBVIOUS
<1>0. Initial \in Files
  BY ReloadConstants
<1>1. Shape
  BY <1>0, FileFacts, ReloadConstants DEF Init, Shape, WorkerPCs, MonitorPCs
<1>2. Whole
  BY ReloadConstants DEF Init, Whole, InApply
<1>3. Budget
  BY ReloadConstants, SMTT(30) DEF Init, Budget, InHand
<1> QED
  BY <1>1, <1>2, <1>3 DEF RInv

-----------------------------------------------------------------------------
\* The file, its watcher, the signal and the drop.
LEMMA OutsideStep ==
    ASSUME RInv, (\E f \in Files : Save(f)) \/ Forward \/ fire \/ Drop \/ shutdown PROVE RInv'
<1>1. /\ file' \in Files
      /\ UNCHANGED <<worker, status, storeVars, sync, monitor, active>>
  BY DEF Save, Forward, fire, Drop, shutdown, fileVars, RInv, Shape
<1>2. Shape' /\ Whole'
  BY <1>1, ZenonT(30), SMTT(30) DEF storeVars, RInv, Shape, Whole, InApply
<1>3. InHand' = InHand /\ InHand \in {0, 1} /\ sync.version \in Nat
  BY <1>1 DEF InHand, RInv, Shape
<1>4. Budget'
  <2>1. CASE \E f \in Files : Save(f)
    BY <1>1, <1>3, <2>1, ReloadConstants, SMTT(30) DEF Save, RInv, Budget
  <2>2. CASE Forward
    BY <1>1, <1>3, <2>2, ReloadConstants, SMTT(30) DEF Forward, Woken, fileVars, RInv, Budget
  <2>3. CASE fire
    BY <1>1, <1>3, <2>3, ReloadConstants, SMTT(30) DEF fire, Woken, fileVars, RInv, Budget
  <2>4. CASE Drop \/ shutdown
    BY <1>1, <1>3, <2>4 DEF Drop, shutdown, fileVars, RInv, Budget
  <2> QED
    BY <2>1, <2>2, <2>3, <2>4
<1> QED
  BY <1>2, <1>4 DEF RInv

\* The worker up to its decision about the file, and its end.
LEMMA WakeStep ==
    ASSUME RInv, Recv \/ Drain \/ StillEmpty \/ load \/ Abort PROVE RInv'
<1>1. /\ UNCHANGED <<fileVars, signals, notified, status, storeVars, sync, monitor, active>>
      /\ worker.pc \in {"recv", "sleep", "drained", "load"}
  BY DEF Recv, Drain, StillEmpty, load, Abort, At, Awaiting
<1>2. /\ worker' \in [pc : WorkerPCs, cfg : Files, models : ModelLists \cup {NoModels}]
      /\ worker'.pc \in {"sleep", "drained", "load", "check", "aborted"}
  BY <1>1 DEF Recv, Drain, StillEmpty, load, Abort, Goto, RInv, Shape, WorkerPCs
<1>3. Shape' /\ Whole'
  BY <1>1, <1>2, ZenonT(30), SMTT(30) DEF fileVars, storeVars, RInv, Shape, Whole, InApply
<1>4. /\ bridge' \in 0..EventBuffer
      /\ bridge' + InHand' <= bridge + InHand /\ InHand \in {0, 1} /\ InHand' \in {0, 1}
  BY <1>1, <1>2, ReloadConstants, SMTT(30)
     DEF Recv, Drain, StillEmpty, load, Abort, At, Goto, InHand, RInv, Shape, Budget,
         WorkerPCs
<1>5. Budget'
  <2>1. sync.version \in Nat /\ monitor.seen \in Nat
    BY DEF RInv, Shape
  <2>2. /\ writes \in Nat /\ signals \in Nat /\ notified \in Nat /\ bridge \in Nat
        /\ sync.version + notified + bridge + InHand <= writes + signals
    BY ReloadConstants, SMTT(30) DEF RInv, Budget
  <2>3. sync.version + notified + bridge' + InHand' <= writes + signals
    <3>1. InHand \in Nat /\ InHand' \in Nat /\ bridge' \in Nat
      BY <1>4, ReloadConstants, SMTT(30)
    <3>2. bridge' + InHand' <= bridge + InHand
      BY <1>4
    <3>3. ASSUME NEW v \in Nat, NEW n \in Nat, NEW b \in Nat, NEW h \in Nat,
                 NEW c \in Nat, NEW k \in Nat, NEW m \in Nat,
                 c + k <= b + h, v + n + b + h <= m
          PROVE  v + n + c + k <= m
      BY <3>3, SMTT(30)
    <3>4. writes + signals \in Nat
      BY <2>2, SMTT(30)
    <3> QED
      BY <2>1, <2>2, <3>1, <3>2, <3>3, <3>4
  <2> QED
    BY <1>1, <1>4, <2>3 DEF fileVars, RInv, Budget
<1> QED
  BY <1>3, <1>5 DEF RInv

\* A file that is not applied.
LEMMA RefuseStep == ASSUME RInv, record_failure \/ record_needs_restart PROVE RInv'
<1>1. /\ UNCHANGED <<fileVars, signals, notified, bridge, storeVars, sync, monitor, active>>
      /\ worker.pc = "check" /\ worker' = [worker EXCEPT !.pc = "recv", !.cfg = Initial]
  BY DEF record_failure, record_needs_restart, At, Done, NothingApplied
<1>2. status' \in [last : {"none", "failed", "refused", "success"}, needs_restart : BOOLEAN]
  <2>1. CASE record_failure
    BY <2>1 DEF record_failure, RInv, Shape
  <2>2. CASE record_needs_restart
    BY <2>2 DEF record_needs_restart
  <2> QED
    BY <2>1, <2>2
<1>3. Shape' /\ Whole'
  BY <1>1, <1>2, ReloadConstants
     DEF fileVars, storeVars, RInv, Shape, Whole, InApply, WorkerPCs
<1>4. Budget'
  BY <1>1, SMTT(30) DEF fileVars, RInv, Shape, Budget, InHand
<1> QED
  BY <1>3, <1>4 DEF RInv

\* The apply callback, critical section by critical section.
LEMMA ApplyStep ==
    ASSUME RInv, ApplySync \/ ApplyModels \/ update_with_keys \/ record_success
    PROVE  RInv'
<1>0. worker.cfg \in Files
  BY DEF RInv, Shape
<1>1. CASE ApplySync
  <2>1. /\ sync' = [interval |-> worker.cfg.sync, version |-> sync.version + 1]
        /\ worker.pc = "check" /\ worker' = [worker EXCEPT !.pc = "models"]
        /\ worker.cfg.ok /\ worker.cfg.frozen
        /\ UNCHANGED <<fileVars, signals, notified, bridge, status, storeVars, monitor, active>>
    BY <1>1 DEF ApplySync, At, Goto
  <2>2. Shape'
    BY <1>0, <2>1, FileFacts, SMTT(30) DEF fileVars, storeVars, RInv, Shape, WorkerPCs
  <2>3. Whole'
    BY <2>1 DEF storeVars, RInv, Shape, Whole, InApply, WorkerPCs
  <2>4. Budget'
    BY <2>1, SMTT(30) DEF fileVars, RInv, Shape, Budget, InHand
  <2> QED
    BY <2>2, <2>3, <2>4 DEF RInv
<1>2. CASE ApplyModels \/ update_with_keys \/ record_success
  <2>1. /\ worker' \in [pc : WorkerPCs, cfg : Files, models : ModelLists \cup {NoModels}]
        /\ worker'.pc # "recv" => worker'.cfg = worker.cfg
        /\ UNCHANGED <<fileVars, signals, notified, bridge, sync, monitor>>
        /\ worker.pc \in {"models", "publish", "usage"}
        /\ worker'.pc \in {"publish", "usage", "recv"}
    <3>1. CASE ApplyModels
      <4>1. IF worker.cfg.sync # 0 THEN store.models \in ModelLists
                                   ELSE worker.cfg.models \in ModelLists
        BY <1>0, FileFacts DEF RInv, Shape
      <4> QED
        BY <3>1, <4>1 DEF ApplyModels, At, RInv, Shape, WorkerPCs
    <3>2. CASE update_with_keys
      BY <3>2 DEF update_with_keys, At, RInv, Shape, WorkerPCs
    <3>3. CASE record_success
      BY <3>3, ReloadConstants DEF record_success, At, Done, RInv, Shape, WorkerPCs
    <3> QED
      BY <1>2, <3>1, <3>2, <3>3
  <2>2. Budget'
    BY <2>1 DEF fileVars, RInv, Shape, Budget, InHand
  <2>3. CASE ApplyModels
    BY <1>0, <2>1, <2>2, <2>3, FileFacts, NoModelsFact, SMTT(30)
       DEF ApplyModels, At, fileVars, storeVars, RInv, Shape, Whole, InApply
  <2>4. CASE update_with_keys
    BY <1>0, <2>1, <2>2, <2>4, FileFacts, SMTT(30)
       DEF update_with_keys, At, fileVars, RInv, Shape, Whole, InApply
  <2>5. CASE record_success
    BY <1>0, <2>1, <2>2, <2>5, ZenonT(30), SMTT(30)
       DEF record_success, At, Done, fileVars, RInv, Shape, Whole, InApply
  <2> QED
    BY <1>2, <2>3, <2>4, <2>5
<1> QED
  BY <1>1, <1>2

\* The model monitor: it may publish at any time, and touches the models only.
LEMMA MonitorStep == ASSUME RInv, Monitor PROVE RInv'
<1>1. /\ UNCHANGED <<Rest, pool, usage, sync>>
      /\ store' \in [keys : Nat, models : ModelLists] /\ store'.keys = store.keys
  BY ZenonT(30), SMTT(30)
     DEF Monitor, ReadSetting, CheckSetting, update_models, Interval, Changed, Stopped,
         FetchAnswers, Monitored, storeVars, RInv, Shape
<1> DEFINE Fits ==
      /\ monitor' \in [pc : MonitorPCs, generation : Nat, seen : Nat,
                       fetched : ModelLists \cup {NoModels}]
      /\ monitor'.pc = "publish" => monitor'.fetched # NoModels
      /\ monitor'.seen \in {monitor.seen, sync.version}
<1>2. Fits
  <2>1. ASSUME NEW a \in Answers, FetchAnswers(a) PROVE Fits
    <3>1. (IF fetch(a) THEN parse_models(a) ELSE NoModels) \in ModelLists \cup {NoModels}
      BY ParsedFacts
    <3> QED
      BY <2>1, <3>1 DEF FetchAnswers, Monitored, RInv, Shape, MonitorPCs
  <2>2. CASE ReadSetting \/ Interval \/ Changed \/ Stopped
    BY <2>2 DEF ReadSetting, Interval, Changed, Stopped, Monitored, RInv, Shape, MonitorPCs
  <2>3. CASE CheckSetting
    <3>1. CASE sync.interval = monitor.generation /\ monitor.fetched # NoModels
      BY <2>3, <3>1, SMTT(30) DEF CheckSetting, RInv, Shape, MonitorPCs
    <3>2. CASE ~(sync.interval = monitor.generation /\ monitor.fetched # NoModels)
      <4>1. monitor' = [monitor EXCEPT !.pc = "sleep", !.generation = 0, !.fetched = NoModels]
        BY <2>3, <3>2 DEF CheckSetting
      <4> QED
        BY <4>1 DEF RInv, Shape, MonitorPCs
    <3> QED
      BY <3>1, <3>2
  <2>4. CASE update_models
    BY <2>4 DEF update_models, RInv, Shape, MonitorPCs
  <2> QED
    BY <2>1, <2>2, <2>3, <2>4 DEF Monitor
<1>3. Shape' /\ Whole'
  BY <1>1, <1>2 DEF Rest, fileVars, RInv, Shape, Whole, InApply
<1>4. Budget'
  BY <1>1, <1>2, SMTT(30) DEF Rest, fileVars, RInv, Shape, Budget, InHand
<1> QED
  BY <1>3, <1>4 DEF RInv

\* Every step.
LEMMA RStep == RInv /\ [Next]_vars => RInv'
<1> SUFFICES ASSUME RInv, [Next]_vars PROVE RInv'
  OBVIOUS
<1>1. CASE UNCHANGED vars
  BY <1>1, ZenonT(30), SMTT(30)
     DEF vars, fileVars, storeVars, RInv, Shape, Whole, InApply, Budget, InHand
<1>2. CASE Next
  BY <1>2, OutsideStep, WakeStep, RefuseStep, ApplyStep, MonitorStep DEF Next, Worker
<1> QED
  BY <1>1, <1>2

-----------------------------------------------------------------------------
\* Between reloads keys, polled keys and synchronisation interval are those of
\* the last file that was valid and needed no restart, for any files and however
\* the worker, the monitor and the drop interleave (worker, the apply callback,
\* update_models, Drop).
THEOREM KnownGood == Spec => []LastKnownGood
BY RInit, RStep, RInvImplies, PTL DEF Spec

\* The status changes only as record_failure, record_needs_restart and
\* record_success may change it: a restart that is due is not forgotten.
THEOREM StatusStaysHonest == Spec => StatusHonest
<1> DEFINE Honest ==
      status' # status
        => /\ status'.last = "success" <=> active' = worker.cfg /\ At("usage")
           /\ status.needs_restart /\ ~status'.needs_restart => status'.last = "success"
           /\ ~status.needs_restart /\ status'.needs_restart => ~worker.cfg.frozen
<1>1. RInv /\ [Next]_vars => [Honest]_vars
  <2> SUFFICES ASSUME RInv, Next, status' # status PROVE Honest
    OBVIOUS
  <2>1. record_failure \/ record_needs_restart \/ record_success
    BY DEF Next, Save, Forward, fire, Drop, shutdown, Worker, Recv, Drain, StillEmpty, load,
           ApplySync, ApplyModels, update_with_keys, Abort, Monitor, ReadSetting, CheckSetting,
           update_models, Interval, Changed, Stopped, FetchAnswers, Rest
  <2>2. CASE record_failure
    BY <2>2 DEF record_failure, At, RInv, Shape
  <2>3. CASE record_needs_restart
    BY <2>3 DEF record_needs_restart, At
  <2>4. CASE record_success
    BY <2>4 DEF record_success, At
  <2> QED
    BY <2>1, <2>2, <2>3, <2>4
<1> QED
  BY RInit, RStep, <1>1, PTL DEF Spec, StatusHonest

-----------------------------------------------------------------------------
(***************************************************************************)
(* No wake-up is lost.  LastChangeApplied and SyncGoesOn promise that      *)
(* changes are acted upon; this is what keeps the worker and the monitor   *)
(* from waiting for a wake-up that has been thrown away.                   *)
(***************************************************************************)
\* The worker awaits the next wake-up with none on its way only if the file has
\* been dealt with: it is in force, or cannot be applied.  A full bridge drops
\* wake-ups, and the drain throws away those that came before the load.  The
\* monitor awaits a change of its setting, with none unseen, only if
\* synchronisation is off (try_send, the worker's loop, watch::Receiver).
NoWakeUpLost ==
    /\ At("recv") /\ ~stopped /\ notified = 0 /\ bridge = 0 /\ Applicable => active = file
    /\ Monitored("idle") /\ monitor.seen = sync.version => sync.interval = 0

\* What the file on disk is owed, wherever the worker is.
Owed ==
    \/ stopped \/ notified > 0 \/ bridge > 0
    \/ worker.pc \in {"sleep", "drained", "load"}
    \/ worker.pc \in {"check", "models", "publish", "usage"} /\ worker.cfg = file
    \/ worker.pc = "recv" /\ (Applicable => active = file)

\* The monitor's part of it.
Heeded == Monitored("idle") /\ monitor.seen = sync.version => sync.interval = 0

\* Every step of the worker keeps what is owed.
LEMMA OwedStep == RInv /\ Owed /\ [Next]_vars => Owed'
<1> SUFFICES ASSUME RInv, Owed, [Next]_vars PROVE Owed'
  OBVIOUS
<1>1. /\ notified \in Nat /\ bridge \in Nat /\ EventBuffer \in Nat \ {0}
  BY ReloadConstants, SMTT(30) DEF RInv, Budget
<1>2. CASE (\E f \in Files : Save(f)) \/ Forward \/ fire \/ Drop
  <2>1. notified' > 0 \/ bridge' > 0 \/ stopped'
    BY <1>1, <1>2, SMTT(30) DEF Save, Forward, fire, Drop, Woken
  <2> QED
    BY <2>1 DEF Owed
<1>3. CASE Recv \/ Drain \/ StillEmpty \/ load \/ Abort
  <2>1. \/ worker'.pc \in {"sleep", "drained", "load"}
        \/ worker'.pc = "check" /\ worker'.cfg = file'
        \/ stopped'
    <3>1. worker \in [pc : WorkerPCs, cfg : Files, models : ModelLists \cup {NoModels}]
      BY DEF RInv, Shape
    <3>2. CASE Recv \/ Drain \/ StillEmpty
      BY <3>1, <3>2 DEF Recv, Drain, StillEmpty, Goto
    <3>3. CASE load
      BY <3>1, <3>3 DEF load, fileVars
    <3>4. CASE Abort
      BY <3>4 DEF Abort
    <3> QED
      BY <1>3, <3>2, <3>3, <3>4
  <2> QED
    BY <2>1 DEF Owed
<1>4. CASE record_failure \/ record_needs_restart
  BY <1>4 DEF record_failure, record_needs_restart, At, Done, NothingApplied, Owed, RInv, Shape,
              fileVars, Applicable
<1>5. CASE ApplySync \/ ApplyModels \/ update_with_keys \/ record_success
  BY <1>5 DEF ApplySync, ApplyModels, update_with_keys, record_success, At, Goto, Done, Owed,
              RInv, Shape, fileVars, Applicable
<1>6. CASE Monitor \/ shutdown \/ UNCHANGED vars
  <2>1. UNCHANGED <<stopped, notified, bridge, worker, file, active>>
    BY <1>6 DEF Monitor, ReadSetting, CheckSetting, update_models, Interval, Changed, Stopped,
                FetchAnswers, Rest, shutdown, vars, fileVars
  <2> QED
    BY <2>1 DEF Owed, Applicable
<1> QED
  BY <1>2, <1>3, <1>4, <1>5, <1>6 DEF Next, Worker

\* The monitor reads its setting before it marks it as seen, never after.
LEMMA HeededStep == RInv /\ Heeded /\ [Next]_vars => Heeded'
<1> SUFFICES ASSUME RInv, Heeded, [Next]_vars PROVE Heeded'
  OBVIOUS
<1>1. CASE ApplySync
  <2>1. monitor' = monitor /\ monitor.seen # sync'.version
    BY <1>1, SMTT(30) DEF ApplySync, RInv, Shape, Budget
  <2> QED
    BY <2>1 DEF Heeded
<1>2. CASE Monitor
  <2>1. sync' = sync
    BY <1>2 DEF Monitor, ReadSetting, CheckSetting, update_models, Interval, Changed, Stopped,
                FetchAnswers
  <2>2. monitor'.pc = "idle" => sync.interval = 0 \/ monitor' = monitor
    BY <1>2 DEF Monitor, ReadSetting, CheckSetting, update_models, Interval, Changed, Stopped,
                FetchAnswers, RInv, Shape
  <2> QED
    BY <2>1, <2>2 DEF Heeded, Monitored
<1>3. ASSUME UNCHANGED <<sync, monitor>> PROVE Heeded'
  BY <1>3 DEF Heeded, Monitored
<1> QED
  BY <1>1, <1>2, <1>3
     DEF Next, Worker, Save, Forward, fire, Drop, shutdown, Recv, Drain, StillEmpty, load, Abort,
         record_failure, record_needs_restart, NothingApplied, ApplyModels, update_with_keys,
         record_success, vars

\* For any files, any size of the bridge and however saves, signals, reloads and
\* fetches interleave, whoever waits without a wake-up on its way has nothing to
\* do (the worker of hot_reload.rs, ModelMonitor).
THEOREM WakeUpsKept == Spec => []NoWakeUpLost
<1>1. Init => Owed /\ Heeded
  BY SMTT(30) DEF Init, Owed, Heeded, Monitored
<1>2. Owed /\ Heeded => NoWakeUpLost
  BY SMTT(30) DEF Owed, Heeded, NoWakeUpLost, At
<1> QED
  BY <1>1, <1>2, RInit, RStep, OwedStep, HeededStep, PTL DEF Spec
=============================================================================
