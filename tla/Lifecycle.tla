----------------------------- MODULE Lifecycle -----------------------------
(***************************************************************************)
(* The life of the process (main, run, run_lifecycle and                   *)
(* flush_audit_at_shutdown of src/main.rs, assemble of src/app.rs) around  *)
(* the audit writer: the start, which any step may end; then a signal, or  *)
(* the server's own end, closes admission and reload, drains the server,   *)
(* stops the SIGHUP task and the monitors, and flushes the audit log if    *)
(* nobody else holds the writer.                                           *)
(*                                                                         *)
(* Each record of AuditWriter is the record of one streamed request.  A    *)
(* stream is a connection and, once committed, a pump task, which outlives *)
(* the connection when the drain aborts it, holds the writer until it ends *)
(* and has try_record as its last act.                                     *)
(***************************************************************************)
EXTENDS AuditWriter, Startup

CONSTANTS ArgLists,   \* command lines
          ConfigFiles, \* what may be found at the path
          NoConfig

\* What YAML deserialises to: numbers are u64, usize or u16, the keys a Vec.
ASSUME RawIsTyped ==
    \A file \in ConfigFiles : file.parses =>
        /\ \A f \in DOMAIN file.raw \cap Numbers : file.raw[f] \in Nat
        /\ Is_set(file.raw, "keys") => file.raw.keys \in Seq(Range1(file.raw.keys))

VARIABLES
    main,      \* where main is
    config,    \* the configuration, while the parts are built from it
    result,    \* "none", "asked" (help, version), or the server's: "ok", "error"
    code,      \* the exit code, "none" before
    admitting, \* the admission queue is open
    server,    \* "up", "draining" or "down"
    stream,    \* per record: "none", "open" (connection and pump),
               \* "orphan" (pump without connection) or "gone"
    hup        \* the SIGHUP task: "alive" or "gone"

startVars == <<config, result, code>>
procVars == <<main, startVars, admitting, server, stream, hup>>
allVars == <<vars, procVars>>

Ended == {"exited", "panicked"}
Alive == main \notin Ended
Pumps == {r \in Records : stream[r] \in {"open", "orphan"}}

LInit ==
    /\ Init
    /\ main = "args"
    /\ config = NoConfig /\ result = "none" /\ code = "none"
    /\ admitting = TRUE
    /\ server = "none"
    /\ stream = [r \in Records |-> "none"]
    /\ hup = "none"

-----------------------------------------------------------------------------
(***************************************************************************)
(* The start.  The writer's thread exists from assemble on; until then     *)
(* there is nothing for it to do.                                          *)
(***************************************************************************)
Unstarted == <<admitting, server, stream, hup>>

Quit(how, why) ==
    /\ main' = "exited" /\ code' = how /\ result' = why
    /\ config' = NoConfig
    /\ UNCHANGED Unstarted

Parse_args ==
    /\ main = "args"
    /\ \E args \in ArgLists :
         CASE parse_args(args) = "path" ->
                main' = "load" /\ UNCHANGED <<startVars, Unstarted>>
           [] parse_args(args) \in {"Help", "Version"} -> Quit("success", "asked")
           [] OTHER -> Quit("usage", "none")
    /\ UNCHANGED vars

Load_config ==
    /\ main = "load"
    /\ \E euid \in {"root", "orihsus"}, file \in ConfigFiles :
         IF load_config(file, euid) = "ok"
           THEN /\ main' = "assemble" /\ config' = try_from(file.raw)
                /\ UNCHANGED <<result, code, Unstarted>>
           ELSE Quit("failure", "none")
    /\ UNCHANGED vars

Assemble ==
    /\ main = "assemble"
    /\ main' = CASE Assembled(config) = "ok" -> "bind"
                 [] Assembled(config) = "panic" -> "panicked"
                 [] OTHER -> "exited"
    /\ code' = IF main' = "exited" THEN "failure" ELSE code
    /\ UNCHANGED <<vars, config, result, Unstarted>>

\* An HTTP client or the audit file cannot be had, the address is taken, the
\* directory cannot be watched: run returns, and what was built is dropped,
\* the audit writer with it if it was.
StartFails ==
    /\ \/ main = "assemble" /\ (UNCHANGED vars \/ Drop)
       \/ main \in {"bind", "reloader"} /\ Drop
    /\ Quit("failure", "none")

Bind ==
    /\ main = "bind"
    /\ main' = "reloader"
    /\ UNCHANGED <<vars, startVars, Unstarted>>

\* The reloader runs; the SIGHUP task, which ends at once if its handler cannot
\* be installed, and the server are spawned.
Serve ==
    /\ main = "reloader"
    /\ main' = "serving" /\ server' = "up" /\ hup' \in {"alive", "gone"}
    /\ config' = NoConfig
    /\ UNCHANGED <<vars, result, code, admitting, stream>>

Start == Parse_args \/ Load_config \/ Assemble \/ StartFails \/ Bind \/ Serve

-----------------------------------------------------------------------------
(***************************************************************************)
(* Requests, the writer's thread and the SIGHUP task, while all goes on.   *)
(***************************************************************************)
Begin(r) ==
    /\ Alive /\ server = "up" /\ admitting
    /\ stream[r] = "none"
    /\ stream' = [stream EXCEPT ![r] = "open"]
    /\ UNCHANGED <<vars, main, startVars, admitting, server, hup>>

\* The pump ends: it records, and drops its reference to the writer.
PumpEnds(r) ==
    /\ Alive /\ r \in Pumps
    /\ try_record(r)
    /\ stream' = [stream EXCEPT ![r] = "gone"]
    /\ UNCHANGED <<main, startVars, admitting, server, hup>>

Audit ==
    /\ Alive
    /\ Thread \/ Rotate
    /\ UNCHANGED procVars

Hangup ==
    /\ Alive /\ hup = "alive"
    /\ reopen
    /\ UNCHANGED procVars

HangupReturns ==
    /\ Alive
    /\ ReopenReplied \/ ReopenTimeout
    /\ UNCHANGED procVars

-----------------------------------------------------------------------------
(***************************************************************************)
(* run_lifecycle.                                                          *)
(***************************************************************************)
Shutdown ==
    /\ main = "serving" /\ server = "up"
    /\ main' = "closing"
    /\ UNCHANGED <<vars, startVars, admitting, server, stream, hup>>

\* Connections end with their task: a committed stream leaves its pump behind,
\* a request that is not committed is dropped and leaves no record.
CutConnections ==
    \E committed \in SUBSET Records :
        stream' = [r \in Records |->
                     CASE stream[r] # "open" -> stream[r]
                       [] r \in committed -> "orphan"
                       [] OTHER -> "gone"]

\* An error of the server that is returned at once, past the cleanup.
ServerDiesUnattended ==
    /\ main = "serving" /\ server = "up"
    /\ main' = "exited" /\ server' = "down"
    /\ result' = "error" /\ code' = "failure"
    /\ CutConnections
    /\ UNCHANGED <<vars, config, admitting, hup>>

\* The server task ends by itself, with an error or, in a build that unwinds, by
\* a panic (a release build aborts); its connections end with it.
ServerDies ==
    /\ main = "serving" /\ server = "up"
    /\ main' = "closing" /\ server' = "down"
    /\ result' = "error"
    /\ CutConnections
    /\ UNCHANGED <<vars, config, code, admitting, hup>>

\* queue.close(), close_reloader() (ConfigReload's Drop), then stop.send().
CloseAndStop ==
    /\ main = "closing"
    /\ admitting' = FALSE
    /\ server' = IF server = "up" THEN "draining" ELSE server
    /\ main' = "awaiting"
    /\ UNCHANGED <<vars, startVars, stream, hup>>

\* serve returns: all connections are done, or the drain has aborted them; or
\* its task fails (map_server_result).
Drained ==
    /\ server = "draining"
    /\ server' = "down" /\ result' \in {"ok", "error"}
    /\ CutConnections
    /\ UNCHANGED <<vars, main, config, code, admitting, hup>>

\* The SIGHUP task is aborted and awaited: its wait and its reference end.
StopHangup ==
    /\ main = "awaiting" /\ server = "down"
    /\ hup' = "gone"
    /\ ReopenAborted
    /\ main' = "monitors"
    /\ UNCHANGED <<startVars, admitting, server, stream>>

\* Both monitors are told to stop and awaited, and the history thread is joined
\* without a deadline: a file operation that never ends keeps main here.
StopMonitors ==
    /\ main = "monitors"
    /\ main' = "flush"
    /\ UNCHANGED <<vars, startVars, admitting, server, stream, hup>>

-----------------------------------------------------------------------------
(***************************************************************************)
(* flush_audit_at_shutdown and the end.                                    *)
(***************************************************************************)
Unreferenced == Pumps = {} /\ hangup.pc = "idle"

\* A flush that takes the sender away from whoever still holds the writer.
FlushShared ==
    /\ main = "flush" /\ closing = "no"
    /\ tx' = "closed" /\ closing' = "joining"
    /\ UNCHANGED <<outcome, hangup, threadVars, queue, disk, reply, promise, procVars>>

Flush_at_shutdown ==
    /\ main = "flush" /\ closing = "no" /\ Unreferenced
    /\ shutdown_bounded
    /\ UNCHANGED procVars

\* A flush without a deadline.
JoinOnly ==
    /\ main = "flush"
    /\ Joined
    /\ UNCHANGED procVars

FlushReturns ==
    /\ main = "flush"
    /\ Joined \/ ShutdownTimeout
    /\ UNCHANGED procVars

\* The writer is still referenced: main's reference is dropped and no more.
FlushSkipped == main = "flush" /\ closing = "no" /\ ~Unreferenced
Flushed == main = "flush" /\ closing \notin {"no", "joining"}

\* The result of the lifecycle is returned after the cleanup.
Exit ==
    /\ FlushSkipped \/ Flushed
    /\ main' = "exited"
    /\ code' = IF result = "ok" THEN "success" ELSE "failure"
    /\ UNCHANGED <<vars, config, result, admitting, server, stream, hup>>

\* What main does without waiting for the usage history, whose file operations
\* nothing bounds.
MainUnblocked ==
    \/ CloseAndStop \/ Drained \/ StopHangup
    \/ Flush_at_shutdown \/ FlushReturns \/ Exit

Main == MainUnblocked \/ StopMonitors

LNext ==
    \/ Start
    \/ \E r \in Records : Begin(r) \/ PumpEnds(r)
    \/ Audit \/ Hangup \/ HangupReturns
    \/ Shutdown \/ ServerDies
    \/ Main

LSpec == LInit /\ [][LNext]_allVars

\* main goes on and the deadlines (drain, reopen, flush) pass; streams, and the
\* file operations of the audit writer and of the usage history, may take for
\* ever.
LFairSpec == LSpec /\ WF_allVars(MainUnblocked) /\ WF_allVars(HangupReturns)

\* The monitors stop: UsageMonitor!ShutdownReturns and ConfigReload!SyncGoesOn
\* show it of them, of the first as long as file operations end.
MonitorsStop == WF_allVars(StopMonitors)

-----------------------------------------------------------------------------
(***************************************************************************)
(* Properties.                                                             *)
(***************************************************************************)

\* When the process exits after a flush that reported success, the log is
\* complete: no request that still has a record to write is left, and every
\* accepted record is in the file (Arc::try_unwrap, shutdown_bounded).
CleanExitComplete ==
    /\ FlushedAtShutdown
    /\ main = "exited" /\ closing = "Ok" => Pumps = {}

\* The exit code tells what happened: success means that help was asked for,
\* or that the server ended in order.  Once it has served, and however it ended,
\* the process is cleaned up before it exits: admission is closed, the server
\* and the SIGHUP task are gone, and the log was flushed unless a pump that
\* outlived its connection holds it ("Never return early before cleanup").
ExitHonest ==
    main = "exited" =>
        /\ (code = "success") = (result \in {"asked", "ok"})
        /\ result \in {"ok", "error"} =>
             /\ ~admitting /\ server = "down" /\ hup = "gone"
             /\ closing = "no" => Pumps # {}

\* A configuration that passed validation meets all that the parts built from
\* it assert and expect (assemble, BodyBudget::new, AdmissionQueue::new,
\* PoolPolicy::validate, build_builder), with one exception: audit.queue_capacity
\* has no upper limit, and sync_channel panics on a buffer that cannot be laid
\* out (AuditWriter::start).  No other value makes a constructor panic or refuse.
ConfigFits ==
    /\ main = "panicked" => ~ChannelDemands(config)
    /\ main \in {"assemble", "bind", "reloader"} =>
         /\ Assembled(config) = IF ChannelDemands(config) THEN "ok" ELSE "panic"
         /\ HeaderDemands(config)
    /\ main \in {"bind", "reloader"} => ChannelDemands(config)

\* Graceful shutdown is bounded "even if an audit writer is blocked" and
\* although streams never end: once told to stop, the process comes to stopping
\* its monitors, and exits if they stop.  They need not: UsageMonitor::shutdown
\* joins the history thread, which a stuck disk keeps, without a deadline.
ShutdownBounded ==
    /\ (main = "closing") ~> (main = "monitors")
    /\ MonitorsStop => ((main = "closing") ~> (main = "exited"))
=============================================================================
