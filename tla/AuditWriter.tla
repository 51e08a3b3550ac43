---------------------------- MODULE AuditWriter ----------------------------
(***************************************************************************)
(* The audit writer (src/audit.rs): a handle that offers records to a      *)
(* bounded channel without ever blocking, one thread that takes commands   *)
(* from the channel and appends JSONL lines to a file, the reopen that the *)
(* SIGHUP task asks for after a log rotation, and the bounded shutdown.    *)
(*                                                                         *)
(* The file at audit.path is a generation: a rotation moves the file away, *)
(* and the next open creates generation disk.  The thread may stall in any *)
(* file operation for ever, so only the deadlines of the callers are fair. *)
(***************************************************************************)
EXTENDS Integers, Sequences, FiniteSets

CONSTANTS Records,        \* the audit records of the requests
          Capacity,       \* audit.queue_capacity
          MaxReopens,     \* bound: hangup signals
          MaxRotations    \* bound: log rotations

ASSUME AuditConstants == /\ Capacity \in Nat \ {0}
                         /\ MaxReopens \in Nat
                         /\ MaxRotations \in Nat
                         /\ "now" \notin Records

VARIABLES
    tx,              \* the sender of the handle: "open" or "closed"
    queue,           \* the channel: a sequence of commands
    outcome,         \* per record: "none", "Accepted" or "Dropped"
    writer,          \* the thread: [pc, command in hand]
    sink,            \* the generation the thread has open
    files,           \* per generation: the lines in it
    first_error,     \* write_loop: some write or flush has failed
    write_failures,  \* the counter of failed writes and flushes
    disk,            \* the generation that an open of audit.path reaches
    hangup,          \* the SIGHUP task: [pc, number of its call]
    reply,           \* the one-shot of that call: [out, generation opened]
    closing,         \* shutdown_bounded: "no", "joining" or its result
    promise          \* history: per record, the oldest generation it may land
                     \* in; and, at the key "now", the one for records offered now

handleVars == <<tx, outcome, hangup, closing>>
threadVars == <<writer, sink, files, first_error, write_failures>>
vars == <<handleVars, threadVars, queue, disk, reply, promise>>

Generations == 0..MaxRotations
Record(r) == [kind |-> "Record", rec |-> r]
Reopen(n) == [kind |-> "Reopen", call |-> n]
NoCommand == [kind |-> "none"]
Commands == {Record(r) : r \in Records} \cup {Reopen(n) : n \in 1..MaxReopens}
Line(r, whole) == [rec |-> r, whole |-> whole]
NoReply == [out |-> "none", gen |-> 0]

Init ==
    /\ tx = "open"
    /\ queue = <<>>
    /\ outcome = [r \in Records |-> "none"]
    /\ writer = [pc |-> "recv", cmd |-> NoCommand]
    /\ sink = 0
    /\ files = [g \in Generations |-> <<>>]
    /\ first_error = FALSE
    /\ write_failures = 0
    /\ disk = 0
    /\ hangup = [pc |-> "idle", call |-> 0, result |-> "none"]
    /\ reply = NoReply
    /\ closing = "no"
    /\ promise = [r \in Records \cup {"now"} |-> 0]

-----------------------------------------------------------------------------
(***************************************************************************)
(* The handle.  Both users of the channel try_send: full means refused.    *)
(***************************************************************************)

Room == Len(queue) < Capacity

try_record(r) ==
    /\ tx = "open"
    /\ outcome[r] = "none"
    /\ IF Room
         THEN /\ queue' = Append(queue, Record(r))
              /\ outcome' = [outcome EXCEPT ![r] = "Accepted"]
         ELSE /\ outcome' = [outcome EXCEPT ![r] = "Dropped"]
              /\ UNCHANGED queue
    /\ promise' = [promise EXCEPT ![r] = promise["now"]]
    /\ UNCHANGED <<tx, hangup, closing, threadVars, disk, reply>>

\* reopen: offer the command and wait for its own reply.
reopen ==
    /\ tx = "open" /\ closing = "no"
    /\ hangup.pc = "idle" /\ hangup.call < MaxReopens
    /\ IF Room
         THEN /\ queue' = Append(queue, Reopen(hangup.call + 1))
              /\ hangup' = [pc |-> "waiting", call |-> hangup.call + 1,
                            result |-> "none"]
         ELSE /\ hangup' = [hangup EXCEPT !.call = @ + 1,
                                          !.result = "ReopenQueueFull"]
              /\ UNCHANGED queue
    /\ reply' = NoReply
    /\ UNCHANGED <<tx, outcome, closing, threadVars, disk, promise>>

ReopenReplied ==
    /\ hangup.pc = "waiting" /\ reply.out # "none"
    /\ hangup' = [hangup EXCEPT !.pc = "idle", !.result = reply.out]
    /\ promise' = IF reply.out = "ok"
                    THEN [promise EXCEPT !["now"] = reply.gen]
                    ELSE promise
    /\ UNCHANGED <<tx, outcome, closing, threadVars, queue, disk, reply>>

\* A reopen without AUDIT_REOPEN_TIMEOUT.
ReopenWaits == FALSE /\ UNCHANGED vars

\* The deadline passes with no reply; the command stays in the channel.
ReopenTimeout ==
    /\ hangup.pc = "waiting" /\ reply.out = "none"
    /\ hangup' = [hangup EXCEPT !.pc = "idle", !.result = "ReopenTimeout"]
    /\ UNCHANGED <<tx, outcome, closing, threadVars, queue, disk, reply, promise>>

\* The SIGHUP task is aborted: its wait ends without a result.
ReopenAborted ==
    /\ hangup' = [hangup EXCEPT !.pc = "idle"]
    /\ UNCHANGED <<tx, outcome, closing, threadVars, queue, disk, reply, promise>>

\* shutdown_bounded, once nobody else holds the handle (Arc::try_unwrap): the
\* sender is dropped, a supervisor joins the thread.
shutdown_bounded ==
    /\ closing = "no" /\ hangup.pc = "idle"
    /\ tx' = "closed"
    /\ closing' = "joining"
    /\ UNCHANGED <<outcome, hangup, threadVars, queue, disk, reply, promise>>

Joined ==
    /\ closing = "joining" /\ writer.pc = "exited"
    /\ closing' = IF first_error THEN "Io" ELSE "Ok"
    /\ UNCHANGED <<tx, outcome, hangup, threadVars, queue, disk, reply, promise>>

ShutdownTimeout ==
    /\ closing = "joining"
    /\ closing' = "ShutdownTimeout"
    /\ UNCHANGED <<tx, outcome, hangup, threadVars, queue, disk, reply, promise>>

\* Drop without a shutdown: the sender goes, the thread is detached.
Drop ==
    /\ closing = "no" /\ hangup.pc = "idle"
    /\ tx' = "closed"
    /\ closing' = "detached"
    /\ UNCHANGED <<outcome, hangup, threadVars, queue, disk, reply, promise>>

-----------------------------------------------------------------------------
(***************************************************************************)
(* write_loop.  Serialising an AuditRecord cannot fail, so every record    *)
(* reaches the file operation.                                             *)
(***************************************************************************)

\* recv returns what is queued, and fails only when the channel is empty and
\* its sender gone.
Recv ==
    /\ writer.pc = "recv"
    /\ IF queue # <<>>
         THEN /\ writer' = [pc |-> "io", cmd |-> Head(queue)]
              /\ queue' = Tail(queue)
         ELSE /\ tx = "closed"
              /\ writer' = [pc |-> "flush", cmd |-> NoCommand]
              /\ UNCHANGED queue
    /\ UNCHANGED <<handleVars, sink, files, first_error, write_failures,
                   disk, reply, promise>>

Next_command == writer' = [pc |-> "recv", cmd |-> NoCommand]
Doing(kind) == writer.pc = "io" /\ writer.cmd.kind = kind

Write ==
    /\ Doing("Record")
    /\ files' = [files EXCEPT ![sink] = Append(@, Line(writer.cmd.rec, TRUE))]
    /\ Next_command
    /\ UNCHANGED <<handleVars, sink, first_error, write_failures, queue, disk,
                   reply, promise>>

\* A failure that is kept for the caller of shutdown but not counted.
WriteFailsUncounted ==
    /\ Doing("Record")
    /\ first_error' = TRUE
    /\ Next_command
    /\ UNCHANGED <<handleVars, sink, files, write_failures, queue, disk, reply, promise>>

\* write_all gives up after writing none or a part of the line; the loop goes
\* on with the next command.
WriteFails ==
    /\ Doing("Record")
    /\ \/ UNCHANGED files
       \/ files' = [files EXCEPT ![sink] = Append(@, Line(writer.cmd.rec, FALSE))]
    /\ write_failures' = write_failures + 1
    /\ first_error' = TRUE
    /\ Next_command
    /\ UNCHANGED <<handleVars, sink, queue, disk, reply, promise>>

\* The reply reaches the caller only if that call still waits.
Reply(out) ==
    reply' = IF hangup.pc = "waiting" /\ hangup.call = writer.cmd.call
               THEN [out |-> out, gen |-> disk]
               ELSE reply

\* A reopen that answers and leaves the swap out.
AnswerOnly ==
    /\ Doing("Reopen")
    /\ Reply("ok")
    /\ Next_command
    /\ UNCHANGED <<handleVars, sink, files, first_error, write_failures, queue,
                   disk, promise>>

OpenAndSwap ==
    /\ Doing("Reopen")
    /\ sink' = disk
    /\ Reply("ok")
    /\ Next_command
    /\ UNCHANGED <<handleVars, files, first_error, write_failures, queue, disk,
                   promise>>

OpenFails ==
    /\ Doing("Reopen")
    /\ Reply("Io")
    /\ Next_command
    /\ UNCHANGED <<handleVars, sink, files, first_error, write_failures, queue,
                   disk, promise>>

Flush ==
    /\ writer.pc = "flush"
    /\ writer' = [writer EXCEPT !.pc = "exited"]
    /\ \/ UNCHANGED <<first_error, write_failures>>
       \/ first_error' = TRUE /\ write_failures' = write_failures + 1
    /\ UNCHANGED <<handleVars, sink, files, queue, disk, reply, promise>>

Thread == Recv \/ Write \/ WriteFails \/ OpenAndSwap \/ OpenFails \/ Flush

\* logrotate moves the file away (deploy/orihsus.logrotate) and then signals.
Rotate ==
    /\ disk < MaxRotations
    /\ disk' = disk + 1
    /\ UNCHANGED <<handleVars, threadVars, queue, reply, promise>>

Caller == ReopenReplied \/ ReopenTimeout \/ Joined \/ ShutdownTimeout

Next ==
    \/ \E r \in Records : try_record(r)
    \/ reopen \/ ReopenAborted \/ shutdown_bounded \/ Drop \/ Rotate
    \/ Caller
    \/ Thread

Spec == Init /\ [][Next]_vars

\* The callers' timers and wake-ups run; file operations may stall for ever.
FairSpec == Spec /\ WF_vars(Caller)

-----------------------------------------------------------------------------
(***************************************************************************)
(* Properties.                                                             *)
(***************************************************************************)

\* The state has the shape of AuditWriter and of write_loop's locals, and the
\* channel never exceeds its capacity.
TypeOK ==
    /\ tx \in {"open", "closed"}
    /\ queue \in Seq(Commands) /\ Len(queue) <= Capacity
    /\ outcome \in [Records -> {"none", "Accepted", "Dropped"}]
    /\ writer.pc \in {"recv", "io", "flush", "exited"}
    /\ writer.cmd \in Commands \cup {NoCommand}
    /\ (writer.pc = "io") = (writer.cmd # NoCommand)
    /\ sink \in 0..disk /\ disk \in Generations
    /\ files \in [Generations -> Seq([rec : Records, whole : BOOLEAN])]
    /\ first_error \in BOOLEAN /\ write_failures \in Nat
    /\ hangup.pc \in {"idle", "waiting"} /\ hangup.call \in 0..MaxReopens
    /\ reply.out \in {"none", "ok", "Io"} /\ reply.gen \in 0..disk
    /\ closing \in {"no", "joining", "detached", "Ok", "Io", "ShutdownTimeout"}
    /\ promise \in [Records \cup {"now"} -> 0..disk]

Lines(g) == {files[g][i] : i \in DOMAIN files[g]}
Written(r) == \E g \in Generations : Line(r, TRUE) \in Lines(g)
Accepted == {r \in Records : outcome[r] = "Accepted"}

\* As reopen is documented, "every record offered afterwards lands in the
\* reopened file": a record offered after a reopen has succeeded is in no older
\* file, although reopens that timed out are still carried out later.
ReopenGuarantee ==
    \A g \in Generations : \A l \in Lines(g) : g >= promise[l.rec]

\* A shutdown that reports success has left no accepted record out of the
\* files, whatever was queued when the sender was dropped (shutdown_bounded,
\* write_loop).
FlushedAtShutdown == closing = "Ok" => \A r \in Accepted : Written(r)

\* Where a record is: waiting in the channel, in the thread's hands, in a line.
Places(r) ==
    {<<"queue", i>> : i \in {i \in DOMAIN queue : queue[i] = Record(r)}}
      \cup {<<"thread">> : c \in {writer.cmd} \cap {Record(r)}}
      \cup UNION {{<<"file", g, i>> : i \in {i \in DOMAIN files[g] : files[g][i].rec = r}} :
                    g \in Generations}

Lost == {r \in Accepted : Places(r) = {}}

\* An accepted record is in one place and never in two, a record that was
\* refused is nowhere, and as many records at most are lost as failures were
\* counted (try_record, write_loop).
NoneLostSilently ==
    /\ TypeOK
    /\ \A r \in Records : \A p, q \in Places(r) : p = q
    /\ \A r \in Records : Places(r) # {} => r \in Accepted
    /\ Cardinality(Lost) <= write_failures

\* Neither reopen nor shutdown waits for a stalled thread for ever: each call
\* returns (AUDIT_REOPEN_TIMEOUT, AUDIT_SHUTDOWN_TIMEOUT).
CallsReturn ==
    /\ (hangup.pc = "waiting") ~> (hangup.pc = "idle")
    /\ (closing = "joining") ~> (closing # "joining")
=============================================================================
