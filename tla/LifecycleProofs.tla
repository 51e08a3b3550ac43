-------------------------- MODULE LifecycleProofs --------------------------
(***************************************************************************)
(* Proofs about the audit writer, for any number of records, reopens and   *)
(* rotations and for any capacity of the channel, and about the process    *)
(* around it: validation is enough for the parts, the composition keeps    *)
(* the audit writer's promises, and every end is clean.  The parts: the    *)
(* configuration; reopened files; the process; the account of the records; *)
(* the theorems about the process.                                         *)
(***************************************************************************)
EXTENDS Lifecycle, TLAPS

\* Most leaves are first-order: Zenon proves them.  The others name SMT.
USE ZenonT(30)

-----------------------------------------------------------------------------
(***************************************************************************)
(* The configuration.                                                      *)
(***************************************************************************)
\* The numbers a part looks at.
Demanded == {"max_concurrency", "max_queue", "queue_wait_timeout", "max_body_bytes",
             "max_inflight_body_bytes", "backoff_initial", "backoff_max",
             "breaker_threshold", "breaker_cooldown", "max_attempts",
             "queue_capacity", "max_header_bytes"}

\* A number in a raw configuration is natural, set or defaulted.
LEMMA GetIsNatural ==
    ASSUME NEW raw, \A f \in DOMAIN raw \cap Numbers : raw[f] \in Nat,
           NEW f \in Demanded
    PROVE  f \in DOMAIN Default /\ Get(raw, f) \in Nat
<1>1. f \in DOMAIN Default /\ f \in Numbers
  BY SMTT(30) DEF Demanded, Numbers, Default
<1>2. /\ Default["max_concurrency"] \in Nat /\ Default["max_queue"] \in Nat
      /\ Default["queue_wait_timeout"] \in Nat
  BY SMTT(30) DEF Default
<1>3. /\ Default["max_body_bytes"] \in Nat /\ Default["max_inflight_body_bytes"] \in Nat
      /\ Default["max_header_bytes"] \in Nat
  BY SMTT(30) DEF Default
<1>4. /\ Default["backoff_initial"] \in Nat /\ Default["backoff_max"] \in Nat
      /\ Default["breaker_threshold"] \in Nat
  BY SMTT(30) DEF Default
<1>5. /\ Default["breaker_cooldown"] \in Nat /\ Default["max_attempts"] \in Nat
      /\ Default["queue_capacity"] \in Nat
  BY SMTT(30) DEF Default
<1>6. Default[f] \in Nat
  BY <1>2, <1>3, <1>4, <1>5, Zenon DEF Demanded
<1> QED
  BY <1>1, <1>6, SMTT(30) DEF Get, Is_set

\* Config::try_from accepts no configuration that a constructor refuses, nor one
\* that makes any panic but the audit channel, whose capacity it does not bound.
LEMMA ValidFits ==
    ASSUME NEW raw, Valid(raw),
           \A f \in DOMAIN raw \cap Numbers : raw[f] \in Nat,
           Is_set(raw, "keys") => raw.keys \in Seq(Range1(raw.keys))
    PROVE  /\ Assembled(try_from(raw))
                 = IF ChannelDemands(try_from(raw)) THEN "ok" ELSE "panic"
           /\ HeaderDemands(try_from(raw))
<1> DEFINE cfg == try_from(raw)
<1>1. \A f \in Demanded : Get(raw, f) \in Nat /\ cfg.field[f] = Get(raw, f)
  BY GetIsNatural DEF try_from
<1>2. cfg.keys # <<>>
  <2>1. raw.keys \in Seq(Range1(raw.keys)) /\ raw.keys # <<>>
    BY DEF Valid, KeysValid
  <2>2. 1 \in DOMAIN raw.keys
    BY <2>1, SMTT(30)
  <2>3. cfg.keys = [i \in DOMAIN raw.keys |-> raw.keys[i].key]
    BY SMTT(30) DEF try_from
  <2> QED
    BY <2>2, <2>3, SMTT(30)
<1> HIDE DEF cfg
<1>3. /\ cfg.field.max_concurrency \in 1..MAX_PERMITS
      /\ cfg.field.max_queue \in Nat /\ cfg.field.max_queue <= MAX_PERMITS
      /\ cfg.field.queue_wait_timeout > 0
      /\ cfg.field.max_body_bytes \in 1..U32_MAX
      /\ cfg.field.max_inflight_body_bytes \in 1..U32_MAX
      /\ cfg.field.max_body_bytes <= cfg.field.max_inflight_body_bytes
  BY <1>1, SMTT(30) DEF Valid, LimitsValid, InflightCoversBody, Demanded
<1>4. /\ cfg.field.backoff_initial > 0
      /\ cfg.field.backoff_max >= cfg.field.backoff_initial
      /\ cfg.field.breaker_threshold \in 1..U32_MAX
      /\ cfg.field.breaker_cooldown > 0
      /\ cfg.field.max_attempts \in 1..2
  BY <1>1, ConfigConstants, SMTT(30) DEF Valid, KeyFailureValid, Demanded
<1>5. cfg.field.queue_capacity # 0 /\ cfg.field.max_header_bytes <= U32_MAX
  BY <1>1, ConfigConstants, SMTT(30) DEF Valid, AuditValid, ServerValid, Demanded
<1>6. PoolDemands(cfg) /\ Fits_u32(cfg.field.breaker_threshold)
  BY <1>2, <1>4, ConfigConstants, SMTT(30) DEF PoolDemands, Fits_u32
<1>7. QueueDemands(cfg) /\ AuditDemands(cfg) /\ HeaderDemands(cfg)
  BY <1>3, <1>5, ConfigConstants, SMTT(30)
     DEF QueueDemands, AuditDemands, HeaderDemands, Semaphore_takes, Fits_u32
<1>8. Fits_u32(cfg.field.max_body_bytes) /\ BudgetDemands(cfg)
  BY <1>3, ConfigConstants, SMTT(30) DEF BudgetDemands, Semaphore_takes, Fits_u32
<1>9. Semaphore_takes(MaxStreams(cfg))
  <2>1. cfg.field.max_concurrency \div 4 <= cfg.field.max_concurrency
    BY <1>3, ConfigConstants, SMTT(30)
  <2> QED
    BY <1>3, <2>1, ConfigConstants, SMTT(30) DEF MaxStreams, Semaphore_takes
<1> QED
  BY <1>6, <1>7, <1>8, <1>9 DEF Assembled, cfg

-----------------------------------------------------------------------------
(***************************************************************************)
(* The audit writer.  Shape is what the steps need of the types.           *)
(* Ascending: generations only grow, from the promise to records offered   *)
(* now, over the reply that waits to be read, to the file that is open.    *)
(* Offered: only records that were offered are on their way or written.    *)
(* Underway: an accepted record is queued, in hand or written as long as   *)
(* nothing has failed.  Emptied: the thread ends with an empty queue.      *)
(***************************************************************************)
HangupTask ==
    [pc : {"idle", "waiting"}, call : 0..MaxReopens,
     result : {"none", "ok", "Io", "ReopenQueueFull", "ReopenTimeout"}]

Shape ==
    /\ tx \in {"open", "closed"}
    /\ queue \in Seq(Commands)
    /\ outcome \in [Records -> {"none", "Accepted", "Dropped"}]
    /\ writer \in [pc : {"recv", "io", "flush", "exited"},
                   cmd : Commands \cup {NoCommand}]
    /\ disk \in Generations /\ sink \in 0..disk
    /\ files \in [Generations -> Seq([rec : Records, whole : BOOLEAN])]
    /\ first_error \in BOOLEAN
    /\ hangup \in HangupTask
    /\ reply \in [out : {"none", "ok", "Io"}, gen : 0..disk]
    /\ closing \in {"no", "joining", "detached", "Ok", "Io", "ShutdownTimeout"}
    /\ promise \in [Records \cup {"now"} -> 0..disk]

Ascending ==
    /\ \A r \in Records : promise[r] <= promise["now"]
    /\ promise["now"] <= sink
    /\ reply.out = "ok" => promise["now"] <= reply.gen /\ reply.gen <= sink

Offered ==
    /\ \A r \in Records : \A i \in 1..Len(queue) :
         queue[i] = Record(r) => outcome[r] # "none"
    /\ \A r \in Records : writer.cmd = Record(r) => outcome[r] # "none"
    /\ \A g \in Generations : \A i \in 1..Len(files[g]) :
         outcome[files[g][i].rec] # "none"

Ordered ==
    \A g \in Generations : \A i \in 1..Len(files[g]) : promise[files[g][i].rec] <= g

OnDisk(r) ==
    \E g \in Generations : \E i \in 1..Len(files[g]) : files[g][i] = Line(r, TRUE)

Underway ==
    \A r \in Records :
        outcome[r] = "Accepted" =>
            \/ first_error
            \/ \E i \in 1..Len(queue) : queue[i] = Record(r)
            \/ writer.cmd = Record(r)
            \/ OnDisk(r)

Emptied ==
    /\ writer.pc \in {"flush", "exited"} =>
         queue = <<>> /\ tx = "closed" /\ writer.cmd = NoCommand
    /\ closing = "Ok" => writer.pc = "exited" /\ ~first_error

\* Between two commands the thread has none in hand.
Idle == writer.pc = "recv" => writer.cmd = NoCommand

AInv == Shape /\ Ascending /\ Offered /\ Ordered /\ Underway /\ Emptied /\ Idle

-----------------------------------------------------------------------------
(***************************************************************************)
(* Sequences and commands.                                                 *)
(***************************************************************************)

\* What a command appended to the channel, or a line appended to a file, leaves
\* in place.
LEMMA AppendFacts ==
    ASSUME NEW S, NEW s \in Seq(S), NEW x \in S
    PROVE  /\ Append(s, x) \in Seq(S)
           /\ Len(Append(s, x)) = Len(s) + 1
           /\ \A i \in 1..Len(s) : Append(s, x)[i] = s[i]
           /\ Append(s, x)[Len(s) + 1] = x
  BY SMTT(30)

\* An element of a sequence.
LEMMA ElementFact ==
    ASSUME NEW S, NEW s \in Seq(S), NEW i \in 1..Len(s)
    PROVE  s[i] \in S
  BY SMTT(30)

\* What recv leaves in the channel.
LEMMA TailFacts ==
    ASSUME NEW S, NEW s \in Seq(S), s # <<>>
    PROVE  /\ Tail(s) \in Seq(S)
           /\ Head(s) \in S /\ Head(s) = s[1]
           /\ Len(s) \in Nat /\ Len(s) >= 1
           /\ Len(Tail(s)) = Len(s) - 1
           /\ \A i \in 1..Len(Tail(s)) : Tail(s)[i] = s[i + 1]
  BY SMTT(30)

\* Commands are told apart by their kind and their argument.
LEMMA CommandFacts ==
    /\ \A r, q \in Records : Record(r) = Record(q) => r = q
    /\ \A r \in Records : Record(r) \in Commands /\ Record(r) # NoCommand
                          /\ Record(r).rec = r /\ Record(r).kind = "Record"
    /\ \A n \in 1..MaxReopens : Reopen(n) \in Commands /\ Reopen(n).kind = "Reopen"
    /\ \A n \in 1..MaxReopens, r \in Records : Reopen(n) # Record(r)
    /\ \A c \in Commands : c.kind = "Record" => \E r \in Records : c = Record(r)
    /\ NoCommand \notin Commands /\ NoCommand.kind = "none"
<1>1. \A r \in Records : Record(r).kind = "Record" /\ Record(r).rec = r
  BY DEF Record
<1>2. \A n \in 1..MaxReopens : Reopen(n).kind = "Reopen"
  BY DEF Reopen
<1>3. NoCommand.kind = "none"
  BY DEF NoCommand
<1>4. \A r \in Records : Record(r) \in Commands
  BY DEF Commands
<1>5. \A n \in 1..MaxReopens : Reopen(n) \in Commands
  BY DEF Commands
<1>6. \A c \in Commands : \/ \E r \in Records : c = Record(r)
                          \/ \E n \in 1..MaxReopens : c = Reopen(n)
  BY DEF Commands
<1>7. \A c \in Commands : c.kind = "Record" => \E r \in Records : c = Record(r)
  BY <1>2, <1>6
<1>8. NoCommand \notin Commands
  BY <1>1, <1>2, <1>3, <1>6
<1> QED
  BY <1>1, <1>2, <1>3, <1>4, <1>5, <1>7, <1>8, SMTT(30)

\* What the types say, element by element.
LEMMA ShapeFacts ==
    ASSUME Shape
    PROVE  /\ disk \in Nat /\ disk <= MaxRotations /\ sink \in Nat /\ sink <= disk
           /\ sink \in Generations
           /\ reply.gen \in Nat /\ reply.gen <= disk
           /\ promise["now"] \in Nat /\ \A r \in Records : promise[r] \in Nat
           /\ Len(queue) \in Nat
           /\ \A g \in Generations : /\ g \in Nat /\ Len(files[g]) \in Nat
                                     /\ files[g] \in Seq([rec : Records, whole : BOOLEAN])
           /\ \A g \in Generations : \A i \in 1..Len(files[g]) : files[g][i].rec \in Records
<1> USE DEF Shape
<1>1. disk \in Nat /\ disk <= MaxRotations /\ sink \in Nat /\ sink <= disk
  BY AuditConstants, SMTT(30) DEF Generations
<1>2. reply.gen \in 0..disk
  OBVIOUS
<1>3. promise["now"] \in 0..disk /\ \A r \in Records : promise[r] \in 0..disk
  OBVIOUS
<1>4. \A g \in Generations : files[g] \in Seq([rec : Records, whole : BOOLEAN])
  OBVIOUS
<1>5. \A g \in Generations : \A i \in 1..Len(files[g]) :
         files[g][i] \in [rec : Records, whole : BOOLEAN]
  BY <1>4, ElementFact
<1>6. \A g \in Generations : \A i \in 1..Len(files[g]) : files[g][i].rec \in Records
  BY <1>5
<1>7. Len(queue) \in Nat /\ \A g \in Generations : g \in Nat /\ Len(files[g]) \in Nat
  BY <1>4, AuditConstants, SMTT(30) DEF Generations
<1>8. sink \in Generations
  BY <1>1, AuditConstants, SMTT(30) DEF Generations
<1>9. reply.gen \in Nat /\ reply.gen <= disk
  BY <1>1, <1>2, SMTT(30)
<1>10. promise["now"] \in Nat /\ \A r \in Records : promise[r] \in Nat
  BY <1>1, <1>3, SMTT(30)
<1> QED
  BY <1>1, <1>4, <1>6, <1>7, <1>8, <1>9, <1>10

-----------------------------------------------------------------------------
(***************************************************************************)
(* The initial state, and the steps of the handle.                         *)
(***************************************************************************)

\* AuditWriter::spawn establishes the invariant.
LEMMA AInit == Init => AInv
<1> SUFFICES ASSUME Init PROVE AInv
  OBVIOUS
<1> USE DEF Init
<1>1. Shape
  <2>1. hangup \in HangupTask
    BY AuditConstants, SMTT(30) DEF HangupTask
  <2>2. reply \in [out : {"none", "ok", "Io"}, gen : 0..disk]
    BY SMTT(30) DEF NoReply
  <2>3. writer \in [pc : {"recv", "io", "flush", "exited"}, cmd : Commands \cup {NoCommand}]
    OBVIOUS
  <2>4. disk \in Generations /\ sink \in 0..disk
    BY AuditConstants, SMTT(30) DEF Generations
  <2>5. /\ files \in [Generations -> Seq([rec : Records, whole : BOOLEAN])]
        /\ queue \in Seq(Commands)
    BY SMTT(30)
  <2>6. promise \in [Records \cup {"now"} -> 0..disk]
    BY SMTT(30)
  <2> QED
    BY <2>1, <2>2, <2>3, <2>4, <2>5, <2>6 DEF Shape
<1>2. Len(queue) = 0 /\ \A g \in Generations : Len(files[g]) = 0
  OBVIOUS
<1>3. Ascending
  BY SMTT(30) DEF Ascending, NoReply
<1>4. Offered /\ Ordered /\ Underway /\ Emptied /\ Idle
  BY <1>2, CommandFacts, SMTT(30) DEF Offered, Ordered, Underway, Emptied, Idle
<1> QED
  BY <1>1, <1>3, <1>4 DEF AInv

\* A record is offered: it joins the channel or is dropped, and may from now on
\* land in the file promised at this moment or in a later one.
LEMMA TryRecordStep ==
    ASSUME AInv, NEW r \in Records, try_record(r) PROVE AInv'
<1> USE DEF AInv
<1>0. UNCHANGED <<tx, hangup, closing, threadVars, disk, reply>>
  BY DEF try_record
<1>1. /\ promise' = [promise EXCEPT ![r] = promise["now"]]
      /\ outcome[r] = "none" /\ tx = "open"
      /\ outcome' \in {[outcome EXCEPT ![r] = "Accepted"],
                       [outcome EXCEPT ![r] = "Dropped"]}
  BY DEF try_record
<1>2. /\ outcome' \in [Records -> {"none", "Accepted", "Dropped"}]
      /\ outcome'[r] # "none"
      /\ \A q \in Records : q # r => outcome'[q] = outcome[q]
  BY <1>1 DEF Shape
<1>3. /\ promise' \in [Records \cup {"now"} -> 0..disk]
      /\ promise'["now"] = promise["now"]
      /\ promise'[r] = promise["now"]
      /\ \A q \in Records : q # r => promise'[q] = promise[q]
  BY <1>1 DEF Shape
<1>4. /\ queue' \in Seq(Commands)
      /\ \/ queue' = queue /\ outcome'[r] = "Dropped"
         \/ /\ Len(queue') = Len(queue) + 1
            /\ \A i \in 1..Len(queue) : queue'[i] = queue[i]
            /\ queue'[Len(queue) + 1] = Record(r)
  <2>1. CASE Room
    <3>1. queue' = Append(queue, Record(r)) /\ Record(r) \in Commands
      BY <2>1, CommandFacts DEF try_record
    <3> QED
      BY <3>1, AppendFacts, SMTT(30) DEF Shape
  <2>2. CASE ~Room
    BY <2>2 DEF try_record, Shape
  <2> QED
    BY <2>1, <2>2
<1>5. Len(queue) \in Nat /\ \A g \in Generations : Len(files[g]) \in Nat
  BY ShapeFacts
<1>6. Shape'
  BY <1>0, <1>2, <1>3, <1>4, ZenonT(30), SMTT(30) DEF Shape, threadVars
<1>7. Ascending'
  BY <1>0, <1>3, ShapeFacts, SMTT(30) DEF Ascending, threadVars
<1>8. \A g \in Generations : \A i \in 1..Len(files[g]) :
         files[g][i].rec \in Records /\ files[g][i].rec # r
  BY <1>1, ShapeFacts DEF Offered
<1>9. Offered'
  BY <1>0, <1>2, <1>4, <1>5, <1>8, CommandFacts, SMTT(30) DEF Offered, threadVars
<1>10. Ordered'
  BY <1>0, <1>3, <1>8 DEF Ordered, threadVars
<1>11. Underway'
  <2> SUFFICES ASSUME NEW q \in Records, outcome'[q] = "Accepted"
               PROVE  \/ first_error
                      \/ \E i \in 1..Len(queue') : queue'[i] = Record(q)
                      \/ writer.cmd = Record(q)
                      \/ OnDisk(q)
    BY <1>0 DEF Underway, OnDisk, threadVars
  <2>1. CASE q = r
    BY <1>2, <1>4, <1>5, <2>1, SMTT(30)
  <2>2. CASE q # r
    BY <1>2, <1>4, <1>5, <2>2, SMTT(30) DEF Underway
  <2> QED
    BY <2>1, <2>2
<1>12. Emptied' /\ Idle'
  BY <1>0, <1>1 DEF Emptied, Idle, threadVars
<1> QED
  BY <1>6, <1>7, <1>9, <1>10, <1>11, <1>12

\* A reopen joins the channel or is refused; either way no reply is there yet.
LEMMA ReopenStep ==
    ASSUME AInv, reopen PROVE AInv'
<1> USE DEF AInv
<1>0. UNCHANGED <<tx, outcome, closing, threadVars, disk, promise>>
  BY DEF reopen
<1>1. reply' = NoReply /\ hangup.call \in 0..MaxReopens /\ hangup.call < MaxReopens
  BY DEF reopen, Shape, HangupTask
<1>2. hangup.call + 1 \in 1..MaxReopens
  BY <1>1, AuditConstants, SMTT(30)
<1>3. /\ queue' \in Seq(Commands)
      /\ \/ queue' = queue
         \/ /\ Len(queue') = Len(queue) + 1
            /\ \A i \in 1..Len(queue) : queue'[i] = queue[i]
            /\ \A r \in Records : queue'[Len(queue) + 1] # Record(r)
  <2>1. CASE Room
    <3>1. queue' = Append(queue, Reopen(hangup.call + 1))
      BY <2>1 DEF reopen
    <3>2. /\ Reopen(hangup.call + 1) \in Commands
          /\ \A r \in Records : Reopen(hangup.call + 1) # Record(r)
      BY <1>2, CommandFacts
    <3> QED
      BY <3>1, <3>2, AppendFacts, SMTT(30) DEF Shape
  <2>2. CASE ~Room
    BY <2>2 DEF reopen, Shape
  <2> QED
    BY <2>1, <2>2
<1>4. hangup' \in HangupTask
  <2>1. hangup \in HangupTask
    BY DEF Shape
  <2>2. \/ hangup' = [pc |-> "waiting", call |-> hangup.call + 1, result |-> "none"]
        \/ hangup' = [hangup EXCEPT !.call = @ + 1, !.result = "ReopenQueueFull"]
    BY DEF reopen
  <2>3. CASE hangup' = [pc |-> "waiting", call |-> hangup.call + 1, result |-> "none"]
    BY <1>2, <2>3, SMTT(30) DEF HangupTask
  <2>4. CASE hangup' = [hangup EXCEPT !.call = @ + 1, !.result = "ReopenQueueFull"]
    <3>1. hangup.call + 1 \in 0..MaxReopens
      BY <1>2, AuditConstants, SMTT(30)
    <3> QED
      BY <2>1, <2>4, <3>1 DEF HangupTask
  <2> QED
    BY <2>2, <2>3, <2>4
<1>5. reply' \in [out : {"none", "ok", "Io"}, gen : 0..disk] /\ reply'.out = "none"
  BY <1>1, ShapeFacts, SMTT(30) DEF NoReply
<1>6. Shape'
  BY <1>0, <1>3, <1>4, <1>5 DEF Shape, threadVars
<1>7. Ascending'
  BY <1>0, <1>5 DEF Ascending, threadVars
<1>8. Offered'
  BY <1>0, <1>3, ShapeFacts, SMTT(30) DEF Offered, threadVars
<1>9. Ordered' /\ Emptied' /\ Idle'
  <2>1. Ordered'
    BY <1>0 DEF Ordered, threadVars
  <2>2. tx = "open"
    BY DEF reopen
  <2> QED
    BY <1>0, <2>1, <2>2 DEF Emptied, Idle, threadVars
<1>10. Underway'
  <2> SUFFICES ASSUME NEW q \in Records, outcome[q] = "Accepted"
               PROVE  \/ first_error
                      \/ \E i \in 1..Len(queue') : queue'[i] = Record(q)
                      \/ writer.cmd = Record(q)
                      \/ OnDisk(q)
    BY <1>0 DEF Underway, OnDisk, threadVars
  <2>1. CASE \E i \in 1..Len(queue) : queue[i] = Record(q)
    <3>1. PICK i \in 1..Len(queue) : queue[i] = Record(q)
      BY <2>1
    <3>2. Len(queue) \in Nat
      BY ShapeFacts
    <3>3. i \in 1..Len(queue') /\ queue'[i] = queue[i]
      BY <1>3, <3>2, SMTT(30)
    <3> QED
      BY <3>1, <3>3
  <2> QED
    BY <2>1 DEF Underway
<1> QED
  BY <1>6, <1>7, <1>8, <1>9, <1>10

\* A step that leaves the records alone: neither the channel nor the thread's
\* own variables change.  The reply, if it was a success, becomes the promise.
Calls == ReopenReplied \/ ReopenTimeout \/ ReopenAborted \/ shutdown_bounded
           \/ Joined \/ ShutdownTimeout \/ Drop \/ Rotate

\* They keep the invariant.
LEMMA CallsStep ==
    ASSUME AInv, Calls PROVE AInv'
<1> USE DEF AInv
<1>0. UNCHANGED <<outcome, threadVars, queue, reply>>
  BY DEF Calls, ReopenReplied, ReopenTimeout, ReopenAborted, shutdown_bounded,
         Joined, ShutdownTimeout, Drop, Rotate, handleVars
<1>1. /\ tx' \in {"open", "closed"}
      /\ tx = "closed" => tx' = "closed"
      /\ disk' \in Generations /\ disk <= disk'
  BY ShapeFacts, AuditConstants, SMTT(30)
     DEF Calls, ReopenReplied, ReopenTimeout, ReopenAborted, shutdown_bounded,
         Joined, ShutdownTimeout, Drop, Rotate, handleVars, Shape, Generations
<1>2. hangup' \in HangupTask
  BY ZenonT(30), SMTT(30) DEF Calls, ReopenReplied, ReopenTimeout, ReopenAborted, shutdown_bounded,
         Joined, ShutdownTimeout, Drop, Rotate, handleVars, Shape, HangupTask
<1>3. /\ closing' \in {"no", "joining", "detached", "Ok", "Io", "ShutdownTimeout"}
      /\ closing' = "Ok" => writer.pc = "exited" /\ ~first_error
  BY DEF Calls, ReopenReplied, ReopenTimeout, ReopenAborted, shutdown_bounded,
         Joined, ShutdownTimeout, Drop, Rotate, handleVars, Shape, Emptied
<1>4. \/ promise' = promise
      \/ reply.out = "ok" /\ promise' = [promise EXCEPT !["now"] = reply.gen]
  BY DEF Calls, ReopenReplied, ReopenTimeout, ReopenAborted, shutdown_bounded,
         Joined, ShutdownTimeout, Drop, Rotate, handleVars
<1>5. /\ promise' \in [Records \cup {"now"} -> 0..disk']
      /\ promise["now"] <= promise'["now"] /\ promise'["now"] <= sink
      /\ reply.out = "ok" => promise'["now"] <= reply.gen
      /\ \A r \in Records : promise'[r] = promise[r]
  <2>1. reply.gen \in 0..disk' /\ promise \in [Records \cup {"now"} -> 0..disk']
    BY <1>1, ShapeFacts, SMTT(30) DEF Shape, Generations
  <2>2. CASE promise' = promise
    BY <2>1, <2>2, ShapeFacts, SMTT(30) DEF Ascending
  <2>3. CASE reply.out = "ok" /\ promise' = [promise EXCEPT !["now"] = reply.gen]
    BY <2>1, <2>3, ShapeFacts, AuditConstants, SMTT(30) DEF Ascending
  <2> QED
    BY <1>4, <2>2, <2>3
<1>6. Shape'
  <2>1. sink \in 0..disk' /\ reply \in [out : {"none", "ok", "Io"}, gen : 0..disk']
    BY <1>1, ShapeFacts, SMTT(30) DEF Shape, Generations
  <2> QED
    BY <1>0, <1>1, <1>2, <1>3, <1>5, <2>1 DEF Shape, threadVars
<1>7. Ascending'
  BY <1>0, <1>5, ShapeFacts, SMTT(30) DEF Ascending, threadVars
<1>8. Offered' /\ Underway'
  BY <1>0 DEF Offered, Underway, OnDisk, threadVars
<1>9. Emptied' /\ Idle'
  BY <1>0, <1>1, <1>3 DEF Emptied, Idle, threadVars
<1>10. Ordered'
  BY <1>0, <1>5, ShapeFacts DEF Ordered, threadVars
<1> QED
  BY <1>6, <1>7, <1>8, <1>9, <1>10

-----------------------------------------------------------------------------
(***************************************************************************)
(* The steps of the thread.                                                *)
(***************************************************************************)

\* The thread takes the first command, or finds the channel empty and closed.
LEMMA RecvStep ==
    ASSUME AInv, Recv PROVE AInv'
<1> USE DEF AInv
<1>0. UNCHANGED <<handleVars, sink, files, first_error, disk, reply, promise>>
  BY DEF Recv
<1>1. CASE queue # <<>>
  <2>1. writer' = [pc |-> "io", cmd |-> Head(queue)] /\ queue' = Tail(queue)
    BY <1>1 DEF Recv
  <2>2. /\ queue' \in Seq(Commands) /\ Head(queue) \in Commands
        /\ Head(queue) = queue[1] /\ Len(queue) \in Nat /\ Len(queue) >= 1
        /\ Len(queue') = Len(queue) - 1
        /\ \A i \in 1..Len(queue') : queue'[i] = queue[i + 1]
    BY <1>1, <2>1, TailFacts, SMTT(30) DEF Shape
  <2>3. writer'.pc = "io" /\ writer'.cmd = queue[1]
    BY <2>1, <2>2
  <2>4. Shape'
    BY <1>0, <2>1, <2>2 DEF Shape, handleVars
  <2>5. Ascending' /\ Ordered'
    BY <1>0 DEF Ascending, Ordered, handleVars
  <2>6. Offered'
    <3>1. \A i \in 1..Len(queue') : i + 1 \in 1..Len(queue)
      BY <2>2, SMTT(30)
    <3> QED
      BY <1>0, <2>2, <2>3, <3>1, SMTT(30) DEF Offered, handleVars
  <2>7. Underway'
    <3> SUFFICES ASSUME NEW q \in Records, outcome[q] = "Accepted",
                        ~first_error, ~OnDisk(q), writer'.cmd # Record(q)
                 PROVE  \E i \in 1..Len(queue') : queue'[i] = Record(q)
      BY <1>0 DEF Underway, OnDisk, handleVars
    <3>1. writer.cmd # Record(q)
      <4>1. writer.pc = "recv" /\ writer.cmd = NoCommand
        BY DEF Recv, Idle
      <4> QED
        BY <4>1, CommandFacts
    <3>2. PICK i \in 1..Len(queue) : queue[i] = Record(q)
      BY <3>1 DEF Underway
    <3>3. i # 1
      BY <2>3, <3>2
    <3>4. i - 1 \in 1..Len(queue') /\ queue'[i - 1] = queue[i]
      BY <2>2, <3>3, SMTT(30)
    <3> QED
      BY <3>2, <3>4
  <2>8. Emptied' /\ Idle'
    <3>1. closing # "Ok"
      BY DEF Recv, Emptied
    <3> QED
      BY <1>0, <2>3, <3>1 DEF Emptied, Idle, handleVars
  <2> QED
    BY <2>4, <2>5, <2>6, <2>7, <2>8
<1>2. CASE queue = <<>>
  <2>1. /\ writer' = [pc |-> "flush", cmd |-> NoCommand] /\ tx = "closed"
        /\ queue' = queue
    BY <1>2 DEF Recv
  <2>2. Shape'
    BY <1>0, <2>1 DEF Shape, handleVars
  <2>3. Ascending' /\ Ordered'
    BY <1>0 DEF Ascending, Ordered, handleVars
  <2>4. writer'.pc = "flush" /\ writer'.cmd = NoCommand /\ writer.cmd = NoCommand
    BY <2>1 DEF Recv, Idle
  <2>5. Offered' /\ Underway'
    BY <1>0, <2>1, <2>4, CommandFacts DEF Offered, Underway, OnDisk, handleVars
  <2>6. Emptied' /\ Idle'
    <3>1. closing # "Ok"
      BY DEF Recv, Emptied
    <3> QED
      BY <1>0, <1>2, <2>1, <2>4, <3>1 DEF Emptied, Idle, handleVars
  <2> QED
    BY <2>2, <2>3, <2>5, <2>6
<1> QED
  BY <1>1, <1>2

\* The record in hand gets its line, whole or torn, in the file that is open;
\* or no line at all, which is a failure.
LEMMA WriteStep ==
    ASSUME AInv, Write \/ WriteFails PROVE AInv'
<1> USE DEF AInv
<1>0. /\ UNCHANGED <<handleVars, sink, queue, disk, reply, promise>>
      /\ writer' = [pc |-> "recv", cmd |-> NoCommand]
      /\ writer.pc = "io" /\ writer.cmd.kind = "Record"
  BY DEF Write, WriteFails, Next_command, Doing
<1>1. PICK r \in Records : writer.cmd = Record(r)
  <2>1. writer.cmd \in Commands \cup {NoCommand}
    BY DEF Shape
  <2> QED
    BY <1>0, <2>1, CommandFacts
<1>2. writer'.pc = "recv" /\ writer'.cmd = NoCommand
  BY <1>0
<1>3. writer.cmd.rec = r /\ outcome[r] # "none"
  BY <1>1, CommandFacts DEF Offered
<1>4. /\ sink \in Generations /\ promise[r] <= sink
      /\ promise[r] \in Nat /\ sink \in Nat
  BY ShapeFacts, SMTT(30) DEF Ascending
<1>5. PICK whole \in BOOLEAN :
         /\ \/ files' = [files EXCEPT ![sink] = Append(files[sink], Line(r, whole))]
            \/ files' = files /\ whole = FALSE
         /\ whole = FALSE => first_error' = TRUE
         /\ whole = TRUE => first_error' = first_error
  BY <1>3 DEF Write, WriteFails
<1>6. Line(r, whole) \in [rec : Records, whole : BOOLEAN] /\ Line(r, whole).rec = r
  BY DEF Line
<1>7. \/ files' = files /\ whole = FALSE
      \/ /\ files' \in [Generations -> Seq([rec : Records, whole : BOOLEAN])]
         /\ \A g \in Generations : g # sink => files'[g] = files[g]
         /\ Len(files[sink]) \in Nat /\ Len(files'[sink]) = Len(files[sink]) + 1
         /\ \A i \in 1..Len(files[sink]) : files'[sink][i] = files[sink][i]
         /\ files'[sink][Len(files[sink]) + 1] = Line(r, whole)
  <2>1. CASE files' = [files EXCEPT ![sink] = Append(files[sink], Line(r, whole))]
    <3>1. files[sink] \in Seq([rec : Records, whole : BOOLEAN])
      BY <1>4, ShapeFacts
    <3>2. /\ Append(files[sink], Line(r, whole)) \in Seq([rec : Records, whole : BOOLEAN])
          /\ Len(Append(files[sink], Line(r, whole))) = Len(files[sink]) + 1
          /\ \A i \in 1..Len(files[sink]) :
               Append(files[sink], Line(r, whole))[i] = files[sink][i]
          /\ Append(files[sink], Line(r, whole))[Len(files[sink]) + 1] = Line(r, whole)
      BY <1>6, <3>1, AppendFacts, SMTT(30)
    <3>3. /\ files'[sink] = Append(files[sink], Line(r, whole))
          /\ \A g \in Generations : g # sink => files'[g] = files[g]
          /\ files' \in [Generations -> Seq([rec : Records, whole : BOOLEAN])]
      BY <1>4, <2>1, <3>2 DEF Shape
    <3> QED
      BY <1>4, <3>2, <3>3, ShapeFacts
  <2> QED
    BY <1>5, <2>1
<1>8. \A g \in Generations : \A i \in 1..Len(files'[g]) :
         \/ i \in 1..Len(files[g]) /\ files'[g][i] = files[g][i]
         \/ g = sink /\ files'[g][i].rec = r
  BY <1>6, <1>7, SMTT(30)
<1>9. Shape'
  <2>1. first_error' \in BOOLEAN
    BY <1>5 DEF Shape
  <2>2. files' \in [Generations -> Seq([rec : Records, whole : BOOLEAN])]
    BY <1>7 DEF Shape
  <2> QED
    BY <1>0, <2>1, <2>2 DEF Shape, handleVars
<1>10. Ascending'
  BY <1>0 DEF Ascending, handleVars
<1>11. Offered'
  BY <1>0, <1>2, <1>3, <1>8, CommandFacts, SMTT(30) DEF Offered, handleVars
<1>12. Ordered'
  BY <1>0, <1>4, <1>8 DEF Ordered, handleVars
<1>13. Emptied' /\ Idle'
  BY <1>0, <1>2 DEF Emptied, Idle, handleVars
<1>14. CASE whole = FALSE
  <2>1. Underway'
    BY <1>5, <1>14 DEF Underway
  <2> QED
    BY <1>9, <1>10, <1>11, <1>12, <1>13, <2>1
<1>15. CASE whole = TRUE
  <2>1. /\ first_error' = first_error
        /\ Len(files[sink]) \in Nat /\ Len(files'[sink]) = Len(files[sink]) + 1
        /\ files'[sink][Len(files[sink]) + 1] = Line(r, TRUE)
    BY <1>5, <1>7, <1>15
  <2>2. Underway'
    <3> SUFFICES ASSUME NEW q \in Records, outcome[q] = "Accepted", ~first_error,
                        ~\E i \in 1..Len(queue) : queue[i] = Record(q)
                 PROVE  OnDisk(q)'
      BY <1>0, <2>1 DEF Underway, handleVars
    <3>1. CASE q = r
      <4>1. Len(files[sink]) + 1 \in 1..Len(files'[sink])
        BY <2>1, SMTT(30)
      <4> QED
        BY <1>4, <2>1, <3>1, <4>1 DEF OnDisk
    <3>2. CASE q # r
      <4>1. PICK g \in Generations : \E i \in 1..Len(files[g]) : files[g][i] = Line(q, TRUE)
        BY <1>1, <3>2, CommandFacts DEF Underway, OnDisk
      <4>2. PICK i \in 1..Len(files[g]) : files[g][i] = Line(q, TRUE)
        BY <4>1
      <4>3. i \in 1..Len(files'[g]) /\ files'[g][i] = files[g][i]
        <5>1. CASE g = sink
          BY <1>7, <5>1, ShapeFacts, SMTT(30)
        <5>2. CASE g # sink
          BY <1>7, <5>2
        <5> QED
          BY <5>1, <5>2
      <4> QED
        BY <4>2, <4>3 DEF OnDisk
    <3> QED
      BY <3>1, <3>2
  <2> QED
    BY <1>9, <1>10, <1>11, <1>12, <1>13, <2>2
<1> QED
  BY <1>14, <1>15

\* A reopen is carried out, or fails; whoever still waits for it gets the reply.
LEMMA SwapStep ==
    ASSUME AInv, OpenAndSwap \/ OpenFails PROVE AInv'
<1> USE DEF AInv
<1>0. /\ UNCHANGED <<handleVars, files, first_error, queue, disk, promise>>
      /\ writer' = [pc |-> "recv", cmd |-> NoCommand]
      /\ writer.pc = "io" /\ writer.cmd.kind = "Reopen"
  BY DEF OpenAndSwap, OpenFails, Next_command, Doing
<1>1. writer'.pc = "recv" /\ writer'.cmd = NoCommand
  BY <1>0
<1>2. sink' \in 0..disk /\ sink <= sink'
  BY ShapeFacts, SMTT(30) DEF OpenAndSwap, OpenFails
<1>3. \/ reply' = reply
      \/ reply' = [out |-> "Io", gen |-> disk]
      \/ reply' = [out |-> "ok", gen |-> disk] /\ sink' = disk
  BY DEF OpenAndSwap, OpenFails, Reply
<1>4. /\ reply' \in [out : {"none", "ok", "Io"}, gen : 0..disk]
      /\ reply'.out = "ok" => (reply' = reply \/ (reply'.gen = disk /\ sink' = disk))
  <2>1. disk \in 0..disk
    BY ShapeFacts, SMTT(30)
  <2>2. CASE reply' = reply
    <3>1. reply \in [out : {"none", "ok", "Io"}, gen : 0..disk]
      BY DEF Shape
    <3> QED
      BY <2>2, <3>1
  <2>3. CASE reply' = [out |-> "Io", gen |-> disk]
    BY <2>1, <2>3
  <2>4. CASE reply' = [out |-> "ok", gen |-> disk] /\ sink' = disk
    BY <2>1, <2>4
  <2> QED
    BY <1>3, <2>2, <2>3, <2>4
<1>5. Shape'
  BY <1>0, <1>2, <1>4 DEF Shape, handleVars
<1>6. Ascending'
  BY <1>0, <1>2, <1>4, ShapeFacts, SMTT(30) DEF Ascending, handleVars
<1>7. Ordered'
  BY <1>0 DEF Ordered, handleVars
<1>8. Offered'
  BY <1>0, <1>1, CommandFacts DEF Offered, handleVars
<1>9. Underway'
  <2>1. \A r \in Records : writer.cmd # Record(r)
    BY <1>0, CommandFacts
  <2> QED
    BY <1>0, <2>1 DEF Underway, OnDisk, handleVars
<1>10. Emptied' /\ Idle'
  BY <1>0, <1>1 DEF Emptied, Idle, handleVars
<1> QED
  BY <1>5, <1>6, <1>7, <1>8, <1>9, <1>10

\* The final flush of the sink.
LEMMA FlushStep ==
    ASSUME AInv, Flush PROVE AInv'
<1> USE DEF AInv
<1>0. /\ UNCHANGED <<handleVars, sink, files, queue, disk, reply, promise>>
      /\ writer.pc = "flush"
      /\ first_error' \in {first_error, TRUE}
  BY DEF Flush
<1>1. /\ writer'.pc = "exited" /\ writer'.cmd = writer.cmd
      /\ writer' \in [pc : {"recv", "io", "flush", "exited"},
                      cmd : Commands \cup {NoCommand}]
  BY DEF Flush, Shape
<1>2. Shape'
  BY <1>0, <1>1 DEF Shape, handleVars
<1>3. Ascending' /\ Ordered'
  BY <1>0 DEF Ascending, Ordered, handleVars
<1>4. Offered'
  BY <1>0, <1>1 DEF Offered, handleVars
<1>5. Underway'
  <2>1. first_error => first_error'
    BY <1>0
  <2> QED
    BY <1>0, <1>1, <2>1 DEF Underway, OnDisk, handleVars
<1>6. Emptied' /\ Idle'
  BY <1>0, <1>1 DEF Emptied, Idle, handleVars
<1> QED
  BY <1>2, <1>3, <1>4, <1>5, <1>6

-----------------------------------------------------------------------------
(***************************************************************************)
(* The theorems.                                                           *)
(***************************************************************************)

\* Every step of the handle, of its callers and of the thread preserves the
\* invariant.
LEMMA AStep == AInv /\ [Next]_vars => AInv'
<1> SUFFICES ASSUME AInv, [Next]_vars PROVE AInv'
  OBVIOUS
<1>1. CASE \E r \in Records : try_record(r)
  BY <1>1, TryRecordStep
<1>2. CASE reopen
  BY <1>2, ReopenStep
<1>3. CASE Calls
  BY <1>3, CallsStep
<1>4. CASE Thread
  BY <1>4, RecvStep, WriteStep, SwapStep, FlushStep DEF Thread
<1>5. CASE UNCHANGED vars
  <2> USE <1>5 DEF vars, handleVars, threadVars, AInv
  <2>1. Shape'
    BY ZenonT(30), SMTT(30) DEF Shape
  <2>2. Ascending' /\ Offered' /\ Ordered'
    BY DEF Ascending, Offered, Ordered
  <2>3. Underway' /\ Emptied' /\ Idle'
    BY DEF Underway, OnDisk, Emptied, Idle
  <2> QED
    BY <2>1, <2>2, <2>3
<1> QED
  BY <1>1, <1>2, <1>3, <1>4, <1>5 DEF Next, Caller, Calls

\* Each line of each file is where its record was promised to be, and after a
\* shutdown that reported success every accepted record has its line.
LEMMA AInvImplies == AInv => ReopenGuarantee /\ FlushedAtShutdown
<1> SUFFICES ASSUME AInv PROVE ReopenGuarantee /\ FlushedAtShutdown
  OBVIOUS
<1>1. \A g \in Generations : DOMAIN files[g] = 1..Len(files[g])
  BY ShapeFacts, SMTT(30) DEF AInv
<1>2. ReopenGuarantee
  BY <1>1, ShapeFacts DEF AInv, Ordered, ReopenGuarantee, Lines
<1>3. ASSUME closing = "Ok", NEW r \in Records, outcome[r] = "Accepted"
      PROVE  Written(r)
  <2>1. queue = <<>> /\ writer.cmd = NoCommand /\ ~first_error
    BY <1>3 DEF AInv, Emptied
  <2>2. OnDisk(r)
    BY <1>3, <2>1, CommandFacts, SMTT(30) DEF AInv, Underway
  <2> QED
    BY <1>1, <2>2 DEF OnDisk, Written, Lines
<1> QED
  BY <1>2, <1>3 DEF FlushedAtShutdown, Accepted

\* For any number of records, reopens and rotations, any capacity, and with
\* reopens that time out and are carried out late: a record offered after a
\* successful reopen is in no older file (AuditWriter::reopen, write_loop).
THEOREM ReopenKept == Spec => []ReopenGuarantee
<1>1. Init => AInv
  BY AInit
<1>2. AInv /\ [Next]_vars => AInv'
  BY AStep
<1>3. AInv => ReopenGuarantee
  BY AInvImplies
<1> QED
  BY <1>1, <1>2, <1>3, PTL DEF Spec

-----------------------------------------------------------------------------
(***************************************************************************)
(* The process.  PInv says, for each place main can be at, what is up, who *)
(* can hold the audit writer, and what the outcome is so far.              *)
(***************************************************************************)
Starting == {"args", "load", "assemble", "bind", "reloader"}
Running == {"serving", "closing", "awaiting", "monitors", "flush"}

PShape ==
    /\ main \in Starting \cup Running \cup Ended
    /\ server \in {"none", "up", "draining", "down"}
    /\ result \in {"none", "asked", "ok", "error"}
    /\ admitting \in BOOLEAN

Phases ==
    /\ main \in Starting => result = "none" /\ code = "none" /\ server = "none"
    /\ main = "serving" => server = "up"
    /\ main \in {"monitors", "flush"} =>
         server = "down" /\ hup = "gone" /\ hangup.pc = "idle"
    /\ main \in {"awaiting", "monitors", "flush"} => ~admitting
    /\ server = "up" => main \in {"serving", "closing"}
    /\ server = "draining" => main = "awaiting"
    /\ server = "down" => result \in {"ok", "error"}

Unheld ==
    /\ closing # "no" => main \in {"flush", "exited"}
    /\ closing \notin {"no", "detached"} => Pumps = {}

PInv == PShape /\ Phases /\ Unheld /\ ExitHonest /\ ConfigFits

\* A step of the process is a step of the audit writer, or none for it.
LEMMA Composed == [LNext]_allVars => [Next]_vars
<1> SUFFICES ASSUME [LNext]_allVars PROVE [Next]_vars
  OBVIOUS
<1>1. CASE Start
  BY <1>1 DEF Start, Parse_args, Load_config, Assemble, StartFails, Bind, Serve, Next
<1>2. ASSUME NEW r \in Records, Begin(r) \/ PumpEnds(r) PROVE [Next]_vars
  BY <1>2 DEF Begin, PumpEnds, Next
<1>3. CASE Audit \/ Hangup \/ HangupReturns
  BY <1>3 DEF Audit, Hangup, HangupReturns, Next, Caller
<1>4. CASE Shutdown \/ ServerDies
  BY <1>4 DEF Shutdown, ServerDies
<1>5. CASE Main
  BY <1>5 DEF Main, MainUnblocked, CloseAndStop, Drained, StopHangup, StopMonitors,
              Flush_at_shutdown, FlushReturns, Exit, Next, Caller
<1>6. CASE UNCHANGED allVars
  BY <1>6 DEF allVars
<1> QED
  BY <1>1, <1>2, <1>3, <1>4, <1>5, <1>6 DEF LNext

\* Of the writer's variables, main's invariant looks at the SIGHUP task's wait
\* and at the shutdown only.
LEMMA PInit == LInit => PInv
<1> SUFFICES ASSUME LInit PROVE PInv
  OBVIOUS
<1> QED
  BY DEF LInit, Init, PInv, PShape, Phases, Unheld, ExitHonest, ConfigFits,
         Starting, Running, Ended, Pumps

\* The start: nothing is up yet, and a file that was loaded is valid.
LEMMA StartStep ==
    ASSUME PInv, Start PROVE PInv'
<1> USE DEF PInv
<1>1. /\ main \in Starting /\ result = "none" /\ code = "none" /\ server = "none"
      /\ closing = "no"
  BY DEF Start, Parse_args, Load_config, Assemble, StartFails, Bind, Serve, Starting,
         Phases, Unheld
<1>2. ASSUME NEW how, NEW why, Quit(how, why), <<how, why>> \in {<<"success", "asked">>,
                 <<"usage", "none">>, <<"failure", "none">>},
             closing' \in {"no", "detached"}
      PROVE  PInv'
  BY <1>1, <1>2, SMTT(30) DEF Quit, Unstarted, PShape, Phases, Unheld, ExitHonest, ConfigFits,
                    Starting, Running, Ended, Pumps
<1>3. CASE Parse_args
  <2>1. CASE main' = "load" /\ UNCHANGED <<startVars, Unstarted, vars>>
    BY <1>1, <2>1 DEF startVars, Unstarted, vars, handleVars, PShape, Phases, Unheld,
                      ExitHonest, ConfigFits, Starting, Running, Ended, Pumps
  <2>2. CASE Quit("success", "asked") /\ UNCHANGED vars
    BY <1>1, <1>2, <2>2 DEF vars, handleVars
  <2>3. CASE Quit("usage", "none") /\ UNCHANGED vars
    BY <1>1, <1>2, <2>3 DEF vars, handleVars
  <2> QED
    BY <1>3, <2>1, <2>2, <2>3 DEF Parse_args
<1>4. CASE Load_config
  <2>1. PICK euid \in {"root", "orihsus"}, file \in ConfigFiles :
           IF load_config(file, euid) = "ok"
             THEN /\ main' = "assemble" /\ config' = try_from(file.raw)
                  /\ UNCHANGED <<result, code, Unstarted>>
             ELSE Quit("failure", "none")
    BY <1>4 DEF Load_config
  <2>2. UNCHANGED vars
    BY <1>4 DEF Load_config
  <2>3. CASE load_config(file, euid) = "ok"
    <3>1. file.parses /\ Valid(file.raw)
      BY <2>3 DEF load_config, load, open_config
    <3>2. /\ Assembled(config') = IF ChannelDemands(config') THEN "ok" ELSE "panic"
          /\ HeaderDemands(config')
      BY <2>1, <2>3, <3>1, ValidFits, RawIsTyped
    <3> QED
      BY <1>1, <2>1, <2>2, <2>3, <3>2
         DEF Unstarted, vars, handleVars, PShape, Phases, Unheld, ExitHonest, ConfigFits,
             Starting, Running, Ended, Pumps
  <2>4. CASE load_config(file, euid) # "ok"
    BY <1>1, <1>2, <2>1, <2>2, <2>4 DEF vars, handleVars
  <2> QED
    BY <2>3, <2>4
<1>5. CASE Assemble
  <2>1. /\ main = "assemble" /\ HeaderDemands(config)
        /\ Assembled(config) = IF ChannelDemands(config) THEN "ok" ELSE "panic"
    BY <1>5 DEF Assemble, ConfigFits
  <2>2. /\ main' = IF ChannelDemands(config) THEN "bind" ELSE "panicked"
        /\ code' = code /\ UNCHANGED <<vars, config, result, Unstarted>>
    BY <1>5, <2>1 DEF Assemble
  <2> QED
    BY <1>1, <2>1, <2>2
       DEF Unstarted, vars, handleVars, PShape, Phases, Unheld, ExitHonest, ConfigFits,
           Starting, Running, Ended, Pumps
<1>6. CASE StartFails
  <2>1. closing' \in {"no", "detached"} /\ Quit("failure", "none")
    BY <1>1, <1>6 DEF StartFails, Drop, vars, handleVars
  <2> QED
    BY <1>2, <2>1
<1>7. CASE Bind
  BY <1>1, <1>7 DEF Bind, startVars, Unstarted, vars, handleVars, PShape, Phases, Unheld,
                    ExitHonest, ConfigFits, Starting, Running, Ended, Pumps
<1>8. CASE Serve
  BY <1>1, <1>8 DEF Serve, vars, handleVars, PShape, Phases, Unheld,
                    ExitHonest, ConfigFits, Starting, Running, Ended, Pumps
<1> QED
  BY <1>3, <1>4, <1>5, <1>6, <1>7, <1>8 DEF Start

\* Requests, the writer and the SIGHUP task: main stays where it is, and no
\* stream begins once the server is told to stop.
LEMMA WorkStep ==
    ASSUME AInv, PInv,
           (\E r \in Records : Begin(r) \/ PumpEnds(r)) \/ Audit \/ Hangup \/ HangupReturns
    PROVE  PInv'
<1> USE DEF PInv
<1>1. Alive /\ UNCHANGED <<main, startVars, admitting, server, hup>>
  BY DEF Begin, PumpEnds, Audit, Hangup, HangupReturns, procVars
<1>2. UNCHANGED closing
  BY DEF Begin, PumpEnds, Audit, Hangup, HangupReturns, vars, handleVars, try_record,
         Thread, Recv, Write, WriteFails, OpenAndSwap, OpenFails, Flush, Rotate, reopen,
         ReopenReplied, ReopenTimeout
<1>3. PShape' /\ ExitHonest' /\ ConfigFits'
  BY <1>1 DEF PShape, ExitHonest, ConfigFits, startVars, Alive, Ended
<1>4. Phases'
  <2>1. main \in {"monitors", "flush"} => hangup'.pc = "idle"
    BY <1>1 DEF Phases, Begin, PumpEnds, Audit, Hangup, HangupReturns, vars, handleVars,
           try_record, Thread, Recv, Write, WriteFails, OpenAndSwap, OpenFails, Flush, Rotate,
           ReopenReplied, ReopenTimeout
  <2> QED
    BY <1>1, <2>1 DEF Phases, startVars
<1>5. Unheld'
  <2>1. closing \notin {"no", "detached"} => Pumps' = {}
    <3>1. CASE \E r \in Records : Begin(r)
      BY <1>1, <3>1 DEF Begin, Phases, Unheld
    <3>2. CASE \E r \in Records : PumpEnds(r)
      BY <3>2 DEF PumpEnds, Unheld, Pumps
    <3>3. CASE Audit \/ Hangup \/ HangupReturns
      BY <3>3 DEF Audit, Hangup, HangupReturns, procVars, Unheld, Pumps
    <3> QED
      BY <3>1, <3>2, <3>3
  <2> QED
    BY <1>1, <1>2, <2>1 DEF Unheld
<1> QED
  BY <1>3, <1>4, <1>5

\* The stop: each step of main leaves behind what the next relies on.
LEMMA StopStep ==
    ASSUME AInv, PInv, Shutdown \/ ServerDies \/ Main PROVE PInv'
<1> USE DEF PInv, Starting, Running, Ended
<1>1. CASE Shutdown
  BY <1>1 DEF Shutdown, vars, handleVars, startVars, PShape, Phases, Unheld, ExitHonest,
              ConfigFits, Pumps
<1>2. CASE ServerDies
  <2>1. closing = "no" /\ UNCHANGED closing
    BY <1>2 DEF ServerDies, vars, handleVars, Unheld
  <2> QED
    BY <1>2, <2>1 DEF ServerDies, vars, handleVars, PShape, Phases, Unheld, ExitHonest,
                      ConfigFits
<1>3. CASE CloseAndStop
  BY <1>3 DEF CloseAndStop, vars, handleVars, startVars, PShape, Phases, Unheld, ExitHonest,
              ConfigFits, Pumps
<1>4. CASE Drained
  <2>1. main = "awaiting" /\ closing = "no" /\ UNCHANGED closing
    BY <1>4 DEF Drained, vars, handleVars, Phases, Unheld
  <2> QED
    BY <1>4, <2>1 DEF Drained, vars, handleVars, PShape, Phases, Unheld, ExitHonest, ConfigFits
<1>5. CASE StopHangup
  <2>1. hangup'.pc = "idle" /\ UNCHANGED closing
    BY <1>5 DEF StopHangup, ReopenAborted, AInv, Shape, HangupTask
  <2> QED
    BY <1>5, <2>1 DEF StopHangup, startVars, PShape, Phases, Unheld, ExitHonest, ConfigFits,
                      Pumps
<1>6. CASE StopMonitors
  BY <1>6
     DEF StopMonitors, vars, handleVars, startVars, PShape, Phases, Unheld, ExitHonest,
              ConfigFits, Pumps
<1>7. CASE Flush_at_shutdown
  BY <1>7
     DEF Flush_at_shutdown, shutdown_bounded, Unreferenced, procVars, startVars, PShape,
              Phases, Unheld, ExitHonest, ConfigFits, Pumps
<1>8. CASE FlushReturns
  BY <1>8 DEF FlushReturns, Joined, ShutdownTimeout, procVars, startVars, PShape, Phases,
              Unheld, ExitHonest, ConfigFits, Pumps
<1>9. CASE Exit
  <2>1. /\ main = "flush" /\ server = "down" /\ hup = "gone" /\ ~admitting
        /\ result \in {"ok", "error"}
        /\ closing = "no" => Pumps # {}
    BY <1>9 DEF Exit, FlushSkipped, Flushed, Unreferenced, Phases
  <2> QED
    BY <1>9, <2>1, SMTT(30)
       DEF Exit, vars, handleVars, PShape, Phases, Unheld, ExitHonest, ConfigFits, Pumps
<1> QED
  BY <1>1, <1>2, <1>3, <1>4, <1>5, <1>6, <1>7, <1>8, <1>9 DEF Main, MainUnblocked

\* Both invariants are preserved by every step of the process.
LEMMA LStep == AInv /\ PInv /\ [LNext]_allVars => AInv' /\ PInv'
<1> SUFFICES ASSUME AInv, PInv, [LNext]_allVars PROVE AInv' /\ PInv'
  OBVIOUS
<1>1. AInv'
  BY Composed, AStep
<1>2. CASE UNCHANGED allVars
  <2>1. PInv'
    BY <1>2 DEF allVars, procVars, startVars, vars, handleVars, PInv, PShape, Phases, Unheld,
                ExitHonest, ConfigFits, Pumps
  <2> QED
    BY <1>1, <2>1
<1>3. CASE LNext
  BY <1>1, <1>3, StartStep, WorkStep, StopStep DEF LNext
<1> QED
  BY <1>2, <1>3

-----------------------------------------------------------------------------
\* From here on sets are counted.
INSTANCE FiniteSetTheorems

(***************************************************************************)
(* No record is lost in silence.  Once: a record is in one place and never *)
(* in two.  Known: whatever is somewhere was accepted.  Counted: the       *)
(* accepted records that are nowhere are no more than the failures.        *)
(***************************************************************************)
Queued(r) == \E i \in 1..Len(queue) : queue[i] = Record(r)
InHand(r) == writer.cmd = Record(r)
Filed(r) == \E g \in Generations : \E i \in 1..Len(files[g]) : files[g][i].rec = r
Placed(r) == Queued(r) \/ InHand(r) \/ Filed(r)
Mislaid == {r \in Records : outcome[r] = "Accepted" /\ ~Placed(r)}

QueuedOnce ==
    \A r \in Records : \A i, j \in 1..Len(queue) :
        queue[i] = Record(r) /\ queue[j] = Record(r) => i = j

FiledOnce ==
    \A g, h \in Generations : \A i \in 1..Len(files[g]), j \in 1..Len(files[h]) :
        files[g][i].rec = files[h][j].rec => g = h /\ i = j

Apart ==
    \A r \in Records : /\ ~(Queued(r) /\ InHand(r))
                       /\ ~(Queued(r) /\ Filed(r))
                       /\ ~(InHand(r) /\ Filed(r))

Known == \A r \in Records : Placed(r) => outcome[r] = "Accepted"

Counted ==
    /\ write_failures \in Nat
    /\ IsFiniteSet(Mislaid) /\ Cardinality(Mislaid) <= write_failures

Bounded == Len(queue) <= Capacity /\ (writer.pc = "io" => writer.cmd # NoCommand)

Account == Bounded /\ QueuedOnce /\ FiledOnce /\ Apart /\ Known /\ Counted

\* No more records are lost, whether or not another failure is counted.
LEMMA CountedStays ==
    ASSUME Counted, Mislaid' \subseteq Mislaid,
           write_failures' \in {write_failures, write_failures + 1}
    PROVE  Counted'
<1>1. /\ IsFiniteSet(Mislaid') /\ Cardinality(Mislaid') \in Nat
      /\ Cardinality(Mislaid) \in Nat /\ Cardinality(Mislaid') <= Cardinality(Mislaid)
  BY FS_Subset, FS_CardinalityType DEF Counted
<1> QED
  BY <1>1, SMTT(30) DEF Counted

\* One record is lost to a failure that is counted.
LEMMA CountedGrows ==
    ASSUME Counted, NEW r, Mislaid' \subseteq Mislaid \cup {r},
           write_failures' = write_failures + 1
    PROVE  Counted'
<1>1. /\ IsFiniteSet(Mislaid \cup {r}) /\ Cardinality(Mislaid) \in Nat
      /\ Cardinality(Mislaid \cup {r}) \in {Cardinality(Mislaid), Cardinality(Mislaid) + 1}
  BY FS_AddElement, FS_CardinalityType DEF Counted
<1>2. /\ IsFiniteSet(Mislaid') /\ Cardinality(Mislaid') \in Nat
      /\ Cardinality(Mislaid') <= Cardinality(Mislaid \cup {r})
  BY <1>1, FS_Subset, FS_CardinalityType
<1> QED
  BY <1>1, <1>2, SMTT(30) DEF Counted

\* At the start there is no record anywhere.
LEMMA AccountInit == Init => Account
<1> SUFFICES ASSUME Init PROVE Account
  OBVIOUS
<1>1. /\ Len(queue) = 0 /\ \A g \in Generations : Len(files[g]) = 0
      /\ writer.cmd = NoCommand /\ writer.pc = "recv" /\ write_failures = 0
      /\ \A r \in Records : outcome[r] = "none"
  BY DEF Init
<1>2. \A r \in Records : ~Queued(r) /\ ~InHand(r) /\ ~Filed(r)
  BY <1>1, CommandFacts, SMTT(30) DEF Queued, InHand, Filed
<1>3. Mislaid = {}
  BY <1>1 DEF Mislaid
<1>4. Counted
  BY <1>1, <1>3, FS_EmptySet, SMTT(30) DEF Counted
<1>5. QueuedOnce /\ FiledOnce
  BY <1>1, SMTT(30) DEF QueuedOnce, FiledOnce
<1>6. Apart /\ Known /\ Bounded
  BY <1>1, <1>2, AuditConstants, SMTT(30) DEF Apart, Known, Placed, Bounded
<1> QED
  BY <1>4, <1>5, <1>6 DEF Account

\* A step that moves no record: those queued, in hand and in the files are the
\* same, each as often as before, and no outcome changes.
LEMMA NothingMoved ==
    ASSUME Account, UNCHANGED <<outcome, files>>,
           \A r \in Records : InHand(r)' <=> InHand(r),
           \A r \in Records : Queued(r)' <=> Queued(r),
           QueuedOnce', Bounded',
           write_failures' \in {write_failures, write_failures + 1}
    PROVE  Account'
<1>1. \A r \in Records : (Filed(r)' <=> Filed(r)) /\ (Placed(r)' <=> Placed(r))
  BY DEF Filed, Placed
<1>2. Mislaid' \subseteq Mislaid
  BY <1>1 DEF Mislaid
<1>3. Counted'
  BY <1>2, CountedStays DEF Account
<1>4. FiledOnce'
  BY SMTT(30) DEF Account, FiledOnce
<1>5. Apart' /\ Known'
  BY <1>1 DEF Account, Apart, Known
<1> QED
  BY <1>3, <1>4, <1>5 DEF Account

\* try_record: a record that was nowhere is queued, or refused and nowhere.
LEMMA TryRecordAccount ==
    ASSUME AInv, Account, NEW r \in Records, try_record(r) PROVE Account'
<1>0. UNCHANGED <<writer, files, write_failures>> /\ outcome[r] = "none"
  BY DEF try_record, threadVars
<1>1. ~Queued(r) /\ ~InHand(r) /\ ~Filed(r)
  BY <1>0 DEF Account, Known, Placed
<1>2. /\ queue \in Seq(Commands) /\ Len(queue) \in Nat
      /\ outcome \in [Records -> {"none", "Accepted", "Dropped"}]
  BY ShapeFacts DEF AInv, Shape
<1>3. \A q \in Records : (InHand(q)' <=> InHand(q)) /\ (Filed(q)' <=> Filed(q))
  BY <1>0 DEF InHand, Filed
<1>4. FiledOnce'
  BY <1>0, SMTT(30) DEF Account, FiledOnce
<1>5. CASE Room
  <2>1. /\ queue' = Append(queue, Record(r))
        /\ outcome' = [outcome EXCEPT ![r] = "Accepted"]
    BY <1>5 DEF try_record
  <2>2. /\ Len(queue') = Len(queue) + 1
        /\ \A i \in 1..Len(queue) : queue'[i] = queue[i]
        /\ queue'[Len(queue) + 1] = Record(r)
    BY <1>2, <2>1, CommandFacts, AppendFacts, SMTT(30)
  <2>3. \A q \in Records : Queued(q)' <=> Queued(q) \/ q = r
    BY <1>2, <2>2, CommandFacts, SMTT(30) DEF Queued
  <2>4. QueuedOnce'
    <3> SUFFICES ASSUME NEW q \in Records, NEW i \in 1..Len(queue'), NEW j \in 1..Len(queue'),
                        queue'[i] = Record(q), queue'[j] = Record(q)
                 PROVE  i = j
      BY DEF QueuedOnce
    <3>1. \A n \in 1..Len(queue') : n \in 1..Len(queue) \/ n = Len(queue) + 1
      BY <1>2, <2>2, SMTT(30)
    <3>2. CASE q = r
      BY <1>1, <2>2, <3>1, <3>2 DEF Queued
    <3>3. CASE q # r
      BY <2>2, <3>1, <3>3, CommandFacts, SMTT(30) DEF Account, QueuedOnce
    <3> QED
      BY <3>2, <3>3
  <2>5. /\ outcome'[r] = "Accepted"
        /\ \A q \in Records : q # r => outcome'[q] = outcome[q]
    BY <1>2, <2>1
  <2>6. Apart' /\ Known'
    BY <1>1, <1>3, <2>3, <2>5 DEF Account, Apart, Known, Placed
  <2>7. Mislaid' \subseteq Mislaid
    BY <1>3, <2>3, <2>5 DEF Mislaid, Placed
  <2>8. Counted'
    BY <1>0, <2>7, CountedStays DEF Account
  <2>9. Bounded'
    BY <1>0, <1>2, <1>5, <2>2, AuditConstants, SMTT(30) DEF Account, Bounded, Room
  <2> QED
    BY <1>4, <2>4, <2>6, <2>8, <2>9 DEF Account
<1>6. CASE ~Room
  <2>1. queue' = queue /\ outcome' = [outcome EXCEPT ![r] = "Dropped"]
    BY <1>6 DEF try_record
  <2>2. /\ outcome'[r] = "Dropped"
        /\ \A q \in Records : q # r => outcome'[q] = outcome[q]
    BY <1>2, <2>1
  <2>3. \A q \in Records : Queued(q)' <=> Queued(q)
    BY <2>1 DEF Queued
  <2>4. Apart' /\ Known'
    BY <1>1, <1>3, <2>2, <2>3 DEF Account, Apart, Known, Placed
  <2>5. Mislaid' \subseteq Mislaid
    BY <1>3, <2>2, <2>3 DEF Mislaid, Placed
  <2>6. Counted'
    BY <1>0, <2>5, CountedStays DEF Account
  <2>7. Bounded' /\ QueuedOnce'
    BY <1>0, <2>1 DEF Account, Bounded, QueuedOnce
  <2> QED
    BY <1>4, <2>4, <2>6, <2>7 DEF Account
<1> QED
  BY <1>5, <1>6

\* A reopen is no record, in the channel or refused.
LEMMA ReopenAccount == ASSUME AInv, Account, reopen PROVE Account'
<1>0. UNCHANGED <<outcome, writer, files, write_failures>>
  BY DEF reopen, threadVars
<1>1. queue \in Seq(Commands) /\ Len(queue) \in Nat
  BY ShapeFacts DEF AInv, Shape
<1>2. \A r \in Records : InHand(r)' <=> InHand(r)
  BY <1>0 DEF InHand
<1>3. CASE Room
  <2>1. hangup.call + 1 \in 1..MaxReopens
    BY AuditConstants, SMTT(30) DEF reopen, AInv, Shape, HangupTask
  <2>2. /\ queue' = Append(queue, Reopen(hangup.call + 1))
        /\ Reopen(hangup.call + 1) \in Commands
        /\ \A r \in Records : Reopen(hangup.call + 1) # Record(r)
    BY <1>3, <2>1, CommandFacts DEF reopen
  <2>3. /\ Len(queue') = Len(queue) + 1
        /\ \A i \in 1..Len(queue) : queue'[i] = queue[i]
        /\ \A r \in Records : queue'[Len(queue) + 1] # Record(r)
    BY <1>1, <2>2, AppendFacts, SMTT(30)
  <2>4. \A n \in 1..Len(queue') : n \in 1..Len(queue) \/ n = Len(queue) + 1
    BY <1>1, <2>3, SMTT(30)
  <2>5. \A n \in 1..Len(queue) : n \in 1..Len(queue')
    BY <1>1, <2>3, SMTT(30)
  <2>6. \A r \in Records : Queued(r)' <=> Queued(r)
    BY <2>3, <2>4, <2>5 DEF Queued
  <2>7. QueuedOnce'
    BY <2>3, <2>4 DEF Account, QueuedOnce
  <2>8. Bounded'
    BY <1>0, <1>1, <1>3, <2>3, AuditConstants, SMTT(30) DEF Account, Bounded, Room
  <2> QED
    BY <1>0, <1>2, <2>6, <2>7, <2>8, NothingMoved
<1>4. CASE ~Room
  <2>1. queue' = queue
    BY <1>4 DEF reopen
  <2>2. \A r \in Records : Queued(r)' <=> Queued(r)
    BY <2>1 DEF Queued
  <2>3. QueuedOnce' /\ Bounded'
    BY <1>0, <2>1 DEF Account, QueuedOnce, Bounded
  <2> QED
    BY <1>0, <1>2, <2>2, <2>3, NothingMoved
<1> QED
  BY <1>3, <1>4

\* recv: the first command changes hands.
LEMMA RecvAccount == ASSUME AInv, Account, Recv PROVE Account'
<1>0. UNCHANGED <<outcome, files, write_failures>>
  BY DEF Recv, handleVars
<1>1. writer.cmd = NoCommand /\ \A r \in Records : ~InHand(r)
  BY CommandFacts DEF Recv, AInv, Idle, InHand
<1>2. queue \in Seq(Commands)
  BY DEF AInv, Shape
<1>3. CASE queue # <<>>
  <2>1. writer' = [pc |-> "io", cmd |-> Head(queue)] /\ queue' = Tail(queue)
    BY <1>3 DEF Recv
  <2>2. /\ Head(queue) \in Commands
        /\ Head(queue) = queue[1] /\ Len(queue) \in Nat /\ Len(queue) >= 1
        /\ Len(queue') = Len(queue) - 1
        /\ \A i \in 1..Len(queue') : queue'[i] = queue[i + 1]
    BY <1>2, <1>3, <2>1, TailFacts
  <2>3. writer'.pc = "io" /\ writer'.cmd = queue[1] /\ writer'.cmd # NoCommand
    BY <2>1, <2>2, CommandFacts
  <2>4. /\ \A i \in 1..Len(queue') : i + 1 \in 1..Len(queue) /\ i + 1 # 1
        /\ \A i \in 1..Len(queue) : i # 1 => i - 1 \in 1..Len(queue') /\ (i - 1) + 1 = i
        /\ 1 \in 1..Len(queue)
    BY <2>2, SMTT(30)
  <2>5. \A r \in Records : /\ InHand(r)' <=> queue[1] = Record(r)
                           /\ Filed(r)' <=> Filed(r)
    BY <1>0, <2>3 DEF InHand, Filed
  <2>6. \A r \in Records : Queued(r)' <=> Queued(r) /\ queue[1] # Record(r)
    <3> SUFFICES ASSUME NEW r \in Records
                 PROVE  Queued(r)' <=> Queued(r) /\ queue[1] # Record(r)
      OBVIOUS
    <3>1. ASSUME Queued(r)' PROVE Queued(r) /\ queue[1] # Record(r)
      <4>1. PICK i \in 1..Len(queue') : queue'[i] = Record(r)
        BY <3>1 DEF Queued
      <4>2. i + 1 \in 1..Len(queue) /\ queue[i + 1] = Record(r) /\ i + 1 # 1
        BY <2>2, <2>4, <4>1
      <4> QED
        BY <2>4, <4>2 DEF Queued, Account, QueuedOnce
    <3>2. ASSUME Queued(r), queue[1] # Record(r) PROVE Queued(r)'
      <4>1. PICK i \in 1..Len(queue) : queue[i] = Record(r)
        BY <3>2 DEF Queued
      <4>2. i - 1 \in 1..Len(queue') /\ queue'[i - 1] = queue[i]
        BY <2>2, <2>4, <3>2, <4>1
      <4> QED
        BY <4>1, <4>2 DEF Queued
    <3> QED
      BY <3>1, <3>2
  <2>7. \A r \in Records : queue[1] = Record(r) => Queued(r)
    BY <2>4 DEF Queued
  <2>8. \A r \in Records : Placed(r)' <=> Placed(r)
    BY <1>1, <2>5, <2>6, <2>7 DEF Placed
  <2>9. QueuedOnce'
    <3> SUFFICES ASSUME NEW r \in Records, NEW i \in 1..Len(queue'), NEW j \in 1..Len(queue'),
                        queue'[i] = Record(r), queue'[j] = Record(r)
                 PROVE  i = j
      BY DEF QueuedOnce
    <3>1. i + 1 = j + 1
      BY <2>2, <2>4, SMTT(30) DEF Account, QueuedOnce
    <3> QED
      BY <2>2, <3>1, SMTT(30)
  <2>10. FiledOnce'
    BY <1>0, SMTT(30) DEF Account, FiledOnce
  <2>11. Apart' /\ Known'
    BY <1>0, <2>5, <2>6, <2>7, <2>8 DEF Account, Apart, Known
  <2>12. Counted'
    <3>1. Mislaid' \subseteq Mislaid
      BY <1>0, <2>8 DEF Mislaid
    <3> QED
      BY <1>0, <3>1, CountedStays DEF Account
  <2>13. Bounded'
    BY <2>2, <2>3, AuditConstants, SMTT(30) DEF Account, Bounded
  <2> QED
    BY <2>9, <2>10, <2>11, <2>12, <2>13 DEF Account
<1>4. CASE queue = <<>>
  <2>1. queue' = queue /\ writer'.pc = "flush" /\ writer'.cmd = NoCommand
    BY <1>4, SMTT(30) DEF Recv
  <2>2. \A r \in Records : (Queued(r)' <=> Queued(r)) /\ (InHand(r)' <=> InHand(r))
    BY <1>1, <2>1 DEF Queued, InHand
  <2>3. QueuedOnce' /\ Bounded'
    BY <2>1 DEF Account, QueuedOnce, Bounded
  <2> QED
    BY <1>0, <2>2, <2>3, NothingMoved
<1> QED
  BY <1>3, <1>4

\* The record in hand goes into a line of one file, or is lost and counted.
LEMMA WriteAccount == ASSUME AInv, Account, Write \/ WriteFails PROVE Account'
<1>0. /\ UNCHANGED <<outcome, queue, sink>>
      /\ writer' = [pc |-> "recv", cmd |-> NoCommand]
      /\ writer.pc = "io" /\ writer.cmd.kind = "Record"
      /\ writer.cmd \in Commands \cup {NoCommand}
  BY DEF Write, WriteFails, Next_command, Doing, handleVars, AInv, Shape
<1>1. PICK r \in Records : writer.cmd = Record(r)
  BY <1>0, CommandFacts
<1>2. /\ writer'.pc = "recv" /\ writer'.cmd = NoCommand
      /\ writer.cmd.rec = r /\ sink \in Generations
  BY <1>0, <1>1, CommandFacts, ShapeFacts DEF AInv
<1>3. /\ InHand(r) /\ ~Queued(r) /\ ~Filed(r) /\ outcome[r] = "Accepted"
      /\ \A q \in Records : InHand(q) <=> q = r
      /\ \A q \in Records : ~InHand(q)'
  BY <1>1, <1>2, CommandFacts DEF Account, Apart, Known, Placed, InHand
<1>4. \A q \in Records : Queued(q)' <=> Queued(q)
  BY <1>0 DEF Queued
<1>5. QueuedOnce' /\ Bounded'
  BY <1>0, <1>2, ZenonT(30), SMTT(30) DEF Account, QueuedOnce, Bounded
<1>6. CASE files' = files /\ write_failures' = write_failures + 1
  <2>1. \A q \in Records : Filed(q)' <=> Filed(q)
    BY <1>6 DEF Filed
  <2>2. FiledOnce'
    BY <1>6, SMTT(30) DEF Account, FiledOnce
  <2>3. Apart' /\ Known'
    BY <1>0, <1>3, <1>4, <2>1 DEF Account, Apart, Known, Placed
  <2>4. Mislaid' \subseteq Mislaid \cup {r}
    BY <1>0, <1>3, <1>4, <2>1 DEF Mislaid, Placed
  <2>5. Counted'
    BY <1>6, <2>4, CountedGrows DEF Account
  <2> QED
    BY <1>5, <2>2, <2>3, <2>5 DEF Account
<1>7. ASSUME NEW whole \in BOOLEAN,
             files' = [files EXCEPT ![sink] = Append(files[sink], Line(r, whole))],
             write_failures' \in {write_failures, write_failures + 1}
      PROVE  Account'
  <2>1. files[sink] \in Seq([rec : Records, whole : BOOLEAN]) /\ Len(files[sink]) \in Nat
    BY <1>2, ShapeFacts DEF AInv
  <2>2. Line(r, whole) \in [rec : Records, whole : BOOLEAN] /\ Line(r, whole).rec = r
    BY DEF Line
  <2>3. /\ files'[sink] = Append(files[sink], Line(r, whole))
        /\ \A g \in Generations : g # sink => files'[g] = files[g]
    BY <1>2, <1>7 DEF AInv, Shape
  <2>4. /\ Len(files'[sink]) = Len(files[sink]) + 1
        /\ \A i \in 1..Len(files[sink]) : files'[sink][i] = files[sink][i]
        /\ files'[sink][Len(files[sink]) + 1].rec = r
    BY <2>1, <2>2, <2>3, AppendFacts, SMTT(30)
  <2>5. \A g \in Generations : \A i \in 1..Len(files'[g]) :
           \/ i \in 1..Len(files[g]) /\ files'[g][i] = files[g][i]
           \/ g = sink /\ i = Len(files[sink]) + 1 /\ files'[g][i].rec = r
    <3> SUFFICES ASSUME NEW g \in Generations, NEW i \in 1..Len(files'[g])
                 PROVE  \/ i \in 1..Len(files[g]) /\ files'[g][i] = files[g][i]
                        \/ g = sink /\ i = Len(files[sink]) + 1 /\ files'[g][i].rec = r
      OBVIOUS
    <3>1. CASE g = sink
      <4>1. i \in 1..Len(files[sink]) \/ i = Len(files[sink]) + 1
        BY <2>1, <2>4, <3>1, SMTT(30)
      <4> QED
        BY <2>4, <3>1, <4>1
    <3>2. CASE g # sink
      BY <2>3, <3>2
    <3> QED
      BY <3>1, <3>2
  <2>6. \A g \in Generations : \A i \in 1..Len(files[g]) :
           i \in 1..Len(files'[g]) /\ files'[g][i] = files[g][i]
    <3> SUFFICES ASSUME NEW g \in Generations, NEW i \in 1..Len(files[g])
                 PROVE  i \in 1..Len(files'[g]) /\ files'[g][i] = files[g][i]
      OBVIOUS
    <3>1. CASE g = sink
      <4>1. i \in 1..Len(files'[sink])
        BY <2>1, <2>4, <3>1, SMTT(30)
      <4> QED
        BY <2>4, <3>1, <4>1
    <3>2. CASE g # sink
      BY <2>3, <3>2
    <3> QED
      BY <3>1, <3>2
  <2>7. \A g \in Generations : \A i \in 1..Len(files[g]) : files[g][i].rec # r
    BY <1>3 DEF Filed
  <2>8. FiledOnce'
    <3> SUFFICES ASSUME NEW g \in Generations, NEW h \in Generations,
                        NEW i \in 1..Len(files'[g]), NEW j \in 1..Len(files'[h]),
                        files'[g][i].rec = files'[h][j].rec
                 PROVE  g = h /\ i = j
      BY DEF FiledOnce
    <3>1. CASE i \in 1..Len(files[g]) /\ files'[g][i] = files[g][i]
      BY <2>5, <2>7, <3>1, SMTT(30) DEF Account, FiledOnce
    <3>2. CASE g = sink /\ i = Len(files[sink]) + 1 /\ files'[g][i].rec = r
      BY <2>5, <2>7, <3>2, SMTT(30)
    <3> QED
      BY <2>5, <3>1, <3>2
  <2>9. \A q \in Records : Filed(q)' <=> Filed(q) \/ q = r
    <3> SUFFICES ASSUME NEW q \in Records PROVE Filed(q)' <=> Filed(q) \/ q = r
      OBVIOUS
    <3>1. Filed(q)' => Filed(q) \/ q = r
      BY <2>5 DEF Filed
    <3>2. Filed(q) => Filed(q)'
      BY <2>6 DEF Filed
    <3>3. Filed(r)'
      <4>1. Len(files[sink]) + 1 \in 1..Len(files'[sink])
        BY <2>1, <2>4, SMTT(30)
      <4> QED
        BY <1>2, <2>4, <4>1 DEF Filed
    <3> QED
      BY <3>1, <3>2, <3>3
  <2>10. Apart' /\ Known'
    BY <1>0, <1>3, <1>4, <2>9 DEF Account, Apart, Known, Placed
  <2>11. Mislaid' \subseteq Mislaid
    BY <1>0, <1>3, <1>4, <2>9 DEF Mislaid, Placed
  <2>12. Counted'
    BY <1>7, <2>11, CountedStays DEF Account
  <2> QED
    BY <1>5, <2>8, <2>10, <2>12 DEF Account
<1>8. \/ files' = files /\ write_failures' = write_failures + 1
      \/ \E whole \in BOOLEAN :
           /\ files' = [files EXCEPT ![sink] = Append(files[sink], Line(r, whole))]
           /\ write_failures' \in {write_failures, write_failures + 1}
  BY <1>2 DEF Write, WriteFails
<1> QED
  BY <1>6, <1>7, <1>8

\* A reopen that is carried out or fails, the final flush, and the calls touch
\* no record.
LEMMA OthersAccount ==
    ASSUME AInv, Account, Calls \/ OpenAndSwap \/ OpenFails \/ Flush PROVE Account'
<1>0. /\ UNCHANGED <<outcome, files, queue>>
      /\ write_failures' \in {write_failures, write_failures + 1}
  BY DEF Calls, ReopenReplied, ReopenTimeout, ReopenAborted, shutdown_bounded, Joined,
         ShutdownTimeout, Drop, Rotate, OpenAndSwap, OpenFails, Flush, handleVars, threadVars
<1>1. \A r \in Records : Queued(r)' <=> Queued(r)
  BY <1>0 DEF Queued
<1>2. CASE Calls
  <2>1. writer' = writer
    BY <1>2 DEF Calls, ReopenReplied, ReopenTimeout, ReopenAborted, shutdown_bounded, Joined,
         ShutdownTimeout, Drop, Rotate, threadVars
  <2>2. \A r \in Records : InHand(r)' <=> InHand(r)
    BY <2>1 DEF InHand
  <2>3. QueuedOnce' /\ Bounded'
    BY <1>0, <2>1 DEF Account, QueuedOnce, Bounded
  <2> QED
    BY <1>0, <1>1, <2>2, <2>3, NothingMoved
<1>3. CASE OpenAndSwap \/ OpenFails
  <2>1. writer' = [pc |-> "recv", cmd |-> NoCommand] /\ writer.cmd.kind = "Reopen"
    BY <1>3 DEF OpenAndSwap, OpenFails, Next_command, Doing
  <2>2. \A r \in Records : InHand(r)' <=> InHand(r)
    BY <2>1, CommandFacts DEF InHand
  <2>3. QueuedOnce' /\ Bounded'
    BY <1>0, <2>1 DEF Account, QueuedOnce, Bounded
  <2> QED
    BY <1>0, <1>1, <2>2, <2>3, NothingMoved
<1>4. CASE Flush
  <2>1. writer'.pc = "exited" /\ writer'.cmd = writer.cmd
    BY <1>4 DEF Flush, AInv, Shape
  <2>2. \A r \in Records : InHand(r)' <=> InHand(r)
    BY <2>1 DEF InHand
  <2>3. QueuedOnce' /\ Bounded'
    BY <1>0, <2>1 DEF Account, QueuedOnce, Bounded
  <2> QED
    BY <1>0, <1>1, <2>2, <2>3, NothingMoved
<1> QED
  BY <1>2, <1>3, <1>4

\* Every step keeps account of the records.
LEMMA AccountStep == AInv /\ Account /\ [Next]_vars => Account'
<1> SUFFICES ASSUME AInv, Account, [Next]_vars PROVE Account'
  OBVIOUS
<1>1. CASE \E r \in Records : try_record(r)
  BY <1>1, TryRecordAccount
<1>2. CASE reopen
  BY <1>2, ReopenAccount
<1>3. CASE Calls
  BY <1>3, OthersAccount
<1>4. CASE Thread
  BY <1>4, RecvAccount, WriteAccount, OthersAccount DEF Thread
<1>5. CASE UNCHANGED vars
  <2>1. UNCHANGED <<outcome, files, queue, writer, write_failures>>
    BY <1>5 DEF vars, handleVars, threadVars
  <2>2. \A r \in Records : (InHand(r)' <=> InHand(r)) /\ (Queued(r)' <=> Queued(r))
    BY <2>1 DEF InHand, Queued
  <2>3. QueuedOnce' /\ Bounded'
    BY <2>1 DEF Account, QueuedOnce, Bounded
  <2> QED
    BY <2>1, <2>2, <2>3, NothingMoved
<1> QED
  BY <1>1, <1>2, <1>3, <1>4, <1>5 DEF Next, Caller, Calls

\* The places of a record are those the invariant speaks of.
LEMMA AccountImplies == AInv /\ Account => NoneLostSilently
<1> SUFFICES ASSUME AInv, Account PROVE NoneLostSilently
  OBVIOUS
<1>1. /\ DOMAIN queue = 1..Len(queue)
      /\ \A g \in Generations : DOMAIN files[g] = 1..Len(files[g])
  BY ShapeFacts, SMTT(30) DEF AInv, Shape
<1>2. ASSUME NEW r \in Records, NEW p
      PROVE  p \in Places(r) <=>
                \/ \E i \in 1..Len(queue) : queue[i] = Record(r) /\ p = <<"queue", i>>
                \/ InHand(r) /\ p = <<"thread">>
                \/ \E g \in Generations : \E i \in 1..Len(files[g]) :
                     files[g][i].rec = r /\ p = <<"file", g, i>>
  <2>1. p \in {<<"queue", i>> : i \in {i \in DOMAIN queue : queue[i] = Record(r)}}
          <=> \E i \in 1..Len(queue) : queue[i] = Record(r) /\ p = <<"queue", i>>
    BY <1>1
  <2>2. p \in {<<"thread">> : c \in {writer.cmd} \cap {Record(r)}}
          <=> InHand(r) /\ p = <<"thread">>
    BY DEF InHand
  <2>3. p \in UNION {{<<"file", g, i>> : i \in {i \in DOMAIN files[g] : files[g][i].rec = r}} :
                       g \in Generations}
          <=> \E g \in Generations : \E i \in 1..Len(files[g]) :
                files[g][i].rec = r /\ p = <<"file", g, i>>
    <3> DEFINE In(g) == {<<"file", g, i>> : i \in {i \in DOMAIN files[g] : files[g][i].rec = r}}
    <3>1. \A g \in Generations :
             p \in In(g)
               <=> \E i \in 1..Len(files[g]) : files[g][i].rec = r /\ p = <<"file", g, i>>
      BY <1>1
    <3> HIDE DEF In
    <3>2. p \in UNION {In(g) : g \in Generations} <=> \E g \in Generations : p \in In(g)
      OBVIOUS
    <3>3. p \in UNION {In(g) : g \in Generations}
            <=> \E g \in Generations : \E i \in 1..Len(files[g]) :
                  files[g][i].rec = r /\ p = <<"file", g, i>>
      BY <3>1, <3>2
    <3> QED
      BY <3>3 DEF In
  <2> QED
    BY <2>1, <2>2, <2>3 DEF Places
<1>3. \A r \in Records : Places(r) = {} <=> ~Placed(r)
  <2> SUFFICES ASSUME NEW r \in Records PROVE Places(r) = {} <=> ~Placed(r)
    OBVIOUS
  <2>1. ASSUME Placed(r) PROVE Places(r) # {}
    <3>1. CASE Queued(r)
      <4>1. PICK i \in 1..Len(queue) : queue[i] = Record(r)
        BY <3>1 DEF Queued
      <4>2. <<"queue", i>> \in Places(r)
        BY <1>2, <4>1
      <4> QED
        BY <4>2
    <3>2. CASE InHand(r)
      <4>1. <<"thread">> \in Places(r)
        BY <1>2, <3>2
      <4> QED
        BY <4>1
    <3>3. CASE Filed(r)
      <4>0. PICK g \in Generations : \E i \in 1..Len(files[g]) : files[g][i].rec = r
        BY <3>3 DEF Filed
      <4>1. PICK i \in 1..Len(files[g]) : files[g][i].rec = r
        BY <4>0
      <4>2. <<"file", g, i>> \in Places(r)
        BY <1>2, <4>1
      <4> QED
        BY <4>2
    <3> QED
      BY <2>1, <3>1, <3>2, <3>3 DEF Placed
  <2>2. ASSUME Places(r) # {} PROVE Placed(r)
    <3>1. PICK p : p \in Places(r)
      BY <2>2
    <3> QED
      BY <1>2, <3>1 DEF Placed, Queued, Filed
  <2> QED
    BY <2>1, <2>2
<1>4. ASSUME NEW r \in Records, NEW p \in Places(r), NEW q \in Places(r) PROVE p = q
  <2>1. CASE Queued(r)
    <3>1. ~InHand(r) /\ ~Filed(r)
      BY <2>1 DEF Account, Apart
    <3>2. \E i \in 1..Len(queue) : queue[i] = Record(r) /\ p = <<"queue", i>>
      BY <1>2, <3>1, SMTT(30) DEF Filed
    <3>3. \E i \in 1..Len(queue) : queue[i] = Record(r) /\ q = <<"queue", i>>
      BY <1>2, <3>1, SMTT(30) DEF Filed
    <3> QED
      BY <3>2, <3>3 DEF Account, QueuedOnce
  <2>2. CASE Filed(r)
    <3>1. ~InHand(r) /\ ~Queued(r)
      BY <2>2 DEF Account, Apart
    <3>2. \E g \in Generations : \E i \in 1..Len(files[g]) :
             files[g][i].rec = r /\ p = <<"file", g, i>>
      BY <1>2, <3>1, SMTT(30) DEF Queued
    <3>3. \E g \in Generations : \E i \in 1..Len(files[g]) :
             files[g][i].rec = r /\ q = <<"file", g, i>>
      BY <1>2, <3>1, SMTT(30) DEF Queued
    <3> QED
      BY <3>2, <3>3, SMTT(30) DEF Account, FiledOnce
  <2>3. CASE ~Queued(r) /\ ~Filed(r)
    BY <1>2, <2>3, SMTT(30) DEF Queued, Filed
  <2> QED
    BY <2>1, <2>2, <2>3
<1>5. \A r \in Records : Places(r) # {} => r \in Accepted
  BY <1>3 DEF Account, Known, Accepted
<1>6. Lost = Mislaid
  BY <1>3 DEF Lost, Mislaid, Accepted
<1>7. TypeOK
  <2>1. /\ writer.pc \in {"recv", "io", "flush", "exited"}
        /\ writer.cmd \in Commands \cup {NoCommand}
    BY DEF AInv, Shape
  <2>2. (writer.pc = "io") = (writer.cmd # NoCommand)
    BY <2>1 DEF AInv, Idle, Emptied, Account, Bounded
  <2>3. hangup.pc \in {"idle", "waiting"} /\ hangup.call \in 0..MaxReopens
    BY DEF AInv, Shape, HangupTask
  <2>4. reply.out \in {"none", "ok", "Io"} /\ reply.gen \in 0..disk
    BY DEF AInv, Shape
  <2> QED
    BY <2>1, <2>2, <2>3, <2>4 DEF AInv, Shape, Account, Bounded, Counted, TypeOK
<1> QED
  BY <1>4, <1>5, <1>6, <1>7 DEF NoneLostSilently, Account, Counted

\* For any number of records and any capacity of the channel: an accepted record
\* is in one place only, and there are no more losses than counted failures
\* (try_record, write_loop).
THEOREM LossesCounted == Spec => []NoneLostSilently
<1>1. Init => AInv /\ Account
  BY AInit, AccountInit
<1>2. (AInv /\ Account) /\ [Next]_vars => (AInv /\ Account)'
  BY AStep, AccountStep
<1>3. AInv /\ Account => NoneLostSilently
  BY AccountImplies
<1> QED
  BY <1>1, <1>2, <1>3, PTL DEF Spec

-----------------------------------------------------------------------------
\* What holds of the process in every state.
LEMMA Reachable == LSpec => [](AInv /\ Account /\ PInv)
<1>1. LInit => AInv /\ Account /\ PInv
  BY AInit, AccountInit, PInit DEF LInit
<1>2. (AInv /\ Account /\ PInv) /\ [LNext]_allVars => (AInv /\ Account /\ PInv)'
  BY LStep, Composed, AccountStep
<1> QED
  BY <1>1, <1>2, PTL DEF LSpec

\* Whatever the file says, a configuration that Config::try_from accepts meets
\* every assertion and expect on the way to serving, but for an audit channel too
\* long to lay out: the only value whose limit validation does not know.
THEOREM ConfigurationsFit == LSpec => []ConfigFits
<1>1. PInv => ConfigFits
  BY DEF PInv
<1> QED
  BY <1>1, Reachable, PTL

\* However many streams there are and however the stop interleaves with them,
\* a flush that reported success left nothing out, and nobody behind who would
\* still record (flush_audit_at_shutdown).
THEOREM CleanExits == LSpec => []CleanExitComplete
<1>1. AInv /\ PInv => CleanExitComplete
  BY AInvImplies DEF PInv, Unheld, CleanExitComplete
<1> QED
  BY <1>1, Reachable, PTL

\* The exit code tells the truth, and the cleanup comes before every exit after
\* serving (run, run_lifecycle).
THEOREM ExitsHonest == LSpec => []ExitHonest
<1>1. PInv => ExitHonest
  BY DEF PInv
<1> QED
  BY <1>1, Reachable, PTL

\* The process keeps the writer's promise about reopened files.
THEOREM ReopensKept == LSpec => []ReopenGuarantee
<1>1. AInv => ReopenGuarantee
  BY AInvImplies
<1> QED
  BY <1>1, Reachable, PTL

\* Whatever the process does around the writer, up to a stop in the middle of
\* everything, a record it accepted is in one place, and there are no more
\* losses than counted failures (try_record, write_loop).
THEOREM LossesAlwaysCounted == LSpec => []NoneLostSilently
<1>1. AInv /\ Account => NoneLostSilently
  BY AccountImplies
<1> QED
  BY <1>1, Reachable, PTL
=============================================================================
