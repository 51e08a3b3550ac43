------------------------------ MODULE Server ------------------------------
(***************************************************************************)
(* The HTTP server (src/server.rs): the accept loop with its connection    *)
(* cap and its accept errors, one task per connection with the watchdog    *)
(* that waits for the first request, the reaping of finished tasks, and    *)
(* the drain after the shutdown signal.                                    *)
(*                                                                         *)
(* A peer may connect, stay silent, send a request or leave at any time; a *)
(* request may run for ever (an event stream), and the tasks of connections*)
(* run in parallel with the loop.                                          *)
(***************************************************************************)
EXTENDS Integers, FiniteSets

CONSTANTS Conns,          \* the connections peers open
          MaxConnections  \* server.max_connections

ASSUME ServerConstants == /\ IsFiniteSet(Conns)
                          /\ MaxConnections \in Nat \ {0}

VARIABLES
    conn,         \* per connection: "new", "pending" (in the backlog),
                  \* "silent" (no request yet), "serving", "ended", "refused"
    cap,          \* permits left in connection_cap
    connections,  \* the JoinSet: tasks spawned and not reaped
    loop,         \* serve: "accepting", "backoff", "draining", "aborting", "returned"
    shutdown      \* the shutdown future is ready

vars == <<conn, cap, connections, loop, shutdown>>

Running == {c \in Conns : conn[c] \in {"silent", "serving"}}

Init ==
    /\ conn = [c \in Conns |-> "new"]
    /\ cap = MaxConnections
    /\ connections = {}
    /\ loop = "accepting"
    /\ shutdown = FALSE

-----------------------------------------------------------------------------
Connect(c) ==
    /\ conn[c] = "new"
    /\ conn' = [conn EXCEPT ![c] = "pending"]
    /\ UNCHANGED <<cap, connections, loop, shutdown>>

\* An accept that spawns a task for every socket.
AcceptAlways(c) ==
    /\ loop = "accepting" /\ conn[c] = "pending"
    /\ conn' = [conn EXCEPT ![c] = "silent"]
    /\ cap' = IF cap > 0 THEN cap - 1 ELSE 0
    /\ connections' = connections \cup {c}
    /\ UNCHANGED <<loop, shutdown>>

\* listener.accept(): a socket within the cap gets a permit and a task, one
\* beyond it is closed at once.
Accept(c) ==
    /\ loop = "accepting" /\ conn[c] = "pending"
    /\ IF cap > 0
         THEN /\ conn' = [conn EXCEPT ![c] = "silent"]
              /\ cap' = cap - 1
              /\ connections' = connections \cup {c}
         ELSE /\ conn' = [conn EXCEPT ![c] = "refused"]
              /\ UNCHANGED <<cap, connections>>
    /\ UNCHANGED <<loop, shutdown>>

\* A transient error is retried at once; any other after ACCEPT_RETRY_DELAY.
\* Accepting may go on failing for ever.
AcceptError ==
    /\ loop = "accepting"
    /\ loop' \in {"accepting", "backoff"}
    /\ UNCHANGED <<conn, cap, connections, shutdown>>

BackoffOver ==
    /\ loop = "backoff"
    /\ loop' = "accepting"
    /\ UNCHANGED <<conn, cap, connections, shutdown>>

\* reap_next_connection while accepting, join_next while draining.
Reap(c) ==
    /\ loop \in {"accepting", "draining", "aborting"}
    /\ c \in connections /\ conn[c] = "ended"
    /\ connections' = connections \ {c}
    /\ UNCHANGED <<conn, cap, loop, shutdown>>

-----------------------------------------------------------------------------
(***************************************************************************)
(* A connection's task.  The permit lives in the task: it goes back when   *)
(* the task ends, in whatever way, and not when the task is reaped.        *)
(***************************************************************************)

Ends(c) ==
    /\ conn' = [conn EXCEPT ![c] = "ended"]
    /\ cap' = cap + 1
    /\ UNCHANGED <<connections, loop, shutdown>>

\* The first request reaches the service and silences the watchdog.
FirstRequest(c) ==
    /\ conn[c] = "silent"
    /\ conn' = [conn EXCEPT ![c] = "serving"]
    /\ UNCHANGED <<cap, connections, loop, shutdown>>

\* A watchdog that is armed for connections that sent something only.
NoWatchdog(c) == conn[c] = "none" /\ Ends(c)

\* No request within read_header_timeout.
Watchdog(c) == conn[c] = "silent" /\ Ends(c)

\* The response is complete (keep_alive is off), the peer leaves, the protocol
\* fails or the task panics.
Finished(c) == c \in Running /\ Ends(c)

\* abort_all: the task is dropped at its next await.
Aborted(c) == loop = "aborting" /\ c \in Running /\ Ends(c)

-----------------------------------------------------------------------------
Signal ==
    /\ ~shutdown
    /\ shutdown' = TRUE
    /\ UNCHANGED <<conn, cap, connections, loop>>

Break ==
    /\ loop = "accepting" /\ shutdown
    /\ loop' = "draining"
    /\ UNCHANGED <<conn, cap, connections, shutdown>>

\* A drain that waits for the connections as long as they take.
DrainPatiently == loop = "none" /\ UNCHANGED vars

DrainTimeout ==
    /\ loop = "draining" /\ connections # {}
    /\ loop' = "aborting"
    /\ UNCHANGED <<conn, cap, connections, shutdown>>

Return ==
    /\ loop \in {"draining", "aborting"} /\ connections = {}
    /\ loop' = "returned"
    /\ UNCHANGED <<conn, cap, connections, shutdown>>

Next ==
    \/ \E c \in Conns : \/ Connect(c) \/ Accept(c) \/ Reap(c) \/ FirstRequest(c)
                        \/ Watchdog(c) \/ Finished(c) \/ Aborted(c)
    \/ AcceptError \/ BackoffOver \/ Signal \/ Break \/ DrainTimeout \/ Return

Spec == Init /\ [][Next]_vars

\* Timers fire, aborted tasks end, and the loop's select! polls its branches in
\* random order: a branch that is ready again and again is taken.  Peers and
\* requests owe nothing.
FairSpec ==
    /\ Spec
    /\ \A c \in Conns : /\ WF_vars(Watchdog(c)) /\ WF_vars(Aborted(c))
                        /\ SF_vars(Reap(c))
    /\ WF_vars(BackoffOver) /\ SF_vars(Break) /\ WF_vars(DrainTimeout)
    /\ WF_vars(Return)

-----------------------------------------------------------------------------
(***************************************************************************)
(* Properties.                                                             *)
(***************************************************************************)

\* The variables have the shape of serve's locals, and there are never more
\* permits than the cap.
TypeOK ==
    /\ conn \in [Conns -> {"new", "pending", "silent", "serving", "ended", "refused"}]
    /\ cap \in 0..MaxConnections
    /\ connections \subseteq Conns
    /\ loop \in {"accepting", "backoff", "draining", "aborting", "returned"}
    /\ shutdown \in BOOLEAN

\* Whatever peers do, running connections and free permits add up to
\* max_connections, and every running task is one the loop can still reap or
\* abort: a silent peer cannot grow the set of tasks past the cap, and no
\* permit is lost or given back twice.
CapHeld ==
    /\ TypeOK
    /\ cap + Cardinality(Running) = MaxConnections
    /\ Running \subseteq connections

\* A connection that stays silent is closed and its permit is free again
\* (the first-request watchdog).
SilenceEnds == \A c \in Conns : conn[c] = "silent" ~> conn[c] # "silent"

\* Shutdown ends the server, however long requests run and whatever accept
\* returns, and nothing it spawned is left then (drain_timeout, abort_all).
ShutdownReturns ==
    shutdown ~> (loop = "returned" /\ Running = {} /\ connections = {})
=============================================================================
