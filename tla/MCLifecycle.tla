---------------------------- MODULE MCLifecycle ----------------------------
(***************************************************************************)
(* Instances of Lifecycle for TLC: command lines, and files that differ    *)
(* from a plain one in up to two fields, which take the values around      *)
(* their limits.                                                           *)
(***************************************************************************)
EXTENDS Lifecycle, TLC

Words == {"help", "version", "--config", "--config=", "--config=path", "word"}
CommandLines == {<<>>} \cup {<<w>> : w \in Words} \cup (Words \X Words)

Key(k) == [key |-> k, name |-> "none"]
Client(n, t) == [name |-> n, token |-> t]
Plain == [gateway_token |-> "t", keys |-> <<Key("k1"), Key("k2")>>]

Around(low, high) == {low - 1, low, high, high + 1}

\* The fields with an upper limit, then those without, then lists and texts.
Edges ==
    [max_concurrency |-> Around(1, MAX_PERMITS), max_queue |-> {0, MAX_PERMITS, MAX_PERMITS + 1},
     max_body_bytes |-> Around(1, U32_MAX), max_inflight_body_bytes |-> Around(1, U32_MAX),
     backoff_max |-> Around(1, MAX_COOLDOWN), breaker_threshold |-> Around(1, U32_MAX),
     max_attempts |-> Around(1, 2), soft_threshold_percent |-> Around(1, 100),
     max_header_bytes |-> Around(8192, U32_MAX),
     max_connections |-> Around(1, MAX_CONNECTIONS_CEILING),
     queue_capacity |-> Around(1, MAX_SLOTS)]
    @@ [f \in IoTimeouts \cup {"queue_wait_timeout", "backoff_initial", "breaker_cooldown",
                               "read_header_timeout"} |-> {0, 1, U32_MAX}]
    @@ [f \in {"interval", "poll_interval"} |-> {29, 30}]
    @@ [limit |-> {1}, listen_host |-> {"any", "word"}, soft_threshold |-> {1}, path |-> {Blank},
        usage_history_dir |-> {Blank}, enabled |-> {FALSE}, gateway_token |-> {Blank},
        gateway_keys |-> {<<>>, <<Client("a", "t")>>},
        keys |-> {<<>>, <<Key("k1"), Key("k1")>>, <<Key(Blank)>>},
        models |-> {<<>>, <<"m">>, <<"m", "m">>, <<TooLong>>},
        model_event_timeouts |-> {"m" :> [first_event_timeout |-> t] : t \in {0, 1}}]

\* Files with one or two other fields, and files with client keys.
Singles == UNION {{(f :> v) @@ Plain : v \in Edges[f]} : f \in DOMAIN Edges}
Pairs == UNION {UNION {{(f :> v) @@ (g :> w) @@ Plain : v \in Edges[f], w \in Edges[g]} :
                       g \in DOMAIN Edges \ {f}} : f \in DOMAIN Edges}
Clients == {[keys |-> Plain.keys, gateway_keys |-> s] :
              s \in {<<>>, <<Client("a", "t"), Client("b", "u")>>,
                     <<Client("a", "t"), Client("b", "t")>>,
                     <<Client("a", "t"), Client("a", "u")>>, <<Client(Blank, "t")>>}}

File(kind, mode, owner, raw) ==
    [kind |-> kind, mode |-> mode, owner |-> owner, parses |-> TRUE, raw |-> raw]

Found ==
    {File("regular", "0600", "orihsus", raw) : raw \in {Plain} \cup Singles \cup Pairs \cup Clients}
    \cup {File(k, m, o, Plain) : k \in {"regular", "link", "missing", "directory"},
                                 m \in {"0600", "0644"}, o \in {"root", "orihsus"}}
    \cup {[kind |-> "regular", mode |-> "0600", owner |-> "orihsus", parses |-> FALSE]}
=============================================================================
