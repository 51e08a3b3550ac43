------------------------------- MODULE Config -------------------------------
(***************************************************************************)
(* The configuration (src/config.rs): defaults, validation, and what the   *)
(* parts that are built from it demand of it (src/pool.rs, src/queue.rs,   *)
(* src/gateway.rs, src/audit.rs, src/server.rs).                           *)
(*                                                                         *)
(* A raw configuration is a record of the fields that the file sets, each  *)
(* named by the last part of its YAML path.  Durations are in seconds.  Of *)
(* a text only matters whether it is blank, too long, or equal to another. *)
(***************************************************************************)
EXTENDS Integers, Sequences

CONSTANTS U32_MAX,      \* u32::MAX
          MAX_PERMITS,  \* tokio::sync::Semaphore::MAX_PERMITS
          MAX_SLOTS     \* the most slots whose buffer sync_channel can lay out

\* A 64-bit build: the permits exceed every u32.
ASSUME ConfigConstants == /\ U32_MAX \in Nat /\ MAX_PERMITS \in Nat /\ MAX_SLOTS \in Nat
                          /\ 268435456 <= U32_MAX /\ U32_MAX <= MAX_PERMITS
                          /\ 4096 <= MAX_SLOTS

MAX_COOLDOWN == 7776000
MAX_CONNECTIONS_CEILING == 65536

Blank == ""
TooLong == "too long"
Name(t) == t # Blank /\ t # TooLong
Range1(s) == {s[i] : i \in DOMAIN s}
Distinct(s) == \A i, j \in DOMAIN s : s[i] = s[j] => i = j

-----------------------------------------------------------------------------
(***************************************************************************)
(* Defaults.  gateway_token, gateway_keys, keys, models and                *)
(* model_event_timeouts have none of this kind.                            *)
(***************************************************************************)
Default ==
    [listen_host |-> "loopback", port |-> 8080,
     max_concurrency |-> 200, max_queue |-> 500, queue_wait_timeout |-> 30,
     max_body_bytes |-> 10485760, max_inflight_body_bytes |-> 268435456,
     backoff_initial |-> 5, backoff_max |-> 60,
     breaker_threshold |-> 5, breaker_cooldown |-> 60, max_attempts |-> 2,
     enabled |-> TRUE, interval |-> 3600,
     soft_threshold_percent |-> 80, poll_interval |-> 300,
     usage_history_dir |-> "usage", path |-> "audit", queue_capacity |-> 4096,
     read_header_timeout |-> 5, max_header_bytes |-> 32768,
     max_connections |-> 1024,
     body_read_timeout |-> 30, upstream_response_header_timeout |-> 60,
     first_event_timeout |-> 60, inter_event_timeout |-> 90,
     upstream_error_body_timeout |-> 5, response_write_timeout |-> 30]

Numbers == DOMAIN Default \ {"listen_host", "enabled", "usage_history_dir", "path"}
DefaultModels == <<"deepseek-chat">>

\* Any other field is an error (deny_unknown_fields); soft_threshold is known
\* only to be refused.
RawFields ==
    DOMAIN Default \cup {"gateway_token", "gateway_keys", "keys", "models",
                         "soft_threshold", "model_event_timeouts"}

Is_set(raw, f) == f \in DOMAIN raw
Get(raw, f) == IF Is_set(raw, f) THEN raw[f] ELSE Default[f]

-----------------------------------------------------------------------------
(***************************************************************************)
(* Config::try_from, section by section.  Which check fails first decides  *)
(* only the wording of the error.                                          *)
(***************************************************************************)
GatewayKeysValid(raw) ==
    \/ /\ Is_set(raw, "gateway_token") /\ ~Is_set(raw, "gateway_keys")
       /\ raw.gateway_token # Blank
    \/ /\ ~Is_set(raw, "gateway_token") /\ Is_set(raw, "gateway_keys")
       /\ raw.gateway_keys # <<>>
       /\ \A e \in Range1(raw.gateway_keys) : Name(e.name) /\ e.token # Blank
       /\ Distinct([i \in DOMAIN raw.gateway_keys |-> raw.gateway_keys[i].name])
       /\ Distinct([i \in DOMAIN raw.gateway_keys |-> raw.gateway_keys[i].token])

\* listen.host parses as an address, and a loopback one.
ListenValid(raw) == Get(raw, "listen_host") = "loopback"

\* A key without a name has the name "none".
KeysValid(raw) ==
    /\ Is_set(raw, "keys") /\ raw.keys # <<>>
    /\ \A e \in Range1(raw.keys) : e.key # Blank /\ Name(e.name)
    /\ Distinct([i \in DOMAIN raw.keys |-> raw.keys[i].key])

ModelsValid(raw) ==
    /\ Is_set(raw, "models") =>
         /\ raw.models # <<>>
         /\ \A m \in Range1(raw.models) : Name(m)
         /\ Distinct(raw.models)
    /\ Get(raw, "interval") >= 30

\* No comparison of the two body sizes.
AnyInflight(raw) == TRUE

InflightCoversBody(raw) ==
    Get(raw, "max_inflight_body_bytes") >= Get(raw, "max_body_bytes")

LimitsValid(raw) ==
    /\ Get(raw, "max_concurrency") \in 1..MAX_PERMITS
    /\ Get(raw, "max_queue") <= MAX_PERMITS
    /\ Get(raw, "queue_wait_timeout") > 0
    /\ Get(raw, "max_body_bytes") \in 1..U32_MAX
    /\ Get(raw, "max_inflight_body_bytes") \in 1..U32_MAX
    /\ InflightCoversBody(raw)

KeyFailureValid(raw) ==
    /\ ~Is_set(raw, "soft_threshold")
    /\ Get(raw, "backoff_initial") > 0
    /\ Get(raw, "backoff_max") \in Get(raw, "backoff_initial")..MAX_COOLDOWN
    /\ Get(raw, "breaker_threshold") \in 1..U32_MAX
    /\ Get(raw, "breaker_cooldown") > 0
    /\ Get(raw, "max_attempts") \in 1..2

\* The percentage is a finite float in (0, 100]; whole numbers stand for it.
UsageValid(raw) ==
    /\ Get(raw, "soft_threshold_percent") \in 1..100
    /\ Get(raw, "poll_interval") >= 30
    /\ Get(raw, "usage_history_dir") # Blank

AuditValid(raw) == Get(raw, "queue_capacity") >= 1

\* A model's timeouts, the global ones where they are left out.
Inherit(raw, policy, f) == IF f \in DOMAIN policy THEN policy[f] ELSE Get(raw, f)
ModelTimeouts(raw) ==
    IF Is_set(raw, "model_event_timeouts")
      THEN [m \in DOMAIN raw.model_event_timeouts |->
              [f \in {"first_event_timeout", "inter_event_timeout"} |->
                 Inherit(raw, raw.model_event_timeouts[m], f)]]
      ELSE <<>>

IoTimeouts == {"body_read_timeout", "upstream_response_header_timeout",
               "first_event_timeout", "inter_event_timeout",
               "upstream_error_body_timeout", "response_write_timeout"}

ServerValid(raw) ==
    /\ Get(raw, "read_header_timeout") > 0
    /\ Get(raw, "max_header_bytes") \in 8192..U32_MAX
    /\ \A f \in IoTimeouts : Get(raw, f) > 0
    /\ \A m \in DOMAIN ModelTimeouts(raw) :
         /\ Name(m)
         /\ ModelTimeouts(raw)[m].first_event_timeout > 0
         /\ ModelTimeouts(raw)[m].inter_event_timeout > 0
    /\ Get(raw, "max_connections") \in 1..MAX_CONNECTIONS_CEILING

Valid(raw) ==
    /\ GatewayKeysValid(raw) /\ ListenValid(raw) /\ KeysValid(raw)
    /\ ModelsValid(raw) /\ LimitsValid(raw) /\ KeyFailureValid(raw)
    /\ UsageValid(raw) /\ AuditValid(raw) /\ ServerValid(raw)

\* What the rest of the program gets to see of a valid configuration: a single
\* token becomes the key "legacy", a blank audit path the default one, and a
\* manual model list switches synchronisation off.
try_from(raw) ==
    [gateway_keys |-> IF Is_set(raw, "gateway_token")
                        THEN <<[name |-> "legacy", token |-> raw.gateway_token]>>
                        ELSE raw.gateway_keys,
     keys |-> [i \in DOMAIN raw.keys |-> raw.keys[i].key],
     models |-> IF Is_set(raw, "models") THEN raw.models ELSE DefaultModels,
     model_sync |-> ~Is_set(raw, "models") /\ Get(raw, "enabled"),
     model_event_timeouts |-> ModelTimeouts(raw),
     audit_path |-> IF Get(raw, "path") = Blank THEN Default.path ELSE Get(raw, "path"),
     field |-> [f \in DOMAIN Default |-> Get(raw, f)]]

\* The timeouts of a request for a model (event_timeouts_for).
event_timeouts_for(cfg, model) ==
    IF model \in DOMAIN cfg.model_event_timeouts
      THEN cfg.model_event_timeouts[model]
      ELSE [f \in {"first_event_timeout", "inter_event_timeout"} |-> cfg.field[f]]

-----------------------------------------------------------------------------
(***************************************************************************)
(* What the parts demand.  Semaphore::new, sync_channel, the assertions    *)
(* and the expects panic when they are not met, and a panic aborts the     *)
(* process.                                                                *)
(***************************************************************************)
Fits_u32(n) == n <= U32_MAX
Semaphore_takes(n) == n <= MAX_PERMITS
Channel_takes(n) == n <= MAX_SLOTS

\* PoolPolicy::validate and KeyPool::new return errors.
PoolDemands(cfg) ==
    /\ cfg.field.backoff_initial > 0
    /\ cfg.field.backoff_max >= cfg.field.backoff_initial
    /\ cfg.field.breaker_threshold # 0
    /\ cfg.field.breaker_cooldown > 0
    /\ cfg.field.max_attempts \in 1..2
    /\ cfg.keys # <<>>

QueueDemands(cfg) ==
    /\ cfg.field.max_concurrency > 0
    /\ cfg.field.queue_wait_timeout > 0
    /\ Semaphore_takes(cfg.field.max_concurrency)
    /\ Semaphore_takes(cfg.field.max_queue)

\* spawn refuses a channel without a slot; one with too many panics.
AuditDemands(cfg) == cfg.field.queue_capacity # 0
ChannelDemands(cfg) == Channel_takes(cfg.field.queue_capacity)

BudgetDemands(cfg) ==
    /\ cfg.field.max_inflight_body_bytes > 0
    /\ cfg.field.max_body_bytes <= cfg.field.max_inflight_body_bytes
    /\ Semaphore_takes(cfg.field.max_inflight_body_bytes)

\* with_runtime: a quarter of the requests may stream, at least one.
MaxStreams(cfg) == LET quarter == cfg.field.max_concurrency \div 4
                   IN  IF quarter > 1 THEN quarter ELSE 1

\* build_builder, for every connection.
HeaderDemands(cfg) == Fits_u32(cfg.field.max_header_bytes)

\* assemble, in its order: "panic", the part that refuses, or "ok".
Assembled(cfg) ==
    IF ~Fits_u32(cfg.field.breaker_threshold) THEN "panic"
    ELSE IF ~PoolDemands(cfg) THEN "pool"
    ELSE IF ~QueueDemands(cfg) THEN "panic"
    ELSE IF ~AuditDemands(cfg) THEN "audit"
    ELSE IF ~ChannelDemands(cfg) THEN "panic"
    ELSE IF ~Fits_u32(cfg.field.max_body_bytes) \/ ~BudgetDemands(cfg) THEN "panic"
    ELSE IF ~Semaphore_takes(MaxStreams(cfg)) THEN "panic"
    ELSE "ok"
=============================================================================
