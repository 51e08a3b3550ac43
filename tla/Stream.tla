------------------------------- MODULE Stream -------------------------------
(***************************************************************************)
(* One answer of the upstream on its way to the client: the prefetch up to *)
(* the first event (prepare_response), the commitment, and the pump task   *)
(* with its deadlines (stream_response, pump_upstream, send_with_timeout   *)
(* of src/gateway.rs).  Gateway has the pump as one step per chunk and a   *)
(* choice of endings; here are the bytes, the clocks and the channel that  *)
(* decide which ending it is.                                              *)
(*                                                                         *)
(* A deadline is the number of ticks left to it.  Every wait polls what it *)
(* waits for before its deadline, so a deadline that has passed ends the   *)
(* wait only when nothing is ready.                                        *)
(***************************************************************************)
EXTENDS SseParser

CONSTANTS FirstEvent,     \* first_event_timeout
          InterEvent,     \* inter_event_timeout
          BodyIdle,       \* upstream_error_body, the idle limit of other bodies
          WriteBudget,    \* response_write
          ChannelCap,     \* slots of the channel to the client's body
          MaxWire,        \* bound: tokens received but not yet read
          MaxEvents,      \* bound: events of one answer
          MaxBody         \* bound: tokens of a body that is not an event stream

ASSUME StreamConstants ==
    /\ {FirstEvent, InterEvent, BodyIdle, WriteBudget} \subseteq Nat \ {0}
    /\ ChannelCap \in Nat \ {0}

VARIABLES
    sse,         \* is_streaming: the content type is text/event-stream
    wire,        \* received tokens that nobody has read
    upstream,    \* "open", "eof" or "error": what follows the wire
    phase,       \* "prefetch", "flushing", "pulling", "sending" or "over"
    parser,      \* the detector, then the pump's parser
    prefetched,  \* chunks read before the commitment
    hand,        \* the chunk that is being sent
    timer,       \* ticks left of the deadline on the upstream
    budget,      \* ticks left of the send
    channel,     \* chunks in the channel
    client,      \* "present" or "gone"
    outcome,     \* "none", or how the answer ended
    eol,         \* the line end this upstream uses
    sent,        \* history: what the reference decoder makes of the answer
    silence,     \* history: ticks since the last event was complete, up to InterEvent
    owed         \* history: tokens received and not handed to the channel

upstreamVars == <<sse, eol, wire, upstream, sent>>
pumpVars == <<phase, parser, prefetched, hand>>
clockVars == <<timer, budget, silence>>
vars == <<upstreamVars, pumpVars, clockVars, channel, client, outcome, owed>>

Push(p, chunk) == IF sse THEN PushSse(p, chunk) ELSE PushJson(p, chunk)
Fresh == IF sse THEN NewParser ELSE NewJson

\* An event stream is prefetched; any other body is committed at once.
Init ==
    /\ sse \in BOOLEAN
    /\ eol \in {"lf", "cr"}
    /\ wire = <<>> /\ upstream = "open"
    /\ phase = IF sse THEN "prefetch" ELSE "pulling"
    /\ parser = Fresh
    /\ prefetched = <<>> /\ hand = <<>>
    /\ timer = IF sse THEN FirstEvent ELSE BodyIdle
    /\ budget = 0
    /\ channel = 0 /\ client = "present"
    /\ outcome = "none"
    /\ sent = NewDecoder /\ silence = 0 /\ owed = 0

-----------------------------------------------------------------------------
(***************************************************************************)
(* The upstream and the client.                                            *)
(***************************************************************************)
AfterCr == sent.line # <<>> /\ sent.line[Len(sent.line)] = "cr"

\* A line is at most one token of text and a line end, whole and of the same
\* kind throughout.
MayFollow(b) ==
    CASE b = "cr" -> eol = "cr" /\ ~AfterCr
      [] b = "lf" -> (eol = "cr") = AfterCr
      [] b = "d" -> sent.line = <<>> /\ sent.events < MaxEvents
      [] OTHER -> sent.line = <<>>

Emit(b) ==
    /\ upstream = "open" /\ phase # "over"
    /\ Len(wire) < MaxWire
    /\ IF sse THEN MayFollow(b) ELSE b = "c" /\ Len(sent.data) < MaxBody
    /\ wire' = Append(wire, b)
    /\ sent' = IF sse THEN Decode(sent, b)
               ELSE [sent EXCEPT !.data = Append(@, b)]
    /\ silence' = IF sent'.events > sent.events THEN 0 ELSE silence
    /\ owed' = owed + 1
    /\ UNCHANGED <<sse, eol, upstream, pumpVars, timer, budget, channel, client, outcome>>

UpstreamEnds ==
    /\ upstream = "open" /\ phase # "over"
    /\ upstream' \in {"eof", "error"}
    /\ UNCHANGED <<sse, eol, wire, sent, pumpVars, clockVars, channel, client, outcome, owed>>

ClientReads ==
    /\ client = "present" /\ channel > 0 /\ phase # "over"
    /\ channel' = channel - 1
    /\ UNCHANGED <<upstreamVars, pumpVars, clockVars, client, outcome, owed>>

\* The body is dropped: DropNotifyStream notifies, the receiver closes.  (A
\* client that leaves before the commitment drops the handler: see Gateway.)
ClientLeaves ==
    /\ client = "present" /\ phase \notin {"prefetch", "over"}
    /\ client' = "gone"
    /\ UNCHANGED <<upstreamVars, pumpVars, clockVars, channel, outcome, owed>>

\* Time passes.  A body that is not an event stream has one deadline per read.
Reading == phase \in {"prefetch", "pulling"}
Down(n) == IF n > 0 THEN n - 1 ELSE 0

Tick ==
    /\ phase # "over"
    /\ timer' = IF Reading \/ sse THEN Down(timer) ELSE timer
    /\ budget' = Down(budget)
    /\ silence' = IF silence < InterEvent THEN silence + 1 ELSE silence
    /\ UNCHANGED <<upstreamVars, pumpVars, channel, client, outcome, owed>>

-----------------------------------------------------------------------------
(***************************************************************************)
(* Reading from the upstream.                                              *)
(***************************************************************************)
\* A read returns some of what has been received.
Chunk(n) == SubSeq(wire, 1, n)

\* The end of the answer: the upstream is dropped with what is on the wire, and
\* what is in the channel is the client's.
End(how) ==
    /\ phase' = "over" /\ outcome' = how
    /\ wire' = <<>> /\ prefetched' = <<>> /\ hand' = <<>>
    /\ timer' = 0 /\ budget' = 0 /\ channel' = 0
    /\ UNCHANGED <<sse, eol, upstream, sent, parser, silence, client, owed>>

\* Start to send a chunk of the given parser's input.
Send(p, chunk) ==
    /\ parser' = Push(p, chunk)
    /\ hand' = chunk
    /\ budget' = WriteBudget

\* The bytes of the prefetched chunks.
Buffered(chunks) ==
    LET upto[i \in 0..Len(chunks)] == IF i = 0 THEN 0 ELSE upto[i - 1] + Len(chunks[i])
    IN  upto[Len(chunks)]

\* prepare_response: a chunk that exceeds the cap ends the attempt; the chunk
\* with the first event commits the answer, and the pump starts over with a
\* parser of its own and the first prefetched chunk.
Prefetch ==
    /\ phase = "prefetch" /\ wire # <<>>
    /\ \E n \in DOMAIN wire :
         LET chunks == Append(prefetched, Chunk(n))
             detector == Push(parser, Chunk(n))
         IN  IF Buffered(chunks) > Cap
               THEN End("end_before_first_event")
               ELSE /\ wire' = SubSeq(wire, n + 1, Len(wire))
                    /\ IF detector.events > 0
                         THEN /\ phase' = "flushing" /\ timer' = 0
                              /\ Send(NewParser, Head(chunks))
                              /\ prefetched' = Tail(chunks)
                         ELSE /\ parser' = detector
                              /\ prefetched' = chunks
                              /\ UNCHANGED <<phase, hand, timer, budget>>
                    /\ UNCHANGED <<sse, eol, upstream, sent, silence, channel,
                                   client, outcome, owed>>

\* A deadline that any byte moves.
RearmByBytes(events) == IF sse THEN InterEvent ELSE timer

\* pump_upstream reads a chunk: a complete event moves the deadline, counted
\* from the read, and the chunk is sent.
Rearm(events) == IF sse /\ events > 0 THEN InterEvent ELSE timer

Pull ==
    /\ phase = "pulling" /\ wire # <<>>
    /\ \E n \in DOMAIN wire :
         /\ wire' = SubSeq(wire, n + 1, Len(wire))
         /\ Send(parser, Chunk(n))
    /\ timer' = Rearm(IF sse THEN parser'.events - parser.events ELSE 0)
    /\ phase' = "sending"
    /\ UNCHANGED <<sse, eol, upstream, sent, prefetched, silence, channel, client,
                   outcome, owed>>

ReadEnds ==
    /\ Reading /\ wire = <<>> /\ upstream # "open"
    /\ End(CASE phase = "prefetch" /\ upstream = "eof" -> "end_before_first_event"
              [] phase = "prefetch" /\ upstream = "error" -> "network_error"
              [] phase = "pulling" /\ upstream = "eof" -> "completed"
              [] phase = "pulling" /\ upstream = "error" -> "upstream_error")

\* A deadline that is looked at before the stream.
DeadlineFirst ==
    /\ Reading /\ timer = 0
    /\ End(CASE phase = "prefetch" -> "no_first_event"
              [] phase = "pulling" /\ sse -> "event_idle_timeout"
              [] phase = "pulling" /\ ~sse -> "upstream_error")

ReadTimeout ==
    /\ Reading /\ timer = 0
    /\ wire = <<>> /\ upstream = "open"
    /\ End(CASE phase = "prefetch" -> "no_first_event"
              [] phase = "pulling" /\ sse -> "event_idle_timeout"
              [] phase = "pulling" /\ ~sse -> "upstream_error")

-----------------------------------------------------------------------------
(***************************************************************************)
(* Sending to the client (send_with_timeout).                              *)
(***************************************************************************)
Sending == phase \in {"flushing", "sending"}

\* Back to reading: the deadline on events starts when the prefetched chunks
\* are out and then runs on; any other body has one per read.
StartPulling ==
    /\ phase' = "pulling"
    /\ timer' = CASE phase = "flushing" -> InterEvent
                  [] phase = "sending" /\ sse -> timer
                  [] OTHER -> BodyIdle

\* A pump that forgets all prefetched chunks but the first.
SentFirstOnly ==
    /\ Sending /\ client = "present" /\ channel < ChannelCap
    /\ channel' = channel + 1
    /\ owed' = owed - Len(hand)
    /\ StartPulling
    /\ hand' = <<>> /\ prefetched' = <<>> /\ budget' = 0
    /\ UNCHANGED <<upstreamVars, parser, silence, client, outcome>>

Sent ==
    /\ Sending /\ client = "present" /\ channel < ChannelCap
    /\ channel' = channel + 1
    /\ owed' = owed - Len(hand)
    /\ IF prefetched # <<>>
         THEN /\ Send(parser, Head(prefetched))
              /\ prefetched' = Tail(prefetched)
              /\ UNCHANGED <<phase, timer>>
         ELSE /\ StartPulling
              /\ hand' = <<>> /\ budget' = 0
              /\ UNCHANGED <<parser, prefetched>>
    /\ UNCHANGED <<upstreamVars, silence, client, outcome>>

\* The client has not read for the whole budget, or is gone.
SendFails ==
    /\ Sending
    /\ client = "gone" \/ (budget = 0 /\ channel = ChannelCap)
    /\ End("client_cancel")

\* The select in stream_response: the notification ends the pump anywhere.
Cancelled ==
    /\ client = "gone" /\ phase # "over"
    /\ End("client_cancel")

-----------------------------------------------------------------------------
Task == Prefetch \/ Pull \/ ReadEnds \/ Sent \/ SendFails \/ Cancelled

\* The answer is over.
Done == phase = "over" /\ UNCHANGED vars

Next ==
    \/ \E b \in Tokens : Emit(b)
    \/ UpstreamEnds \/ ClientReads \/ ClientLeaves \/ Tick
    \/ Task \/ ReadTimeout
    \/ Done

Spec == Init /\ [][Next]_vars

\* Time passes, and the task runs when it is woken.  A read that finds nothing
\* looks at its deadline in the same poll, so a deadline that is met by such
\* reads again and again ends the wait.
FairSpec ==
    /\ Spec
    /\ WF_vars(Tick)
    /\ WF_vars(Task)
    /\ SF_vars(ReadTimeout)

-----------------------------------------------------------------------------
(***************************************************************************)
(* Properties.                                                             *)
(***************************************************************************)
CaughtUp == Reading /\ wire = <<>>

\* What the audit record says of a stream (upstream_events, and the usage of the
\* last event that has one) is what a client makes of the bytes it was sent,
\* wherever the chunks were cut and although the prefetched ones are parsed
\* twice; an event above the cap is not counted, and never misread
\* (SseUsageParser::push, consume_event).
SplittersAgree ==
    sse /\ CaughtUp =>
        /\ parser.events <= sent.events
        /\ ~parser.oversized => parser.events = sent.events /\ parser.usage = sent.usage

\* An upstream is only blamed for falling silent if it was: when the pump ends
\* for want of an event, none has come for the whole inter_event_timeout,
\* although the client may have held the pump up meanwhile (pump_upstream).
BlameEarned ==
    outcome = "event_idle_timeout" /\ ~parser.oversized => silence >= InterEvent

\* An answer counts as completed only at the upstream's regular end, with every
\* byte handed on, the prefetched ones included; and the usage of a body that
\* is not an event stream is read from the whole body or not at all
\* (pump_upstream, JsonUsageParser).
CompletedWhole ==
    outcome = "completed" =>
        /\ upstream = "eof" /\ owed = 0
        /\ ~sse => parser.overflowed \/ parser.buf = sent.data

\* An event stream whose events stop ends: bytes without events (comments, blank
\* lines) do not keep it alive, unless they come so fast that no read ever finds
\* the wire empty, and a client that stops reading does not either
\* (event_deadline, send_with_timeout).
StreamEnds == sse => <>(phase = "over") \/ <>[]~CaughtUp
=============================================================================
