----------------------------- MODULE SseParser -----------------------------
(***************************************************************************)
(* The side-band parsers of a forwarded body (SseUsageParser and           *)
(* JsonUsageParser of src/gateway.rs) and, as the reference for the first, *)
(* the decoder with which the load generator reads the gateway's answers   *)
(* (Decoder of tools/loadtest/loadgen/src/sse.rs).                         *)
(*                                                                         *)
(* A body is a sequence of tokens: "d" is the text of a data line, a JSON  *)
(* value with usage; "c" is any other text; "lf" and "cr" are the bytes of *)
(* line ends.  The cap counts tokens.                                      *)
(***************************************************************************)
EXTENDS Integers, Sequences, FiniteSets

CONSTANT Cap        \* SSE_EVENT_CAP and JSON_USAGE_CAP

ASSUME CapIsPositive == Cap \in Nat \ {0}

Tokens == {"d", "c", "lf", "cr"}

-----------------------------------------------------------------------------
(***************************************************************************)
(* SseUsageParser.  usage is the number of the event it was taken from;    *)
(* oversized is a history flag: some event was discarded for its size.     *)
(***************************************************************************)
NewParser == [buf |-> <<>>, tail |-> <<>>, discarding |-> FALSE,
              events |-> 0, usage |-> 0, oversized |-> FALSE]

DataLines(event) == {i \in DOMAIN event : /\ event[i] = "d"
                                          /\ i = 1 \/ event[i - 1] = "lf"}

\* One data line holds one JSON value; several joined by line ends do not.
CarriesUsage(event) == Cardinality(DataLines(event)) = 1

consume_event(p) ==
    IF DataLines(p.buf) = {} THEN p
    ELSE [p EXCEPT !.events = @ + 1,
                   !.usage = IF CarriesUsage(p.buf) THEN p.events + 1 ELSE @]

Ends_with(s, end) ==
    Len(end) <= Len(s) /\ SubSeq(s, Len(s) - Len(end) + 1, Len(s)) = end

Delimiters == {<<"lf", "lf">>, <<"cr", "lf", "cr", "lf">>}

\* The last four bytes since the last delimiter.
Shift(tail, b) == Append(IF Len(tail) = 4 THEN Tail(tail) ELSE tail, b)

\* A parser that looks at an event although its end was cut off.
PushTruncating(p, b) ==
    LET tail == Shift(p.tail, b) IN
    IF \E d \in Delimiters : Ends_with(tail, d)
      THEN [consume_event(p) EXCEPT !.buf = <<>>, !.tail = <<>>]
      ELSE [p EXCEPT !.tail = tail,
                     !.buf = IF Len(@) < Cap THEN Append(@, b) ELSE @]

\* One byte.  The buffer of a discarded event is not looked at again.
PushByte(p, b) ==
    LET tail == Shift(p.tail, b)
        fits == ~p.discarding /\ Len(p.buf) < Cap
    IN  IF \E d \in Delimiters : Ends_with(tail, d)
          THEN [(IF p.discarding THEN p ELSE consume_event(p))
                  EXCEPT !.buf = <<>>, !.tail = <<>>, !.discarding = FALSE]
          ELSE [p EXCEPT !.tail = tail,
                         !.buf = IF fits THEN Append(@, b) ELSE <<>>,
                         !.discarding = ~fits,
                         !.oversized = @ \/ ~fits]

PushSse(p, chunk) ==
    LET pushed[i \in 0..Len(chunk)] ==
            IF i = 0 THEN p ELSE PushByte(pushed[i - 1], chunk[i])
    IN  pushed[Len(chunk)]

-----------------------------------------------------------------------------
(***************************************************************************)
(* JsonUsageParser: the bytes of a body, unless it is larger than the cap. *)
(***************************************************************************)
NewJson == [buf |-> <<>>, overflowed |-> FALSE]

PushJson(p, chunk) ==
    IF p.overflowed \/ Len(p.buf) + Len(chunk) > Cap
      THEN [buf |-> <<>>, overflowed |-> TRUE]
      ELSE [p EXCEPT !.buf = @ \o chunk]

-----------------------------------------------------------------------------
(***************************************************************************)
(* Decoder, the reference.  Of the data lines of an event two are enough.  *)
(***************************************************************************)
NewDecoder == [line |-> <<>>, data |-> <<>>, events |-> 0, usage |-> 0]

StripCr(line) ==
    IF line # <<>> /\ line[Len(line)] = "cr" THEN SubSeq(line, 1, Len(line) - 1) ELSE line

EndEvent(d) ==
    IF d.data = <<>> THEN d
    ELSE [d EXCEPT !.events = @ + 1, !.data = <<>>,
                   !.usage = IF Len(d.data) = 1 THEN d.events + 1 ELSE @]

EndLine(d) ==
    LET line == StripCr(d.line)
        next == [d EXCEPT !.line = <<>>]
    IN  CASE line = <<>> -> EndEvent(next)
          [] line # <<>> /\ line[1] = "d" ->
               [next EXCEPT !.data = IF Len(@) < 2 THEN Append(@, line[1]) ELSE @]
          [] OTHER -> next

Decode(d, b) == IF b = "lf" THEN EndLine(d)
                ELSE [d EXCEPT !.line = Append(@, b)]
=============================================================================
