---------------------------- MODULE StreamProofs ----------------------------
(***************************************************************************)
(* One answer for any cap, deadlines, length of the body and chunks: the   *)
(* gateway's parser and a client read the same events from it, upstream is *)
(* blamed only for silence, and completed means whole.  The parts:         *)
(* sequences; the parser and the decoder take one byte; a chunk; the       *)
(* invariant; the steps of an event stream; those of any other body; the   *)
(* theorems.                                                               *)
(***************************************************************************)
EXTENDS Stream, FiniteSetTheorems, TLAPS

\* Most leaves are first-order: Zenon proves them.  The others name SMT.
USE ZenonT(30)

-----------------------------------------------------------------------------
(***************************************************************************)
(* Sequences.                                                              *)
(***************************************************************************)
\* A sequence is a function on the numbers up to its length.
LEMMA LengthFacts ==
    ASSUME NEW S, NEW s \in Seq(S)
    PROVE  Len(s) \in Nat /\ DOMAIN s = 1..Len(s) /\ s \in [1..Len(s) -> S]
BY SMTT(30)

\* Its elements are of the kind it is made of.
LEMMA ElementFact ==
    ASSUME NEW S, NEW s \in Seq(S), NEW i \in 1..Len(s)
    PROVE  s[i] \in S
BY SMTT(30)

\* The empty sequence is the only one of length 0.
LEMMA EmptyFacts ==
    ASSUME NEW S
    PROVE  /\ <<>> \in Seq(S) /\ Len(<<>>) = 0
           /\ \A s \in Seq(S) : s # <<>> => Len(s) \in Nat \ {0}
BY SMTT(30)

\* Two sequences with the same elements are the same.
LEMMA SameSequence ==
    ASSUME NEW S, NEW s \in Seq(S), NEW t \in Seq(S), Len(s) = Len(t),
           \A i \in 1..Len(s) : s[i] = t[i]
    PROVE  s = t
BY SMTT(30)

\* One more at the end: how queues, lists of attempts and buffers grow.
LEMMA AppendFacts ==
    ASSUME NEW S, NEW s \in Seq(S), NEW x \in S
    PROVE  /\ Append(s, x) \in Seq(S) /\ Append(s, x) # <<>>
           /\ Len(Append(s, x)) = Len(s) + 1 /\ Append(s, x)[Len(s) + 1] = x
           /\ \A i \in 1..Len(s) : Append(s, x)[i] = s[i]
BY SMTT(30)

\* One less at the front: how queues are read.
LEMMA TailFacts ==
    ASSUME NEW S, NEW s \in Seq(S), s # <<>>
    PROVE  /\ Head(s) \in S /\ Tail(s) \in Seq(S) /\ Len(Tail(s)) = Len(s) - 1
           /\ \A i \in 1..Len(Tail(s)) : Tail(s)[i] = s[i + 1]
BY SMTT(30)

\* One sequence after another.
LEMMA ConcatFacts ==
    ASSUME NEW S, NEW s \in Seq(S), NEW t \in Seq(S)
    PROVE  /\ s \o t \in Seq(S) /\ Len(s \o t) = Len(s) + Len(t)
           /\ \A i \in 1..Len(s) + Len(t) :
                (s \o t)[i] = IF i <= Len(s) THEN s[i] ELSE t[i - Len(s)]
BY SMTT(30)

\* Nothing before or after a sequence.
LEMMA ConcatEmpty ==
    ASSUME NEW S, NEW s \in Seq(S)
    PROVE  s \o <<>> = s /\ <<>> \o s = s
BY SMTT(30)

\* Three in a row.
LEMMA ConcatAssoc ==
    ASSUME NEW S, NEW s \in Seq(S), NEW t \in Seq(S), NEW u \in Seq(S)
    PROVE  (s \o t) \o u = s \o (t \o u)
BY SMTT(30)

\* To append is to put a sequence of one after.
LEMMA AppendAsConcat ==
    ASSUME NEW S, NEW s \in Seq(S), NEW x \in S
    PROVE  Append(s, x) = s \o <<x>>
BY SMTT(30)

\* A part of a sequence.
LEMMA SubSeqFacts ==
    ASSUME NEW S, NEW s, NEW m \in Int, NEW n \in Int, \A i \in m..n : s[i] \in S
    PROVE  /\ SubSeq(s, m, n) \in Seq(S)
           /\ Len(SubSeq(s, m, n)) = IF m <= n THEN n - m + 1 ELSE 0
           /\ \A i \in 1..n - m + 1 : SubSeq(s, m, n)[i] = s[m + i - 1]
BY SMTT(30)

\* A part that ends before it begins is empty.
LEMMA NoSubSeq ==
    ASSUME NEW s, NEW m \in Int, NEW n \in Int, n < m
    PROVE  SubSeq(s, m, n) = <<>>
BY SMTT(30)

\* The whole is a part of itself.
LEMMA WholeSubSeq ==
    ASSUME NEW S, NEW s \in Seq(S)
    PROVE  SubSeq(s, 1, Len(s)) = s
BY SMTT(30)

\* Two parts that meet make one.
LEMMA AdjacentSubSeqs ==
    ASSUME NEW S, NEW s \in Seq(S), NEW m \in 1..Len(s) + 1,
           NEW k \in m - 1..Len(s), NEW n \in k..Len(s)
    PROVE  SubSeq(s, m, k) \o SubSeq(s, k + 1, n) = SubSeq(s, m, n)
BY SMTT(30)

-----------------------------------------------------------------------------
(***************************************************************************)
(* The splitter and the decoder, byte by byte.                             *)
(***************************************************************************)
Decoder == [line : Seq(Tokens), data : Seq({"d"}), events : Nat, usage : Nat]

\* SseUsageParser, and a decoder of the load generator, in any state.
SseParsers == [buf : Seq(Tokens), tail : Seq(Tokens), discarding : BOOLEAN,
               events : Nat, usage : Nat, oversized : BOOLEAN]

\* The bytes of a line, its end left aside.
Text == {"d", "c"}

\* The element i places before the last.
At(t, i) == t[Len(t) - i]

\* The last bytes end an event.
Delimited(t) == \E d \in Delimiters : Ends_with(t, d)

\* The last bytes since a delimiter are those of the decoder's line and of the
\* line end before it.
TailOfLine(e, t, line) ==
    \/ /\ line = <<>>
       /\ \/ t = <<>>
          \/ e = "lf" /\ Len(t) >= 1 /\ At(t, 0) = "lf"
          \/ e = "cr" /\ Len(t) >= 2 /\ At(t, 0) = "lf" /\ At(t, 1) = "cr"
    \/ \E x \in Text : line = <<x>> /\ Len(t) >= 1 /\ At(t, 0) = x
    \/ e = "cr" /\ \E x \in Text : /\ line = <<x, "cr">> /\ Len(t) >= 2
                                   /\ At(t, 0) = "cr" /\ At(t, 1) = x
    \/ /\ e = "cr" /\ line = <<"cr">> /\ Len(t) >= 1 /\ At(t, 0) = "cr"
       /\ Len(t) = 1 \/ (Len(t) >= 3 /\ At(t, 1) = "lf" /\ At(t, 2) = "cr")

\* Nothing, or no more than one blank line, since the last delimiter.
Young(e, t) == \/ t = <<>>
               \/ Len(t) = 1 /\ At(t, 0) = e
               \/ e = "cr" /\ Len(t) = 2 /\ At(t, 0) = "lf"

\* The data lines of the buffer are the decoder's, and the one it is in.
Unended(line) == IF line # <<>> /\ line[1] = "d" THEN 1 ELSE 0

\* The decoder keeps the data lines themselves, the parser the bytes: none, one
\* and more of them is all that either looks at.
SameData(buf, d) ==
    LET k == Cardinality(DataLines(buf)) - Unended(d.line)
    IN  k \in Nat /\ (k = 0 <=> Len(d.data) = 0) /\ (k = 1 <=> Len(d.data) = 1)

\* The buffer since the last delimiter, unless the event is being discarded.
SameBuffer(p, d) ==
    /\ p.buf = <<>> <=> p.tail = <<>>
    /\ p.tail # <<>> => At(p.buf, 0) = At(p.tail, 0)
    /\ SameData(p.buf, d)

\* What the two have counted.
SameCounts(p, d) ==
    /\ p.events <= d.events
    /\ ~p.oversized => p.events = d.events /\ p.usage = d.usage

\* What the parser knows of the bytes that the decoder has read.
Agree(e, p, d) ==
    /\ p \in SseParsers /\ d \in Decoder
    /\ Len(p.tail) <= 4 /\ TailOfLine(e, p.tail, d.line)
    /\ Young(e, p.tail) => d.data = <<>>
    /\ ~p.discarding => SameBuffer(p, d)
    /\ p.discarding => p.oversized
    /\ SameCounts(p, d)

\* MayFollow, of any decoder.
Regular(e, line, b) ==
    LET afterCr == line # <<>> /\ line[Len(line)] = "cr"
    IN  CASE b = "cr" -> e = "cr" /\ ~afterCr
          [] b = "lf" -> (e = "cr") = afterCr
          [] OTHER -> line = <<>>

\* The last four bytes, one byte later.
LEMMA ShiftFacts ==
    ASSUME NEW t \in Seq(Tokens), NEW b \in Tokens, Len(t) <= 4
    PROVE  /\ Shift(t, b) \in Seq(Tokens) /\ Shift(t, b) # <<>>
           /\ Len(Shift(t, b)) = IF Len(t) = 4 THEN 4 ELSE Len(t) + 1
           /\ At(Shift(t, b), 0) = b
           /\ Len(t) >= 1 => At(Shift(t, b), 1) = At(t, 0)
           /\ Len(t) >= 2 => At(Shift(t, b), 2) = At(t, 1)
           /\ Len(t) >= 3 => At(Shift(t, b), 3) = At(t, 2)
<1>0. Len(t) \in Nat
  BY LengthFacts
<1>1. ASSUME NEW s \in Seq(Tokens)
      PROVE  /\ Append(s, b) \in Seq(Tokens) /\ Append(s, b) # <<>>
             /\ Len(Append(s, b)) = Len(s) + 1 /\ Len(s) \in Nat
             /\ At(Append(s, b), 0) = b
             /\ \A i \in Nat : i < Len(s) => At(Append(s, b), i + 1) = At(s, i)
  <2>1. /\ Append(s, b) \in Seq(Tokens) /\ Append(s, b) # <<>>
        /\ Len(Append(s, b)) = Len(s) + 1
        /\ \A i \in 1..Len(s) : Append(s, b)[i] = s[i]
        /\ Append(s, b)[Len(s) + 1] = b
    BY AppendFacts, SMTT(30)
  <2>2. Len(s) \in Nat
    BY LengthFacts
  <2>3. At(Append(s, b), 0) = b
    BY <2>1, <2>2, SMTT(30) DEF At
  <2>4. ASSUME NEW i \in Nat, i < Len(s) PROVE At(Append(s, b), i + 1) = At(s, i)
    <3>1. Len(Append(s, b)) - (i + 1) = Len(s) - i /\ Len(s) - i \in 1..Len(s)
      BY <2>1, <2>2, <2>4, SMTT(30)
    <3> QED
      BY <2>1, <3>1 DEF At
  <2> QED
    BY <2>1, <2>2, <2>3, <2>4
<1>2. CASE Len(t) = 4
  <2>1. /\ Tail(t) \in Seq(Tokens) /\ Len(Tail(t)) = 3
        /\ \A i \in 1..3 : Tail(t)[i] = t[i + 1]
    <3>1. t # <<>>
      BY <1>2, EmptyFacts, SMTT(30)
    <3>2. /\ Tail(t) \in Seq(Tokens) /\ Len(Tail(t)) = Len(t) - 1
          /\ \A i \in 1..Len(Tail(t)) : Tail(t)[i] = t[i + 1]
      BY <3>1, TailFacts
    <3>3. Len(t) - 1 = 3
      BY <1>2, SMTT(30)
    <3> QED
      BY <3>2, <3>3
  <2>2. \A i \in 0..2 : At(Tail(t), i) = At(t, i)
    <3> SUFFICES ASSUME NEW i \in 0..2 PROVE Tail(t)[3 - i] = t[4 - i]
      BY <1>2, <2>1 DEF At
    <3>1. 3 - i \in 1..3 /\ (3 - i) + 1 = 4 - i
      BY SMTT(30)
    <3> QED
      BY <2>1, <3>1
  <2>3. PICK s \in Seq(Tokens) : s = Tail(t)
    BY <2>1
  <2>4. Shift(t, b) = Append(s, b)
    BY <1>2, <2>3 DEF Shift
  <2>5. Len(s) = 3 /\ \A i \in 0..2 : At(s, i) = At(t, i)
    BY <2>1, <2>2, <2>3
  <2>6. At(Append(s, b), 0 + 1) = At(s, 0) /\ At(Append(s, b), 1 + 1) = At(s, 1)
        /\ At(Append(s, b), 2 + 1) = At(s, 2)
    <3>1. 0 \in Nat /\ 1 \in Nat /\ 2 \in Nat /\ 0 < Len(s) /\ 1 < Len(s) /\ 2 < Len(s)
      BY <2>5, SMTT(30)
    <3> QED
      BY <1>1, <3>1
  <2>7. /\ Append(s, b) \in Seq(Tokens) /\ Append(s, b) # <<>>
        /\ Len(Append(s, b)) = 4 /\ At(Append(s, b), 0) = b
    <3>1. Len(s) + 1 = 4
      BY <2>5, SMTT(30)
    <3> QED
      BY <1>1, <3>1
  <2>8. At(s, 0) = At(t, 0) /\ At(s, 1) = At(t, 1) /\ At(s, 2) = At(t, 2)
    BY <2>5, SMTT(30)
  <2>9. 0 + 1 = 1 /\ 1 + 1 = 2 /\ 2 + 1 = 3
    BY SMTT(30)
  <2> QED
    BY <1>2, <2>4, <2>6, <2>7, <2>8, <2>9
<1>3. CASE Len(t) # 4
  <2>1. Shift(t, b) = Append(t, b)
    BY <1>3 DEF Shift
  <2>2. /\ Len(t) >= 1 => At(Append(t, b), 0 + 1) = At(t, 0)
        /\ Len(t) >= 2 => At(Append(t, b), 1 + 1) = At(t, 1)
        /\ Len(t) >= 3 => At(Append(t, b), 2 + 1) = At(t, 2)
    BY <1>0, <1>1, SMTT(30)
  <2> QED
    BY <1>0, <1>1, <1>3, <2>1, <2>2, SMTT(30)
<1> QED
  BY <1>2, <1>3

\* What the last bytes end with, byte by byte.
LEMMA EndsWithFacts ==
    ASSUME NEW s \in Seq(Tokens), NEW end \in Seq(Tokens)
    PROVE  Ends_with(s, end) <=>
             /\ Len(end) <= Len(s)
             /\ \A i \in 1..Len(end) : s[(Len(s) - Len(end)) + i] = end[i]
<1>0. Len(s) \in Nat /\ Len(end) \in Nat
  BY LengthFacts
<1>1. CASE Len(end) <= Len(s)
  <2>1. PICK from \in Nat : from = Len(s) - Len(end)
    BY <1>0, <1>1, SMTT(30)
  <2>2. /\ from + 1 \in 1..(Len(s) + 1) /\ Len(s) - (from + 1) + 1 = Len(end)
        /\ \A i \in 1..Len(end) : (from + 1) + i - 1 = from + i
        /\ Len(s) \in from..Len(s)
    BY <1>0, <2>1, SMTT(30)
  <2>3. PICK u \in Seq(Tokens) : u = SubSeq(s, from + 1, Len(s))
    <3>1. SubSeq(s, from + 1, Len(s)) \in Seq(Tokens)
      BY <1>0, <2>1, <2>2, SMTT(30)
    <3> QED
      BY <3>1
  <2>4. Len(u) = Len(end) /\ \A i \in 1..Len(end) : u[i] = s[from + i]
    BY <1>0, <1>1, <2>1, <2>2, <2>3, SMTT(30)
  <2>5. u = end <=> \A i \in 1..Len(end) : u[i] = end[i]
    BY <2>4, SameSequence
  <2> QED
    BY <1>1, <2>1, <2>3, <2>4, <2>5 DEF Ends_with
<1>2. CASE ~(Len(end) <= Len(s))
  BY <1>2 DEF Ends_with
<1> QED
  BY <1>1, <1>2

\* A delimiter at the end of the last bytes.
LEMMA DelimitedFacts ==
    ASSUME NEW t \in Seq(Tokens)
    PROVE  Delimited(t) <=>
             \/ Len(t) >= 2 /\ At(t, 0) = "lf" /\ At(t, 1) = "lf"
             \/ /\ Len(t) >= 4 /\ At(t, 0) = "lf" /\ At(t, 1) = "cr"
                /\ At(t, 2) = "lf" /\ At(t, 3) = "cr"
<1>0. Len(t) \in Nat
  BY LengthFacts
<1>1. Ends_with(t, <<"lf", "lf">>) <=> Len(t) >= 2 /\ At(t, 0) = "lf" /\ At(t, 1) = "lf"
  <2>1. <<"lf", "lf">> \in Seq(Tokens)
    BY SMTT(30) DEF Tokens
  <2>2. PICK u \in Seq(Tokens) : u = <<"lf", "lf">>
    BY <2>1
  <2>3. Len(u) = 2 /\ u[1] = "lf" /\ u[2] = "lf"
    BY <2>2
  <2>4. Ends_with(t, u) <=> Len(t) >= 2 /\ \A i \in 1..2 : t[(Len(t) - 2) + i] = u[i]
    <3>1. Ends_with(t, u) <=> /\ Len(u) <= Len(t)
                              /\ \A i \in 1..Len(u) : t[(Len(t) - Len(u)) + i] = u[i]
      BY EndsWithFacts
    <3>2. 2 <= Len(t) <=> Len(t) >= 2
      BY <1>0
    <3> QED
      BY <2>3, <3>1, <3>2
  <2>5. (\A i \in 1..2 : t[(Len(t) - 2) + i] = u[i])
          <=> t[(Len(t) - 2) + 1] = u[1] /\ t[(Len(t) - 2) + 2] = u[2]
    BY SMTT(30)
  <2>6. (Len(t) - 2) + 1 = Len(t) - 1 /\ (Len(t) - 2) + 2 = Len(t) - 0
    BY <1>0, SMTT(30)
  <2> QED
    BY <2>2, <2>3, <2>4, <2>5, <2>6 DEF At
<1>2. Ends_with(t, <<"cr", "lf", "cr", "lf">>) <=>
             /\ Len(t) >= 4 /\ At(t, 0) = "lf" /\ At(t, 1) = "cr"
             /\ At(t, 2) = "lf" /\ At(t, 3) = "cr"
  <2>1. <<"cr", "lf", "cr", "lf">> \in Seq(Tokens)
    BY SMTT(30) DEF Tokens
  <2>2. PICK u \in Seq(Tokens) : u = <<"cr", "lf", "cr", "lf">>
    BY <2>1
  <2>3. Len(u) = 4 /\ u[1] = "cr" /\ u[2] = "lf" /\ u[3] = "cr" /\ u[4] = "lf"
    BY <2>2
  <2>4. Ends_with(t, u) <=> Len(t) >= 4 /\ \A i \in 1..4 : t[(Len(t) - 4) + i] = u[i]
    <3>1. Ends_with(t, u) <=> /\ Len(u) <= Len(t)
                              /\ \A i \in 1..Len(u) : t[(Len(t) - Len(u)) + i] = u[i]
      BY EndsWithFacts
    <3>2. 4 <= Len(t) <=> Len(t) >= 4
      BY <1>0
    <3> QED
      BY <2>3, <3>1, <3>2
  <2>5. (\A i \in 1..4 : t[(Len(t) - 4) + i] = u[i])
          <=> /\ t[(Len(t) - 4) + 1] = u[1] /\ t[(Len(t) - 4) + 2] = u[2]
              /\ t[(Len(t) - 4) + 3] = u[3] /\ t[(Len(t) - 4) + 4] = u[4]
    BY SMTT(30)
  <2>6. /\ (Len(t) - 4) + 1 = Len(t) - 3 /\ (Len(t) - 4) + 2 = Len(t) - 2
        /\ (Len(t) - 4) + 3 = Len(t) - 1 /\ (Len(t) - 4) + 4 = Len(t) - 0
    BY <1>0, SMTT(30)
  <2> QED
    BY <2>2, <2>3, <2>4, <2>5, <2>6 DEF At
<1> QED
  BY <1>1, <1>2 DEF Delimited, Delimiters

\* The data lines of a buffer, one byte later.
LEMMA LinesFacts ==
    ASSUME NEW s \in Seq(Tokens), NEW b \in Tokens
    PROVE  /\ DataLines(s) \subseteq 1..Len(s)
           /\ IsFiniteSet(DataLines(s)) /\ Cardinality(DataLines(s)) \in Nat
           /\ DataLines(<<>>) = {} /\ Cardinality(DataLines(<<>>)) = 0
           /\ (DataLines(s) = {} <=> Cardinality(DataLines(s)) = 0)
           /\ Cardinality(DataLines(Append(s, b))) =
                IF b = "d" /\ (s = <<>> \/ At(s, 0) = "lf")
                THEN Cardinality(DataLines(s)) + 1 ELSE Cardinality(DataLines(s))
<1>0. Len(s) \in Nat /\ DOMAIN s = 1..Len(s)
  BY LengthFacts
<1>1. DataLines(s) \subseteq 1..Len(s)
  BY <1>0 DEF DataLines
<1>2. IsFiniteSet(DataLines(s)) /\ Cardinality(DataLines(s)) \in Nat
  <2>1. IsFiniteSet(1..Len(s))
    BY <1>0, FS_Interval, SMTT(30)
  <2> QED
    BY <1>1, <2>1, FS_Subset, FS_CardinalityType
<1>3. DataLines(<<>>) = {} /\ Cardinality(DataLines(<<>>)) = 0
  BY FS_EmptySet, SMTT(30) DEF DataLines
<1>4. DataLines(s) = {} <=> Cardinality(DataLines(s)) = 0
  BY <1>2, FS_EmptySet
<1>5. /\ Len(Append(s, b)) = Len(s) + 1 /\ DOMAIN Append(s, b) = 1..(Len(s) + 1)
      /\ \A i \in 1..Len(s) : Append(s, b)[i] = s[i]
      /\ Append(s, b)[Len(s) + 1] = b
  <2>1. Append(s, b) \in Seq(Tokens)
    BY AppendFacts
  <2>2. DOMAIN Append(s, b) = 1..Len(Append(s, b))
    BY <2>1, LengthFacts
  <2> QED
    BY <2>2, AppendFacts, SMTT(30)
<1>6. DataLines(Append(s, b)) =
        IF b = "d" /\ (s = <<>> \/ At(s, 0) = "lf") THEN DataLines(s) \cup {Len(s) + 1}
        ELSE DataLines(s)
  <2> DEFINE q == Append(s, b)
  <2>1. s = <<>> <=> Len(s) = 0
    BY EmptyFacts
  <2>2. \A i \in 1..Len(s) : i \in DataLines(q) <=> i \in DataLines(s)
    BY <1>0, <1>5, SMTT(30) DEF DataLines
  <2>3. Len(s) + 1 \in DataLines(q) <=> b = "d" /\ (Len(s) = 0 \/ s[Len(s)] = "lf")
    <3>1. Len(s) # 0 => q[Len(s)] = s[Len(s)]
      <4>1. Len(s) # 0 => Len(s) \in 1..Len(s)
        BY <1>0, SMTT(30)
      <4> QED
        BY <1>5, <4>1
    <3>2. /\ Len(s) + 1 \in DOMAIN q /\ q[Len(s) + 1] = b /\ (Len(s) + 1) - 1 = Len(s)
          /\ Len(s) + 1 = 1 <=> Len(s) = 0
      BY <1>0, <1>5, SMTT(30)
    <3> HIDE DEF q
    <3> QED
      BY <3>1, <3>2 DEF DataLines
  <2>4. DataLines(q) \subseteq 1..(Len(s) + 1)
    BY <1>5 DEF DataLines
  <2>5. 1..(Len(s) + 1) = 1..Len(s) \cup {Len(s) + 1} /\ Len(s) + 1 \notin 1..Len(s)
    BY <1>0, SMTT(30)
  <2>6. At(s, 0) = s[Len(s)]
    BY <1>0, SMTT(30) DEF At
  <2>7. PICK n : n = Len(s) + 1
    OBVIOUS
  <2>8. PICK D : D = DataLines(q)
    OBVIOUS
  <2>9. /\ D \subseteq 1..Len(s) \cup {n} /\ DataLines(s) \subseteq 1..Len(s)
        /\ \A i \in 1..Len(s) : i \in D <=> i \in DataLines(s)
        /\ n \in D <=> b = "d" /\ (s = <<>> \/ At(s, 0) = "lf")
    BY <1>1, <2>1, <2>2, <2>3, <2>4, <2>5, <2>6, <2>7, <2>8
  <2>10. D = IF b = "d" /\ (s = <<>> \/ At(s, 0) = "lf") THEN DataLines(s) \cup {n}
             ELSE DataLines(s)
    <3>1. CASE n \in D
      <4>1. D = DataLines(s) \cup {n}
        BY <2>9, <3>1
      <4> QED
        BY <2>9, <3>1, <4>1
    <3>2. CASE n \notin D
      <4>1. D = DataLines(s)
        BY <2>9, <3>2
      <4> QED
        BY <2>9, <3>2, <4>1
    <3> QED
      BY <3>1, <3>2
  <2> QED
    BY <2>7, <2>8, <2>10
<1>7. Len(s) + 1 \notin DataLines(s)
  BY <1>0, <1>1, SMTT(30)
<1>8. Cardinality(DataLines(s) \cup {Len(s) + 1}) = Cardinality(DataLines(s)) + 1
  BY <1>2, <1>7, FS_AddElement
<1> QED
  BY <1>1, <1>2, <1>3, <1>4, <1>6, <1>8

\* A byte that ends no event.
LEMMA PlainByte ==
    ASSUME NEW p \in SseParsers, NEW b \in Tokens, Len(p.tail) <= 4,
           ~Delimited(Shift(p.tail, b)), NEW q, q = PushByte(p, b)
    PROVE  /\ q \in SseParsers /\ q.tail = Shift(p.tail, b) /\ Len(q.tail) <= 4
           /\ q.events = p.events /\ q.usage = p.usage
           /\ ~q.discarding => ~p.discarding /\ q.buf = Append(p.buf, b)
           /\ q.discarding => q.oversized
           /\ ~q.oversized => ~p.oversized
<1> DEFINE t == Shift(p.tail, b)
           fits == ~p.discarding /\ Len(p.buf) < Cap
<1>0. p.tail \in Seq(Tokens) /\ p.buf \in Seq(Tokens) /\ Len(p.tail) \in Nat
  BY LengthFacts DEF SseParsers
<1>1. t \in Seq(Tokens) /\ Len(t) <= 4
  <2>1. t \in Seq(Tokens) /\ Len(t) = IF Len(p.tail) = 4 THEN 4 ELSE Len(p.tail) + 1
    BY <1>0, ShiftFacts
  <2> HIDE DEF t
  <2>2. CASE Len(p.tail) = 4
    BY <2>1, <2>2
  <2>3. CASE Len(p.tail) # 4
    <3>1. Len(p.tail) + 1 <= 4
      <4>1. \A n \in Nat : n <= 4 /\ n # 4 => n + 1 <= 4
        BY SMTT(30)
      <4> QED
        BY <1>0, <2>3, <4>1
    <3> QED
      BY <2>1, <2>3, <3>1
  <2> QED
    BY <2>2, <2>3
<1>2. Append(p.buf, b) \in Seq(Tokens) /\ <<>> \in Seq(Tokens) /\ fits \in BOOLEAN
  BY <1>0, AppendFacts, EmptyFacts
<1>3. q = [p EXCEPT !.tail = t, !.buf = IF fits THEN Append(@, b) ELSE <<>>,
                    !.discarding = ~fits, !.oversized = @ \/ ~fits]
  BY DEF PushByte, Delimited
<1> HIDE DEF t
<1>4. /\ q \in SseParsers /\ q.tail = t /\ q.events = p.events /\ q.usage = p.usage
      /\ q.discarding = ~fits /\ q.oversized = (p.oversized \/ ~fits)
      /\ fits => q.buf = Append(p.buf, b)
  BY <1>0, <1>1, <1>2, <1>3 DEF SseParsers
<1>5. q.tail = Shift(p.tail, b) /\ Len(q.tail) <= 4
  BY <1>1, <1>4 DEF t
<1>6. ~q.discarding => ~p.discarding /\ q.buf = Append(p.buf, b)
  BY <1>4
<1>7. (q.discarding => q.oversized) /\ (~q.oversized => ~p.oversized)
  <2> HIDE DEF fits
  <2> QED
    BY <1>2, <1>4
<1> QED
  BY <1>4, <1>5, <1>6, <1>7

\* The byte that ends an event.
LEMMA LastByte ==
    ASSUME NEW p \in SseParsers, NEW b \in Tokens, Delimited(Shift(p.tail, b)),
           NEW q, q = PushByte(p, b)
    PROVE  /\ q \in SseParsers /\ q.tail = <<>> /\ q.buf = <<>> /\ ~q.discarding
           /\ q.oversized = p.oversized
           /\ p.discarding \/ DataLines(p.buf) = {} => q.events = p.events /\ q.usage = p.usage
           /\ ~p.discarding /\ DataLines(p.buf) # {} =>
                /\ q.events = p.events + 1
                /\ q.usage = IF Cardinality(DataLines(p.buf)) = 1 THEN p.events + 1 ELSE p.usage
<1> DEFINE c == IF p.discarding THEN p ELSE consume_event(p)
<1>1. q = [c EXCEPT !.buf = <<>>, !.tail = <<>>, !.discarding = FALSE]
  BY DEF PushByte, Delimited
<1>2. <<>> \in Seq(Tokens)
  BY EmptyFacts
<1>3. /\ c \in SseParsers /\ c.oversized = p.oversized
      /\ p.discarding \/ DataLines(p.buf) = {} => c.events = p.events /\ c.usage = p.usage
      /\ ~p.discarding /\ DataLines(p.buf) # {} =>
           /\ c.events = p.events + 1
           /\ c.usage = IF Cardinality(DataLines(p.buf)) = 1 THEN p.events + 1 ELSE p.usage
  <2>1. CASE p.discarding \/ DataLines(p.buf) = {}
    BY <2>1 DEF consume_event
  <2>2. CASE ~p.discarding /\ DataLines(p.buf) # {}
    <3>1. c = [p EXCEPT !.events = @ + 1,
                        !.usage = IF CarriesUsage(p.buf) THEN p.events + 1 ELSE @]
      BY <2>2 DEF consume_event
    <3> HIDE DEF c
    <3>2. p.events + 1 \in Nat /\ (IF CarriesUsage(p.buf) THEN p.events + 1 ELSE p.usage) \in Nat
      BY SMTT(30) DEF SseParsers
    <3>3. /\ c.oversized = p.oversized /\ c.events = p.events + 1
          /\ c.usage = IF Cardinality(DataLines(p.buf)) = 1 THEN p.events + 1 ELSE p.usage
      BY <3>1 DEF SseParsers, CarriesUsage
    <3>4. c \in SseParsers
      BY <3>1, <3>2 DEF SseParsers
    <3> QED
      BY <2>2, <3>3, <3>4
  <2> QED
    BY <2>1, <2>2
<1> HIDE DEF c
<1>4. q \in SseParsers /\ q.tail = <<>> /\ q.buf = <<>> /\ ~q.discarding
      /\ q.oversized = c.oversized /\ q.events = c.events /\ q.usage = c.usage
  BY <1>1, <1>2, <1>3 DEF SseParsers
<1> QED
  BY <1>3, <1>4

\* The buffer after a byte that ends no event.
LEMMA BufferOn ==
    ASSUME NEW e, NEW p, NEW d, Agree(e, p, d), NEW b \in Tokens, ~Delimited(Shift(p.tail, b)),
           NEW q, q = PushByte(p, b), NEW f \in Decoder, f.data = d.data,
           f.events = d.events, f.usage = d.usage,
           Unended(f.line) =
             IF b = "d" /\ (p.tail = <<>> \/ At(p.tail, 0) = "lf") THEN 1 ELSE Unended(d.line),
           (b = "d" /\ (p.tail = <<>> \/ At(p.tail, 0) = "lf")) => Unended(d.line) = 0
    PROVE  (~q.discarding => SameBuffer(q, f)) /\ SameCounts(q, f)
<1>0. /\ p \in SseParsers /\ d \in Decoder /\ Len(p.tail) <= 4
      /\ p.tail \in Seq(Tokens) /\ p.buf \in Seq(Tokens)
  BY DEF Agree, SseParsers
<1>1. /\ q.tail = Shift(p.tail, b) /\ q.events = p.events /\ q.usage = p.usage
      /\ ~q.discarding => ~p.discarding /\ q.buf = Append(p.buf, b)
      /\ ~q.oversized => ~p.oversized
  BY <1>0, PlainByte, SMTT(30)
<1>2. SameCounts(q, f)
  BY <1>1 DEF Agree, SameCounts
<1>3. ASSUME ~q.discarding PROVE SameBuffer(q, f)
  <2>1. SameBuffer(p, d)
    BY <1>1, <1>3 DEF Agree
  <2>2. q.tail # <<>> /\ At(q.tail, 0) = b
    BY <1>0, <1>1, ShiftFacts, SMTT(30)
  <2>3. q.buf # <<>> /\ At(q.buf, 0) = b
    <3>1. PICK s \in Seq(Tokens) : s = p.buf
      BY <1>0
    <3>2. /\ Append(s, b) # <<>> /\ Append(s, b)[Len(s) + 1] = b
          /\ Len(Append(s, b)) = Len(s) + 1 /\ Len(s) \in Nat
      BY AppendFacts, LengthFacts, SMTT(30)
    <3> QED
      BY <1>1, <1>3, <3>1, <3>2, SMTT(30) DEF At
  <2>4. Cardinality(DataLines(q.buf)) =
          IF b = "d" /\ (p.tail = <<>> \/ At(p.tail, 0) = "lf")
          THEN Cardinality(DataLines(p.buf)) + 1 ELSE Cardinality(DataLines(p.buf))
    <3>1. Cardinality(DataLines(Append(p.buf, b))) =
            IF b = "d" /\ (p.buf = <<>> \/ At(p.buf, 0) = "lf")
            THEN Cardinality(DataLines(p.buf)) + 1 ELSE Cardinality(DataLines(p.buf))
      BY <1>0, LinesFacts
    <3>2. (p.buf = <<>> \/ At(p.buf, 0) = "lf") <=> (p.tail = <<>> \/ At(p.tail, 0) = "lf")
      BY <2>1 DEF SameBuffer
    <3> QED
      BY <1>1, <1>3, <3>1, <3>2
  <2>5. SameData(q.buf, f)
    <3>1. Cardinality(DataLines(p.buf)) \in Nat
      BY <1>0, LinesFacts
    <3>2. SameData(p.buf, d)
      BY <2>1 DEF SameBuffer
    <3>3. PICK m \in Nat : m = Cardinality(DataLines(p.buf))
      BY <3>1
    <3>4. Cardinality(DataLines(q.buf)) - Unended(f.line) = m - Unended(d.line)
      <4>1. Unended(d.line) \in {0, 1}
        BY DEF Unended
      <4>2. CASE b = "d" /\ (p.tail = <<>> \/ At(p.tail, 0) = "lf")
        BY <2>4, <3>3, <4>1, <4>2, SMTT(30)
      <4>3. CASE ~(b = "d" /\ (p.tail = <<>> \/ At(p.tail, 0) = "lf"))
        BY <2>4, <3>3, <4>1, <4>3
      <4> QED
        BY <4>2, <4>3
    <3> QED
      BY <3>2, <3>3, <3>4 DEF SameData
  <2> QED
    BY <2>2, <2>3, <2>5 DEF SameBuffer
<1> QED
  BY <1>2, <1>3

\* The number of last bytes, one byte later.
LEMMA Lengths ==
    ASSUME NEW m \in 0..4, NEW n, n = IF m = 4 THEN 4 ELSE m + 1
    PROVE  /\ n \in 1..4
           /\ (m = 0 => n = 1) /\ (m = 1 => n = 2)
           /\ (m >= 1 => n >= 2 /\ n # 1)
           /\ (m >= 2 => n >= 3 /\ n # 1 /\ n # 2 /\ m >= 1)
           /\ (m >= 3 => n = 4 /\ m >= 1 /\ m >= 2)
  BY SMTT(30)

\* What the parser and its last bytes are after a byte that ends no event.
LEMMA PlainTail ==
    ASSUME NEW e, NEW p, NEW d, Agree(e, p, d), NEW b \in Tokens, NEW q, q = PushByte(p, b),
           ~Delimited(Shift(p.tail, b))
    PROVE  /\ q \in SseParsers /\ Len(q.tail) <= 4 /\ (q.discarding => q.oversized)
           /\ q.tail \in Seq(Tokens) /\ q.tail # <<>> /\ Len(p.tail) \in 0..4
           /\ Len(q.tail) = IF Len(p.tail) = 4 THEN 4 ELSE Len(p.tail) + 1
           /\ At(q.tail, 0) = b
           /\ Len(p.tail) >= 1 => At(q.tail, 1) = At(p.tail, 0)
           /\ Len(p.tail) >= 2 => At(q.tail, 2) = At(p.tail, 1)
           /\ Len(p.tail) >= 3 => At(q.tail, 3) = At(p.tail, 2)
<1>1. p \in SseParsers /\ Len(p.tail) <= 4 /\ p.tail \in Seq(Tokens)
  BY DEF Agree, SseParsers
<1>2. /\ q \in SseParsers /\ q.tail = Shift(p.tail, b) /\ Len(q.tail) <= 4
      /\ q.discarding => q.oversized
  BY <1>1, PlainByte, ZenonT(30), SMTT(30)
<1>3. Len(p.tail) \in 0..4
  <2>1. Len(p.tail) \in Nat
    BY <1>1, LengthFacts
  <2>2. \A n \in Nat : n <= 4 => n \in 0..4
    BY SMTT(30)
  <2> QED
    BY <1>1, <2>1, <2>2
<1>4. /\ Shift(p.tail, b) \in Seq(Tokens) /\ Shift(p.tail, b) # <<>>
      /\ Len(Shift(p.tail, b)) = IF Len(p.tail) = 4 THEN 4 ELSE Len(p.tail) + 1
      /\ At(Shift(p.tail, b), 0) = b
      /\ Len(p.tail) >= 1 => At(Shift(p.tail, b), 1) = At(p.tail, 0)
      /\ Len(p.tail) >= 2 => At(Shift(p.tail, b), 2) = At(p.tail, 1)
      /\ Len(p.tail) >= 3 => At(Shift(p.tail, b), 3) = At(p.tail, 2)
  BY <1>1, ShiftFacts
<1> QED
  BY <1>2, <1>3, <1>4

\* Which bytes end an event.
LEMMA DelimitedWhen ==
    ASSUME NEW e, NEW p, NEW d, Agree(e, p, d), NEW b \in Tokens
    PROVE  Delimited(Shift(p.tail, b)) <=>
             /\ b = "lf" /\ Len(p.tail) >= 1
             /\ \/ At(p.tail, 0) = "lf"
                \/ /\ Len(p.tail) >= 3 /\ At(p.tail, 0) = "cr"
                   /\ At(p.tail, 1) = "lf" /\ At(p.tail, 2) = "cr"
<1>1. p.tail \in Seq(Tokens) /\ Len(p.tail) <= 4 /\ Len(p.tail) \in Nat
  BY LengthFacts DEF Agree, SseParsers
<1>2. PICK t \in Seq(Tokens) : t = p.tail
  BY <1>1
<1>3. PICK n \in 0..4 : n = Len(t)
  <2>1. \A n \in Nat : n <= 4 => n \in 0..4
    BY SMTT(30)
  <2> QED
    BY <1>1, <1>2, <2>1
<1>4. PICK s \in Seq(Tokens) : s = Shift(t, b)
  BY <1>1, <1>2, ShiftFacts
<1>5. /\ Len(s) = IF n = 4 THEN 4 ELSE n + 1
      /\ At(s, 0) = b
      /\ n >= 1 => At(s, 1) = At(t, 0)
      /\ n >= 2 => At(s, 2) = At(t, 1)
      /\ n >= 3 => At(s, 3) = At(t, 2)
  BY <1>1, <1>2, <1>3, <1>4, ShiftFacts
<1>6. Delimited(s) <=>
             \/ Len(s) >= 2 /\ At(s, 0) = "lf" /\ At(s, 1) = "lf"
             \/ /\ Len(s) >= 4 /\ At(s, 0) = "lf" /\ At(s, 1) = "cr"
                /\ At(s, 2) = "lf" /\ At(s, 3) = "cr"
  BY DelimitedFacts
<1>7. (Len(s) >= 2 <=> n >= 1) /\ (Len(s) >= 4 <=> n >= 3)
  BY <1>3, <1>5, SMTT(30)
<1>8. n >= 3 => n >= 2 /\ n >= 1
  BY <1>3, SMTT(30)
<1>9. Delimited(s) <=>
             /\ b = "lf" /\ n >= 1
             /\ \/ At(t, 0) = "lf"
                \/ n >= 3 /\ At(t, 0) = "cr" /\ At(t, 1) = "lf" /\ At(t, 2) = "cr"
  BY <1>5, <1>6, <1>7, <1>8
<1> QED
  BY <1>2, <1>3, <1>4, <1>9

\* The text of a line.
LEMMA TextStep ==
    ASSUME NEW e \in {"lf", "cr"}, NEW p, NEW d, Agree(e, p, d), NEW b \in Text,
           d.line = <<>>, NEW q, q = PushByte(p, b), NEW f, f = Decode(d, b)
    PROVE  Agree(e, q, f)
<1>0. b \in Tokens /\ b # "lf" /\ b # "cr" /\ d \in Decoder
  BY DEF Text, Tokens, Agree
<1>1. ~Delimited(Shift(p.tail, b))
  BY <1>0, DelimitedWhen
<1>2. /\ f \in Decoder /\ f.line = <<b>> /\ f.data = d.data /\ f.events = d.events
      /\ f.usage = d.usage
  <2>1. f = [d EXCEPT !.line = Append(@, b)]
    BY <1>0 DEF Decode
  <2>2. Append(d.line, b) = <<b>> /\ <<b>> \in Seq(Tokens)
    BY <1>0, SMTT(30)
  <2> QED
    BY <1>0, <2>1, <2>2 DEF Decoder
<1>3. /\ q \in SseParsers /\ Len(q.tail) <= 4 /\ (q.discarding => q.oversized)
      /\ q.tail # <<>> /\ At(q.tail, 0) = b /\ q.tail \in Seq(Tokens)
  BY <1>0, <1>1, PlainTail, SMTT(30)
<1>4. TailOfLine(e, q.tail, f.line)
  <2>1. Len(q.tail) >= 1
    BY <1>3, EmptyFacts, SMTT(30)
  <2> QED
    BY <1>2, <1>3, <2>1 DEF TailOfLine
<1>5. ~Young(e, q.tail)
  BY <1>0, <1>3 DEF Young
<1>6. p.tail = <<>> \/ At(p.tail, 0) = "lf"
  BY SMTT(30) DEF Agree, TailOfLine
<1>7. Unended(d.line) = 0 /\ Unended(f.line) = IF b = "d" THEN 1 ELSE 0
  BY <1>2, SMTT(30) DEF Unended
<1>8. (~q.discarding => SameBuffer(q, f)) /\ SameCounts(q, f)
  BY <1>0, <1>1, <1>2, <1>6, <1>7, BufferOn, ZenonT(30), SMTT(30)
<1> QED
  BY <1>2, <1>3, <1>4, <1>5, <1>8 DEF Agree

\* The first byte of a line end of two.
LEMMA CrStep ==
    ASSUME NEW p, NEW d, Agree("cr", p, d), Regular("cr", d.line, "cr"),
           NEW q, q = PushByte(p, "cr"), NEW f, f = Decode(d, "cr")
    PROVE  Agree("cr", q, f)
<1>0. "cr" \in Tokens /\ d \in Decoder /\ d.line \in Seq(Tokens)
  BY DEF Tokens, Agree, Decoder
<1>1. ~Delimited(Shift(p.tail, "cr"))
  BY <1>0, DelimitedWhen
<1>2. /\ f \in Decoder /\ f.line = Append(d.line, "cr") /\ f.data = d.data
      /\ f.events = d.events /\ f.usage = d.usage
  <2>1. f = [d EXCEPT !.line = Append(@, "cr")]
    BY DEF Decode
  <2>2. Append(d.line, "cr") \in Seq(Tokens)
    BY <1>0, AppendFacts
  <2> QED
    BY <1>0, <2>1, <2>2 DEF Decoder
<1>3. /\ q \in SseParsers /\ Len(q.tail) <= 4 /\ (q.discarding => q.oversized)
      /\ q.tail # <<>> /\ Len(p.tail) \in 0..4
      /\ Len(q.tail) = IF Len(p.tail) = 4 THEN 4 ELSE Len(p.tail) + 1
      /\ At(q.tail, 0) = "cr"
      /\ Len(p.tail) >= 1 => At(q.tail, 1) = At(p.tail, 0)
      /\ Len(p.tail) >= 2 => At(q.tail, 2) = At(p.tail, 1)
  BY <1>0, <1>1, PlainTail, SMTT(30)
<1>4. TailOfLine("cr", p.tail, d.line) /\ (Young("cr", p.tail) => d.data = <<>>)
  BY DEF Agree
<1>5. d.line = <<>> \/ \E x \in Text : d.line = <<x>> /\ Len(p.tail) >= 1 /\ At(p.tail, 0) = x
  BY <1>4, SMTT(30) DEF Regular, TailOfLine
<1>6. Unended(f.line) = Unended(d.line)
  BY <1>2, <1>5, SMTT(30) DEF Unended, Text
<1>7. (~q.discarding => SameBuffer(q, f)) /\ SameCounts(q, f)
  BY <1>0, <1>1, <1>2, <1>6, BufferOn
<1>8. CASE d.line = <<>>
  <2>1. f.line = <<"cr">>
    BY <1>2, <1>8, SMTT(30)
  <2>2. \/ p.tail = <<>>
        \/ Len(p.tail) >= 2 /\ At(p.tail, 0) = "lf" /\ At(p.tail, 1) = "cr"
    BY <1>4, <1>8, SMTT(30) DEF TailOfLine
  <2>3. CASE p.tail = <<>>
    <3>1. Len(q.tail) = 1 /\ d.data = <<>>
      BY <1>3, <1>4, <2>3, SMTT(30) DEF Young
    <3>2. TailOfLine("cr", q.tail, f.line)
      BY <1>3, <2>1, <3>1, SMTT(30) DEF TailOfLine
    <3> QED
      BY <1>2, <1>3, <1>7, <3>1, <3>2 DEF Agree
  <2>4. CASE Len(p.tail) >= 2 /\ At(p.tail, 0) = "lf" /\ At(p.tail, 1) = "cr"
    <3>1. Len(q.tail) >= 3 /\ At(q.tail, 1) = "lf" /\ At(q.tail, 2) = "cr" /\ Len(q.tail) # 1
      BY <1>3, <2>4, Lengths
    <3>2. TailOfLine("cr", q.tail, f.line)
      BY <1>3, <2>1, <3>1, SMTT(30) DEF TailOfLine
    <3>3. ~Young("cr", q.tail)
      BY <1>3, <3>1 DEF Young
    <3> QED
      BY <1>2, <1>3, <1>7, <3>2, <3>3 DEF Agree
  <2> QED
    BY <2>2, <2>3, <2>4
<1>9. CASE \E x \in Text : d.line = <<x>> /\ Len(p.tail) >= 1 /\ At(p.tail, 0) = x
  <2>1. PICK x \in Text : d.line = <<x>> /\ Len(p.tail) >= 1 /\ At(p.tail, 0) = x
    BY <1>9
  <2>2. f.line = <<x, "cr">>
    BY <1>2, <2>1, SMTT(30)
  <2>3. Len(q.tail) >= 2 /\ At(q.tail, 1) = x /\ Len(q.tail) # 1
    BY <1>3, <2>1, Lengths
  <2>4. TailOfLine("cr", q.tail, f.line)
    BY <1>3, <2>2, <2>3 DEF TailOfLine
  <2>5. ~Young("cr", q.tail)
    BY <1>3, <2>3 DEF Young
  <2> QED
    BY <1>2, <1>3, <1>7, <2>4, <2>5 DEF Agree
<1> QED
  BY <1>5, <1>8, <1>9

\* The end of a line of text.
LEMMA LineEndStep ==
    ASSUME NEW e \in {"lf", "cr"}, NEW p, NEW d, Agree(e, p, d), NEW x \in Text,
           \/ e = "lf" /\ d.line = <<x>> /\ Len(p.tail) >= 1 /\ At(p.tail, 0) = x
           \/ /\ e = "cr" /\ d.line = <<x, "cr">> /\ Len(p.tail) >= 2
              /\ At(p.tail, 0) = "cr" /\ At(p.tail, 1) = x,
           NEW q, q = PushByte(p, "lf"), NEW f, f = Decode(d, "lf")
    PROVE  Agree(e, q, f)
<1>0. "lf" \in Tokens /\ d \in Decoder /\ x # "lf" /\ x # "cr" /\ <<>> \in Seq(Tokens)
  BY EmptyFacts DEF Tokens, Agree, Text
<1>1. ~Delimited(Shift(p.tail, "lf"))
  BY <1>0, DelimitedWhen
<1>2. /\ q \in SseParsers /\ Len(q.tail) <= 4 /\ (q.discarding => q.oversized)
      /\ q.tail # <<>> /\ Len(p.tail) \in 0..4
      /\ Len(q.tail) = IF Len(p.tail) = 4 THEN 4 ELSE Len(p.tail) + 1
      /\ At(q.tail, 0) = "lf"
      /\ Len(p.tail) >= 1 => At(q.tail, 1) = At(p.tail, 0)
  BY <1>0, <1>1, PlainTail, SMTT(30)
<1>3. StripCr(d.line) = <<x>>
  <2>1. CASE d.line = <<x>>
    BY <1>0, <2>1, SMTT(30) DEF StripCr
  <2>2. CASE d.line = <<x, "cr">>
    <3>1. d.line # <<>> /\ d.line[Len(d.line)] = "cr" /\ Len(d.line) - 1 = 1
      BY <2>2, SMTT(30)
    <3>2. SubSeq(<<x, "cr">>, 1, 1) = <<x>>
      <4>1. PICK s : s = <<x, "cr">>
        OBVIOUS
      <4>2. s[1] = x /\ x \in Tokens /\ 1..1 = {1}
        BY <4>1, SMTT(30) DEF Text, Tokens
      <4>3. \A i \in 1..1 : s[i] \in Tokens
        BY <4>2
      <4>4. /\ SubSeq(s, 1, 1) \in Seq(Tokens) /\ Len(SubSeq(s, 1, 1)) = 1
            /\ SubSeq(s, 1, 1)[1] = x
        BY <4>2, <4>3, SubSeqFacts, SMTT(30)
      <4>5. PICK u \in Seq(Tokens) : u = SubSeq(s, 1, 1) /\ Len(u) = 1 /\ u[1] = x
        BY <4>4
      <4>6. u = <<x>>
        <5>0. <<x>> \in Seq(Tokens)
          BY <4>2, SMTT(30)
        <5>1. PICK v \in Seq(Tokens) : v = <<x>> /\ Len(v) = 1 /\ v[1] = x
          BY <5>0
        <5>2. Len(u) = Len(v) /\ \A i \in 1..Len(u) : u[i] = v[i]
          BY <4>2, <4>5, <5>1
        <5> QED
          BY <5>1, <5>2, SameSequence
      <4> QED
        BY <4>1, <4>5, <4>6
    <3>3. SubSeq(d.line, 1, Len(d.line) - 1) = <<x>>
      BY <2>2, <3>1, <3>2
    <3> QED
      BY <3>1, <3>3 DEF StripCr
  <2> QED
    BY <2>1, <2>2
<1>4. f = IF x = "d" THEN [d EXCEPT !.line = <<>>,
                                    !.data = IF Len(@) < 2 THEN Append(@, "d") ELSE @]
          ELSE [d EXCEPT !.line = <<>>]
  <2>1. StripCr(d.line) # <<>> /\ StripCr(d.line)[1] = x
    BY <1>3, SMTT(30)
  <2>2. f = EndLine(d)
    BY DEF Decode
  <2>3. CASE x = "d"
    <3>1. f = [[d EXCEPT !.line = <<>>] EXCEPT !.data = IF Len(@) < 2 THEN Append(@, "d") ELSE @]
      BY <2>1, <2>2, <2>3 DEF EndLine
    <3> QED
      BY <1>0, <2>3, <3>1 DEF Decoder
  <2>4. CASE x # "d"
    BY <2>1, <2>2, <2>4 DEF EndLine
  <2> QED
    BY <2>3, <2>4
<1>5. d.data \in Seq({"d"}) /\ Len(d.data) \in Nat
  BY <1>0, LengthFacts DEF Decoder
<1>6. /\ f \in Decoder /\ f.line = <<>> /\ f.events = d.events /\ f.usage = d.usage
      /\ x = "d" /\ Len(d.data) < 2 => Len(f.data) = Len(d.data) + 1
      /\ x = "d" /\ ~(Len(d.data) < 2) => Len(f.data) = Len(d.data)
      /\ x # "d" => Len(f.data) = Len(d.data)
  <2>1. Append(d.data, "d") \in Seq({"d"}) /\ Len(Append(d.data, "d")) = Len(d.data) + 1
    BY <1>5, AppendFacts
  <2>2. CASE x = "d" /\ Len(d.data) < 2
    <3>1. f = [d EXCEPT !.line = <<>>, !.data = Append(d.data, "d")]
      BY <1>4, <2>2
    <3>2. f \in Decoder /\ f.line = <<>> /\ f.events = d.events /\ f.usage = d.usage
          /\ f.data = Append(d.data, "d")
      BY <1>0, <2>1, <3>1 DEF Decoder
    <3> QED
      BY <2>1, <2>2, <3>2
  <2>3. CASE ~(x = "d" /\ Len(d.data) < 2)
    <3>1. f = [d EXCEPT !.line = <<>>]
      BY <1>0, <1>4, <2>3 DEF Decoder
    <3>2. f \in Decoder /\ f.line = <<>> /\ f.events = d.events /\ f.usage = d.usage
          /\ f.data = d.data
      BY <1>0, <3>1 DEF Decoder
    <3> QED
      BY <2>3, <3>2
  <2> QED
    BY <2>2, <2>3
<1>7. TailOfLine(e, q.tail, f.line)
  <2>1. CASE e = "lf"
    <3>1. Len(q.tail) >= 1
      BY <1>2, Lengths, SMTT(30)
    <3> QED
      BY <1>2, <1>6, <2>1, <3>1 DEF TailOfLine
  <2>2. CASE e = "cr"
    <3>1. Len(q.tail) >= 2 /\ At(q.tail, 1) = "cr"
      BY <1>2, <2>2, Lengths
    <3> QED
      BY <1>2, <1>6, <2>2, <3>1 DEF TailOfLine
  <2> QED
    BY <2>1, <2>2
<1>8. ~Young(e, q.tail)
  <2>1. CASE e = "lf"
    <3>1. Len(q.tail) # 1
      BY <1>2, <2>1, Lengths
    <3> QED
      BY <1>2, <2>1, <3>1 DEF Young
  <2>2. CASE e = "cr"
    <3>1. Len(q.tail) # 1 /\ Len(q.tail) # 2
      BY <1>2, <2>2, Lengths
    <3> QED
      BY <1>2, <2>2, <3>1 DEF Young
  <2> QED
    BY <2>1, <2>2
<1>9. (~q.discarding => SameBuffer(q, d)) /\ SameCounts(q, d)
  BY <1>0, <1>1, BufferOn
<1>10. SameCounts(q, f)
  BY <1>6, <1>9 DEF SameCounts
<1>11. Unended(f.line) = 0 /\ Unended(d.line) = IF x = "d" THEN 1 ELSE 0
  <2>1. d.line # <<>> /\ d.line[1] = x
    <3>1. CASE d.line = <<x>>
      BY <3>1, SMTT(30)
    <3>2. CASE d.line = <<x, "cr">>
      BY <3>2, SMTT(30)
    <3> QED
      BY <3>1, <3>2
  <2> QED
    BY <1>6, <2>1 DEF Unended
<1>12. ASSUME SameData(q.buf, d), Cardinality(DataLines(q.buf)) \in Nat PROVE SameData(q.buf, f)
  <2>1. PICK c \in Nat : c = Cardinality(DataLines(q.buf))
    BY <1>12
  <2>2. PICK l \in Nat : l = Len(d.data)
    BY <1>5
  <2>3. CASE x = "d"
    <3>1. c - 1 \in Nat /\ (c - 1 = 0 <=> l = 0) /\ (c - 1 = 1 <=> l = 1)
      BY <1>11, <1>12, <2>1, <2>2, <2>3 DEF SameData
    <3>2. Len(f.data) = IF l < 2 THEN l + 1 ELSE l
      BY <1>6, <2>2, <2>3
    <3>3. c \in Nat /\ (c = 0 <=> Len(f.data) = 0) /\ (c = 1 <=> Len(f.data) = 1)
      <4>1. PICK k : k = Len(f.data)
        OBVIOUS
      <4>2. k = IF l < 2 THEN l + 1 ELSE l
        BY <3>2, <4>1
      <4>3. (c = 0 <=> k = 0) /\ (c = 1 <=> k = 1)
        BY <3>1, <4>2, SMTT(30)
      <4> QED
        BY <4>1, <4>3
    <3> QED
      BY <1>11, <2>1, <3>3, SMTT(30) DEF SameData
  <2>4. CASE x # "d"
    BY <1>6, <1>11, <1>12, <2>4 DEF SameData
  <2> QED
    BY <2>3, <2>4
<1>13. ~q.discarding => SameBuffer(q, f)
  <2>1. q.buf \in Seq(Tokens)
    BY <1>2 DEF SseParsers
  <2>2. Cardinality(DataLines(q.buf)) \in Nat
    BY <1>0, <2>1, LinesFacts
  <2> QED
    BY <1>9, <1>12, <2>2 DEF SameBuffer
<1> QED
  BY <1>2, <1>6, <1>7, <1>8, <1>10, <1>13 DEF Agree

\* The end of a blank line, as the decoder has it.
LEMMA BlankLine ==
    ASSUME NEW d \in Decoder, d.line = <<>> \/ d.line = <<"cr">>, NEW f, f = Decode(d, "lf")
    PROVE  /\ f \in Decoder /\ f.line = <<>> /\ f.data = <<>>
           /\ d.data = <<>> => f.events = d.events /\ f.usage = d.usage
           /\ d.data # <<>> => /\ f.events = d.events + 1
                               /\ f.usage = IF Len(d.data) = 1 THEN d.events + 1 ELSE d.usage
<1>1. StripCr(d.line) = <<>>
  <2>1. CASE d.line = <<>>
    BY <2>1 DEF StripCr
  <2>2. CASE d.line = <<"cr">>
    <3>1. d.line # <<>> /\ d.line[Len(d.line)] = "cr" /\ Len(d.line) - 1 = 0
      BY <2>2, SMTT(30)
    <3>2. SubSeq(d.line, 1, 0) = <<>>
      BY NoSubSeq, SMTT(30)
    <3> QED
      BY <3>1, <3>2 DEF StripCr
  <2> QED
    BY <2>1, <2>2
<1> DEFINE g == [d EXCEPT !.line = <<>>]
<1>2. f = EndEvent(g)
  BY <1>1 DEF Decode, EndLine
<1>3. <<>> \in Seq(Tokens) /\ <<>> \in Seq({"d"})
  BY EmptyFacts
<1>4. g \in Decoder /\ g.line = <<>> /\ g.data = d.data /\ g.events = d.events /\ g.usage = d.usage
  BY <1>3 DEF Decoder
<1> HIDE DEF g
<1>5. CASE d.data = <<>>
  BY <1>2, <1>4, <1>5 DEF EndEvent
<1>6. CASE d.data # <<>>
  <2>1. f = [g EXCEPT !.events = @ + 1, !.data = <<>>,
                      !.usage = IF Len(g.data) = 1 THEN g.events + 1 ELSE @]
    BY <1>2, <1>4, <1>6 DEF EndEvent
  <2>2. g.events + 1 \in Nat /\ (IF Len(g.data) = 1 THEN g.events + 1 ELSE g.usage) \in Nat
    BY <1>4, SMTT(30) DEF Decoder
  <2>3. f \in Decoder /\ f.line = <<>> /\ f.data = <<>> /\ f.events = g.events + 1
        /\ f.usage = IF Len(g.data) = 1 THEN g.events + 1 ELSE g.usage
    BY <1>3, <1>4, <2>1, <2>2 DEF Decoder
  <2> QED
    BY <1>4, <1>6, <2>3
<1> QED
  BY <1>5, <1>6

\* The end of a blank line: the first since a delimiter, or a delimiter.
LEMMA BlankStep ==
    ASSUME NEW e \in {"lf", "cr"}, NEW p, NEW d, Agree(e, p, d),
           d.line = IF e = "lf" THEN <<>> ELSE <<"cr">>,
           NEW q, q = PushByte(p, "lf"), NEW f, f = Decode(d, "lf")
    PROVE  Agree(e, q, f)
<1>0. "lf" \in Tokens /\ d \in Decoder /\ p \in SseParsers /\ p.tail \in Seq(Tokens)
      /\ TailOfLine(e, p.tail, d.line)
  BY DEF Tokens, Agree, SseParsers
<1>1. /\ f \in Decoder /\ f.line = <<>> /\ f.data = <<>>
      /\ d.data = <<>> => f.events = d.events /\ f.usage = d.usage
      /\ d.data # <<>> => /\ f.events = d.events + 1
                          /\ f.usage = IF Len(d.data) = 1 THEN d.events + 1 ELSE d.usage
  BY <1>0, BlankLine
<1>2. Unended(d.line) = 0 /\ Unended(f.line) = 0
  <2>1. CASE d.line = <<>>
    BY <1>1, <2>1 DEF Unended
  <2>2. CASE d.line = <<"cr">>
    BY <1>1, <2>2, SMTT(30) DEF Unended
  <2> QED
    BY <2>1, <2>2
<1>3. Len(p.tail) \in Nat /\ (p.tail = <<>> <=> Len(p.tail) = 0)
  BY <1>0, EmptyFacts, LengthFacts
<1>4. CASE ~Delimited(Shift(p.tail, "lf"))
  <2>1. /\ q \in SseParsers /\ Len(q.tail) <= 4 /\ (q.discarding => q.oversized)
        /\ q.tail # <<>> /\ Len(p.tail) \in 0..4
        /\ Len(q.tail) = IF Len(p.tail) = 4 THEN 4 ELSE Len(p.tail) + 1
        /\ At(q.tail, 0) = "lf"
        /\ Len(p.tail) >= 1 => At(q.tail, 1) = At(p.tail, 0)
    BY <1>0, <1>4, PlainTail, SMTT(30)
  <2>2. ~(/\ Len(p.tail) >= 1
          /\ \/ At(p.tail, 0) = "lf"
             \/ /\ Len(p.tail) >= 3 /\ At(p.tail, 0) = "cr"
                /\ At(p.tail, 1) = "lf" /\ At(p.tail, 2) = "cr")
    BY <1>0, <1>4, DelimitedWhen
  <2>3. IF e = "lf" THEN p.tail = <<>> ELSE Len(p.tail) = 1 /\ At(p.tail, 0) = "cr"
    <3>1. CASE e = "lf"
      BY <1>0, <2>2, <3>1, SMTT(30) DEF TailOfLine
    <3>2. CASE e = "cr"
      <4>1. /\ Len(p.tail) >= 1 /\ At(p.tail, 0) = "cr"
            /\ Len(p.tail) = 1 \/ (Len(p.tail) >= 3 /\ At(p.tail, 1) = "lf" /\ At(p.tail, 2) = "cr")
        <5>1. d.line = <<"cr">>
          BY <3>2
        <5>2. <<"cr">> # <<>> /\ \A x \in Text : <<"cr">> # <<x>> /\ <<"cr">> # <<x, "cr">>
          BY DEF Text
        <5> QED
          BY <1>0, <3>2, <5>1, <5>2 DEF TailOfLine
      <4> QED
        BY <2>2, <3>2, <4>1
    <3> QED
      BY <3>1, <3>2
  <2>4. d.data = <<>>
    <3>1. Young(e, p.tail)
      BY <2>3 DEF Young
    <3> QED
      BY <3>1 DEF Agree
  <2>5. TailOfLine(e, q.tail, <<>>)
    <3>1. CASE e = "lf"
      <4>1. Len(q.tail) >= 1
        BY <2>1, Lengths, SMTT(30)
      <4> QED
        BY <2>1, <3>1, <4>1 DEF TailOfLine
    <3>2. CASE e = "cr"
      <4>1. Len(q.tail) >= 2 /\ At(q.tail, 1) = "cr"
        <5>1. Len(p.tail) >= 1
          BY <2>3, <3>2, SMTT(30)
        <5> QED
          BY <2>1, <2>3, <3>2, <5>1, Lengths
      <4> QED
        BY <2>1, <3>2, <4>1 DEF TailOfLine
    <3> QED
      BY <3>1, <3>2
  <2>6. (~q.discarding => SameBuffer(q, f)) /\ SameCounts(q, f)
    BY <1>0, <1>1, <1>2, <1>4, <2>4, BufferOn
  <2> QED
    BY <1>1, <2>1, <2>5, <2>6 DEF Agree
<1>5. CASE Delimited(Shift(p.tail, "lf"))
  <2>1. /\ q \in SseParsers /\ q.tail = <<>> /\ q.buf = <<>> /\ ~q.discarding
        /\ q.oversized = p.oversized
        /\ p.discarding \/ DataLines(p.buf) = {} => q.events = p.events /\ q.usage = p.usage
        /\ ~p.discarding /\ DataLines(p.buf) # {} =>
             /\ q.events = p.events + 1
             /\ q.usage = IF Cardinality(DataLines(p.buf)) = 1 THEN p.events + 1 ELSE p.usage
    BY <1>0, <1>5, LastByte, ZenonT(30), SMTT(30)
  <2>2. SameBuffer(q, f)
    <3>1. Cardinality(DataLines(<<>>)) = 0
      BY <1>0, LinesFacts
    <3>2. SameData(q.buf, f)
      <4>1. Cardinality(DataLines(q.buf)) - Unended(f.line) = 0 /\ Len(f.data) = 0
        BY <1>1, <1>2, <2>1, <3>1, SMTT(30)
      <4>2. 0 \in Nat /\ 0 # 1
        BY SMTT(30)
      <4> QED
        BY <4>1, <4>2 DEF SameData
    <3> QED
      BY <2>1, <3>2 DEF SameBuffer
  <2>3. TailOfLine(e, q.tail, f.line) /\ Len(q.tail) <= 4
    BY <1>1, <2>1, SMTT(30) DEF TailOfLine
  <2>4. SameCounts(q, f)
    <3>1. p.events \in Nat /\ d.events \in Nat /\ p.events <= d.events
      BY <1>0 DEF Agree, SameCounts, SseParsers, Decoder
    <3>2. CASE p.discarding
      <4>1. p.oversized /\ q.oversized /\ q.events = p.events
        BY <2>1, <3>2 DEF Agree
      <4>2. f.events = d.events \/ f.events = d.events + 1
        BY <1>1
      <4> QED
        BY <3>1, <4>1, <4>2, SMTT(30) DEF SameCounts
    <3>3. CASE ~p.discarding
      <4>1. SameData(p.buf, d) /\ p.buf \in Seq(Tokens)
        BY <1>0, <3>3 DEF Agree, SameBuffer, SseParsers
      <4>2. /\ Cardinality(DataLines(p.buf)) \in Nat
            /\ DataLines(p.buf) = {} <=> Cardinality(DataLines(p.buf)) = 0
        BY <1>0, <4>1, LinesFacts
      <4>3. /\ DataLines(p.buf) = {} <=> Len(d.data) = 0
            /\ Cardinality(DataLines(p.buf)) = 1 <=> Len(d.data) = 1
        BY <1>2, <4>1, <4>2, SMTT(30) DEF SameData
      <4>4. d.data = <<>> <=> Len(d.data) = 0
        BY <1>0, EmptyFacts DEF Decoder
      <4>5. CASE d.data = <<>>
        BY <1>1, <2>1, <3>1, <3>3, <4>3, <4>4, <4>5 DEF Agree, SameCounts
      <4>6. CASE d.data # <<>>
        <5>1. /\ q.events = p.events + 1 /\ f.events = d.events + 1
              /\ q.usage = IF Cardinality(DataLines(p.buf)) = 1 THEN p.events + 1 ELSE p.usage
              /\ f.usage = IF Len(d.data) = 1 THEN d.events + 1 ELSE d.usage
          BY <1>1, <2>1, <3>3, <4>3, <4>4, <4>6
        <5>2. q.events <= f.events
          BY <3>1, <5>1, SMTT(30)
        <5>3. ~p.oversized => p.events = d.events /\ p.usage = d.usage
          BY DEF Agree, SameCounts
        <5> QED
          BY <2>1, <4>3, <5>1, <5>2, <5>3 DEF SameCounts
      <4> QED
        BY <4>5, <4>6
    <3> QED
      BY <3>2, <3>3
  <2> QED
    BY <1>1, <2>1, <2>2, <2>3, <2>4 DEF Agree
<1> QED
  BY <1>4, <1>5

\* Whatever comes next in a stream with whole line ends of one kind, the parser
\* keeps up with the decoder.
LEMMA ByteAgrees ==
    ASSUME NEW e \in {"lf", "cr"}, NEW p, NEW d, Agree(e, p, d), NEW b \in Tokens,
           Regular(e, d.line, b)
    PROVE  Agree(e, PushByte(p, b), Decode(d, b))
<1>1. CASE b \in Text
  <2>1. d.line = <<>>
    BY <1>1 DEF Regular, Text
  <2> QED
    BY <1>1, <2>1, TextStep
<1>2. CASE b = "cr"
  <2>1. e = "cr"
    BY <1>2 DEF Regular
  <2> QED
    BY <1>2, <2>1, CrStep
<1>3. CASE b = "lf"
  <2>1. (e = "cr") <=> (d.line # <<>> /\ d.line[Len(d.line)] = "cr")
    BY <1>3 DEF Regular
  <2>2. TailOfLine(e, p.tail, d.line)
    BY DEF Agree
  <2>3. CASE \E x \in Text :
               \/ e = "lf" /\ d.line = <<x>> /\ Len(p.tail) >= 1 /\ At(p.tail, 0) = x
               \/ /\ e = "cr" /\ d.line = <<x, "cr">> /\ Len(p.tail) >= 2
                  /\ At(p.tail, 0) = "cr" /\ At(p.tail, 1) = x
    BY <1>3, <2>3, LineEndStep
  <2>4. CASE d.line = IF e = "lf" THEN <<>> ELSE <<"cr">>
    BY <1>3, <2>4, BlankStep
  <2>5. ASSUME NEW x \in Text, d.line = <<x>> PROVE e = "lf"
    BY <2>1, <2>5, SMTT(30) DEF Text
  <2> QED
    BY <2>1, <2>2, <2>3, <2>4, <2>5 DEF TailOfLine
<1> QED
  BY <1>1, <1>2, <1>3 DEF Tokens, Text

-----------------------------------------------------------------------------
(***************************************************************************)
(* Pieces of a stream of bytes, and a parser that reads them.              *)
(***************************************************************************)
\* Induction, for a set: what holds 0 and, with a number, the next holds all.
LEMMA Induction ==
    ASSUME NEW S, 0 \in S, \A n \in Nat : n \in S => n + 1 \in S
    PROVE  Nat \subseteq S
<1> DEFINE T == Nat \ S
           R == OpToRel(<, Nat)
<1> SUFFICES ASSUME T # {} PROVE FALSE
  OBVIOUS
<1>1. IsWellFoundedOn(R, Nat)
  BY NatLessThanWellFounded
<1>2. \A x, y \in Nat : x < y => <<x, y>> \in R
  BY DEF OpToRel
<1>3. T \subseteq Nat
  OBVIOUS
<1> HIDE DEF R
<1>4. PICK x \in T : \A y \in T : ~(<<y, x>> \in R)
  BY <1>1, <1>3, WFMin
<1>5. x # 0 /\ x - 1 \in Nat /\ x - 1 < x
  BY SMTT(30)
<1>6. x - 1 \in T
  BY <1>5, SMTT(30)
<1> QED
  BY <1>2, <1>4, <1>5, <1>6

\* s is what comes after the first a of the tokens, up to the e-th.
Piece(tok, s, a, e) ==
    /\ s \in Seq(Tokens) /\ Len(s) = e - a
    /\ \A i \in 1..(e - a) : s[i] = tok[a + i]

\* A piece stays one when a byte is sent.
LEMMA PieceGrows ==
    ASSUME NEW tok \in Seq(Tokens), NEW s, NEW a \in Nat, NEW e \in Nat, a <= e, e <= Len(tok),
           Piece(tok, s, a, e), NEW b \in Tokens
    PROVE  Piece(Append(tok, b), s, a, e)
<1>1. \A i \in 1..Len(tok) : Append(tok, b)[i] = tok[i]
  BY AppendFacts, SMTT(30)
<1>2. Len(tok) \in Nat
  BY LengthFacts
<1>3. \A i \in 1..(e - a) : a + i \in 1..Len(tok)
  BY <1>2, SMTT(30)
<1> QED
  BY <1>1, <1>3 DEF Piece

\* The last piece grows with the stream.
LEMMA PieceAppend ==
    ASSUME NEW tok \in Seq(Tokens), NEW s, NEW a \in Nat, a <= Len(tok),
           Piece(tok, s, a, Len(tok)), NEW b \in Tokens
    PROVE  Piece(Append(tok, b), Append(s, b), a, Len(tok) + 1)
<1>0. PICK n \in Nat : n = Len(tok)
  BY LengthFacts
<1>1. /\ \A i \in 1..n : Append(tok, b)[i] = tok[i]
      /\ Append(tok, b)[n + 1] = b
  BY <1>0, AppendFacts, SMTT(30)
<1>2. s \in Seq(Tokens) /\ Len(s) = n - a /\ \A i \in 1..(n - a) : s[i] = tok[a + i]
  BY <1>0 DEF Piece
<1>3. /\ Append(s, b) \in Seq(Tokens) /\ Len(Append(s, b)) = (n - a) + 1
      /\ \A i \in 1..(n - a) : Append(s, b)[i] = s[i]
      /\ Append(s, b)[(n - a) + 1] = b
  <2>1. /\ Append(s, b) \in Seq(Tokens) /\ Len(Append(s, b)) = Len(s) + 1
        /\ \A i \in 1..Len(s) : Append(s, b)[i] = s[i]
        /\ Append(s, b)[Len(s) + 1] = b
    <3>1. s \in Seq(Tokens)
      BY <1>2
    <3> QED
      BY <3>1, AppendFacts, SMTT(30)
  <2> QED
    BY <1>2, <2>1
<1>4. PICK m \in Nat : m = n - a
  <2>1. a <= n
    BY <1>0
  <2> QED
    BY <2>1, SMTT(30)
<1>5. (n + 1) - a = m + 1 /\ a + (m + 1) = n + 1
  BY <1>4, SMTT(30)
<1>6. ASSUME NEW i \in 1..(m + 1) PROVE Append(s, b)[i] = Append(tok, b)[a + i]
  <2>1. CASE i = m + 1
    BY <1>1, <1>3, <1>4, <1>5, <2>1
  <2>2. CASE i # m + 1
    <3>1. i \in 1..m /\ a + i \in 1..n
      BY <1>4, <2>2, SMTT(30)
    <3>2. Append(s, b)[i] = s[i] /\ s[i] = tok[a + i] /\ Append(tok, b)[a + i] = tok[a + i]
      BY <1>1, <1>2, <1>3, <1>4, <3>1
    <3> QED
      BY <3>2
  <2> QED
    BY <2>1, <2>2
<1> QED
  BY <1>0, <1>3, <1>4, <1>5, <1>6 DEF Piece

\* A piece cut in two.
LEMMA PieceSplit ==
    ASSUME NEW tok \in Seq(Tokens), NEW s, NEW a \in Nat, NEW e \in Nat, a <= e,
           Piece(tok, s, a, e), NEW n \in 1..Len(s)
    PROVE  /\ Piece(tok, SubSeq(s, 1, n), a, a + n) /\ a + n <= e /\ n \in Nat \ {0}
           /\ Piece(tok, SubSeq(s, n + 1, Len(s)), a + n, e)
<1>0. PICK m \in Nat : m = Len(s) /\ m = e - a
  BY SMTT(30) DEF Piece
<1>1. s \in Seq(Tokens) /\ \A i \in 1..m : s[i] = tok[a + i]
  BY <1>0 DEF Piece
<1>2. \A i \in 1..m : s[i] \in Tokens
  BY <1>0, <1>1, ElementFact
<1>3. n \in Nat \ {0} /\ n <= m /\ a + n <= e
  BY <1>0, SMTT(30)
<1>4. /\ SubSeq(s, 1, n) \in Seq(Tokens) /\ Len(SubSeq(s, 1, n)) = n
      /\ \A i \in 1..n : SubSeq(s, 1, n)[i] = s[i]
  <2>1. \A i \in 1..n : s[i] \in Tokens
    BY <1>2, <1>3, SMTT(30)
  <2>2. /\ SubSeq(s, 1, n) \in Seq(Tokens)
        /\ Len(SubSeq(s, 1, n)) = IF 1 <= n THEN n - 1 + 1 ELSE 0
        /\ \A i \in 1..n - 1 + 1 : SubSeq(s, 1, n)[i] = s[1 + i - 1]
    BY <1>3, <2>1, SubSeqFacts, SMTT(30)
  <2>3. n - 1 + 1 = n /\ 1 <= n /\ \A i \in 1..n : 1 + i - 1 = i
    BY <1>3, SMTT(30)
  <2> QED
    BY <2>2, <2>3
<1>5. /\ SubSeq(s, n + 1, m) \in Seq(Tokens) /\ Len(SubSeq(s, n + 1, m)) = m - n
      /\ \A i \in 1..(m - n) : SubSeq(s, n + 1, m)[i] = s[n + i]
  <2>1. \A i \in (n + 1)..m : s[i] \in Tokens
    BY <1>2, <1>3, SMTT(30)
  <2>2. /\ SubSeq(s, n + 1, m) \in Seq(Tokens)
        /\ Len(SubSeq(s, n + 1, m)) = IF n + 1 <= m THEN m - (n + 1) + 1 ELSE 0
        /\ \A i \in 1..m - (n + 1) + 1 : SubSeq(s, n + 1, m)[i] = s[n + 1 + i - 1]
    <3>1. PICK k \in Int : k = n + 1
      BY <1>3, SMTT(30)
    <3>2. m \in Int /\ \A i \in k..m : s[i] \in Tokens
      BY <1>3, <2>1, <3>1, SMTT(30)
    <3>3. /\ SubSeq(s, k, m) \in Seq(Tokens)
          /\ Len(SubSeq(s, k, m)) = IF k <= m THEN m - k + 1 ELSE 0
          /\ \A i \in 1..m - k + 1 : SubSeq(s, k, m)[i] = s[k + i - 1]
      BY <3>2, SubSeqFacts, SMTT(30)
    <3> QED
      BY <3>1, <3>3
  <2>3. /\ m - (n + 1) + 1 = m - n /\ (~(n + 1 <= m) => m - n = 0)
        /\ \A i \in 1..(m - n) : n + 1 + i - 1 = n + i
    BY <1>3, SMTT(30)
  <2> QED
    BY <2>2, <2>3
<1>6. Piece(tok, SubSeq(s, 1, n), a, a + n)
  <2>1. (a + n) - a = n /\ \A i \in 1..n : i \in 1..m
    BY <1>3, SMTT(30)
  <2> QED
    BY <1>1, <1>4, <2>1 DEF Piece
<1>7. Piece(tok, SubSeq(s, n + 1, m), a + n, e)
  <2>1. e - (a + n) = m - n /\ \A i \in 1..(m - n) : n + i \in 1..m /\ a + (n + i) = (a + n) + i
    BY <1>0, <1>3, SMTT(30)
  <2> QED
    BY <1>1, <1>5, <2>1 DEF Piece
<1> QED
  BY <1>0, <1>3, <1>6, <1>7

\* The states of a parser that reads the tokens one by one.
Parses(tok, P) ==
    /\ P \in [0..Len(tok) -> SseParsers] /\ P[0] = NewParser
    /\ \A i \in 1..Len(tok) : P[i] = PushByte(P[i - 1], tok[i])

\* However the tokens are cut into chunks, the parser comes to the same states.
LEMMA PushSseFacts ==
    ASSUME NEW tok \in Seq(Tokens), NEW P, Parses(tok, P), NEW s,
           NEW a \in Nat, NEW e \in Nat, a <= e, e <= Len(tok), Piece(tok, s, a, e)
    PROVE  PushSse(P[a], s) = P[e]
<1>0. PICK m \in Nat : m = Len(s) /\ m = e - a /\ a + m = e
  BY SMTT(30) DEF Piece
<1>1. Len(tok) \in Nat
  BY LengthFacts
<1> DEFINE F(f) == [i \in 0..m |-> IF i = 0 THEN P[a] ELSE PushByte(f[i - 1], s[i])]
           w == [i \in 0..m |-> P[a + i]]
<1>2. \A i \in 1..m : P[a + i] = PushByte(P[a + (i - 1)], s[i])
  <2> SUFFICES ASSUME NEW i \in 1..m PROVE P[a + i] = PushByte(P[a + (i - 1)], s[i])
    OBVIOUS
  <2>1. a + i \in 1..Len(tok) /\ (a + i) - 1 = a + (i - 1) /\ i \in 1..(e - a)
    BY <1>0, <1>1, SMTT(30)
  <2>2. P[a + i] = PushByte(P[(a + i) - 1], tok[a + i])
    BY <2>1 DEF Parses
  <2>3. s[i] = tok[a + i]
    BY <2>1 DEF Piece
  <2> QED
    BY <2>1, <2>2, <2>3
<1>3. w = F(w)
  <2> SUFFICES ASSUME NEW i \in 0..m
               PROVE  w[i] = IF i = 0 THEN P[a] ELSE PushByte(w[i - 1], s[i])
    OBVIOUS
  <2>1. CASE i = 0
    BY <2>1, SMTT(30)
  <2>2. CASE i # 0
    <3>1. i \in 1..m /\ i - 1 \in 0..m
      BY <2>2, SMTT(30)
    <3>2. w[i] = P[a + i] /\ w[i - 1] = P[a + (i - 1)]
      BY <3>1
    <3> QED
      BY <1>2, <2>2, <3>1, <3>2
  <2> QED
    BY <2>1, <2>2
<1> DEFINE g == CHOOSE f : f = F(f)
<1>4. g = F(g)
  <2> HIDE DEF w, F
  <2> QED
    BY <1>3
<1>5. \A i \in 0..m : g[i] = IF i = 0 THEN P[a] ELSE PushByte(g[i - 1], s[i])
  <2> HIDE DEF g
  <2> QED
    BY <1>4
<1>6. PushSse(P[a], s) = g[m]
  BY <1>0 DEF PushSse
<1> HIDE DEF g
<1>7. \A i \in Nat : i <= m => g[i] = P[a + i]
  <2> DEFINE S == {i \in Nat : i <= m => g[i] = P[a + i]}
  <2>1. 0 \in S
    <3>1. g[0] = P[a] /\ a + 0 = a
      BY <1>5, SMTT(30)
    <3> QED
      BY <3>1
  <2>2. ASSUME NEW i \in Nat, i \in S PROVE i + 1 \in S
    <3> SUFFICES ASSUME i + 1 <= m PROVE g[i + 1] = P[a + (i + 1)]
      BY SMTT(30)
    <3>1. i + 1 \in 0..m /\ i + 1 # 0 /\ (i + 1) - 1 = i /\ i <= m /\ i + 1 \in 1..m
      BY SMTT(30)
    <3>2. g[i + 1] = PushByte(g[i], s[i + 1])
      BY <1>5, <3>1
    <3>3. P[a + (i + 1)] = PushByte(P[a + i], s[i + 1])
      BY <1>2, <3>1
    <3> QED
      BY <2>2, <3>1, <3>2, <3>3
  <2> HIDE DEF S
  <2>3. Nat \subseteq S
    BY <2>1, <2>2, Induction
  <2> QED
    BY <2>3 DEF S
<1> QED
  BY <1>0, <1>6, <1>7, SMTT(30)

-----------------------------------------------------------------------------
(***************************************************************************)
(* The inductive invariant.  The tokens of an event stream, and the states *)
(* in which a decoder and a parser are between them, exist without being   *)
(* in the state: tok, D and P.  w of the tokens have been read, and the    *)
(* chunks that were prefetched and not sent are cut at c.                  *)
(***************************************************************************)
Cut(tok, chunks, c) ==
    /\ chunks \in Seq(Seq(Tokens)) /\ c \in [0..Len(chunks) -> 0..Len(tok)]
    /\ \A i \in 1..Len(chunks) : c[i - 1] <= c[i] /\ Piece(tok, chunks[i], c[i - 1], c[i])

\* Parser and decoder between any two bytes, and that counters do not fall.
Reads(e, tok, P, D) ==
    /\ tok \in Seq(Tokens) /\ Parses(tok, P) /\ D \in [0..Len(tok) -> Decoder]
    /\ \A i \in 0..Len(tok) : Agree(e, P[i], D[i])
    /\ \A i, j \in 0..Len(tok) : i <= j => /\ D[i].events <= D[j].events
                                           /\ P[i].oversized => P[j].oversized

\* The tokens that have been read and those that were handed to the channel.
Position(tok, P, w, c) ==
    /\ w \in 0..Len(tok) /\ Piece(tok, wire, w, Len(tok))
    /\ Cut(tok, prefetched, c) /\ c[Len(prefetched)] = w
    /\ phase = "prefetch" =>
         /\ c[0] = 0 /\ parser = P[w]
         /\ hand = <<>> /\ owed = Len(tok)
    /\ phase # "prefetch" =>
         /\ parser = P[c[0]] /\ hand \in Seq(Tokens) /\ Len(hand) <= c[0]
         /\ owed = Len(tok) - (c[0] - Len(hand))
    /\ phase = "pulling" => hand = <<>>
    /\ phase \in {"pulling", "sending"} => prefetched = <<>>

\* The deadline on events, while no complete event waits to be read.
Deadline(D, w) ==
    phase \in {"pulling", "sending"} /\ ~parser.oversized /\ D[w].events = sent.events
        => silence + timer >= InterEvent

\* An event stream that is under way.
EventStream ==
    \E tok, P, D, w, c :
        /\ Reads(eol, tok, P, D) /\ D[Len(tok)] = sent
        /\ Position(tok, P, w, c) /\ Deadline(D, w)

\* Any other body.
PlainBody ==
    /\ phase \in {"pulling", "sending"} /\ prefetched = <<>>
    /\ wire \in Seq(Tokens) /\ hand \in Seq(Tokens) /\ (phase = "pulling" => hand = <<>>)
    /\ owed = Len(wire) + Len(hand)
    /\ parser \in [buf : Seq(Tokens), overflowed : BOOLEAN]
    /\ sent \in [line : {<<>>}, data : Seq(Tokens), events : {0}, usage : {0}]
    /\ parser.overflowed \/ parser.buf \o wire = sent.data

\* The invariant: the kind of body decides what is known until the stream is over,
\* and then the properties hold of what was recorded.
StreamInv ==
    /\ upstream \in {"open", "eof", "error"}
    /\ sse \in BOOLEAN /\ eol \in {"lf", "cr"} /\ timer \in Nat /\ silence \in Nat
    /\ phase \in {"prefetch", "flushing", "pulling", "sending", "over"}
    /\ phase # "over" => /\ outcome = "none"
                         /\ sse => EventStream
                         /\ ~sse => PlainBody
    /\ phase = "over" => BlameEarned /\ CompletedWhole

\* The invariant says what the runs check.
LEMMA StreamInvImplies == StreamInv => SplittersAgree /\ BlameEarned /\ CompletedWhole
<1> SUFFICES ASSUME StreamInv PROVE SplittersAgree /\ BlameEarned /\ CompletedWhole
  OBVIOUS
<1>1. BlameEarned /\ CompletedWhole
  BY DEF StreamInv, BlameEarned, CompletedWhole
<1>2. ASSUME sse, CaughtUp
      PROVE  /\ parser.events <= sent.events
             /\ ~parser.oversized => parser.events = sent.events /\ parser.usage = sent.usage
  <2>1. EventStream /\ phase \in {"prefetch", "pulling"} /\ wire = <<>>
    BY <1>2 DEF StreamInv, CaughtUp, Reading
  <2>2. PICK tok, P, D, w, c : /\ Reads(eol, tok, P, D) /\ D[Len(tok)] = sent
                               /\ Position(tok, P, w, c)
    BY <2>1 DEF EventStream
  <2>3. Len(tok) \in Nat /\ w \in 0..Len(tok)
    BY <2>2, LengthFacts DEF Reads, Position
  <2>4. w = Len(tok)
    <3>1. Len(wire) = Len(tok) - w /\ Len(wire) = 0
      BY <2>1, <2>2 DEF Position, Piece
    <3> QED
      BY <2>3, <3>1, SMTT(30)
  <2>5. parser = P[w]
    <3>1. CASE phase = "prefetch"
      BY <2>2, <3>1 DEF Position
    <3>2. CASE phase = "pulling"
      <4>1. prefetched = <<>> /\ c[Len(prefetched)] = w /\ parser = P[c[0]]
        BY <2>2, <3>2 DEF Position
      <4> QED
        BY <4>1
    <3> QED
      BY <2>1, <3>1, <3>2
  <2>6. Agree(eol, P[w], D[w])
    BY <2>2, <2>3 DEF Reads
  <2> QED
    BY <2>2, <2>4, <2>5, <2>6 DEF Agree, SameCounts
<1> QED
  BY <1>1, <1>2 DEF SplittersAgree

\* The first state.
LEMMA StreamInit == Init => StreamInv
<1> SUFFICES ASSUME Init PROVE StreamInv
  OBVIOUS
<1>1. /\ sse \in BOOLEAN /\ eol \in {"lf", "cr"} /\ timer \in Nat /\ silence \in Nat
      /\ phase \in {"prefetch", "pulling"} /\ outcome = "none" /\ upstream = "open"
  BY StreamConstants DEF Init
<1>2. ASSUME sse PROVE EventStream
  <2> DEFINE tok == <<>>
             P == [i \in 0..0 |-> NewParser]
             D == [i \in 0..0 |-> NewDecoder]
             c == [i \in 0..0 |-> 0]
  <2>1. tok \in Seq(Tokens) /\ Len(tok) = 0 /\ <<>> \in Seq(Seq(Tokens)) /\ <<>> \in Seq({"d"})
    BY EmptyFacts
  <2>2. NewParser \in SseParsers /\ NewDecoder \in Decoder
    BY <2>1 DEF NewParser, NewDecoder, SseParsers, Decoder
  <2>3. Agree(eol, NewParser, NewDecoder)
    <3>1. DataLines(<<>>) = {} /\ Cardinality({}) = 0
      BY FS_EmptySet, SMTT(30) DEF DataLines
    <3>2. SameData(<<>>, NewDecoder)
      BY <2>1, <3>1, SMTT(30) DEF SameData, NewDecoder, Unended
    <3>3. SameBuffer(NewParser, NewDecoder)
      BY <3>2 DEF SameBuffer, NewParser
    <3>4. TailOfLine(eol, <<>>, <<>>)
      BY DEF TailOfLine
    <3> QED
      BY <2>1, <2>2, <3>3, <3>4, SMTT(30) DEF Agree, NewParser, NewDecoder, SameCounts
  <2>4. 0..0 = {0} /\ \A i : i \notin 1..0
    BY SMTT(30)
  <2>5. Reads(eol, tok, P, D)
    BY <2>1, <2>2, <2>3, <2>4 DEF Reads, Parses, Agree, SameCounts, Decoder, NewDecoder
  <2>6. Position(tok, P, 0, c)
    BY <1>2, <2>1, <2>4, SMTT(30) DEF Position, Cut, Piece, Init, Fresh
  <2>7. D[Len(tok)] = sent /\ Deadline(D, 0)
    BY <1>2, <2>1, SMTT(30) DEF Init, Deadline
  <2> QED
    BY <2>5, <2>6, <2>7 DEF EventStream
<1>3. ASSUME ~sse PROVE PlainBody
  <2>1. /\ parser = [buf |-> <<>>, overflowed |-> FALSE]
        /\ sent = [line |-> <<>>, data |-> <<>>, events |-> 0, usage |-> 0]
    BY <1>3 DEF Init, Fresh, NewJson, NewDecoder
  <2>2. <<>> \in Seq(Tokens) /\ <<>> \o <<>> = <<>> /\ Len(<<>>) = 0
    BY EmptyFacts, SMTT(30)
  <2> QED
    BY <1>3, <2>1, <2>2, SMTT(30) DEF Init, PlainBody
<1> QED
  BY <1>1, <1>2, <1>3 DEF StreamInv

-----------------------------------------------------------------------------
(***************************************************************************)
(* The upstream sends a token.                                             *)
(***************************************************************************)
\* The decoder never takes back an event, nor the parser that one was too large.
LEMMA DecodeGrows ==
    ASSUME NEW d \in Decoder, NEW b \in Tokens
    PROVE  d.events <= Decode(d, b).events
<1>1. d.events \in Nat
  BY DEF Decoder
<1>2. CASE b # "lf"
  <2>1. Decode(d, b).events = d.events
    BY <1>2 DEF Decode, Decoder
  <2> QED
    BY <1>1, <2>1, SMTT(30)
<1>3. CASE b = "lf"
  <2> DEFINE next == [d EXCEPT !.line = <<>>]
             line == StripCr(d.line)
  <2>1. next.events = d.events /\ next.data = d.data
    BY DEF Decoder
  <2>2. EndEvent(next).events \in {d.events, d.events + 1}
    BY <1>1 DEF EndEvent, Decoder
  <2>3. Decode(d, b) =
          CASE line = <<>> -> EndEvent(next)
            [] line # <<>> /\ line[1] = "d" ->
                 [next EXCEPT !.data = IF Len(@) < 2 THEN Append(@, line[1]) ELSE @]
            [] OTHER -> next
    BY <1>3 DEF Decode, EndLine
  <2>4. CASE line = <<>>
    BY <1>1, <2>2, <2>3, <2>4, SMTT(30)
  <2>5. CASE line # <<>> /\ line[1] = "d"
    <3>1. Decode(d, b) = [next EXCEPT !.data = IF Len(@) < 2 THEN Append(@, line[1]) ELSE @]
      BY <2>3, <2>5
    <3>2. Decode(d, b).events = d.events
      BY <3>1 DEF Decoder
    <3> QED
      BY <1>1, <3>2, SMTT(30)
  <2>6. CASE line # <<>> /\ line[1] # "d"
    <3>1. Decode(d, b) = next
      BY <2>3, <2>6
    <3> QED
      BY <1>1, <2>1, <3>1, SMTT(30)
  <2> QED
    BY <2>4, <2>5, <2>6
<1> QED
  BY <1>2, <1>3

\* A parser that met an event above the cap does not forget it.
LEMMA OversizedStays ==
    ASSUME NEW p \in SseParsers, NEW b \in Tokens, Len(p.tail) <= 4, p.oversized
    PROVE  PushByte(p, b).oversized
<1>1. CASE Delimited(Shift(p.tail, b))
  BY <1>1, LastByte
<1>2. CASE ~Delimited(Shift(p.tail, b))
  BY <1>2, PlainByte
<1> QED
  BY <1>1, <1>2

\* One token more.
LEMMA ReadsOn ==
    ASSUME NEW e \in {"lf", "cr"}, NEW tok, NEW P, NEW D, Reads(e, tok, P, D),
           NEW b \in Tokens, Regular(e, D[Len(tok)].line, b)
    PROVE  \E Q, F : /\ Reads(e, Append(tok, b), Q, F)
                     /\ \A i \in 0..Len(tok) : Q[i] = P[i] /\ F[i] = D[i]
                     /\ F[Len(tok) + 1] = Decode(D[Len(tok)], b)
<1>0. PICK n \in Nat : n = Len(tok)
  BY LengthFacts DEF Reads
<1>1. /\ tok \in Seq(Tokens) /\ P \in [0..n -> SseParsers] /\ D \in [0..n -> Decoder]
      /\ P[0] = NewParser /\ \A i \in 1..n : P[i] = PushByte(P[i - 1], tok[i])
      /\ \A i \in 0..n : Agree(e, P[i], D[i])
      /\ \A i, j \in 0..n : i <= j => /\ D[i].events <= D[j].events
                                      /\ P[i].oversized => P[j].oversized
  BY <1>0 DEF Reads, Parses
<1>2. /\ Append(tok, b) \in Seq(Tokens) /\ Len(Append(tok, b)) = n + 1
      /\ \A i \in 1..n : Append(tok, b)[i] = tok[i]
      /\ Append(tok, b)[n + 1] = b
  BY <1>0, <1>1, AppendFacts, SMTT(30)
<1> DEFINE q == PushByte(P[n], b)
           f == Decode(D[n], b)
           Q == [i \in 0..(n + 1) |-> IF i = n + 1 THEN q ELSE P[i]]
           F == [i \in 0..(n + 1) |-> IF i = n + 1 THEN f ELSE D[i]]
<1>3. Agree(e, P[n], D[n])
  BY <1>1, SMTT(30)
<1>4. Agree(e, q, f)
  BY <1>0, <1>3, ByteAgrees
<1>5. q \in SseParsers /\ f \in Decoder
  BY <1>4 DEF Agree
<1>6. D[n].events <= f.events /\ (P[n].oversized => q.oversized)
  <2>1. P[n] \in SseParsers /\ D[n] \in Decoder /\ Len(P[n].tail) <= 4
    BY <1>3 DEF Agree
  <2> QED
    BY <2>1, DecodeGrows, OversizedStays
<1> HIDE DEF q, f
<1>7. /\ Q \in [0..(n + 1) -> SseParsers] /\ F \in [0..(n + 1) -> Decoder]
      /\ Q[n + 1] = q /\ F[n + 1] = f
      /\ \A i \in 0..n : Q[i] = P[i] /\ F[i] = D[i]
  BY <1>1, <1>5, SMTT(30)
<1> HIDE DEF Q, F
<1>8. \A i \in 0..(n + 1) : i \in 0..n \/ i = n + 1
  BY SMTT(30)
<1>9. \A i \in 0..(n + 1) : Agree(e, Q[i], F[i])
  BY <1>1, <1>4, <1>7, <1>8
<1>10. \A i \in 1..(n + 1) : Q[i] = PushByte(Q[i - 1], Append(tok, b)[i])
  <2> SUFFICES ASSUME NEW i \in 1..(n + 1)
               PROVE  Q[i] = PushByte(Q[i - 1], Append(tok, b)[i])
    OBVIOUS
  <2>1. CASE i = n + 1
    <3>1. i - 1 = n /\ n \in 0..n
      BY <2>1, SMTT(30)
    <3> QED
      BY <1>2, <1>7, <2>1, <3>1 DEF q
  <2>2. CASE i # n + 1
    <3>1. i \in 1..n /\ i \in 0..n /\ i - 1 \in 0..n
      BY <2>2, SMTT(30)
    <3> QED
      BY <1>1, <1>2, <1>7, <3>1
  <2> QED
    BY <2>1, <2>2
<1>11. ASSUME NEW i \in 0..(n + 1), NEW j \in 0..(n + 1), i <= j
       PROVE  F[i].events <= F[j].events /\ (Q[i].oversized => Q[j].oversized)
  <2>1. CASE j # n + 1
    <3>1. i \in 0..n /\ j \in 0..n
      BY <1>11, <2>1, SMTT(30)
    <3> QED
      BY <1>1, <1>7, <1>11, <3>1
  <2>2. CASE i = n + 1
    <3>1. j = n + 1 /\ f.events \in Nat
      BY <1>5, <1>11, <2>2, SMTT(30) DEF Decoder
    <3> QED
      BY <1>7, <2>2, <3>1, SMTT(30)
  <2>3. CASE j = n + 1 /\ i # n + 1
    <3>1. i \in 0..n /\ n \in 0..n /\ i <= n
      BY <2>3, SMTT(30)
    <3>2. D[i].events <= D[n].events /\ (P[i].oversized => P[n].oversized)
      BY <1>1, <3>1
    <3>3. D[i].events \in Nat /\ D[n].events \in Nat /\ f.events \in Nat
      BY <1>1, <1>5, <3>1 DEF Decoder
    <3>4. D[i].events <= f.events
      BY <1>6, <3>2, <3>3, SMTT(30)
    <3> QED
      BY <1>6, <1>7, <2>3, <3>1, <3>2, <3>4
  <2> QED
    BY <2>1, <2>2, <2>3
<1>12. Q[0] = NewParser
  BY <1>1, <1>7, SMTT(30)
<1>13. Reads(e, Append(tok, b), Q, F)
  BY <1>2, <1>7, <1>9, <1>10, <1>11, <1>12 DEF Reads, Parses
<1>14. F[n + 1] = Decode(D[n], b)
  BY <1>7 DEF f
<1> QED
  BY <1>0, <1>7, <1>13, <1>14

\* The prefetched chunks stay pieces when a byte is sent.
LEMMA CutGrows ==
    ASSUME NEW tok \in Seq(Tokens), NEW chunks, NEW c, Cut(tok, chunks, c), NEW b \in Tokens
    PROVE  Cut(Append(tok, b), chunks, c)
<1>1. Len(Append(tok, b)) = Len(tok) + 1 /\ Len(tok) \in Nat /\ Len(chunks) \in Nat
  BY AppendFacts, LengthFacts DEF Cut
<1>2. c \in [0..Len(chunks) -> 0..(Len(tok) + 1)]
  BY <1>1, SMTT(30) DEF Cut
<1>3. ASSUME NEW i \in 1..Len(chunks) PROVE Piece(Append(tok, b), chunks[i], c[i - 1], c[i])
  <2>1. i \in 0..Len(chunks) /\ i - 1 \in 0..Len(chunks)
    BY <1>1, SMTT(30)
  <2>2. /\ c[i - 1] \in Nat /\ c[i] \in Nat /\ c[i - 1] <= c[i] /\ c[i] <= Len(tok)
        /\ Piece(tok, chunks[i], c[i - 1], c[i])
    <3>1. c[i - 1] \in 0..Len(tok) /\ c[i] \in 0..Len(tok)
      BY <2>1 DEF Cut
    <3>2. c[i - 1] <= c[i] /\ Piece(tok, chunks[i], c[i - 1], c[i])
      BY DEF Cut
    <3> QED
      BY <1>1, <3>1, <3>2, SMTT(30)
  <2> QED
    BY <2>2, PieceGrows
<1> QED
  BY <1>1, <1>2, <1>3 DEF Cut

\* Upstream sends a byte of an event stream.
LEMMA EmitEvents ==
    ASSUME StreamInv, sse, phase # "over", NEW b \in Tokens, Emit(b)
    PROVE  EventStream'
<1>1. PICK tok, P, D, w, c : /\ Reads(eol, tok, P, D) /\ D[Len(tok)] = sent
                             /\ Position(tok, P, w, c) /\ Deadline(D, w)
  BY DEF StreamInv, EventStream
<1>2. /\ wire' = Append(wire, b) /\ sent' = Decode(sent, b) /\ owed' = owed + 1
      /\ silence' = IF sent'.events > sent.events THEN 0 ELSE silence
      /\ UNCHANGED <<sse, eol, upstream, phase, parser, prefetched, hand, timer>>
  BY DEF Emit, pumpVars
<1>3. MayFollow(b) /\ eol \in {"lf", "cr"} /\ timer \in Nat /\ silence \in Nat
  BY DEF Emit, StreamInv
<1>4. Regular(eol, D[Len(tok)].line, b)
  BY <1>1, <1>3 DEF MayFollow, Regular, AfterCr, Tokens
<1>5. tok \in Seq(Tokens) /\ Len(tok) \in Nat
  BY <1>1, LengthFacts DEF Reads
<1>6. PICK Q, F : /\ Reads(eol, Append(tok, b), Q, F)
                  /\ \A i \in 0..Len(tok) : Q[i] = P[i] /\ F[i] = D[i]
                  /\ F[Len(tok) + 1] = Decode(D[Len(tok)], b)
  BY <1>1, <1>3, <1>4, ReadsOn, SMTT(30)
<1>7. Len(Append(tok, b)) = Len(tok) + 1
  BY <1>5, AppendFacts
<1>8. F[Len(Append(tok, b))] = sent'
  BY <1>1, <1>2, <1>6, <1>7
<1>9. w \in 0..Len(tok) /\ Len(prefetched) \in Nat /\ c \in [0..Len(prefetched) -> 0..Len(tok)]
  BY <1>1, LengthFacts DEF Position, Cut
<1>10. Piece(Append(tok, b), wire', w, Len(tok) + 1) /\ Cut(Append(tok, b), prefetched', c)
  <2>1. Piece(tok, wire, w, Len(tok)) /\ Cut(tok, prefetched, c) /\ w \in Nat /\ w <= Len(tok)
    BY <1>1, <1>5, <1>9, SMTT(30) DEF Position
  <2> QED
    BY <1>2, <1>5, <2>1, PieceAppend, CutGrows
<1>11. Q[w] = P[w] /\ Q[c[0]] = P[c[0]] /\ F[w] = D[w] /\ c[0] \in Nat
  <2>1. c[0] \in 0..Len(tok)
    BY <1>9, SMTT(30)
  <2> QED
    BY <1>6, <1>9, <2>1, SMTT(30)
<1>12. ASSUME phase' = "prefetch"
       PROVE  c[0] = 0 /\ parser' = Q[w] /\ hand' = <<>> /\ owed' = Len(tok) + 1
  BY <1>1, <1>2, <1>11, <1>12 DEF Position
<1>13. ASSUME phase' # "prefetch"
       PROVE  /\ parser' = Q[c[0]] /\ hand' \in Seq(Tokens) /\ Len(hand') <= c[0]
              /\ owed' = (Len(tok) + 1) - (c[0] - Len(hand'))
  <2>1. /\ parser = P[c[0]] /\ hand \in Seq(Tokens) /\ Len(hand) <= c[0]
        /\ owed = Len(tok) - (c[0] - Len(hand))
    BY <1>1, <1>2, <1>13 DEF Position
  <2>2. Len(hand) \in Nat
    BY <2>1, LengthFacts
  <2>3. owed + 1 = (Len(tok) + 1) - (c[0] - Len(hand))
    BY <1>5, <1>11, <2>1, <2>2, SMTT(30)
  <2> QED
    BY <1>2, <1>11, <2>1, <2>3
<1>14. Position(Append(tok, b), Q, w, c)'
  <2>1. w \in 0..(Len(tok) + 1)
    BY <1>5, <1>9, SMTT(30)
  <2>2. /\ c[Len(prefetched')] = w /\ (phase' = "pulling" => hand' = <<>>)
        /\ phase' \in {"pulling", "sending"} => prefetched' = <<>>
    BY <1>1, <1>2 DEF Position
  <2> QED
    BY <1>7, <1>10, <1>12, <1>13, <2>1, <2>2 DEF Position
<1>15. Deadline(F, w)'
  <2> SUFFICES ASSUME phase' \in {"pulling", "sending"}, ~parser'.oversized,
                      F[w].events = sent'.events
               PROVE  silence' + timer' >= InterEvent
    BY DEF Deadline
  <2>1. D[w].events <= sent.events /\ sent \in Decoder /\ D[w] \in Decoder
    BY <1>1, <1>5, <1>9, SMTT(30) DEF Reads
  <2>2. sent.events <= sent'.events
    BY <1>2, <2>1, DecodeGrows
  <2>3. sent'.events \in Nat /\ sent.events \in Nat /\ D[w].events \in Nat
    BY <1>11, <2>1 DEF Decoder
  <2>4. sent'.events = sent.events /\ D[w].events = sent.events
    BY <1>11, <2>1, <2>2, <2>3, SMTT(30)
  <2>5. silence' = silence
    BY <1>2, <2>3, <2>4, SMTT(30)
  <2> QED
    BY <1>1, <1>2, <2>4, <2>5 DEF Deadline
<1> QED
  BY <1>2, <1>6, <1>8, <1>14, <1>15 DEF EventStream

-----------------------------------------------------------------------------
(***************************************************************************)
(* The pump of an event stream.                                            *)
(***************************************************************************)
\* One chunk more, read from w to v.
LEMMA CutAppend ==
    ASSUME NEW tok \in Seq(Tokens), NEW chunks, NEW c, Cut(tok, chunks, c), NEW s,
           NEW w \in Nat, NEW v \in Nat, c[Len(chunks)] = w, w <= v, v <= Len(tok),
           Piece(tok, s, w, v)
    PROVE  \E a : /\ Cut(tok, Append(chunks, s), a) /\ a[Len(Append(chunks, s))] = v
                  /\ a[0] = c[0]
<1>0. PICK n \in Nat : n = Len(chunks)
  BY LengthFacts DEF Cut
<1>1. /\ chunks \in Seq(Seq(Tokens)) /\ c \in [0..n -> 0..Len(tok)] /\ s \in Seq(Tokens)
      /\ \A i \in 1..n : c[i - 1] <= c[i] /\ Piece(tok, chunks[i], c[i - 1], c[i])
      /\ Len(tok) \in Nat /\ c[n] = w
  BY <1>0, LengthFacts DEF Cut, Piece
<1>2. /\ Append(chunks, s) \in Seq(Seq(Tokens)) /\ Len(Append(chunks, s)) = n + 1
      /\ \A i \in 1..n : Append(chunks, s)[i] = chunks[i]
      /\ Append(chunks, s)[n + 1] = s
  BY <1>0, <1>1, AppendFacts, SMTT(30)
<1> DEFINE a == [i \in 0..(n + 1) |-> IF i = n + 1 THEN v ELSE c[i]]
<1>3. v \in 0..Len(tok)
  BY <1>1, SMTT(30)
<1>4. /\ a \in [0..(n + 1) -> 0..Len(tok)] /\ a[n + 1] = v
      /\ \A i \in 0..n : a[i] = c[i]
  BY <1>1, <1>3, SMTT(30)
<1> HIDE DEF a
<1>5. ASSUME NEW i \in 1..(n + 1)
      PROVE  a[i - 1] <= a[i] /\ Piece(tok, Append(chunks, s)[i], a[i - 1], a[i])
  <2>1. CASE i = n + 1
    <3>1. i - 1 = n /\ n \in 0..n
      BY <2>1, SMTT(30)
    <3>2. a[i - 1] = w /\ a[i] = v
      BY <1>1, <1>4, <2>1, <3>1
    <3> QED
      BY <1>2, <2>1, <3>2
  <2>2. CASE i # n + 1
    <3>1. i \in 1..n /\ i \in 0..n /\ i - 1 \in 0..n
      BY <2>2, SMTT(30)
    <3>2. a[i - 1] = c[i - 1] /\ a[i] = c[i] /\ Append(chunks, s)[i] = chunks[i]
      BY <1>2, <1>4, <3>1
    <3> QED
      BY <1>1, <3>1, <3>2
  <2> QED
    BY <2>1, <2>2
<1>6. Cut(tok, Append(chunks, s), a)
  BY <1>2, <1>4, <1>5 DEF Cut
<1>7. a[0] = c[0]
  BY <1>4, SMTT(30)
<1> QED
  BY <1>2, <1>4, <1>6, <1>7

\* The first chunk, and the others.
LEMMA CutTail ==
    ASSUME NEW tok \in Seq(Tokens), NEW chunks, NEW c, Cut(tok, chunks, c), chunks # <<>>
    PROVE  /\ Piece(tok, Head(chunks), c[0], c[1])
           /\ c[0] \in Nat /\ c[1] \in Nat /\ c[0] <= c[1] /\ c[1] <= Len(tok)
           /\ \E a : /\ Cut(tok, Tail(chunks), a) /\ a[0] = c[1]
                     /\ a[Len(Tail(chunks))] = c[Len(chunks)]
<1>0. PICK n \in Nat : n = Len(chunks) /\ n # 0
  BY EmptyFacts DEF Cut
<1>1. /\ chunks \in Seq(Seq(Tokens)) /\ c \in [0..n -> 0..Len(tok)]
      /\ \A i \in 1..n : c[i - 1] <= c[i] /\ Piece(tok, chunks[i], c[i - 1], c[i])
      /\ Len(tok) \in Nat
  BY <1>0, LengthFacts DEF Cut
<1>2. /\ Tail(chunks) \in Seq(Seq(Tokens)) /\ Len(Tail(chunks)) = n - 1
      /\ \A i \in 1..(n - 1) : Tail(chunks)[i] = chunks[i + 1]
  BY <1>0, <1>1, TailFacts
<1>3. Head(chunks) = chunks[1]
  BY <1>1, SMTT(30) DEF Head
<1>4. 1 \in 1..n /\ 1 - 1 = 0 /\ 0 \in 0..n /\ 1 \in 0..n
  BY <1>0, SMTT(30)
<1>5. /\ Piece(tok, Head(chunks), c[0], c[1]) /\ c[0] <= c[1]
      /\ c[0] \in Nat /\ c[1] \in Nat /\ c[1] <= Len(tok)
  <2>1. c[0] \in 0..Len(tok) /\ c[1] \in 0..Len(tok)
    BY <1>1, <1>4
  <2>2. c[0] <= c[1] /\ Piece(tok, chunks[1], c[0], c[1])
    BY <1>1, <1>4
  <2> QED
    BY <1>1, <1>3, <2>1, <2>2, SMTT(30)
<1> DEFINE a == [i \in 0..(n - 1) |-> c[i + 1]]
<1>6. \A i \in 0..(n - 1) : i + 1 \in 0..n
  BY <1>0, SMTT(30)
<1>7. a \in [0..(n - 1) -> 0..Len(tok)] /\ \A i \in 0..(n - 1) : a[i] = c[i + 1]
  BY <1>1, <1>6
<1> HIDE DEF a
<1>8. ASSUME NEW i \in 1..(n - 1)
      PROVE  a[i - 1] <= a[i] /\ Piece(tok, Tail(chunks)[i], a[i - 1], a[i])
  <2>1. /\ i + 1 \in 1..n /\ (i + 1) - 1 = i /\ (i - 1) + 1 = i
        /\ i \in 0..(n - 1) /\ i - 1 \in 0..(n - 1)
    BY <1>0, SMTT(30)
  <2>2. a[i - 1] = c[i] /\ a[i] = c[i + 1] /\ Tail(chunks)[i] = chunks[i + 1]
    BY <1>2, <1>7, <2>1
  <2>3. c[i] <= c[i + 1] /\ Piece(tok, chunks[i + 1], c[i], c[i + 1])
    BY <1>1, <2>1
  <2> QED
    BY <2>2, <2>3
<1>9. Cut(tok, Tail(chunks), a)
  BY <1>2, <1>7, <1>8 DEF Cut
<1>10. a[0] = c[1] /\ a[n - 1] = c[n]
  <2>1. 0 \in 0..(n - 1) /\ n - 1 \in 0..(n - 1) /\ 0 + 1 = 1 /\ (n - 1) + 1 = n
    BY <1>0, SMTT(30)
  <2> QED
    BY <1>7, <2>1
<1> QED
  BY <1>0, <1>2, <1>5, <1>9, <1>10

\* What a read takes from the wire.
LEMMA ReadFacts ==
    ASSUME NEW tok, NEW P, NEW D, NEW w, NEW c, Reads(eol, tok, P, D), Position(tok, P, w, c),
           NEW n \in DOMAIN wire
    PROVE  /\ Piece(tok, Chunk(n), w, w + n)
           /\ Piece(tok, SubSeq(wire, n + 1, Len(wire)), w + n, Len(tok))
           /\ w \in Nat /\ w + n \in Nat /\ w + n <= Len(tok) /\ w <= w + n
           /\ Chunk(n) \in Seq(Tokens) /\ Len(Chunk(n)) = n /\ n \in Nat \ {0}
           /\ tok \in Seq(Tokens) /\ Len(tok) \in Nat
           /\ PushSse(P[w], Chunk(n)) = P[w + n]
<1>1. tok \in Seq(Tokens) /\ Len(tok) \in Nat /\ Parses(tok, P)
  BY LengthFacts DEF Reads
<1>2. w \in Nat /\ w <= Len(tok) /\ Piece(tok, wire, w, Len(tok))
  BY <1>1, SMTT(30) DEF Position
<1>3. n \in 1..Len(wire)
  BY <1>2, LengthFacts DEF Piece
<1>4. /\ Piece(tok, Chunk(n), w, w + n) /\ w + n <= Len(tok) /\ n \in Nat \ {0}
      /\ Piece(tok, SubSeq(wire, n + 1, Len(wire)), w + n, Len(tok))
  BY <1>1, <1>2, <1>3, PieceSplit DEF Chunk
<1>5. w + n \in Nat /\ w <= w + n /\ (w + n) - w = n
  BY <1>2, <1>4, SMTT(30)
<1>6. Chunk(n) \in Seq(Tokens) /\ Len(Chunk(n)) = n
  BY <1>4, <1>5 DEF Piece
<1>7. PushSse(P[w], Chunk(n)) = P[w + n]
  BY <1>1, <1>2, <1>4, <1>5, PushSseFacts, SMTT(30)
<1> QED
  BY <1>1, <1>2, <1>4, <1>5, <1>6, <1>7

\* prepare_response reads a chunk.
LEMMA PrefetchEvents ==
    ASSUME StreamInv, sse, phase # "over", Prefetch, phase' # "over"
    PROVE  EventStream' /\ timer' \in Nat /\ phase' \in {"prefetch", "flushing"}
<1>1. PICK tok, P, D, w, c : /\ Reads(eol, tok, P, D) /\ D[Len(tok)] = sent
                             /\ Position(tok, P, w, c) /\ Deadline(D, w)
  BY DEF StreamInv, EventStream
<1>2. phase = "prefetch" /\ timer \in Nat
  BY DEF Prefetch, StreamInv
<1>3. PICK n \in DOMAIN wire :
         LET chunks == Append(prefetched, Chunk(n))
             detector == PushSse(parser, Chunk(n))
         IN  /\ wire' = SubSeq(wire, n + 1, Len(wire))
             /\ IF detector.events > 0
                  THEN /\ phase' = "flushing" /\ timer' = 0
                       /\ Send(NewParser, Head(chunks))
                       /\ prefetched' = Tail(chunks)
                  ELSE /\ parser' = detector
                       /\ prefetched' = chunks
                       /\ UNCHANGED <<phase, hand, timer, budget>>
             /\ UNCHANGED <<sse, eol, upstream, sent, silence, channel, client, outcome, owed>>
  BY DEF Prefetch, End, Push
<1> DEFINE chunks == Append(prefetched, Chunk(n))
           detector == PushSse(parser, Chunk(n))
           v == w + n
<1>4. /\ c[0] = 0 /\ parser = P[w] /\ hand = <<>> /\ owed = Len(tok)
      /\ Cut(tok, prefetched, c) /\ c[Len(prefetched)] = w
  BY <1>1, <1>2 DEF Position
<1>5. /\ Piece(tok, Chunk(n), w, v) /\ Piece(tok, wire', v, Len(tok))
      /\ w \in Nat /\ v \in Nat /\ v <= Len(tok) /\ w <= v
      /\ tok \in Seq(Tokens) /\ Len(tok) \in Nat
      /\ PushSse(P[w], Chunk(n)) = P[v]
  <2>1. wire' = SubSeq(wire, n + 1, Len(wire))
    BY <1>3
  <2> HIDE DEF v
  <2>2. Reads(eol, tok, P, D) /\ Position(tok, P, w, c)
    BY <1>1
  <2>3. v = w + n
    BY DEF v
  <2> QED
    BY <2>1, <2>2, <2>3, ReadFacts, SMTT(30)
<1>6. detector = P[v]
  BY <1>4, <1>5
<1>7. PICK a : Cut(tok, chunks, a) /\ a[Len(chunks)] = v /\ a[0] = 0
  BY <1>4, <1>5, CutAppend, SMTT(30)
<1>8. v \in 0..Len(tok)
  BY <1>5, SMTT(30)
<1>9. chunks # <<>>
  <2>1. prefetched \in Seq(Seq(Tokens)) /\ Chunk(n) \in Seq(Tokens)
    BY <1>4, <1>5 DEF Cut, Piece
  <2> QED
    BY <2>1, AppendFacts, SMTT(30)
<1> HIDE DEF chunks, detector, v
<1>10. CASE detector.events > 0
  <2>1. /\ phase' = "flushing" /\ timer' = 0 /\ Send(NewParser, Head(chunks))
        /\ prefetched' = Tail(chunks) /\ UNCHANGED <<sse, eol, sent, silence, owed>>
    BY <1>3, <1>10 DEF chunks, detector
  <2>2. /\ Piece(tok, Head(chunks), 0, a[1]) /\ a[1] \in Nat /\ 0 <= a[1] /\ a[1] <= Len(tok)
        /\ \E z : /\ Cut(tok, Tail(chunks), z) /\ z[0] = a[1]
                  /\ z[Len(Tail(chunks))] = a[Len(chunks)]
    <3>1. /\ Piece(tok, Head(chunks), a[0], a[1]) /\ a[1] \in Nat /\ a[0] <= a[1]
          /\ a[1] <= Len(tok)
          /\ \E z : /\ Cut(tok, Tail(chunks), z) /\ z[0] = a[1]
                    /\ z[Len(Tail(chunks))] = a[Len(chunks)]
      BY <1>5, <1>7, <1>9, CutTail
    <3> QED
      BY <1>7, <3>1
  <2>3. PICK z : Cut(tok, Tail(chunks), z) /\ z[0] = a[1] /\ z[Len(Tail(chunks))] = v
    BY <1>7, <2>2
  <2>4. hand' = Head(chunks) /\ parser' = PushSse(NewParser, Head(chunks))
    BY <2>1 DEF Send, Push
  <2>5. P[0] = NewParser /\ Parses(tok, P)
    BY <1>1 DEF Reads, Parses
  <2>6. parser' = P[a[1]]
    <3>1. Piece(tok, Head(chunks), 0, a[1]) /\ a[1] \in Nat /\ 0 <= a[1] /\ a[1] <= Len(tok)
      BY <2>2
    <3>2. tok \in Seq(Tokens)
      BY <1>5
    <3>3. PushSse(P[0], Head(chunks)) = P[a[1]]
      BY <2>5, <3>1, <3>2, PushSseFacts, SMTT(30)
    <3> QED
      BY <2>4, <2>5, <3>3
  <2>7. hand' \in Seq(Tokens) /\ Len(hand') = a[1]
    <3>1. hand' \in Seq(Tokens) /\ Len(hand') = a[1] - 0 /\ a[1] \in Nat
      BY <2>2, <2>4 DEF Piece
    <3> QED
      BY <3>1, SMTT(30)
  <2>8. owed' = Len(tok) - (a[1] - Len(hand')) /\ Len(hand') <= a[1]
    BY <1>4, <1>5, <2>1, <2>2, <2>7, SMTT(30)
  <2>9. Position(tok, P, v, z)'
    BY <1>5, <1>8, <2>1, <2>3, <2>6, <2>7, <2>8 DEF Position
  <2>10. Deadline(D, v)'
    BY <2>1 DEF Deadline
  <2> QED
    BY <1>1, <2>1, <2>9, <2>10 DEF EventStream
<1>11. CASE ~(detector.events > 0)
  <2>1. /\ parser' = detector /\ prefetched' = chunks
        /\ UNCHANGED <<sse, eol, sent, silence, owed, phase, hand, timer>>
    BY <1>3, <1>11 DEF chunks, detector
  <2>2. Position(tok, P, v, a)'
    BY <1>2, <1>4, <1>5, <1>6, <1>7, <1>8, <2>1 DEF Position
  <2>3. Deadline(D, v)'
    BY <1>2, <2>1 DEF Deadline
  <2> QED
    BY <1>1, <1>2, <2>1, <2>2, <2>3 DEF EventStream
<1> QED
  BY <1>10, <1>11

\* pump_upstream reads a chunk.
LEMMA PullEvents ==
    ASSUME StreamInv, sse, phase # "over", Pull
    PROVE  EventStream' /\ timer' \in Nat
<1>1. PICK tok, P, D, w, c : /\ Reads(eol, tok, P, D) /\ D[Len(tok)] = sent
                             /\ Position(tok, P, w, c) /\ Deadline(D, w)
  BY DEF StreamInv, EventStream
<1>2. PICK n \in DOMAIN wire :
         /\ wire' = SubSeq(wire, n + 1, Len(wire))
         /\ parser' = PushSse(parser, Chunk(n)) /\ hand' = Chunk(n)
  BY DEF Pull, Send, Push
<1>3. /\ phase = "pulling" /\ phase' = "sending" /\ timer \in Nat /\ silence \in Nat
      /\ timer' = IF parser'.events - parser.events > 0 THEN InterEvent ELSE timer
      /\ UNCHANGED <<sse, eol, sent, prefetched, silence, owed>>
  BY DEF Pull, StreamInv, Rearm
<1>4. /\ prefetched = <<>> /\ c[0] = w /\ parser = P[w] /\ hand = <<>>
      /\ owed = Len(tok) - (c[0] - Len(hand)) /\ Cut(tok, prefetched, c)
  <2>1. /\ prefetched = <<>> /\ c[Len(prefetched)] = w /\ parser = P[c[0]] /\ hand = <<>>
        /\ owed = Len(tok) - (c[0] - Len(hand)) /\ Cut(tok, prefetched, c)
    BY <1>1, <1>3 DEF Position
  <2> QED
    BY <2>1
<1> DEFINE v == w + n
           a == [i \in 0..0 |-> v]
<1>5. /\ Piece(tok, Chunk(n), w, v) /\ Piece(tok, wire', v, Len(tok))
      /\ w \in Nat /\ v \in Nat /\ v <= Len(tok) /\ w <= v
      /\ Chunk(n) \in Seq(Tokens) /\ Len(Chunk(n)) = n /\ n \in Nat \ {0}
      /\ tok \in Seq(Tokens) /\ Len(tok) \in Nat
      /\ PushSse(P[w], Chunk(n)) = P[v]
  <2>1. wire' = SubSeq(wire, n + 1, Len(wire))
    BY <1>2
  <2> HIDE DEF v
  <2>2. Reads(eol, tok, P, D) /\ Position(tok, P, w, c)
    BY <1>1
  <2>3. v = w + n
    BY DEF v
  <2> QED
    BY <2>1, <2>2, <2>3, ReadFacts, SMTT(30)
<1>6. w \in 0..Len(tok) /\ v \in 0..Len(tok) /\ v - n = w
  BY <1>5, SMTT(30)
<1> HIDE DEF v
<1>7. Cut(tok, prefetched', a) /\ a[0] = v /\ a[Len(prefetched')] = v
  <2>1. Len(<<>>) = 0 /\ 0..0 = {0} /\ (\A i : i \notin 1..0) /\ <<>> \in Seq(Seq(Tokens))
    BY EmptyFacts, SMTT(30)
  <2> QED
    BY <1>3, <1>4, <1>6, <2>1 DEF Cut
<1> HIDE DEF a
<1>8. parser' = P[v]
  BY <1>2, <1>4, <1>5
<1>9. owed' = Len(tok) - (v - Len(hand')) /\ Len(hand') <= v /\ hand' \in Seq(Tokens)
  <2>1. owed = Len(tok) - w
    BY <1>4, <1>5, SMTT(30)
  <2>2. Len(hand') = n /\ hand' \in Seq(Tokens) /\ n <= v
    BY <1>2, <1>5, <1>6, SMTT(30)
  <2> QED
    BY <1>3, <1>6, <2>1, <2>2
<1>10. Position(tok, P, v, a)'
  BY <1>3, <1>4, <1>5, <1>6, <1>7, <1>8, <1>9 DEF Position
<1>11. timer' \in Nat
  BY <1>3, StreamConstants
<1>12. Deadline(D, v)'
  <2> SUFFICES ASSUME ~parser'.oversized, D[v].events = sent.events
               PROVE  silence' + timer' >= InterEvent
    BY <1>3 DEF Deadline
  <2>1. /\ Agree(eol, P[w], D[w]) /\ Agree(eol, P[v], D[v])
        /\ D[w].events <= D[v].events /\ (P[w].oversized => P[v].oversized)
    BY <1>1, <1>5, <1>6 DEF Reads
  <2>2. ~P[v].oversized /\ ~P[w].oversized
    BY <1>8, <2>1
  <2>3. /\ P[w].events = D[w].events /\ P[v].events = D[v].events
        /\ D[w].events \in Nat /\ D[v].events \in Nat
    BY <2>1, <2>2 DEF Agree, SameCounts, Decoder
  <2>4. CASE parser'.events - parser.events > 0
    BY <1>3, <2>4, StreamConstants, SMTT(30)
  <2>5. CASE ~(parser'.events - parser.events > 0)
    <3>1. D[w].events = D[v].events
      BY <1>4, <1>8, <2>1, <2>3, <2>5, SMTT(30)
    <3> QED
      BY <1>1, <1>3, <1>4, <2>2, <2>5, <3>1 DEF Deadline
  <2> QED
    BY <2>4, <2>5
<1> QED
  BY <1>1, <1>3, <1>10, <1>11, <1>12 DEF EventStream

\* A chunk goes into the channel.
LEMMA SentEvents ==
    ASSUME StreamInv, sse, phase # "over", Sent
    PROVE  EventStream' /\ timer' \in Nat /\ phase' \in {"flushing", "sending", "pulling"}
<1>1. PICK tok, P, D, w, c : /\ Reads(eol, tok, P, D) /\ D[Len(tok)] = sent
                             /\ Position(tok, P, w, c) /\ Deadline(D, w)
  BY DEF StreamInv, EventStream
<1>2. /\ phase \in {"flushing", "sending"} /\ timer \in Nat /\ silence \in Nat
      /\ owed' = owed - Len(hand) /\ UNCHANGED <<sse, eol, wire, sent, silence>>
  BY DEF Sent, Sending, StreamInv, upstreamVars
<1>3. /\ parser = P[c[0]] /\ hand \in Seq(Tokens) /\ Len(hand) <= c[0]
      /\ owed = Len(tok) - (c[0] - Len(hand)) /\ Cut(tok, prefetched, c)
      /\ c[Len(prefetched)] = w /\ w \in 0..Len(tok) /\ Piece(tok, wire, w, Len(tok))
      /\ phase = "sending" => prefetched = <<>>
  BY <1>1, <1>2 DEF Position
<1>4. tok \in Seq(Tokens) /\ Len(tok) \in Nat /\ Parses(tok, P) /\ Len(hand) \in Nat
  BY <1>1, <1>3, LengthFacts DEF Reads
<1>5. c[0] \in Nat
  <2>1. Len(prefetched) \in Nat /\ c \in [0..Len(prefetched) -> 0..Len(tok)]
    BY <1>3, LengthFacts DEF Cut
  <2>2. c[0] \in 0..Len(tok)
    BY <2>1, SMTT(30)
  <2> QED
    BY <1>4, <2>2, SMTT(30)
<1>6. owed' = Len(tok) - c[0]
  BY <1>2, <1>3, <1>4, <1>5, SMTT(30)
<1>7. CASE prefetched # <<>>
  <2>1. /\ parser' = PushSse(parser, Head(prefetched)) /\ hand' = Head(prefetched)
        /\ prefetched' = Tail(prefetched) /\ UNCHANGED <<phase, timer>>
    BY <1>7 DEF Sent, Send, Push
  <2>2. phase' = "flushing"
    BY <1>2, <1>3, <1>7, <2>1
  <2>3. /\ Piece(tok, Head(prefetched), c[0], c[1])
        /\ c[0] \in Nat /\ c[1] \in Nat /\ c[0] <= c[1] /\ c[1] <= Len(tok)
        /\ \E a : /\ Cut(tok, Tail(prefetched), a) /\ a[0] = c[1]
                  /\ a[Len(Tail(prefetched))] = c[Len(prefetched)]
    BY <1>3, <1>4, <1>7, CutTail, SMTT(30)
  <2>4. PICK a : /\ Cut(tok, Tail(prefetched), a) /\ a[0] = c[1]
                 /\ a[Len(Tail(prefetched))] = w
    BY <1>3, <2>3
  <2>5. parser' = P[c[1]]
    <3>1. /\ Piece(tok, Head(prefetched), c[0], c[1])
          /\ c[0] \in Nat /\ c[1] \in Nat /\ c[0] <= c[1] /\ c[1] <= Len(tok)
      BY <2>3
    <3>2. parser = P[c[0]]
      BY <1>3, <1>7
    <3> QED
      BY <1>4, <2>1, <3>1, <3>2, PushSseFacts, SMTT(30)
  <2>6. hand' \in Seq(Tokens) /\ Len(hand') = c[1] - c[0]
    BY <2>1, <2>3 DEF Piece
  <2>7. owed' = Len(tok) - (c[1] - Len(hand')) /\ Len(hand') <= c[1]
    BY <1>4, <1>6, <2>3, <2>6, SMTT(30)
  <2>8. Position(tok, P, w, a)'
    BY <1>2, <1>3, <2>1, <2>2, <2>4, <2>5, <2>6, <2>7 DEF Position
  <2>9. Deadline(D, w)'
    BY <2>2 DEF Deadline
  <2> QED
    BY <1>1, <1>2, <2>1, <2>2, <2>8, <2>9 DEF EventStream
<1>8. CASE prefetched = <<>>
  <2>1. /\ StartPulling /\ hand' = <<>> /\ UNCHANGED <<parser, prefetched>>
    BY <1>8 DEF Sent
  <2>2. /\ phase' = "pulling"
        /\ timer' = IF phase = "flushing" THEN InterEvent ELSE timer
    BY <1>2, <2>1 DEF StartPulling
  <2>3. c[0] = w
    BY <1>3, <1>8
  <2>4. Len(hand') = 0 /\ hand' \in Seq(Tokens)
    BY <2>1, EmptyFacts
  <2>5. owed' = Len(tok) - (c[0] - Len(hand')) /\ Len(hand') <= c[0]
    BY <1>5, <1>6, <2>4, SMTT(30)
  <2>6. Position(tok, P, w, c)'
    BY <1>2, <1>3, <1>8, <2>1, <2>2, <2>4, <2>5 DEF Position
  <2>7. timer' \in Nat
    BY <1>2, <2>2, StreamConstants
  <2>8. Deadline(D, w)'
    <3>1. CASE phase = "flushing"
      BY <1>2, <2>2, <3>1, StreamConstants, SMTT(30) DEF Deadline
    <3>2. CASE phase = "sending"
      BY <1>1, <1>2, <2>1, <2>2, <3>2 DEF Deadline
    <3> QED
      BY <1>2, <3>1, <3>2
  <2> QED
    BY <1>1, <1>2, <2>2, <2>6, <2>7, <2>8 DEF EventStream
<1> QED
  BY <1>7, <1>8

\* A step that reads and sends nothing; only time may pass.
LEMMA QuietEvents ==
    ASSUME StreamInv, sse, phase # "over",
           UNCHANGED <<sse, eol, wire, sent, phase, parser, prefetched, hand, owed>>,
           timer' \in Nat, silence' \in Nat,
           silence + timer >= InterEvent => silence' + timer' >= InterEvent
    PROVE  EventStream'
<1>1. PICK tok, P, D, w, c : /\ Reads(eol, tok, P, D) /\ D[Len(tok)] = sent
                             /\ Position(tok, P, w, c) /\ Deadline(D, w)
  BY DEF StreamInv, EventStream
<1>2. Position(tok, P, w, c)'
  BY <1>1 DEF Position
<1>3. Deadline(D, w)'
  BY <1>1 DEF Deadline
<1> QED
  BY <1>1, <1>2, <1>3 DEF EventStream

-----------------------------------------------------------------------------
(***************************************************************************)
(* A body that is not an event stream.                                     *)
(***************************************************************************)
\* A byte added to the second of two sequences.
LEMMA AppendToConcat ==
    ASSUME NEW s \in Seq(Tokens), NEW t \in Seq(Tokens), NEW b \in Tokens
    PROVE  s \o Append(t, b) = Append(s \o t, b)
<1>1. PICK u \in Seq(Tokens) : u = <<b>>
  <2>1. <<b>> \in Seq(Tokens)
    BY SMTT(30)
  <2> QED
    BY <2>1
<1>2. Append(t, b) = t \o u
  BY <1>1, AppendAsConcat
<1>3. PICK v \in Seq(Tokens) : v = s \o t
  BY ConcatFacts
<1>4. Append(v, b) = v \o u
  BY <1>1, AppendAsConcat
<1>5. (s \o t) \o u = s \o (t \o u)
  BY ConcatAssoc, SMTT(30)
<1> QED
  BY <1>2, <1>3, <1>4, <1>5

\* Upstream sends a byte of any other body.
LEMMA EmitPlain ==
    ASSUME StreamInv, ~sse, phase # "over", NEW b \in Tokens, Emit(b)
    PROVE  PlainBody'
<1>1. /\ PlainBody /\ wire' = Append(wire, b) /\ sent' = [sent EXCEPT !.data = Append(@, b)]
      /\ owed' = owed + 1 /\ UNCHANGED <<sse, phase, parser, prefetched, hand>>
  BY DEF StreamInv, Emit, pumpVars
<1>2. wire \in Seq(Tokens) /\ hand \in Seq(Tokens) /\ parser.buf \in Seq(Tokens)
  BY <1>1 DEF PlainBody
<1>3. /\ Append(wire, b) \in Seq(Tokens) /\ Len(Append(wire, b)) = Len(wire) + 1
      /\ Len(wire) \in Nat /\ Len(hand) \in Nat
  BY <1>2, AppendFacts, LengthFacts
<1>4. owed' = Len(wire') + Len(hand')
  BY <1>1, <1>3, SMTT(30) DEF PlainBody
<1>5. parser.overflowed \/ parser'.buf \o wire' = sent'.data
  <2> SUFFICES ASSUME ~parser.overflowed PROVE parser'.buf \o wire' = sent'.data
    OBVIOUS
  <2>1. parser.buf \o wire = sent.data
    BY <1>1 DEF PlainBody
  <2>2. sent'.data = Append(parser.buf \o wire, b)
    <3>1. sent'.data = Append(sent.data, b)
      BY <1>1 DEF PlainBody
    <3> QED
      BY <2>1, <3>1
  <2>3. parser.buf \o Append(wire, b) = Append(parser.buf \o wire, b)
    BY <1>2, AppendToConcat
  <2> QED
    BY <1>1, <2>2, <2>3
<1>6. sent' \in [line : {<<>>}, data : Seq(Tokens), events : {0}, usage : {0}]
  <2>1. Append(sent.data, b) \in Seq(Tokens)
    <3>1. sent.data \in Seq(Tokens)
      BY <1>1 DEF PlainBody
    <3> QED
      BY <3>1, AppendFacts
  <2> QED
    BY <1>1, <2>1 DEF PlainBody
<1> QED
  BY <1>1, <1>2, <1>3, <1>4, <1>5, <1>6 DEF PlainBody

\* The pump reads a chunk of it.
LEMMA PullPlain ==
    ASSUME StreamInv, ~sse, phase # "over", Pull
    PROVE  PlainBody' /\ timer' \in Nat
<1>1. /\ PlainBody /\ timer \in Nat /\ phase = "pulling" /\ phase' = "sending" /\ timer' = timer
      /\ UNCHANGED <<sse, sent, prefetched, owed>>
  BY DEF StreamInv, Pull, Rearm
<1>2. PICK n \in DOMAIN wire :
         /\ wire' = SubSeq(wire, n + 1, Len(wire))
         /\ parser' = PushJson(parser, Chunk(n)) /\ hand' = Chunk(n)
  BY DEF Pull, Send, Push
<1>3. /\ wire \in Seq(Tokens) /\ hand = <<>> /\ prefetched = <<>>
      /\ owed = Len(wire) + Len(hand)
      /\ parser \in [buf : Seq(Tokens), overflowed : BOOLEAN]
      /\ parser.overflowed \/ parser.buf \o wire = sent.data
  BY <1>1 DEF PlainBody
<1>4. n \in 1..Len(wire) /\ Len(wire) \in Nat /\ \A i \in 1..Len(wire) : wire[i] \in Tokens
  BY <1>3, LengthFacts
<1>5. PICK m \in Nat : m = Len(wire)
  BY <1>4
<1>6. /\ Chunk(n) \in Seq(Tokens) /\ Len(Chunk(n)) = n
      /\ SubSeq(wire, n + 1, m) \in Seq(Tokens) /\ Len(SubSeq(wire, n + 1, m)) = m - n
  <2>1. n \in 1..m /\ \A i \in 1..m : wire[i] \in Tokens
    BY <1>4, <1>5
  <2>2. (\A i \in 1..n : wire[i] \in Tokens) /\ (\A i \in (n + 1)..m : wire[i] \in Tokens)
    BY <2>1, SMTT(30)
  <2>3. SubSeq(wire, 1, n) \in Seq(Tokens) /\ Len(SubSeq(wire, 1, n)) = n
    BY <2>1, <2>2, SubSeqFacts, SMTT(30)
  <2>4. SubSeq(wire, n + 1, m) \in Seq(Tokens) /\ Len(SubSeq(wire, n + 1, m)) = m - n
    <3>1. /\ SubSeq(wire, n + 1, m) \in Seq(Tokens)
          /\ Len(SubSeq(wire, n + 1, m)) = IF n + 1 <= m THEN m - (n + 1) + 1 ELSE 0
      BY <2>1, <2>2, SubSeqFacts, SMTT(30)
    <3>2. (IF n + 1 <= m THEN m - (n + 1) + 1 ELSE 0) = m - n
      BY <2>1, SMTT(30)
    <3> QED
      BY <3>1, <3>2, SMTT(30)
  <2> QED
    BY <2>3, <2>4 DEF Chunk
<1>7. owed' = Len(wire') + Len(hand')
  BY <1>1, <1>2, <1>3, <1>4, <1>5, <1>6, SMTT(30)
<1>8. wire' \in Seq(Tokens) /\ hand' \in Seq(Tokens)
  BY <1>2, <1>5, <1>6
<1>9. CASE parser.overflowed \/ Len(parser.buf) + Len(Chunk(n)) > Cap
  <2>1. parser' = [buf |-> <<>>, overflowed |-> TRUE]
    BY <1>2, <1>9 DEF PushJson
  <2> QED
    BY <1>1, <1>3, <1>7, <1>8, <2>1, EmptyFacts DEF PlainBody
<1>10. CASE ~(parser.overflowed \/ Len(parser.buf) + Len(Chunk(n)) > Cap)
  <2>1. parser' = [parser EXCEPT !.buf = @ \o Chunk(n)]
    BY <1>2, <1>10 DEF PushJson
  <2>2. parser.buf \in Seq(Tokens) /\ parser.buf \o Chunk(n) \in Seq(Tokens)
    BY <1>3, <1>6, ConcatFacts
  <2>3. /\ parser' \in [buf : Seq(Tokens), overflowed : BOOLEAN]
        /\ parser'.buf = parser.buf \o Chunk(n)
    BY <1>3, <2>1, <2>2
  <2>4. Chunk(n) \o SubSeq(wire, n + 1, m) = wire
    <3>1. PICK u \in Seq(Tokens) : u = wire
      BY <1>3
    <3>2. m = Len(u) /\ n \in (1 - 1)..Len(u) /\ Len(u) \in n..Len(u) /\ 1 \in 1..(Len(u) + 1)
      BY <1>4, <1>5, <3>1, SMTT(30)
    <3>3. SubSeq(u, 1, n) \o SubSeq(u, n + 1, Len(u)) = SubSeq(u, 1, Len(u))
      BY <3>2, AdjacentSubSeqs
    <3>4. SubSeq(u, 1, Len(u)) = u
      BY WholeSubSeq
    <3> QED
      BY <3>1, <3>2, <3>3, <3>4 DEF Chunk
  <2>5. (parser.buf \o Chunk(n)) \o wire' = sent.data
    <3>1. (parser.buf \o Chunk(n)) \o SubSeq(wire, n + 1, m)
             = parser.buf \o (Chunk(n) \o SubSeq(wire, n + 1, m))
      <4>1. PICK s \in Seq(Tokens) : s = parser.buf
        BY <2>2
      <4>2. PICK t \in Seq(Tokens) : t = Chunk(n)
        BY <1>6
      <4>3. PICK u \in Seq(Tokens) : u = SubSeq(wire, n + 1, m)
        BY <1>6
      <4>4. (s \o t) \o u = s \o (t \o u)
        BY ConcatAssoc, SMTT(30)
      <4> QED
        BY <4>1, <4>2, <4>3, <4>4
    <3> QED
      BY <1>2, <1>3, <1>5, <1>10, <2>4, <3>1
  <2> QED
    BY <1>1, <1>3, <1>7, <1>8, <2>3, <2>5 DEF PlainBody
<1> QED
  BY <1>1, <1>9, <1>10

\* The chunk goes into the channel.
LEMMA SentPlain ==
    ASSUME StreamInv, ~sse, phase # "over", Sent
    PROVE  PlainBody' /\ timer' \in Nat /\ phase' = "pulling"
<1>1. /\ PlainBody /\ phase = "sending" /\ prefetched = <<>>
  BY DEF StreamInv, PlainBody, Sent, Sending
<1>2. /\ StartPulling /\ hand' = <<>> /\ owed' = owed - Len(hand)
      /\ UNCHANGED <<sse, wire, sent, parser, prefetched>>
  BY <1>1 DEF Sent, upstreamVars
<1>3. phase' = "pulling" /\ timer' = BodyIdle
  BY <1>1, <1>2 DEF StartPulling
<1>4. Len(wire) \in Nat /\ Len(hand) \in Nat /\ owed = Len(wire) + Len(hand)
  BY <1>1, LengthFacts DEF PlainBody
<1>5. owed' = Len(wire') + Len(hand') /\ hand' \in Seq(Tokens)
  BY <1>2, <1>4, EmptyFacts, SMTT(30)
<1> QED
  BY <1>1, <1>2, <1>3, <1>5, StreamConstants DEF PlainBody

-----------------------------------------------------------------------------
(***************************************************************************)
(* The end, and every step.                                                *)
(***************************************************************************)
\* With the wire read empty, nothing is owed, and a deadline that has passed was
\* earned.
LEMMA AtTheEnd ==
    ASSUME StreamInv, phase = "pulling", wire = <<>>
    PROVE  /\ owed = 0
           /\ ~sse => parser.overflowed \/ parser.buf = sent.data
           /\ sse /\ timer = 0 /\ ~parser.oversized => silence >= InterEvent
<1>1. CASE ~sse
  <2>1. PlainBody
    BY <1>1 DEF StreamInv
  <2>2. hand = <<>> /\ owed = Len(wire) + Len(hand) /\ parser.buf \in Seq(Tokens)
        /\ (parser.overflowed \/ parser.buf \o wire = sent.data)
    BY <2>1 DEF PlainBody
  <2>3. parser.buf \o <<>> = parser.buf
    BY <2>2, ConcatEmpty
  <2> QED
    BY <1>1, <2>2, <2>3, SMTT(30)
<1>2. CASE sse
  <2>1. PICK tok, P, D, w, c : /\ Reads(eol, tok, P, D) /\ D[Len(tok)] = sent
                               /\ Position(tok, P, w, c) /\ Deadline(D, w)
    BY <1>2 DEF StreamInv, EventStream
  <2>2. /\ prefetched = <<>> /\ c[Len(prefetched)] = w /\ hand = <<>> /\ w \in 0..Len(tok)
        /\ owed = Len(tok) - (c[0] - Len(hand)) /\ Len(wire) = Len(tok) - w
        /\ Len(tok) \in Nat /\ timer \in Nat /\ silence \in Nat
    BY <2>1, LengthFacts DEF Position, Reads, Piece, StreamInv
  <2>3. w = Len(tok) /\ c[0] = w /\ Len(hand) = 0
    BY <2>2, SMTT(30)
  <2>4. owed = 0
    BY <2>2, <2>3, SMTT(30)
  <2>5. ASSUME timer = 0, ~parser.oversized PROVE silence >= InterEvent
    <3>1. silence + timer >= InterEvent
      BY <2>1, <2>3, <2>5 DEF Deadline
    <3> QED
      BY <2>2, <2>5, <3>1, SMTT(30)
  <2> QED
    BY <1>2, <2>4, <2>5
<1> QED
  BY <1>1, <1>2 DEF StreamInv

\* A stream ends: what is then recorded has to be true.
LEMMA EndStep ==
    ASSUME StreamInv, NEW how, End(how),
           how = "event_idle_timeout" /\ ~parser.oversized => silence >= InterEvent,
           how = "completed" => /\ upstream = "eof" /\ owed = 0
                                /\ ~sse => parser.overflowed \/ parser.buf = sent.data
    PROVE  StreamInv'
<1>1. /\ phase' = "over" /\ outcome' = how /\ timer' = 0
      /\ UNCHANGED <<sse, eol, upstream, sent, parser, silence, owed>>
  BY DEF End
<1>2. BlameEarned' /\ CompletedWhole'
  BY <1>1 DEF BlameEarned, CompletedWhole
<1> QED
  BY <1>1, <1>2 DEF StreamInv

\* Each step of the attempt and of the pump, and the deadline of a read.
LEMMA TaskStep ==
    ASSUME StreamInv, phase # "over", Task \/ ReadTimeout
    PROVE  StreamInv'
<1>0. /\ sse \in BOOLEAN /\ eol \in {"lf", "cr"} /\ timer \in Nat /\ silence \in Nat
      /\ outcome = "none" /\ (sse => EventStream) /\ (~sse => PlainBody)
      /\ upstream \in {"open", "eof", "error"}
  BY DEF StreamInv
<1>1. ASSUME UNCHANGED <<sse, eol, upstream, silence, outcome>>, timer' \in Nat,
             phase' \in {"prefetch", "flushing", "pulling", "sending"},
             sse => EventStream', ~sse => PlainBody'
      PROVE  StreamInv'
  BY <1>0, <1>1 DEF StreamInv
<1>2. CASE Prefetch
  <2>1. phase = "prefetch" /\ sse
    BY <1>0, <1>2 DEF Prefetch, PlainBody
  <2>2. CASE End("end_before_first_event")
    BY <2>2, EndStep
  <2>3. CASE ~End("end_before_first_event")
    <3>1. phase' # "over" /\ UNCHANGED <<sse, eol, upstream, silence, outcome>>
      BY <1>2, <2>1, <2>3 DEF Prefetch
    <3>2. EventStream' /\ timer' \in Nat /\ phase' \in {"prefetch", "flushing"}
      BY <1>2, <2>1, <3>1, PrefetchEvents
    <3> QED
      BY <1>1, <2>1, <3>1, <3>2
  <2> QED
    BY <2>2, <2>3
<1>3. CASE Pull
  <2>1. phase' = "sending" /\ UNCHANGED <<sse, eol, upstream, silence, outcome>>
    BY <1>3 DEF Pull
  <2>2. timer' \in Nat /\ (sse => EventStream') /\ (~sse => PlainBody')
    BY <1>3, PullEvents, PullPlain
  <2> QED
    BY <1>1, <2>1, <2>2
<1>4. CASE Sent
  <2>1. UNCHANGED <<sse, eol, upstream, silence, outcome>>
    BY <1>4 DEF Sent, upstreamVars
  <2>2. /\ timer' \in Nat /\ (sse => EventStream') /\ (~sse => PlainBody')
        /\ phase' \in {"flushing", "sending", "pulling"}
    BY <1>4, SentEvents, SentPlain
  <2> QED
    BY <1>1, <2>1, <2>2
<1>5. CASE ReadEnds
  <2>1. CASE phase = "pulling" /\ upstream = "eof"
    <3>1. End("completed") /\ wire = <<>>
      BY <1>5, <2>1 DEF ReadEnds
    <3> QED
      BY <2>1, <3>1, AtTheEnd, EndStep
  <2>2. CASE phase = "pulling" /\ upstream = "error"
    <3>1. End("upstream_error")
      BY <1>5, <2>2 DEF ReadEnds
    <3> QED
      BY <3>1, EndStep
  <2>3. CASE phase = "prefetch" /\ upstream = "eof"
    <3>1. End("end_before_first_event")
      BY <1>5, <2>3 DEF ReadEnds
    <3> QED
      BY <3>1, EndStep
  <2>4. CASE phase = "prefetch" /\ upstream = "error"
    <3>1. End("network_error")
      BY <1>5, <2>4 DEF ReadEnds
    <3> QED
      BY <3>1, EndStep
  <2> QED
    BY <1>0, <1>5, <2>1, <2>2, <2>3, <2>4 DEF ReadEnds, Reading
<1>6. CASE ReadTimeout
  <2>1. phase \in {"prefetch", "pulling"} /\ timer = 0 /\ wire = <<>>
    BY <1>6 DEF ReadTimeout, Reading
  <2>2. CASE phase = "prefetch"
    <3>1. End("no_first_event")
      BY <1>6, <2>2 DEF ReadTimeout
    <3> QED
      BY <3>1, EndStep
  <2>3. CASE phase = "pulling" /\ sse
    <3>1. End("event_idle_timeout")
      BY <1>6, <2>3 DEF ReadTimeout
    <3> QED
      BY <2>1, <2>3, <3>1, AtTheEnd, EndStep
  <2>4. CASE phase = "pulling" /\ ~sse
    <3>1. End("upstream_error")
      BY <1>6, <2>4 DEF ReadTimeout
    <3> QED
      BY <3>1, EndStep
  <2> QED
    BY <2>1, <2>2, <2>3, <2>4
<1>7. CASE SendFails \/ Cancelled
  <2>1. End("client_cancel")
    BY <1>7 DEF SendFails, Cancelled
  <2> QED
    BY <2>1, EndStep
<1> QED
  BY <1>2, <1>3, <1>4, <1>5, <1>6, <1>7 DEF Task

\* One case per action.
LEMMA StreamStep == StreamInv /\ [Next]_vars => StreamInv'
<1> SUFFICES ASSUME StreamInv, [Next]_vars PROVE StreamInv'
  OBVIOUS
<1>0. /\ sse \in BOOLEAN /\ eol \in {"lf", "cr"} /\ timer \in Nat /\ silence \in Nat
      /\ upstream \in {"open", "eof", "error"}
      /\ phase \in {"prefetch", "flushing", "pulling", "sending", "over"}
  BY DEF StreamInv
<1>1. ASSUME phase # "over", UNCHANGED <<sse, eol, phase, outcome>>, timer' \in Nat,
             silence' \in Nat, upstream' \in {"open", "eof", "error"},
             sse => EventStream', ~sse => PlainBody'
      PROVE  StreamInv'
  BY <1>0, <1>1 DEF StreamInv
<1>2. ASSUME phase # "over", timer' \in Nat, silence' \in Nat,
             upstream' \in {"open", "eof", "error"},
             UNCHANGED <<sse, eol, wire, sent, phase, parser, prefetched, hand, owed, outcome>>,
             silence + timer >= InterEvent => silence' + timer' >= InterEvent
      PROVE  StreamInv'
  <2>1. sse => EventStream'
    BY <1>2, QuietEvents
  <2>2. ~sse => PlainBody'
    <3>1. ~sse => PlainBody
      BY <1>2 DEF StreamInv
    <3> QED
      BY <1>2, <3>1 DEF PlainBody
  <2> QED
    BY <1>1, <1>2, <2>1, <2>2
<1>3. ASSUME NEW b \in Tokens, Emit(b) PROVE StreamInv'
  <2>1. /\ phase # "over" /\ UNCHANGED <<sse, eol, upstream, phase, timer, outcome>>
        /\ silence' \in {0, silence}
    BY <1>3 DEF Emit, pumpVars
  <2>2. (sse => EventStream') /\ (~sse => PlainBody')
    BY <1>3, <2>1, EmitEvents, EmitPlain
  <2> QED
    BY <1>0, <1>1, <2>1, <2>2, SMTT(30)
<1>4. CASE UpstreamEnds
  BY <1>0, <1>2, <1>4 DEF UpstreamEnds, pumpVars, clockVars
<1>5. CASE ClientReads \/ ClientLeaves
  BY <1>0, <1>2, <1>5 DEF ClientReads, ClientLeaves, upstreamVars, pumpVars, clockVars
<1>6. CASE Tick
  <2>1. /\ phase # "over" /\ timer' \in {timer, Down(timer)}
        /\ silence' = IF silence < InterEvent THEN silence + 1 ELSE silence
        /\ UNCHANGED <<sse, eol, upstream, wire, sent, phase, parser, prefetched, hand, owed,
                       outcome>>
    BY <1>6 DEF Tick, upstreamVars, pumpVars
  <2>2. InterEvent \in Nat
    BY StreamConstants
  <2>3. timer' \in Nat /\ silence' \in Nat
    BY <1>0, <2>1, SMTT(30) DEF Down
  <2>4. silence + timer >= InterEvent => silence' + timer' >= InterEvent
    <3>1. timer' >= timer - 1
      BY <1>0, <2>1, SMTT(30) DEF Down
    <3>2. silence' = IF silence < InterEvent THEN silence + 1 ELSE silence
      BY <2>1
    <3>3. \A i, s, t, u \in Nat :
            u >= t - 1 /\ s + t >= i => (IF s < i THEN s + 1 ELSE s) + u >= i
      BY SMTT(30)
    <3> QED
      BY <1>0, <2>2, <2>3, <3>1, <3>2, <3>3
  <2> QED
    BY <1>0, <1>2, <2>1, <2>3, <2>4
<1>7. CASE Task \/ ReadTimeout
  <2>1. phase # "over"
    BY <1>7 DEF Task, Prefetch, Pull, ReadEnds, Sent, SendFails, Cancelled, ReadTimeout,
                Reading, Sending
  <2> QED
    BY <1>7, <2>1, TaskStep
<1>8. CASE UNCHANGED vars
  <2>1. CASE phase # "over"
    BY <1>0, <1>2, <1>8, <2>1 DEF vars, upstreamVars, pumpVars, clockVars, StreamInv
  <2>2. CASE phase = "over"
    <3>1. BlameEarned /\ CompletedWhole
      BY <2>2 DEF StreamInv
    <3>2. BlameEarned' /\ CompletedWhole'
      BY <1>8, <3>1 DEF BlameEarned, CompletedWhole, vars, upstreamVars, pumpVars, clockVars
    <3> QED
      BY <1>0, <1>8, <2>2, <3>2 DEF StreamInv, vars, upstreamVars, pumpVars, clockVars
  <2> QED
    BY <2>1, <2>2
<1>9. CASE Done
  BY <1>8, <1>9 DEF Done
<1> QED
  BY <1>3, <1>4, <1>5, <1>6, <1>7, <1>8, <1>9 DEF Next

\* For any cap, deadlines and body, wherever the chunks are cut: with all bytes
\* read, the gateway has counted the events and read the usage that a client
\* decodes from them, unless an event was above the cap, and never more events
\* (SseUsageParser::push, consume_event, prepare_response, pump_upstream).
THEOREM SplittersAlwaysAgree == Spec => []SplittersAgree
  BY StreamInit, StreamStep, StreamInvImplies, PTL DEF Spec

\* For any deadlines, and however long the client holds the pump up: a stream ends
\* for want of an event only if none came for the whole inter_event_timeout
\* (pump_upstream).
THEOREM BlameAlwaysEarned == Spec => []BlameEarned
  BY StreamInit, StreamStep, StreamInvImplies, PTL DEF Spec

\* For any body and chunks: a completed answer was handed on to the last byte, the
\* prefetched ones included, and a plain body was parsed whole or not at all
\* (pump_upstream, send_with_timeout, JsonUsageParser).
THEOREM CompletedAlwaysWhole == Spec => []CompletedWhole
  BY StreamInit, StreamStep, StreamInvImplies, PTL DEF Spec
=============================================================================
