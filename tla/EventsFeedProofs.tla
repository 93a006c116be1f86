-------------------------- MODULE EventsFeedProofs --------------------------
(* Proofs about EventsFeed, for any number of events and of streams.       *)
EXTENDS EventsFeed, SequenceTheorems, TLAPS

(***************************************************************************)
(* Sequences of event numbers, by what they hold and by their order.       *)
(***************************************************************************)

Increasing(q) == \A i, j \in 1 .. Len(q) : i < j => q[i] < q[j]

LEMMA AppendFacts ==
    ASSUME NEW q \in Seq(Nat), NEW e \in Nat
    PROVE  /\ Append(q, e) \in Seq(Nat)
           /\ Range(Append(q, e)) = Range(q) \cup {e}
           /\ Increasing(q) /\ (\A a \in Range(q) : a < e) => Increasing(Append(q, e))
<1>1. /\ Append(q, e) \in Seq(Nat) /\ Len(Append(q, e)) = Len(q) + 1 /\ Len(q) \in Nat
      /\ \A i \in 1 .. Len(q) : Append(q, e)[i] = q[i]
      /\ Append(q, e)[Len(q) + 1] = e
      /\ DOMAIN q = 1 .. Len(q) /\ DOMAIN Append(q, e) = 1 .. Len(q) + 1
  BY AppendProperties, LenProperties
<1>2. \A i \in 1 .. Len(q) + 1 : i \in 1 .. Len(q) \/ i = Len(q) + 1
  BY <1>1
<1>3. Range(Append(q, e)) = Range(q) \cup {e}
  BY <1>1, <1>2 DEF Range
<1>4. ASSUME Increasing(q), \A a \in Range(q) : a < e, NEW i \in 1 .. Len(q) + 1,
             NEW j \in 1 .. Len(q) + 1, i < j
      PROVE  Append(q, e)[i] < Append(q, e)[j]
  <2>1. i \in 1 .. Len(q) /\ Append(q, e)[i] = q[i] /\ q[i] \in Range(q)
    BY <1>1, <1>4 DEF Range
  <2>2. CASE j = Len(q) + 1
    BY <1>1, <1>4, <2>1, <2>2
  <2>3. CASE j \in 1 .. Len(q)
    BY <1>1, <1>4, <2>1, <2>3 DEF Increasing
  <2> QED BY <1>2, <2>2, <2>3
<1> QED BY <1>1, <1>3, <1>4 DEF Increasing

LEMMA TailFacts ==
    ASSUME NEW q \in Seq(Nat), q # <<>>
    PROVE  /\ Head(q) \in Nat /\ Tail(q) \in Seq(Nat)
           /\ Range(q) = Range(Tail(q)) \cup {Head(q)}
           /\ Increasing(q) => Increasing(Tail(q)) /\ \A b \in Range(Tail(q)) : Head(q) < b
<1>1. /\ Head(q) = q[1] /\ Head(q) \in Nat /\ Tail(q) \in Seq(Nat) /\ Len(q) \in Nat \ {0}
      /\ Len(Tail(q)) = Len(q) - 1 /\ DOMAIN q = 1 .. Len(q)
      /\ DOMAIN Tail(q) = 1 .. Len(q) - 1
      /\ \A i \in 1 .. Len(q) - 1 : Tail(q)[i] = q[i + 1]
  BY HeadTailProperties, LenProperties, EmptySeq
<1>2. \A i \in 1 .. Len(q) : i = 1 \/ (i - 1 \in 1 .. Len(q) - 1 /\ Tail(q)[i - 1] = q[i])
  BY <1>1
<1>3. Range(q) = Range(Tail(q)) \cup {Head(q)}
  <2>1. ASSUME NEW a \in Range(q) PROVE a \in Range(Tail(q)) \cup {Head(q)}
    <3>1. PICK i \in 1 .. Len(q) : a = q[i]
      BY <1>1 DEF Range
    <3>2. CASE i = 1
      BY <1>1, <3>1, <3>2
    <3>3. CASE i # 1
      <4>1. i - 1 \in DOMAIN Tail(q) /\ Tail(q)[i - 1] = a
        BY <1>1, <1>2, <3>1, <3>3
      <4> QED BY <4>1 DEF Range
    <3> QED BY <3>2, <3>3
  <2>2. ASSUME NEW a \in Range(Tail(q)) \cup {Head(q)} PROVE a \in Range(q)
    BY <1>1 DEF Range
  <2> QED BY <2>1, <2>2
<1>4. ASSUME Increasing(q)
      PROVE  Increasing(Tail(q)) /\ \A b \in Range(Tail(q)) : Head(q) < b
  <2>1. ASSUME NEW i \in 1 .. Len(Tail(q)), NEW j \in 1 .. Len(Tail(q)), i < j
        PROVE  Tail(q)[i] < Tail(q)[j]
    <3>1. i + 1 \in 1 .. Len(q) /\ j + 1 \in 1 .. Len(q) /\ i + 1 < j + 1
      BY <1>1, <2>1
    <3>2. q[i + 1] < q[j + 1]
      BY <1>4, <3>1 DEF Increasing
    <3> QED BY <1>1, <2>1, <3>2
  <2>2. ASSUME NEW b \in Range(Tail(q)) PROVE Head(q) < b
    <3>1. PICK i \in 1 .. Len(q) - 1 : b = q[i + 1]
      BY <1>1 DEF Range
    <3>2. 1 \in 1 .. Len(q) /\ i + 1 \in 1 .. Len(q) /\ 1 < i + 1
      BY <1>1
    <3> QED BY <1>1, <1>4, <3>1, <3>2 DEF Increasing
  <2> QED BY <2>1, <2>2 DEF Increasing
<1> QED BY <1>1, <1>3, <1>4

LEMMA EmptyFacts == <<>> \in Seq(Nat) /\ Range(<<>>) = {} /\ Increasing(<<>>)
BY EmptySeq, LenProperties DEF Range, Increasing

(***************************************************************************)
(* The invariant.  Every event is in one place of the way from Docker to   *)
(* sendJSON, and those nearer to the server are earlier.                   *)
(***************************************************************************)

Labels == {"top", "dial", "ask", "return", "backoff", "over"} \cup Reading

\* The part of the type invariant that the properties below depend on.
TypeOK ==
    /\ loop \in Labels
    /\ pending \in Seq(Nat) /\ sent \in Seq(Nat)
    /\ event \in Nat /\ emitted \in Nat /\ start \in Nat
    /\ wanted \subseteq 0 .. emitted
    /\ late \in Nat /\ done \in BOOLEAN

\* An event that was decoded and not yet filtered is between those sent and
\* those pending.
Ordered ==
    /\ Increasing(sent) /\ Increasing(pending)
    /\ \A a \in Range(sent), b \in Range(pending) : a < b
    /\ loop = "filter" => (\A a \in Range(sent) : a < event) /\ (\A b \in Range(pending) : event < b)

\* Nothing is on its way that Docker has not reported.
Reported ==
    /\ \A a \in Range(sent) \cup Range(pending) : a <= emitted
    /\ loop = "filter" => event <= emitted

\* The one event after done leaves the loop where it will look at done next.
LateAgrees ==
    /\ ~done => late = 0
    /\ late <= 1
    /\ late = 1 => loop \notin {"decode", "filter"}

IInv == TypeOK /\ Ordered /\ Reported /\ LateAgrees /\ NoGap

LEMMA InitIInv == Init => IInv
<1> SUFFICES ASSUME Init PROVE IInv
  OBVIOUS
<1> USE EmptyFacts DEF Init
<1>1. TypeOK
  BY DEF TypeOK, Labels
<1>2. Ordered /\ Reported /\ LateAgrees /\ NoGap
  BY DEF Ordered, Reported, LateAgrees, NoGap, Reading
<1> QED BY <1>1, <1>2 DEF IInv

\* Steps that only move the loop, with or without dropping what is pending.
LEMMA MovePreserves ==
    ASSUME IInv, NEW to \in Labels, loop' = to,
           UNCHANGED <<event, done, emitted, wanted, sent, late>>,
           pending' \in {pending, <<>>}, start' \in {start, emitted},
           to # "filter", to = "decode" => ~done /\ loop \in Reading,
           to \in Reading =>
             \/ loop \in Reading \ {"filter"} /\ UNCHANGED <<pending, stream, ended, start>>
             \/ loop \notin Reading /\ start' = emitted
    PROVE  IInv'
<1> USE EmptyFacts DEF IInv, TypeOK
<1>1. TypeOK'
  OBVIOUS
<1>2. Ordered' /\ Reported'
  BY DEF Ordered, Reported
<1>3. LateAgrees'
  BY DEF LateAgrees
<1>4. NoGap'
  BY DEF NoGap, Reading
<1> QED BY <1>1, <1>2, <1>3, <1>4

\* Docker reports an event: it goes to the stream that is read, if any.
LEMMA EmitPreserves == IInv /\ Emit => IInv'
<1> SUFFICES ASSUME IInv, Emit PROVE IInv'
  OBVIOUS
<1> USE DEF IInv, Emit, streamVars, dockerVars
<1>1. /\ emitted' = emitted + 1 /\ emitted' \in Nat
      /\ Append(pending, emitted') \in Seq(Nat)
      /\ Range(Append(pending, emitted')) = Range(pending) \cup {emitted'}
      /\ \A a \in Range(pending) \cup Range(sent) : a < emitted'
  <2>1. emitted' = emitted + 1 /\ emitted' \in Nat /\ pending \in Seq(Nat)
    BY DEF TypeOK
  <2>2. Range(pending) \cup Range(sent) \subseteq Nat
    BY LenProperties DEF TypeOK, Range
  <2>3. \A a \in Range(pending) \cup Range(sent) : a < emitted'
    BY <2>1, <2>2 DEF Reported, TypeOK
  <2> QED BY <2>1, <2>3, AppendFacts
<1>1a. Range(pending) \cup Range(sent) \subseteq Nat
  BY LenProperties DEF TypeOK, Range
<1>2. Increasing(Append(pending, emitted'))
  BY <1>1, AppendFacts DEF Ordered, TypeOK
<1>3. pending' = pending \/ pending' = Append(pending, emitted')
  OBVIOUS
<1>4. TypeOK'
  BY <1>1, <1>3 DEF TypeOK
<1>5. Ordered'
  BY <1>1, <1>2, <1>3 DEF Ordered, Reported, TypeOK
<1>6. Reported'
  <2>1. \A a \in Range(sent) \cup Range(pending) : a <= emitted'
    BY <1>1, <1>1a DEF TypeOK
  <2> QED BY <1>1, <1>3, <2>1 DEF Reported, TypeOK
<1>7. LateAgrees'
  BY DEF LateAgrees
<1>8. NoGap'
  BY <1>1 DEF NoGap, TypeOK
<1> QED BY <1>4, <1>5, <1>6, <1>7, <1>8

LEMMA DecodePreserves == IInv /\ Decode => IInv'
<1> SUFFICES ASSUME IInv, Decode PROVE IInv'
  OBVIOUS
<1> USE DEF IInv, Decode, streamVars, dockerVars
<1>1. /\ event' \in Nat /\ pending' \in Seq(Nat)
      /\ Range(pending) = Range(pending') \cup {event'}
      /\ Increasing(pending') /\ \A b \in Range(pending') : event' < b
  BY TailFacts DEF TypeOK, Ordered
<1>2. TypeOK'
  BY <1>1 DEF TypeOK, Labels, Reading
<1>3. Ordered' /\ Reported'
  BY <1>1 DEF Ordered, Reported
<1>4. LateAgrees' /\ NoGap'
  BY <1>1 DEF LateAgrees, NoGap, Reading, TypeOK
<1> QED BY <1>2, <1>3, <1>4

LEMMA FilterPreserves == IInv /\ Filter => IInv'
<1> SUFFICES ASSUME IInv, Filter PROVE IInv'
  OBVIOUS
<1> USE DEF IInv, Filter, streamVars, dockerVars
<1>1. CASE Passes(event)
  <2>1. /\ sent' = Append(sent, event) /\ sent' \in Seq(Nat)
        /\ Range(sent') = Range(sent) \cup {event} /\ Increasing(sent')
    <3>1. /\ sent' = Append(sent, event) /\ sent \in Seq(Nat) /\ event \in Nat
          /\ Increasing(sent) /\ \A a \in Range(sent) : a < event
      BY <1>1 DEF TypeOK, Ordered
    <3> QED BY <3>1, AppendFacts
  <2>2. TypeOK'
    BY <1>1, <2>1 DEF TypeOK, Labels, Reading
  <2>3. Ordered' /\ Reported'
    BY <1>1, <2>1 DEF Ordered, Reported
  <2>4. LateAgrees'
    BY <1>1 DEF LateAgrees, TypeOK
  <2>5. NoGap'
    BY <1>1, <2>1 DEF NoGap, Reading
  <2> QED BY <2>2, <2>3, <2>4, <2>5
<1>2. CASE ~Passes(event)
  <2>1. TypeOK'
    BY <1>2 DEF TypeOK, Labels, Reading
  <2>2. Ordered' /\ Reported' /\ LateAgrees'
    BY <1>2 DEF Ordered, Reported, LateAgrees
  <2>3. NoGap'
    BY <1>2 DEF NoGap, Reading, Passes
  <2> QED BY <2>1, <2>2, <2>3
<1> QED BY <1>1, <1>2

LEMMA StepIInv == IInv /\ [Next]_vars => IInv'
<1> SUFFICES ASSUME IInv, [Next]_vars PROVE IInv'
  OBVIOUS
<1>1. CASE Emit
  BY <1>1, EmitPreserves
<1>2. CASE EndStream
  BY <1>2 DEF EndStream, IInv, TypeOK, Ordered, Reported, LateAgrees, NoGap, streamVars
<1>3. CASE CloseDone
  BY <1>3 DEF CloseDone, IInv, TypeOK, Ordered, Reported, LateAgrees, NoGap, streamVars, dockerVars
<1>4. CASE Subscribe
  BY <1>4, MovePreserves
     DEF Subscribe, IInv, TypeOK, Labels, Reading, streamVars, dockerVars
<1>5. CASE Decode
  BY <1>5, DecodePreserves
<1>6. CASE Filter
  BY <1>6, FilterPreserves
<1>7. CASE Poll
  <2>1. Poll /\ loop' \in Labels /\ loop \in Reading
    BY <1>7 DEF Poll, Labels, Reading
  <2> QED BY <2>1, MovePreserves DEF Poll, Reading, streamVars, dockerVars
<1>8. CASE Dial \/ DialFails \/ AskFails \/ DecodeFails
  BY <1>8, MovePreserves
     DEF Dial, DialFails, AskFails, DecodeFails, Labels, Reading, streamVars, dockerVars
<1>9. CASE Return \/ BackoffEnds \/ StopInBackoff
  BY <1>9, MovePreserves
     DEF Return, BackoffEnds, StopInBackoff, Labels, Reading, streamVars, dockerVars
<1>10. CASE Top
  BY <1>10, MovePreserves DEF Top, Labels, Reading, streamVars, dockerVars
<1>11. ASSUME UNCHANGED <<loop, stream, pending, event, done, dockerVars, start, sent, late>>
       PROVE  IInv'
  BY <1>11 DEF IInv, TypeOK, Ordered, Reported, LateAgrees, NoGap, dockerVars
<1>12. ASSUME NEW k \in Streams, Watch(k) PROVE IInv'
  BY <1>11, <1>12 DEF Watch
<1>13. CASE UNCHANGED vars
  BY <1>11, <1>13 DEF vars, streamVars
<1> QED BY <1>1, <1>2, <1>3, <1>4, <1>5, <1>6, <1>7, <1>8, <1>9, <1>10, <1>12, <1>13
        DEF Next, Loop

LEMMA Invariance == Spec => []IInv
BY InitIInv, StepIInv, PTL DEF Spec

\* A loop whose run is over hands at most one more event to sendJSON.
THEOREM AtMostOneAfterDoneHolds == Spec => []AtMostOneAfterDone
<1>1. IInv => AtMostOneAfterDone
  BY DEF IInv, LateAgrees, AtMostOneAfterDone
<1> QED BY <1>1, Invariance, PTL

\* The server gets events in Docker's order and none twice, for any number of
\* streams that end and are opened again.
THEOREM InOrderOnceHolds == Spec => []InOrderOnce
<1>1. IInv => InOrderOnce
  <2> SUFFICES ASSUME IInv PROVE InOrderOnce
    OBVIOUS
  <2>1. DOMAIN sent = 1 .. Len(sent)
    BY LenProperties DEF IInv, TypeOK
  <2> QED BY <2>1 DEF IInv, Ordered, Increasing, InOrderOnce
<1> QED BY <1>1, Invariance, PTL

\* No wanted event of a stream that is read is lost on the way to sendJSON.
THEOREM NoGapHolds == Spec => []NoGap
<1>1. IInv => NoGap
  BY DEF IInv
<1> QED BY <1>1, Invariance, PTL
=============================================================================
