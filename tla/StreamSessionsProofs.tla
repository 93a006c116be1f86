------------------------ MODULE StreamSessionsProofs ------------------------
(* Proofs about StreamSessions, for any requests, ids and limits.          *)
EXTENDS StreamSessions, FiniteSetTheorems, SequenceTheorems, TLAPS

(***************************************************************************)
(* Type correctness.                                                       *)
(***************************************************************************)

Labels == {"unsent", "check", "register", "request", "top", "read", "delete", "farewell", "over"}
Kinds == {"stream", "error", "stream_end"}

TypeOK ==
    /\ pc \in [Requests -> Labels]
    /\ streams \in [RequestIds -> Requests \cup {NoStream}]
    /\ ctx \in [Requests -> {"none", "live", "cancelled"}]
    /\ finished \subseteq Requests
    /\ sent \in [Requests -> Seq(Kinds)]
    /\ stopMsg \in [RequestIds -> {"unsent", "pending", "cancelling", "handled"}]
    /\ found \in [RequestIds -> Requests \cup {NoStream}]

\* What cancelStream will cancel is a request that had the id of its message.
FoundAgrees ==
    \A x \in RequestIds : stopMsg[x] = "cancelling" =>
        found[x] \in Requests /\ IdOf[found[x]] = x

\* An entry is under the id of its request.
TableAgrees == \A x \in RequestIds : streams[x] # NoStream => IdOf[streams[x]] = x

IInv == TypeOK /\ FoundAgrees /\ TableAgrees /\ TableIsRunning /\ CancelledForCause

LEMMA SendTyped ==
    ASSUME TypeOK, NEW r \in Requests, NEW kind \in Kinds, Send(r, kind)
    PROVE  sent' \in [Requests -> Seq(Kinds)]
<1>1. sent[r] \in Seq(Kinds)
  BY DEF TypeOK
<1>2. Append(sent[r], kind) \in Seq(Kinds)
  BY <1>1, AppendProperties
<1> QED BY <1>2 DEF TypeOK, Send

\* Every step keeps the types, as long as cancelStream has found a request.
LEMMA TypingStep == TypeOK /\ FoundAgrees /\ [Next]_vars => TypeOK'
<1> USE ConstantsAssumption
<1> SUFFICES ASSUME TypeOK, FoundAgrees, [Next]_vars PROVE TypeOK'
  OBVIOUS
<1>1. ASSUME NEW r \in Requests, NEW to \in Labels, Goto(r, to),
             sent' \in [Requests -> Seq(Kinds)],
             UNCHANGED <<streams, ctx, finished, stopMsg, found>>
      PROVE  TypeOK'
  BY <1>1 DEF TypeOK, Goto
<1>2. ASSUME NEW r \in Requests, NEW to \in Labels, NEW kind \in Kinds,
             Goto(r, to), Send(r, kind), UNCHANGED <<streams, ctx, finished, stopMsg, found>>
      PROVE  TypeOK'
  BY <1>1, <1>2, SendTyped
<1>3. ASSUME NEW r \in Requests, NEW to \in Labels,
             Goto(r, to), UNCHANGED <<streams, ctx, finished, sent, stopMsg, found>>
      PROVE  TypeOK'
  BY <1>1, <1>3 DEF TypeOK
<1>4. ASSUME NEW r \in Requests, Handler(r) PROVE TypeOK'
  <2>1. CASE RejectRequest(r)
    BY <1>2, <2>1 DEF RejectRequest, Labels, Kinds
  <2>2. CASE AdmitRequest(r)
    BY <1>3, <2>2 DEF AdmitRequest, Labels
  <2>3. CASE RegisterStream(r)
    BY <2>3 DEF RegisterStream, TypeOK, Goto, Labels
  <2>4. CASE CheckContext(r)
    BY <1>3, <2>4 DEF CheckContext, Labels
  <2>5. CASE ReadEnds(r)
    BY <1>3, <2>5 DEF ReadEnds, Labels
  <2>6. CASE DeleteStream(r)
    BY <2>6 DEF DeleteStream, TypeOK, Goto, Labels
  <2>7. CASE SendStreamEnd(r)
    BY <1>2, <2>7 DEF SendStreamEnd, Labels, Kinds
  <2> QED BY <1>4, <2>1, <2>2, <2>3, <2>4, <2>5, <2>6, <2>7 DEF Handler
<1>5. ASSUME NEW r \in Requests, DockerAnswers(r) PROVE TypeOK'
  BY <1>2, <1>3, <1>5 DEF DockerAnswers, StreamRequest, FailRequest, Labels, Kinds
<1>6. ASSUME NEW r \in Requests, ReadData(r) PROVE TypeOK'
  BY <1>2, <1>6 DEF ReadData, Labels, Kinds
<1>7. ASSUME NEW r \in Requests, ReceiveRequest(r) \/ SourceEnds(r) PROVE TypeOK'
  <2>1. CASE ReceiveRequest(r)
    BY <1>3, <2>1 DEF ReceiveRequest, Labels
  <2>2. CASE SourceEnds(r)
    BY <2>2 DEF SourceEnds, TypeOK
  <2> QED BY <1>7, <2>1, <2>2
<1>8. ASSUME NEW x \in RequestIds, ReceiveStop(x) PROVE TypeOK'
  BY <1>8 DEF ReceiveStop, TypeOK
<1>9. ASSUME NEW x \in RequestIds, LookupStop(x) PROVE TypeOK'
  BY <1>9 DEF LookupStop, TypeOK
<1>10. ASSUME NEW x \in RequestIds, CancelFound(x) PROVE TypeOK'
  BY <1>10 DEF CancelFound, TypeOK, FoundAgrees
<1>11. CASE UNCHANGED vars
  BY <1>11 DEF vars, TypeOK
<1> QED BY <1>4, <1>5, <1>6, <1>7, <1>8, <1>9, <1>10, <1>11 DEF Next, CancelStream

LEMMA InitIInv == Init => IInv
<1> USE ConstantsAssumption DEF Init
<1>1. <<>> \in Seq(Kinds)
  OBVIOUS
<1>2. Init => TypeOK
  BY <1>1 DEF TypeOK, Labels
<1>3. Init => FoundAgrees /\ TableAgrees /\ TableIsRunning /\ CancelledForCause
  BY DEF FoundAgrees, TableAgrees, TableIsRunning, CancelledForCause, Registered
<1> QED BY <1>2, <1>3 DEF IInv

(***************************************************************************)
(* The invariant.  Who is in the table follows the label of the request;   *)
(* what a lookup found keeps its id until it is cancelled.                 *)
(***************************************************************************)

\* Steps that move one request and touch neither the table nor a context.
LEMMA MovePreserves ==
    ASSUME IInv, TypeOK', NEW r \in Requests, NEW to \in Labels, Goto(r, to),
           UNCHANGED <<streams, ctx, stopMsg, found>>,
           pc[r] \in Registered <=> to \in Registered
    PROVE  IInv'
<1> USE DEF IInv, TypeOK
<1>1. TableIsRunning'
  BY DEF Goto, TableIsRunning, OwnId
<1>2. FoundAgrees' /\ TableAgrees' /\ CancelledForCause'
  BY DEF FoundAgrees, TableAgrees, CancelledForCause
<1> QED BY <1>1, <1>2

LEMMA StepIInv == IInv /\ [Next]_vars => IInv'
<1> USE ConstantsAssumption
<1> SUFFICES ASSUME IInv, [Next]_vars PROVE IInv'
  OBVIOUS
<1>0. TypeOK /\ TypeOK' /\ FoundAgrees
  BY TypingStep DEF IInv
<1> USE <1>0
<1>1. ASSUME NEW r \in Requests,
             \/ ReceiveRequest(r) \/ RejectRequest(r) \/ AdmitRequest(r) \/ CheckContext(r)
             \/ ReadEnds(r) \/ SendStreamEnd(r) \/ DockerAnswers(r) \/ ReadData(r)
      PROVE  IInv'
  <2>1. CASE ReceiveRequest(r) \/ RejectRequest(r) \/ AdmitRequest(r) \/ SendStreamEnd(r)
    BY <2>1, MovePreserves
       DEF ReceiveRequest, RejectRequest, AdmitRequest, SendStreamEnd, At, Labels, Registered
  <2>2. CASE CheckContext(r) \/ ReadEnds(r) \/ DockerAnswers(r) \/ ReadData(r)
    BY <2>2, MovePreserves
       DEF CheckContext, ReadEnds, DockerAnswers, StreamRequest, FailRequest, ReadData, At,
           Labels, Registered
  <2> QED BY <1>1, <2>1, <2>2
<1>2. ASSUME NEW r \in Requests, RegisterStream(r) PROVE IInv'
  <2> USE <1>2 DEF RegisterStream, At, Goto, IInv, TypeOK
  <2>1. TableAgrees' /\ FoundAgrees'
    BY DEF TableAgrees, FoundAgrees
  <2>2. TableIsRunning'
    BY DEF TableIsRunning, OwnId, Registered
  <2>3. CancelledForCause'
    BY DEF CancelledForCause
  <2> QED BY <2>1, <2>2, <2>3
<1>3. ASSUME NEW r \in Requests, DeleteStream(r) PROVE IInv'
  <2> USE <1>3 DEF DeleteStream, At, Goto, IInv, TypeOK
  <2>1. TableAgrees' /\ FoundAgrees'
    BY DEF TableAgrees, FoundAgrees
  <2>2. TableIsRunning'
    BY DEF TableIsRunning, OwnId, Registered
  <2>3. CancelledForCause'
    BY DEF CancelledForCause
  <2> QED BY <2>1, <2>2, <2>3
<1>4. ASSUME NEW x \in RequestIds, LookupStop(x) PROVE IInv'
  <2> USE <1>4 DEF LookupStop, IInv, TypeOK
  <2>1. FoundAgrees'
    BY DEF FoundAgrees, TableAgrees, Live
  <2>2. TableAgrees' /\ TableIsRunning'
    BY DEF TableAgrees, TableIsRunning, OwnId
  <2>3. CancelledForCause'
    BY DEF CancelledForCause
  <2> QED BY <2>1, <2>2, <2>3
<1>5. ASSUME NEW x \in RequestIds, CancelFound(x) PROVE IInv'
  <2> USE <1>5 DEF CancelFound, IInv, TypeOK
  <2>1. found[x] \in Requests /\ IdOf[found[x]] = x
    BY DEF FoundAgrees
  <2>2. CancelledForCause'
    BY <2>1 DEF CancelledForCause
  <2>3. FoundAgrees' /\ TableAgrees' /\ TableIsRunning'
    BY DEF FoundAgrees, TableAgrees, TableIsRunning, OwnId
  <2> QED BY <2>2, <2>3
<1>6. ASSUME NEW x \in RequestIds, ReceiveStop(x) PROVE IInv'
  BY <1>6 DEF ReceiveStop, IInv, TypeOK, FoundAgrees, TableAgrees, TableIsRunning,
              CancelledForCause, OwnId
<1>7. ASSUME UNCHANGED <<pc, streams, ctx, stopMsg, found>> PROVE IInv'
  BY <1>7 DEF IInv, FoundAgrees, TableAgrees, TableIsRunning, CancelledForCause, OwnId
<1>8. ASSUME NEW r \in Requests, SourceEnds(r) PROVE IInv'
  BY <1>7, <1>8 DEF SourceEnds
<1>9. CASE UNCHANGED vars
  BY <1>7, <1>9 DEF vars
<1> QED BY <1>1, <1>2, <1>3, <1>4, <1>5, <1>6, <1>8, <1>9 DEF Next, Handler, CancelStream

LEMMA Invariance == Spec => []IInv
BY InitIInv, StepIInv, PTL DEF Spec

\* A stream whose requestId is its own is in c.streams exactly while it runs,
\* so that a stream_end finds it and the limit counts it.
THEOREM TableIsRunningHolds == Spec => []TableIsRunning
<1>1. IInv => TableIsRunning
  BY DEF IInv
<1> QED BY <1>1, Invariance, PTL

\* cancelStream cancels no stream but one its message names, however many other
\* streams come and go between its lookup and its cancellation.
THEOREM CancelledForCauseHolds == Spec => []CancelledForCause
<1>1. IInv => CancelledForCause
  BY DEF IInv
<1> QED BY <1>1, Invariance, PTL

(***************************************************************************)
(* The limit, as for the exec sessions: entries and requests about to be   *)
(* entered are counted together, with those between receipt and entry.     *)
(***************************************************************************)

ParallelBound == Cardinality(Entering) <= MaxParallel

LimitInv == IInv /\ ParallelBound /\ StreamLimitBound

LEMMA AddOne ==
    ASSUME NEW S, NEW e, IsFiniteSet(S)
    PROVE  Cardinality(S \cup {e}) \in Nat /\ Cardinality(S \cup {e}) <= Cardinality(S) + 1
<1>1. Cardinality(S) \in Nat
  BY FS_CardinalityType
<1>2. Cardinality(S \cup {e}) = IF e \in S THEN Cardinality(S) ELSE Cardinality(S) + 1
  BY FS_AddElement
<1> QED BY <1>1, <1>2

\* The three sets that are counted are finite, whatever the state.
LEMMA Counted ==
    /\ IsFiniteSet(Live) /\ Cardinality(Live) \in Nat
    /\ IsFiniteSet(Registering) /\ Cardinality(Registering) \in Nat
    /\ IsFiniteSet(Entering) /\ Cardinality(Entering) \in Nat
<1>1. Live \subseteq RequestIds /\ Registering \subseteq Requests /\ Entering \subseteq Requests
  BY DEF Live, Registering, Entering
<1> QED BY <1>1, ConstantsAssumption, FS_Subset, FS_CardinalityType

\* Nothing is received, admitted or registered: both bounds stay.
LEMMA ShrinkingKeepsLimit ==
    ASSUME LimitInv, IInv', Live' \subseteq Live, Registering' \subseteq Registering,
           Entering' \subseteq Entering
    PROVE  LimitInv'
<1>1. /\ Cardinality(Live') <= Cardinality(Live) /\ Cardinality(Live') \in Nat
      /\ Cardinality(Registering') <= Cardinality(Registering)
      /\ Cardinality(Registering') \in Nat
      /\ Cardinality(Entering') <= Cardinality(Entering) /\ Cardinality(Entering') \in Nat
  BY Counted, FS_Subset, FS_CardinalityType
<1> QED BY <1>1, Counted, ConstantsAssumption DEF LimitInv, ParallelBound, StreamLimitBound

LEMMA LimitStep == LimitInv /\ [Next]_vars => LimitInv'
<1> SUFFICES ASSUME LimitInv, [Next]_vars PROVE LimitInv'
  OBVIOUS
<1>0. IInv /\ IInv' /\ TypeOK /\ TypeOK'
  BY StepIInv DEF LimitInv, IInv
<1> USE <1>0 DEF TypeOK, Goto, At
<1>1. ASSUME NEW r \in Requests, ReceiveRequest(r) PROVE LimitInv'
  <2>1. Entering' = Entering \cup {r} /\ Live' = Live /\ Registering' = Registering
    BY <1>1 DEF ReceiveRequest, Entering, Live, Registering
  <2>2. Cardinality(Entering') \in Nat /\ Cardinality(Entering') <= Cardinality(Entering) + 1
    BY <2>1, Counted, AddOne
  <2>3. ParallelBound'
    BY <1>1, <2>2, Counted, ConstantsAssumption DEF ReceiveRequest, ParallelBound
  <2> QED BY <2>1, <2>3 DEF LimitInv, StreamLimitBound
<1>2. ASSUME NEW r \in Requests, AdmitRequest(r) PROVE LimitInv'
  <2>1. Entering' = Entering /\ Live' = Live /\ Registering' \subseteq Entering
    BY <1>2 DEF AdmitRequest, Entering, Live, Registering
  <2>2. Cardinality(Registering') <= Cardinality(Entering) /\ Cardinality(Registering') \in Nat
    BY <2>1, Counted, FS_Subset, FS_CardinalityType
  <2>3. StreamLimitBound'
    BY <1>2, <2>1, <2>2, Counted, ConstantsAssumption
       DEF AdmitRequest, LimitInv, ParallelBound, StreamLimitBound
  <2> QED BY <2>1, <2>3 DEF LimitInv, ParallelBound
<1>3. ASSUME NEW r \in Requests, RegisterStream(r) PROVE LimitInv'
  <2>1. /\ Registering' = Registering \ {r} /\ r \in Registering /\ Entering' \subseteq Entering
        /\ Live' = Live \cup {IdOf[r]}
    BY <1>3, ConstantsAssumption DEF RegisterStream, Registering, Entering, Live
  <2>2. Cardinality(Registering') = Cardinality(Registering) - 1
    BY <2>1, Counted, FS_RemoveElement
  <2>3. Cardinality(Live') <= Cardinality(Live) + 1 /\ Cardinality(Live') \in Nat
    BY <2>1, Counted, AddOne
  <2>4. Cardinality(Entering') <= Cardinality(Entering) /\ Cardinality(Entering') \in Nat
    BY <2>1, Counted, FS_Subset, FS_CardinalityType
  <2> QED BY <2>2, <2>3, <2>4, Counted, ConstantsAssumption
          DEF LimitInv, ParallelBound, StreamLimitBound
<1>4. ASSUME NEW r \in Requests, NEW to \in Labels \ {"check", "register"}, Goto(r, to),
             Live' \subseteq Live
      PROVE  LimitInv'
  <2>1. Registering' \subseteq Registering /\ Entering' \subseteq Entering
    BY <1>4 DEF Registering, Entering
  <2> QED BY <1>4, <2>1, ShrinkingKeepsLimit
<1>5. ASSUME NEW r \in Requests,
             \/ RejectRequest(r) \/ CheckContext(r) \/ ReadEnds(r) \/ SendStreamEnd(r)
             \/ DockerAnswers(r) \/ ReadData(r)
      PROVE  LimitInv'
  BY <1>4, <1>5 DEF RejectRequest, CheckContext, ReadEnds, SendStreamEnd, DockerAnswers,
                    StreamRequest, FailRequest, ReadData, Live, Labels
<1>6. ASSUME NEW r \in Requests, DeleteStream(r) PROVE LimitInv'
  <2>1. Live' \subseteq Live
    BY <1>6 DEF DeleteStream, Live
  <2> QED BY <1>4, <1>6, <2>1 DEF DeleteStream, Labels
<1>7. ASSUME UNCHANGED <<pc, streams>> PROVE LimitInv'
  BY <1>7, ShrinkingKeepsLimit DEF Live, Registering, Entering
<1>8. ASSUME NEW x \in RequestIds, ReceiveStop(x) \/ CancelStream(x) PROVE LimitInv'
  BY <1>7, <1>8 DEF ReceiveStop, CancelStream, LookupStop, CancelFound
<1>9. ASSUME NEW r \in Requests, SourceEnds(r) PROVE LimitInv'
  BY <1>7, <1>9 DEF SourceEnds
<1>10. CASE UNCHANGED vars
  BY <1>7, <1>10 DEF vars
<1> QED BY <1>1, <1>2, <1>3, <1>5, <1>6, <1>8, <1>9, <1>10 DEF Next, Handler

LEMMA InitLimit == Init => LimitInv
<1> SUFFICES ASSUME Init PROVE LimitInv
  OBVIOUS
<1>1. Live = {} /\ Registering = {} /\ Entering = {}
  BY DEF Init, Live, Registering, Entering
<1> QED BY <1>1, InitIInv, FS_EmptySet, ConstantsAssumption
        DEF LimitInv, ParallelBound, StreamLimitBound

\* c.streams exceeds maxStreamSessions by no more than the requests that are
\* between their receipt and their entry together, less one.
THEOREM StreamLimitBoundHolds == Spec => []StreamLimitBound
<1>1. LimitInv => StreamLimitBound
  BY DEF LimitInv
<1> QED BY <1>1, InitLimit, LimitStep, PTL DEF Spec

(***************************************************************************)
(* The promise.  Nothing is sent before Docker is asked, so an error that  *)
(* ends a request is its only message; and the last message of a stream    *)
(* is stream_end, so an ended stream is never taken for a refusal.         *)
(***************************************************************************)

Unopened == {"unsent", "check", "register"}
Open == {"request", "top", "read", "delete", "farewell"}

SentInv == IInv /\ \A r \in Requests : pc[r] \in Unopened => sent[r] = <<>>

LEMMA SentStep == SentInv /\ [Next]_vars => SentInv'
<1> SUFFICES ASSUME SentInv, [Next]_vars, NEW t \in Requests, pc'[t] \in Unopened
             PROVE  IInv' /\ sent'[t] = <<>>
  BY StepIInv DEF SentInv
<1>0. IInv' /\ TypeOK
  BY StepIInv DEF SentInv, IInv
<1>1. CASE UNCHANGED <<pc, sent>>
  BY <1>0, <1>1 DEF SentInv
<1>2. ASSUME NEW r \in Requests, NEW to \in Labels, Goto(r, to),
             sent' = sent \/ \E k \in Kinds : Send(r, k),
             (sent' = sent /\ pc[r] \in Unopened) \/ to \notin Unopened
      PROVE  sent'[t] = <<>>
  <2>1. CASE t = r
    BY <1>0, <1>2, <2>1 DEF Goto, SentInv, TypeOK
  <2>2. CASE t # r
    BY <1>0, <1>2, <2>2 DEF Goto, Send, SentInv, TypeOK
  <2> QED BY <2>1, <2>2
<1>3. ASSUME NEW r \in Requests,
             \/ ReceiveRequest(r) \/ RejectRequest(r) \/ AdmitRequest(r) \/ RegisterStream(r)
             \/ DockerAnswers(r)
      PROVE  sent'[t] = <<>>
  BY <1>2, <1>3 DEF ReceiveRequest, RejectRequest, AdmitRequest, RegisterStream, DockerAnswers,
                    StreamRequest, FailRequest, At, Unopened, Labels, Kinds
<1>4. ASSUME NEW r \in Requests,
             CheckContext(r) \/ ReadData(r) \/ ReadEnds(r) \/ DeleteStream(r) \/ SendStreamEnd(r)
      PROVE  sent'[t] = <<>>
  BY <1>2, <1>4 DEF CheckContext, ReadData, ReadEnds, DeleteStream, SendStreamEnd, At, Unopened,
                    Labels, Kinds
<1> QED BY <1>0, <1>1, <1>3, <1>4 DEF Next, Handler, vars, SourceEnds, ReceiveStop, CancelStream,
                                 LookupStop, CancelFound

LEMMA InitSent == Init => SentInv
BY InitIInv DEF Init, SentInv, Unopened

LEMMA AppendFacts ==
    ASSUME NEW q \in Seq(Kinds), NEW k \in Kinds
    PROVE  /\ Append(q, k) = q \o <<k>>
           /\ q = <<>> => Append(q, k) = <<k>>
           /\ k # "error" => Append(q, k) # <<"error">>
<1>1. /\ Append(q, k) \in Seq(Kinds) /\ Len(Append(q, k)) = Len(q) + 1 /\ Len(q) \in Nat
      /\ Append(q, k)[Len(q) + 1] = k
  BY AppendProperties, LenProperties
<1>2. Append(q, k) = q \o <<k>>
  BY AppendIsConcat
<1>3. q = <<>> => Append(q, k) = <<k>>
  BY <1>2, ConcatEmptySeq
<1>4. k # "error" => Append(q, k) # <<"error">>
  <2>1. Len(<<"error">>) = 1 /\ <<"error">>[1] = "error"
    OBVIOUS
  <2> QED BY <1>1, <2>1
<1> QED BY <1>2, <1>3, <1>4

\* A step of StreamSessions is a step of the promise, or leaves it alone.
LEMMA PromiseStep == SentInv /\ [Next]_vars => [Promise!Next]_<<Phase, sent>>
<1> SUFFICES ASSUME SentInv, [Next]_vars PROVE Promise!Next \/ UNCHANGED <<Phase, sent>>
  BY DEF Promise!vars
<1>0. Phase = [t \in Requests |-> Phase[t]] /\ Phase' = [t \in Requests |-> Phase'[t]]
  BY Zenon DEF Phase, At
<1> TypeOK
  BY DEF SentInv, IInv
<1> USE <1>0 DEF At
<1>1. ASSUME UNCHANGED <<pc, sent>> PROVE UNCHANGED <<Phase, sent>>
  BY <1>1 DEF Phase
<1>2. ASSUME NEW r \in Requests, NEW to \in Labels, Goto(r, to),
             sent' = sent \/ \E k \in Kinds : Send(r, k)
      PROVE  pc'[r] = to /\ Phase' = [Phase EXCEPT ![r] = Phase'[r]]
  <2>1. pc'[r] = to /\ \A t \in Requests \ {r} : pc'[t] = pc[t] /\ sent'[t] = sent[t]
    BY <1>2 DEF Goto, Send, TypeOK
  <2>2. \A t \in Requests \ {r} : Phase'[t] = Phase[t]
    BY <2>1 DEF Phase
  <2> QED BY <2>1, <2>2
<1>3. ASSUME NEW r \in Requests, NEW k \in Kinds, Send(r, k)
      PROVE  sent' = [sent EXCEPT ![r] = @ \o <<k>>] /\ sent'[r] = Append(sent[r], k)
  BY <1>3, AppendFacts DEF Send, TypeOK
<1>4. ASSUME NEW r \in Requests, sent' = sent
      PROVE  sent' = [sent EXCEPT ![r] = @ \o <<>>]
  BY <1>4, ConcatEmptySeq DEF TypeOK
<1>5. ASSUME NEW r \in Requests, NEW to \in Labels, Goto(r, to), sent' = sent,
             \/ pc[r] \in Open /\ to \in Open
             \/ pc[r] = "check" /\ to = "register"
      PROVE  UNCHANGED <<Phase, sent>>
  <2>1. Phase'[r] = Phase[r]
    BY <1>2, <1>5 DEF Phase, Open
  <2> QED BY <1>2, <1>5, <2>1
<1>6. ASSUME NEW r \in Requests, ReceiveRequest(r) PROVE Promise!Ask(r)
  <2>1. Phase[r] = "idle" /\ Phase'[r] = "pending" /\ Phase' = [Phase EXCEPT ![r] = Phase'[r]]
    BY <1>2, <1>6 DEF ReceiveRequest, Phase, Labels
  <2> QED BY <1>4, <1>6, <2>1 DEF ReceiveRequest, Promise!Ask, Promise!Move
<1>7. ASSUME NEW r \in Requests, RejectRequest(r) PROVE Promise!Refuse(r)
  <2>1. sent[r] = <<>> /\ sent[r] \in Seq(Kinds)
    BY <1>7 DEF RejectRequest, SentInv, Unopened, TypeOK
  <2>2. sent'[r] = <<"error">>
    BY <1>3, <1>7, <2>1, AppendFacts DEF RejectRequest, Kinds
  <2>3. Phase[r] = "pending" /\ Phase'[r] = "refused" /\ Phase' = [Phase EXCEPT ![r] = Phase'[r]]
    BY <1>2, <1>7, <2>2 DEF RejectRequest, Phase, Labels, Kinds
  <2> QED BY <1>3, <1>7, <2>3 DEF RejectRequest, Promise!Refuse, Promise!Move, Kinds
<1>8. ASSUME NEW r \in Requests, RegisterStream(r) PROVE Promise!Open(r)
  <2>1. Phase[r] = "pending" /\ Phase'[r] = "open" /\ Phase' = [Phase EXCEPT ![r] = Phase'[r]]
    BY <1>2, <1>8 DEF RegisterStream, Phase, Labels
  <2> QED BY <1>4, <1>8, <2>1 DEF RegisterStream, Promise!Open, Promise!Move
<1>9. ASSUME NEW r \in Requests, NEW to \in {"top", "delete"}, Goto(r, to),
             NEW k \in {"stream", "error"}, Send(r, k), pc[r] \in {"request", "read"}
      PROVE  Promise!Next
  <2>1. pc'[r] = to /\ Phase' = [Phase EXCEPT ![r] = Phase'[r]]
    BY <1>2, <1>9 DEF Labels, Kinds
  <2>2. Phase[r] = "open" /\ Phase'[r] = "open"
    BY <1>9, <2>1 DEF Phase
  <2>3. Promise!Move(r, "open", "open", <<k>>)
    BY <1>3, <1>9, <2>1, <2>2 DEF Promise!Move, Kinds
  <2> QED BY <2>3 DEF Promise!Emit, Promise!Step, Promise!Next
<1>10. ASSUME NEW r \in Requests, SendStreamEnd(r) PROVE Promise!End(r)
  <2>1. sent'[r] # <<"error">>
    BY <1>3, <1>10, AppendFacts DEF SendStreamEnd, TypeOK, Kinds
  <2>2. Phase[r] = "open" /\ Phase'[r] = "ended" /\ Phase' = [Phase EXCEPT ![r] = Phase'[r]]
    BY <1>2, <1>10, <2>1 DEF SendStreamEnd, Phase, Labels, Kinds
  <2> QED BY <1>3, <1>10, <2>2 DEF SendStreamEnd, Promise!End, Promise!Move, Kinds
<1>11. ASSUME NEW r \in Requests,
              AdmitRequest(r) \/ CheckContext(r) \/ ReadEnds(r) \/ DeleteStream(r) \/ StreamRequest(r)
       PROVE  UNCHANGED <<Phase, sent>>
  BY <1>5, <1>11 DEF AdmitRequest, CheckContext, ReadEnds, DeleteStream, StreamRequest, Open, Labels
<1>12. ASSUME NEW r \in Requests, ReadData(r) \/ FailRequest(r) PROVE Promise!Next
  BY <1>9, <1>12 DEF ReadData, FailRequest
<1>13. ASSUME NEW r \in Requests, Handler(r) PROVE Promise!Next \/ UNCHANGED <<Phase, sent>>
  BY <1>7, <1>8, <1>10, <1>11, <1>13 DEF Handler, Promise!Next, Promise!Step
<1>14. ASSUME NEW r \in Requests, ReceiveRequest(r) PROVE Promise!Next
  BY <1>6, <1>14 DEF Promise!Next, Promise!Step
<1> QED BY <1>1, <1>11, <1>12, <1>13, <1>14
        DEF Next, DockerAnswers, vars, SourceEnds, ReceiveStop, CancelStream, LookupStop, CancelFound

\* The streams implement the safety part of the promise: request by request, one
\* error, or data, possibly an error, one stream_end and nothing after.
THEOREM PromiseHolds == Spec => Promise!Safe
<1>1. Init => Promise!Init
  BY DEF Init, Promise!Init, Phase, At
<1>2. SentInv /\ [Next]_vars => [Promise!Next]_(Promise!vars)
  BY PromiseStep DEF Promise!vars
<1> QED BY <1>1, <1>2, InitSent, SentStep, PTL DEF Spec, Promise!Safe
=============================================================================
