------------------------ MODULE StandardServerProofs ------------------------
(* Proofs about StandardServer and the relay it serves, for any amount of  *)
(* output, input and signals.                                              *)
EXTENDS StandardServer, SequenceTheorems, TLAPS

(***************************************************************************)
(* The chunks 1 .. k in their order.                                       *)
(***************************************************************************)

LEMMA RunFacts ==
    ASSUME NEW k \in Nat
    PROVE  /\ Run(0, k) \in Seq(Nat) /\ Len(Run(0, k)) = k
           /\ Append(Run(0, k), k + 1) = Run(0, k + 1)
           /\ <<>> \o Run(0, k) = Run(0, k)
<1> DEFINE q == Run(0, k)
<1>1. q \in Seq(Nat) /\ Len(q) = k /\ \A i \in 1 .. k : q[i] = i
  BY DEF Run
<1>2. Run(0, k + 1) \in Seq(Nat) /\ Len(Run(0, k + 1)) = k + 1
      /\ \A i \in 1 .. k + 1 : Run(0, k + 1)[i] = i
  BY DEF Run
<1> HIDE DEF q
<1>3. /\ Append(q, k + 1) \in Seq(Nat) /\ Len(Append(q, k + 1)) = k + 1
      /\ \A i \in 1 .. k : Append(q, k + 1)[i] = i
      /\ Append(q, k + 1)[k + 1] = k + 1
  BY <1>1, AppendProperties
<1>4. \A i \in 1 .. k + 1 : i \in 1 .. k \/ i = k + 1
  OBVIOUS
<1>5. \A i \in 1 .. k + 1 : Append(q, k + 1)[i] = Run(0, k + 1)[i]
  BY <1>2, <1>3, <1>4
<1>6. Append(q, k + 1) = Run(0, k + 1)
  BY <1>2, <1>3, <1>5, SeqEqual
<1>7. <<>> \o q = q
  BY <1>1, ConcatEmptySeq
<1> QED BY <1>1, <1>6, <1>7 DEF q

LEMMA NotBelowItself == \A m, n \in Nat : m = n => ~(m < n)
OBVIOUS

LEMMA RunZero == Run(0, 0) = <<>>
BY DEF Run

(***************************************************************************)
(* The inductive invariant.                                                *)
(***************************************************************************)

Passing == {"start", "copy", "wait", "close client", "close docker", "over"}
Ending == {"close client", "close docker", "over"}
Done == {"signal", "over"}
Both == {"docker", "client"}

\* The part of the type invariant that the properties depend on.
TypeOK ==
    /\ upgrade \in BOOLEAN
    /\ handler \in {"head", "answer", "failed", "gone"} \cup Passing
    /\ down \in {"none", "copying"} \cup Done /\ up \in {"none", "copying", "writing"} \cup Done
    /\ signals \in Nat
    /\ docker \in {"open", "ended"} /\ client \in {"open", "half", "gone"}
    /\ produced \in Nat /\ taken \in Nat /\ taken <= produced /\ typed \in Nat
    /\ given \in Seq(Nat) /\ got \in Seq(Nat)
    /\ kind \in {"none", "plain", "stream", "events", "exec"}

\* A client that stays has got what was taken from Docker, once its handler has
\* passed on what came with the head.
OutputAgrees ==
    /\ InOrder
    /\ kind = "none" => (handler \in {"head", "gone"} /\ down # "copying" /\ taken = 0 /\ got = <<>>)
    /\ kind \notin {"none", "exec"} =>
        /\ handler \in {"head", "gone"}
        /\ down # "copying"
        /\ (client # "gone" => got = Run(0, taken))
    /\ kind = "exec" =>
        /\ (handler = "head" => (taken = 0 /\ got = <<>>))
        /\ (handler = "answer" => (got = <<>> /\ held = Run(0, taken)))
        /\ ((handler \in Passing /\ client # "gone") => got = Run(0, taken))
        /\ (down = "copying" => handler \in Passing)

\* Why a relay may end.
Cause ==
    \/ docker = "ended" /\ taken = produced
    \/ client # "open"
    \/ up \in Done /\ Len(given) < typed

\* A chunk being written is one that Docker has not got.  Nothing but a cause ends
\* a copy while the sockets are open, and the handler closes them only after a
\* copy has ended.
EndAgrees ==
    /\ up = "writing" => Len(given) < typed
    /\ kind \in {"none", "exec"} => (serve \in {"none", "gone"} /\ watcher # "watching")
    /\ (kind \in {"none", "exec"} /\ handler \in {"head", "answer", "start", "copy", "wait"})
        => sockets = Both
    /\ handler \in {"head", "answer", "failed", "start", "copy"}
        => (signals = 0 /\ down = "none" /\ up = "none")
    /\ (handler = "wait" /\ signals > 0) => (down = "over" \/ up = "over")
    /\ (handler # "gone" /\ (down \in Done \/ up \in Done \/ handler \in Ending)) => Cause

\* The listener is closed before Shutdown waits.
ShutAgrees ==
    /\ (run = "shutting" \/ result = "nil") => listener = "closed"
    /\ DrainedByShutdown

IInv == TypeOK /\ OutputAgrees /\ EndAgrees /\ ShutAgrees

LEMMA InitIInv == Init => IInv
<1> SUFFICES ASSUME Init PROVE IInv
  OBVIOUS
<1>1. <<>> \in Seq(Nat) /\ Len(<<>>) = 0
  OBVIOUS
<1> USE <1>1, RunZero DEF Init, RelayInit
<1>2. TypeOK /\ EndAgrees
  BY DEF TypeOK, EndAgrees, Both, Done, Ending
<1>3. OutputAgrees /\ ShutAgrees
  BY DEF OutputAgrees, InOrder, ShutAgrees, DrainedByShutdown
<1> QED BY <1>2, <1>3 DEF IInv

(***************************************************************************)
(* Every step keeps it.                                                    *)
(***************************************************************************)

USE DEF relayVars, peerVars, stopVars, requestVars

\* Docker and the client go on; there is a request, and the process lives.
LEMMA PeersPreserve ==
    ASSUME IInv, UNCHANGED <<stopVars, requestVars>>,
           (kind # "none" /\ Peers) \/ (kind = "exec" /\ Type)
    PROVE  IInv'
<1> USE DEF IInv, Peers, Produce, EndOutput, Leave, Type
<1>1. TypeOK'
  BY DEF TypeOK
<1>2. OutputAgrees'
  BY DEF OutputAgrees, InOrder, TypeOK
<1>3. EndAgrees'
  BY DEF EndAgrees, Cause, TypeOK
<1>4. ShutAgrees'
  BY DEF ShutAgrees, DrainedByShutdown, Tracked
<1> QED BY <1>1, <1>2, <1>3, <1>4

\* handleExecHijack up to its answer.
LEMMA HeadPreserves ==
    ASSUME IInv, UNCHANGED <<stopVars, requestVars>>, kind = "exec", ReadHead \/ Fail \/ Answer
    PROVE  IInv'
<1> USE DEF IInv
<1>1. CASE ReadHead
  <2>1. TypeOK'
    BY <1>1 DEF ReadHead, TypeOK
  <2>2. OutputAgrees' /\ EndAgrees'
    <3>1. /\ handler = "head" /\ handler' = "answer" /\ held' = Run(0, taken')
          /\ kind' = "exec" /\ down' = "none" /\ got' = <<>>
          /\ UNCHANGED <<got, given, signals, down, up, sockets, kind, serve, watcher>>
      BY <1>1 DEF ReadHead, OutputAgrees, EndAgrees
    <3>2. OutputAgrees'
      BY <3>1 DEF OutputAgrees, InOrder, Passing
    <3>3. EndAgrees'
      BY <3>1 DEF EndAgrees, Ending, Done
    <3> QED BY <3>2, <3>3
  <2>3. ShutAgrees'
    BY <1>1 DEF ReadHead, ShutAgrees, DrainedByShutdown, Tracked
  <2> QED BY <2>1, <2>2, <2>3
<1>2. CASE Fail
  <2>1. TypeOK'
    BY <1>2 DEF Fail, TypeOK
  <2>2. OutputAgrees' /\ EndAgrees'
    BY <1>2 DEF Fail, OutputAgrees, EndAgrees, InOrder, Passing, Ending, Done
  <2>3. ShutAgrees'
    BY <1>2 DEF Fail, ShutAgrees, DrainedByShutdown, Tracked
  <2> QED BY <2>1, <2>2, <2>3
<1>3. CASE Answer
  <2>1. /\ got = <<>> /\ held = Run(0, taken) /\ taken \in Nat
        /\ got \o held = Run(0, taken) /\ Run(0, taken) \in Seq(Nat) /\ Len(Run(0, taken)) = taken
    BY <1>3, RunFacts DEF Answer, OutputAgrees, TypeOK
  <2>2. TypeOK'
    BY <1>3, <2>1 DEF Answer, TypeOK, Passing
  <2>3. OutputAgrees'
    BY <1>3, <2>1 DEF Answer, OutputAgrees, InOrder, Passing
  <2>4. EndAgrees'
    BY <1>3 DEF Answer, EndAgrees, Ending, Done
  <2>5. ShutAgrees'
    BY <1>3 DEF Answer, ShutAgrees, DrainedByShutdown, Tracked
  <2> QED BY <2>2, <2>3, <2>4, <2>5
<1> QED BY <1>1, <1>2, <1>3

\* The two copies, and what they copy.
LEMMA CopyPreserves ==
    ASSUME IInv, UNCHANGED <<stopVars, requestVars>>, kind = "exec",
           CopyDown \/ CopyDownEnds \/ ReadUp \/ WriteUp \/ CopyUpEnds \/ Signal
    PROVE  IInv'
<1> USE DEF IInv
<1>1. CASE CopyDown
  <2>1. handler \in Passing /\ client # "gone" /\ got = Run(0, taken) /\ taken \in Nat
    <3>1. taken \in Nat /\ client # "gone" /\ handler \in Passing
      BY <1>1 DEF CopyDown, OutputAgrees, Passing, TypeOK
    <3> QED BY <3>1 DEF OutputAgrees
  <2>2. got' = Run(0, taken') /\ got' \in Seq(Nat) /\ Len(got') = taken' /\ taken' \in Nat /\ taken' <= produced
    <3>1. taken' = taken + 1 /\ got' = Append(got, taken + 1) /\ taken < produced /\ produced \in Nat
          /\ UNCHANGED produced
      BY <1>1 DEF CopyDown, TypeOK
    <3>2. taken + 1 \in Nat /\ taken + 1 <= produced
      BY <2>1, <3>1
    <3>3. Append(Run(0, taken), taken + 1) = Run(0, taken + 1)
      BY <2>1, RunFacts
    <3>4. Run(0, taken + 1) \in Seq(Nat) /\ Len(Run(0, taken + 1)) = taken + 1
      BY <3>2, RunFacts
    <3> QED BY <2>1, <3>1, <3>2, <3>3, <3>4
  <2>3. TypeOK'
    BY <1>1, <2>2 DEF CopyDown, TypeOK
  <2>4. OutputAgrees'
    BY <1>1, <2>1, <2>2 DEF CopyDown, OutputAgrees, InOrder, Passing
  <2>5. EndAgrees'
    BY <1>1 DEF CopyDown, EndAgrees, Cause, TypeOK
  <2>6. ShutAgrees'
    BY <1>1 DEF CopyDown, ShutAgrees, DrainedByShutdown, Tracked
  <2> QED BY <2>3, <2>4, <2>5, <2>6
<1>2. CASE CopyDownEnds
  <2>1. TypeOK'
    BY <1>2 DEF CopyDownEnds, TypeOK, Passing, Done
  <2>2. OutputAgrees'
    BY <1>2 DEF CopyDownEnds, OutputAgrees, InOrder, Passing
  <2>3. Cause
    <3>1. CASE sockets = Both
      BY <1>2, <3>1 DEF CopyDownEnds, OutputOver, Cause, Both
    <3>2. CASE sockets # Both
      <4>1. down = "copying" /\ handler \in Ending
        BY <1>2, <3>2 DEF CopyDownEnds, EndAgrees, OutputAgrees, Passing, Ending
      <4> QED BY <4>1 DEF EndAgrees, Ending
    <3> QED BY <3>1, <3>2
  <2>4. EndAgrees'
    BY <1>2, <2>3 DEF CopyDownEnds, EndAgrees, Cause, Ending, Done
  <2>5. ShutAgrees'
    BY <1>2 DEF CopyDownEnds, ShutAgrees, DrainedByShutdown, Tracked
  <2> QED BY <2>1, <2>2, <2>4, <2>5
<1>3. CASE WriteUp
  <2>1. given' = Run(0, Len(given')) /\ given' \in Seq(Nat) /\ Len(given) \in Nat
    <3> DEFINE k == Len(given)
    <3>1. k \in Nat /\ k + 1 \in Nat
      BY LenProperties DEF TypeOK
    <3>2. given = Run(0, k) /\ given' = Append(given, k + 1)
      BY <1>3 DEF WriteUp, OutputAgrees, InOrder
    <3>3. given' = Run(0, k + 1)
      BY <3>1, <3>2, RunFacts
    <3>4. Run(0, k + 1) \in Seq(Nat) /\ Len(Run(0, k + 1)) = k + 1
      BY <3>1, RunFacts
    <3> QED BY <3>1, <3>3, <3>4
  <2>2. TypeOK'
    BY <1>3, <2>1 DEF WriteUp, TypeOK
  <2>3. OutputAgrees'
    BY <1>3, <2>1 DEF WriteUp, OutputAgrees, InOrder
  <2>4. EndAgrees'
    BY <1>3 DEF WriteUp, EndAgrees, Cause, Done
  <2>5. ShutAgrees'
    BY <1>3 DEF WriteUp, ShutAgrees, DrainedByShutdown, Tracked
  <2> QED BY <2>2, <2>3, <2>4, <2>5
<1>4. CASE CopyUpEnds
  <2>1. TypeOK'
    BY <1>4 DEF CopyUpEnds, TypeOK, Done
  <2>2. OutputAgrees'
    BY <1>4 DEF CopyUpEnds, OutputAgrees, InOrder
  <2>3. handler # "gone" => Cause'
    <3>1. CASE sockets = Both
      BY <1>4, <3>1 DEF CopyUpEnds, EndAgrees, Cause, Both, Done
    <3>2. CASE sockets # Both
      <4>1. handler \in Ending \/ handler = "gone"
        BY <1>4, <3>2 DEF CopyUpEnds, EndAgrees, TypeOK, Passing, Ending
      <4>2. handler # "gone" => Cause
        BY <4>1 DEF EndAgrees
      <4> QED BY <1>4, <4>2 DEF CopyUpEnds, Cause, Done
    <3> QED BY <3>1, <3>2
  <2>4. EndAgrees'
    BY <1>4, <2>3 DEF CopyUpEnds, EndAgrees, Ending, Done
  <2>5. ShutAgrees'
    BY <1>4 DEF CopyUpEnds, ShutAgrees, DrainedByShutdown, Tracked
  <2> QED BY <2>1, <2>2, <2>4, <2>5
<1>6. CASE ReadUp
  <2>1. TypeOK'
    BY <1>6 DEF ReadUp, TypeOK
  <2>2. OutputAgrees'
    BY <1>6 DEF ReadUp, OutputAgrees, InOrder
  <2>3. EndAgrees'
    BY <1>6 DEF ReadUp, EndAgrees, Cause, Done
  <2>4. ShutAgrees'
    BY <1>6 DEF ReadUp, ShutAgrees, DrainedByShutdown, Tracked
  <2> QED BY <2>1, <2>2, <2>3, <2>4
<1>5. CASE Signal
  <2>1. TypeOK'
    BY <1>5 DEF Signal, TypeOK, Done
  <2>2. OutputAgrees'
    BY <1>5 DEF Signal, OutputAgrees, InOrder
  <2>3. EndAgrees'
    BY <1>5 DEF Signal, EndAgrees, Cause, Done, TypeOK
  <2>4. ShutAgrees'
    BY <1>5 DEF Signal, ShutAgrees, DrainedByShutdown, Tracked
  <2> QED BY <2>1, <2>2, <2>3, <2>4
<1> QED BY <1>1, <1>2, <1>3, <1>4, <1>5, <1>6

\* The rest of handleExecHijack.
LEMMA HandlerPreserves ==
    ASSUME IInv, UNCHANGED <<stopVars, requestVars>>, kind = "exec",
           StartCopies \/ Wake \/ CloseClient \/ CloseDocker
    PROVE  IInv'
<1> USE DEF IInv
<1>1. TypeOK'
  <2>1. handler' \in Passing /\ down' \in {down, "copying"} /\ up' \in {up, "copying"}
    BY DEF StartCopies, Wake, CloseClient, CloseDocker, Passing
  <2>2. signals' \in Nat
    <3>1. signals \in Nat
      BY DEF TypeOK
    <3>2. CASE Wake
      <4>1. signals > 0 /\ signals' = signals - 1
        BY <3>2 DEF Wake
      <4> QED BY <3>1, <4>1
    <3>3. CASE ~Wake
      BY <3>1, <3>3 DEF StartCopies, CloseClient, CloseDocker
    <3> QED BY <3>2, <3>3
  <2>3. UNCHANGED <<upgrade, peerVars, taken, given, got, kind>>
    BY DEF StartCopies, Wake, CloseClient, CloseDocker
  <2> QED BY <2>1, <2>2, <2>3 DEF TypeOK
<1>2. OutputAgrees'
  BY DEF OutputAgrees, InOrder, StartCopies, Wake, CloseClient, CloseDocker, Passing
<1>3. EndAgrees'
  <2>1. CASE StartCopies
    BY <2>1 DEF EndAgrees, Cause, StartCopies, Ending, Done
  <2>2. CASE Wake
    BY <2>2 DEF EndAgrees, Cause, Wake, Ending, Done
  <2>3. CASE CloseClient \/ CloseDocker
    BY <2>3 DEF EndAgrees, Cause, CloseClient, CloseDocker, Ending, Done
  <2> QED BY <2>1, <2>2, <2>3
<1>4. ShutAgrees'
  BY DEF ShutAgrees, DrainedByShutdown, Tracked, StartCopies, Wake, CloseClient, CloseDocker
<1> QED BY <1>1, <1>2, <1>3, <1>4

\* Signals, main and Run: once Run shuts the server down no request is received.
LEMMA ServerPreserves ==
    ASSUME IInv,
           \/ Stop \/ MainSelects \/ Listen \/ RunFails \/ RunSelects \/ RunHearsError
           \/ ShutdownDone \/ ShutdownTimesOut
    PROVE  IInv'
<1> USE DEF IInv, Stop, MainSelects, Listen, RunFails, RunSelects, RunHearsError,
            ShutdownDone, ShutdownTimesOut
<1>1. UNCHANGED <<relayVars, requestVars>>
  OBVIOUS
<1>2. TypeOK' /\ OutputAgrees' /\ EndAgrees'
  BY <1>1 DEF TypeOK, OutputAgrees, InOrder, EndAgrees, Cause
<1>3. Tracked' = Tracked
  BY <1>1 DEF Tracked
<1>4. ShutAgrees'
  BY <1>3 DEF ShutAgrees, DrainedByShutdown
<1> QED BY <1>2, <1>4

LEMMA MainReturnsPreserves ==
    ASSUME IInv, MainReturns
    PROVE  IInv'
<1> USE DEF IInv, MainReturns
<1>1. TypeOK'
  BY DEF TypeOK, Done
<1>2. OutputAgrees' /\ EndAgrees'
  BY DEF OutputAgrees, InOrder, EndAgrees, Passing, Ending
<1>3. ShutAgrees'
  BY DEF ShutAgrees, DrainedByShutdown, Tracked
<1> QED BY <1>1, <1>2, <1>3

\* A request comes to an open listener, that is, before Shutdown.
LEMMA ReceivePreserves ==
    ASSUME IInv, Receive
    PROVE  IInv'
<1> USE DEF IInv, Receive
<1>1. TypeOK'
  BY DEF TypeOK
<1>2. OutputAgrees'
  BY RunZero DEF OutputAgrees, InOrder
<1>3. EndAgrees'
  <2>1. kind = "none" /\ handler \in {"head", "gone"} /\ Cause' = Cause
        /\ (kind' = "exec" => (serve' = "none" /\ watcher' = "none"))
    BY DEF OutputAgrees, Cause
  <2> QED BY <2>1 DEF EndAgrees
<1>4. ShutAgrees'
  BY DEF ShutAgrees, DrainedByShutdown
<1> QED BY <1>1, <1>2, <1>3, <1>4

\* The other requests.
LEMMA RequestPreserves ==
    ASSUME IInv, ContextEnds \/ DockerAnswers \/ RequestFails \/ Serve \/ Watch
    PROVE  IInv'
<1> USE DEF IInv
<1>1. kind \notin {"none", "exec"} /\ kind' = kind /\ handler \in {"head", "gone"}
  BY DEF EndAgrees, OutputAgrees, ContextEnds, DockerAnswers, RequestFails, Serve, ReadBody, BodyEnds,
         EndServe, Watch
<1>2. CASE ReadBody
  <2>1. taken \in Nat /\ produced \in Nat /\ taken < produced /\ taken' = taken + 1
    BY <1>2 DEF ReadBody, TypeOK
  <2>2. /\ taken + 1 \in Nat /\ taken + 1 <= produced
        /\ Append(Run(0, taken), taken + 1) = Run(0, taken + 1)
    <3>1. taken + 1 \in Nat /\ taken + 1 <= produced
      BY <2>1
    <3>2. Append(Run(0, taken), taken + 1) = Run(0, taken + 1)
      BY <2>1, RunFacts
    <3> QED BY <3>1, <3>2
  <2>3. Run(0, taken + 1) \in Seq(Nat) /\ Len(Run(0, taken + 1)) = taken + 1
    BY <2>2, RunFacts
  <2>4. client # "gone" => got' = Run(0, taken')
    BY <1>1, <1>2, <2>1, <2>2 DEF ReadBody, OutputAgrees
  <2>5. client = "gone" => got' = got
    BY <1>2 DEF ReadBody
  <2>6. got' \in Seq(Nat) /\ got' = Run(0, Len(got'))
    BY <2>1, <2>3, <2>4, <2>5 DEF OutputAgrees, InOrder, TypeOK
  <2>7. TypeOK'
    BY <1>2, <2>1, <2>2, <2>6 DEF ReadBody, TypeOK
  <2>8. OutputAgrees'
    BY <1>1, <1>2, <2>4, <2>6 DEF ReadBody, OutputAgrees, InOrder
  <2>9. EndAgrees'
    BY <1>1, <1>2 DEF ReadBody, EndAgrees, Ending, Done
  <2>10. ShutAgrees'
    BY <1>2 DEF ReadBody, ShutAgrees, DrainedByShutdown, Tracked
  <2> QED BY <2>7, <2>8, <2>9, <2>10
<1>3. CASE ContextEnds \/ DockerAnswers \/ RequestFails \/ BodyEnds \/ Watch
  <2>1. UNCHANGED <<upgrade, handler, down, up, signals, peerVars, taken, held, given, got>>
    BY <1>3 DEF ContextEnds, DockerAnswers, RequestFails, BodyEnds, EndServe, Watch
  <2>2. TypeOK' /\ OutputAgrees'
    BY <1>1, <2>1 DEF TypeOK, OutputAgrees, InOrder
  <2>3. EndAgrees'
    <3>1. Cause' = Cause
      BY <2>1 DEF Cause
    <3> QED BY <1>1, <2>1, <3>1 DEF EndAgrees
  <2>4. Tracked' => Tracked
    BY <1>1, <1>3, <2>1 DEF Tracked, ContextEnds, DockerAnswers, RequestFails, BodyEnds, EndServe, Watch
  <2>5. UNCHANGED stopVars
    BY <1>3 DEF ContextEnds, DockerAnswers, RequestFails, BodyEnds, Watch
  <2>6. ShutAgrees'
    BY <2>4, <2>5 DEF ShutAgrees, DrainedByShutdown
  <2> QED BY <2>2, <2>3, <2>6
<1> QED BY <1>2, <1>3 DEF Serve

LEMMA StepIInv == IInv /\ [Next]_vars => IInv'
<1> SUFFICES ASSUME IInv, [Next]_vars PROVE IInv'
  OBVIOUS
<1>1. CASE UNCHANGED vars
  BY <1>1 DEF vars, IInv, TypeOK, OutputAgrees, InOrder, EndAgrees, Cause, ShutAgrees, DrainedByShutdown, Tracked
<1>2. CASE kind # "none" /\ Peers /\ UNCHANGED <<stopVars, requestVars>>
  BY <1>2, PeersPreserve
<1>3. CASE kind = "exec" /\ Relay /\ UNCHANGED <<stopVars, requestVars>>
  BY <1>3, PeersPreserve, HeadPreserves, CopyPreserves, HandlerPreserves DEF Relay, Handler
<1> QED
  BY <1>1, <1>2, <1>3, ServerPreserves, MainReturnsPreserves, ReceivePreserves, RequestPreserves DEF Next

LEMMA Invariance == Spec => []IInv
BY InitIInv, StepIInv, PTL DEF Spec

(***************************************************************************)
(* The theorems.                                                           *)
(***************************************************************************)

\* Each side of an exec, and the client of any other request, gets the beginning
\* of what the other side wrote, in order: the hand-over from the bufio.Reader
\* to io.Copy (http.go:285-348) loses and repeats nothing.
THEOREM InOrderHolds == Spec => []InOrder
<1>1. IInv => InOrder
  BY DEF IInv, OutputAgrees
<1> QED BY <1>1, Invariance, PTL

\* The end of an exec's output is lost only by a client that has ended its input
\* or whose input met the end of the process (http.go:321-349).
THEOREM OutputCompleteHolds == Spec => []OutputComplete
<1>1. IInv => OutputComplete
  <2> SUFFICES ASSUME IInv, handler \in {"close client", "over"}, client = "open", Len(given) = typed
               PROVE  docker = "ended" /\ got = Run(0, produced)
    BY DEF OutputComplete
  <2>1. typed \in Nat
    BY DEF IInv, TypeOK
  <2>2. ~(Len(given) < typed)
    BY <2>1, NotBelowItself
  <2>3. docker = "ended" /\ taken = produced
    <3>1. Cause
      BY DEF IInv, EndAgrees, Ending
    <3> QED BY <2>2, <3>1 DEF Cause
  <2>4. kind = "exec"
    BY DEF IInv, OutputAgrees
  <2> QED BY <2>3, <2>4 DEF IInv, OutputAgrees, Passing
<1> QED BY <1>1, Invariance, PTL

\* A shutdown that succeeds leaves no handler the http.Server knows, and none
\* comes after it (http.go:96-100).
THEOREM DrainedByShutdownHolds == Spec => []DrainedByShutdown
<1>1. IInv => DrainedByShutdown
  BY DEF IInv, ShutAgrees
<1> QED BY <1>1, Invariance, PTL
=============================================================================
