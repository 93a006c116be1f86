--------------------------- MODULE StreamSessions ---------------------------
(***************************************************************************)
(* The streamed Docker responses of the Edge client (logs, pulls, builds): *)
(* handleStreamingRequest and cancelStream in src/internal/edge/client.go. *)
(*                                                                         *)
(* A request with streaming set runs handleStreamingRequest on the         *)
(* goroutine of its message, from the check of the limit to the stream_end *)
(* its deferred function sends.  A stream_end message from the server runs *)
(* cancelStream on another: it looks the request up in c.streams under the *)
(* read lock and cancels what it found after releasing it.  The results of *)
(* sendJSON are ignored, so sent[r] is what was handed to it.              *)
(***************************************************************************)
EXTENDS Naturals, Sequences, FiniteSets

CONSTANTS
    Requests,            \* streaming requests the server may send
    RequestIds,          \* requestId values they may carry
    IdOf,                \* the requestId of each
    NoStream,            \* value of c.streams for an id it does not hold
    MaxStreamSessions,   \* maxStreamSessions
    MaxParallel,         \* bound: requests between their receipt and their registration
    MaxData              \* bound: stream messages in all

ASSUME ConstantsAssumption ==
    /\ IsFiniteSet(Requests) /\ IsFiniteSet(RequestIds)
    /\ IdOf \in [Requests -> RequestIds]
    /\ NoStream \notin Requests
    /\ MaxStreamSessions \in Nat \ {0}
    /\ MaxParallel \in Nat \ {0}
    /\ MaxData \in Nat

VARIABLES
    pc,        \* where handleStreamingRequest is for each request
    streams,   \* c.streams
    ctx,       \* the context of each request
    finished,  \* the requests whose response body Docker has ended
    sent,      \* the messages handed to sendJSON for each request
    stopMsg,   \* the server's stream_end message for each requestId
    found      \* what cancelStream's lookup for a requestId returned

vars == <<pc, streams, ctx, finished, sent, stopMsg, found>>

Init ==
    /\ pc = [r \in Requests |-> "unsent"]
    /\ streams = [x \in RequestIds |-> NoStream]
    /\ ctx = [r \in Requests |-> "none"]
    /\ finished = {}
    /\ sent = [r \in Requests |-> <<>>]
    /\ stopMsg = [x \in RequestIds |-> "unsent"]
    /\ found = [x \in RequestIds |-> NoStream]

At(r, label) == pc[r] = label
Goto(r, label) == pc' = [pc EXCEPT ![r] = label]
Send(r, kind) == sent' = [sent EXCEPT ![r] = Append(@, kind)]

Live == {x \in RequestIds : streams[x] # NoStream}       \* len(c.streams)
Entering == {r \in Requests : pc[r] \in {"check", "register"}}
Registering == {r \in Requests : pc[r] = "register"}
DataSent == UNION {{r} \X {i \in DOMAIN sent[r] : sent[r][i] = "stream"} : r \in Requests}

-----------------------------------------------------------------------------
(* The server and Docker.                                                  *)

ReceiveRequest(r) ==
    /\ At(r, "unsent")
    /\ Cardinality(Entering) < MaxParallel
    /\ Goto(r, "check")
    /\ UNCHANGED <<streams, ctx, finished, sent, stopMsg, found>>

ReceiveStop(x) ==
    /\ stopMsg[x] = "unsent"
    /\ \E r \in Requests : IdOf[r] = x /\ ~At(r, "unsent")
    /\ stopMsg' = [stopMsg EXCEPT ![x] = "pending"]
    /\ UNCHANGED <<pc, streams, ctx, finished, sent, found>>

\* The response body ends: the container stopped, the pull is done.
SourceEnds(r) ==
    /\ pc[r] \in {"top", "read"}
    /\ r \notin finished
    /\ finished' = finished \cup {r}
    /\ UNCHANGED <<pc, streams, ctx, sent, stopMsg, found>>

-----------------------------------------------------------------------------
(* handleStreamingRequest                                                  *)

RejectRequest(r) ==
    /\ At(r, "check")
    /\ Cardinality(Live) >= MaxStreamSessions
    /\ Send(r, "error")
    /\ Goto(r, "over")
    /\ UNCHANGED <<streams, ctx, finished, stopMsg, found>>

\* Slip: the limit is compared with > instead of >=.
AdmitRequestOffByOne(r) ==
    /\ At(r, "check")
    /\ Cardinality(Live) <= MaxStreamSessions
    /\ Goto(r, "register")
    /\ UNCHANGED <<streams, ctx, finished, sent, stopMsg, found>>

AdmitRequest(r) ==
    /\ At(r, "check")
    /\ Cardinality(Live) < MaxStreamSessions
    /\ Goto(r, "register")
    /\ UNCHANGED <<streams, ctx, finished, sent, stopMsg, found>>

RegisterStream(r) ==
    /\ At(r, "register")
    /\ streams' = [streams EXCEPT ![IdOf[r]] = r]
    /\ ctx' = [ctx EXCEPT ![r] = "live"]
    /\ Goto(r, "request")
    /\ UNCHANGED <<finished, sent, stopMsg, found>>

\* StreamRequest returns a response, whatever its status.
StreamRequest(r) ==
    /\ At(r, "request")
    /\ Goto(r, "top")
    /\ UNCHANGED <<streams, ctx, finished, sent, stopMsg, found>>

\* Slip: the deferred function is installed after the call to Docker.
FailRequestNoDefer(r) ==
    /\ At(r, "request")
    /\ Send(r, "error")
    /\ Goto(r, "over")
    /\ UNCHANGED <<streams, ctx, finished, stopMsg, found>>

\* StreamRequest fails, a cancelled context being one reason: an error message,
\* then the deferred function.
FailRequest(r) ==
    /\ At(r, "request")
    /\ Send(r, "error")
    /\ Goto(r, "delete")
    /\ UNCHANGED <<streams, ctx, finished, stopMsg, found>>

\* The select at the top of the loop.
CheckContext(r) ==
    /\ At(r, "top")
    /\ Goto(r, IF ctx[r] = "cancelled" THEN "delete" ELSE "read")
    /\ UNCHANGED <<streams, ctx, finished, sent, stopMsg, found>>

\* Body.Read returns bytes, possibly buffered before a cancellation, and
\* possibly together with the error that ends the loop.
ReadData(r) ==
    /\ At(r, "read")
    /\ Cardinality(DataSent) < MaxData
    /\ Send(r, "stream")
    /\ \/ Goto(r, "top")
       \/ (r \in finished \/ ctx[r] = "cancelled") /\ Goto(r, "delete")
    /\ UNCHANGED <<streams, ctx, finished, stopMsg, found>>

\* Body.Read returns an error and no bytes.
ReadEnds(r) ==
    /\ At(r, "read")
    /\ r \in finished \/ ctx[r] = "cancelled"
    /\ Goto(r, "delete")
    /\ UNCHANGED <<streams, ctx, finished, sent, stopMsg, found>>

\* The deferred function, once the response body is closed: delete by id, ...
DeleteStream(r) ==
    /\ At(r, "delete")
    /\ streams' = [streams EXCEPT ![IdOf[r]] = NoStream]
    /\ Goto(r, "farewell")
    /\ UNCHANGED <<ctx, finished, sent, stopMsg, found>>

\* ... then stream_end.
SendStreamEnd(r) ==
    /\ At(r, "farewell")
    /\ Send(r, "stream_end")
    /\ Goto(r, "over")
    /\ UNCHANGED <<streams, ctx, finished, stopMsg, found>>

-----------------------------------------------------------------------------
(* cancelStream                                                            *)

LookupStop(x) ==
    /\ stopMsg[x] = "pending"
    /\ stopMsg' = [stopMsg EXCEPT ![x] = IF x \in Live THEN "cancelling" ELSE "handled"]
    /\ found' = [found EXCEPT ![x] = streams[x]]
    /\ UNCHANGED <<pc, streams, ctx, finished, sent>>

\* Slip: cancelStream also removes the entry, as handleExecEnd does.
CancelAndDelete(x) ==
    /\ stopMsg[x] = "cancelling"
    /\ ctx' = [ctx EXCEPT ![found[x]] = "cancelled"]
    /\ streams' = [streams EXCEPT ![x] = NoStream]
    /\ stopMsg' = [stopMsg EXCEPT ![x] = "handled"]
    /\ UNCHANGED <<pc, finished, sent, found>>

\* Slip: every stream is cancelled.
CancelEvery(x) ==
    /\ stopMsg[x] = "cancelling"
    /\ ctx' = [r \in Requests |-> IF ctx[r] = "live" THEN "cancelled" ELSE ctx[r]]
    /\ stopMsg' = [stopMsg EXCEPT ![x] = "handled"]
    /\ UNCHANGED <<pc, streams, finished, sent, found>>

\* Slip: the message is dropped.
CancelNothing(x) ==
    /\ stopMsg[x] = "cancelling"
    /\ stopMsg' = [stopMsg EXCEPT ![x] = "handled"]
    /\ UNCHANGED <<pc, streams, ctx, finished, sent, found>>

CancelFound(x) ==
    /\ stopMsg[x] = "cancelling"
    /\ ctx' = [ctx EXCEPT ![found[x]] = "cancelled"]
    /\ stopMsg' = [stopMsg EXCEPT ![x] = "handled"]
    /\ UNCHANGED <<pc, streams, finished, sent, found>>

-----------------------------------------------------------------------------
Handler(r) ==
    \/ RejectRequest(r) \/ AdmitRequest(r) \/ RegisterStream(r) \/ CheckContext(r)
    \/ ReadEnds(r) \/ DeleteStream(r) \/ SendStreamEnd(r)

DockerAnswers(r) == StreamRequest(r) \/ FailRequest(r)

CancelStream(x) == LookupStop(x) \/ CancelFound(x)

Next ==
    \/ \E r \in Requests : ReceiveRequest(r) \/ SourceEnds(r) \/ Handler(r)
                           \/ DockerAnswers(r) \/ ReadData(r)
    \/ \E x \in RequestIds : ReceiveStop(x) \/ CancelStream(x)

\* The scheduler runs every goroutine.  streamClient has no timeout: Docker is
\* only sure to answer, if with an error, once the context is cancelled.
Fairness ==
    /\ \A r \in Requests : WF_vars(Handler(r))
    /\ \A r \in Requests : WF_vars(ctx[r] = "cancelled" /\ DockerAnswers(r))
    /\ \A x \in RequestIds : WF_vars(CancelStream(x))

Spec == Init /\ [][Next]_vars /\ Fairness

-----------------------------------------------------------------------------
(* What holds of the streams.                                              *)

\* No other request has the requestId of r.
OwnId(r) == \A t \in Requests : IdOf[t] = IdOf[r] => t = r

Registered == {"request", "top", "read", "delete"}

\* A request with a requestId of its own (messages.go:88 calls it a UUID) is in
\* c.streams exactly between its registration and its deferred delete, whatever
\* cancelStream does meanwhile: a stream_end finds its stream, and the count the
\* limit is compared with is the number of running streams.
TableIsRunning ==
    \A r \in Requests : OwnId(r) =>
        (pc[r] \in Registered <=> streams[IdOf[r]] = r)

\* The count is read under one lock and the entry made under another: the
\* table may exceed maxStreamSessions by as many requests as were between the
\* two together, less one, and by no more.
StreamLimitBound ==
    Cardinality(Live) + Cardinality(Registering) <= MaxStreamSessions - 1 + MaxParallel

\* A stream is cancelled only by a stream_end for its own requestId, although
\* the lookup and the cancellation are two steps and the entry may have gone
\* to another request in between.
CancelledForCause ==
    \A r \in Requests : ctx[r] = "cancelled" => stopMsg[IdOf[r]] = "handled"

\* A stream_end that arrives while its stream is registered ends the stream,
\* even while Docker has not answered.
StopHonoured ==
    \A r \in Requests : OwnId(r) =>
        (stopMsg[IdOf[r]] = "pending" /\ pc[r] \in Registered) ~> At(r, "over")

-----------------------------------------------------------------------------
(* The streams keep the promise of SessionPromise.                         *)

Phase == [r \in Requests |->
    CASE At(r, "unsent") -> "idle"
      [] pc[r] \in {"check", "register"} -> "pending"
      [] At(r, "over") -> IF sent[r] = <<"error">> THEN "refused" ELSE "ended"
      [] OTHER -> "open"]

Promise == INSTANCE SessionPromise WITH
    Sessions <- Requests, Greeting <- <<>>, Payload <- {"stream", "error"},
    Refusal <- "error", Farewell <- "stream_end", phase <- Phase, heard <- sent

\* What the server hears of a streaming request is one error and nothing more,
\* or data, possibly an error, and one stream_end with nothing after it; and
\* every request is decided.
KeepsPromise == Promise!Spec
=============================================================================
