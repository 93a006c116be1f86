-------------------------- MODULE StandardServer --------------------------
(***************************************************************************)
(* The Standard mode server: Run, handleProxy, handleEventsStream and      *)
(* streamResponse of src/internal/server/http.go, with main around them.   *)
(* A request to Docker is "plain" (RequestRaw, with a 30 s limit),         *)
(* "stream" (StreamRequest, with none), "events" (a raw socket and a       *)
(* goroutine that watches the client) or "exec", the relay of ExecRelay.   *)
(* Requests share nothing with each other but the shutdown, so one is      *)
(* enough; docker, client, produced, taken and got are what ExecRelay says *)
(* for all four kinds.                                                     *)
(*                                                                         *)
(* The stop channel has room for one signal and two receivers: main, and   *)
(* Run, once it has asked Docker for its version.  Only Run shuts the      *)
(* server down; main returns, and that ends the process.                   *)
(***************************************************************************)
EXTENDS ExecRelay

CONSTANT MaxStops      \* bound: SIGINT and SIGTERM signals sent to the process

ASSUME ConstantsAssumption == MaxStops \in Nat

VARIABLES
    main,        \* where main is
    run,         \* where Run is
    result,      \* what Run returned: "nil" or "error"
    listener,    \* "opening", "up", "closed", or "failed": errChan has its error
    stops,       \* signals sent
    buffered,    \* a signal sits in the stop channel
    recvq,       \* goroutines blocked on it, longest first
    kind,        \* the kind of the request, "none" before it comes
    serve,       \* where the handler of a request that is not an exec is
    watcher,     \* the goroutine of handleEventsStream
    context      \* the request's context: "live" or "done"

stopVars == <<main, run, result, listener, stops, buffered, recvq>>
requestVars == <<kind, serve, watcher, context>>
vars == <<relayVars, stopVars, requestVars>>

Init ==
    /\ RelayInit
    /\ main = "starting" /\ run = "starting" /\ result = "none"
    /\ listener = "opening"
    /\ stops = 0 /\ buffered = FALSE /\ recvq = <<>>
    /\ kind = "none" /\ serve = "none" /\ watcher = "none" /\ context = "live"

exited == main = "gone"

-----------------------------------------------------------------------------
(* Signals and main                                                        *)

Stop ==
    /\ ~exited
    /\ stops < MaxStops
    /\ stops' = stops + 1
    /\ IF recvq = <<>>
       THEN buffered' = TRUE /\ UNCHANGED <<main, run, listener, recvq>>
       ELSE /\ recvq' = Tail(recvq)
            /\ IF Head(recvq) = "main"
               THEN main' = "stopping" /\ UNCHANGED <<run, listener>>
               ELSE run' = "shutting" /\ listener' = "closed" /\ UNCHANGED main
            /\ UNCHANGED buffered
    /\ UNCHANGED <<relayVars, result, requestVars>>

MainSelects ==
    /\ main = "starting"
    /\ IF buffered
       THEN main' = "stopping" /\ buffered' = FALSE /\ UNCHANGED recvq
       ELSE main' = "waiting" /\ recvq' = Append(recvq, "main") /\ UNCHANGED buffered
    /\ UNCHANGED <<relayVars, run, result, listener, stops, requestVars>>

\* main returns, or exits with 1 for an error of Run; every goroutine ends and
\* every socket closes.
MainReturns ==
    /\ main = "stopping" \/ (main = "waiting" /\ run = "returned")
    /\ main' = "gone" /\ run' = "gone" /\ listener' = "closed"
    /\ handler' = "gone" /\ down' = "over" /\ up' = "over" /\ sockets' = {}
    /\ serve' = "gone" /\ watcher' = "over"
    /\ UNCHANGED <<upgrade, signals, peerVars, taken, held, given, got>>
    /\ UNCHANGED <<result, stops, buffered, recvq, kind, context>>

-----------------------------------------------------------------------------
(* Run                                                                     *)

\* ListenAndServe, on a goroutine of its own, or its failure.
Listen ==
    /\ listener = "opening"
    /\ listener' \in {"up", "failed"}
    /\ UNCHANGED <<relayVars, main, run, result, stops, buffered, recvq, requestVars>>

\* NewClient fails.
RunFails ==
    /\ run = "starting" /\ listener = "opening"
    /\ run' = "returned" /\ result' = "error" /\ listener' = "closed"
    /\ UNCHANGED <<relayVars, main, stops, buffered, recvq, requestVars>>

\* Run's select; Shutdown closes the listener before it waits.
RunSelects ==
    /\ run = "starting"
    /\ IF buffered
       THEN /\ run' = "shutting" /\ buffered' = FALSE /\ listener' = "closed"
            /\ UNCHANGED recvq
       ELSE /\ run' = "waiting" /\ recvq' = Append(recvq, "run")
            /\ UNCHANGED <<buffered, listener>>
    /\ UNCHANGED <<relayVars, main, result, stops, requestVars>>

RunHearsError ==
    /\ run \in {"starting", "waiting"} /\ listener = "failed"
    /\ run' = "returned" /\ result' = "error"
    /\ recvq' = SelectSeq(recvq, LAMBDA g : g # "run")
    /\ UNCHANGED <<relayVars, main, listener, stops, buffered, requestVars>>

\* The http.Server knows the request, and waits for it: its handler has not
\* returned, and has not taken its connection over.
Tracked ==
    \/ kind = "exec" /\ handler \notin {"over", "failed", "gone"}
       /\ (upgrade => handler \in {"head", "answer"})
    \/ kind \notin {"none", "exec"} /\ serve \notin {"over", "gone"}

\* Slip: Close, which waits for no handler, in place of Shutdown.
ShutdownCloses ==
    /\ run = "shutting"
    /\ run' = "returned" /\ result' = "nil"
    /\ UNCHANGED <<relayVars, main, listener, stops, buffered, recvq, requestVars>>

ShutdownDone ==
    /\ run = "shutting" /\ ~Tracked
    /\ run' = "returned" /\ result' = "nil"
    /\ UNCHANGED <<relayVars, main, listener, stops, buffered, recvq, requestVars>>

\* Slip: the context given to Shutdown has no limit.
ShutdownWaits == FALSE /\ UNCHANGED vars

\* The 10 s are over.
ShutdownTimesOut ==
    /\ run = "shutting"
    /\ run' = "returned" /\ result' = "error"
    /\ UNCHANGED <<relayVars, main, listener, stops, buffered, recvq, requestVars>>

-----------------------------------------------------------------------------
(* Requests                                                                *)

\* handleProxy dispatches on the path.  Only an exec is
\* upgraded, and only then is there input for Docker to take.
Receive ==
    /\ listener = "up" /\ kind = "none"
    /\ kind' \in {"plain", "stream", "events", "exec"}
    /\ kind' # "exec" => ~upgrade
    /\ ~upgrade => "docker" \notin slow
    /\ serve' = IF kind' = "exec" THEN "none" ELSE "request"
    /\ watcher' = IF kind' = "events" THEN "watching" ELSE "none"
    /\ UNCHANGED <<relayVars, stopVars, context>>

\* net/http ends the context when the client closes its side, and when its
\* read of the idle connection meets ReadTimeout.
ContextEnds ==
    /\ ~exited /\ kind \notin {"none", "exec"} /\ context = "live"
    /\ context' = "done"
    /\ UNCHANGED <<relayVars, stopVars, kind, serve, watcher>>

\* The call to Docker cannot go on: the context is done (which for events is
\* told by the closed socket), or 30 s have passed.
Cut ==
    CASE kind = "plain" -> TRUE
      [] kind = "stream" -> context = "done"
      [] OTHER -> "docker" \notin sockets

\* Docker answers with a head.
DockerAnswers ==
    /\ serve = "request" /\ "docker" \in sockets
    /\ serve' = "body"
    /\ UNCHANGED <<relayVars, stopVars, kind, watcher, context>>

\* The deferred Closes; for events also close(connDone).  For plain and stream
\* it is the body that is closed: http.Client may keep the connection for
\* another request, and this one is done with it.
EndServe ==
    /\ serve' = "over"
    /\ sockets' = sockets \ {"docker"}
    /\ UNCHANGED <<upgrade, handler, down, up, signals, peerVars, taken, held, given, got>>

\* Dial, write or read fails: an error to the client.
RequestFails ==
    /\ serve = "request"
    /\ EndServe
    /\ UNCHANGED <<stopVars, kind, watcher, context>>

\* Body.Read returns bytes; the error of w.Write is not looked at.
ReadBody ==
    /\ serve = "body" /\ "docker" \in sockets /\ taken < produced
    /\ taken' = taken + 1
    /\ got' = IF client = "gone" THEN got ELSE Append(got, taken')
    /\ UNCHANGED <<upgrade, handler, down, up, signals, sockets, peerVars, held, given>>
    /\ UNCHANGED <<stopVars, requestVars>>

BodyEnds ==
    /\ serve = "body"
    /\ Cut \/ (docker = "ended" /\ taken = produced)
    /\ EndServe
    /\ UNCHANGED <<stopVars, kind, watcher, context>>

\* Slip: the goroutine only waits for the handler.
WatchHandler ==
    /\ watcher = "watching" /\ serve \in {"over", "gone"}
    /\ watcher' = "over"
    /\ UNCHANGED <<relayVars, stopVars, kind, serve, context>>

\* The goroutine beside handleEventsStream: the client's end closes the socket.
Watch ==
    /\ watcher = "watching"
    /\ \/ context = "done" /\ sockets' = sockets \ {"docker"}
       \/ serve \in {"over", "gone"} /\ UNCHANGED sockets
    /\ watcher' = "over"
    /\ UNCHANGED <<upgrade, handler, down, up, signals, peerVars, taken, held, given, got>>
    /\ UNCHANGED <<stopVars, kind, serve, context>>

-----------------------------------------------------------------------------
Serve == ReadBody \/ BodyEnds

Next ==
    \/ Stop \/ MainSelects \/ MainReturns
    \/ Listen \/ RunFails \/ RunSelects \/ RunHearsError \/ ShutdownDone \/ ShutdownTimesOut
    \/ Receive \/ ContextEnds \/ DockerAnswers \/ RequestFails \/ Serve \/ Watch
    \/ ~exited /\ kind # "none" /\ Peers /\ UNCHANGED <<stopVars, requestVars>>
    \/ ~exited /\ kind = "exec" /\ Relay /\ UNCHANGED <<stopVars, requestVars>>

\* Every goroutine is scheduled, GetVersion and the 10 s of Shutdown end, a
\* call to Docker that is cut returns, and the end of the client's connection
\* ends the context.  A write to a client that stays and does not take it need
\* not end, whatever becomes of the context.
Fairness ==
    /\ RelayFairness
    /\ WF_vars(MainSelects \/ MainReturns)
    /\ WF_vars(RunSelects \/ RunHearsError \/ ShutdownDone \/ ShutdownTimesOut)
    /\ WF_vars(client # "open" /\ ContextEnds)
    /\ WF_vars((Cut \/ docker = "ended") /\ RequestFails)
    /\ WF_vars(~ClientStalls /\ Serve)
    /\ WF_vars(Watch)

Spec == Init /\ [][Next]_vars /\ Fairness

-----------------------------------------------------------------------------
(* Properties                                                              *)

\* When Shutdown reports success no handler that the server knows is cut by
\* the end of the process: none was left, and none has come since.  Only an
\* exec whose connection has been taken over may still be running.
DrainedByShutdown == result = "nil" => ~Tracked

\* A signal ends the process, whichever goroutine takes it and whatever the
\* handlers do: one that Run takes ends it within the limit of Shutdown.
StopEndsProcess == stops > 0 ~> exited

\* http.go:368-370: when the client of a streamed response or of events goes,
\* or Docker ends the response, the handler returns, with Docker still silent
\* or not; the goroutine that watches has ended and Docker's socket is closed.
\* Only a client that stays and does not take the rest can hold the handler up.
ServeEnds ==
    kind \in {"plain", "stream", "events"} /\ (client # "open" \/ docker = "ended")
        ~> \/ serve \in {"over", "gone"} /\ watcher # "watching" /\ "docker" \notin sockets
           \/ ClientStalls
=============================================================================
