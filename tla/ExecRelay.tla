----------------------------- MODULE ExecRelay -----------------------------
(***************************************************************************)
(* The relay of an exec session in Standard mode: handleExecHijack         *)
(* (src/internal/server/http.go:206-351).  The handler sends the exec      *)
(* start to Docker on a Unix socket of its own and reads the head of the   *)
(* answer through a bufio.Reader, which may take the beginning of the      *)
(* output with it.  If the client asked for an upgrade, the handler takes  *)
(* over its connection and lets two goroutines copy, one each way, until   *)
(* either ends; if not, it copies the output itself.  What is copied is    *)
(* numbered: output and input are the chunks 1, 2, ... in their order.     *)
(* No write has a deadline: a process may not read its stdin, and a client *)
(* may not read the output, for as long as they stay.                      *)
(* StandardServer serves it beside the other requests.                     *)
(***************************************************************************)
EXTENDS Naturals, Sequences

CONSTANTS
    MaxOutput,    \* bound: chunks the process writes
    MaxInput      \* bound: chunks the client sends

ASSUME RelayConstantsAssumption == MaxOutput \in Nat /\ MaxInput \in Nat

VARIABLES
    upgrade,     \* the client asked for a bidirectional connection
    handler,     \* where handleExecHijack is
    down,        \* the goroutine that copies Docker -> client
    up,          \* the goroutine that copies client -> Docker
    signals,     \* values in the channel done
    sockets,     \* our open sockets, of "docker" and "client"
    docker,      \* Docker's side: "open", or "ended" after the last output
    client,      \* the client's: "open", "half" (its stdin has ended), "gone"
    slow,        \* the peers, "docker" or "client", that need not take what they are sent
    produced,    \* output chunks written by the process
    taken,       \* output chunks read from Docker's socket
    held,        \* those that the bufio.Reader read with the head
    typed,       \* input chunks sent by the client
    given,       \* the input Docker got
    got          \* the output the client got

peerVars == <<docker, client, slow, produced, typed>>
relayVars == <<upgrade, handler, down, up, signals, sockets, peerVars, taken, held, given, got>>

RelayInit ==
    /\ upgrade \in BOOLEAN
    /\ handler = "head" /\ down = "none" /\ up = "none" /\ signals = 0
    /\ sockets = {"docker", "client"}
    /\ docker = "open" /\ client = "open"
    /\ slow \in SUBSET {"docker", "client"}
    /\ produced = 0 /\ taken = 0 /\ held = <<>>
    /\ typed = 0 /\ given = <<>> /\ got = <<>>

Run(from, to) == [k \in 1 .. (to - from) |-> from + k]

-----------------------------------------------------------------------------
(* Docker and the client                                                   *)

Produce ==
    /\ docker = "open" /\ produced < MaxOutput
    /\ produced' = produced + 1
    /\ UNCHANGED <<upgrade, handler, down, up, signals, sockets, docker, client, slow, typed, taken, held, given, got>>

\* The process ends, and Docker its answer.
EndOutput ==
    /\ docker = "open"
    /\ docker' = "ended"
    /\ UNCHANGED <<upgrade, handler, down, up, signals, sockets, client, slow, produced, typed, taken, held, given, got>>

Type ==
    /\ client = "open" /\ typed < MaxInput
    /\ typed' = typed + 1
    /\ UNCHANGED <<upgrade, handler, down, up, signals, sockets, docker, client, slow, produced, taken, held, given, got>>

\* The client ends its input, or goes.
Leave ==
    /\ \/ client = "open" /\ client' = "half"
       \/ client # "gone" /\ client' = "gone"
    /\ UNCHANGED <<upgrade, handler, down, up, signals, sockets, docker, slow, produced, typed, taken, held, given, got>>

-----------------------------------------------------------------------------
(* handleExecHijack                                                        *)

\* Status line and headers have come, and some of the output with them.
ReadHead ==
    /\ handler = "head"
    /\ taken' \in 0 .. produced
    /\ held' = Run(0, taken')
    /\ handler' = "answer"
    /\ UNCHANGED <<upgrade, down, up, signals, sockets, peerVars, given, got>>

\* The request body, the socket, a write or a read of the head fails, or the
\* client's connection cannot be taken over: an error, and the deferred Close.
Fail ==
    /\ handler = "head" \/ (handler = "answer" /\ upgrade)
    /\ handler' = "failed"
    /\ sockets' = sockets \ {"docker"}
    /\ UNCHANGED <<upgrade, down, up, signals, peerVars, taken, held, given, got>>

\* Slip: what the reader holds is not passed on.
AnswerDropsHeld ==
    /\ handler = "answer"
    /\ held' = <<>>
    /\ handler' = IF upgrade THEN "start" ELSE "copy"
    /\ UNCHANGED <<upgrade, down, up, signals, sockets, peerVars, taken, given, got>>

\* The head of our answer, then what the reader holds of the output; neither
\* write's error is looked at.
Answer ==
    /\ handler = "answer"
    /\ got' = IF client = "gone" THEN got ELSE got \o held
    /\ held' = <<>>
    /\ handler' = IF upgrade THEN "start" ELSE "copy"
    /\ UNCHANGED <<upgrade, down, up, signals, sockets, peerVars, taken, given>>

\* Slip: the copy stops when the process ends, whatever is still to be read.
OutputOverEarly ==
    docker = "ended" \/ sockets # {"docker", "client"} \/ (client = "gone" /\ taken < produced)

\* io.Copy to the client returns: the output has ended, a socket has been closed
\* here, or a write to a client that is gone fails.
OutputOver ==
    \/ docker = "ended" /\ taken = produced
    \/ sockets # {"docker", "client"}
    \/ client = "gone" /\ taken < produced

\* One chunk from Docker to the client, in the handler or in its goroutine.
CopyDown ==
    /\ handler = "copy" \/ down = "copying"
    /\ sockets = {"docker", "client"} /\ client # "gone"
    /\ taken < produced
    /\ taken' = taken + 1
    /\ got' = Append(got, taken')
    /\ UNCHANGED <<upgrade, handler, down, up, signals, sockets, peerVars, held, given>>

CopyDownEnds ==
    /\ OutputOver
    /\ \/ handler = "copy" /\ handler' = "close docker" /\ UNCHANGED down
       \/ down = "copying" /\ down' = "signal" /\ UNCHANGED handler
    /\ UNCHANGED <<upgrade, up, signals, sockets, peerVars, taken, held, given, got>>

StartCopies ==
    /\ handler = "start"
    /\ down' = "copying" /\ up' = "copying"
    /\ handler' = "wait"
    /\ UNCHANGED <<upgrade, signals, sockets, peerVars, taken, held, given, got>>

\* The next chunk is read from the client, first those that came before the
\* take-over.
ReadUp ==
    /\ up = "copying"
    /\ sockets = {"docker", "client"}
    /\ Len(given) < typed
    /\ up' = "writing"
    /\ UNCHANGED <<upgrade, handler, down, signals, sockets, peerVars, taken, held, given, got>>

\* The write to Docker returns: the process reads its stdin, or there is room.
WriteUp ==
    /\ up = "writing"
    /\ sockets = {"docker", "client"}
    /\ given' = Append(given, Len(given) + 1)
    /\ up' = "copying"
    /\ UNCHANGED <<upgrade, handler, down, signals, sockets, peerVars, taken, held, got>>

\* io.Copy to Docker returns: a read meets the end of the input or a client that
\* is gone, a write a process that has ended, or a socket has been closed here.
\* The client's going does not end a write.
CopyUpEnds ==
    /\ up \in {"copying", "writing"}
    /\ \/ up = "copying" /\ (client = "gone" \/ (client = "half" /\ Len(given) = typed))
       \/ up = "writing" /\ docker = "ended"
       \/ sockets # {"docker", "client"}
    /\ up' = "signal"
    /\ UNCHANGED <<upgrade, handler, down, signals, sockets, peerVars, taken, held, given, got>>

\* Slip: done has no room, and a send waits for the handler to receive.
SignalUnbuffered ==
    /\ handler = "wait" /\ signals = 0
    /\ \/ down = "signal" /\ down' = "over" /\ UNCHANGED up
       \/ up = "signal" /\ up' = "over" /\ UNCHANGED down
    /\ signals' = signals + 1
    /\ UNCHANGED <<upgrade, handler, sockets, peerVars, taken, held, given, got>>

\* A copier sends on done, which has room for both, and returns.
Signal ==
    /\ \/ down = "signal" /\ down' = "over" /\ UNCHANGED up
       \/ up = "signal" /\ up' = "over" /\ UNCHANGED down
    /\ signals' = signals + 1
    /\ UNCHANGED <<upgrade, handler, sockets, peerVars, taken, held, given, got>>

Wake ==
    /\ handler = "wait" /\ signals > 0
    /\ signals' = signals - 1
    /\ handler' = "close client"
    /\ UNCHANGED <<upgrade, down, up, sockets, peerVars, taken, held, given, got>>

\* The deferred Closes, the client's first.
CloseClient ==
    /\ handler = "close client"
    /\ sockets' = sockets \ {"client"}
    /\ handler' = "close docker"
    /\ UNCHANGED <<upgrade, down, up, signals, peerVars, taken, held, given, got>>

CloseDocker ==
    /\ handler = "close docker"
    /\ sockets' = sockets \ {"docker"}
    /\ handler' = "over"
    /\ UNCHANGED <<upgrade, down, up, signals, peerVars, taken, held, given, got>>

-----------------------------------------------------------------------------
Handler == StartCopies \/ Wake \/ CloseClient \/ CloseDocker

\* What Docker and the client do, and what handleExecHijack and its goroutines do.
Peers == Produce \/ EndOutput \/ Leave

Relay ==
    \/ Type \/ ReadHead \/ Fail \/ Answer \/ Handler
    \/ CopyDown \/ CopyDownEnds \/ ReadUp \/ WriteUp \/ CopyUpEnds \/ Signal

\* There is output to write to a client that stays and need not take it.
ClientStalls == "client" \in slow /\ client # "gone" /\ (handler = "answer" \/ taken < produced)

\* There is input to write to a process that goes on and need not read it.
ProcessStalls == "docker" \in slow /\ docker = "open" /\ up = "writing"

\* The scheduler runs the three goroutines.  Neither Docker nor the client is
\* bound to send or end anything, and a write ends only if its peer takes what
\* it is sent, is gone, or the socket is closed here.
RelayFairness ==
    /\ WF_relayVars(Handler)
    /\ WF_relayVars(~ClientStalls /\ (Answer \/ CopyDown))
    /\ WF_relayVars(CopyDownEnds)
    /\ WF_relayVars(ReadUp \/ CopyUpEnds)
    /\ WF_relayVars(~ProcessStalls /\ WriteUp)
    /\ WF_relayVars(Signal)

-----------------------------------------------------------------------------
\* The two readers of Docker's socket, bufio and io.Copy, and the two of the
\* client's hand over without loss or repetition: each side gets the beginning
\* of what the other wrote, in order.
InOrder ==
    /\ got = Run(0, Len(got))
    /\ given = Run(0, Len(given))

\* The relay ends with whichever direction ends first (http.go:349).  So the end
\* of the output may be lost by a client that ends its input, as a pipe into
\* docker exec does, or whose input meets the end of the process; no other
\* client loses any, and for no other reason does the relay end.
OutputComplete ==
    handler \in {"close client", "over"} /\ client = "open" /\ Len(given) = typed
        => docker = "ended" /\ got = Run(0, produced)

\* The relay has begun, and it is over: the handler and both copiers have
\* returned and Docker's socket is closed.
Begun == handler # "head"
Ended == /\ handler \in {"over", "failed", "gone"}
         /\ down \in {"none", "over"} /\ up \in {"none", "over"}

\* What ends a relay, and what alone can hold it up, as no write has a deadline:
\* the end of the output ends it, unless a client stays that does not take the
\* rest; the end of an upgraded client's input does, unless the process does not
\* read the input; and output that a client which is gone cannot get does in any
\* case, even with a copier stuck in its write to the process.
BoundToEnd ==
    \/ docker = "ended" /\ ~ClientStalls
    \/ upgrade /\ client # "open" /\ ~ProcessStalls /\ ~(handler = "answer" /\ ClientStalls)
    \/ client = "gone" /\ taken < produced

\* A relay with no such hold-up does not outlive its peers.
RelayEnds == (Begun /\ BoundToEnd) ~> (Ended \/ ~BoundToEnd)
=============================================================================
