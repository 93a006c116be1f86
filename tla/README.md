# Hawser in TLA+

This directory specifies Hawser, the remote Docker agent of Dockhand: TLA+ modules
translated from the Go sources under `src/`, configurations that model-check them with
TLC, and proofs that TLAPS checks. File and line references are to the commit that is
modelled; `PROJECT.json` has the line range of every definition.

Contents: [the system](#the-system) · [modules](#modules-and-the-code) ·
[runs](#runs-bounds-and-what-they-show) · [fairness](#fairness) · [proofs](#proofs) ·
[divergences](#where-the-code-and-its-documents-differ) · [not modelled](#not-modelled) ·
[plan](#plan)

## The system

Hawser runs beside a Docker daemon in one of two modes (`cmd/hawser/main.go`): with
`DOCKHAND_SERVER_URL` and `TOKEN` set it dials a Dockhand server over a WebSocket (Edge);
otherwise it serves the Docker API over HTTP (Standard).

| Component | State it keeps | Operations | Talks to |
|---|---|---|---|
| Connection life, `edge/client.go` | `c.conn` (under `c.mu`), `connected`, one `done` channel per `run` | `runWithReconnect`, `connect`, `sendHello`, `waitForWelcome`, `run`, `close`, `sendJSON` | every other Edge part writes through `sendJSON` |
| Exec sessions, `edge/client.go`, `docker/client.go` | `c.execSessions` (under `execSessionsMu`), one hijacked connection per session | `handleExecStart`, `readExecOutput`, `handleExecInput`, `handleExecResize`, `handleExecEnd` | Docker, `sendJSON`, `close` |
| Streaming requests, `edge/client.go` | `c.streams` (under `streamsMu`), one context per request | `handleStreamingRequest`, `cancelStream` | Docker, `sendJSON` |
| Plain requests, `edge/client.go`, `protocol/messages.go` | none | `handleRequest`, `NewResponseMessage` | Docker, `sendJSON` |
| Background loops, `edge/client.go` | none but their timers; the events loop's back-off and watchers | `heartbeatLoop`, `metricsLoop`, `eventsLoop`, `streamEvents` | `done`, Docker, `sendJSON` |
| Back-off, `edge/client.go` | the raw delay | part of `runWithReconnect` | configuration |
| Process life, `main.go` | the stop channel, of capacity one | `main`, the stop goroutine of `startHealthServer` | the loop of `runWithReconnect` |
| Rate limiter, `server/middleware.go` | failures by address (under `rl.mu`) | `IsBlocked`, `RecordFailure`, `cleanupLoop` | `authMiddleware` |
| Exec relay, `server/http.go` | two sockets and two copiers per request | `handleExecHijack` | Docker, the HTTP client |
| Standard server, `server/http.go` | the listener; one goroutine per request, one more per events request | `Run`, `handleProxy`, `handleEventsStream`, `streamResponse`, `handleCompose` | `main` through the stop channel, Docker, the HTTP client |
| Compose, `docker/compose.go` | stack directories on disk; `composeCmd`, `composeArgs`, `composeChecked`, with no lock | `Execute`, `detectComposeCommand`, `IsAvailable` | the compose CLI; called by both modes and by `sendHello` |
| Metrics, `metrics/collector.go` | the previous CPU counters (under `c.mu`) | `Collect` | `/proc`; called by each `metricsLoop` |
| Protocol, `protocol/messages.go` | none | message types and constructors | |
| Configuration, `config/config.go` | read once | `Load`, `validate` | the environment |
| Tunnel, `edge/tunnel.go` | a map of terminals | `ExecTunnel` | nothing uses it |

What is hard here is concurrency rather than computation:

* every message from the server is handled on a goroutine of its own, so messages for one
  session are handled in any order;
* limits are checked under one lock and the entry made under another, with Docker calls
  between them;
* a session is ended from four sides (its process, the server's message, `close`, and its
  own reader), and sessions outlive the connection they were started on;
* all senders share one lock that is held during the write, and the read loop needs it;
* three goroutines receive from one stop channel that holds one signal;
* no write has a deadline, and some commands and waits no context: a peer that stays and
  takes nothing holds up whoever writes to it;
* loops are ended by closing a channel that a blocked read cannot see;
* compose operations share a directory and the record of which command is installed, and
  CPU readings are taken before the lock under which they are compared;
* `main` and the mode's goroutine wait for the same signal, and only one of them closes
  anything.

What makes each component correct: no session or stream is lost from its table while it
runs, or kept in it when it has ended; the server hears of every start and every end, in an
order it can rely on; a lost connection is noticed and replaced, and nothing of the old one
goes on beside the new; delays stay in their bounds; a block of the limiter has a cause and
an end; a response is what Docker said, unless it was too long or no text; relays lose no
bytes and leave no goroutine behind; a shutdown that reports success has cut no one; compose
runs on the files it was given; a CPU share that is reported is the share of some interval.

## Modules and the code

`SessionPromise` is the abstract specification of what the server hears of anything it
starts: one refusal; or a greeting, payload, and one farewell with nothing after it. Its
actions are the server's view (ask, refuse, open, emit, end); its fairness says that what
is asked is decided. `ExecSessions` and `StreamSessions` both implement it, with different
greetings and farewells, through `INSTANCE SessionPromise WITH ...` (`KeepsPromise`).

| Module | Models | State and its code |
|---|---|---|
| `ExecSessions` | `handleExecStart`, `readExecOutput`, `handleExecEnd`, the session part of `close` | `table` is `c.execSessions`; `conn` the hijacked connections; `pc` follows one start through `handleExecStart` and then `readExecOutput`, which run one after the other; `sent` is what was handed to `sendJSON` |
| `ExecTerminal` | `handleExecInput`, `handleExecResize`, the initial resize | extends `ExecSessions`; `handler`, `lookups` and `session` are the locals of each message's goroutine, `typed` and `size` what reached the terminal |
| `StreamSessions` | `handleStreamingRequest`, `cancelStream` | `streams` is `c.streams`; `ctx` the contexts; `found` what `cancelStream` looked up before it released the lock |
| `EdgeConnection` | `Run`, `runWithReconnect`, `connect`, `run`, `close`, `sendJSON`, the background loops' life, `startHealthServer`'s stop goroutine, `main` | `loop` is the goroutine of `runWithReconnect`; `conn` is `c.conn`; `mu` is `c.mu`, held by a sender or by `connect` itself; a `sock` that is `"slow"` is up, but its peer need not take what it is sent; `recvq` and `buffered` are the stop channel |
| `ReconnectBackoff` | the arithmetic of `runWithReconnect` | `backoff` and `delay` are the variables of that name, in units of which `Second` make a second |
| `EventsFeed` | `eventsLoop`, `streamEvents`, the watchers | `loop`, one `socket` and one `watcher` per stream, `delay` is `reconnectDelay` |
| `AuthRateLimiter` | `AuthRateLimiter`, `authMiddleware` | `failures` is `rl.failures`; a slice of timestamps is a count for each age, since the code filters slices and takes their lengths |
| `ExecRelay` | `handleExecHijack` | `handler`, `down`, `up` are its three goroutines; `signals` is the channel `done`; `held` is what the `bufio.Reader` took with the head; `slow` are the peers that need not take what they are sent |
| `StandardServer` | `Run`, `handleProxy`, `handleEventsStream`, `streamResponse`, `main` around them | extends `ExecRelay`, whose handler is one kind of request; `serve` is the handler of the other kinds, `watcher` the goroutine of `handleEventsStream`; `recvq` and `buffered` are the stop channel |
| `ComposeStacks` | `ComposeClient` and its callers | `cli` is its three detection fields, `pend` the assignments a detection has yet to make; `stacks` is the disk; `pc` follows each `Execute`; `orphans` says whether a killed command may leave a child that holds its pipes |
| `HostMetrics` | `collectCPU` | `current` is the local of that name of each call, `prevCPU` the field |
| `PlainRequests` | `handleRequest` without streaming, `NewResponseMessage`, the JSON of `sendJSON` | `stage` follows the handler; `body` is Docker's answer and `taken` how much of it `ReadAll` has; `answer` is the message as written |
| `ExecSessionsProofs`, `StreamSessionsProofs`, `EdgeConnectionProofs`, `ArithmeticProofs`, `EventsFeedProofs`, `AuthRateLimiterProofs`, `StandardServerProofs`, `ComposeStacksProofs` | theorems | the first extends `ExecTerminal`, and so `ExecSessions`; `ArithmeticProofs` is about `ReconnectBackoff`, `HostMetrics` and `PlainRequests`; `StandardServerProofs` about `StandardServer` with its `ExecRelay` |
| `MCExecSessions`, `MCExecTerminal`, `MCStreamSessions`, `MCAuthRateLimiter`, `MCComposeStacks`, `MCArithmetic` | instances for TLC; the last joins `ReconnectBackoff`, `HostMetrics` and `PlainRequests`, which are small and share nothing | |

Conventions. An access to a map under its lock is one step; a Docker call is a step of its
own, so that everything else can happen before it returns. Each module has a step for
every early return and error path. Results of `sendJSON` that no caller looks at are left
out. A definition whose comment begins with `Slip:` is not part of the specification: it
is the definition after it with a plausible mistake, kept to show that a property would
notice. History variables (`log` of the limiter, `late` of the feed, `heard`) are named as
such where they are declared.

The modules meet at narrow places. `EdgeConnection` treats handlers and loops as senders
(`Tasks`) and knows nothing of what they send; the session modules treat `close` as one
step (`CloseClient`) that may come at any time and is not the end, because `run` may
consume the stop signal and `runWithReconnect` then dials again; `EventsFeed` is one run's
feed, and `CloseDone` is any of the three ways in which `run` closes `done`.
`StandardServer` composes the relay with the server that starts it: the end of the process
cuts a relay at any step, and `Tracked` says which handlers `Shutdown` knows of (an exec
whose connection was taken over is not one of them). `ComposeStacks` treats a write as an
open that truncates and a write that may meet another's bytes, and the fields of
`ComposeClient` as words that another goroutine may see in any order, since nothing
synchronises them.

## Runs, bounds and what they show

| Run | Instance | Shows |
|---|---|---|
| `exec_safe` | 3 starts, 2 of them with one execId, limit 1, 2 at once, 1 output each; 1.4 million states | `NoOrphan`, `TableEntriesOpen`, `EndedHoldsNothing`, `ClosedForCause`: the four parties that end a session leave no open session outside the table, no closed one in it, and nothing behind. `LimitBound`: the count overshoots by the starts in creation together less one, and not more |
| `exec_live` | 2 starts, or 1 start with an input, a resize and 2 lookups; 154 thousand states | `KeepsPromise` (safety and liveness of `SessionPromise`), `EndAfterReadyHonoured`, `EndIsReported`; `TerminalObeys`: what is typed or resized after `exec_ready` takes effect or finds the session ended |
| `exec_end_lost` | 2 starts, expected to fail | an `exec_end` handled before the session is stored has no effect |
| `streams` | 3 requests, 2 of them with one requestId, limit 1, 2 at once, 1 piece of data in all; 313 thousand states | `TableIsRunning`, `StreamLimitBound`, `CancelledForCause`, and live: `KeepsPromise`, `StopHonoured` |
| `edge_safe` | 2 connections, 3 signals, a loop and a handler each; 1.8 million states | `OthersToldToEnd`, `SecondSignalStops`, `OnlyLeftoversPrecedeHello` |
| `edge_live` | 2 connections, 1 signal, a loop each; 47 thousand states | `LossIsNoticed`; `OldRunGivesWay`: the loops of a finished run end and the next connection is taken up, unless a write to a peer that takes nothing holds `c.mu` from some moment on |
| `edge_exit` | expected to fail | a process that ends on a signal has not closed its connection |
| `arithmetic` | every pair of delays from {0, 1, 2, 3, 7} seconds of 3 units, 5 failures; counters that wrap at 4, 3 ticks, 4 readings by 2 overlapping calls; every body of up to 4 bytes and a limit of 3; 516 thousand states | `DelayInBounds`, `Exponential`, `PanicsOnlyOnZero`; `UsageIsTrue`: wrapped counters do no harm, an overlap or an iowait that goes back does; `ResponseFaithful`: which answers of Docker reach the server unaltered |
| `auth` | 2 addresses, 3 connections, limit 2, window 2, room for 2 | `GuessesBounded`, `BlockedForCause`, `Recovers` |
| `events` | 3 events, 2 streams | `AtMostOneAfterDone`, `InOrderOnce`, `NoGap`, `EndsWithRun` |
| `server` | 1 request of any of 4 kinds, 2 chunks of output, 2 of input, 1 signal; 279 thousand states | `InOrder`, `OutputComplete`, `RelayEnds` of the exec relay in both forms: a relay does not outlive its peers but for the hold-ups that `BoundToEnd` names; `ServeEnds` of the other kinds, which a client that takes nothing can hold up; `DrainedByShutdown`, `StopEndsProcess` |
| `compose` | 2 operations on one project and a probe, 2 at once, both commands installed; 475 thousand states | `OwnInputs`: compose reads the operation's own files, whole, unless another wrote them; `CommandSound`: a wrong command line needs a detection that is still recording or two that disagree; `Answered`: a request whose context ends is answered, but for the two waits that no context ends |

Why the bounds are enough. A race over a limit needs one session in the table and two
starts past the check; a race over an id needs two starts with it and, to see that others
are left alone, a third without. Two connections show everything one connection can leave
to the next. Three signals are one more than the channel can keep from `main`. Two event
streams show what carries over from one to the next, and a third event comes after one that
the filter has rejected and one that it has passed. The limiter's room for two is filled by
two addresses, so the next failure evicts. The relay needs a chunk that comes with the
head and one that comes after it or is still to come when something ends, and a chunk of
input that is written after one that was; requests of the server share nothing but the
shutdown, so one is enough, and one signal is the harder case for `StopEndsProcess`, since a
second one can only hasten the end. A blocked writer on one connection and a second
connection are what it takes to see the agent hang. Two compose operations are what
it takes to write between another's write and its read; one of them brings its compose file
and the other has it inline, so both ways of choosing a file run, and each brings an env
file that the other does not have. The counters wrap within the ticks that are counted, and
four readings let one call be overtaken after the first comparison. A body of one byte more
than the limit is cut, after a character, within one or before one; a character has two
bytes, for what the checks and JSON do depends on whether a byte is in a character, not on
where. `exec_live` types only
while the other start is unsent; what a message does depends on its own session alone. All runs
but `auth`, where time always passes, say `CHECK_DEADLOCK FALSE`: sessions, connections and
clients are bounded in number, and a model in which all have ended has no step left.

Type invariants are stated where a proof needs them and are proved, as a conjunct of the
inductive invariant and no wider than the properties need: that of `ExecSessions` is the
theorem `Typing`, those of most modules stand in their proof modules. Every property has a
slip that breaks it in its own run (`mutants` in `PROJECT.json`).

## Fairness

Safety runs assume none. Where liveness is checked:

* goroutines that can run do run (weak fairness per goroutine): the Go scheduler is
  preemptive;
* a goroutine that waits for `c.mu`, or a `select` with `done` closed, gets its turn if it
  could again and again (strong fairness): Go's mutex hands over to a waiter that starves,
  and `select` chooses at random among what is ready;
* Docker calls of an exec start return, because the HTTP client and the attach have 30
  second limits; calls for a streaming request or an event stream have none, and are only
  assumed to return once their context is cancelled or their socket closed;
* dialling, the welcome and reads of the WebSocket have deadlines (10 s, `WELCOME_TIMEOUT`,
  twice the heartbeat or 60 s), so they end on a lost link;
* what a background loop does between two sends (Docker calls with 30 seconds, reads of
  `/proc`, `statfs`) is taken to end; nothing is said of `sendHello`, which waits for
  `docker compose version`;
* a write ends if its peer takes what it is sent, or the connection is lost or closed. The
  code sets no write deadline, so a write to a peer that stays and takes nothing has no
  fairness, on the WebSocket (`slow` peers of `EdgeConnection`) or in the relay and the
  server (`slow` of `ExecRelay`). Properties that such a write defeats say so by name:
  `WriteBlocked` in `OldRunGivesWay`, `ClientStalls` and `ProcessStalls` in `RelayEnds` and
  `ServeEnds`. Each of these exemptions is needed: TLC finds the property violated without
  it;
* in Standard mode `Shutdown` gives up after its 10 s, `GetVersion` has the client's 30 s, a
  call to Docker whose context is done or socket closed returns, and net/http ends the
  context of a request whose client has gone (`ServeEnds`, `StopEndsProcess`);
* `docker compose version` has no context and no fairness, nor has a compose command that
  nobody kills; one that is killed returns if it leaves no child that holds its pipes
  (`orphans`), since `Wait` waits for those and no `WaitDelay` is set. `Answered` is about all
  waits but these two;
* time passes in the limiter; nobody is assumed to send, type, end or reconnect.

## Proofs

Every safety property that a passing run checks is also a theorem.
The theorems hold for every value of the constants that the modules' `ASSUME`s allow: any
number of sessions, requests, addresses, operations, connections or readings, any limits,
any assignment of ids; sets whose members are counted are finite. The bounds of the runs
(`MaxOutput`, `MaxConns`, `MaxEvents`, ...) are constants too, so no theorem depends on how
small they are. Each proof module states its inductive invariant, which TLC finds to hold on
the run of its component as well (one more where a limit is counted, and one of what has been
sent where a promise is kept), and has one step per action or group of actions that touch the
same state.

`ExecSessionsProofs` proves, for any finite sets of starts and execIds, any assignment of
ids (`IdOf`), and any positive limits (`ConstantsAssumption`):

* `Typing`: `Spec => []TypeOK`.
* `NoOrphanHolds`, `TableEntriesOpenHolds`, `EndedHoldsNothingHolds`, `ClosedForCauseHolds`
  by one inductive invariant, `IInv == TypeOK /\ TableAgrees /\ ConnAgrees /\ NoOrphan`.
  None of the properties is inductive alone. That a table entry is open needs to know that
  it is there under its own execId and only between its store and its own delete
  (`TableAgrees`), or else the delete of one session could be thought to close another's
  connection; that a connection is open or closed at each label (`ConnAgrees`) is what
  makes the reader's `Close` and `handleExecEnd`'s agree on who comes first. The proof has
  one step per action; `handleExecEnd` and `close` are the interesting ones.
* `LimitBoundHolds`: the sum of entries and starts in creation never exceeds the limit by
  more than the parallelism less one. The invariant adds the bound on starts that are being
  checked or created; the steps count with the library's cardinality theorems.
* `PromiseHolds`: `Spec => Promise!Safe`, step simulation: every step of the goroutines is
  a step of `SessionPromise` or leaves `phase` and `heard` unchanged. It rests on `SentInv`,
  which says what has been sent at each label.

* `TerminalKeepsSessions`: `TerminalSpec => Spec`, so all of the above holds with messages
  for the terminals beside the sessions. `TerminalObeysHolds` adds to `IInv` that a handler
  past its lookup has a session of its message's id (`SessionFound`) and that what was
  promised had a session ready for it, which has not gone back (`PromisedWasReady`). That a
  lookup in vain means a closed connection or an ended process is `NoOrphan` once more.

`StreamSessionsProofs`: `TableIsRunningHolds`, `CancelledForCauseHolds`,
`StreamLimitBoundHolds` and `PromiseHolds`. `cancelStream` acts on what it found after it has
released the lock, so the invariant says that what it found bears the id of its message
(`FoundAgrees`), which outlasts the entry. The limit counts as for the exec sessions. The
promise needs to know that the last message of an ended stream is `stream_end`.

`EdgeConnectionProofs`: `OthersToldToEndHolds`, `SecondSignalStopsHolds`,
`OnlyLeftoversPrecedeHelloHolds`. Three groups that do not need each other: which connection
is `c.conn` at each label and that no goroutine is of a later one (`LinkAgrees`); that
something was written on every connection that anything runs on (`HelloAgrees`); and who is
in the queue of the stop channel (`QueueAgrees`), with its consequence that after one signal
only the goroutine of `runWithReconnect` can still be ahead of `main` (`StopAgrees`). The
lemmas about that queue say what is left of it when a receiver enters, is served or gives up.

`EventsFeedProofs`: `AtMostOneAfterDoneHolds`, `InOrderOnceHolds`, `NoGapHolds`. Every event
is in one place on its way from Docker to `sendJSON`, and those nearer to the server are
earlier (`Ordered`); after the one event that may follow `done` the loop is where it looks at
`done` next (`LateAgrees`).

`StandardServerProofs`: `InOrderHolds`, `OutputCompleteHolds`, `DrainedByShutdownHolds`. A
client that stays has got just what was taken from Docker, or it is still in the
`bufio.Reader` (`OutputAgrees`); a copy ends only for a cause while both sockets are open, and
only the handler closes them, after a copy has ended (`EndAgrees`); the listener is closed
before `Shutdown` waits (`ShutAgrees`).

`AuthRateLimiterProofs`: `GuessesBoundedHolds`, `BlockedForCauseHolds`. The entry of an
address, once pruned, is the history of its failures in the window (`EntriesAgree`), whatever
prunings, cleanups and evictions came between. The bound is about a sum of the failures on
record and the requests that are on their way to record one, and counts with the library's
cardinality theorems.

`ComposeStacksProofs`: `OwnInputsHolds`, `CommandSoundHolds`. A file that is an operation's
own holds its content or is open and empty (`OwnFiles`). What a detection has still to assign
is what it has found, and while all agree a field that has not its value is one that somebody
has still to assign (`Agreed`); so outside an assignment the three fields fit together.

`ArithmeticProofs`: `DelayInBoundsHolds` and `PanicsOnlyOnZeroHolds`, for every pair of
configured integers and every unit: the raw delay stays between the two configured values,
so `Int63n` gets zero only if one of them is not positive, and the truncating divisions
never take the jittered delay past a quarter either way. `ExponentialHolds`: capping at
every step comes to capping once at the end, for any number of failures; that `2 ^ (k + 1)`
is twice `2 ^ k` needs no induction, since `2 ^ k` counts the subsets of `1 .. k`.
`UsageIsTrueHolds`, for every width and any number of overlapping calls: readings are of the
past and in the order they were taken (`ReadingsAgree`), so that a difference of less than
the width survives the wrapping; that fewer ticks pass than a counter is wide (`Width >
MaxTicks`) is assumed of the 64 bits of the kernel. `ResponseFaithfulHolds`, for every body
and every limit: JSON leaves a string alone if and only if each byte is in a character
(`MarshalFaithful`), and what is decoded has as many bytes as were read, so a cut answer is
never taken for the whole (`DecodedLength`).

Model-checked only:

* liveness: `EndAfterReadyHonoured`, `EndIsReported`, `StopHonoured`, `LossIsNoticed`,
  `OldRunGivesWay`, `Recovers`, `EndsWithRun`, `RelayEnds`, `ServeEnds`, `StopEndsProcess`,
  `Answered`, and the fairness of `KeepsPromise`; fairness and `ENABLED` are beyond the
  prover. `PromiseHolds` is the safety part of `KeepsPromise`;
* the two runs that are expected to fail, whose counterexample is their result.

## Where the code and its documents differ

* `exec_end_lost`: `handleExecEnd` does not wait for a session that is being created, as
  input and resize do, so a terminal closed at once in the browser leaves its shell running
  (`messages.go:361`).
* `edge_exit`: `main` returns on the signal it takes itself without waiting for `edge.Run`,
  so neither the close frame nor the sessions are attended to (`README.md:556`,
  `client.go:1116`). If another receiver takes the first signal the process goes on, with
  its health server down or after a reconnection, until the second (`SecondSignalStops`).

Others met on the way, which a property that holds describes without a run of their own: the
session limits can be overshot (`LimitBound`, `StreamLimitBound`); hello is not always the
first message on a connection after the first one (`OnlyLeftoversPrecedeHello`,
`messages.go:48`); a delay may exceed `MAX_RECONNECT_DELAY` by a quarter (`DelayInBounds`,
`README.md:456`); a request with the right token from a blocked address is refused
(`BlockedForCause`, `middleware.go:11`); a zero delay makes the agent panic
(`PanicsOnlyOnZero`). `sendJSON` holds `c.mu` during a write without a deadline (`client.go:901`), and `run` leaves
the connection open when its read deadline passes (`client.go:353`): with a server that keeps
the TCP connection up and takes nothing (a zero window whose probes are acknowledged), the
loops that want to send wait for ever, and so does the next `connect`, after it has dialled,
at `client.go:207`. The agent reports that it is disconnected and does not reconnect
(`README.md:554`) until the old connection is lost; `OldRunGivesWay` without its `<>[]WriteBlocked`
is violated by just this. A request may outlive `REQUEST_TIMEOUT` (`README.md:454`) without an
answer, while `docker compose version` hangs (`compose.go:73`, `:83`) or a child of a killed
compose holds its pipes (`compose.go:460`) (`Answered`). A relay stays although its client has
gone while a process that is silent does not read its stdin, so that one copier waits to write
and the other to read, or, without an upgrade, while the process writes nothing; and a client
that stays and takes nothing holds its handler (`RelayEnds`, `ServeEnds`).
`IsBlocked` stores an entry for every address it is asked about and
looks at no cap (`middleware.go:17`, `:54`). In Standard mode too `main` normally takes the
signal first and returns, so that `Shutdown` never runs; `DrainedByShutdown` holds of the
shutdowns that do. `ReadTimeout` (`http.go:81`) is meant for requests, but net/http's
background read keeps its deadline and may end the context of a response that lasts longer
than 30 s with the client still there (`ContextEnds`). An env file that an earlier
operation left in a stack's directory is used by the next (`Choose`, `compose.go:331`). Two
inputs for one terminal may be written in either order (`ExecTerminal` orders nothing), and
a resize made while the initial one is under way is undone by it (`TerminalObeys`).
`NewResponseMessage` calls printable ASCII what it lets pass as text (`messages.go:136`), but
its check passes every byte from 0x80 on, so a text that is not UTF-8, such as a log in Latin-1
from an endpoint that is not marked as raw, is altered by JSON; and an answer beyond 100 MB
is cut with nothing to say so (`ResponseFaithful`, `messages.go:108`).

## Not modelled

The memory, disk, network and uptime metrics, which are read and passed on; `docker login`,
which changes the CLI's own files; TLS and token handling, message formats and logging,
which no property here is about; `edge/tunnel.go`, `ParseComposePS` and
`ComposeClient.GetVersion`, which nothing calls. Messages of the server that do not decode, the sizes
of messages, memory limits, deadlines as durations, and the contents of messages are
abstracted, but for the replies of `PlainRequests`. Delays are integers without bound: a
configured number of seconds that an `int64` of nanoseconds cannot hold would wrap in
`time.Duration(n) * time.Second` (`client.go:119`), as `ReconnectBackoff` does not. `compose` has no operation with its
stack on stdin, with an explicit `ComposeFileName` or with no compose file at all: the
module has their branches, the instance leaves them out for size.

## Plan

Done: 1. `SessionPromise`, `ExecSessions` and its proofs; 2. `StreamSessions`;
3. `EdgeConnection`; 4. `ReconnectBackoff` and its proofs; 5. `AuthRateLimiter`;
6. `EventsFeed`; 7. `ExecRelay`; 8. `ComposeStacks`; 9. `StandardServer` over `ExecRelay`;
10. `HostMetrics`; 11. `ExecTerminal` over `ExecSessions`; 12. `PlainRequests`.

Next: `EdgeAgent`, which is `ExecSessions` and `StreamSessions` over `EdgeConnection`, to say
what the server, rather than `sendJSON`, receives across a reconnection.

Of the proofs, all that was planned is done: `ExecSessionsProofs` with the terminals,
`StreamSessionsProofs`, `EdgeConnectionProofs`, `EventsFeedProofs`, `StandardServerProofs`,
`AuthRateLimiterProofs`, `ComposeStacksProofs` and `ArithmeticProofs`. Worth adding: that a
terminal's messages leave the order of one session's output alone, and, with `EdgeAgent`,
that the promise survives a reconnection up to what is lost with the link.
