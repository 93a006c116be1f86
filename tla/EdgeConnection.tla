--------------------------- MODULE EdgeConnection ---------------------------
(***************************************************************************)
(* The life of an Edge agent's connection to Dockhand, and of the process: *)
(* Run, runWithReconnect, connect, sendHello, waitForWelcome, run, close   *)
(* and sendJSON of src/internal/edge/client.go, and main.                  *)
(*                                                                         *)
(* One goroutine, "loop" here, dials, greets, reads and reconnects.  Each  *)
(* run() starts background loops (heartbeat, metrics, events) told to end  *)
(* by that run's done channel, and a handler for each message it reads.    *)
(* All of them write with sendJSON, which holds c.mu during the write and  *)
(* writes to whatever connection c.conn is by then.                        *)
(*                                                                         *)
(* The stop channel has room for one signal and three receivers: main, the *)
(* goroutine of startHealthServer, and the loop goroutine, which polls it  *)
(* between steps and waits on it while it backs off.  Go hands a value to  *)
(* the receiver that has waited longest, if any waits, else buffers it.    *)
(*                                                                         *)
(* No write has a deadline: one to a peer that keeps its connection up and *)
(* takes nothing need not return, and nothing makes it (a "slow" peer).    *)
(***************************************************************************)
EXTENDS Naturals, Sequences, SequencesExt

CONSTANTS
    MaxConns,     \* bound: connections that can be dialled
    MaxSignals,   \* bound: SIGINT and SIGTERM signals sent to the process
    Loops,        \* the background loops one run() starts
    Handlers      \* bound: the message handlers one connection may start

ASSUME ConstantsAssumption ==
    /\ MaxConns \in Nat \ {0}
    /\ MaxSignals \in Nat
    /\ Loops \cap Handlers = {}

VARIABLES
    loop,        \* where the goroutine of runWithReconnect is
    n,           \* connections dialled so far: the last one is the loop's
    conn,        \* c.conn, 0 for nil
    sock,        \* the state of each connection
    first,       \* the first message written on each connection
    connected,   \* c.connected
    done,        \* the connections whose run() has closed its done channel
    task,        \* background loops and handlers, by connection
    mu,          \* c.mu: the task that writes, TheLoop, or Free
    buffered,    \* a signal sits in the stop channel
    recvq,       \* goroutines blocked on the stop channel, longest first
    main,        \* where main is
    health,      \* where the stop goroutine of startHealthServer is
    signals,     \* signals sent to the process
    heard        \* signals sent since main began to wait

linkVars == <<n, conn, sock, first>>
taskVars == <<task, mu>>
stopVars == <<buffered, recvq, main, health, signals, heard>>
vars == <<loop, linkVars, connected, done, taskVars, stopVars>>

Conns == 1 .. MaxConns
Tasks == Conns \X (Loops \cup Handlers)
Free == <<>>
TheLoop == <<0>>
Running == {"poll stop", "take conn", "read", "closing", "leaving"}  \* inside run()

Init ==
    /\ loop = "starting" /\ n = 0 /\ conn = 0
    /\ sock = [i \in Conns |-> "none"]
    /\ first = [i \in Conns |-> "none"]
    /\ connected = FALSE /\ done = {}
    /\ task = [t \in Tasks |-> "none"]
    /\ mu = Free
    /\ buffered = FALSE /\ recvq = <<>>
    /\ main = "starting" /\ health = "none"
    /\ signals = 0 /\ heard = 0

\* The process has ended, and every goroutine with it.
exited == main = "gone"

\* Connection i is up; a slow peer is one that need not take what it is sent.
Up(i) == sock[i] \in {"open", "slow"}

\* What the first write on connection i leaves in first.
Write(i, kind) == first' = IF first[i] = "none" THEN [first EXCEPT ![i] = kind] ELSE first

-----------------------------------------------------------------------------
(* Signals                                                                 *)

\* The runtime's non-blocking send of a signal: to the first waiter, else into
\* the buffer, else nowhere.
Signal ==
    /\ ~exited
    /\ signals < MaxSignals
    /\ signals' = signals + 1
    /\ heard' = IF main = "waiting" THEN heard + 1 ELSE heard
    /\ IF recvq = <<>>
       THEN buffered' = TRUE /\ UNCHANGED <<recvq, main, health, loop>>
       ELSE /\ recvq' = Tail(recvq)
            /\ main' = IF Head(recvq) = "main" THEN "stopping" ELSE main
            /\ health' = IF Head(recvq) = "health" THEN "stopping" ELSE health
            /\ loop' = IF Head(recvq) = "loop" THEN "returned" ELSE loop
            /\ UNCHANGED buffered
    /\ UNCHANGED <<linkVars, connected, done, taskVars>>

\* Slip: main waits for Run to return and for nothing else.
MainWaitsForRun ==
    /\ main = "starting"
    /\ main' = "waiting"
    /\ UNCHANGED <<loop, linkVars, connected, done, taskVars, buffered, recvq, health, signals, heard>>

\* main reaches its select.
MainSelects ==
    /\ main = "starting"
    /\ IF buffered
       THEN main' = "stopping" /\ buffered' = FALSE /\ UNCHANGED recvq
       ELSE main' = "waiting" /\ recvq' = Append(recvq, "main") /\ UNCHANGED buffered
    /\ UNCHANGED <<loop, linkVars, connected, done, taskVars, health, signals, heard>>

\* The goroutine of startHealthServer reaches its receive; after a signal it
\* shuts the health server down and nothing else.
HealthReceives ==
    /\ health = "starting"
    /\ IF buffered
       THEN health' = "stopping" /\ buffered' = FALSE /\ UNCHANGED recvq
       ELSE health' = "waiting" /\ recvq' = Append(recvq, "health") /\ UNCHANGED buffered
    /\ UNCHANGED <<loop, linkVars, connected, done, taskVars, main, signals, heard>>

\* main returns, on a signal of its own or when Run has returned: the process
\* ends and every goroutine with it.
MainReturns ==
    /\ main = "stopping" \/ (main = "waiting" /\ loop = "returned")
    /\ main' = "gone" /\ loop' = "gone" /\ health' = "gone"
    /\ task' = [t \in Tasks |-> "gone"] /\ mu' = Free
    /\ UNCHANGED <<linkVars, connected, done, buffered, recvq, signals, heard>>

\* A poll of the stop channel by the loop goroutine: it takes a buffered signal
\* and goes to "to", or finds none and goes to "otherwise".
Poll(to, otherwise) ==
    /\ loop' = IF buffered THEN to ELSE otherwise
    /\ buffered' = FALSE

-----------------------------------------------------------------------------
(* Run, runWithReconnect and connect                                       *)

\* Run returns with an error if Docker does not answer NewClient's ping.
RunFails ==
    /\ loop = "starting"
    /\ loop' = "returned"
    /\ UNCHANGED <<linkVars, connected, done, taskVars, stopVars>>

\* Run has Docker's version or none, and starts startHealthServer and the loop.
StartRun ==
    /\ loop = "starting"
    /\ health' = "starting"
    /\ loop' = "top"
    /\ UNCHANGED <<linkVars, connected, done, taskVars, buffered, recvq, main, signals, heard>>

TopOfLoop ==
    /\ loop = "top"
    /\ Poll("returned", "dial")
    /\ UNCHANGED <<linkVars, connected, done, taskVars, recvq, main, health, signals, heard>>

Dial ==
    /\ loop = "dial"
    /\ n < MaxConns
    /\ n' = n + 1
    /\ \E peer \in {"open", "slow"} : sock' = [sock EXCEPT ![n'] = peer]
    /\ loop' = "publish"
    /\ UNCHANGED <<conn, first, connected, done, taskVars, stopVars>>

DialFails ==
    /\ loop = "dial"
    /\ loop' = "check"
    /\ UNCHANGED <<linkVars, connected, done, taskVars, stopVars>>

\* Slip: the loops are started as soon as there is a connection.
PublishStartsLoops ==
    /\ loop = "publish"
    /\ mu = Free
    /\ conn' = n
    /\ task' = [t \in Tasks |-> IF t[1] = n /\ t[2] \in Loops THEN "idle" ELSE task[t]]
    /\ loop' = "hello"
    /\ UNCHANGED <<n, sock, first, connected, done, mu, stopVars>>

\* c.conn is set before the hello message is sent.
Publish ==
    /\ loop = "publish"
    /\ mu = Free
    /\ conn' = n
    /\ loop' = "hello"
    /\ UNCHANGED <<n, sock, first, connected, done, taskVars, stopVars>>

\* sendHello has asked Docker and docker compose for their versions; sendJSON
\* takes c.mu and starts to write.
SendHello ==
    /\ loop = "hello"
    /\ mu = Free
    /\ mu' = TheLoop
    /\ Write(n, "hello")
    /\ loop' = "greeting"
    /\ UNCHANGED <<n, conn, sock, connected, done, task, stopVars>>

EndHello ==
    /\ loop = "greeting"
    /\ mu' = Free
    /\ loop' = "welcome"
    /\ UNCHANGED <<linkVars, connected, done, task, stopVars>>

\* The write of hello fails, or no welcome comes in time, or something else
\* does: the connection is closed and c.conn left as it is.
ConnectFails ==
    /\ \/ loop = "greeting" /\ sock[n] = "lost" /\ mu' = Free
       \/ loop = "welcome" /\ UNCHANGED mu
    /\ sock' = [sock EXCEPT ![n] = "closed"]
    /\ loop' = "check"
    /\ UNCHANGED <<n, conn, first, connected, done, task, stopVars>>

ReceiveWelcome ==
    /\ loop = "welcome"
    /\ Up(n)
    /\ loop' = "begin"
    /\ UNCHANGED <<linkVars, connected, done, taskVars, stopVars>>

\* The stop check after connect or run, then the wait: the goroutine blocks on
\* the channel until the delay has passed.
CheckStop ==
    /\ loop = "check"
    /\ Poll("returned", "backoff")
    /\ recvq' = IF buffered THEN recvq ELSE Append(recvq, "loop")
    /\ UNCHANGED <<linkVars, connected, done, taskVars, main, health, signals, heard>>

\* Its timer fires: the goroutine leaves the channel's queue.
BackoffEnds ==
    /\ loop = "backoff"
    /\ \E k \in DOMAIN recvq : recvq[k] = "loop" /\ recvq' = RemoveAt(recvq, k)
    /\ loop' = "top"
    /\ UNCHANGED <<linkVars, connected, done, taskVars, buffered, main, health, signals, heard>>

-----------------------------------------------------------------------------
(* run and close                                                           *)

BeginRun ==
    /\ loop = "begin"
    /\ connected' = TRUE
    /\ task' = [t \in Tasks |-> IF t[1] = n /\ t[2] \in Loops THEN "idle" ELSE task[t]]
    /\ loop' = "poll stop"
    /\ UNCHANGED <<linkVars, done, mu, stopVars>>

\* The select at the top of the message loop; a signal closes done.
PollStop ==
    /\ loop = "poll stop"
    /\ Poll("closing", "take conn")
    /\ done' = IF buffered THEN done \cup {n} ELSE done
    /\ UNCHANGED <<linkVars, connected, taskVars, recvq, main, health, signals, heard>>

\* c.mu is needed to read c.conn; c.conn is not nil here.
TakeConn ==
    /\ loop = "take conn"
    /\ mu = Free
    /\ loop' = "read"
    /\ UNCHANGED <<linkVars, connected, done, taskVars, stopVars>>

\* A message arrives; if it is one that is answered, its handler starts.
ReadMessage ==
    /\ loop = "read"
    /\ Up(n)
    /\ \/ UNCHANGED task
       \/ \E h \in Handlers : task[<<n, h>>] = "none" /\ task' = [task EXCEPT ![<<n, h>>] = "sending"]
    /\ loop' = "poll stop"
    /\ UNCHANGED <<linkVars, connected, done, mu, stopVars>>

\* Slip: the loops are not told that the read failed.
ReadFailsSilently ==
    /\ loop = "read"
    /\ loop' = "leaving"
    /\ UNCHANGED <<linkVars, connected, done, taskVars, stopVars>>

\* Slip: a failed read is retried for ever.
ReadRetried ==
    /\ loop = "read"
    /\ loop' = "poll stop"
    /\ UNCHANGED <<linkVars, connected, done, taskVars, stopVars>>

\* The link is down or the read deadline has passed; the connection is not
\* closed and c.conn keeps it.
ReadFails ==
    /\ loop = "read"
    /\ done' = done \cup {n}
    /\ loop' = "leaving"
    /\ UNCHANGED <<linkVars, connected, taskVars, stopVars>>

\* close(): under c.mu, a close frame for which it has 3 s, the connection
\* closed, c.conn nil.
Close ==
    /\ loop = "closing"
    /\ mu = Free
    /\ sock' = [sock EXCEPT ![conn] = "closed"]
    /\ conn' = 0
    /\ loop' = "leaving"
    /\ UNCHANGED <<n, first, connected, done, taskVars, stopVars>>

\* The deferred setConnected(false).
LeaveRun ==
    /\ loop = "leaving"
    /\ connected' = FALSE
    /\ loop' = "check"
    /\ UNCHANGED <<linkVars, done, taskVars, stopVars>>

-----------------------------------------------------------------------------
(* Background loops and handlers                                           *)

\* Something to send: a tick, collected metrics, a Docker event.
Tick(t) ==
    /\ t[2] \in Loops /\ task[t] = "idle"
    /\ task' = [task EXCEPT ![t] = "sending"]
    /\ UNCHANGED <<loop, linkVars, connected, done, mu, stopVars>>

\* A sender's next state once sendJSON has returned, with or without an error.
Sent(t) == IF t[2] \in Loops THEN "idle" ELSE "ended"

\* sendJSON takes c.mu and starts to write on the connection of the moment.
StartWrite(t) ==
    /\ task[t] = "sending"
    /\ mu = Free
    /\ IF conn = 0
       THEN task' = [task EXCEPT ![t] = Sent(t)] /\ UNCHANGED <<mu, first>>
       ELSE task' = [task EXCEPT ![t] = "writing"] /\ mu' = t /\ Write(conn, "other")
    /\ UNCHANGED <<loop, n, conn, sock, connected, done, stopVars>>

\* Slip: c.mu is not released when the loop's write fails.
EndWriteLocked(t) ==
    /\ task[t] = "writing"
    /\ task' = [task EXCEPT ![t] = Sent(t)]
    /\ UNCHANGED <<mu, loop, linkVars, connected, done, stopVars>>

\* The write returns: when the peer has taken it, or the connection is lost or
\* closed.  There is no write deadline.
EndWrite(t) ==
    /\ task[t] = "writing"
    /\ task' = [task EXCEPT ![t] = Sent(t)]
    /\ mu' = Free
    /\ UNCHANGED <<loop, linkVars, connected, done, stopVars>>

\* A background loop selects done.
LoopEnds(t) ==
    /\ t[2] \in Loops /\ task[t] = "idle"
    /\ t[1] \in done
    /\ task' = [task EXCEPT ![t] = "ended"]
    /\ UNCHANGED <<loop, linkVars, connected, done, mu, stopVars>>

\* The network or the server drops a connection.
Lose(i) ==
    /\ ~exited
    /\ Up(i)
    /\ sock' = [sock EXCEPT ![i] = "lost"]
    /\ UNCHANGED <<loop, n, conn, first, connected, done, taskVars, stopVars>>

-----------------------------------------------------------------------------
\* The steps of the loop goroutine that no lock, peer or timer decides.
LoopRuns ==
    \/ RunFails \/ StartRun
    \/ TopOfLoop \/ CheckStop \/ BackoffEnds \/ BeginRun \/ PollStop \/ LeaveRun
    \/ Dial \/ DialFails \/ ReceiveWelcome
    \/ (loop = "welcome" /\ ConnectFails)

\* Its steps that need c.mu.
LoopLocks == Publish \/ TakeConn \/ Close

\* The write of hello returns, with or without an error.
HelloWritten == EndHello \/ (loop = "greeting" /\ ConnectFails)

Next ==
    \/ Signal \/ MainSelects \/ HealthReceives \/ MainReturns
    \/ LoopRuns \/ LoopLocks \/ SendHello \/ HelloWritten \/ ReadMessage \/ ReadFails
    \/ \E t \in Tasks : Tick(t) \/ StartWrite(t) \/ EndWrite(t) \/ LoopEnds(t)
    \/ \E i \in Conns : Lose(i)

\* Dial, welcome and read have time limits (10 s, WelcomeTimeout, the read
\* deadline) and the back-off a timer, so those steps happen; a lost link fails
\* the read even if nothing is sent.  A goroutine that wants c.mu gets it if it
\* is free again and again (Go's mutex hands over to a waiter that starves),
\* and a select with done closed takes it sooner or later; what a loop does
\* between its sends (Docker calls with 30 s, reads of /proc, statfs) is taken
\* to end.  A write ends if its peer takes what it is sent, or its connection
\* is lost or closed: nothing is said of a write to a slow peer.  Nor of
\* SendHello: the docker compose version it waits for has no time limit.
Fairness ==
    /\ WF_vars(MainSelects \/ MainReturns)
    /\ WF_vars(HealthReceives)
    /\ WF_vars(LoopRuns)
    /\ SF_vars(LoopLocks)
    /\ WF_vars(loop = "greeting" /\ sock[n] # "slow" /\ HelloWritten)
    /\ WF_vars(loop = "read" /\ sock[n] = "lost" /\ ReadFails)
    /\ \A t \in Tasks : /\ SF_vars(StartWrite(t))
                        /\ WF_vars(task[t] = "writing" /\ sock[conn] # "slow" /\ EndWrite(t))
                        /\ SF_vars(LoopEnds(t))

Safe == Init /\ [][Next]_vars

Spec == Safe /\ Fairness

-----------------------------------------------------------------------------
(* What holds.                                                             *)

\* Background loops of one connection never work beside those of the next
\* without having been told to end: those not told belong to the run() that is
\* serving now.
OthersToldToEnd ==
    \A t \in Tasks : t[2] \in Loops /\ task[t] \notin {"none", "ended", "gone"} /\ t[1] \notin done
        => t[1] = n /\ loop \in Running \ {"closing", "leaving"}

\* protocol/messages.go:48 "HelloMessage is sent by agent on connect": connect
\* publishes c.conn before it sends hello, and only a sender that an earlier
\* connection left behind can come first; never one on the first connection.
OnlyLeftoversPrecedeHello ==
    \A i \in Conns : first[i] = "other" => \E t \in Tasks : t[1] < i /\ task[t] # "none"

\* A signal that a goroutine other than main takes can delay the end of the
\* process by one signal at most: once main waits, the second one ends it.
SecondSignalStops == heard >= 2 => main \in {"stopping", "gone"} \/ loop = "returned"

\* The loss of the connection is noticed: the health endpoint stops reporting
\* connected, whatever the senders that hold c.mu do.
LossIsNoticed == (connected /\ sock[n] = "lost") ~> (~connected \/ exited)

\* Some goroutine holds c.mu in a write to a peer that need not take it.
WriteBlocked ==
    \/ \E t \in Tasks : task[t] = "writing" /\ sock[conn] = "slow"
    \/ loop = "greeting" /\ sock[n] = "slow"

\* A run that is over gives way: its loops, told to end, do end, even those
\* waiting for c.mu or writing, on an old connection or a new one; and connect
\* gets c.mu to go on with the connection it has dialled.  One thing alone can
\* prevent it: a write to a peer that takes nothing, which holds c.mu from some
\* moment on, since run() does not close the connection it gives up.
OldRunGivesWay ==
    \/ /\ \A t \in Tasks : (t[2] \in Loops /\ t[1] \in done) ~> (task[t] = "ended" \/ exited)
       /\ loop = "publish" ~> loop # "publish"
    \/ <>[]WriteBlocked

-----------------------------------------------------------------------------
(* What the documents say and the code does not do.                        *)

\* README.md:556, client.go:1116: a connection that is up when the process ends
\* has been closed by close(), with its close frame.
ExitIsClean == exited => \A i \in Conns : ~(Up(i) /\ conn = i /\ connected)

=============================================================================
