---------------------------- MODULE ExecSessions ----------------------------
(***************************************************************************)
(* The exec sessions of the Edge client: src/internal/edge/client.go.      *)
(*                                                                         *)
(* Every exec_start message runs handleExecStart on a goroutine of its own *)
(* and, once the session is stored, readExecOutput on another; the two run *)
(* one after the other, so one program counter per start follows both.     *)
(* Every exec_end message runs handleExecEnd on a goroutine of its own,    *)
(* and close() runs on the goroutine of run().  They share the map         *)
(* c.execSessions (guarded by execSessionsMu: every access is one step)    *)
(* and the hijacked Docker connection of each session.                     *)
(*                                                                         *)
(* No caller here looks at the error sendJSON returns, so what a session   *)
(* does is independent of the link: sent[s] is the sequence of messages    *)
(* handed to sendJSON for s, whatever becomes of them.                     *)
(***************************************************************************)
EXTENDS Naturals, Sequences, FiniteSets

CONSTANTS
    Starts,            \* exec_start messages the server may send
    ExecIds,           \* execId values they may carry
    IdOf,              \* the execId of each start
    NoSession,         \* table value of an execId that has no session
    MaxExecSessions,   \* maxExecSessions
    MaxParallel,       \* bound: starts between their receipt and their store
    MaxOutput          \* bound: output messages of one session

ASSUME ConstantsAssumption ==
    /\ IsFiniteSet(Starts) /\ IsFiniteSet(ExecIds)
    /\ IdOf \in [Starts -> ExecIds]
    /\ NoSession \notin Starts
    /\ MaxExecSessions \in Nat \ {0}
    /\ MaxParallel \in Nat \ {0}
    /\ MaxOutput \in Nat

VARIABLES
    pc,       \* where handleExecStart, then readExecOutput, of each start is
    table,    \* c.execSessions
    conn,     \* the hijacked Docker connection of each start
    exited,   \* the starts whose process has ended in the container
    sent,     \* the messages handed to sendJSON for each start
    endMsg,   \* the server's exec_end message for each execId
    shut      \* close() has run

vars == <<pc, table, conn, exited, sent, endMsg, shut>>

Labels == {"unsent", "check", "create", "attach", "store", "ready", "resize",
           "leftover", "reading", "delete", "closeConn", "farewell", "over"}

Kinds == {"exec_ready", "exec_output", "exec_end", "error"}

TypeOK ==
    /\ pc \in [Starts -> Labels]
    /\ table \in [ExecIds -> Starts \cup {NoSession}]
    /\ conn \in [Starts -> {"none", "open", "closed"}]
    /\ exited \subseteq Starts
    /\ sent \in [Starts -> Seq(Kinds)]
    /\ endMsg \in [ExecIds -> {"unsent", "pending", "handled"}]
    /\ shut \in BOOLEAN

Init ==
    /\ pc = [s \in Starts |-> "unsent"]
    /\ table = [x \in ExecIds |-> NoSession]
    /\ conn = [s \in Starts |-> "none"]
    /\ exited = {}
    /\ sent = [s \in Starts |-> <<>>]
    /\ endMsg = [x \in ExecIds |-> "unsent"]
    /\ shut = FALSE

At(s, label) == pc[s] = label
Goto(s, label) == pc' = [pc EXCEPT ![s] = label]
Send(s, kind) == sent' = [sent EXCEPT ![s] = Append(@, kind)]

Live == {x \in ExecIds : table[x] # NoSession}          \* len(c.execSessions)
Creating == {s \in Starts : pc[s] \in {"create", "attach", "store"}}
Checking == {s \in Starts : pc[s] = "check"}
Outputs(s) == Cardinality({i \in DOMAIN sent[s] : sent[s][i] = "exec_output"})

-----------------------------------------------------------------------------
(* The server and the container.                                           *)

\* run() reads an exec_start message and starts its goroutine.
ReceiveStart(s) ==
    /\ At(s, "unsent")
    /\ Cardinality(Checking \cup Creating) < MaxParallel
    /\ Goto(s, "check")
    /\ UNCHANGED <<table, conn, exited, sent, endMsg, shut>>

\* run() reads an exec_end message for an execId it has read a start for.
ReceiveEnd(x) ==
    /\ endMsg[x] = "unsent"
    /\ \E s \in Starts : IdOf[s] = x /\ ~At(s, "unsent")
    /\ endMsg' = [endMsg EXCEPT ![x] = "pending"]
    /\ UNCHANGED <<pc, table, conn, exited, sent, shut>>

\* The process of the exec instance ends: Docker closes its side.
ProcessExits(s) ==
    /\ conn[s] = "open"
    /\ s \notin exited
    /\ exited' = exited \cup {s}
    /\ UNCHANGED <<pc, table, conn, sent, endMsg, shut>>

-----------------------------------------------------------------------------
(* handleExecStart                                                         *)

RejectStart(s) ==
    /\ At(s, "check")
    /\ Cardinality(Live) >= MaxExecSessions
    /\ Send(s, "error")
    /\ Goto(s, "over")
    /\ UNCHANGED <<table, conn, exited, endMsg, shut>>

\* Slip: the limit is compared with > instead of >=.
AdmitStartOffByOne(s) ==
    /\ At(s, "check")
    /\ Cardinality(Live) <= MaxExecSessions
    /\ Goto(s, "create")
    /\ UNCHANGED <<table, conn, exited, sent, endMsg, shut>>

AdmitStart(s) ==
    /\ At(s, "check")
    /\ Cardinality(Live) < MaxExecSessions
    /\ Goto(s, "create")
    /\ UNCHANGED <<table, conn, exited, sent, endMsg, shut>>

\* CreateExec returns: the exec instance exists in Docker, nothing here.
CreateExec(s) ==
    /\ At(s, "create")
    /\ Goto(s, "attach")
    /\ UNCHANGED <<table, conn, exited, sent, endMsg, shut>>

\* StartExecAttach returns with the hijacked connection.
StartExecAttach(s) ==
    /\ At(s, "attach")
    /\ conn' = [conn EXCEPT ![s] = "open"]
    /\ Goto(s, "store")
    /\ UNCHANGED <<table, exited, sent, endMsg, shut>>

\* Either Docker call fails; StartExecAttach closes what it had dialled.
FailStart(s) ==
    /\ At(s, "create") \/ At(s, "attach")
    /\ Send(s, "error")
    /\ Goto(s, "over")
    /\ UNCHANGED <<table, conn, exited, endMsg, shut>>

\* Slip: the session is stored and exec_ready forgotten.
StoreSessionNotReady(s) ==
    /\ At(s, "store")
    /\ table' = [table EXCEPT ![IdOf[s]] = s]
    /\ Goto(s, "resize")
    /\ UNCHANGED <<conn, exited, sent, endMsg, shut>>

StoreSession(s) ==
    /\ At(s, "store")
    /\ table' = [table EXCEPT ![IdOf[s]] = s]
    /\ Goto(s, "ready")
    /\ UNCHANGED <<conn, exited, sent, endMsg, shut>>

SendReady(s) ==
    /\ At(s, "ready")
    /\ Send(s, "exec_ready")
    /\ Goto(s, "resize")
    /\ UNCHANGED <<table, conn, exited, endMsg, shut>>

\* The initial resize returns, whatever its result, and the reader starts.
StartReader(s) ==
    /\ At(s, "resize")
    /\ Goto(s, "leftover")
    /\ UNCHANGED <<table, conn, exited, sent, endMsg, shut>>

-----------------------------------------------------------------------------
(* readExecOutput                                                          *)

\* Bytes that came with the HTTP headers are sent even if the connection has
\* been closed since.
SendLeftover(s) ==
    /\ At(s, "leftover")
    /\ \/ Outputs(s) < MaxOutput /\ Send(s, "exec_output")
       \/ UNCHANGED sent
    /\ Goto(s, "reading")
    /\ UNCHANGED <<table, conn, exited, endMsg, shut>>

\* A Read returns bytes; what the process wrote before it ended is still read.
ReadOutput(s) ==
    /\ At(s, "reading")
    /\ conn[s] = "open"
    /\ Outputs(s) < MaxOutput
    /\ Send(s, "exec_output")
    /\ UNCHANGED <<pc, table, conn, exited, endMsg, shut>>

\* Slip: io.EOF does not leave the read loop.
ReadEndsNotAtEOF(s) ==
    /\ At(s, "reading")
    /\ conn[s] = "closed"
    /\ Goto(s, "delete")
    /\ UNCHANGED <<table, conn, exited, sent, endMsg, shut>>

\* A Read returns an error: end of stream, or a connection closed here.
ReadEnds(s) ==
    /\ At(s, "reading")
    /\ conn[s] = "closed" \/ s \in exited
    /\ Goto(s, "delete")
    /\ UNCHANGED <<table, conn, exited, sent, endMsg, shut>>

\* Slip: the deferred function does not close the connection.
DeleteSessionKeepConn(s) ==
    /\ At(s, "delete")
    /\ table' = [table EXCEPT ![IdOf[s]] = NoSession]
    /\ Goto(s, "farewell")
    /\ UNCHANGED <<conn, exited, sent, endMsg, shut>>

\* The deferred function deletes by execId, whichever session is there.
DeleteSession(s) ==
    /\ At(s, "delete")
    /\ table' = [table EXCEPT ![IdOf[s]] = NoSession]
    /\ Goto(s, "closeConn")
    /\ UNCHANGED <<conn, exited, sent, endMsg, shut>>

CloseConn(s) ==
    /\ At(s, "closeConn")
    /\ conn' = [conn EXCEPT ![s] = "closed"]
    /\ Goto(s, "farewell")
    /\ UNCHANGED <<table, exited, sent, endMsg, shut>>

SendEnd(s) ==
    /\ At(s, "farewell")
    /\ Send(s, "exec_end")
    /\ Goto(s, "over")
    /\ UNCHANGED <<table, conn, exited, endMsg, shut>>

-----------------------------------------------------------------------------
(* handleExecEnd and close, each under execSessionsMu                      *)

\* Slip: the session is forgotten, its connection left open.
HandleExecEndNoClose(x) ==
    /\ endMsg[x] = "pending"
    /\ endMsg' = [endMsg EXCEPT ![x] = "handled"]
    /\ table' = [table EXCEPT ![x] = NoSession]
    /\ UNCHANGED <<pc, conn, exited, sent, shut>>

\* Slip: the connection is closed, the session left to its reader to delete.
HandleExecEndNoDelete(x) ==
    /\ endMsg[x] = "pending"
    /\ endMsg' = [endMsg EXCEPT ![x] = "handled"]
    /\ conn' = IF x \in Live THEN [conn EXCEPT ![table[x]] = "closed"] ELSE conn
    /\ UNCHANGED <<pc, table, exited, sent, shut>>

\* Slip: the message ends every session.
HandleExecEndAll(x) ==
    /\ endMsg[x] = "pending"
    /\ endMsg' = [endMsg EXCEPT ![x] = "handled"]
    /\ table' = [y \in ExecIds |-> NoSession]
    /\ conn' = [s \in Starts |-> IF \E y \in ExecIds : table[y] = s
                                 THEN "closed" ELSE conn[s]]
    /\ UNCHANGED <<pc, exited, sent, shut>>

HandleExecEnd(x) ==
    /\ endMsg[x] = "pending"
    /\ endMsg' = [endMsg EXCEPT ![x] = "handled"]
    /\ IF x \in Live
       THEN /\ table' = [table EXCEPT ![x] = NoSession]
            /\ conn' = [conn EXCEPT ![table[x]] = "closed"]
       ELSE UNCHANGED <<table, conn>>
    /\ UNCHANGED <<pc, exited, sent, shut>>

\* The part of close() under execSessionsMu; a run() that has consumed the stop
\* signal may be followed by another connection, so sessions go on after it.
CloseClient ==
    /\ ~shut
    /\ shut' = TRUE
    /\ table' = [x \in ExecIds |-> NoSession]
    /\ conn' = [s \in Starts |-> IF \E x \in ExecIds : table[x] = s
                                 THEN "closed" ELSE conn[s]]
    /\ UNCHANGED <<pc, exited, sent, endMsg>>

-----------------------------------------------------------------------------
\* The steps of the goroutines of one start, except those that wait for Docker
\* to deliver output.
Goroutine(s) ==
    \/ RejectStart(s) \/ AdmitStart(s) \/ CreateExec(s) \/ StartExecAttach(s)
    \/ FailStart(s) \/ StoreSession(s) \/ SendReady(s) \/ StartReader(s)
    \/ SendLeftover(s) \/ ReadEnds(s) \/ DeleteSession(s) \/ CloseConn(s)
    \/ SendEnd(s)

Next ==
    \/ \E s \in Starts : ReceiveStart(s) \/ ProcessExits(s) \/ Goroutine(s) \/ ReadOutput(s)
    \/ \E x \in ExecIds : ReceiveEnd(x) \/ HandleExecEnd(x)
    \/ CloseClient

\* The Go scheduler runs every goroutine, and every Docker call a start makes
\* has a 30 second limit (httpClient.Timeout, the read deadline of the attach),
\* so a started handler goes on.  Nothing makes the server send, a process
\* exit or output arrive.
Fairness ==
    /\ \A s \in Starts : WF_vars(Goroutine(s))
    /\ \A x \in ExecIds : WF_vars(HandleExecEnd(x))

Safe == Init /\ [][Next]_vars

Spec == Safe /\ Fairness

-----------------------------------------------------------------------------
(* What holds of the sessions.                                             *)

\* No other start has the execId of s.
OwnId(s) == \A t \in Starts : IdOf[t] = IdOf[s] => t = s

Stored == {"ready", "resize", "leftover", "reading"}

\* When the server uses an execId for one start (protocol/messages.go:308 calls
\* it unique), that session is in the table from its store to the end of its
\* read loop, as long as its connection is open: exec_end, close() and input can
\* reach it.  handleExecEnd, close() and the deferred delete all race with it.
NoOrphan ==
    \A s \in Starts :
        OwnId(s) /\ pc[s] \in Stored /\ conn[s] = "open" => table[IdOf[s]] = s

\* A lookup in the table never finds a connection this agent has closed, even
\* when execIds are reused and one session's delete hits another's entry.
TableEntriesOpen ==
    \A x \in Live : conn[table[x]] = "open"

\* What the count in handleExecStart guarantees: it is read before two Docker
\* calls and the store, so the table may exceed maxExecSessions by as many
\* starts as were in creation together, less one (client.go:910 "limit reached"
\* notwithstanding); no more, and not at all when the server waits for each
\* start's answer (MaxParallel = 1).
LimitBound ==
    Cardinality(Live) + Cardinality(Creating) <= MaxExecSessions - 1 + MaxParallel

\* Once a session's exec_end has been sent it holds nothing: its connection is
\* closed and no entry of the table leads to it.
EndedHoldsNothing ==
    \A s \in Starts : At(s, "over") =>
        conn[s] # "open" /\ \A x \in ExecIds : table[x] # s

\* A connection is closed only for a reason of its own: its process ended, an
\* exec_end for its execId was handled, or the client was closed.
ClosedForCause ==
    [][\A s \in Starts : conn[s] = "open" /\ conn'[s] = "closed" =>
        s \in exited \/ endMsg'[IdOf[s]] = "handled" \/ shut']_vars

\* An exec_end that arrives once exec_ready has been sent ends the session, if no
\* other has its execId.
EndAfterReadyHonoured ==
    \A s \in Starts : OwnId(s) =>
        (endMsg[IdOf[s]] = "pending" /\ sent[s] # <<>>) ~> At(s, "over")

\* A process that ends, or a connection closed under the reader, is always
\* reported: the session's last message is then exec_end.
EndIsReported ==
    \A s \in Starts : (s \in exited \/ conn[s] = "closed")
        ~> (sent[s] # <<>> /\ sent[s][Len(sent[s])] = "exec_end")

-----------------------------------------------------------------------------
(* The sessions keep the promise of SessionPromise.                        *)

Phase == [s \in Starts |->
    CASE At(s, "unsent") -> "idle"
      [] pc[s] \in {"check", "create", "attach", "store", "ready"} -> "pending"
      [] At(s, "over") -> IF sent[s] = <<"error">> THEN "refused" ELSE "ended"
      [] OTHER -> "open"]

Promise == INSTANCE SessionPromise WITH
    Sessions <- Starts, Greeting <- <<"exec_ready">>, Payload <- {"exec_output"},
    Refusal <- "error", Farewell <- "exec_end", phase <- Phase, heard <- sent

\* What the server hears of a start is one error, or exec_ready, output and one
\* exec_end, in that order; and every start is answered.
KeepsPromise == Promise!Spec

-----------------------------------------------------------------------------
(* What the source says and the code does not do.                          *)

\* protocol/messages.go:361 "ExecEndMessage ends an exec session".
ExecEndEndsSession ==
    \A s \in Starts : endMsg[IdOf[s]] = "handled" ~> At(s, "over")
=============================================================================
