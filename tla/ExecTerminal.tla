---------------------------- MODULE ExecTerminal ----------------------------
(***************************************************************************)
(* The terminal of an exec session: handleExecInput and handleExecResize   *)
(* of src/internal/edge/client.go beside the sessions of ExecSessions.     *)
(* Every message has a goroutine of its own, so two of them overtake each  *)
(* other freely.  A goroutine looks its execId up in c.execSessions, a few *)
(* times if it is not there, and uses the session after it has released    *)
(* the lock: input on the hijacked connection, a resize as a call to       *)
(* Docker, which knows nothing of that connection.                         *)
(***************************************************************************)
EXTENDS ExecSessions

CONSTANTS
    Inputs, Resizes,   \* exec_input and exec_resize messages
    TargetOf,          \* the execId of each
    MaxLookups         \* 10 in the code

Messages == Inputs \cup Resizes

ASSUME TerminalConstantsAssumption ==
    /\ Inputs \cap Resizes = {}
    /\ TargetOf \in [Messages -> ExecIds]
    /\ MaxLookups \in Nat \ {0}

VARIABLES
    handler,    \* where the goroutine of each message is
    lookups,    \* lookups it has made in vain
    session,    \* the session it has found, or NoSession
    typed,      \* the inputs written to each session's connection
    size,       \* the terminal's size: "default", "initial" or a resize message
    promised    \* history: messages read when their session was ready for them

terminalVars == <<handler, lookups, session, typed, size, promised>>

TerminalInit ==
    /\ Init
    /\ handler = [m \in Messages |-> "unsent"]
    /\ lookups = [m \in Messages |-> 0]
    /\ session = [m \in Messages |-> NoSession]
    /\ typed = [s \in Starts |-> {}]
    /\ size = [s \in Starts |-> "default"]
    /\ promised = {}

-----------------------------------------------------------------------------
\* The server has heard exec_ready from s; for a resize, also the initial
\* resize is over, of which it hears nothing.
ReadyFor(s, m) ==
    /\ OwnId(s) /\ IdOf[s] = TargetOf[m]
    /\ pc[s] \in Stored \ (IF m \in Resizes THEN {"ready", "resize"} ELSE {"ready"})

ReceiveMessage(m) ==
    /\ handler[m] = "unsent"
    /\ \E s \in Starts : IdOf[s] = TargetOf[m] /\ ~At(s, "unsent")
    /\ handler' = [handler EXCEPT ![m] = "lookup"]
    /\ promised' = promised \cup {n \in {m} : \E s \in Starts : ReadyFor(s, n)}
    /\ UNCHANGED <<vars, lookups, session, typed, size>>

\* One lookup under the read lock; between two the goroutine sleeps 50 ms.
Lookup(m) ==
    /\ handler[m] = "lookup"
    /\ session' = [session EXCEPT ![m] = table[TargetOf[m]]]
    /\ IF TargetOf[m] \in Live
       THEN handler' = [handler EXCEPT ![m] = "use"] /\ UNCHANGED lookups
       ELSE /\ lookups' = [lookups EXCEPT ![m] = @ + 1]
            /\ handler' = [handler EXCEPT ![m] = IF lookups'[m] < MaxLookups THEN @ ELSE "lost"]
    /\ UNCHANGED <<vars, typed, size, promised>>

\* Write fails on a connection that either side has closed.
WriteInput(m) ==
    /\ m \in Inputs /\ handler[m] = "use"
    /\ LET s == session[m]
       IN \/ /\ conn[s] = "open"
             /\ typed' = [typed EXCEPT ![s] = @ \cup {m}]
             /\ handler' = [handler EXCEPT ![m] = "done"]
          \/ /\ conn[s] = "closed" \/ s \in exited
             /\ handler' = [handler EXCEPT ![m] = "lost"]
             /\ UNCHANGED typed
    /\ UNCHANGED <<vars, lookups, session, size, promised>>

\* ResizeExec succeeds while the process runs; any call to Docker may fail.
Resize(m) ==
    /\ m \in Resizes /\ handler[m] = "use"
    /\ \/ /\ session[m] \notin exited
          /\ size' = [size EXCEPT ![session[m]] = m]
          /\ handler' = [handler EXCEPT ![m] = "done"]
       \/ handler' = [handler EXCEPT ![m] = "refused"] /\ UNCHANGED size
    /\ UNCHANGED <<vars, lookups, session, typed, promised>>

\* Slip: the initial resize runs on a goroutine of its own.
InitialSizeBeside ==
    \E applied \in SUBSET {s \in Starts : At(s, "reading") /\ s \notin exited} :
        size' = [s \in Starts |-> IF s \in applied THEN "initial" ELSE size[s]]

\* The initial resize, for a start that gives a size, before its reader starts.
InitialSize ==
    \E applied \in SUBSET {s \in Starts : At(s, "resize") /\ pc'[s] # pc[s]} :
        size' = [s \in Starts |-> IF s \in applied THEN "initial" ELSE size[s]]

TerminalNext ==
    \/ Next /\ InitialSize /\ UNCHANGED <<handler, lookups, session, typed, promised>>
    \/ \E m \in Messages : ReceiveMessage(m) \/ Lookup(m) \/ WriteInput(m) \/ Resize(m)

TerminalSpec == TerminalInit /\ [][TerminalNext]_<<vars, terminalVars>> /\ Fairness

-----------------------------------------------------------------------------
\* client.go:947 "Store session FIRST so resize/input messages don't fail": what
\* the server asks for after exec_ready reaches that session, or is lost
\* because the session's connection has been closed at one end.  A size asked for
\* once the initial resize is over stays: the initial one, which follows
\* exec_ready, does not come back over it.
TerminalObeys ==
    \A m \in promised : \A s \in {t \in Starts : IdOf[t] = TargetOf[m]} :
        /\ handler[m] = "lost" => conn[s] = "closed" \/ s \in exited
        /\ handler[m] = "done" =>
              IF m \in Inputs THEN m \in typed[s] ELSE size[s] \in Resizes
=============================================================================
