--------------------------- MODULE SessionPromise ---------------------------
(***************************************************************************)
(* What a client of the agent may rely on for one interactive session,     *)
(* whichever kind it is (an exec terminal, a streamed Docker response):    *)
(* the agent answers a request either with one refusal, or with a greeting *)
(* (which may be empty), any amount of payload and one farewell, in that   *)
(* order and with nothing after it; and it does not leave a request        *)
(* undecided.                                                              *)
(*                                                                         *)
(* This is the abstract specification that ExecSessions and StreamSessions *)
(* implement.  It says nothing of tables, limits, goroutines or Docker.    *)
(***************************************************************************)
EXTENDS Sequences

CONSTANTS
    Sessions,   \* one element per request to open a session
    Greeting,   \* messages sent when a session opens
    Payload,    \* kinds of message an open session may send
    Refusal,    \* the message that refuses a request
    Farewell    \* the message that ends an open session

VARIABLES
    phase,      \* what the agent has decided about each request
    heard       \* messages the agent has sent for each session, in order

vars == <<phase, heard>>

TypeOK ==
    /\ phase \in [Sessions -> {"idle", "pending", "refused", "open", "ended"}]
    /\ heard \in [Sessions -> Seq({Refusal, Farewell} \cup Payload
                                    \cup {Greeting[i] : i \in DOMAIN Greeting})]

Init ==
    /\ phase = [s \in Sessions |-> "idle"]
    /\ heard = [s \in Sessions |-> <<>>]

Move(s, from, to, messages) ==
    /\ phase[s] = from
    /\ phase' = [phase EXCEPT ![s] = to]
    /\ heard' = [heard EXCEPT ![s] = @ \o messages]

Ask(s)    == Move(s, "idle", "pending", <<>>)
Refuse(s) == Move(s, "pending", "refused", <<Refusal>>)
Open(s)   == Move(s, "pending", "open", Greeting)
Emit(s)   == \E m \in Payload : Move(s, "open", "open", <<m>>)
End(s)    == Move(s, "open", "ended", <<Farewell>>)

Step(s) == Ask(s) \/ Refuse(s) \/ Open(s) \/ Emit(s) \/ End(s)

Next == \E s \in Sessions : Step(s)

Decide(s) == Refuse(s) \/ Open(s)

Safe == Init /\ [][Next]_vars

Spec == Safe /\ \A s \in Sessions : WF_vars(Decide(s))
=============================================================================
