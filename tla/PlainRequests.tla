--------------------------- MODULE PlainRequests ---------------------------
(***************************************************************************)
(* A plain Docker request of Edge mode and the message that answers it:    *)
(* handleRequest without streaming (src/internal/edge/client.go),          *)
(* NewResponseMessage (src/internal/protocol/messages.go) and the encoding *)
(* that sendJSON does.  Requests share nothing, so this is one request.    *)
(*                                                                         *)
(* A byte is what the two checks tell apart: "plain" text; a "control"     *)
(* byte; and the two bytes of a character beyond ASCII, which stand for    *)
(* those of any such character.                                            *)
(***************************************************************************)
EXTENDS Integers, Sequences

CONSTANTS
    MaxResponseBody,    \* maxResponseBodySize, 100 MB in the code
    Bodies              \* what Docker may answer

Bytes == {"plain", "control", "lead", "continuation"}

ASSUME PlainConstantsAssumption ==
    /\ MaxResponseBody \in Nat
    /\ Bodies \subseteq Seq(Bytes)

VARIABLES
    stage,     \* of the handler: "received", "reading", "answered"
    body,      \* Docker's answer
    marked,    \* its content type is one of the four binary ones
    taken,     \* bytes read of it
    answer     \* the message as it is written to the connection

plainVars == <<stage, body, marked, taken, answer>>

NoAnswer == [type |-> "none"]
Error(code) == [type |-> "error", code |-> code]

PlainInit ==
    /\ stage = "received"
    /\ body = <<>> /\ marked = FALSE /\ taken = 0
    /\ answer = NoAnswer

\* A body that is marked as base64 and is not.
RejectBody ==
    /\ stage = "received"
    /\ stage' = "answered" /\ answer' = Error("DECODE_ERROR")
    /\ UNCHANGED <<body, marked, taken>>

AskFails ==
    /\ stage = "received"
    /\ stage' = "answered" /\ answer' = Error("DOCKER_ERROR")
    /\ UNCHANGED <<body, marked, taken>>

AskDocker ==
    /\ stage = "received"
    /\ body' \in Bodies
    /\ marked' \in BOOLEAN
    /\ stage' = "reading"
    /\ UNCHANGED <<taken, answer>>

ReadByte ==
    /\ stage = "reading"
    /\ taken < MaxResponseBody /\ taken < Len(body)
    /\ taken' = taken + 1
    /\ UNCHANGED <<stage, body, marked, answer>>

\* Docker or the request's time ends the body before its end has been read; the
\* limit is an end of its own, at which nothing more is asked of Docker.
ReadFails ==
    /\ stage = "reading"
    /\ taken < MaxResponseBody
    /\ stage' = "answered" /\ answer' = Error("READ_ERROR")
    /\ UNCHANGED <<body, marked, taken>>

\* Bytes below 0x20 that are no white space, and 0x7F.  A byte from 0x80 on
\* passes, whether it belongs to a character or not.
Unprintable(b) == \E i \in DOMAIN b : b[i] = "control"

\* Slip: nobody looks at the bytes.
IsBinaryByType(b) == b # <<>> /\ marked

IsBinary(b) == b # <<>> /\ (marked \/ Unprintable(b))

\* base64: digits that stand for any bytes.
EncodeToString(b) == [digitsOf |-> b]

InCharacter(b, i) ==
    \/ b[i] \in {"plain", "control"}
    \/ b[i] = "lead" /\ i < Len(b) /\ b[i + 1] = "continuation"
    \/ b[i] = "continuation" /\ i > 1 /\ b[i - 1] = "lead"

WellFormed(b) == \A i \in DOMAIN b : InCharacter(b, i)

\* JSON has U+FFFD for each byte of a string that is in no character.
Marshal(b) == [i \in DOMAIN b |-> IF InCharacter(b, i) THEN b[i] ELSE "fffd"]

NewResponseMessage(b) ==
    [type |-> "response", isBinary |-> IsBinary(b),
     body |-> IF IsBinary(b) THEN EncodeToString(b) ELSE Marshal(b)]

Respond ==
    /\ stage = "reading"
    /\ taken = Len(body) \/ taken = MaxResponseBody
    /\ stage' = "answered"
    /\ answer' = NewResponseMessage(SubSeq(body, 1, taken))
    /\ UNCHANGED <<body, marked, taken>>

PlainNext == RejectBody \/ AskFails \/ AskDocker \/ ReadByte \/ ReadFails \/ Respond

PlainSpec == PlainInit /\ [][PlainNext]_plainVars

-----------------------------------------------------------------------------
\* What the server makes of a response.
Decoded(message) == IF message.isBinary THEN message.body.digitsOf ELSE message.body

\* messages.go:108 "body is sent as-is": a response brings the server exactly
\* Docker's bytes if and only if they are not cut at the limit and are either
\* sent as base64 or well-formed UTF-8.  The two checks look at what has been
\* read, and pass bytes beyond ASCII whether they make characters or not; an
\* answer that breaks off within the limit never passes for a whole one.
ResponseFaithful ==
    answer.type = "response" =>
        (Decoded(answer) = body <=>
            /\ Len(body) <= MaxResponseBody
            /\ marked \/ Unprintable(body) \/ WellFormed(body))
=============================================================================
