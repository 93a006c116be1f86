----------------------------- MODULE EventsFeed -----------------------------
(***************************************************************************)
(* The feed of Docker's container events in Edge mode: eventsLoop and      *)
(* streamEvents (src/internal/edge/client.go:716-871) of one run().        *)
(*                                                                         *)
(* The loop opens a stream on a Unix socket of its own, passes on what it  *)
(* decodes, and opens another after a delay when it ends.  Each stream has *)
(* a watcher, a goroutine that waits for run()'s done channel to close the *)
(* socket: a read that waits for an event can see done in no other way.    *)
(***************************************************************************)
EXTENDS Naturals, Sequences, SequencesExt

CONSTANTS
    MaxEvents,     \* bound: events Docker reports
    MaxStreams     \* bound: streams opened

ASSUME ConstantsAssumption == MaxEvents \in Nat /\ MaxStreams \in Nat \ {0}

VARIABLES
    loop,        \* where eventsLoop, or the streamEvents it calls, is
    stream,      \* streams opened so far: the last one is the loop's
    socket,      \* our end of each stream's socket
    watcher,     \* the watcher of each stream
    ended,       \* the streams Docker has ended
    pending,     \* events of the loop's stream that are still to be decoded
    event,       \* the event decoded last
    delay,       \* reconnectDelay, in seconds
    done,        \* run() has closed done
    emitted,     \* events Docker has reported so far, on a stream or not
    wanted,      \* those the filter lets pass
    start,       \* the events reported when the loop's stream began
    sent,        \* the events handed to sendJSON
    late         \* how many of them after done was closed

streamVars == <<stream, socket, watcher>>
dockerVars == <<ended, emitted, wanted>>
vars == <<loop, streamVars, pending, event, delay, done, dockerVars, start, sent, late>>

Streams == 1 .. MaxStreams
Reading == {"poll", "decode", "filter"}

Init ==
    /\ loop = "top" /\ stream = 0
    /\ socket = [k \in Streams |-> "none"]
    /\ watcher = [k \in Streams |-> "none"]
    /\ ended = {} /\ pending = <<>> /\ event = 0
    /\ delay = 5 /\ done = FALSE
    /\ emitted = 0 /\ wanted = {} /\ start = 0
    /\ sent = <<>> /\ late = 0

-----------------------------------------------------------------------------
(* Docker and run()                                                        *)

Emit ==
    /\ emitted < MaxEvents
    /\ emitted' = emitted + 1
    /\ wanted' \in {wanted, wanted \cup {emitted'}}
    /\ pending' = IF loop \in Reading /\ stream \notin ended
                  THEN Append(pending, emitted') ELSE pending
    /\ UNCHANGED <<loop, streamVars, event, delay, done, ended, start, sent, late>>

\* Docker restarts, or ends the response.
EndStream ==
    /\ loop \in Reading
    /\ ended' = ended \cup {stream}
    /\ UNCHANGED <<loop, streamVars, pending, event, delay, done, emitted, wanted, start, sent, late>>

CloseDone ==
    /\ ~done
    /\ done' = TRUE
    /\ UNCHANGED <<loop, streamVars, pending, event, delay, dockerVars, start, sent, late>>

-----------------------------------------------------------------------------
(* eventsLoop                                                              *)

Top ==
    /\ loop = "top"
    /\ loop' = IF done THEN "over" ELSE "dial"
    /\ UNCHANGED <<streamVars, pending, event, delay, done, dockerVars, start, sent, late>>

BackoffEnds ==
    /\ loop = "backoff"
    /\ delay' = IF 2 * delay > 60 THEN 60 ELSE 2 * delay
    /\ loop' = "top"
    /\ UNCHANGED <<streamVars, pending, event, done, dockerVars, start, sent, late>>

StopInBackoff ==
    /\ loop = "backoff"
    /\ done
    /\ loop' = "over"
    /\ UNCHANGED <<streamVars, pending, event, delay, done, dockerVars, start, sent, late>>

-----------------------------------------------------------------------------
(* streamEvents                                                            *)

\* The socket is open and its watcher runs.
Dial ==
    /\ loop = "dial"
    /\ stream < MaxStreams
    /\ stream' = stream + 1
    /\ socket' = [socket EXCEPT ![stream'] = "open"]
    /\ watcher' = [watcher EXCEPT ![stream'] = "waiting"]
    /\ loop' = "ask"
    /\ UNCHANGED <<pending, event, delay, done, dockerVars, start, sent, late>>

DialFails ==
    /\ loop = "dial"
    /\ loop' = "backoff"
    /\ UNCHANGED <<streamVars, pending, event, delay, done, dockerVars, start, sent, late>>

\* Slip: Docker is asked for the events since the last stream, whose last one
\* is then reported again.
SubscribeAgain ==
    /\ loop = "ask"
    /\ socket[stream] = "open"
    /\ pending' = IF sent = <<>> THEN <<>> ELSE <<Last(sent)>>
    /\ start' = emitted
    /\ loop' = "poll"
    /\ UNCHANGED <<streamVars, event, delay, done, dockerVars, sent, late>>

\* Docker answers 200 and reports events from now on.
Subscribe ==
    /\ loop = "ask"
    /\ socket[stream] = "open"
    /\ pending' = <<>>
    /\ start' = emitted
    /\ loop' = "poll"
    /\ UNCHANGED <<streamVars, event, delay, done, dockerVars, sent, late>>

\* A write or a read fails, or Docker answers anything else.
AskFails ==
    /\ loop = "ask"
    /\ loop' = "return"
    /\ UNCHANGED <<streamVars, pending, event, delay, done, dockerVars, start, sent, late>>

\* Slip: done is not looked at between events.
PollNothing ==
    /\ loop = "poll"
    /\ loop' = "decode"
    /\ UNCHANGED <<streamVars, pending, event, delay, done, dockerVars, start, sent, late>>

Poll ==
    /\ loop = "poll"
    /\ loop' = IF done THEN "return" ELSE "decode"
    /\ UNCHANGED <<streamVars, pending, event, delay, done, dockerVars, start, sent, late>>

\* The next event, which the decoder may hold although the socket is closed.
Decode ==
    /\ loop = "decode"
    /\ pending # <<>>
    /\ event' = Head(pending)
    /\ pending' = Tail(pending)
    /\ loop' = "filter"
    /\ UNCHANGED <<streamVars, delay, done, dockerVars, start, sent, late>>

\* The end of what Docker sent, an event that does not parse, or a socket closed
\* here: the stream is given up with what it still holds.
DecodeFails ==
    /\ loop = "decode"
    /\ pending # <<>> \/ stream \in ended \/ socket[stream] = "closed"
    /\ loop' = "return"
    /\ UNCHANGED <<streamVars, pending, event, delay, done, dockerVars, start, sent, late>>

\* The filter's verdict: a container event with a listed action, of a container
\* that is neither a scanner nor Dockhand's own.
Passes(e) == e \in wanted

\* Slip: an event the filter rejects takes the next one with it.
FilterSkipsNext ==
    /\ loop = "filter"
    /\ IF Passes(event)
       THEN sent' = Append(sent, event) /\ late' = (IF done THEN late + 1 ELSE late)
            /\ UNCHANGED pending
       ELSE pending' = (IF pending = <<>> THEN <<>> ELSE Tail(pending)) /\ UNCHANGED <<sent, late>>
    /\ loop' = "poll"
    /\ UNCHANGED <<streamVars, event, delay, done, dockerVars, start>>

Filter ==
    /\ loop = "filter"
    /\ IF Passes(event)
       THEN sent' = Append(sent, event) /\ late' = (IF done THEN late + 1 ELSE late)
       ELSE UNCHANGED <<sent, late>>
    /\ loop' = "poll"
    /\ UNCHANGED <<streamVars, pending, event, delay, done, dockerVars, start>>

\* The deferred Close; then, in eventsLoop, the delay is reset if the stream
\* has lasted thirty seconds.
Return ==
    /\ loop = "return"
    /\ socket' = [socket EXCEPT ![stream] = "closed"]
    /\ pending' = <<>>
    /\ delay' \in {delay, 5}
    /\ loop' = "backoff"
    /\ UNCHANGED <<stream, watcher, event, done, dockerVars, start, sent, late>>

\* Slip: the watcher leaves the socket to the loop.
WatchNoClose(k) ==
    /\ watcher[k] = "waiting" /\ done
    /\ watcher' = [watcher EXCEPT ![k] = "over"]
    /\ UNCHANGED <<loop, stream, socket, pending, event, delay, done, dockerVars, start, sent, late>>

Watch(k) ==
    /\ watcher[k] = "waiting" /\ done
    /\ watcher' = [watcher EXCEPT ![k] = "over"]
    /\ socket' = [socket EXCEPT ![k] = "closed"]
    /\ UNCHANGED <<loop, stream, pending, event, delay, done, dockerVars, start, sent, late>>

-----------------------------------------------------------------------------
Loop ==
    \/ Top \/ BackoffEnds \/ StopInBackoff \/ Dial \/ DialFails \/ AskFails \/ Poll
    \/ Decode \/ DecodeFails \/ Filter \/ Return

Next ==
    \/ Emit \/ EndStream \/ CloseDone \/ Subscribe \/ Loop
    \/ \E k \in Streams : Watch(k)

\* The scheduler runs the loop and the watchers, and timers expire.  Docker need
\* not answer, nor report or end anything: only a closed socket fails a request
\* for sure.
Fairness ==
    /\ WF_vars(Loop /\ (loop = "ask" => socket[stream] = "closed"))
    /\ \A k \in Streams : WF_vars(Watch(k))

Spec == Init /\ [][Next]_vars /\ Fairness

-----------------------------------------------------------------------------
\* done is looked at before each event is decoded and not after (client.go:804),
\* so a loop whose run is over sends one more event at most: no more than one
\* can reach the next connection, where the next run's loop reports it as well.
AtMostOneAfterDone == late <= 1

\* Across streams that end, delays and new streams, the server gets events in
\* the order in which Docker reports them, and none of them twice.
InOrderOnce == \A i, j \in DOMAIN sent : i < j => sent[i] < sent[j]

\* While a stream is read no event is lost between Docker and sendJSON: each
\* wanted one since the stream began has been sent or is still to be decoded.
\* Events between two streams are lost, since Docker is asked for new ones only.
NoGap ==
    loop \in Reading =>
        \A e \in wanted : e > start /\ e \notin Range(sent) =>
            e \in Range(pending) \/ (loop = "filter" /\ e = event) \/ stream \in ended

\* Once done is closed the loop ends, even if it waits for an event or an answer
\* that never comes, and with it every watcher, those of earlier streams too,
\* and every socket is closed.
EndsWithRun ==
    done ~> /\ loop = "over"
            /\ \A k \in Streams : watcher[k] # "waiting" /\ socket[k] # "open"
=============================================================================
