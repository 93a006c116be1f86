-------------------------- MODULE ReconnectBackoff --------------------------
(***************************************************************************)
(* The delays between the connection attempts of an Edge agent: the        *)
(* arithmetic of runWithReconnect (src/internal/edge/client.go:117-161)    *)
(* over every pair RECONNECT_DELAY, MAX_RECONNECT_DELAY, which             *)
(* config.Load takes from the environment and validate does not check.     *)
(* Durations are integers; Second is the number of units in a second.      *)
(***************************************************************************)
EXTENDS Integers

CONSTANTS
    Second,        \* units per second (10^9 in the code)
    Delays,        \* the values, in seconds, the two variables may have
    MaxFailures    \* bound: failures told apart in a row

ASSUME ConstantsAssumption ==
    /\ Second \in Nat /\ Second >= 2
    /\ Delays \subseteq Int
    /\ MaxFailures \in Nat

VARIABLES
    initial,    \* cfg.ReconnectDelay, as a duration
    max,        \* cfg.MaxReconnectDelay, as a duration
    backoff,    \* the raw delay
    delay,      \* the last delay waited for, jitter applied
    failures,   \* waits since the last successful connect, up to MaxFailures
    step        \* "dial", "after" (connect or run has returned), "waiting", "panic"

vars == <<initial, max, backoff, delay, failures, step>>

TypeOK ==
    /\ initial \in Int /\ max \in Int /\ backoff \in Int /\ delay \in Int
    /\ failures \in 0 .. MaxFailures
    /\ step \in {"dial", "after", "waiting", "panic"}

\* What Load leaves in a delay: any integer the environment gives, since validate
\* looks at neither.  Its nanoseconds are taken to fit the int64 of a Duration.
Configured == {d * Second : d \in Delays}

Init ==
    /\ initial \in Configured /\ max \in Configured
    /\ backoff = initial
    /\ delay = 0 /\ failures = 0
    /\ step = "dial"

ConnectFails ==
    /\ step = "dial"
    /\ step' = "after"
    /\ UNCHANGED <<initial, max, backoff, delay, failures>>

\* Slip: the delay grown by earlier failures is kept.
ServeThenLoseNoReset ==
    /\ step = "dial"
    /\ failures' = 0
    /\ step' = "after"
    /\ UNCHANGED <<initial, max, backoff, delay>>

\* connect succeeds, run serves and returns.
ServeThenLose ==
    /\ step = "dial"
    /\ backoff' = initial
    /\ failures' = 0
    /\ step' = "after"
    /\ UNCHANGED <<initial, max, delay>>

\* Slip: the jitter is drawn from a quarter of the delay.
PanicInJitterQuarter ==
    /\ step = "after"
    /\ backoff \div 4 <= 0
    /\ step' = "panic"
    /\ UNCHANGED <<initial, max, backoff, delay, failures>>

\* rand.Int63n(int64(backoff)/2) panics unless its argument is positive.
PanicInJitter ==
    /\ step = "after"
    /\ backoff \div 2 <= 0
    /\ step' = "panic"
    /\ UNCHANGED <<initial, max, backoff, delay, failures>>

\* Slip: the jitter spans the whole delay.
WaitFullJitter ==
    /\ step = "after"
    /\ backoff \div 2 > 0
    /\ \E r \in 0 .. backoff - 1 : delay' = backoff + (r - backoff \div 2)
    /\ step' = "waiting"
    /\ UNCHANGED <<initial, max, backoff, failures>>

Wait ==
    /\ step = "after"
    /\ backoff \div 2 > 0
    /\ \E r \in 0 .. backoff \div 2 - 1 : delay' = backoff + (r - backoff \div 4)
    /\ step' = "waiting"
    /\ UNCHANGED <<initial, max, backoff, failures>>

\* The wait is over: double, then cap.
Double ==
    /\ step = "waiting"
    /\ backoff' = IF 2 * backoff > max THEN max ELSE 2 * backoff
    /\ failures' = IF failures < MaxFailures THEN failures + 1 ELSE failures
    /\ step' = "dial"
    /\ UNCHANGED <<initial, max, delay>>

Next == ConnectFails \/ ServeThenLose \/ PanicInJitter \/ Wait \/ Double

Spec == Init /\ [][Next]_vars

-----------------------------------------------------------------------------
Lower == IF initial < max THEN initial ELSE max
Upper == IF initial < max THEN max ELSE initial

\* README.md:554 "±25% random jitter": for all the truncating divisions, the
\* delay is within a quarter of the raw delay, and that lies between the two
\* configured values, whichever is the greater.  So two dials are never less
\* than three quarters of the smaller value apart, in any order of failures and
\* successes, and an outage never adds more than 5/4 of the greater: the jitter
\* comes after the cap, so README.md:456 "Maximum reconnect delay" is not it.
DelayInBounds ==
    step = "waiting" =>
        /\ 3 * backoff <= 4 * delay /\ 4 * delay < 5 * backoff
        /\ Lower <= backoff /\ backoff <= Upper

\* README.md:554 "exponential backoff": after k failures in a row the raw delay
\* is initial * 2^k up to the cap, though the code caps at every step and resets
\* on success; with an initial delay above the cap, only the first wait has it.
Exponential ==
    failures < MaxFailures /\ step # "panic" =>
        backoff = IF failures = 0 THEN initial
                  ELSE LET grown == initial * 2 ^ failures
                       IN  IF grown > max THEN max ELSE grown

\* The jitter panics, and takes the agent down, only with a configured delay of
\* less than a second: never because of what the doubling makes of it.
PanicsOnlyOnZero == step = "panic" => Lower <= 0
=============================================================================
