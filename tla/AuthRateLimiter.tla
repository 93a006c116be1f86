-------------------------- MODULE AuthRateLimiter --------------------------
(***************************************************************************)
(* The limiter of failed authentications of Standard mode: AuthRateLimiter *)
(* (src/internal/server/middleware.go:10-94) and the requests that pass    *)
(* through authMiddleware (src/internal/server/http.go:554-585) with a     *)
(* token configured, on any path but /_hawser/health.  Every method of the *)
(* limiter holds rl.mu, so each is one step; a request makes two of them,  *)
(* and others run in between.                                              *)
(*                                                                         *)
(* A slice of timestamps is kept as a count for each age a: how many of    *)
(* its failures are at most a ticks old.  The code filters a slice and     *)
(* looks at its length, never at the order in it.                          *)
(***************************************************************************)
EXTENDS Naturals, FiniteSets

CONSTANTS
    IPs,         \* client addresses
    Requests,    \* connections, each carrying one request after another
    IpOf,        \* IpOf[r]: the address r comes from
    Limit,       \* rl.limit
    Window,      \* rl.window, in ticks of the model
    MaxIPs       \* rl.maxIPs

ASSUME ConstantsAssumption ==
    /\ IpOf \in [Requests -> IPs]
    /\ Limit \in Nat \ {0} /\ Window \in Nat \ {0} /\ MaxIPs \in Nat \ {0}
    /\ IsFiniteSet(Requests) /\ IsFiniteSet(IPs)

VARIABLES
    failures,    \* rl.failures; the count for Window is that of all, expired ones too
    handler,     \* where each request is: "idle", "arrived", "failing"
    good,        \* the token it carries is the configured one
    answer,      \* what the last one got: "none", "next", "429", "401"
    log          \* history: failures less than Window old, none evicted

vars == <<failures, handler, good, answer, log>>

Tracked == DOMAIN failures

Ages == 0 .. Window

\* The nil slice.
NoTimes == [a \in Ages |-> 0]

NoFailures == [ip \in {} |-> NoTimes]

Init ==
    /\ failures = NoFailures
    /\ handler = [r \in Requests |-> "idle"]
    /\ good = [r \in Requests |-> FALSE]
    /\ answer = [r \in Requests |-> "none"]
    /\ log = [ip \in IPs |-> NoTimes]

-----------------------------------------------------------------------------
Count(times) == times[Window]

Fresh(times) == [times EXCEPT ![Window] = times[Window - 1]]

\* A failure of now is at most as old as any age.
AppendNow(times) == [a \in Ages |-> times[a] + 1]

\* An address without an entry reads as a nil slice.
PruneOld(table, ip) ==
    IF ip \in DOMAIN table THEN Fresh(table[ip]) ELSE NoTimes

Put(table, ip, times) ==
    [i \in DOMAIN table \cup {ip} |-> IF i = ip THEN times ELSE table[i]]

\* Slip: the limit is checked one late.
OverLimitOffByOne(times) == Count(times) > Limit

OverLimit(times) == Count(times) >= Limit

Arrive(r) ==
    /\ handler[r] = "idle"
    /\ handler' = [handler EXCEPT ![r] = "arrived"]
    /\ \E valid \in BOOLEAN : good' = [good EXCEPT ![r] = valid]
    /\ answer' = [answer EXCEPT ![r] = "none"]
    /\ UNCHANGED <<failures, log>>

\* Slip: an attempt of a blocked address takes the place of its oldest failure.
IsBlockedRecords(r, ip, valid) ==
    /\ failures' = Put(failures, ip,
            IF OverLimit(valid)
            THEN [a \in Ages |-> IF valid[a] < Count(valid) THEN valid[a] + 1 ELSE valid[a]]
            ELSE valid)
    /\ handler' = [handler EXCEPT ![r] =
                     IF OverLimit(valid) \/ good[r] THEN "idle" ELSE "failing"]
    /\ answer' = [answer EXCEPT ![r] =
                    IF OverLimit(valid) THEN "429" ELSE IF good[r] THEN "next" ELSE "none"]

\* IsBlocked writes the pruned failures back, none for a new address, and the
\* middleware answers 429, passes the request on or finds the token wrong.
IsBlocked(r, ip, valid) ==
    /\ failures' = Put(failures, ip, valid)
    /\ handler' = [handler EXCEPT ![r] =
                     IF OverLimit(valid) \/ good[r] THEN "idle" ELSE "failing"]
    /\ answer' = [answer EXCEPT ![r] =
                    IF OverLimit(valid) THEN "429" ELSE IF good[r] THEN "next" ELSE "none"]

Check(r) ==
    /\ handler[r] = "arrived"
    /\ IsBlocked(r, IpOf[r], PruneOld(failures, IpOf[r]))
    /\ UNCHANGED <<good, log>>

\* RecordFailure evicts every entry, this address's too, when it tracks too many.
RecordFailure(r) ==
    LET ip   == IpOf[r]
        full == Cardinality(Tracked) >= MaxIPs
        kept == IF full THEN NoFailures ELSE failures
    IN  /\ handler[r] = "failing"
        /\ failures' = Put(kept, ip, AppendNow(PruneOld(kept, ip)))
        /\ log' = [i \in IPs |-> LET old == IF full THEN NoTimes ELSE log[i]
                                 IN  IF i = ip THEN AppendNow(old) ELSE old]
        /\ handler' = [handler EXCEPT ![r] = "idle"]
        /\ answer' = [answer EXCEPT ![r] = "401"]
        /\ UNCHANGED good

\* Slip: an entry is dropped as soon as one of its failures has expired.
CleanupDropsMixed ==
    /\ failures' = [ip \in {i \in Tracked : Fresh(failures[i]) = failures[i]} |-> failures[ip]]
    /\ UNCHANGED <<handler, good, answer, log>>

\* A tick of cleanupLoop.
Cleanup ==
    /\ failures' = [ip \in {i \in Tracked : Count(Fresh(failures[i])) # 0} |-> Fresh(failures[ip])]
    /\ UNCHANGED <<handler, good, answer, log>>

Older(times) ==
    [a \in Ages |-> IF a = Window THEN times[a] ELSE IF a = 0 THEN 0 ELSE times[a - 1]]

\* Time passes.
Tick ==
    /\ failures' = [ip \in Tracked |-> Older(failures[ip])]
    /\ log' = [ip \in IPs |-> Fresh(Older(log[ip]))]
    /\ UNCHANGED <<handler, good, answer>>

Next ==
    \/ \E r \in Requests : Arrive(r) \/ Check(r) \/ RecordFailure(r)
    \/ Cleanup
    \/ Tick

Safe == Init /\ [][Next]_vars

\* Time passes; clients need not ask again.
Spec == Safe /\ WF_vars(Tick)

-----------------------------------------------------------------------------
Of(ip) == {r \in Requests : IpOf[r] = ip}
Failing(ip) == {r \in Of(ip) : handler[r] = "failing"}

\* IsBlocked and RecordFailure are two critical sections (http.go:568, 577), so
\* requests that pass the first together overshoot the limit; but only by the
\* requests in flight: within one window, and between two evictions, an address
\* has no more wrong tokens compared than limit - 1 and its connections.
GuessesBounded ==
    \A ip \in IPs :
        Count(log[ip]) + Cardinality(Failing(ip)) <= Limit - 1 + Cardinality(Of(ip))

\* "max failures before blocking" (middleware.go:15): whatever the prunings, the
\* cleanup and the evictions did to its entry, a request is answered 429 exactly
\* when the failures of its address in the last window, since the last eviction,
\* have reached the limit.  Its own token does not matter, so a valid one is
\* refused too ("successful auth is never throttled", middleware.go:11).
BlockedForCause ==
    [][\A r \in Requests : Check(r) =>
          (answer'[r] = "429" <=> Count(log[IpOf[r]]) >= Limit)]_vars

\* "sliding window" (middleware.go:16): however persistently its clients try, an
\* address is not blocked for ever; refused attempts do not prolong the block.
Recovers == \A ip \in IPs : []<>~OverLimit(PruneOld(failures, ip))
=============================================================================
