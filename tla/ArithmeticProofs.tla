-------------------------- MODULE ArithmeticProofs --------------------------
(* The bounds on the reconnect delay, for every unit and every configured  *)
(* pair of delays; the truth of the CPU share, for every width of the      *)
(* counters and any number of collectors, ticks and readings; and what the *)
(* server decodes, for every body and every limit.                         *)
EXTENDS ReconnectBackoff, HostMetrics, PlainRequests, FiniteSets, FiniteSetTheorems, TLAPS

(***************************************************************************)
(* ReconnectBackoff.                                                       *)
(***************************************************************************)

\* The raw delay stays between the two configured values; the delay waited for
\* stays within a quarter of it, and a wait is only reached with a positive one.
\* Configured delays are whole seconds, so a positive one is at least two units.
IInv ==
    /\ TypeOK
    /\ Lower <= backoff /\ backoff <= Upper
    /\ step = "waiting" =>
         /\ backoff \div 2 > 0
         /\ 3 * backoff <= 4 * delay /\ 4 * delay < 5 * backoff
    /\ initial > 0 => initial >= 2
    /\ max > 0 => max >= 2
    /\ step = "panic" => backoff \div 2 <= 0

\* Truncating a quarter and a half leaves the jitter within 25 per cent.
LEMMA JitterBound ==
    ASSUME NEW b \in Int, b > 0, NEW r \in 0 .. (b \div 2 - 1)
    PROVE  /\ b + (r - b \div 4) \in Int
           /\ 3 * b <= 4 * (b + (r - b \div 4))
           /\ 4 * (b + (r - b \div 4)) < 5 * b
<1>1. /\ b \div 2 \in Int /\ 2 * (b \div 2) <= b
      /\ b \div 4 \in Int /\ 4 * (b \div 4) <= b /\ b <= 4 * (b \div 4) + 3
  OBVIOUS
<1>2. r \in Int /\ 0 <= r /\ r <= b \div 2 - 1
  BY <1>1
<1> QED BY <1>1, <1>2

\* A positive number of seconds is at least two units.
LEMMA Positive == ASSUME NEW d \in Int, d * Second > 0 PROVE d * Second >= 2
<1>1. d >= 1
  BY ConstantsAssumption
<1>2. d * Second >= Second
  BY <1>1, ConstantsAssumption
<1> QED BY <1>2, ConstantsAssumption

LEMMA InitIInv == Init => IInv
<1> SUFFICES ASSUME Init PROVE IInv
  OBVIOUS
<1>1. initial \in Int /\ max \in Int
  BY ConstantsAssumption DEF Init, Configured
<1>2. TypeOK
  BY <1>1, ConstantsAssumption DEF Init, TypeOK
<1>3. (initial > 0 => initial >= 2) /\ (max > 0 => max >= 2)
  BY Positive, ConstantsAssumption DEF Init, Configured
<1> QED BY <1>1, <1>2, <1>3 DEF Init, IInv, Lower, Upper

LEMMA StepIInv == IInv /\ [Next]_vars => IInv'
<1> SUFFICES ASSUME IInv, [Next]_vars PROVE IInv'
  OBVIOUS
<1> USE ConstantsAssumption DEF IInv, TypeOK, Lower, Upper
<1>1. CASE ConnectFails
  BY <1>1 DEF ConnectFails
<1>2. CASE ServeThenLose
  BY <1>2 DEF ServeThenLose
<1>3. CASE PanicInJitter
  BY <1>3 DEF PanicInJitter
<1>4. CASE Wait
  <2>1. backoff > 0
    BY <1>4 DEF Wait
  <2>2. PICK r \in 0 .. (backoff \div 2 - 1) : delay' = backoff + (r - backoff \div 4)
    BY <1>4 DEF Wait
  <2>3. delay' \in Int /\ 3 * backoff <= 4 * delay' /\ 4 * delay' < 5 * backoff
    BY <2>1, <2>2, JitterBound
  <2> QED BY <1>4, <2>3 DEF Wait
<1>5. CASE Double
  <2>1. backoff > 0
    BY <1>5 DEF Double
  <2>2. backoff' \in Int /\ Lower <= backoff' /\ backoff' <= Upper
    BY <1>5, <2>1 DEF Double
  <2>3. failures' \in 0 .. MaxFailures
    BY <1>5 DEF Double
  <2> QED BY <1>5, <2>2, <2>3 DEF Double
<1>6. CASE UNCHANGED vars
  BY <1>6 DEF vars
<1> QED BY <1>1, <1>2, <1>3, <1>4, <1>5, <1>6 DEF Next

LEMMA Invariance == Spec => []IInv
BY InitIInv, StepIInv, PTL DEF Spec

\* No delay leaves the interval of three to five quarters of the raw delay, and
\* the raw delay never leaves the configured one: whatever the environment says.
THEOREM DelayInBoundsHolds == Spec => []DelayInBounds
<1>1. IInv => DelayInBounds
  BY DEF IInv, DelayInBounds
<1> QED BY <1>1, Invariance, PTL

\* A configuration of positive delays never makes the jitter panic.
THEOREM PanicsOnlyOnZeroHolds == Spec => []PanicsOnlyOnZero
<1>1. IInv => PanicsOnlyOnZero
  <2> SUFFICES ASSUME IInv, step = "panic" PROVE Lower <= 0
    BY DEF PanicsOnlyOnZero
  <2>1. backoff \in Int /\ backoff < 2 /\ Lower <= backoff
    BY DEF IInv, TypeOK
  <2> QED BY <2>1 DEF IInv, TypeOK, Lower
<1> QED BY <1>1, Invariance, PTL

(***************************************************************************)
(* Powers of two.  2 ^ k is the number of subsets of 1 .. k, which says    *)
(* how it grows without an induction on k.                                 *)
(***************************************************************************)

LEMMA PowerCounts ==
    ASSUME NEW k \in Nat
    PROVE  /\ IsFiniteSet(SUBSET (1 .. k)) /\ 2 ^ k = Cardinality(SUBSET (1 .. k))
           /\ 2 ^ k \in Nat
<1>1. IsFiniteSet(1 .. k) /\ Cardinality(1 .. k) = k
  BY FS_Interval
<1>2. /\ IsFiniteSet(SUBSET (1 .. k))
      /\ Cardinality(SUBSET (1 .. k)) = 2 ^ Cardinality(1 .. k)
  BY <1>1, FS_SUBSET
<1> QED BY <1>1, <1>2, FS_CardinalityType

LEMMA PowerZero == 2 ^ 0 = 1
<1>1. SUBSET (1 .. 0) = {{}}
  OBVIOUS
<1>2. Cardinality({{}}) = 1
  BY FS_Singleton
<1> QED BY <1>1, <1>2, PowerCounts

LEMMA TwiceAsMany ==
    ASSUME NEW S, NEW T, IsFiniteSet(S), ExistsBijection(S, T), S \cap T = {}
    PROVE  Cardinality(S \cup T) = 2 * Cardinality(S)
<1>1. IsFiniteSet(T) /\ Cardinality(T) = Cardinality(S)
  BY FS_Bijection
<1>2. Cardinality(S \cup T) = Cardinality(S) + Cardinality(T) - Cardinality(S \cap T)
  BY <1>1, FS_Union
<1>3. Cardinality(S \cap T) = 0
  BY FS_EmptySet
<1>4. Cardinality(S) \in Nat
  BY FS_CardinalityType
<1> QED BY <1>1, <1>2, <1>3, <1>4

\* A subset of 1 .. k + 1 is one of 1 .. k, without k + 1 or with it.
LEMMA PowerStep ==
    ASSUME NEW k \in Nat
    PROVE  2 ^ (k + 1) = 2 * 2 ^ k
<1> DEFINE S == SUBSET (1 .. k)
           With == {X \in SUBSET (1 .. k + 1) : k + 1 \in X}
           f == [X \in S |-> X \cup {k + 1}]
<1>1. SUBSET (1 .. k + 1) = S \cup With
  BY SMT
<1>2. S \cap With = {}
  BY SMT
<1>3. f \in Bijection(S, With)
  <2>1. f \in [S -> With]
    BY SMT
  <2>2. ASSUME NEW X \in S, NEW Y \in S, f[X] = f[Y] PROVE X = Y
    <3>1. k + 1 \notin X /\ k + 1 \notin Y
      BY SMT
    <3>2. X \cup {k + 1} = Y \cup {k + 1}
      BY <2>2
    <3> QED BY <3>1, <3>2
  <2>3. ASSUME NEW Z \in With PROVE \E X \in S : f[X] = Z
    <3>1. Z \ {k + 1} \in S
      BY SMT
    <3>2. f[Z \ {k + 1}] = Z
      BY <3>1
    <3> QED BY <3>1, <3>2
  <2>4. f \in Injection(S, With)
    BY <2>1, <2>2 DEF Injection, IsInjective
  <2> QED BY <2>1, <2>3, <2>4 DEF Bijection, Surjection
<1>4. IsFiniteSet(S) /\ Cardinality(S) = 2 ^ k /\ 2 ^ k \in Nat
  BY PowerCounts
<1>5. Cardinality(S \cup With) = 2 * Cardinality(S)
  <2>1. ExistsBijection(S, With)
    BY <1>3 DEF ExistsBijection
  <2> QED BY <1>2, <1>4, <2>1, TwiceAsMany
<1>6. 2 ^ (k + 1) = Cardinality(SUBSET (1 .. k + 1))
  BY PowerCounts, k + 1 \in Nat
<1> QED BY <1>1, <1>4, <1>5, <1>6, Zenon

\* The raw delay doubles or is capped, as the power does.
LEMMA ExponentialStep == IInv /\ Exponential /\ [Next]_vars => Exponential'
<1> SUFFICES ASSUME IInv, Exponential, [Next]_vars,
                    failures' < MaxFailures, step' # "panic"
             PROVE  backoff' = IF failures' = 0 THEN initial'
                               ELSE LET grown == initial' * 2 ^ failures'
                                    IN  IF grown > max' THEN max' ELSE grown
  BY DEF Exponential
<1> USE DEF IInv, TypeOK
<1>1. CASE ServeThenLose
  BY <1>1 DEF ServeThenLose
<1>2. CASE ConnectFails \/ Wait \/ UNCHANGED vars
  BY <1>2 DEF ConnectFails, Wait, vars, Exponential
<1>3. CASE PanicInJitter
  BY <1>3 DEF PanicInJitter
<1>4. CASE Double
  <2>1. /\ failures \in Nat /\ failures < MaxFailures /\ failures' = failures + 1
        /\ step # "panic" /\ backoff > 0 /\ initial' = initial /\ max' = max
        /\ backoff' = IF 2 * backoff > max THEN max ELSE 2 * backoff
    BY <1>4, ConstantsAssumption DEF Double
  <2>2. PICK grown \in Int : grown = initial * 2 ^ failures
    <3>1. 2 ^ failures \in Int
      BY <2>1, PowerCounts
    <3> QED BY <3>1
  <2>3. initial' * 2 ^ failures' = 2 * grown
    <3>1. \A a, b \in Int : a * (2 * b) = 2 * (a * b)
      OBVIOUS
    <3>2. 2 ^ failures \in Int /\ 2 ^ failures' = 2 * 2 ^ failures
      BY <2>1, PowerCounts, PowerStep
    <3> QED BY <2>1, <2>2, <3>1, <3>2
  <2>4. CASE failures = 0
    <3>1. backoff = initial /\ grown = initial
      BY <2>1, <2>2, <2>4, PowerZero DEF Exponential
    <3> QED BY <2>1, <2>3, <3>1
  <2>5. CASE failures # 0
    <3>1. backoff = IF grown > max THEN max ELSE grown
      BY <2>1, <2>2, <2>5 DEF Exponential
    <3> QED BY <2>1, <2>2, <2>3, <3>1
  <2> QED BY <2>4, <2>5
<1> QED BY <1>1, <1>2, <1>3, <1>4 DEF Next

\* After k failures in a row the raw delay is the initial one times 2 ^ k, or the
\* cap if that is beyond it, for any number of failures and any pair of delays:
\* capping at every step comes to the same as capping at the end.
THEOREM ExponentialHolds == Spec => []Exponential
<1>1. Init => Exponential
  BY DEF Init, Exponential
<1> QED BY <1>1, ExponentialStep, Invariance, PTL DEF Spec

(***************************************************************************)
(* HostMetrics: the inductive invariant.                                   *)
(***************************************************************************)

Counts == [Kinds -> Nat]
Readings == [taken : Nat \ {0}, of : Counts]

MetricsTypeOK ==
    /\ counters \in Counts /\ ticks \in 0 .. MaxTicks /\ readings \in Nat
    /\ current \in [Collectors -> Readings \cup {NoReading}]
    /\ prevCPU \in Readings \cup {NoReading}
    /\ overtaken \subseteq Collectors

\* The ticks behind the counters, from where the busy one started.
Elapsed(of, s) == (of["busy"] - s) + of["idle"] + of["iowait"]

\* y was counted after x: only iowait may have gone back.
After(x, y) == x["busy"] <= y["busy"] /\ x["idle"] <= y["idle"]

\* What a reading may be, now.
Sound(x, s) ==
    x # NoReading =>
        /\ x.taken <= readings
        /\ s <= x.of["busy"]
        /\ Elapsed(x.of, s) <= ticks
        /\ After(x.of, counters)

\* Readings are of the past, in the order they were taken, and a call that has not
\* been overtaken has read after the last one that was compared.
ReadingsAgree ==
    /\ \E s \in Starts :
        /\ s <= counters["busy"] /\ Elapsed(counters, s) <= ticks
        /\ Sound(prevCPU, s) /\ \A c \in Collectors : Sound(current[c], s)
    /\ \A c \in Collectors :
        (current[c] # NoReading /\ prevCPU # NoReading) =>
            /\ prevCPU.taken < current[c].taken => After(prevCPU.of, current[c].of)
            /\ c \notin overtaken => prevCPU.taken < current[c].taken
    /\ \A c, d \in Collectors :
        (current[c] # NoReading /\ current[d] # NoReading /\ current[c].taken < current[d].taken)
            => After(current[c].of, current[d].of)

MetricsInv == MetricsTypeOK /\ ReadingsAgree /\ UsageIsTrue

\* A difference of less than the width survives the wrapping of the counter.
LEMMA NoWrap ==
    ASSUME NEW x \in Int, 0 <= x, x < Width
    PROVE  x % Width = x
BY MetricsConstantsAssumption

LEMMA PartsBelow ==
    \A x, y, z, t, m, w \in Nat :
        (x + y + z <= t /\ t <= m /\ m < w)
            => (x < w /\ y < w /\ z < w /\ x + y + z < w /\ x + y + z \in Nat)
OBVIOUS

LEMMA Nothing == \A r \in Readings : r # NoReading /\ r.taken \in Nat /\ r.taken > 0 /\ r.of \in Counts
BY DEF Readings, NoReading

LEMMA InitMetricsInv == MetricsInit => MetricsInv
<1> SUFFICES ASSUME MetricsInit PROVE MetricsInv
  OBVIOUS
<1> USE MetricsConstantsAssumption DEF MetricsInit
<1>1. PICK s \in Starts : counters = [k \in Kinds |-> IF k = "busy" THEN s ELSE 0]
  OBVIOUS
<1>2. s \in Nat /\ counters \in Counts /\ counters["busy"] = s /\ counters["idle"] = 0 /\ counters["iowait"] = 0
  BY <1>1 DEF Counts, Kinds
<1>3. MetricsTypeOK
  BY <1>2 DEF MetricsTypeOK
<1>4. ReadingsAgree
  <2>1. Elapsed(counters, s) <= ticks /\ s <= counters["busy"]
    BY <1>2 DEF Elapsed
  <2> QED BY <2>1 DEF ReadingsAgree, Sound
<1>5. UsageIsTrue
  BY DEF UsageIsTrue
<1> QED BY <1>3, <1>4, <1>5 DEF MetricsInv

\* What has been read stays in the past.
LEMMA TickPreserves == MetricsInv /\ Tick => MetricsInv'
<1> SUFFICES ASSUME MetricsInv, Tick PROVE MetricsInv'
  OBVIOUS
<1>1. MetricsTypeOK /\ ReadingsAgree /\ UsageIsTrue
  BY DEF MetricsInv
<1>2. /\ ticks < MaxTicks /\ ticks' = ticks + 1
      /\ UNCHANGED <<readings, current, prevCPU, overtaken, report>>
  BY DEF Tick
<1>3. /\ counters' \in Counts
      /\ After(counters, counters')
      /\ \A s \in Nat : Elapsed(counters, s) <= ticks => Elapsed(counters', s) <= ticks'
  <2>1. counters["busy"] \in Nat /\ counters["idle"] \in Nat /\ counters["iowait"] \in Nat
        /\ DOMAIN counters = Kinds /\ counters \in Counts /\ ticks \in Nat
    BY <1>1, MetricsConstantsAssumption DEF MetricsTypeOK, Counts, Kinds
  <2>2. ASSUME NEW k \in Kinds, counters' = [counters EXCEPT ![k] = @ + 1]
        PROVE  /\ counters' \in Counts /\ After(counters, counters')
               /\ \A s \in Nat : Elapsed(counters, s) <= ticks => Elapsed(counters', s) <= ticks'
    <3>1. counters' \in Counts
      BY <2>2 DEF Counts, MetricsTypeOK, MetricsInv
    <3>2. \A j \in Kinds : counters'[j] = IF j = k THEN counters[j] + 1 ELSE counters[j]
      BY <2>1, <2>2
    <3>3. \A s \in Nat : Elapsed(counters', s) = Elapsed(counters, s) + 1 /\ Elapsed(counters, s) \in Int
      BY <2>1, <3>2 DEF Elapsed, Kinds
    <3>4. After(counters, counters')
      BY <2>1, <3>2 DEF After, Kinds
    <3> QED BY <1>2, <2>1, <3>1, <3>3, <3>4
  <2>3. ASSUME counters["iowait"] > 0, counters' = [counters EXCEPT !["iowait"] = @ - 1]
        PROVE  /\ counters' \in Counts /\ After(counters, counters')
               /\ \A s \in Nat : Elapsed(counters, s) <= ticks => Elapsed(counters', s) <= ticks'
    <3>1. counters["iowait"] - 1 \in Nat
      BY <2>1, <2>3
    <3>2. counters' \in Counts
      BY <2>1, <2>3, <3>1 DEF Counts
    <3>3. /\ counters'["iowait"] = counters["iowait"] - 1
          /\ counters'["busy"] = counters["busy"] /\ counters'["idle"] = counters["idle"]
      BY <2>1, <2>3 DEF Kinds
    <3>4. \A s \in Nat : Elapsed(counters', s) = Elapsed(counters, s) - 1 /\ Elapsed(counters, s) \in Int
      BY <2>1, <3>3 DEF Elapsed
    <3>5. After(counters, counters')
      BY <2>1, <3>3 DEF After
    <3> QED BY <1>2, <2>1, <3>2, <3>4, <3>5
  <2> QED BY <2>2, <2>3 DEF Tick
<1>4. MetricsTypeOK'
  BY <1>1, <1>2, <1>3, MetricsConstantsAssumption DEF MetricsTypeOK
<1>5. ReadingsAgree'
  <2>1. PICK s \in Starts :
          /\ s <= counters["busy"] /\ Elapsed(counters, s) <= ticks
          /\ Sound(prevCPU, s) /\ \A c \in Collectors : Sound(current[c], s)
    BY <1>1 DEF ReadingsAgree
  <2>2. s \in Nat /\ ticks \in Nat /\ counters \in Counts
    BY <1>1, MetricsConstantsAssumption DEF MetricsTypeOK
  <2>3. s <= counters'["busy"] /\ Elapsed(counters', s) <= ticks'
    BY <1>3, <2>1, <2>2 DEF After, Counts, Kinds
  <2>4. ASSUME NEW x \in Readings \cup {NoReading}, Sound(x, s)
        PROVE  Sound(x, s)'
    <3> SUFFICES ASSUME x # NoReading PROVE Sound(x, s)'
      BY DEF Sound
    <3>1. x.of \in Counts
      BY DEF Readings
    <3>2. x.of["busy"] \in Int /\ x.of["idle"] \in Int /\ x.of["iowait"] \in Int
      BY <3>1 DEF Counts, Kinds
    <3>3. Elapsed(x.of, s) \in Int /\ Elapsed(x.of, s) <= ticks'
      BY <1>2, <2>2, <2>4, <3>2 DEF Sound, Elapsed
    <3>4. After(x.of, counters')
      BY <1>3, <2>2, <2>4, <3>2 DEF Sound, After, Counts, Kinds
    <3> QED BY <1>2, <2>4, <3>3, <3>4 DEF Sound
  <2>5. Sound(prevCPU, s)' /\ \A c \in Collectors : Sound(current[c], s)'
    <3>1. prevCPU \in Readings \cup {NoReading} /\ \A c \in Collectors : current[c] \in Readings \cup {NoReading}
      BY <1>1 DEF MetricsTypeOK
    <3> QED BY <1>2, <2>1, <2>4, <3>1 DEF Sound
  <2> QED BY <1>1, <1>2, <2>3, <2>5 DEF ReadingsAgree
<1>6. UsageIsTrue'
  BY <1>1, <1>2 DEF UsageIsTrue
<1> QED BY <1>4, <1>5, <1>6 DEF MetricsInv

\* A new reading is of the latest counters.
LEMMA ReadStatPreserves ==
    ASSUME MetricsInv, NEW c \in Collectors, ReadStat(c)
    PROVE  MetricsInv'
<1> DEFINE new == [taken |-> readings + 1, of |-> counters]
<1>1. MetricsTypeOK /\ ReadingsAgree /\ UsageIsTrue
  BY DEF MetricsInv
<1>2. /\ readings' = readings + 1 /\ current' = [current EXCEPT ![c] = new]
      /\ UNCHANGED <<counters, ticks, prevCPU, overtaken, report>>
  BY DEF ReadStat
<1>3. /\ new \in Readings /\ new # NoReading /\ new.taken = readings + 1 /\ new.of = counters
      /\ readings \in Nat
  BY <1>1, Nothing DEF MetricsTypeOK, Readings
<1>4. current'[c] = new /\ \A d \in Collectors : d # c => current'[d] = current[d]
  BY <1>1, <1>2 DEF MetricsTypeOK
<1> HIDE DEF new
<1>5. MetricsTypeOK'
  BY <1>1, <1>2, <1>3 DEF MetricsTypeOK
<1>6. PICK s \in Starts :
        /\ s <= counters["busy"] /\ Elapsed(counters, s) <= ticks
        /\ Sound(prevCPU, s) /\ \A d \in Collectors : Sound(current[d], s)
  BY <1>1 DEF ReadingsAgree
<1>7. After(counters, counters)
  BY <1>1 DEF After, MetricsTypeOK, Counts, Kinds
<1>8. Sound(prevCPU, s)' /\ \A d \in Collectors : Sound(current[d], s)'
  <2>1. ASSUME NEW x \in Readings \cup {NoReading}, Sound(x, s)
        PROVE  x # NoReading => /\ x.taken <= readings + 1 /\ s <= x.of["busy"]
                                /\ Elapsed(x.of, s) <= ticks /\ After(x.of, counters)
    BY <1>3, <2>1, Nothing DEF Sound
  <2>2. prevCPU \in Readings \cup {NoReading} /\ \A d \in Collectors : current[d] \in Readings \cup {NoReading}
    BY <1>1 DEF MetricsTypeOK
  <2>3. Sound(prevCPU, s)'
    BY <1>2, <1>6, <2>1, <2>2 DEF Sound
  <2>4. ASSUME NEW d \in Collectors PROVE Sound(current[d], s)'
    <3>1. CASE d = c
      BY <1>2, <1>3, <1>4, <1>6, <1>7, <3>1 DEF Sound
    <3>2. CASE d # c
      BY <1>2, <1>4, <1>6, <2>1, <2>2, <3>2 DEF Sound
    <3> QED BY <3>1, <3>2
  <2> QED BY <2>3, <2>4
<1>9. \A d \in Collectors : (current[d] # NoReading) => (current[d].taken <= readings /\ current[d].taken \in Nat
                                                        /\ After(current[d].of, counters))
  BY <1>1, <1>6, Nothing DEF Sound, MetricsTypeOK
<1>10. prevCPU # NoReading => (prevCPU.taken <= readings /\ prevCPU.taken \in Nat /\ After(prevCPU.of, counters))
  BY <1>1, <1>6, Nothing DEF Sound, MetricsTypeOK
<1>11. ASSUME NEW d \in Collectors, current'[d] # NoReading, prevCPU # NoReading
       PROVE  /\ prevCPU.taken < current'[d].taken => After(prevCPU.of, current'[d].of)
              /\ d \notin overtaken => prevCPU.taken < current'[d].taken
  <2>1. CASE d = c
    BY <1>3, <1>4, <1>10, <1>11, <2>1
  <2>2. CASE d # c
    BY <1>1, <1>4, <1>11, <2>2 DEF ReadingsAgree
  <2> QED BY <2>1, <2>2
<1>12. ASSUME NEW d \in Collectors, NEW e \in Collectors,
              current'[d] # NoReading, current'[e] # NoReading, current'[d].taken < current'[e].taken
       PROVE  After(current'[d].of, current'[e].of)
  <2>1. CASE d # c /\ e # c
    BY <1>1, <1>4, <1>12, <2>1 DEF ReadingsAgree
  <2>2. CASE d # c /\ e = c
    BY <1>3, <1>4, <1>9, <1>12, <2>2
  <2>3. CASE d = c /\ e # c
    BY <1>3, <1>4, <1>9, <1>12, <2>3
  <2>4. CASE d = c /\ e = c
    BY <1>3, <1>4, <1>7, <2>4
  <2> QED BY <2>1, <2>2, <2>3, <2>4
<1>13. ReadingsAgree'
  BY <1>2, <1>6, <1>8, <1>11, <1>12 DEF ReadingsAgree
<1>14. UsageIsTrue'
  BY <1>1, <1>2 DEF UsageIsTrue
<1> QED BY <1>5, <1>13, <1>14 DEF MetricsInv

\* A share is computed: no difference that it adds up has wrapped.
LEMMA ComparePreserves ==
    ASSUME MetricsInv, NEW c \in Collectors, Compare(c)
    PROVE  MetricsInv'
<1> DEFINE new == current[c]
<1>1. MetricsTypeOK /\ ReadingsAgree /\ UsageIsTrue
  BY DEF MetricsInv
<1>2. /\ new # NoReading /\ new \in Readings
      /\ current' = [current EXCEPT ![c] = NoReading]
      /\ overtaken' = (overtaken \ {c}) \cup {d \in Collectors \ {c} : current[d] # NoReading}
      /\ prevCPU' = new \/ (prevCPU' = prevCPU /\ prevCPU # NoReading)
      /\ UNCHANGED <<counters, ticks, readings>>
  BY <1>1 DEF Compare, MetricsTypeOK
<1>3. current'[c] = NoReading /\ \A d \in Collectors : d # c => current'[d] = current[d]
  BY <1>1, <1>2 DEF MetricsTypeOK
<1>4. MetricsTypeOK'
  BY <1>1, <1>2 DEF MetricsTypeOK
<1>5. PICK s \in Starts :
        /\ s <= counters["busy"] /\ Elapsed(counters, s) <= ticks
        /\ Sound(prevCPU, s) /\ \A d \in Collectors : Sound(current[d], s)
  BY <1>1 DEF ReadingsAgree
<1>6. ReadingsAgree'
  <2>1. Sound(prevCPU, s)' /\ \A d \in Collectors : Sound(current[d], s)'
    BY <1>2, <1>3, <1>5 DEF Sound
  <2>2. ASSUME NEW d \in Collectors, current'[d] # NoReading, prevCPU' # NoReading
        PROVE  /\ prevCPU'.taken < current'[d].taken => After(prevCPU'.of, current'[d].of)
               /\ d \notin overtaken' => prevCPU'.taken < current'[d].taken
    <3>1. d # c /\ current'[d] = current[d] /\ d \in overtaken'
      BY <1>2, <1>3, <2>2
    <3> QED BY <1>1, <1>2, <2>2, <3>1 DEF ReadingsAgree
  <2>3. ASSUME NEW d \in Collectors, NEW e \in Collectors,
               current'[d] # NoReading, current'[e] # NoReading, current'[d].taken < current'[e].taken
        PROVE  After(current'[d].of, current'[e].of)
    <3>1. current'[d] = current[d] /\ current'[e] = current[e]
      BY <1>3, <2>3
    <3> QED BY <1>1, <2>3, <3>1 DEF ReadingsAgree
  <2> QED BY <1>2, <1>5, <2>1, <2>2, <2>3 DEF ReadingsAgree
<1>7. UsageIsTrue'
  <2>1. CASE report' = NoReport
    BY <2>1 DEF UsageIsTrue
  <2>2. CASE report' # NoReport
    <3> DEFINE delta == Delta(new, prevCPU)
               d(k) == new.of[k] - prevCPU.of[k]
    <3>1. /\ prevCPU # NoReading /\ prevCPU \in Readings
          /\ report' = [busy |-> delta["busy"], total |-> Total(delta),
                        from |-> prevCPU, to |-> new, overlapped |-> c \in overtaken]
      BY <1>1, <2>2 DEF Compare, MetricsTypeOK
    <3>2. /\ report'.busy = delta["busy"] /\ report'.total = Total(delta)
          /\ report'.from = prevCPU /\ report'.to = new /\ report'.overlapped = (c \in overtaken)
      BY <3>1
    <3> SUFFICES ASSUME c \notin overtaken, prevCPU.of["iowait"] <= new.of["iowait"]
                 PROVE  /\ prevCPU.taken < new.taken
                        /\ delta["busy"] = d("busy")
                        /\ Total(delta) = d("busy") + d("idle") + d("iowait")
      BY <3>2 DEF UsageIsTrue
    <3>3. prevCPU.taken < new.taken /\ After(prevCPU.of, new.of)
      BY <1>1, <1>2, <3>1 DEF ReadingsAgree
    <3>4. /\ new.of["busy"] \in Nat /\ new.of["idle"] \in Nat /\ new.of["iowait"] \in Nat
          /\ prevCPU.of["busy"] \in Nat /\ prevCPU.of["idle"] \in Nat /\ prevCPU.of["iowait"] \in Nat
          /\ s \in Nat /\ ticks \in Nat /\ ticks <= MaxTicks /\ MaxTicks < Width /\ Width \in Nat
      BY <1>1, <1>2, <3>1, MetricsConstantsAssumption DEF MetricsTypeOK, Readings, Counts, Kinds
    <3>5. /\ d("busy") \in Nat /\ d("idle") \in Nat /\ d("iowait") \in Nat
      BY <3>3, <3>4 DEF After
    <3>6. d("busy") + d("idle") + d("iowait") <= ticks
      <4>1. Elapsed(new.of, s) <= ticks /\ s <= prevCPU.of["busy"]
        BY <1>2, <1>5, <3>1 DEF Sound
      <4> QED BY <3>4, <4>1 DEF Elapsed
    <3> HIDE DEF d
    <3>7. /\ d("busy") % Width = d("busy") /\ d("idle") % Width = d("idle")
          /\ d("iowait") % Width = d("iowait")
          /\ (d("busy") + d("idle") + d("iowait")) % Width = d("busy") + d("idle") + d("iowait")
      <4>1. \A x \in Int : (0 <= x /\ x < Width) => x % Width = x
        BY NoWrap
      <4>2. /\ d("busy") < Width /\ d("idle") < Width /\ d("iowait") < Width
            /\ d("busy") + d("idle") + d("iowait") < Width /\ d("busy") + d("idle") + d("iowait") \in Nat
        BY <3>4, <3>5, <3>6, PartsBelow, MetricsConstantsAssumption
      <4> QED BY <3>5, <4>1, <4>2
    <3>8. delta["busy"] = d("busy") /\ delta["idle"] = d("idle") /\ delta["iowait"] = d("iowait")
      BY <3>7 DEF Delta, Kinds, d
    <3> QED BY <3>3, <3>7, <3>8 DEF Total
  <2> QED BY <2>1, <2>2
<1> QED BY <1>4, <1>6, <1>7 DEF MetricsInv

LEMMA StepMetricsInv == MetricsInv /\ [MetricsNext]_metricsVars => MetricsInv'
<1> SUFFICES ASSUME MetricsInv, [MetricsNext]_metricsVars PROVE MetricsInv'
  OBVIOUS
<1>1. CASE UNCHANGED metricsVars
  BY <1>1 DEF metricsVars, MetricsInv, MetricsTypeOK, ReadingsAgree, Sound, UsageIsTrue
<1> QED BY <1>1, TickPreserves, ReadStatPreserves, ComparePreserves DEF MetricsNext

\* The share of a metrics message is that of the ticks between its two readings,
\* though the counters wrap, unless iowait went back or another Collect came
\* between this one's reading and its lock (collector.go:90-160).
THEOREM UsageIsTrueHolds == MetricsSpec => []UsageIsTrue
<1>1. MetricsInv => UsageIsTrue
  BY DEF MetricsInv
<1> QED BY <1>1, InitMetricsInv, StepMetricsInv, PTL DEF MetricsSpec

(***************************************************************************)
(* PlainRequests.                                                          *)
(***************************************************************************)

\* What has been read is a beginning of Docker's answer no longer than the limit,
\* all of it or the limit itself once there is a response.
PlainInv ==
    /\ body \in Seq(Bytes)
    /\ taken \in Nat /\ taken <= Len(body) /\ taken <= MaxResponseBody
    /\ stage \in {"received", "reading", "answered"}
    /\ stage = "received" => taken = 0
    /\ answer.type = "response" =>
         /\ stage = "answered"
         /\ taken = Len(body) \/ taken = MaxResponseBody
         /\ answer = NewResponseMessage(SubSeq(body, 1, taken))

\* JSON leaves a text alone if and only if all of it is characters.
LEMMA MarshalFaithful ==
    ASSUME NEW b \in Seq(Bytes) PROVE Marshal(b) = b <=> WellFormed(b)
<1>1. "fffd" \notin Bytes
  BY DEF Bytes
<1>2. b = [i \in DOMAIN b |-> b[i]] /\ \A i \in DOMAIN b : b[i] \in Bytes
  OBVIOUS
<1>3. ASSUME Marshal(b) = b, NEW i \in DOMAIN b PROVE InCharacter(b, i)
  <2>1. b[i] = IF InCharacter(b, i) THEN b[i] ELSE "fffd"
    BY <1>3 DEF Marshal
  <2> QED BY <1>1, <1>2, <2>1
<1>4. ASSUME WellFormed(b) PROVE Marshal(b) = b
  <2>1. Marshal(b) = [i \in DOMAIN b |-> b[i]]
    BY <1>4 DEF Marshal, WellFormed
  <2> QED BY <1>2, <2>1
<1> QED BY <1>3, <1>4 DEF WellFormed

\* The server decodes as many bytes as it was sent, whichever the encoding.
LEMMA DecodedLength ==
    ASSUME NEW b \in Seq(Bytes)
    PROVE  DOMAIN Decoded(NewResponseMessage(b)) = DOMAIN b
BY DEF Decoded, NewResponseMessage, EncodeToString, Marshal

\* A message carries its bytes faithfully as base64, or as well-formed text.
LEMMA EncodingFaithful ==
    ASSUME NEW b \in Seq(Bytes)
    PROVE  Decoded(NewResponseMessage(b)) = b <=> marked \/ Unprintable(b) \/ WellFormed(b)
<1>1. CASE IsBinary(b)
  <2>1. Decoded(NewResponseMessage(b)) = b
    BY <1>1 DEF Decoded, NewResponseMessage, EncodeToString
  <2> QED BY <1>1, <2>1 DEF IsBinary
<1>2. CASE ~IsBinary(b)
  <2>1. Decoded(NewResponseMessage(b)) = Marshal(b)
    BY <1>2 DEF Decoded, NewResponseMessage
  <2>2. CASE b = <<>>
    <3>1. WellFormed(b)
      BY <2>2 DEF WellFormed
    <3> QED BY <2>1, <3>1, MarshalFaithful
  <2>3. CASE b # <<>>
    BY <1>2, <2>1, <2>3, MarshalFaithful DEF IsBinary
  <2> QED BY <2>2, <2>3
<1> QED BY <1>1, <1>2

LEMMA InitPlainInv == PlainInit => PlainInv
BY PlainConstantsAssumption DEF PlainInit, PlainInv, NoAnswer

LEMMA StepPlainInv == PlainInv /\ [PlainNext]_plainVars => PlainInv'
<1> SUFFICES ASSUME PlainInv, [PlainNext]_plainVars PROVE PlainInv'
  OBVIOUS
<1> USE PlainConstantsAssumption DEF PlainInv
<1>1. CASE RejectBody
  BY <1>1 DEF RejectBody, Error
<1>2. CASE AskFails
  BY <1>2 DEF AskFails, Error
<1>3. CASE AskDocker
  BY <1>3 DEF AskDocker
<1>4. CASE ReadByte
  BY <1>4 DEF ReadByte
<1>5. CASE ReadFails
  BY <1>5 DEF ReadFails, Error
<1>6. CASE Respond
  BY <1>6 DEF Respond, NewResponseMessage, IsBinary
<1>7. CASE UNCHANGED plainVars
  BY <1>7 DEF plainVars, NewResponseMessage, IsBinary
<1> QED BY <1>1, <1>2, <1>3, <1>4, <1>5, <1>6, <1>7 DEF PlainNext

\* For every body and every limit: a response brings Docker's bytes if and only
\* if they are not cut, and sent as base64 or well-formed.
THEOREM ResponseFaithfulHolds == PlainSpec => []ResponseFaithful
<1>1. PlainInv => ResponseFaithful
  <2> SUFFICES ASSUME PlainInv, answer.type = "response" PROVE ResponseFaithful
    BY DEF ResponseFaithful
  <2> DEFINE read == SubSeq(body, 1, taken)
  <2>1. /\ body \in Seq(Bytes) /\ taken \in Nat /\ taken <= Len(body)
        /\ taken <= MaxResponseBody /\ MaxResponseBody \in Nat
        /\ taken = Len(body) \/ taken = MaxResponseBody
        /\ answer = NewResponseMessage(read)
    BY PlainConstantsAssumption DEF PlainInv
  <2>2. read \in Seq(Bytes) /\ Len(read) = taken
    BY <2>1
  <2>3. CASE taken = Len(body)
    <3>1. read = body
      BY <2>1, <2>3
    <3> QED BY <2>1, <2>3, <3>1, EncodingFaithful DEF ResponseFaithful
  <2>4. CASE taken # Len(body)
    <3>1. Len(body) > MaxResponseBody
      BY <2>1, <2>4
    <3>2. DOMAIN Decoded(answer) = 1 .. taken
      <4>1. DOMAIN Decoded(NewResponseMessage(read)) = DOMAIN read
        BY <2>2, DecodedLength
      <4>2. DOMAIN read = 1 .. taken
        BY <2>2
      <4> HIDE DEF read
      <4> QED BY <2>1, <4>1, <4>2
    <3>3. DOMAIN body = 1 .. Len(body) /\ Len(body) \notin 1 .. taken /\ Len(body) \in 1 .. Len(body)
      BY <2>1, <2>4
    <3>4. Decoded(answer) # body
      BY <3>2, <3>3
    <3> QED BY <2>1, <3>1, <3>4 DEF ResponseFaithful
  <2> QED BY <2>3, <2>4
<1>2. PlainSpec => []PlainInv
  BY InitPlainInv, StepPlainInv, PTL DEF PlainSpec
<1> QED BY <1>1, <1>2, PTL
=============================================================================
