------------------------ MODULE AuthRateLimiterProofs ------------------------
(* Proofs about AuthRateLimiter, for any addresses, connections, limit,    *)
(* window and number of addresses tracked.                                 *)
EXTENDS AuthRateLimiter, FiniteSetTheorems, TLAPS

(***************************************************************************)
(* Slices of timestamps.                                                   *)
(***************************************************************************)

\* What is at most so old is at most older.
Times == {t \in [Ages -> Nat] : \A a, b \in Ages : a <= b => t[a] <= t[b]}

\* Pruning, appending and growing older give slices; pruning twice is pruning
\* once, and can be done before the others as well as after.
LEMMA TimesFacts ==
    ASSUME NEW t \in Times
    PROVE  /\ Fresh(t) \in Times /\ AppendNow(t) \in Times /\ Older(t) \in Times
           /\ Fresh(Fresh(t)) = Fresh(t)
           /\ Fresh(AppendNow(Fresh(t))) = AppendNow(Fresh(t))
           /\ Fresh(Older(Fresh(t))) = Fresh(Older(t))
           /\ Count(Fresh(t)) = 0 => Fresh(t) = NoTimes
           /\ Count(AppendNow(t)) = Count(t) + 1
           /\ Count(Fresh(Older(t))) <= Count(t)
<1> USE ConstantsAssumption DEF Ages
<1>1. /\ Window \in Ages /\ Window - 1 \in Ages /\ Window # Window - 1
      /\ \A a \in Ages : a \in Nat /\ a <= Window
      /\ \A a \in Ages : a # 0 => a - 1 \in Ages
  OBVIOUS
<1>2. t \in [Ages -> Nat] /\ \A a, b \in Ages : a <= b => t[a] <= t[b]
  BY DEF Times
<1>3. /\ Fresh(t) \in [Ages -> Nat]
      /\ \A a \in Ages : Fresh(t)[a] = IF a = Window THEN t[Window - 1] ELSE t[a]
  BY <1>1, <1>2 DEF Fresh
<1>4. /\ AppendNow(t) \in [Ages -> Nat] /\ \A a \in Ages : AppendNow(t)[a] = t[a] + 1
  BY <1>1, <1>2 DEF AppendNow
<1>5. /\ Older(t) \in [Ages -> Nat]
      /\ \A a \in Ages : Older(t)[a] = IF a = Window THEN t[a] ELSE IF a = 0 THEN 0 ELSE t[a - 1]
  BY <1>1, <1>2 DEF Older
<1>6. Fresh(t) \in Times
  BY <1>1, <1>2, <1>3 DEF Times
<1>7. AppendNow(t) \in Times
  BY <1>1, <1>2, <1>4 DEF Times
<1>8. Older(t) \in Times
  BY <1>1, <1>2, <1>5 DEF Times
<1>9. Fresh(Fresh(t)) = Fresh(t)
  BY <1>1, <1>2, <1>3 DEF Fresh
<1>10. Fresh(AppendNow(Fresh(t))) = AppendNow(Fresh(t))
  BY <1>1, <1>2, <1>3 DEF Fresh, AppendNow
<1>11. Fresh(Older(Fresh(t))) = Fresh(Older(t))
  <2> DEFINE q == Older(Fresh(t))
  <2>1. q = [a \in Ages |-> IF a = Window THEN t[Window - 1] ELSE IF a = 0 THEN 0 ELSE t[a - 1]]
    BY <1>1, <1>2, <1>3 DEF Older
  <2>2. Fresh(q) = [a \in Ages |-> IF a = Window THEN q[Window - 1] ELSE q[a]]
    BY <1>1, <2>1 DEF Fresh
  <2>3. Fresh(Older(t)) = [a \in Ages |-> IF a = Window THEN Older(t)[Window - 1] ELSE Older(t)[a]]
    BY <1>1, <1>5 DEF Fresh
  <2>4. \A a \in Ages : a # Window => q[a] = Older(t)[a]
    BY <1>5, <2>1
  <2> HIDE DEF q
  <2> QED BY <1>1, <2>2, <2>3, <2>4 DEF q
<1>12. Count(Fresh(t)) = 0 => Fresh(t) = NoTimes
  <2>1. ASSUME Count(Fresh(t)) = 0, NEW a \in Ages PROVE Fresh(t)[a] = 0
    BY <1>1, <1>2, <1>3, <2>1 DEF Count
  <2> QED BY <1>3, <2>1 DEF NoTimes
<1>13. Count(AppendNow(t)) = Count(t) + 1
  BY <1>1, <1>4 DEF Count
<1>14. Count(Fresh(Older(t))) <= Count(t)
  <2>1. Fresh(Older(t))[Window] = Older(t)[Window - 1]
    BY <1>1, <1>5 DEF Fresh
  <2>2. Older(t)[Window - 1] <= t[Window]
    BY <1>1, <1>2, <1>5
  <2> QED BY <2>1, <2>2 DEF Count
<1> QED BY <1>6, <1>7, <1>8, <1>9, <1>10, <1>11, <1>12, <1>13, <1>14

LEMMA NoTimesFacts == NoTimes \in Times /\ Fresh(NoTimes) = NoTimes /\ Count(NoTimes) = 0
BY ConstantsAssumption DEF NoTimes, Times, Fresh, Count, Ages

(***************************************************************************)
(* The inductive invariant.                                                *)
(***************************************************************************)

TypeOK ==
    /\ DOMAIN failures \subseteq IPs
    /\ \A ip \in DOMAIN failures : failures[ip] \in Times
    /\ log \in [IPs -> Times]
    /\ handler \in [Requests -> {"idle", "arrived", "failing"}]
    /\ DOMAIN answer = Requests /\ DOMAIN good = Requests

\* What is left of an address's entry once it is pruned is the log.
EntriesAgree == \A ip \in IPs : PruneOld(failures, ip) = log[ip]

IInv == TypeOK /\ EntriesAgree /\ GuessesBounded

LEMMA OfFacts ==
    ASSUME NEW ip \in IPs
    PROVE  /\ IsFiniteSet(Of(ip)) /\ Cardinality(Of(ip)) \in Nat
           /\ IsFiniteSet(Failing(ip)) /\ Cardinality(Failing(ip)) \in Nat
           /\ Cardinality(Failing(ip)) <= Cardinality(Of(ip))
<1>1. Of(ip) \subseteq Requests /\ Failing(ip) \subseteq Of(ip)
  BY DEF Of, Failing
<1>2. IsFiniteSet(Of(ip))
  BY <1>1, FS_Subset, ConstantsAssumption
<1>3. IsFiniteSet(Failing(ip)) /\ Cardinality(Failing(ip)) <= Cardinality(Of(ip))
  BY <1>1, <1>2, FS_Subset
<1> QED BY <1>2, <1>3, FS_CardinalityType

LEMMA InitIInv == Init => IInv
<1> SUFFICES ASSUME Init PROVE IInv
  OBVIOUS
<1> USE DEF Init
<1>1. TypeOK
  BY NoTimesFacts DEF TypeOK, NoFailures
<1>2. EntriesAgree
  BY DEF EntriesAgree, PruneOld, NoFailures
<1>3. GuessesBounded
  <2> SUFFICES ASSUME NEW ip \in IPs
               PROVE  Count(log[ip]) + Cardinality(Failing(ip)) <= Limit - 1 + Cardinality(Of(ip))
    BY DEF GuessesBounded
  <2>1. Count(log[ip]) = 0 /\ Limit - 1 >= 0
    BY NoTimesFacts, ConstantsAssumption
  <2> QED BY <2>1, OfFacts, ConstantsAssumption
<1> QED BY <1>1, <1>2, <1>3 DEF IInv

(***************************************************************************)
(* Every step keeps it.                                                    *)
(***************************************************************************)

\* The counts do not grow: the bound is kept, whoever gave up failing.
LEMMA BoundKept ==
    ASSUME IInv, TypeOK',
           \A ip \in IPs : Count(log'[ip]) <= Count(log[ip]) /\ Count(log'[ip]) \in Nat /\ Count(log[ip]) \in Nat,
           \A r \in Requests : handler'[r] = "failing" => handler[r] = "failing"
    PROVE  GuessesBounded'
<1> SUFFICES ASSUME NEW ip \in IPs
             PROVE  Count(log'[ip]) + Cardinality(Failing(ip)') <= Limit - 1 + Cardinality(Of(ip))
  BY DEF GuessesBounded, Of
<1>1. Failing(ip)' \subseteq Failing(ip)
  BY DEF Failing, Of
<1>2. Cardinality(Failing(ip)') <= Cardinality(Failing(ip)) /\ Cardinality(Failing(ip)') \in Nat
  BY <1>1, OfFacts, FS_Subset, FS_CardinalityType
<1>3. Count(log[ip]) + Cardinality(Failing(ip)) <= Limit - 1 + Cardinality(Of(ip))
  BY DEF IInv, GuessesBounded
<1> QED BY <1>2, <1>3, OfFacts, ConstantsAssumption

LEMMA CountType == \A t \in Times : Count(t) \in Nat
BY ConstantsAssumption DEF Times, Count, Ages

LEMMA ArrivePreserves ==
    ASSUME IInv, NEW r \in Requests, Arrive(r)
    PROVE  IInv'
<1>1. UNCHANGED <<failures, log>> /\ handler' = [handler EXCEPT ![r] = "arrived"]
  BY DEF Arrive
<1>2. TypeOK'
  BY <1>1 DEF IInv, TypeOK, Arrive
<1>3. EntriesAgree'
  BY <1>1 DEF IInv, EntriesAgree, PruneOld
<1>4. GuessesBounded'
  BY <1>1, <1>2, BoundKept, CountType DEF IInv, TypeOK
<1> QED BY <1>2, <1>3, <1>4 DEF IInv

\* The first critical section: a request goes on to fail only under the limit.
LEMMA CheckPreserves ==
    ASSUME IInv, NEW r \in Requests, Check(r)
    PROVE  IInv'
<1> DEFINE ip == IpOf[r]
<1> DEFINE valid == PruneOld(failures, ip)
<1>1. ip \in IPs /\ TypeOK
  BY ConstantsAssumption DEF IInv
<1>2. /\ failures' = Put(failures, ip, valid) /\ UNCHANGED <<good, log>>
      /\ handler' = [handler EXCEPT ![r] = IF OverLimit(valid) \/ good[r] THEN "idle" ELSE "failing"]
      /\ DOMAIN answer' = DOMAIN answer
  BY DEF Check, IsBlocked
<1>3. valid = log[ip] /\ valid \in Times
  BY <1>1 DEF IInv, EntriesAgree, TypeOK
<1>4. Fresh(valid) = valid
  BY <1>1, NoTimesFacts, TimesFacts DEF PruneOld, TypeOK
<1>5. /\ DOMAIN failures' = DOMAIN failures \cup {ip}
      /\ \A i \in DOMAIN failures' : failures'[i] = IF i = ip THEN valid ELSE failures[i]
  BY <1>2 DEF Put
<1>6. TypeOK'
  BY <1>1, <1>2, <1>3, <1>5 DEF TypeOK
<1>7. EntriesAgree'
  BY <1>2, <1>3, <1>4, <1>5 DEF IInv, EntriesAgree, PruneOld
<1>8. GuessesBounded'
  <2>1. CASE handler'[r] # "failing"
    BY <1>1, <1>2, <1>6, <2>1, BoundKept, CountType DEF TypeOK
  <2>2. CASE handler'[r] = "failing"
    <3> SUFFICES ASSUME NEW i \in IPs
                 PROVE  Count(log[i]) + Cardinality(Failing(i)') <= Limit - 1 + Cardinality(Of(i))
      BY <1>2 DEF GuessesBounded, Of
    <3>1. CASE i = ip
      <4>1. ~OverLimit(valid)
        BY <1>1, <1>2, <2>2 DEF TypeOK
      <4>2. Count(log[i]) <= Limit - 1 /\ Count(log[i]) \in Nat
        BY <1>3, <3>1, <4>1, CountType, ConstantsAssumption DEF OverLimit
      <4>3. Failing(i)' \subseteq Of(i)
        BY DEF Failing, Of
      <4>4. Cardinality(Failing(i)') <= Cardinality(Of(i)) /\ Cardinality(Failing(i)') \in Nat
        BY <4>3, OfFacts, FS_Subset, FS_CardinalityType
      <4> QED BY <4>2, <4>4, OfFacts, ConstantsAssumption
    <3>2. CASE i # ip
      <4>1. Failing(i)' = Failing(i)
        BY <1>1, <1>2, <3>2 DEF Failing, Of, TypeOK
      <4> QED BY <4>1 DEF IInv, GuessesBounded
    <3> QED BY <3>1, <3>2
  <2> QED BY <2>1, <2>2
<1> QED BY <1>6, <1>7, <1>8 DEF IInv

\* The second: a failure more in the log, one failing request less.
LEMMA RecordFailurePreserves ==
    ASSUME IInv, NEW r \in Requests, RecordFailure(r)
    PROVE  IInv'
<1> DEFINE ip == IpOf[r]
           full == Cardinality(Tracked) >= MaxIPs
           kept == IF full THEN NoFailures ELSE failures
           old(i) == IF full THEN NoTimes ELSE log[i]
<1>1. ip \in IPs /\ TypeOK /\ handler[r] = "failing"
  BY ConstantsAssumption DEF IInv, RecordFailure
<1>2. /\ failures' = Put(kept, ip, AppendNow(PruneOld(kept, ip)))
      /\ log' = [i \in IPs |-> IF i = ip THEN AppendNow(old(i)) ELSE old(i)]
      /\ handler' = [handler EXCEPT ![r] = "idle"]
      /\ DOMAIN answer' = DOMAIN answer /\ UNCHANGED good
  BY DEF RecordFailure
<1>3. /\ DOMAIN kept \subseteq IPs /\ \A i \in DOMAIN kept : kept[i] \in Times
      /\ \A i \in IPs : PruneOld(kept, i) = old(i) /\ old(i) \in Times
  BY <1>1, NoTimesFacts DEF NoFailures, PruneOld, IInv, EntriesAgree, TypeOK
<1>4. Fresh(AppendNow(old(ip))) = AppendNow(old(ip))
  <2>1. Fresh(old(ip)) = old(ip)
    <3>1. ip \in DOMAIN kept => Fresh(Fresh(kept[ip])) = Fresh(kept[ip])
      BY <1>3, TimesFacts
    <3> QED BY <1>1, <1>3, <3>1, NoTimesFacts DEF PruneOld
  <2> QED BY <1>1, <1>3, <2>1, TimesFacts
<1>5. /\ DOMAIN failures' = DOMAIN kept \cup {ip}
      /\ \A i \in DOMAIN failures' : failures'[i] = IF i = ip THEN AppendNow(old(ip)) ELSE kept[i]
  BY <1>1, <1>2, <1>3 DEF Put
<1>6. TypeOK'
  <2>1. AppendNow(old(ip)) \in Times
    BY <1>1, <1>3, TimesFacts
  <2>2. log' \in [IPs -> Times]
    BY <1>1, <1>2, <1>3, <2>1
  <2>3. DOMAIN failures' \subseteq IPs /\ \A i \in DOMAIN failures' : failures'[i] \in Times
    BY <1>1, <1>3, <1>5, <2>1
  <2> QED BY <1>1, <1>2, <2>2, <2>3 DEF TypeOK
<1>7. EntriesAgree'
  <2> SUFFICES ASSUME NEW i \in IPs PROVE PruneOld(failures', i) = log'[i]
    BY DEF EntriesAgree, PruneOld
  <2>1. CASE i = ip
    BY <1>1, <1>2, <1>4, <1>5, <2>1 DEF PruneOld
  <2>2. CASE i # ip
    <3>1. PruneOld(failures', i) = PruneOld(kept, i)
      BY <1>5, <2>2 DEF PruneOld
    <3> QED BY <1>2, <1>3, <2>2, <3>1
  <2> QED BY <2>1, <2>2
<1>8. GuessesBounded'
  <2> SUFFICES ASSUME NEW i \in IPs
               PROVE  Count(log'[i]) + Cardinality(Failing(i)') <= Limit - 1 + Cardinality(Of(i))
    BY DEF GuessesBounded, Of
  <2>1. /\ Count(old(i)) \in Nat /\ Count(log[i]) \in Nat /\ Count(old(i)) <= Count(log[i])
        /\ Count(log[i]) + Cardinality(Failing(i)) <= Limit - 1 + Cardinality(Of(i))
    BY <1>1, <1>3, CountType, NoTimesFacts DEF IInv, GuessesBounded, TypeOK
  <2>2. CASE i = ip
    <3>1. Count(log'[i]) = Count(old(i)) + 1
      BY <1>2, <1>3, <2>2, TimesFacts
    <3>2. Failing(i)' = Failing(i) \ {r} /\ r \in Failing(i)
      BY <1>1, <1>2, <2>2 DEF Failing, Of, TypeOK
    <3>3. Cardinality(Failing(i)') = Cardinality(Failing(i)) - 1
      BY <3>2, OfFacts, FS_RemoveElement
    <3> QED BY <2>1, <3>1, <3>3, OfFacts, ConstantsAssumption
  <2>3. CASE i # ip
    <3>1. Failing(i)' = Failing(i) /\ log'[i] = old(i)
      BY <1>1, <1>2, <2>3 DEF Failing, Of, TypeOK
    <3> QED BY <2>1, <3>1, OfFacts, ConstantsAssumption
  <2> QED BY <2>2, <2>3
<1> QED BY <1>6, <1>7, <1>8 DEF IInv

LEMMA CleanupPreserves ==
    ASSUME IInv, Cleanup
    PROVE  IInv'
<1> DEFINE live == {i \in Tracked : Count(Fresh(failures[i])) # 0}
<1>1. TypeOK /\ EntriesAgree
  BY DEF IInv
<1>2. /\ failures' = [ip \in live |-> Fresh(failures[ip])]
      /\ UNCHANGED <<handler, good, answer, log>>
  BY DEF Cleanup
<1>3. DOMAIN failures' = live /\ \A ip \in live : failures'[ip] = Fresh(failures[ip])
  BY <1>2
<1>4. TypeOK'
  BY <1>1, <1>2, <1>3, TimesFacts DEF TypeOK, Tracked
<1>5. EntriesAgree'
  <2> SUFFICES ASSUME NEW ip \in IPs PROVE PruneOld(failures', ip) = PruneOld(failures, ip)
    BY <1>1, <1>2 DEF EntriesAgree, PruneOld
  <2>1. CASE ip \in live
    BY <1>1, <1>3, <2>1, TimesFacts DEF PruneOld, TypeOK, Tracked
  <2>2. CASE ip \in Tracked \ live
    BY <1>1, <1>3, <2>2, TimesFacts DEF PruneOld, TypeOK, Tracked
  <2>3. CASE ip \notin Tracked
    BY <1>3, <2>3 DEF PruneOld, Tracked
  <2> QED BY <2>1, <2>2, <2>3
<1>6. GuessesBounded'
  BY <1>1, <1>2, <1>4, BoundKept, CountType DEF TypeOK
<1> QED BY <1>4, <1>5, <1>6 DEF IInv

LEMMA TickPreserves ==
    ASSUME IInv, Tick
    PROVE  IInv'
<1>1. TypeOK /\ EntriesAgree
  BY DEF IInv
<1>2. /\ failures' = [ip \in Tracked |-> Older(failures[ip])]
      /\ log' = [ip \in IPs |-> Fresh(Older(log[ip]))]
      /\ UNCHANGED <<handler, good, answer>>
  BY DEF Tick
<1>3. \A ip \in IPs : log[ip] \in Times /\ log'[ip] = Fresh(Older(log[ip]))
  BY <1>1, <1>2 DEF TypeOK
<1>4. \A ip \in IPs : log'[ip] \in Times /\ Count(log'[ip]) <= Count(log[ip])
  BY <1>3, TimesFacts
<1>5. TypeOK'
  BY <1>1, <1>2, <1>4, TimesFacts DEF TypeOK, Tracked
<1>6. EntriesAgree'
  <2> SUFFICES ASSUME NEW ip \in IPs PROVE PruneOld(failures', ip) = Fresh(Older(log[ip]))
    BY <1>3 DEF EntriesAgree, PruneOld
  <2>1. CASE ip \in Tracked
    <3>1. failures[ip] \in Times /\ log[ip] = Fresh(failures[ip])
      BY <1>1, <2>1 DEF TypeOK, EntriesAgree, PruneOld, Tracked
    <3>2. PruneOld(failures', ip) = Fresh(Older(failures[ip]))
      BY <1>2, <2>1 DEF PruneOld
    <3> QED BY <3>1, <3>2, TimesFacts
  <2>2. CASE ip \notin Tracked
    <3>1. log[ip] = NoTimes /\ PruneOld(failures', ip) = NoTimes
      BY <1>1, <1>2, <2>2 DEF EntriesAgree, PruneOld, Tracked
    <3>2. Count(Fresh(Older(NoTimes))) = 0
      BY NoTimesFacts, TimesFacts, CountType
    <3> QED BY <3>1, <3>2, NoTimesFacts, TimesFacts
  <2> QED BY <2>1, <2>2
<1>7. GuessesBounded'
  BY <1>2, <1>3, <1>4, <1>5, BoundKept, CountType
<1> QED BY <1>5, <1>6, <1>7 DEF IInv

LEMMA StepIInv == IInv /\ [Next]_vars => IInv'
<1> SUFFICES ASSUME IInv, [Next]_vars PROVE IInv'
  OBVIOUS
<1>1. CASE UNCHANGED vars
  BY <1>1 DEF vars, IInv, TypeOK, EntriesAgree, PruneOld, GuessesBounded, Failing, Of
<1> QED
  BY <1>1, ArrivePreserves, CheckPreserves, RecordFailurePreserves, CleanupPreserves, TickPreserves DEF Next

LEMMA Invariance == Safe => []IInv
BY InitIInv, StepIInv, PTL DEF Safe

(***************************************************************************)
(* The theorems.                                                           *)
(***************************************************************************)

\* Between two evictions an address has, within one window, at most limit - 1
\* wrong tokens compared beside those of its requests in flight, however its
\* requests interleave between IsBlocked and RecordFailure (http.go:568, 577).
THEOREM GuessesBoundedHolds == Safe => []GuessesBounded
<1>1. IInv => GuessesBounded
  BY DEF IInv
<1> QED BY <1>1, Invariance, PTL

\* A request is answered 429 exactly when its address has failed so often in
\* the last window, whatever prunings, cleanups and evictions there were
\* (middleware.go:33-94).
THEOREM BlockedForCauseHolds == Safe => BlockedForCause
<1>1. IInv /\ [Next]_vars =>
        [\A r \in Requests : Check(r) => (answer'[r] = "429" <=> Count(log[IpOf[r]]) >= Limit)]_vars
  <2> SUFFICES ASSUME IInv, NEW r \in Requests, Check(r)
               PROVE  answer'[r] = "429" <=> Count(log[IpOf[r]]) >= Limit
    OBVIOUS
  <2>1. PruneOld(failures, IpOf[r]) = log[IpOf[r]] /\ DOMAIN answer = Requests
    BY ConstantsAssumption DEF IInv, EntriesAgree, TypeOK
  <2> QED BY <2>1 DEF Check, IsBlocked, OverLimit
<1> QED BY <1>1, Invariance, PTL DEF Safe, BlockedForCause
=============================================================================
