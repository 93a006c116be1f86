------------------------ MODULE EdgeConnectionProofs ------------------------
(* Proofs about EdgeConnection, for any number of connections and signals  *)
(* and any background loops and handlers.                                  *)
EXTENDS EdgeConnection, SequenceTheorems, TLAPS

(***************************************************************************)
(* The queue of the stop channel: who is in it, each once, and what is     *)
(* left of that when one enters, is served or gives up.                    *)
(***************************************************************************)

Receivers == {"main", "health", "loop"}

Has(q, g) == \E i \in 1 .. Len(q) : q[i] = g
Distinct(q) == \A i, j \in 1 .. Len(q) : q[i] = q[j] => i = j

\* Nobody but the loop goroutine waits longer than main.
OnlyLoopBeforeMain(q) == \A j \in 1 .. Len(q) : q[j] = "main" =>
                            \A i \in 1 .. Len(q) : i < j => q[i] = "loop"

LEMMA Enter ==
    ASSUME NEW q \in Seq(Receivers), NEW g \in Receivers, Distinct(q), ~Has(q, g)
    PROVE  /\ Append(q, g) \in Seq(Receivers)
           /\ Distinct(Append(q, g))
           /\ \A h : Has(Append(q, g), h) <=> Has(q, h) \/ h = g
           /\ g # "main" /\ OnlyLoopBeforeMain(q) => OnlyLoopBeforeMain(Append(q, g))
<1> DEFINE p == Append(q, g)
<1>1. /\ p \in Seq(Receivers) /\ Len(p) = Len(q) + 1 /\ Len(q) \in Nat
      /\ \A i \in 1 .. Len(q) : p[i] = q[i]
      /\ p[Len(q) + 1] = g
  BY AppendProperties, LenProperties
<1> HIDE DEF p
<1>2. \A i \in 1 .. Len(p) : (i \in 1 .. Len(q) /\ p[i] = q[i]) \/ (i = Len(q) + 1 /\ p[i] = g)
  BY <1>1
<1>3. 1 .. Len(q) \subseteq 1 .. Len(p) /\ Len(p) \in 1 .. Len(p)
  BY <1>1
<1>4. Distinct(p)
  BY <1>2 DEF Distinct, Has
<1>5. \A h : Has(p, h) <=> Has(q, h) \/ h = g
  BY <1>1, <1>2, <1>3 DEF Has
<1>6. g # "main" /\ OnlyLoopBeforeMain(q) => OnlyLoopBeforeMain(p)
  BY <1>1, <1>2 DEF OnlyLoopBeforeMain
<1> QED BY <1>1, <1>4, <1>5, <1>6 DEF p

LEMMA Serve ==
    ASSUME NEW q \in Seq(Receivers), q # <<>>, Distinct(q)
    PROVE  /\ Head(q) \in Receivers /\ Tail(q) \in Seq(Receivers)
           /\ Distinct(Tail(q))
           /\ \A h : Has(Tail(q), h) <=> Has(q, h) /\ h # Head(q)
           /\ OnlyLoopBeforeMain(q) => OnlyLoopBeforeMain(Tail(q))
           /\ OnlyLoopBeforeMain(q) /\ Has(q, "main") => Head(q) \in {"main", "loop"}
           /\ Head(q) = "health" => OnlyLoopBeforeMain(Tail(q))
<1> DEFINE p == Tail(q)
<1>1. /\ p \in Seq(Receivers) /\ Len(p) = Len(q) - 1 /\ Len(q) \in Nat \ {0}
      /\ \A i \in 1 .. Len(p) : p[i] = q[i + 1]
      /\ Head(q) = q[1] /\ Head(q) \in Receivers
  BY HeadTailProperties, LenProperties, EmptySeq
<1> HIDE DEF p
<1>2. \A i \in 1 .. Len(q) : i = 1 \/ (i - 1 \in 1 .. Len(p) /\ p[i - 1] = q[i])
  BY <1>1
<1>3. \A i \in 1 .. Len(p) : i + 1 \in 1 .. Len(q) /\ i + 1 # 1 /\ p[i] = q[i + 1]
  BY <1>1
<1>4. Distinct(p)
  BY <1>3 DEF Distinct
<1>5. 1 \in 1 .. Len(q)
  BY <1>1
<1>6. ASSUME NEW h PROVE Has(p, h) <=> Has(q, h) /\ h # Head(q)
  BY <1>1, <1>2, <1>3, <1>5 DEF Has, Distinct
<1>7. OnlyLoopBeforeMain(q) => OnlyLoopBeforeMain(p)
  BY <1>3 DEF OnlyLoopBeforeMain
<1>8. OnlyLoopBeforeMain(q) /\ Has(q, "main") => Head(q) \in {"main", "loop"}
  BY <1>1, <1>2, <1>5 DEF OnlyLoopBeforeMain, Has
<1>9. Head(q) = "health" => OnlyLoopBeforeMain(p)
  <2> SUFFICES ASSUME Head(q) = "health",
                      NEW j \in 1 .. Len(p), NEW i \in 1 .. Len(p), p[j] = "main", i < j
               PROVE  p[i] = "loop"
    BY DEF OnlyLoopBeforeMain
  <2>1. p[i] # "health" /\ p[i] # "main"
    BY <1>1, <1>3, <1>5 DEF Distinct
  <2> QED BY <1>1, <2>1, ElementOfSeq DEF Receivers
<1> QED BY <1>1, <1>4, <1>6, <1>7, <1>8, <1>9 DEF p

LEMMA GiveUp ==
    ASSUME NEW q \in Seq(Receivers), NEW k \in DOMAIN q, q[k] = "loop", Distinct(q)
    PROVE  /\ RemoveAt(q, k) \in Seq(Receivers)
           /\ Distinct(RemoveAt(q, k))
           /\ \A h : Has(RemoveAt(q, k), h) <=> Has(q, h) /\ h # "loop"
           /\ OnlyLoopBeforeMain(q) => OnlyLoopBeforeMain(RemoveAt(q, k))
<1> DEFINE a == SubSeq(q, 1, k - 1)
           b == SubSeq(q, k + 1, Len(q))
           p == a \o b
<1>1. k \in 1 .. Len(q) /\ Len(q) \in Nat /\ \A i \in 1 .. Len(q) : q[i] \in Receivers
  BY LenProperties, ElementOfSeq
<1>2. /\ a \in Seq(Receivers) /\ Len(a) = k - 1
      /\ \A i \in 1 .. k - 1 : a[i] = q[i]
  BY <1>1, SubSeqProperties
<1>3. /\ b \in Seq(Receivers) /\ Len(b) = Len(q) - k
      /\ \A i \in 1 .. Len(q) - k : b[i] = q[k + i]
  BY <1>1, SubSeqProperties
<1>4. /\ p \in Seq(Receivers) /\ Len(p) = Len(a) + Len(b)
      /\ \A i \in 1 .. Len(a) + Len(b) : p[i] = IF i <= Len(a) THEN a[i] ELSE b[i - Len(a)]
  BY <1>2, <1>3, ConcatProperties
<1> HIDE DEF a, b, p
<1>5. Len(p) = Len(q) - 1 /\ \A i \in 1 .. Len(p) : p[i] = IF i < k THEN q[i] ELSE q[i + 1]
  <2>1. Len(p) = Len(q) - 1 /\ k \in Nat \ {0} /\ k <= Len(q)
    BY <1>1, <1>2, <1>3, <1>4
  <2>2. ASSUME NEW i \in 1 .. Len(p), i < k PROVE p[i] = q[i]
    BY <1>1, <1>2, <1>4, <2>1, <2>2
  <2>3. ASSUME NEW i \in 1 .. Len(p), ~(i < k) PROVE p[i] = q[i + 1]
    <3>1. i - (k - 1) \in 1 .. Len(q) - k /\ k + (i - (k - 1)) = i + 1
      BY <2>1, <2>3
    <3>2. b[i - (k - 1)] = q[i + 1]
      BY <1>3, <3>1
    <3>3. i \in 1 .. Len(a) + Len(b) /\ ~(i <= Len(a))
      BY <1>2, <1>4, <2>1, <2>3
    <3>4. p[i] = b[i - Len(a)]
      BY <1>4, <3>3
    <3> QED BY <1>2, <3>2, <3>4
  <2> QED BY <2>1, <2>2, <2>3
<1>6. \A i \in 1 .. Len(q) : \/ i = k
                             \/ i \in 1 .. Len(p) /\ p[i] = q[i]
                             \/ i - 1 \in 1 .. Len(p) /\ p[i - 1] = q[i]
  BY <1>1, <1>5
<1>7. Distinct(p)
  BY <1>1, <1>5 DEF Distinct
<1>8. ASSUME NEW h PROVE Has(p, h) <=> Has(q, h) /\ h # "loop"
  <2>1. ASSUME NEW i \in 1 .. Len(p)
        PROVE  \E j \in 1 .. Len(q) : j # k /\ p[i] = q[j]
    BY <1>1, <1>5
  <2>2. ASSUME NEW i \in 1 .. Len(q), q[i] # "loop"
        PROVE  \E j \in 1 .. Len(p) : p[j] = q[i]
    BY <1>1, <1>6, <2>2
  <2> QED BY <1>1, <2>1, <2>2 DEF Has, Distinct
<1>9. OnlyLoopBeforeMain(q) => OnlyLoopBeforeMain(p)
  BY <1>1, <1>5 DEF OnlyLoopBeforeMain
<1>10. p = RemoveAt(q, k)
  BY DEF p, a, b, RemoveAt
<1> QED BY <1>4, <1>7, <1>8, <1>9, <1>10

(***************************************************************************)
(* The inductive invariant.                                                *)
(***************************************************************************)

TaskStates == {"none", "idle", "sending", "writing", "ended", "gone"}
Labels == {"starting", "top", "dial", "publish", "hello", "greeting", "welcome", "begin", "check", "backoff",
           "returned", "gone"} \cup Running

TypeOK ==
    /\ loop \in Labels
    /\ n \in 0 .. MaxConns /\ conn \in 0 .. MaxConns
    /\ sock \in [Conns -> {"none", "open", "slow", "lost", "closed"}]
    /\ first \in [Conns -> {"none", "hello", "other"}]
    /\ connected \in BOOLEAN /\ done \subseteq Conns
    /\ task \in [Tasks -> TaskStates] /\ mu \in Tasks \cup {TheLoop, Free}
    /\ buffered \in BOOLEAN /\ recvq \in Seq(Receivers)
    /\ main \in {"starting", "waiting", "stopping", "gone"}
    /\ health \in {"none", "starting", "waiting", "stopping", "gone"}
    /\ signals \in Nat /\ heard \in Nat

Linked == {"hello", "greeting", "welcome", "begin", "poll stop", "take conn", "read", "closing"}

\* A task that was started and whose process has not ended.
Started(t) == task[t] \notin {"none", "gone"}

\* c.conn is the loop's connection while the loop greets and reads; no task is
\* of a later connection than c.conn.
LinkAgrees ==
    /\ loop \in Linked \cup {"publish", "leaving"} => n \in Conns
    /\ loop \in Linked => conn = n
    /\ conn <= n
    /\ \A t \in Tasks : Started(t) => t[1] <= n /\ (conn = 0 \/ t[1] <= conn)

\* A goroutine is in the queue of the stop channel, once, only while it waits;
\* there is none of the health server before Run starts it.
QueueAgrees ==
    /\ Distinct(recvq)
    /\ Has(recvq, "loop") => loop = "backoff" \/ exited
    /\ Has(recvq, "main") => main = "waiting" \/ exited
    /\ main = "waiting" => Has(recvq, "main")
    /\ Has(recvq, "health") => health = "waiting" \/ exited
    /\ exited => loop = "gone" /\ health = "gone"
    /\ loop = "starting" => health = "none"

\* After one signal since main began to wait, only the loop goroutine can be
\* ahead of it for the next.
StopAgrees ==
    /\ main = "starting" => heard = 0
    /\ heard = 1 /\ main = "waiting" /\ loop # "returned" => OnlyLoopBeforeMain(recvq)

\* Nothing of a connection runs before something was written on it.
HelloAgrees ==
    /\ loop \in {"greeting", "welcome", "begin"} \cup Running => first[n] # "none"
    /\ \A t \in Tasks : Started(t) => first[t[1]] # "none"

IInv ==
    /\ TypeOK /\ LinkAgrees /\ QueueAgrees /\ StopAgrees /\ HelloAgrees
    /\ OthersToldToEnd /\ SecondSignalStops /\ OnlyLeftoversPrecedeHello

LEMMA TaskFields == \A t \in Tasks : t[1] \in Conns /\ t = <<t[1], t[2]>>
BY DEF Tasks

LEMMA InitIInv == Init => IInv
<1> SUFFICES ASSUME Init PROVE IInv
  OBVIOUS
<1> USE ConstantsAssumption DEF Init
<1>1. recvq \in Seq(Receivers) /\ Len(recvq) = 0
  BY EmptySeq
<1>2. TypeOK
  <2>1. /\ task \in [Tasks -> TaskStates] /\ sock \in [Conns -> {"none", "open", "slow", "lost", "closed"}]
        /\ first \in [Conns -> {"none", "hello", "other"}]
    BY DEF TaskStates
  <2>2. loop \in Labels /\ n \in 0 .. MaxConns /\ conn \in 0 .. MaxConns /\ mu \in Tasks \cup {TheLoop, Free}
    BY DEF Labels
  <2>3. connected \in BOOLEAN /\ done \subseteq Conns /\ buffered \in BOOLEAN
    OBVIOUS
  <2>4. signals \in Nat /\ heard \in Nat /\ main = "starting" /\ health = "none"
    OBVIOUS
  <2> QED BY <1>1, <2>1, <2>2, <2>3, <2>4 DEF TypeOK
<1>3. LinkAgrees /\ HelloAgrees /\ OthersToldToEnd /\ OnlyLeftoversPrecedeHello
  BY DEF LinkAgrees, HelloAgrees, OthersToldToEnd, OnlyLeftoversPrecedeHello, Linked, Running,
         Started
<1>4. QueueAgrees /\ StopAgrees /\ SecondSignalStops
  BY <1>1 DEF QueueAgrees, StopAgrees, SecondSignalStops, Has, Distinct, exited
<1> QED BY <1>2, <1>3, <1>4 DEF IInv

\* The loop goroutine is in the queue only while it backs off, so a signal finds
\* it there and nowhere else.
LEMMA SignalMoves ==
    ASSUME IInv, Signal
    PROVE  /\ loop' = loop \/ (loop = "backoff" /\ loop' = "returned")
           /\ main' = main \/ (main = "waiting" /\ main' = "stopping")
           /\ health' = health \/ (health = "waiting" /\ health' = "stopping")
<1>1. CASE recvq = <<>>
  BY <1>1 DEF Signal
<1>2. CASE recvq # <<>>
  <2>1. Has(recvq, Head(recvq))
    <3>1. Head(recvq) = recvq[1] /\ 1 \in 1 .. Len(recvq)
      BY <1>2, EmptySeq, LenProperties DEF IInv, TypeOK
    <3> QED BY <3>1 DEF Has
  <2> QED BY <1>2, <2>1 DEF Signal, IInv, QueueAgrees, exited
<1> QED BY <1>1, <1>2

(***************************************************************************)
(* Every step keeps it.  The conjuncts are taken one group at a time.      *)
(***************************************************************************)

USE DEF linkVars, taskVars, stopVars

LEMMA WriteTyped ==
    ASSUME TypeOK, NEW i \in Conns, NEW kind \in {"hello", "other"}, Write(i, kind)
    PROVE  /\ first' \in [Conns -> {"none", "hello", "other"}] /\ first'[i] # "none"
           /\ \A j \in Conns : first'[j] = first[j] \/ (j = i /\ first[i] = "none" /\ first'[j] = kind)
BY DEF TypeOK, Write

LEMMA TypeStep == IInv /\ [Next]_vars => TypeOK'
<1> USE ConstantsAssumption DEF Poll
<1> SUFFICES ASSUME IInv, [Next]_vars PROVE TypeOK'
  OBVIOUS
<1>0. TypeOK /\ LinkAgrees /\ QueueAgrees
  BY DEF IInv
<1> USE <1>0
<1>1. CASE Signal
  <2>1. loop' \in Labels
    BY <1>1, SignalMoves DEF TypeOK, Labels
  <2>2. recvq' \in Seq(Receivers)
    BY <1>1, Serve DEF Signal, TypeOK, QueueAgrees
  <2>3. buffered' \in BOOLEAN /\ signals' \in Nat /\ heard' \in Nat
    <3>1. signals' = signals + 1 /\ heard' \in {heard, heard + 1}
      BY <1>1 DEF Signal
    <3>2. buffered' = TRUE \/ buffered' = buffered
      BY <1>1 DEF Signal
    <3>3. signals \in Nat /\ heard \in Nat
      BY DEF TypeOK
    <3>4. buffered' \in BOOLEAN
      BY <3>2 DEF TypeOK
    <3> QED BY <3>1, <3>3, <3>4
  <2>4. main' \in {"starting", "waiting", "stopping", "gone"}
        /\ health' \in {"none", "starting", "waiting", "stopping", "gone"}
    BY <1>1, SignalMoves DEF TypeOK
  <2> QED BY <1>1, <2>1, <2>2, <2>3, <2>4 DEF Signal, TypeOK
<1>2. CASE MainSelects \/ HealthReceives
  <2>1. ASSUME NEW g \in Receivers, ~buffered, recvq' = Append(recvq, g)
        PROVE  recvq' \in Seq(Receivers)
    BY <2>1, AppendProperties DEF TypeOK
  <2>2. recvq' \in Seq(Receivers)
    BY <1>2, <2>1 DEF MainSelects, HealthReceives, TypeOK, Receivers
  <2>3. CASE MainSelects
    BY <2>2, <2>3 DEF MainSelects, TypeOK
  <2>4. CASE HealthReceives
    BY <2>2, <2>4 DEF HealthReceives, TypeOK
  <2> QED BY <1>2, <2>3, <2>4
<1>3. CASE MainReturns
  BY <1>3 DEF MainReturns, TypeOK, Labels, TaskStates
<1>4. CASE CheckStop
  <2>1. recvq' \in Seq(Receivers)
    BY <1>4, AppendProperties DEF CheckStop, TypeOK, Receivers
  <2> QED BY <1>4, <2>1 DEF CheckStop, TypeOK, Labels
<1>5. CASE BackoffEnds
  <2>1. recvq' \in Seq(Receivers)
    BY <1>5, GiveUp DEF BackoffEnds, TypeOK, QueueAgrees
  <2> QED BY <1>5, <2>1 DEF BackoffEnds, TypeOK, Labels
<1>6. CASE TopOfLoop \/ LeaveRun \/ DialFails \/ ReceiveWelcome \/ TakeConn \/ RunFails \/ StartRun
  BY <1>6 DEF TopOfLoop, LeaveRun, DialFails, ReceiveWelcome, TakeConn, RunFails, StartRun,
              TypeOK, Labels, Running
<1>7. CASE PollStop \/ ReadFails
  <2>1. n \in Conns
    BY <1>7 DEF PollStop, ReadFails, LinkAgrees, Linked
  <2> QED BY <1>7, <2>1 DEF PollStop, ReadFails, TypeOK, Labels, Running
<1>8. CASE Dial
  <2>1. n' \in 0 .. MaxConns
    BY <1>8 DEF Dial, TypeOK
  <2> QED BY <1>8, <2>1 DEF Dial, TypeOK, Labels
<1>9. CASE BeginRun
  <2>1. task' \in [Tasks -> TaskStates]
    BY <1>9 DEF BeginRun, TypeOK, TaskStates
  <2> QED BY <1>9, <2>1 DEF BeginRun, TypeOK, Labels, Running
<1>10. CASE Publish \/ ConnectFails \/ Close
  <2>1. CASE Publish
    BY <1>10, <2>1 DEF Publish, TypeOK, Labels
  <2>2. CASE ConnectFails
    BY <1>10, <2>2 DEF ConnectFails, TypeOK, Labels
  <2>3. CASE Close
    <3>1. conn' \in 0 .. MaxConns
      BY <2>3 DEF Close
    <3> QED BY <2>3, <3>1 DEF Close, TypeOK, Labels, Running
  <2> QED BY <1>10, <2>1, <2>2, <2>3
<1>11. CASE SendHello
  <2>1. n \in Conns
    BY <1>11 DEF SendHello, LinkAgrees, Linked
  <2> QED BY <1>11, <2>1, WriteTyped DEF SendHello, TypeOK, Labels
<1>17. CASE EndHello
  BY <1>17 DEF EndHello, TypeOK, Labels
<1>12. CASE ReadMessage
  BY <1>12 DEF ReadMessage, TypeOK, Labels, Running, TaskStates
<1>13. ASSUME NEW t \in Tasks, Tick(t) \/ EndWrite(t) \/ LoopEnds(t) PROVE TypeOK'
  BY <1>13 DEF Tick, EndWrite, LoopEnds, Sent, TypeOK, TaskStates
<1>14. ASSUME NEW t \in Tasks, StartWrite(t) PROVE TypeOK'
  <2>1. task' \in [Tasks -> TaskStates]
    BY <1>14 DEF StartWrite, Sent, TypeOK, TaskStates
  <2>2. mu' \in Tasks \cup {TheLoop, Free}
    BY <1>14 DEF StartWrite, TypeOK
  <2>3. first' \in [Conns -> {"none", "hello", "other"}]
    <3>1. CASE conn = 0
      BY <1>14, <3>1 DEF StartWrite, TypeOK
    <3>2. CASE conn # 0
      <4>1. conn \in Conns
        BY <3>2 DEF TypeOK, Conns
      <4> QED BY <1>14, <3>2, <4>1, WriteTyped DEF StartWrite
    <3> QED BY <3>1, <3>2
  <2> QED BY <1>14, <2>1, <2>2, <2>3 DEF StartWrite, TypeOK
<1>15. ASSUME NEW i \in Conns, Lose(i) PROVE TypeOK'
  BY <1>15 DEF Lose, TypeOK
<1>16. CASE UNCHANGED vars
  BY <1>16 DEF vars, TypeOK
<1> QED BY <1>1, <1>2, <1>3, <1>4, <1>5, <1>6, <1>7, <1>8, <1>9, <1>10, <1>11, <1>12, <1>13,
           <1>14, <1>15, <1>16, <1>17
        DEF Next, LoopRuns, LoopLocks, HelloWritten

StopInv == QueueAgrees /\ StopAgrees /\ SecondSignalStops

\* The signals, main, the health server's goroutine and the loop's visits to the
\* stop channel.
LEMMA StopStep == IInv /\ [Next]_vars => StopInv'
<1> SUFFICES ASSUME IInv, [Next]_vars PROVE StopInv'
  OBVIOUS
<1>0. TypeOK /\ QueueAgrees /\ StopAgrees /\ SecondSignalStops
  BY DEF IInv
<1>a. recvq \in Seq(Receivers) /\ Distinct(recvq)
  BY <1>0 DEF TypeOK, QueueAgrees
<1> USE <1>0 DEF Poll
<1>1. ASSUME UNCHANGED <<recvq, main, health, heard>>,
             loop' = loop \/ (loop \notin {"backoff", "returned", "gone"} /\ loop' # "starting")
      PROVE  StopInv'
  BY <1>1 DEF StopInv, QueueAgrees, StopAgrees, SecondSignalStops, exited
<1>2. CASE Signal
  <2> USE <1>2 DEF exited
  <2>1. CASE recvq = <<>>
    <3>1. ~Has(recvq, "main")
      BY <2>1, EmptySeq DEF Has
    <3>2. UNCHANGED <<recvq, main, health, loop, heard>>
      BY <2>1, <3>1 DEF Signal, QueueAgrees
    <3> QED BY <1>1, <3>2
  <2>2. CASE recvq # <<>>
    <3> DEFINE g == Head(recvq)
    <3>1. /\ g \in Receivers /\ Distinct(recvq')
          /\ \A h : Has(recvq', h) <=> Has(recvq, h) /\ h # g
          /\ OnlyLoopBeforeMain(recvq) => OnlyLoopBeforeMain(recvq')
          /\ OnlyLoopBeforeMain(recvq) /\ Has(recvq, "main") => g \in {"main", "loop"}
          /\ g = "health" => OnlyLoopBeforeMain(recvq')
          /\ recvq' = Tail(recvq)
      BY <1>a, <2>2, Serve DEF Signal
    <3>2. /\ main' = (IF g = "main" THEN "stopping" ELSE main)
          /\ health' = (IF g = "health" THEN "stopping" ELSE health)
          /\ loop' = (IF g = "loop" THEN "returned" ELSE loop)
          /\ heard' = (IF main = "waiting" THEN heard + 1 ELSE heard)
          /\ main # "gone"
      BY <2>2 DEF Signal
    <3>3. Has(recvq, g)
      <4>1. g = recvq[1] /\ 1 \in 1 .. Len(recvq)
        BY <1>a, <2>2, EmptySeq, LenProperties
      <4> QED BY <4>1 DEF Has
    <3> HIDE DEF g
    <3>4. QueueAgrees'
      BY <3>1, <3>2, <3>3 DEF QueueAgrees, Receivers
    <3>5. StopAgrees'
      BY <3>1, <3>2, <3>3 DEF QueueAgrees, StopAgrees, TypeOK, Receivers
    <3>6. SecondSignalStops'
      BY <3>1, <3>2, <3>3 DEF QueueAgrees, StopAgrees, SecondSignalStops, TypeOK, Receivers
    <3> QED BY <3>4, <3>5, <3>6 DEF StopInv
  <2> QED BY <2>1, <2>2
<1>3. CASE MainSelects
  <2>1. CASE buffered
    BY <1>3, <2>1 DEF MainSelects, StopInv, QueueAgrees, StopAgrees, SecondSignalStops, exited
  <2>2. CASE ~buffered
    <3>1. ~Has(recvq, "main")
      BY <1>3 DEF MainSelects, QueueAgrees, exited
    <3>2. Distinct(recvq') /\ \A h : Has(recvq', h) <=> Has(recvq, h) \/ h = "main"
      BY <1>3, <1>a, <2>2, <3>1, Enter DEF MainSelects, Receivers
    <3> QED BY <1>3, <2>2, <3>2
            DEF MainSelects, StopInv, QueueAgrees, StopAgrees, SecondSignalStops, exited
  <2> QED BY <2>1, <2>2
<1>4. CASE HealthReceives
  <2>1. CASE buffered
    BY <1>4, <2>1 DEF HealthReceives, StopInv, QueueAgrees, StopAgrees, SecondSignalStops, exited
  <2>2. CASE ~buffered
    <3>1. ~exited /\ ~Has(recvq, "health")
      BY <1>4 DEF HealthReceives, QueueAgrees
    <3>2. /\ Distinct(recvq') /\ \A h : Has(recvq', h) <=> Has(recvq, h) \/ h = "health"
          /\ OnlyLoopBeforeMain(recvq) => OnlyLoopBeforeMain(recvq')
      BY <1>4, <1>a, <2>2, <3>1, Enter DEF HealthReceives, Receivers
    <3> QED BY <1>4, <2>2, <3>1, <3>2
            DEF HealthReceives, StopInv, QueueAgrees, StopAgrees, SecondSignalStops, exited
  <2> QED BY <2>1, <2>2
<1>5. CASE MainReturns
  BY <1>5 DEF MainReturns, StopInv, QueueAgrees, StopAgrees, SecondSignalStops, exited
<1>6. CASE CheckStop
  <2>1. CASE buffered
    BY <1>6, <2>1 DEF CheckStop, StopInv, QueueAgrees, StopAgrees, SecondSignalStops, exited
  <2>2. CASE ~buffered
    <3>1. ~exited /\ ~Has(recvq, "loop")
      BY <1>6 DEF CheckStop, QueueAgrees
    <3>2. /\ Distinct(recvq') /\ \A h : Has(recvq', h) <=> Has(recvq, h) \/ h = "loop"
          /\ OnlyLoopBeforeMain(recvq) => OnlyLoopBeforeMain(recvq')
      BY <1>6, <1>a, <2>2, <3>1, Enter DEF CheckStop, Receivers
    <3> QED BY <1>6, <2>2, <3>1, <3>2
            DEF CheckStop, StopInv, QueueAgrees, StopAgrees, SecondSignalStops, exited
  <2> QED BY <2>1, <2>2
<1>7. CASE BackoffEnds
  <2>1. PICK k \in DOMAIN recvq : recvq[k] = "loop" /\ recvq' = RemoveAt(recvq, k)
    BY <1>7 DEF BackoffEnds
  <2>2. /\ Distinct(recvq') /\ \A h : Has(recvq', h) <=> Has(recvq, h) /\ h # "loop"
        /\ OnlyLoopBeforeMain(recvq) => OnlyLoopBeforeMain(recvq')
    BY <1>a, <2>1, GiveUp
  <2> QED BY <1>7, <2>2
          DEF BackoffEnds, StopInv, QueueAgrees, StopAgrees, SecondSignalStops, exited
<1>8. CASE TopOfLoop \/ BeginRun \/ PollStop \/ LeaveRun \/ Dial \/ DialFails \/ ReceiveWelcome
           \/ ConnectFails \/ Publish \/ SendHello \/ EndHello \/ TakeConn \/ Close
           \/ ReadMessage \/ ReadFails
  BY <1>1, <1>8
     DEF EndHello, TopOfLoop, BeginRun, PollStop, LeaveRun, Dial, DialFails, ReceiveWelcome, ConnectFails,
         Publish, SendHello, TakeConn, Close, ReadMessage, ReadFails
<1>9. ASSUME NEW t \in Tasks, Tick(t) \/ StartWrite(t) \/ EndWrite(t) \/ LoopEnds(t)
      PROVE  StopInv'
  BY <1>1, <1>9 DEF Tick, StartWrite, EndWrite, LoopEnds
<1>10. ASSUME NEW i \in Conns, Lose(i) PROVE StopInv'
  BY <1>1, <1>10 DEF Lose
<1>11. CASE UNCHANGED vars
  BY <1>1, <1>11 DEF vars
<1>12. CASE RunFails \/ StartRun
  BY <1>12 DEF RunFails, StartRun, StopInv, QueueAgrees, StopAgrees, SecondSignalStops, exited
<1> QED BY <1>2, <1>3, <1>4, <1>5, <1>6, <1>7, <1>8, <1>9, <1>10, <1>11, <1>12
        DEF Next, LoopRuns, LoopLocks, HelloWritten

LinkInv == LinkAgrees /\ HelloAgrees /\ OnlyLeftoversPrecedeHello /\ OthersToldToEnd

\* The loop moves, between labels that say the same of its connection.
LEMMA LoopMoves ==
    ASSUME IInv, UNCHANGED <<n, conn, first, task>>, done \subseteq done',
           loop' \in Linked => loop \in Linked,
           loop' # "publish", loop' = "leaving" => loop \in Linked,
           loop' \in {"greeting", "welcome", "begin"} \cup Running =>
               loop \in {"greeting", "welcome", "begin"} \cup Running,
           loop \in {"poll stop", "take conn", "read"} =>
               loop' \in {"poll stop", "take conn", "read"} \/ n \in done'
    PROVE  LinkInv'
<1> USE DEF IInv, Linked, Running
<1>1. LinkAgrees' /\ HelloAgrees'
  BY DEF LinkAgrees, HelloAgrees, Started
<1>2. OnlyLeftoversPrecedeHello'
  BY DEF OnlyLeftoversPrecedeHello
<1>3. OthersToldToEnd'
  BY DEF OthersToldToEnd
<1> QED BY <1>1, <1>2, <1>3 DEF LinkInv

\* A task that has started works on, ends or is told to end; the loop waits.
LEMMA TaskMoves ==
    ASSUME IInv, UNCHANGED <<loop, n, conn, first, done>>,
           task' \in [Tasks -> TaskStates],
           \A t \in Tasks : \/ task'[t] = task[t]
                            \/ /\ Started(t) /\ task'[t] # "none"
                               /\ t[2] \in Loops /\ task[t] = "ended" => task'[t] = "ended"
    PROVE  LinkInv'
<1> USE DEF IInv
<1>1. LinkAgrees' /\ HelloAgrees'
  BY DEF LinkAgrees, HelloAgrees, Started
<1>2. OnlyLeftoversPrecedeHello'
  BY DEF OnlyLeftoversPrecedeHello, Started
<1>3. OthersToldToEnd'
  BY DEF OthersToldToEnd, Started
<1> QED BY <1>1, <1>2, <1>3 DEF LinkInv

LEMMA LinkStep == IInv /\ [Next]_vars => LinkInv'
<1> SUFFICES ASSUME IInv, [Next]_vars PROVE LinkInv'
  OBVIOUS
<1>0. TypeOK /\ LinkAgrees /\ HelloAgrees /\ OnlyLeftoversPrecedeHello /\ OthersToldToEnd /\ TypeOK'
  BY TypeStep DEF IInv
<1> USE <1>0 DEF Poll
<1>4. ASSUME UNCHANGED <<loop, n, conn, first, task, done>> PROVE LinkInv'
  BY <1>4 DEF LinkInv, LinkAgrees, HelloAgrees, OnlyLeftoversPrecedeHello, OthersToldToEnd, Started
<1>1. CASE TopOfLoop \/ CheckStop \/ BackoffEnds \/ DialFails \/ ReceiveWelcome \/ ConnectFails
           \/ RunFails \/ StartRun \/ EndHello
  BY <1>1, LoopMoves
     DEF TopOfLoop, CheckStop, BackoffEnds, DialFails, ReceiveWelcome, ConnectFails, RunFails,
         StartRun, EndHello, Linked, Running
<1>2. CASE PollStop \/ LeaveRun \/ TakeConn \/ ReadFails
  BY <1>2, LoopMoves DEF PollStop, LeaveRun, TakeConn, ReadFails, Linked, Running
<1>3. CASE Signal
  <2>1. loop' = loop \/ (loop = "backoff" /\ loop' = "returned")
    BY <1>3, SignalMoves
  <2> QED BY <1>3, <1>4, <2>1, LoopMoves DEF Signal, Linked, Running
<1>5. CASE MainSelects \/ HealthReceives \/ UNCHANGED vars
  BY <1>4, <1>5 DEF MainSelects, HealthReceives, vars
<1>6. ASSUME NEW i \in Conns, Lose(i) PROVE LinkInv'
  BY <1>4, <1>6 DEF Lose
<1>7. ASSUME NEW t \in Tasks, Tick(t) \/ EndWrite(t) \/ LoopEnds(t) PROVE LinkInv'
  <2>1. task' \in [Tasks -> TaskStates]
    BY DEF TypeOK
  <2> QED BY <1>7, <2>1, TaskMoves DEF Tick, EndWrite, LoopEnds, Sent, Started, TypeOK
<1>8. CASE MainReturns
  BY <1>8 DEF MainReturns, LinkInv, LinkAgrees, HelloAgrees, OnlyLeftoversPrecedeHello,
              OthersToldToEnd, Started, Linked, Running
<1>9. CASE Dial
  <2>1. n' = n + 1 /\ n' \in Conns /\ n \in Nat /\ conn \in Nat
    BY <1>9, ConstantsAssumption DEF Dial, TypeOK, Conns
  <2>2. LinkAgrees' /\ HelloAgrees'
    BY <1>9, <2>1, TaskFields DEF Dial, LinkAgrees, HelloAgrees, Started, Linked, Running, Conns
  <2>3. OnlyLeftoversPrecedeHello' /\ OthersToldToEnd'
    BY <1>9 DEF Dial, OnlyLeftoversPrecedeHello, OthersToldToEnd, Running
  <2> QED BY <2>2, <2>3 DEF LinkInv
<1>10. CASE Publish
  <2>1. n \in Conns
    BY <1>10 DEF Publish, LinkAgrees
  <2>2. LinkAgrees' /\ HelloAgrees'
    BY <1>10, <2>1 DEF Publish, LinkAgrees, HelloAgrees, Started, Linked, Running, TypeOK
  <2>3. OnlyLeftoversPrecedeHello' /\ OthersToldToEnd'
    BY <1>10 DEF Publish, OnlyLeftoversPrecedeHello, OthersToldToEnd, Running
  <2> QED BY <2>2, <2>3 DEF LinkInv
<1>11. CASE Close
  <2>1. LinkAgrees' /\ HelloAgrees'
    BY <1>11 DEF Close, LinkAgrees, HelloAgrees, Started, Linked, Running, TypeOK, Conns
  <2>2. OnlyLeftoversPrecedeHello' /\ OthersToldToEnd'
    BY <1>11 DEF Close, OnlyLeftoversPrecedeHello, OthersToldToEnd, Running
  <2> QED BY <2>1, <2>2 DEF LinkInv
<1>12. CASE SendHello
  <2>1. n \in Conns
    BY <1>12 DEF SendHello, LinkAgrees, Linked
  <2>2. /\ first'[n] # "none"
        /\ \A j \in Conns : first'[j] = first[j] \/ (j = n /\ first[j] = "none" /\ first'[j] = "hello")
    BY <1>12, <2>1, WriteTyped DEF SendHello
  <2>3. LinkAgrees' /\ HelloAgrees'
    BY <1>12, <2>2, TaskFields
       DEF SendHello, LinkAgrees, HelloAgrees, Started, Linked, Running
  <2>4. OnlyLeftoversPrecedeHello'
    BY <1>12, <2>2 DEF SendHello, OnlyLeftoversPrecedeHello
  <2>5. OthersToldToEnd'
    BY <1>12 DEF SendHello, OthersToldToEnd, Running
  <2> QED BY <2>3, <2>4, <2>5 DEF LinkInv
<1>13. CASE BeginRun
  <2>1. n \in Conns /\ conn = n /\ first[n] # "none"
    BY <1>13 DEF BeginRun, LinkAgrees, HelloAgrees, Linked
  <2>2. \A t \in Tasks : task'[t] = (IF t[1] = n /\ t[2] \in Loops THEN "idle" ELSE task[t])
    BY <1>13 DEF BeginRun
  <2>3. LinkAgrees' /\ HelloAgrees'
    BY <1>13, <2>1, <2>2 DEF BeginRun, LinkAgrees, HelloAgrees, Started, Linked, Running, TypeOK
  <2>4. OnlyLeftoversPrecedeHello'
    BY <1>13, <2>2 DEF BeginRun, OnlyLeftoversPrecedeHello
  <2>5. OthersToldToEnd'
    BY <1>13, <2>2 DEF BeginRun, OthersToldToEnd, Running
  <2> QED BY <2>3, <2>4, <2>5 DEF LinkInv
<1>14. CASE ReadMessage
  <2>1. n \in Conns /\ conn = n /\ first[n] # "none"
    BY <1>14 DEF ReadMessage, LinkAgrees, HelloAgrees, Linked, Running
  <2>2. \A t \in Tasks : task'[t] = task[t]
                     \/ (t[1] = n /\ t[2] \in Handlers /\ task[t] = "none" /\ task'[t] = "sending")
    <3>1. CASE UNCHANGED task
      BY <3>1
    <3>2. ASSUME NEW h \in Handlers, task[<<n, h>>] = "none",
                 task' = [task EXCEPT ![<<n, h>>] = "sending"]
          PROVE  \A t \in Tasks : \/ task'[t] = task[t]
                                 \/ /\ t[1] = n /\ t[2] \in Handlers
                                    /\ task[t] = "none" /\ task'[t] = "sending"
      <4>1. task \in [Tasks -> TaskStates]
        BY DEF TypeOK
      <4>2. ASSUME NEW t \in Tasks, t # <<n, h>> PROVE task'[t] = task[t]
        BY <3>2, <4>1, <4>2
      <4>3. ASSUME NEW t \in Tasks, t = <<n, h>>
            PROVE  t[1] = n /\ t[2] = h /\ task[t] = "none" /\ task'[t] = "sending"
        BY <3>2, <4>1, <4>3
      <4> QED BY <4>2, <4>3
    <3> QED BY <1>14, <3>1, <3>2 DEF ReadMessage
  <2>3. LinkAgrees' /\ HelloAgrees'
    BY <1>14, <2>1, <2>2 DEF ReadMessage, LinkAgrees, HelloAgrees, Started, Linked, Running, TypeOK
  <2>4. OnlyLeftoversPrecedeHello'
    BY <1>14, <2>2 DEF ReadMessage, OnlyLeftoversPrecedeHello
  <2>5. OthersToldToEnd'
    BY <1>14, <2>2, ConstantsAssumption DEF ReadMessage, OthersToldToEnd, Running
  <2> QED BY <2>3, <2>4, <2>5 DEF LinkInv
<1>15. ASSUME NEW t \in Tasks, StartWrite(t) PROVE LinkInv'
  <2>0. task' \in [Tasks -> TaskStates]
    BY DEF TypeOK
  <2>1. CASE conn = 0
    BY <1>15, <2>0, <2>1, TaskMoves DEF StartWrite, Sent, Started, TypeOK
  <2>2. CASE conn # 0
    <3>1. conn \in Conns /\ t[1] \in Conns /\ Started(t) /\ task' = [task EXCEPT ![t] = "writing"]
      BY <1>15, <2>2, TaskFields DEF StartWrite, TypeOK, Conns, Started
    <3>2. \A j \in Conns : first'[j] = first[j] \/ (j = conn /\ first[j] = "none" /\ first'[j] = "other")
      BY <1>15, <2>2, <3>1, WriteTyped DEF StartWrite
    <3>3. first[t[1]] # "none" /\ t[1] <= conn
      BY <2>2, <3>1 DEF HelloAgrees, LinkAgrees
    <3>4. first[conn] = "none" => t[1] < conn
      BY <3>1, <3>3 DEF Conns
    <3>5. first'[conn] # "none"
      BY <1>15, <2>2, <3>1, WriteTyped DEF StartWrite
    <3>6. LinkAgrees'
      BY <1>15, <3>1 DEF StartWrite, LinkAgrees, Started, TypeOK
    <3>7. \A j \in Conns : first[j] # "none" => first'[j] # "none"
      BY <3>2
    <3>8. HelloAgrees'
      <4>1. \A u \in Tasks : Started(u)' => first'[u[1]] # "none"
        BY <3>1, <3>7, TaskFields DEF HelloAgrees, Started, TypeOK
      <4>2. loop \in {"greeting", "welcome", "begin"} \cup Running => n \in Conns
        BY DEF LinkAgrees, Linked, Running
      <4> QED BY <1>15, <3>7, <4>1, <4>2 DEF StartWrite, HelloAgrees
    <3>9. OnlyLeftoversPrecedeHello'
      BY <3>1, <3>2, <3>4 DEF OnlyLeftoversPrecedeHello, Started, TypeOK
    <3>10. OthersToldToEnd'
      BY <1>15, <3>1 DEF StartWrite, OthersToldToEnd, TypeOK
    <3> QED BY <3>6, <3>8, <3>9, <3>10 DEF LinkInv
  <2> QED BY <2>1, <2>2
<1> QED BY <1>1, <1>2, <1>3, <1>5, <1>6, <1>7, <1>8, <1>9, <1>10, <1>11, <1>12, <1>13, <1>14, <1>15
        DEF Next, LoopRuns, LoopLocks, HelloWritten

LEMMA Invariance == Safe => []IInv
<1>1. IInv /\ [Next]_vars => IInv'
  BY TypeStep, StopStep, LinkStep DEF IInv, StopInv, LinkInv
<1> QED BY <1>1, InitIInv, PTL DEF Safe

\* The loops that work without having been told to end are those of the run()
\* that is serving, over any number of reconnections.
THEOREM OthersToldToEndHolds == Safe => []OthersToldToEnd
<1>1. IInv => OthersToldToEnd
  BY DEF IInv
<1> QED BY <1>1, Invariance, PTL

\* The second signal after main began to wait ends the process, whoever else is
\* in the queue of the stop channel and however often the loop comes and goes.
THEOREM SecondSignalStopsHolds == Safe => []SecondSignalStops
<1>1. IInv => SecondSignalStops
  BY DEF IInv
<1> QED BY <1>1, Invariance, PTL

\* Only a sender that an earlier connection left behind writes before hello.
THEOREM OnlyLeftoversPrecedeHelloHolds == Safe => []OnlyLeftoversPrecedeHello
<1>1. IInv => OnlyLeftoversPrecedeHello
  BY DEF IInv
<1> QED BY <1>1, Invariance, PTL
=============================================================================
