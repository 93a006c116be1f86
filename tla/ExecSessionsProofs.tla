------------------------- MODULE ExecSessionsProofs -------------------------
(* Proofs about ExecSessions and ExecTerminal, for every set of starts and *)
(* messages and every limit.                                               *)
EXTENDS ExecTerminal, FiniteSetTheorems, SequenceTheorems, TLAPS

(***************************************************************************)
(* Type correctness.                                                       *)
(***************************************************************************)

LEMMA GotoTyped ==
    ASSUME TypeOK, NEW s \in Starts, NEW to \in Labels, Goto(s, to)
    PROVE  pc' \in [Starts -> Labels]
BY DEF TypeOK, Goto

LEMMA SendTyped ==
    ASSUME TypeOK, NEW s \in Starts, NEW kind \in Kinds, Send(s, kind)
    PROVE  sent' \in [Starts -> Seq(Kinds)]
<1>1. sent[s] \in Seq(Kinds)
  BY DEF TypeOK
<1>2. Append(sent[s], kind) \in Seq(Kinds)
  BY <1>1, AppendProperties
<1> QED BY <1>2 DEF TypeOK, Send

\* Every step keeps the types.
LEMMA TypingStep == TypeOK /\ [Next]_vars => TypeOK'
<1> USE ConstantsAssumption
<1> SUFFICES ASSUME TypeOK, [Next]_vars PROVE TypeOK'
  OBVIOUS
<1>1. ASSUME NEW s \in Starts, NEW to \in Labels, Goto(s, to),
             sent' \in [Starts -> Seq(Kinds)],
             UNCHANGED <<table, conn, exited, endMsg, shut>>
      PROVE  TypeOK'
  BY <1>1, GotoTyped DEF TypeOK
<1>2. ASSUME NEW s \in Starts, NEW to \in Labels, NEW kind \in Kinds,
             Goto(s, to), Send(s, kind),
             UNCHANGED <<table, conn, exited, endMsg, shut>>
      PROVE  TypeOK'
  BY <1>1, <1>2, SendTyped
<1>3. ASSUME NEW s \in Starts, NEW to \in Labels,
             Goto(s, to), UNCHANGED <<table, conn, exited, sent, endMsg, shut>>
      PROVE  TypeOK'
  BY <1>1, <1>3 DEF TypeOK
<1>4. ASSUME NEW s \in Starts, Goroutine(s) PROVE TypeOK'
  <2>1. CASE RejectStart(s)
    BY <1>2, <2>1 DEF RejectStart, Labels, Kinds
  <2>2. CASE AdmitStart(s)
    BY <1>3, <2>2 DEF AdmitStart, Labels
  <2>3. CASE CreateExec(s)
    BY <1>3, <2>3 DEF CreateExec, Labels
  <2>4. CASE StartExecAttach(s)
    BY <2>4 DEF StartExecAttach, TypeOK, Goto, Labels
  <2>5. CASE FailStart(s)
    BY <1>2, <2>5 DEF FailStart, Labels, Kinds
  <2>6. CASE StoreSession(s)
    BY <2>6 DEF StoreSession, TypeOK, Goto, Labels
  <2>7. CASE SendReady(s)
    BY <1>2, <2>7 DEF SendReady, Labels, Kinds
  <2>8. CASE StartReader(s)
    BY <1>3, <2>8 DEF StartReader, Labels
  <2>9. CASE SendLeftover(s)
    BY <1>2, <1>3, <2>9 DEF SendLeftover, Labels, Kinds
  <2>10. CASE ReadEnds(s)
    BY <1>3, <2>10 DEF ReadEnds, Labels
  <2>11. CASE DeleteSession(s)
    BY <2>11 DEF DeleteSession, TypeOK, Goto, Labels
  <2>12. CASE CloseConn(s)
    BY <2>12 DEF CloseConn, TypeOK, Goto, Labels
  <2>13. CASE SendEnd(s)
    BY <1>2, <2>13 DEF SendEnd, Labels, Kinds
  <2> QED BY <1>4, <2>1, <2>2, <2>3, <2>4, <2>5, <2>6, <2>7, <2>8, <2>9, <2>10,
             <2>11, <2>12, <2>13 DEF Goroutine
<1>5. ASSUME NEW s \in Starts, ReceiveStart(s) PROVE TypeOK'
  BY <1>3, <1>5 DEF ReceiveStart, Labels
<1>6. ASSUME NEW s \in Starts, ProcessExits(s) PROVE TypeOK'
  BY <1>6 DEF ProcessExits, TypeOK
<1>7. ASSUME NEW s \in Starts, ReadOutput(s) PROVE TypeOK'
  BY <1>7, SendTyped DEF ReadOutput, TypeOK, Kinds
<1>8. ASSUME NEW x \in ExecIds, ReceiveEnd(x) PROVE TypeOK'
  BY <1>8 DEF ReceiveEnd, TypeOK
<1>9. ASSUME NEW x \in ExecIds, HandleExecEnd(x) PROVE TypeOK'
  <2>1. CASE x \in Live
    BY <1>9, <2>1 DEF HandleExecEnd, TypeOK, Live
  <2>2. CASE x \notin Live
    BY <1>9, <2>2 DEF HandleExecEnd, TypeOK
  <2> QED BY <2>1, <2>2
<1>10. CASE CloseClient
  BY <1>10 DEF CloseClient, TypeOK
<1>11. CASE UNCHANGED vars
  BY <1>11 DEF vars, TypeOK
<1> QED BY <1>4, <1>5, <1>6, <1>7, <1>8, <1>9, <1>10, <1>11 DEF Next

LEMMA InitTyping == Init => TypeOK
<1>1. <<>> \in Seq(Kinds)
  OBVIOUS
<1> QED BY <1>1, ConstantsAssumption DEF Init, TypeOK, Labels

\* Type correctness: the counters, tables and messages stay what they are.
THEOREM Typing == Spec => []TypeOK
BY InitTyping, TypingStep, PTL DEF Spec, Safe

(***************************************************************************)
(* The inductive invariant behind the safety properties.  A session is in  *)
(* the table only between its store and its own delete, under its own id,  *)
(* and with an open connection; the connection follows the counter.        *)
(***************************************************************************)

InTable == Stored \cup {"delete"}

TableAgrees ==
    \A x \in ExecIds : table[x] # NoSession =>
        /\ IdOf[table[x]] = x
        /\ pc[table[x]] \in InTable
        /\ conn[table[x]] = "open"

ConnAgrees ==
    \A s \in Starts :
        /\ pc[s] \in {"unsent", "check", "create", "attach"} => conn[s] = "none"
        /\ pc[s] = "store" => conn[s] = "open"
        /\ pc[s] \in {"delete", "closeConn"} /\ conn[s] = "open" => s \in exited
        /\ pc[s] \in {"farewell", "over"} => conn[s] # "open"

IInv == TypeOK /\ TableAgrees /\ ConnAgrees /\ NoOrphan

USE DEF OwnId, Stored, InTable

LEMMA InitIInv == Init => IInv
<1> USE ConstantsAssumption DEF Init
<1>1. Init => TypeOK
  BY InitTyping
<1>2. Init => TableAgrees /\ ConnAgrees /\ NoOrphan
  BY DEF TableAgrees, ConnAgrees, NoOrphan
<1> QED BY <1>1, <1>2 DEF IInv

\* Steps that move one start and touch neither the table nor a connection.
LEMMA MovePreserves ==
    ASSUME IInv, TypeOK', NEW s \in Starts, NEW to \in Labels,
           Goto(s, to), UNCHANGED <<table, conn, exited>>,
           pc[s] \in InTable <=> to \in InTable,
           pc[s] \in Stored \/ to \notin Stored,
           pc[s] \in {"unsent", "check", "create", "attach"}
             \/ to \notin {"unsent", "check", "create", "attach"},
           to # "store",
           to = "delete" /\ conn[s] = "open" => s \in exited,
           to # "closeConn",
           to \in {"farewell", "over"} => conn[s] # "open"
    PROVE  IInv'
<1> USE DEF IInv, TypeOK, Goto
<1>1. TableAgrees'
  BY DEF TableAgrees
<1>2. ConnAgrees'
  BY DEF ConnAgrees
<1>3. NoOrphan'
  BY DEF NoOrphan
<1> QED BY <1>1, <1>2, <1>3

LEMMA StepIInv == IInv /\ [Next]_vars => IInv'
<1> USE ConstantsAssumption
<1> SUFFICES ASSUME IInv, [Next]_vars PROVE IInv'
  OBVIOUS
<1>0. TypeOK /\ TypeOK'
  BY TypingStep DEF IInv
<1>1. ASSUME NEW s \in Starts,
             ReceiveStart(s) \/ RejectStart(s) \/ AdmitStart(s) \/ CreateExec(s)
             \/ FailStart(s) \/ SendReady(s) \/ StartReader(s) \/ SendLeftover(s)
             \/ ReadEnds(s) \/ SendEnd(s)
      PROVE  IInv'
  <2>1. CASE ReceiveStart(s)
    BY <1>0, <2>1, MovePreserves DEF ReceiveStart, At, Labels
  <2>2. CASE RejectStart(s)
    <3>1. conn[s] # "open"
      BY <2>2 DEF RejectStart, At, IInv, ConnAgrees
    <3> QED BY <1>0, <2>2, <3>1, MovePreserves DEF RejectStart, At, Labels
  <2>3. CASE AdmitStart(s)
    BY <1>0, <2>3, MovePreserves DEF AdmitStart, At, Labels
  <2>4. CASE CreateExec(s)
    BY <1>0, <2>4, MovePreserves DEF CreateExec, At, Labels
  <2>5. CASE FailStart(s)
    <3>1. conn[s] # "open"
      BY <2>5 DEF FailStart, At, IInv, ConnAgrees
    <3> QED BY <1>0, <2>5, <3>1, MovePreserves DEF FailStart, At, Labels
  <2>6. CASE SendReady(s)
    BY <1>0, <2>6, MovePreserves DEF SendReady, At, Labels
  <2>7. CASE StartReader(s)
    BY <1>0, <2>7, MovePreserves DEF StartReader, At, Labels
  <2>8. CASE SendLeftover(s)
    BY <1>0, <2>8, MovePreserves DEF SendLeftover, At, Labels
  <2>9. CASE ReadEnds(s)
    BY <1>0, <2>9, MovePreserves DEF ReadEnds, At, Labels
  <2>10. CASE SendEnd(s)
    <3>1. conn[s] # "open"
      BY <2>10 DEF SendEnd, At, IInv, ConnAgrees
    <3> QED BY <1>0, <2>10, <3>1, MovePreserves DEF SendEnd, At, Labels
  <2> QED BY <1>1, <2>1, <2>2, <2>3, <2>4, <2>5, <2>6, <2>7, <2>8, <2>9, <2>10
<1>2. ASSUME NEW s \in Starts, StartExecAttach(s) PROVE IInv'
  <2> USE <1>0, <1>2 DEF StartExecAttach, At, Goto, IInv, TypeOK
  <2>1. TableAgrees'
    BY DEF TableAgrees
  <2>2. ConnAgrees'
    BY DEF ConnAgrees
  <2>3. NoOrphan'
    BY DEF NoOrphan
  <2> QED BY <2>1, <2>2, <2>3
<1>3. ASSUME NEW s \in Starts, StoreSession(s) PROVE IInv'
  <2> USE <1>0, <1>3 DEF StoreSession, At, Goto, IInv, TypeOK
  <2>1. TableAgrees'
    BY DEF TableAgrees, ConnAgrees
  <2>2. ConnAgrees'
    BY DEF ConnAgrees
  <2>3. NoOrphan'
    BY DEF NoOrphan
  <2> QED BY <2>1, <2>2, <2>3
<1>4. ASSUME NEW s \in Starts, DeleteSession(s) PROVE IInv'
  <2> USE <1>0, <1>4 DEF DeleteSession, At, Goto, IInv, TypeOK
  <2>1. TableAgrees'
    BY DEF TableAgrees
  <2>2. ConnAgrees'
    BY DEF ConnAgrees
  <2>3. NoOrphan'
    BY DEF NoOrphan
  <2> QED BY <2>1, <2>2, <2>3
<1>5. ASSUME NEW s \in Starts, CloseConn(s) PROVE IInv'
  <2> USE <1>0, <1>5 DEF CloseConn, At, Goto, IInv, TypeOK
  <2>1. TableAgrees'
    BY DEF TableAgrees
  <2>2. ConnAgrees'
    BY DEF ConnAgrees
  <2>3. NoOrphan'
    BY DEF NoOrphan
  <2> QED BY <2>1, <2>2, <2>3
<1>6. ASSUME NEW x \in ExecIds, HandleExecEnd(x), x \in Live PROVE IInv'
  <2> USE <1>0, <1>6 DEF HandleExecEnd, Live, IInv, TypeOK
  <2>1. table[x] \in Starts /\ pc[table[x]] \in InTable /\ IdOf[table[x]] = x
    BY DEF TableAgrees
  <2>2. TableAgrees'
    BY DEF TableAgrees
  <2>3. ConnAgrees'
    BY <2>1 DEF ConnAgrees
  <2>4. ASSUME NEW s \in Starts, OwnId(s), pc'[s] \in Stored, conn'[s] = "open"
        PROVE  table'[IdOf[s]] = s
    <3>1. s # table[x] /\ conn[s] = "open" /\ pc[s] \in Stored
      BY <2>1, <2>4
    <3>2. table[IdOf[s]] = s
      BY <2>4, <3>1 DEF NoOrphan
    <3>3. IdOf[s] # x
      BY <3>1, <3>2
    <3> QED BY <3>2, <3>3
  <2>5. NoOrphan'
    BY <2>4 DEF NoOrphan
  <2> QED BY <2>2, <2>3, <2>5
<1>7. CASE CloseClient
  <2> USE <1>0, <1>7 DEF CloseClient, IInv, TypeOK
  <2>1. TableAgrees'
    BY DEF TableAgrees
  <2>2. ASSUME NEW s \in Starts
        PROVE  \/ conn'[s] = conn[s]
               \/ conn'[s] = "closed" /\ pc[s] \in InTable
    BY <2>2 DEF TableAgrees
  <2>3. ConnAgrees'
    BY <2>2 DEF ConnAgrees
  <2>4. ASSUME NEW s \in Starts, conn'[s] = "open"
        PROVE  conn[s] = "open" /\ table[IdOf[s]] # s
    BY <2>4
  <2>5. NoOrphan'
    BY <2>4 DEF NoOrphan
  <2> QED BY <2>1, <2>3, <2>5
<1>8. ASSUME UNCHANGED <<pc, table, conn>>, exited \subseteq exited' PROVE IInv'
  BY <1>0, <1>8 DEF IInv, TableAgrees, ConnAgrees, NoOrphan
<1>9. ASSUME NEW s \in Starts, ProcessExits(s) \/ ReadOutput(s) PROVE IInv'
  BY <1>8, <1>9 DEF ProcessExits, ReadOutput
<1>10. ASSUME NEW x \in ExecIds, ReceiveEnd(x) \/ (HandleExecEnd(x) /\ x \notin Live)
       PROVE  IInv'
  BY <1>8, <1>10 DEF ReceiveEnd, HandleExecEnd
<1>11. CASE UNCHANGED vars
  BY <1>8, <1>11 DEF vars
<1> QED BY <1>1, <1>2, <1>3, <1>4, <1>5, <1>6, <1>7, <1>9, <1>10, <1>11 DEF Next, Goroutine

LEMMA Invariance == Spec => []IInv
BY InitIInv, StepIInv, PTL DEF Spec, Safe

\* No session that exec_end, close() or the user should reach is out of the
\* table, whatever the number of starts and the order of their goroutines.
THEOREM NoOrphanHolds == Spec => []NoOrphan
<1>1. IInv => NoOrphan
  BY DEF IInv
<1> QED BY <1>1, Invariance, PTL

\* A lookup in c.execSessions never returns a connection closed by the agent.
THEOREM TableEntriesOpenHolds == Spec => []TableEntriesOpen
<1>1. IInv => TableEntriesOpen
  BY DEF IInv, TableAgrees, TableEntriesOpen, Live
<1> QED BY <1>1, Invariance, PTL

\* After its exec_end a session holds no connection and no table entry.
THEOREM EndedHoldsNothingHolds == Spec => []EndedHoldsNothing
<1>1. IInv => EndedHoldsNothing
  BY ConstantsAssumption DEF IInv, TypeOK, TableAgrees, ConnAgrees, EndedHoldsNothing, At
<1> QED BY <1>1, Invariance, PTL

\* No step closes a connection but for its own session's end or the shutdown.
THEOREM ClosedForCauseHolds == Spec => ClosedForCause
<1> DEFINE Cause == \A s \in Starts : conn[s] = "open" /\ conn'[s] = "closed" =>
                      s \in exited \/ endMsg'[IdOf[s]] = "handled" \/ shut'
<1>1. IInv /\ [Next]_vars => Cause
  <2> SUFFICES ASSUME IInv, [Next]_vars, NEW s \in Starts,
                      conn[s] = "open", conn'[s] = "closed"
               PROVE  s \in exited \/ endMsg'[IdOf[s]] = "handled" \/ shut'
    OBVIOUS
  <2> USE ConstantsAssumption DEF IInv, TypeOK
  <2>1. ASSUME NEW t \in Starts, CloseConn(t) PROVE s \in exited
    BY <2>1 DEF CloseConn, At, ConnAgrees
  <2>2. ASSUME NEW t \in Starts, StartExecAttach(t) PROVE FALSE
    BY <2>2 DEF StartExecAttach
  <2>3. ASSUME NEW x \in ExecIds, HandleExecEnd(x) PROVE endMsg'[IdOf[s]] = "handled"
    BY <2>3 DEF HandleExecEnd, Live, TableAgrees
  <2>4. CASE CloseClient
    BY <2>4 DEF CloseClient
  <2>5. CASE UNCHANGED conn
    BY <2>5
  <2> QED BY <2>1, <2>2, <2>3, <2>4, <2>5
          DEF Next, Goroutine, vars, ReceiveStart, ProcessExits, ReadOutput, ReceiveEnd,
              RejectStart, AdmitStart, CreateExec, FailStart, StoreSession, SendReady,
              StartReader, SendLeftover, ReadEnds, DeleteSession, SendEnd
<1>2. IInv /\ [Next]_vars => [Cause]_vars
  BY <1>1
<1> QED BY <1>2, Invariance, PTL DEF Spec, Safe, ClosedForCause

(***************************************************************************)
(* The limit.  The count is checked at admission and the table grows at    *)
(* the store, so the invariant counts what is stored and what is admitted  *)
(* together, with the number of starts the server keeps in creation.       *)
(***************************************************************************)

ParallelBound == Cardinality(Checking \cup Creating) <= MaxParallel

LimitInv == TypeOK /\ ParallelBound /\ LimitBound

LEMMA AddOne ==
    ASSUME NEW S, NEW e, IsFiniteSet(S)
    PROVE  Cardinality(S \cup {e}) \in Nat /\ Cardinality(S \cup {e}) <= Cardinality(S) + 1
<1>1. Cardinality(S) \in Nat
  BY FS_CardinalityType
<1>2. Cardinality(S \cup {e}) = IF e \in S THEN Cardinality(S) ELSE Cardinality(S) + 1
  BY FS_AddElement
<1> QED BY <1>1, <1>2

LEMMA FiniteSets ==
    ASSUME TypeOK
    PROVE  /\ IsFiniteSet(Live) /\ Cardinality(Live) \in Nat
           /\ IsFiniteSet(Creating) /\ Cardinality(Creating) \in Nat
           /\ IsFiniteSet(Checking \cup Creating) /\ Cardinality(Checking \cup Creating) \in Nat
<1>1. Live \subseteq ExecIds /\ Creating \subseteq Starts /\ Checking \cup Creating \subseteq Starts
  BY DEF Live, Creating, Checking
<1> QED BY <1>1, ConstantsAssumption, FS_Subset, FS_CardinalityType

\* Nothing is admitted or stored: both bounds stay.
LEMMA ShrinkingKeepsLimit ==
    ASSUME LimitInv, TypeOK', Live' \subseteq Live, Creating' \subseteq Creating,
           (Checking \cup Creating)' \subseteq Checking \cup Creating
    PROVE  LimitInv'
<1>1. TypeOK
  BY DEF LimitInv
<1>2. /\ Cardinality(Live)' <= Cardinality(Live)
      /\ Cardinality(Creating)' <= Cardinality(Creating)
      /\ Cardinality(Checking \cup Creating)' <= Cardinality(Checking \cup Creating)
  BY <1>1, FiniteSets, FS_Subset
<1>3. /\ Cardinality(Live)' \in Nat /\ Cardinality(Creating)' \in Nat
      /\ Cardinality(Checking \cup Creating)' \in Nat
  BY <1>1, FiniteSets, FS_Subset, FS_CardinalityType
<1> QED BY <1>1, <1>2, <1>3, FiniteSets, ConstantsAssumption DEF LimitInv, ParallelBound, LimitBound

LEMMA LimitStep == LimitInv /\ [Next]_vars => LimitInv'
<1> SUFFICES ASSUME LimitInv, [Next]_vars PROVE LimitInv'
  OBVIOUS
<1>0. TypeOK /\ TypeOK'
  BY TypingStep DEF LimitInv
<1> USE DEF TypeOK, Goto, At
<1>1. ASSUME NEW s \in Starts, ReceiveStart(s) PROVE LimitInv'
  <2>1. (Checking \cup Creating)' = (Checking \cup Creating) \cup {s}
    BY <1>0, <1>1 DEF ReceiveStart, Checking, Creating
  <2>2. Live' = Live /\ Creating' = Creating
    BY <1>0, <1>1 DEF ReceiveStart, Live, Creating
  <2>3. IsFiniteSet(Checking \cup Creating) /\ Cardinality(Checking \cup Creating) \in Nat
    BY <1>0, FiniteSets
  <2>4. /\ Cardinality((Checking \cup Creating)') \in Nat
        /\ Cardinality((Checking \cup Creating)') <= Cardinality(Checking \cup Creating) + 1
    BY <2>1, <2>3, AddOne
  <2>5. ParallelBound'
    BY <1>1, <2>3, <2>4, ConstantsAssumption DEF ReceiveStart, ParallelBound
  <2> QED BY <1>0, <2>2, <2>5 DEF LimitInv, LimitBound
<1>2. ASSUME NEW s \in Starts, AdmitStart(s) PROVE LimitInv'
  <2>1. (Checking \cup Creating)' = Checking \cup Creating
    BY <1>0, <1>2 DEF AdmitStart, Checking, Creating
  <2>2. Live' = Live /\ Creating' \subseteq Checking \cup Creating
    BY <1>0, <1>2 DEF AdmitStart, Live, Creating, Checking
  <2>3. /\ Cardinality(Creating') <= Cardinality(Checking \cup Creating)
        /\ Cardinality(Creating') \in Nat
    BY <1>0, <2>2, FiniteSets, FS_Subset, FS_CardinalityType
  <2>4. ParallelBound'
    BY <2>1 DEF LimitInv, ParallelBound
  <2>5. LimitBound'
    BY <1>0, <1>2, <2>2, <2>3, FiniteSets, ConstantsAssumption
       DEF AdmitStart, LimitInv, ParallelBound, LimitBound
  <2> QED BY <1>0, <2>4, <2>5 DEF LimitInv
<1>3. ASSUME NEW s \in Starts, StoreSession(s) PROVE LimitInv'
  <2>1. /\ Creating' = Creating \ {s} /\ s \in Creating
        /\ (Checking \cup Creating)' \subseteq Checking \cup Creating
    BY <1>0, <1>3 DEF StoreSession, Creating, Checking
  <2>2. Live' = Live \cup {IdOf[s]}
    BY <1>0, <1>3, ConstantsAssumption DEF StoreSession, Live
  <2>3. /\ Cardinality(Creating') = Cardinality(Creating) - 1
        /\ Cardinality(Live') <= Cardinality(Live) + 1
        /\ Cardinality(Live') \in Nat
    <3>1. Cardinality(Creating \ {s}) = Cardinality(Creating) - 1
      BY <1>0, <2>1, FiniteSets, FS_RemoveElement
    <3>2. /\ Cardinality(Live \cup {IdOf[s]}) <= Cardinality(Live) + 1
          /\ Cardinality(Live \cup {IdOf[s]}) \in Nat
      BY <1>0, FiniteSets, AddOne
    <3> QED BY <2>1, <2>2, <3>1, <3>2
  <2>4. /\ Cardinality((Checking \cup Creating)') <= Cardinality(Checking \cup Creating)
        /\ Cardinality((Checking \cup Creating)') \in Nat
    BY <1>0, <2>1, FiniteSets, FS_Subset, FS_CardinalityType
  <2>5. ParallelBound'
    BY <1>0, <2>4, FiniteSets, ConstantsAssumption DEF LimitInv, ParallelBound
  <2>6. LimitBound'
    BY <1>0, <2>3, FiniteSets, ConstantsAssumption DEF LimitInv, LimitBound
  <2> QED BY <1>0, <2>5, <2>6 DEF LimitInv
<1>4. ASSUME NEW s \in Starts, NEW to \in Labels \ {"check", "create", "attach", "store"},
             Goto(s, to), Live' \subseteq Live
      PROVE  LimitInv'
  <2>1. Creating' \subseteq Creating /\ (Checking \cup Creating)' \subseteq Checking \cup Creating
    BY <1>0, <1>4 DEF Creating, Checking
  <2> QED BY <1>0, <1>4, <2>1, ShrinkingKeepsLimit
<1>5. ASSUME NEW s \in Starts,
             \/ RejectStart(s) \/ FailStart(s) \/ SendReady(s) \/ StartReader(s)
             \/ SendLeftover(s) \/ ReadEnds(s) \/ CloseConn(s) \/ SendEnd(s)
      PROVE  LimitInv'
  BY <1>4, <1>5 DEF RejectStart, FailStart, SendReady, StartReader, SendLeftover, ReadEnds,
                    CloseConn, SendEnd, Live, Labels
<1>6. ASSUME NEW s \in Starts, DeleteSession(s) PROVE LimitInv'
  <2>1. Live' \subseteq Live
    BY <1>0, <1>6 DEF DeleteSession, Live
  <2> QED BY <1>4, <1>6, <2>1 DEF DeleteSession, Labels
<1>7. ASSUME NEW s \in Starts, CreateExec(s) \/ StartExecAttach(s) PROVE LimitInv'
  <2>1. /\ Live' = Live /\ Creating' \subseteq Creating
        /\ (Checking \cup Creating)' \subseteq Checking \cup Creating
    BY <1>0, <1>7 DEF CreateExec, StartExecAttach, Live, Creating, Checking
  <2> QED BY <1>0, <2>1, ShrinkingKeepsLimit
<1>8. ASSUME pc' = pc, Live' \subseteq Live PROVE LimitInv'
  BY <1>0, <1>8, ShrinkingKeepsLimit DEF Creating, Checking
<1>9. ASSUME NEW x \in ExecIds, ReceiveEnd(x) \/ HandleExecEnd(x) PROVE LimitInv'
  <2>1. pc' = pc /\ Live' \subseteq Live
    BY <1>0, <1>9 DEF ReceiveEnd, HandleExecEnd, Live
  <2> QED BY <1>8, <2>1
<1>10. CASE CloseClient
  BY <1>8, <1>10 DEF CloseClient, Live
<1>11. ASSUME NEW s \in Starts, ProcessExits(s) \/ ReadOutput(s) PROVE LimitInv'
  BY <1>8, <1>11 DEF ProcessExits, ReadOutput, Live
<1>12. CASE UNCHANGED vars
  BY <1>8, <1>12 DEF vars, Live
<1> QED BY <1>1, <1>2, <1>3, <1>5, <1>6, <1>7, <1>9, <1>10, <1>11, <1>12 DEF Next, Goroutine

LEMMA InitLimit == Init => LimitInv
<1> SUFFICES ASSUME Init PROVE LimitInv
  OBVIOUS
<1>1. Live = {} /\ Creating = {} /\ Checking \cup Creating = {}
  BY DEF Init, Live, Creating, Checking
<1> QED BY <1>1, InitTyping, FS_EmptySet, ConstantsAssumption DEF LimitInv, ParallelBound, LimitBound

\* The table never holds more than maxExecSessions - 1 sessions plus the starts
\* that were in creation together: exactly the limit when starts are serialised.
THEOREM LimitBoundHolds == Spec => []LimitBound
<1>1. LimitInv => LimitBound
  BY DEF LimitInv
<1> QED BY <1>1, InitLimit, LimitStep, PTL DEF Spec, Safe

(***************************************************************************)
(* The promise.  What has been sent follows the counter: nothing before    *)
(* exec_ready, and exec_ready first of all from then on; so the farewell   *)
(* of an open session is never taken for a refusal.                        *)
(***************************************************************************)

Before == {"unsent", "check", "create", "attach", "store", "ready"}
After == {"resize", "leftover", "reading", "delete", "closeConn", "farewell"}

SentAgrees ==
    \A s \in Starts :
        /\ pc[s] \in Before => sent[s] = <<>>
        /\ pc[s] \in After => Len(sent[s]) > 0 /\ sent[s][1] = "exec_ready"

SentInv == TypeOK /\ SentAgrees

LEMMA AppendFacts ==
    ASSUME NEW q \in Seq(Kinds), NEW k \in Kinds
    PROVE  /\ Append(q, k) \in Seq(Kinds)
           /\ Append(q, k) = q \o <<k>>
           /\ Len(Append(q, k)) > 0
           /\ Len(q) > 0 => Append(q, k)[1] = q[1]
           /\ q = <<>> => Append(q, k)[1] = k /\ Append(q, k) = <<k>>
           /\ Len(q) > 0 => Append(q, k) # <<"error">>
<1>1. /\ Append(q, k) \in Seq(Kinds) /\ Len(Append(q, k)) = Len(q) + 1 /\ Len(q) \in Nat
      /\ \A i \in 1 .. Len(q) : Append(q, k)[i] = q[i]
      /\ Append(q, k)[Len(q) + 1] = k
  BY AppendProperties, LenProperties
<1>2. Append(q, k) = q \o <<k>>
  BY AppendIsConcat
<1>3. q = <<>> => Append(q, k) = <<k>>
  BY <1>2, ConcatEmptySeq
<1>4. Len(q) > 0 => Append(q, k) # <<"error">>
  <2>1. Len(<<"error">>) = 1
    OBVIOUS
  <2>2. Len(q) > 0 => Len(Append(q, k)) # 1
    BY <1>1
  <2> QED BY <2>1, <2>2
<1> QED BY <1>1, <1>2, <1>3, <1>4

LEMMA SentStep == SentInv /\ [Next]_vars => SentInv'
<1> SUFFICES ASSUME SentInv, [Next]_vars PROVE SentInv'
  OBVIOUS
<1>0. TypeOK /\ TypeOK'
  BY TypingStep DEF SentInv
<1> USE <1>0 DEF Before, After, SentInv, SentAgrees
<1>1. ASSUME UNCHANGED <<pc, sent>> PROVE SentInv'
  BY <1>1
<1>2. ASSUME NEW s \in Starts, NEW to \in Labels, Goto(s, to), sent' = sent,
             pc[s] \in Before \/ to \notin Before,
             pc[s] \in After \/ to \notin After
      PROVE  SentInv'
  BY <1>2 DEF Goto, TypeOK
<1>3. ASSUME NEW s \in Starts, NEW k \in Kinds, NEW to \in Labels, Goto(s, to), Send(s, k),
             to \notin Before, to \notin After \/ pc[s] \in After \/ (pc[s] = "ready" /\ k = "exec_ready")
      PROVE  SentInv'
  <2>1. sent[s] \in Seq(Kinds) /\ sent'[s] = Append(sent[s], k)
    BY <1>3 DEF TypeOK, Send
  <2>2. to \in After => Len(sent'[s]) > 0 /\ sent'[s][1] = "exec_ready"
    BY <1>3, <2>1, AppendFacts
  <2>3. \A t \in Starts : t # s => pc'[t] = pc[t] /\ sent'[t] = sent[t]
    BY <1>3 DEF TypeOK, Goto, Send
  <2>4. pc'[s] = to
    BY <1>3 DEF TypeOK, Goto
  <2> QED BY <1>3, <2>2, <2>3, <2>4
<1>4. ASSUME NEW s \in Starts, Goroutine(s) PROVE SentInv'
  <2>1. CASE RejectStart(s) \/ FailStart(s) \/ SendReady(s) \/ SendEnd(s)
    BY <1>3, <2>1 DEF RejectStart, FailStart, SendReady, SendEnd, At, Labels, Kinds
  <2>2. CASE SendLeftover(s)
    BY <1>2, <1>3, <2>2 DEF SendLeftover, At, Labels, Kinds
  <2>3. CASE AdmitStart(s) \/ CreateExec(s) \/ StartExecAttach(s) \/ StoreSession(s)
    BY <1>2, <2>3 DEF AdmitStart, CreateExec, StartExecAttach, StoreSession, At, Labels
  <2>4. CASE StartReader(s) \/ ReadEnds(s) \/ DeleteSession(s) \/ CloseConn(s)
    BY <1>2, <2>4 DEF StartReader, ReadEnds, DeleteSession, CloseConn, At, Labels
  <2> QED BY <1>4, <2>1, <2>2, <2>3, <2>4 DEF Goroutine
<1>5. ASSUME NEW s \in Starts, ReceiveStart(s) PROVE SentInv'
  BY <1>2, <1>5 DEF ReceiveStart, At, Labels
<1>6. ASSUME NEW s \in Starts, ReadOutput(s) PROVE SentInv'
  <2>1. Goto(s, "reading")
    BY <1>6 DEF ReadOutput, At, Goto, TypeOK
  <2> QED BY <1>3, <1>6, <2>1 DEF ReadOutput, At, Labels, Kinds
<1> QED BY <1>1, <1>4, <1>5, <1>6 DEF Next, vars, ProcessExits, ReceiveEnd, HandleExecEnd, CloseClient

LEMMA InitSent == Init => SentInv
BY InitTyping DEF Init, SentInv, SentAgrees, Before, After

\* A step of ExecSessions is a step of the promise, or leaves it alone.
LEMMA PromiseStep == SentInv /\ [Next]_vars => [Promise!Next]_<<Phase, sent>>
<1> SUFFICES ASSUME SentInv, [Next]_vars PROVE Promise!Next \/ UNCHANGED <<Phase, sent>>
  BY DEF Promise!vars
<1>0. TypeOK /\ TypeOK' /\ SentAgrees
  BY TypingStep DEF SentInv
<1> USE <1>0 DEF At
<1>1. ASSUME UNCHANGED <<pc, sent>> PROVE UNCHANGED <<Phase, sent>>
  BY <1>1 DEF Phase
<1>2. ASSUME NEW s \in Starts, NEW to \in Labels, Goto(s, to)
      PROVE  /\ pc'[s] = to
             /\ \A t \in Starts \ {s} : pc'[t] = pc[t]
  BY <1>2 DEF Goto, TypeOK
<1>2a. Phase = [t \in Starts |-> Phase[t]] /\ Phase' = [t \in Starts |-> Phase'[t]]
  BY Zenon DEF Phase
<1>3. ASSUME NEW s \in Starts, NEW to \in Labels, Goto(s, to), sent' = sent,
             to \in Before <=> pc[s] \in Before, to \in After <=> pc[s] \in After,
             to # "unsent", pc[s] # "unsent"
      PROVE  UNCHANGED <<Phase, sent>>
  <2>1. \A t \in Starts \ {s} : Phase'[t] = Phase[t]
    BY <1>2, <1>3 DEF Phase
  <2>2. pc'[s] = to /\ pc[s] \in Labels
    BY <1>2, <1>3 DEF TypeOK
  <2>3. CASE pc[s] \in Before
    <3>1. Phase[s] = "pending" /\ Phase'[s] = "pending"
      BY <1>3, <2>2, <2>3 DEF Phase, Before
    <3> QED BY <1>2a, <1>3, <2>1, <3>1
  <2>4. CASE pc[s] \in After
    <3>1. Phase[s] = "open" /\ Phase'[s] = "open"
      BY <1>3, <2>2, <2>4 DEF Phase, After
    <3> QED BY <1>2a, <1>3, <2>1, <3>1
  <2>5. CASE pc[s] \notin Before /\ pc[s] \notin After
    <3>1. pc[s] = "over" /\ pc'[s] = "over"
      BY <1>3, <2>2, <2>5 DEF Before, After, Labels
    <3>2. Phase'[s] = Phase[s]
      BY <1>3, <3>1 DEF Phase
    <3> QED BY <1>2a, <1>3, <2>1, <3>2
  <2> QED BY <2>3, <2>4, <2>5
<1>4. ASSUME NEW s \in Starts, NEW to \in Labels, NEW k \in Kinds, Goto(s, to), Send(s, k)
      PROVE  /\ sent' = [sent EXCEPT ![s] = @ \o <<k>>]
             /\ sent'[s] = Append(sent[s], k)
             /\ Phase' = [Phase EXCEPT ![s] = Phase'[s]]
  <2>1. sent[s] \in Seq(Kinds)
    BY DEF TypeOK
  <2>2. Append(sent[s], k) = sent[s] \o <<k>>
    BY <2>1, AppendFacts
  <2>3. \A t \in Starts \ {s} : pc'[t] = pc[t] /\ sent'[t] = sent[t]
    BY <1>2, <1>4 DEF Send, TypeOK
  <2>4. \A t \in Starts \ {s} : Phase'[t] = Phase[t]
    BY <2>3 DEF Phase
  <2>5. Phase' = [Phase EXCEPT ![s] = Phase'[s]]
    BY <2>4, <1>2a
  <2> QED BY <1>4, <2>2, <2>5 DEF Send, TypeOK
<1>5. ASSUME NEW s \in Starts, RejectStart(s) \/ FailStart(s) PROVE Promise!Refuse(s)
  <2>1. Goto(s, "over") /\ Send(s, "error") /\ pc[s] \in {"check", "create", "attach"}
    BY <1>5 DEF RejectStart, FailStart
  <2>2. sent'[s] = <<"error">>
    BY <1>4, <2>1, AppendFacts DEF SentAgrees, Before, TypeOK, Labels, Kinds
  <2>3. Phase[s] = "pending" /\ Phase'[s] = "refused"
    BY <1>2, <2>1, <2>2 DEF Phase, Labels
  <2> QED BY <1>4, <2>1, <2>3 DEF Promise!Refuse, Promise!Move, Labels, Kinds
<1>6. ASSUME NEW s \in Starts, SendReady(s) PROVE Promise!Open(s)
  <2>1. Goto(s, "resize") /\ Send(s, "exec_ready") /\ pc[s] = "ready"
    BY <1>6 DEF SendReady
  <2>2. Phase[s] = "pending" /\ Phase'[s] = "open"
    BY <1>2, <2>1 DEF Phase, Labels
  <2> QED BY <1>4, <2>1, <2>2 DEF Promise!Open, Promise!Move, Labels, Kinds
<1>7. ASSUME NEW s \in Starts, NEW to \in {"reading"}, Goto(s, to), Send(s, "exec_output"),
             pc[s] \in {"leftover", "reading"}
      PROVE  Promise!Emit(s)
  <2>1. Phase[s] = "open" /\ Phase'[s] = "open"
    BY <1>2, <1>7 DEF Phase, Labels
  <2> QED BY <1>4, <1>7, <2>1 DEF Promise!Emit, Promise!Move, Labels, Kinds
<1>8. ASSUME NEW s \in Starts, SendEnd(s) PROVE Promise!End(s)
  <2>1. Goto(s, "over") /\ Send(s, "exec_end") /\ pc[s] = "farewell"
    BY <1>8 DEF SendEnd
  <2>2. sent[s] \in Seq(Kinds) /\ Len(sent[s]) > 0
    BY <2>1 DEF SentAgrees, After, TypeOK
  <2>3. sent'[s] # <<"error">>
    BY <1>4, <2>1, <2>2, AppendFacts DEF Labels, Kinds
  <2>4. Phase[s] = "open" /\ Phase'[s] = "ended"
    BY <1>2, <2>1, <2>3 DEF Phase, Labels
  <2> QED BY <1>4, <2>1, <2>4 DEF Promise!End, Promise!Move, Labels, Kinds
<1>9. ASSUME NEW s \in Starts, ReceiveStart(s) PROVE Promise!Ask(s)
  <2>1. Goto(s, "check") /\ sent' = sent /\ pc[s] = "unsent"
    BY <1>9 DEF ReceiveStart
  <2>2. Phase[s] = "idle" /\ Phase'[s] = "pending" /\ \A t \in Starts \ {s} : Phase'[t] = Phase[t]
    BY <1>2, <2>1 DEF Phase, Labels
  <2>3. sent' = [sent EXCEPT ![s] = @ \o <<>>]
    BY <2>1, ConcatEmptySeq DEF TypeOK
  <2>4. Phase' = [Phase EXCEPT ![s] = "pending"]
    BY <1>2a, <2>2
  <2> QED BY <2>2, <2>3, <2>4 DEF Promise!Ask, Promise!Move
<1>10. ASSUME NEW s \in Starts, Goroutine(s) PROVE Promise!Next \/ UNCHANGED <<Phase, sent>>
  <2>1. CASE RejectStart(s) \/ FailStart(s) \/ SendReady(s) \/ SendEnd(s)
    BY <1>5, <1>6, <1>8, <2>1 DEF Promise!Next, Promise!Step
  <2>2. CASE SendLeftover(s)
    BY <1>3, <1>7, <2>2 DEF SendLeftover, Promise!Next, Promise!Step, Before, After, Labels
  <2>3. CASE AdmitStart(s) \/ CreateExec(s) \/ StartExecAttach(s) \/ StoreSession(s)
    BY <1>3, <2>3 DEF AdmitStart, CreateExec, StartExecAttach, StoreSession, Before, After, Labels
  <2>4. CASE StartReader(s) \/ ReadEnds(s) \/ DeleteSession(s) \/ CloseConn(s)
    BY <1>3, <2>4 DEF StartReader, ReadEnds, DeleteSession, CloseConn, Before, After, Labels
  <2> QED BY <1>10, <2>1, <2>2, <2>3, <2>4 DEF Goroutine
<1>11. ASSUME NEW s \in Starts, ReadOutput(s) PROVE Promise!Next
  <2>1. Goto(s, "reading")
    BY <1>11 DEF ReadOutput, Goto, TypeOK
  <2> QED BY <1>7, <1>11, <2>1 DEF ReadOutput, Promise!Next, Promise!Step
<1> QED BY <1>1, <1>9, <1>10, <1>11
        DEF Next, vars, ProcessExits, ReceiveEnd, HandleExecEnd, CloseClient, Promise!Next, Promise!Step

\* Every behaviour of the exec sessions is, start by start, one the promise
\* allows: one error, or exec_ready, output and one exec_end, and nothing after.
THEOREM PromiseHolds == Spec => Promise!Safe
<1>1. Init => Promise!Init
  BY DEF Init, Promise!Init, Phase, At
<1>2. SentInv /\ [Next]_vars => [Promise!Next]_(Promise!vars)
  BY PromiseStep DEF Promise!vars
<1> QED BY <1>1, <1>2, InitSent, SentStep, PTL DEF Spec, Safe, Promise!Safe

(***************************************************************************)
(* The terminal of ExecTerminal.  Its messages move nothing of a session,  *)
(* so what is proved of the sessions holds beside them.  What was promised *)
(* to a message rests on its session having been ready for it, which lasts *)
(* to the end, and on the handler having found that session and no other.  *)
(***************************************************************************)

Reached == After \cup {"over"}

\* The session has been ready for the message at some time.
WasReadyFor(s, m) ==
    /\ OwnId(s) /\ IdOf[s] = TargetOf[m]
    /\ conn[s] # "none"
    /\ pc[s] \in Reached \ (IF m \in Resizes THEN {"resize"} ELSE {})

MessagesTyped ==
    /\ handler \in [Messages -> {"unsent", "lookup", "use", "lost", "refused", "done"}]
    /\ session \in [Messages -> Starts \cup {NoSession}]
    /\ typed \in [Starts -> SUBSET Inputs]
    /\ size \in [Starts -> {"default", "initial"} \cup Resizes]
    /\ promised \subseteq Messages

ConnMade ==
    \A s \in Starts : pc[s] \in {"store", "ready"} \cup After => conn[s] # "none"

SessionFound ==
    \A m \in Messages : handler[m] = "use" =>
        session[m] \in Starts /\ IdOf[session[m]] = TargetOf[m]

PromisedWasReady ==
    \A m \in promised : handler[m] # "unsent" /\ \E s \in Starts : WasReadyFor(s, m)

TerminalInv ==
    /\ IInv /\ MessagesTyped /\ ConnMade /\ SessionFound
    /\ PromisedWasReady /\ TerminalObeys

\* A connection is made once and closed once, a process ends once, and a start
\* that has reached a label after exec_ready does not come back before it.
LEMMA SessionsGoOn ==
    ASSUME TypeOK, [Next]_vars, NEW s \in Starts
    PROVE  /\ conn[s] = "closed" => conn'[s] = "closed" \/ pc[s] = "attach"
           /\ conn[s] # "none" => conn'[s] # "none"
           /\ s \in exited => s \in exited'
           /\ pc[s] \in Reached => pc'[s] \in Reached
           /\ pc[s] \in Reached \ {"resize"} => pc'[s] \in Reached \ {"resize"}
           /\ pc'[s] \in {"store", "ready"} \cup After =>
                 pc[s] \in {"store", "ready"} \cup After \/ conn'[s] # "none"
<1> USE DEF Reached, After, TypeOK, Goto, At
<1>1. ASSUME NEW t \in Starts, Goroutine(t)
      PROVE  /\ pc[s] \in Reached => pc'[s] \in Reached
             /\ pc[s] \in Reached \ {"resize"} => pc'[s] \in Reached \ {"resize"}
             /\ pc'[s] \in {"store", "ready"} \cup After =>
                   \/ pc[s] \in {"store", "ready"} \cup After
                   \/ t = s /\ StartExecAttach(s)
  BY <1>1 DEF Goroutine, RejectStart, AdmitStart, CreateExec, StartExecAttach, FailStart,
              StoreSession, SendReady, StartReader, SendLeftover, ReadEnds, DeleteSession,
              CloseConn, SendEnd
<1>2. ASSUME NEW t \in Starts, Goroutine(t)
      PROVE  /\ exited' = exited
             /\ \/ conn' = conn
                \/ pc[t] = "attach" /\ conn' = [conn EXCEPT ![t] = "open"]
                \/ conn' = [conn EXCEPT ![t] = "closed"]
  BY <1>2 DEF Goroutine, RejectStart, AdmitStart, CreateExec, StartExecAttach, FailStart,
              StoreSession, SendReady, StartReader, SendLeftover, ReadEnds, DeleteSession,
              CloseConn, SendEnd
<1>3. ASSUME NEW t \in Starts, Goroutine(t)
      PROVE  StartExecAttach(s) => conn'[s] = "open"
  BY DEF StartExecAttach
<1>4. ASSUME NEW t \in Starts, ReceiveStart(t) \/ ProcessExits(t) \/ ReadOutput(t)
      PROVE  /\ conn' = conn /\ exited \subseteq exited'
             /\ pc'[s] = pc[s] \/ (pc[s] = "unsent" /\ pc'[s] = "check")
  BY <1>4 DEF ReceiveStart, ProcessExits, ReadOutput
<1>5. ASSUME NEW x \in ExecIds, ReceiveEnd(x) \/ HandleExecEnd(x)
      PROVE  pc' = pc /\ exited' = exited /\ conn'[s] \in {conn[s], "closed"}
  BY <1>5 DEF ReceiveEnd, HandleExecEnd
<1>6. CASE CloseClient
  BY <1>6 DEF CloseClient
<1>7. CASE UNCHANGED vars
  BY <1>7 DEF vars
<1>8. ASSUME NEW t \in Starts, Goroutine(t)
      PROVE  /\ conn[s] = "closed" => conn'[s] = "closed" \/ pc[s] = "attach"
             /\ conn[s] # "none" => conn'[s] # "none"
  BY <1>2, <1>8
<1> QED BY <1>1, <1>2, <1>3, <1>4, <1>5, <1>6, <1>7, <1>8 DEF Next

LEMMA InitTerminal == TerminalInit => TerminalInv
<1> SUFFICES ASSUME TerminalInit PROVE TerminalInv
  OBVIOUS
<1>1. IInv
  BY InitIInv DEF TerminalInit
<1> QED BY <1>1, ConstantsAssumption
        DEF TerminalInit, Init, TerminalInv, MessagesTyped, ConnMade, SessionFound,
            PromisedWasReady, TerminalObeys, After

\* A step of the sessions, with the initial resize.
LEMMA SessionsKeepTerminal ==
    ASSUME TerminalInv, [Next]_vars, InitialSize \/ size' = size,
           UNCHANGED <<handler, session, typed, promised>>
    PROVE  TerminalInv'
<1> USE DEF TerminalInv
<1>0. TypeOK /\ ConnAgrees /\ IInv'
  BY StepIInv DEF IInv
<1>1. \A s \in Starts : /\ pc[s] # "resize" => size'[s] = size[s]
                        /\ size'[s] \in {size[s], "initial"}
  BY DEF InitialSize, MessagesTyped, At
<1>2. MessagesTyped'
  <2>1. size' \in [Starts -> {"default", "initial"} \cup Resizes]
    BY DEF InitialSize, MessagesTyped
  <2> QED BY <2>1 DEF MessagesTyped
<1>3. ConnMade'
  BY <1>0, SessionsGoOn DEF ConnMade
<1>4. SessionFound'
  BY DEF SessionFound
<1>5. ASSUME NEW s \in Starts, NEW m \in Messages, WasReadyFor(s, m)
      PROVE  WasReadyFor(s, m)'
  BY <1>0, <1>5, SessionsGoOn DEF WasReadyFor
<1>6. PromisedWasReady'
  BY <1>5 DEF PromisedWasReady, MessagesTyped
<1>7. ASSUME NEW m \in promised, NEW s \in Starts, IdOf[s] = TargetOf[m]
      PROVE  /\ handler[m] = "lost" => conn'[s] = "closed" \/ s \in exited'
             /\ handler[m] = "done" =>
                   IF m \in Inputs THEN m \in typed[s] ELSE size'[s] \in Resizes
  <2>1. m \in Messages /\ WasReadyFor(s, m)
    BY <1>7 DEF PromisedWasReady, WasReadyFor, MessagesTyped
  <2>2. pc[s] # "attach" /\ (m \notin Inputs => pc[s] # "resize")
    BY <2>1 DEF WasReadyFor, Reached, After, Messages
  <2>3. conn[s] = "closed" \/ s \in exited => conn'[s] = "closed" \/ s \in exited'
    BY <1>0, <2>2, SessionsGoOn
  <2> QED BY <1>1, <1>7, <2>2, <2>3 DEF TerminalObeys
<1>8. TerminalObeys'
  BY <1>7 DEF TerminalObeys
<1> QED BY <1>0, <1>2, <1>3, <1>4, <1>6, <1>8

\* A promised message that is given up has lost its session.
LEMMA LookupFindsOpen ==
    ASSUME TerminalInv, NEW m \in Messages, NEW s \in Starts, WasReadyFor(s, m),
           TargetOf[m] \notin Live
    PROVE  conn[s] = "closed" \/ s \in exited
<1>1. pc[s] \in Stored /\ conn[s] = "open" => table[IdOf[s]] = s
  BY DEF TerminalInv, IInv, NoOrphan, WasReadyFor
<1>2. TargetOf[m] \in ExecIds /\ IdOf[s] = TargetOf[m] /\ table[TargetOf[m]] = NoSession
  BY TerminalConstantsAssumption DEF Live, WasReadyFor
<1>3. ~(pc[s] \in Stored /\ conn[s] = "open")
  BY <1>1, <1>2, ConstantsAssumption
<1>4. conn[s] \in {"open", "closed"}
  BY DEF TerminalInv, IInv, TypeOK, WasReadyFor
<1>5. pc[s] \in Stored \cup {"delete", "closeConn", "farewell", "over"}
  BY DEF WasReadyFor, Reached, After
<1> QED BY <1>3, <1>4, <1>5 DEF TerminalInv, IInv, ConnAgrees

LEMMA MessagesKeepTerminal ==
    ASSUME TerminalInv, NEW m \in Messages,
           ReceiveMessage(m) \/ Lookup(m) \/ WriteInput(m) \/ Resize(m)
    PROVE  TerminalInv'
<1> USE DEF TerminalInv
<1>0. IInv' /\ ConnMade' /\ UNCHANGED vars /\ TypeOK
  <2>1. UNCHANGED vars
    BY DEF ReceiveMessage, Lookup, WriteInput, Resize
  <2> QED BY <2>1, StepIInv DEF ConnMade, vars, IInv
<1>a. \A s \in Starts, n \in Messages : WasReadyFor(s, n)' <=> WasReadyFor(s, n)
  BY <1>0 DEF WasReadyFor, vars
<1>b. ASSUME NEW n \in promised, NEW s \in Starts, IdOf[s] = TargetOf[n]
      PROVE  n \in Messages /\ WasReadyFor(s, n)
  BY <1>b DEF PromisedWasReady, WasReadyFor, MessagesTyped
<1>1. CASE ReceiveMessage(m)
  <2> USE <1>1 DEF ReceiveMessage
  <2>1. MessagesTyped' /\ SessionFound'
    BY DEF MessagesTyped, SessionFound
  <2>2. ASSUME NEW s \in Starts, ReadyFor(s, m) PROVE WasReadyFor(s, m)
    BY <2>2 DEF ReadyFor, WasReadyFor, ConnMade, Reached, After
  <2>3. PromisedWasReady'
    BY <1>a, <2>2 DEF PromisedWasReady, MessagesTyped
  <2>4. TerminalObeys'
    BY <1>0 DEF TerminalObeys, MessagesTyped, vars
  <2> QED BY <1>0, <2>1, <2>3, <2>4
<1>2. CASE Lookup(m)
  <2> USE <1>2 DEF Lookup
  <2>1. MessagesTyped'
    BY <1>0, TerminalConstantsAssumption DEF MessagesTyped, TypeOK
  <2>2. ASSUME TargetOf[m] \in Live
        PROVE  table[TargetOf[m]] \in Starts /\ IdOf[table[TargetOf[m]]] = TargetOf[m]
    BY <2>2 DEF Live, IInv, TableAgrees, TypeOK
  <2>3. SessionFound'
    BY <2>2 DEF SessionFound, MessagesTyped
  <2>4. PromisedWasReady'
    BY <1>a DEF PromisedWasReady, MessagesTyped
  <2>5. handler'[m] \in {"lookup", "use", "lost"} /\ (handler'[m] = "lost" => TargetOf[m] \notin Live)
    BY DEF MessagesTyped
  <2>6. \A s \in Starts : m \in promised /\ IdOf[s] = TargetOf[m] /\ handler'[m] = "lost" =>
                              conn[s] = "closed" \/ s \in exited
    BY <1>b, <2>5, LookupFindsOpen
  <2>7. \A n \in Messages \ {m} : handler'[n] = handler[n]
    BY DEF MessagesTyped
  <2>8. TerminalObeys'
    BY <1>0, <1>b, <2>5, <2>6, <2>7 DEF TerminalObeys, vars
  <2> QED BY <1>0, <2>1, <2>3, <2>4, <2>8
<1>3. CASE WriteInput(m)
  <2> USE <1>3 DEF WriteInput
  <2>1. session[m] \in Starts /\ IdOf[session[m]] = TargetOf[m]
    BY DEF SessionFound
  <2>2. MessagesTyped' /\ SessionFound'
    BY <2>1 DEF MessagesTyped, SessionFound
  <2>3. PromisedWasReady'
    BY <1>a DEF PromisedWasReady, MessagesTyped
  <2>4. ASSUME NEW s \in Starts, m \in promised, IdOf[s] = TargetOf[m] PROVE s = session[m]
    BY <1>b, <2>1, <2>4 DEF WasReadyFor
  <2>5. /\ \A n \in Messages \ {m} : handler'[n] = handler[n]
        /\ \A s \in Starts : typed[s] \subseteq typed'[s]
    BY DEF MessagesTyped
  <2>6. /\ handler'[m] = "lost" => conn[session[m]] = "closed" \/ session[m] \in exited
        /\ handler'[m] = "done" => m \in typed'[session[m]]
        /\ handler'[m] \in {"lost", "done"}
    BY <2>1 DEF MessagesTyped
  <2>7. TerminalObeys'
    BY <1>0, <1>b, <2>4, <2>5, <2>6 DEF TerminalObeys, vars
  <2> QED BY <1>0, <2>2, <2>3, <2>7
<1>4. CASE Resize(m)
  <2> USE <1>4 DEF Resize
  <2>1. session[m] \in Starts /\ IdOf[session[m]] = TargetOf[m]
    BY DEF SessionFound
  <2>2. MessagesTyped' /\ SessionFound'
    BY <2>1 DEF MessagesTyped, SessionFound
  <2>3. PromisedWasReady'
    BY <1>a DEF PromisedWasReady, MessagesTyped
  <2>4. ASSUME NEW s \in Starts, m \in promised, IdOf[s] = TargetOf[m] PROVE s = session[m]
    BY <1>b, <2>1, <2>4 DEF WasReadyFor
  <2>5. /\ \A n \in Messages \ {m} : handler'[n] = handler[n]
        /\ \A s \in Starts : size[s] \in Resizes => size'[s] \in Resizes
    BY DEF MessagesTyped
  <2>6. /\ handler'[m] = "done" => size'[session[m]] \in Resizes
        /\ handler'[m] # "lost" /\ m \notin Inputs
    BY <2>1, TerminalConstantsAssumption DEF MessagesTyped
  <2>7. TerminalObeys'
    BY <1>0, <1>b, <2>4, <2>5, <2>6 DEF TerminalObeys, vars
  <2> QED BY <1>0, <2>2, <2>3, <2>7
<1> QED BY <1>1, <1>2, <1>3, <1>4

\* The sessions beside their terminals are the sessions alone: whatever is
\* proved of Spec holds of TerminalSpec.
THEOREM TerminalKeepsSessions == TerminalSpec => Spec
<1>1. TerminalInit => Init
  BY DEF TerminalInit
<1>2. [TerminalNext]_<<vars, terminalVars>> => [Next]_vars
  BY DEF TerminalNext, ReceiveMessage, Lookup, WriteInput, Resize
<1> QED BY <1>1, <1>2, PTL DEF TerminalSpec, Spec, Safe

\* What is typed or resized after exec_ready reaches its session, or that
\* session's connection has been closed at one end; a size asked for after the
\* initial resize stays; for any number of messages, sessions and lookups.
THEOREM TerminalObeysHolds == TerminalSpec => []TerminalObeys
<1>1. TerminalInv /\ [TerminalNext]_<<vars, terminalVars>> => TerminalInv'
  <2> SUFFICES ASSUME TerminalInv, [TerminalNext]_<<vars, terminalVars>> PROVE TerminalInv'
    OBVIOUS
  <2>1. CASE Next /\ InitialSize /\ UNCHANGED <<handler, lookups, session, typed, promised>>
    BY <2>1, SessionsKeepTerminal
  <2>2. CASE UNCHANGED <<vars, terminalVars>>
    BY <2>2, SessionsKeepTerminal DEF terminalVars
  <2>3. ASSUME NEW m \in Messages, ReceiveMessage(m) \/ Lookup(m) \/ WriteInput(m) \/ Resize(m)
        PROVE  TerminalInv'
    BY <2>3, MessagesKeepTerminal
  <2> QED BY <2>1, <2>2, <2>3 DEF TerminalNext
<1>2. TerminalInv => TerminalObeys
  BY DEF TerminalInv
<1> QED BY <1>1, <1>2, InitTerminal, PTL DEF TerminalSpec
=============================================================================
