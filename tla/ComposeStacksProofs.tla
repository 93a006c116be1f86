------------------------- MODULE ComposeStacksProofs -------------------------
(* Proofs about ComposeStacks, for any operations, probes, projects and    *)
(* files: what a command reads of its own files, and what command line is  *)
(* started.                                                                *)
EXTENDS ComposeStacks, TLAPS

(***************************************************************************)
(* The inductive invariant.                                                *)
(***************************************************************************)

Fields == {"composeCmd", "composeArgs", "composeChecked"}

FilesTyped ==
    /\ DOMAIN stacks = Projects /\ (\A p \in Projects : DOMAIN stacks[p] = Names)
    /\ DOMAIN own = Ops /\ (\A o \in Ops : own[o] \subseteq Names)

TypeOK ==
    /\ FilesTyped
    /\ DOMAIN pc = Callers /\ DOMAIN pend = Callers
    /\ DOMAIN cli = Fields /\ cli.composeChecked \in BOOLEAN
    /\ found \subseteq {"v1", "v2"}
    /\ DOMAIN todo = Ops /\ (\A o \in Ops : todo[o] \subseteq Names)
    /\ DOMAIN read = Ops /\ (\A o \in Ops : DOMAIN read[o] = Names)
    /\ DOMAIN writing = Ops /\ (\A o \in Ops : writing[o] \in Names \cup {NoName})
    /\ DOMAIN command = Ops

\* A file that is an operation's own has its content, or is the one it has open
\* and has not filled.
OwnFiles ==
    \A o \in Ops : \A n \in own[o] :
        stacks[ProjectOf[o]][n] = IF writing[o] = n THEN "empty" ELSE VersionOf[o]

\* Files are open only while they are written, and only a command reads.
Phases ==
    \A o \in Ops :
        /\ writing[o] # NoName => pc[o] \in {"write", "fallback"}
        /\ pc[o] # "run" => \A n \in Names : read[o][n] = "unread"

\* What detections have still to assign is what they have found, and a caller
\* has gone on from them only with composeChecked set.
Detections ==
    /\ cli.composeChecked => found # {}
    /\ \A c \in Callers :
        /\ \A a \in pend[c] : \E v \in found : \E f \in Fields : a = <<f, Record(v)[f]>>
        /\ pend[c] # {} => pc[c] = "record"
        /\ pc[c] = "record" => (cli.composeChecked \/ <<"composeChecked", TRUE>> \in pend[c])
    /\ \A o \in Ops : pc[o] \in {"login", "write", "fallback", "start", "run"} => cli.composeChecked

\* While the detections agree on v, a field that has not its value is one that
\* a caller has still to assign.
Agreed ==
    \A v \in {"v1", "v2"} : found = {v} =>
        \A f \in Fields :
            /\ \A c \in Callers :
                pc[c] = "record" => (cli[f] = Record(v)[f] \/ <<f, Record(v)[f]>> \in pend[c])
            /\ cli.composeChecked =>
                (cli[f] = Record(v)[f] \/ \E c \in Callers : <<f, Record(v)[f]>> \in pend[c])

FileInv == OwnFiles /\ Phases /\ OwnInputs
CliInv == Detections /\ Agreed
IInv == TypeOK /\ FileInv /\ CliInv

LEMMA InitIInv == Init => IInv
<1> SUFFICES ASSUME Init PROVE IInv
  OBVIOUS
<1> USE ConstantsAssumption DEF Init
<1>1. TypeOK
  BY DEF TypeOK, FilesTyped, Fields
<1>2. FileInv
  BY DEF FileInv, OwnFiles, Phases, OwnInputs, Callers
<1>3. CliInv
  <2>1. \A c \in Callers : pc[c] = "unsent" /\ pend[c] = {}
    OBVIOUS
  <2>2. ~cli.composeChecked /\ found = {} /\ Ops \subseteq Callers
    BY DEF Callers
  <2>3. Detections
    BY <2>1, <2>2 DEF Detections
  <2>4. Agreed
    BY <2>2 DEF Agreed
  <2> QED BY <2>3, <2>4 DEF CliInv
<1> QED BY <1>1, <1>2, <1>3 DEF IInv

(***************************************************************************)
(* What a step of one operation moves.                                     *)
(***************************************************************************)

Past == {"login", "write", "fallback", "start", "run"}

\* An operation that has passed the detection stays past it until it is over.
Moves(o) ==
    \/ pc' = pc
    \/ pc[o] \in Past /\ \E l \in Past \cup {"over"} : pc' = [pc EXCEPT ![o] = l]

LEMMA MovesKeepCli ==
    ASSUME IInv, NEW o \in Ops, Moves(o), UNCHANGED cliVars
    PROVE  CliInv'
<1>1. o \in Callers /\ DOMAIN pc = Callers /\ Ops \subseteq Callers
  BY DEF IInv, TypeOK, Callers
<1>2. \A c \in Callers : pc'[c] = pc[c] \/ (c = o /\ pc[o] \in Past /\ pc'[o] \in Past \cup {"over"})
  BY <1>1 DEF Moves
<1>3. \A c \in Callers : pc'[c] = "record" <=> pc[c] = "record"
  BY <1>2 DEF Past
<1>4. UNCHANGED cli /\ UNCHANGED pend /\ UNCHANGED found
  BY DEF cliVars
<1>5. Detections'
  <2>1. \A c \in Ops : pc'[c] \in Past => cli.composeChecked
    BY <1>1, <1>2 DEF IInv, CliInv, Detections, Past
  <2> QED BY <1>3, <1>4, <2>1 DEF IInv, CliInv, Detections, Past
<1>6. Agreed'
  BY <1>3, <1>4 DEF IInv, CliInv, Agreed
<1> QED BY <1>5, <1>6 DEF CliInv

\* Steps that leave the directories alone: an operation may forget what it has
\* written or read, and starts its command with nothing read.
LEMMA KeepsFiles ==
    ASSUME IInv, NEW o \in Ops, UNCHANGED <<stacks, writing>>, writing[o] = NoName,
           pc' = [pc EXCEPT ![o] = pc'[o]],
           DOMAIN own' = Ops, \A q \in Ops : own'[q] \subseteq own[q],
           DOMAIN read' = Ops, \A q \in Ops : DOMAIN read'[q] = Names,
           \A q \in Ops : \A n \in Names : read'[q][n] \in {read[q][n], "unread"},
           pc[o] # "run" \/ pc'[o] = "run" \/ \A n \in Names : read'[o][n] = "unread"
    PROVE  FileInv'
<1>1. o \in Callers /\ DOMAIN pc = Callers /\ Ops \subseteq Callers
  BY DEF IInv, TypeOK, Callers
<1>2. \A q \in Ops : q # o => pc'[q] = pc[q]
  BY <1>1
<1>3. \A q \in Ops : own[q] \subseteq Names
  BY DEF IInv, TypeOK, FilesTyped
<1>4. OwnFiles'
  BY DEF IInv, FileInv, OwnFiles
<1>5. Phases'
  <2> SUFFICES ASSUME NEW q \in Ops
               PROVE  /\ writing'[q] # NoName => pc'[q] \in {"write", "fallback"}
                      /\ pc'[q] # "run" => \A n \in Names : read'[q][n] = "unread"
    BY DEF Phases
  <2>1. /\ writing[q] # NoName => pc[q] \in {"write", "fallback"}
        /\ pc[q] # "run" => \A n \in Names : read[q][n] = "unread"
    BY DEF IInv, FileInv, Phases
  <2>2. CASE q = o
    BY <2>1, <2>2
  <2>3. CASE q # o
    BY <1>2, <2>1, <2>3
  <2> QED BY <2>2, <2>3
<1>6. OwnInputs'
  <2> SUFFICES ASSUME NEW q \in Ops, NEW n \in own'[q]
               PROVE  read'[q][n] \in {"unread", VersionOf[q]}
    BY DEF OwnInputs
  <2>1. n \in own[q] /\ n \in Names
    BY <1>3
  <2>2. read[q][n] \in {"unread", VersionOf[q]}
    BY <2>1 DEF IInv, FileInv, OwnInputs
  <2> QED BY <2>1, <2>2
<1> QED BY <1>4, <1>5, <1>6 DEF FileInv

\* What Put changes: one file, which only the writer may still call its own.
LEMMA PutFacts ==
    ASSUME TypeOK, NEW o \in Ops, NEW n \in Names, NEW content, NEW mine,
           mine \subseteq Names, Put(o, n, content, mine)
    PROVE  /\ FilesTyped'
           /\ \A q \in Ops, m \in Names :
                stacks'[ProjectOf[q]][m] = IF ProjectOf[q] = ProjectOf[o] /\ m = n THEN content
                                           ELSE stacks[ProjectOf[q]][m]
           /\ own'[o] = mine
           /\ \A q \in Ops \ {o} : /\ own'[q] \subseteq own[q]
                                   /\ n \in own'[q] => ProjectOf[q] # ProjectOf[o]
<1> USE ConstantsAssumption DEF Put, TypeOK, FilesTyped
<1>1. \A q \in Ops : ProjectOf[q] \in Projects
  OBVIOUS
<1> DEFINE p == ProjectOf[o]
<1>2. stacks' = [stacks EXCEPT ![p] = [stacks[p] EXCEPT ![n] = content]]
  OBVIOUS
<1>3. /\ stacks'[p] = [stacks[p] EXCEPT ![n] = content]
      /\ \A r \in Projects : r # p => stacks'[r] = stacks[r]
      /\ DOMAIN stacks' = Projects
  BY <1>1, <1>2
<1>4. \A m \in Names : stacks'[p][m] = IF m = n THEN content ELSE stacks[p][m]
  BY <1>1, <1>3
<1>5. \A q \in Ops, m \in Names :
        stacks'[ProjectOf[q]][m] = IF ProjectOf[q] = ProjectOf[o] /\ m = n THEN content
                                   ELSE stacks[ProjectOf[q]][m]
  BY <1>1, <1>3, <1>4
<1>6. \A r \in Projects : DOMAIN stacks'[r] = Names
  BY <1>1, <1>3
<1>7. DOMAIN own' = Ops /\ own'[o] = mine
  OBVIOUS
<1>8. \A q \in Ops \ {o} : own'[q] = IF ProjectOf[q] = ProjectOf[o] THEN own[q] \ {n} ELSE own[q]
  OBVIOUS
<1>9. \A q \in Ops : own'[q] \subseteq Names
  BY <1>7, <1>8
<1> QED BY <1>3, <1>5, <1>6, <1>7, <1>8, <1>9

(***************************************************************************)
(* Every step keeps the invariant.                                         *)
(***************************************************************************)

\* The steps of Execute that leave the directories alone.
LEMMA QuietPreserves ==
    ASSUME IInv, NEW o \in Ops,
           \/ ContextEnds(o) \/ Login(o) \/ Refuse(o) \/ Fallback(o) \/ Choose(o)
           \/ Start(o) \/ CommandEnds(o) \/ Killed(o)
    PROVE  IInv'
<1> USE ConstantsAssumption
<1>1. o \in Callers /\ Ops \subseteq Callers /\ pc[o] \in {pc[o]}
  BY DEF Callers
<1>2. TypeOK
  BY DEF IInv
<1>3. /\ UNCHANGED <<stacks, writing, cliVars>>
      /\ own' = own \/ own' = [own EXCEPT ![o] = {}]
      /\ read' = read \/ read' = [read EXCEPT ![o] = [n \in Names |-> "unread"]]
  BY DEF ContextEnds, Login, Refuse, Fallback, Choose, Start, CommandEnds, Killed, Return, Forget,
         fileVars, runVars, locals
<1>4. /\ DOMAIN own' = Ops /\ \A q \in Ops : own'[q] \subseteq own[q]
  BY <1>2, <1>3 DEF TypeOK, FilesTyped
<1>5. /\ DOMAIN read' = Ops /\ \A q \in Ops : DOMAIN read'[q] = Names
      /\ \A q \in Ops : \A n \in Names : read'[q][n] \in {read[q][n], "unread"}
  <2>1. DOMAIN read = Ops /\ \A q \in Ops : DOMAIN read[q] = Names
    BY <1>2 DEF TypeOK
  <2>2. CASE read' = read
    BY <2>1, <2>2
  <2>3. CASE read' = [read EXCEPT ![o] = [n \in Names |-> "unread"]]
    <3>1. read'[o] = [n \in Names |-> "unread"] /\ \A q \in Ops : q # o => read'[q] = read[q]
      BY <2>1, <2>3
    <3> QED BY <2>1, <2>3, <3>1
  <2> QED BY <1>3, <2>2, <2>3
<1>6. Moves(o)
  <2>1. CASE ContextEnds(o)
    BY <2>1 DEF ContextEnds, Moves
  <2>2. CASE Login(o) \/ Refuse(o) \/ Fallback(o) \/ Choose(o) \/ Start(o) \/ CommandEnds(o) \/ Killed(o)
    BY <2>2 DEF Login, Refuse, Fallback, Choose, Start, CommandEnds, Killed, Return, At, Goto,
                Moves, Past
  <2> QED BY <2>1, <2>2
<1>7. pc' = pc \/ writing[o] = NoName
  <2>1. pc[o] \notin {"write", "fallback"} => writing[o] = NoName
    BY DEF IInv, FileInv, Phases
  <2>2. CASE Login(o) \/ Start(o) \/ CommandEnds(o) \/ Killed(o)
    BY <2>1, <2>2 DEF Login, Start, CommandEnds, Killed, At
  <2>3. CASE ContextEnds(o) \/ Refuse(o) \/ Fallback(o) \/ Choose(o)
    BY <2>3 DEF ContextEnds, Refuse, Fallback, Choose
  <2> QED BY <2>2, <2>3
<1>8. pc[o] # "run" \/ pc'[o] = "run" \/ \A n \in Names : read'[o][n] = "unread"
  <2> SUFFICES ASSUME pc[o] = "run", pc'[o] # "run" PROVE \A n \in Names : read'[o][n] = "unread"
    OBVIOUS
  <2>1. CommandEnds(o) \/ Killed(o)
    BY DEF ContextEnds, Login, Refuse, Fallback, Choose, Start, At
  <2> QED BY <1>2, <2>1 DEF CommandEnds, Killed, Return, Forget, TypeOK
<1>9. FileInv'
  <2>1. CASE pc' = pc
    <3>1. UNCHANGED <<own, read>>
      BY <1>1, <1>2, <2>1 DEF ContextEnds, Login, Refuse, Fallback, Choose, Start, CommandEnds, Killed,
            Return, At, Goto, TypeOK, fileVars, runVars, locals
    <3> QED BY <1>3, <2>1, <3>1 DEF IInv, FileInv, OwnFiles, Phases, OwnInputs
  <2>2. CASE pc' # pc
    <3>1. pc' = [pc EXCEPT ![o] = pc'[o]] /\ writing[o] = NoName
      BY <1>1, <1>2, <1>6, <1>7, <2>2 DEF Moves, TypeOK
    <3> QED BY <1>3, <1>4, <1>5, <1>8, <3>1, KeepsFiles
  <2> QED BY <2>1, <2>2
<1>10. TypeOK'
  <2>1. FilesTyped'
    BY <1>2, <1>3, <1>4 DEF TypeOK, FilesTyped
  <2>2. DOMAIN pc' = Callers
    BY <1>1, <1>2, <1>6 DEF Moves, TypeOK
  <2>3. DOMAIN todo' = Ops /\ \A q \in Ops : todo'[q] \subseteq Names
    <3>1. Standard[1] \in Names
      BY DEF ConstantsAssumption
    <3>2. todo' = todo \/ todo' = [todo EXCEPT ![o] = {}] \/ todo' = [todo EXCEPT ![o] = {Standard[1]}]
      BY DEF ContextEnds, Login, Refuse, Fallback, Choose, Start, CommandEnds, Killed, Return, Forget,
             fileVars, locals
    <3> QED BY <1>2, <3>1, <3>2 DEF TypeOK
  <2>4. DOMAIN command' = Ops /\ UNCHANGED writing
    BY <1>2, <1>3 DEF ContextEnds, Login, Refuse, Fallback, Choose, Start, CommandEnds, Killed, Return, Forget,
           runVars, locals, TypeOK
  <2> QED BY <1>2, <1>3, <1>5, <2>1, <2>2, <2>3, <2>4 DEF TypeOK, cliVars
<1> QED BY <1>3, <1>6, <1>9, <1>10, MovesKeepCli DEF IInv

\* A file is opened, and is its operation's own with nothing in it.
LEMMA WriteBeginPreserves ==
    ASSUME IInv, NEW o \in Ops, WriteBegin(o)
    PROVE  IInv'
<1>1. TypeOK /\ FileInv
  BY DEF IInv
<1>2. PICK n \in todo[o] : /\ writing' = [writing EXCEPT ![o] = n]
                           /\ todo' = [todo EXCEPT ![o] = @ \ {n}]
                           /\ Put(o, n, "empty", own[o] \cup {n})
  BY DEF WriteBegin
<1>3. n \in Names /\ n # NoName /\ own[o] \cup {n} \subseteq Names
  BY <1>1, ConstantsAssumption DEF TypeOK, FilesTyped
<1>4. /\ FilesTyped'
      /\ \A q \in Ops, m \in Names :
            stacks'[ProjectOf[q]][m] = IF ProjectOf[q] = ProjectOf[o] /\ m = n THEN "empty"
                                       ELSE stacks[ProjectOf[q]][m]
      /\ own'[o] = own[o] \cup {n}
      /\ \A q \in Ops \ {o} : own'[q] \subseteq own[q] /\ (n \in own'[q] => ProjectOf[q] # ProjectOf[o])
  BY <1>1, <1>2, <1>3, PutFacts
<1>5. /\ writing[o] = NoName /\ pc[o] \in {"write", "fallback"}
      /\ UNCHANGED <<pc, cliVars, runVars>>
  BY DEF WriteBegin
<1>6. TypeOK'
  BY <1>1, <1>2, <1>3, <1>4, <1>5 DEF TypeOK, cliVars, runVars
<1>7. \A q \in Ops : writing'[q] = IF q = o THEN n ELSE writing[q]
  BY <1>1, <1>2 DEF TypeOK
<1>8. OwnFiles'
  <2> SUFFICES ASSUME NEW q \in Ops, NEW m \in own'[q]
               PROVE  stacks'[ProjectOf[q]][m] = IF writing'[q] = m THEN "empty" ELSE VersionOf[q]
    BY DEF OwnFiles
  <2>1. m \in Names
    BY <1>4 DEF FilesTyped
  <2>2. CASE q = o /\ m = n
    BY <1>4, <1>7, <2>1, <2>2
  <2>3. CASE q = o /\ m # n
    <3>1. m \in own[o] /\ writing[o] # m
      BY <1>4, <1>5, <2>1, <2>3, ConstantsAssumption
    <3> QED BY <1>1, <1>4, <1>7, <2>1, <2>3, <3>1 DEF FileInv, OwnFiles
  <2>4. CASE q # o
    <3>1. m \in own[q] /\ ~(ProjectOf[q] = ProjectOf[o] /\ m = n)
      BY <1>4, <2>4
    <3> QED BY <1>1, <1>4, <1>7, <2>1, <2>4, <3>1 DEF FileInv, OwnFiles
  <2> QED BY <2>2, <2>3, <2>4
<1>9. Phases'
  BY <1>1, <1>5, <1>7 DEF FileInv, Phases, runVars
<1>10. OwnInputs'
  <2> SUFFICES ASSUME NEW q \in Ops, NEW m \in own'[q]
               PROVE  read[q][m] \in {"unread", VersionOf[q]}
    BY <1>5 DEF OwnInputs, runVars
  <2>1. CASE q = o
    <3>1. m \in Names
      BY <1>4 DEF FilesTyped
    <3> QED BY <1>1, <1>5, <2>1, <3>1 DEF FileInv, Phases
  <2>2. CASE q # o
    BY <1>1, <1>4, <2>2 DEF FileInv, OwnInputs
  <2> QED BY <2>1, <2>2
<1> QED BY <1>5, <1>6, <1>8, <1>9, <1>10, MovesKeepCli DEF IInv, FileInv, Moves

\* A file that is still its operation's own was empty: it gets the content whole.
LEMMA WriteEndPreserves ==
    ASSUME IInv, NEW o \in Ops, WriteEnd(o)
    PROVE  IInv'
<1> DEFINE n == writing[o]
<1>1. TypeOK /\ FileInv
  BY DEF IInv
<1>2. PICK content : /\ Put(o, n, content, own[o])
                     /\ stacks[ProjectOf[o]][n] = "empty" => content = VersionOf[o]
  BY DEF WriteEnd
<1>3. /\ writing' = [writing EXCEPT ![o] = NoName] /\ n # NoName
      /\ UNCHANGED <<pc, todo, cliVars, runVars>>
  BY DEF WriteEnd
<1>4. \A q \in Ops : writing'[q] = IF q = o THEN NoName ELSE writing[q]
  BY <1>1, <1>3 DEF TypeOK
<1>5. n \in Names /\ own[o] \subseteq Names
  BY <1>1, <1>3 DEF TypeOK, FilesTyped
<1>6. /\ FilesTyped'
      /\ \A q \in Ops, m \in Names :
            stacks'[ProjectOf[q]][m] = IF ProjectOf[q] = ProjectOf[o] /\ m = n THEN content
                                       ELSE stacks[ProjectOf[q]][m]
      /\ own'[o] = own[o]
      /\ \A q \in Ops \ {o} : own'[q] \subseteq own[q] /\ (n \in own'[q] => ProjectOf[q] # ProjectOf[o])
  BY <1>1, <1>2, <1>5, PutFacts
<1>7. TypeOK'
  BY <1>1, <1>3, <1>4, <1>6 DEF TypeOK, cliVars, runVars
<1>8. OwnFiles'
  <2> SUFFICES ASSUME NEW q \in Ops, NEW m \in own'[q]
               PROVE  stacks'[ProjectOf[q]][m] = IF writing'[q] = m THEN "empty" ELSE VersionOf[q]
    BY DEF OwnFiles
  <2>1. m \in Names /\ m # NoName /\ m \in own[q]
    BY <1>6, ConstantsAssumption DEF FilesTyped
  <2>2. stacks[ProjectOf[q]][m] = IF writing[q] = m THEN "empty" ELSE VersionOf[q]
    BY <1>1, <2>1 DEF FileInv, OwnFiles
  <2>3. CASE q = o /\ m = n
    BY <1>2, <1>4, <1>6, <2>1, <2>2, <2>3
  <2>4. CASE q = o /\ m # n
    BY <1>4, <1>6, <2>1, <2>2, <2>4
  <2>5. CASE q # o
    <3>1. ~(ProjectOf[q] = ProjectOf[o] /\ m = n)
      BY <1>6, <2>5
    <3> QED BY <1>4, <1>6, <2>1, <2>2, <2>5, <3>1
  <2> QED BY <2>3, <2>4, <2>5
<1>9. Phases' /\ OwnInputs'
  BY <1>1, <1>3, <1>4, <1>6 DEF FileInv, Phases, OwnInputs, runVars
<1> QED BY <1>3, <1>7, <1>8, <1>9, MovesKeepCli DEF IInv, FileInv, Moves

LEMMA WriteFailsPreserves ==
    ASSUME IInv, NEW o \in Ops, WriteFails(o)
    PROVE  IInv'
<1> DEFINE n == writing[o]
<1>1. TypeOK /\ FileInv /\ o \in Callers /\ Ops \subseteq Callers
  BY DEF IInv, Callers
<1>2. PICK content : Put(o, n, content, {})
  BY DEF WriteFails
<1>3. /\ writing' = [writing EXCEPT ![o] = NoName] /\ n # NoName
      /\ pc' = [pc EXCEPT ![o] = "over"]
      /\ todo' = [todo EXCEPT ![o] = {}] /\ command' = [command EXCEPT ![o] = NoCommand]
      /\ read' = [read EXCEPT ![o] = [m \in Names |-> "unread"]]
      /\ UNCHANGED cliVars
  BY DEF WriteFails, Goto, Forget
<1>4. \A q \in Ops : /\ writing'[q] = IF q = o THEN NoName ELSE writing[q]
                     /\ pc'[q] = IF q = o THEN "over" ELSE pc[q]
                     /\ read'[q] = IF q = o THEN [m \in Names |-> "unread"] ELSE read[q]
  BY <1>1, <1>3 DEF TypeOK
<1>5. n \in Names /\ pc[o] \in {"write", "fallback"}
  BY <1>1, <1>3 DEF TypeOK, FileInv, Phases
<1>6. /\ FilesTyped'
      /\ \A q \in Ops, m \in Names :
            stacks'[ProjectOf[q]][m] = IF ProjectOf[q] = ProjectOf[o] /\ m = n THEN content
                                       ELSE stacks[ProjectOf[q]][m]
      /\ own'[o] = {}
      /\ \A q \in Ops \ {o} : own'[q] \subseteq own[q] /\ (n \in own'[q] => ProjectOf[q] # ProjectOf[o])
  BY <1>1, <1>2, <1>5, PutFacts
<1>7. TypeOK'
  BY <1>1, <1>3, <1>4, <1>6 DEF TypeOK, cliVars
<1>8. OwnFiles'
  <2> SUFFICES ASSUME NEW q \in Ops, NEW m \in own'[q]
               PROVE  stacks'[ProjectOf[q]][m] = IF writing'[q] = m THEN "empty" ELSE VersionOf[q]
    BY DEF OwnFiles
  <2>1. q # o /\ m \in Names /\ m \in own[q] /\ ~(ProjectOf[q] = ProjectOf[o] /\ m = n)
    BY <1>6 DEF FilesTyped
  <2>2. stacks[ProjectOf[q]][m] = IF writing[q] = m THEN "empty" ELSE VersionOf[q]
    BY <1>1, <2>1 DEF FileInv, OwnFiles
  <2> QED BY <1>4, <1>6, <2>1, <2>2
<1>9. Phases'
  BY <1>1, <1>4 DEF FileInv, Phases
<1>10. OwnInputs'
  BY <1>1, <1>4, <1>6 DEF FileInv, OwnInputs
<1>11. Moves(o)
  BY <1>3, <1>5 DEF Moves, Past
<1> QED BY <1>3, <1>7, <1>8, <1>9, <1>10, <1>11, MovesKeepCli DEF IInv, FileInv

\* A command reads only when no file of its operation is open.
LEMMA ReadFilePreserves ==
    ASSUME IInv, NEW o \in Ops, ReadFile(o)
    PROVE  IInv'
<1>1. TypeOK /\ FileInv
  BY DEF IInv
<1>2. PICK n \in toRead[o] : read' = [read EXCEPT ![o][n] = stacks[ProjectOf[o]][n]]
  BY DEF ReadFile
<1>3. pc[o] = "run" /\ UNCHANGED <<pc, cliVars, fileVars, command>>
  BY DEF ReadFile, Running, At
<1>4. /\ \A q \in Ops : DOMAIN read'[q] = Names
      /\ \A q \in Ops : q # o => read'[q] = read[q]
      /\ \A m \in Names : read'[o][m] = IF m = n THEN stacks[ProjectOf[o]][n] ELSE read[o][m]
      /\ DOMAIN read' = Ops
  BY <1>1, <1>2 DEF TypeOK
<1>5. TypeOK'
  BY <1>1, <1>3, <1>4 DEF TypeOK, FilesTyped, cliVars, fileVars
<1>6. writing[o] = NoName
  BY <1>1, <1>3 DEF FileInv, Phases
<1>7. OwnFiles' /\ Phases'
  BY <1>1, <1>3, <1>4 DEF FileInv, OwnFiles, Phases, fileVars
<1>8. OwnInputs'
  <2> SUFFICES ASSUME NEW q \in Ops, NEW m \in own[q]
               PROVE  read'[q][m] \in {"unread", VersionOf[q]}
    BY <1>3 DEF OwnInputs, fileVars
  <2>1. m \in Names /\ m # NoName
    BY <1>1, ConstantsAssumption DEF TypeOK, FilesTyped
  <2>2. read[q][m] \in {"unread", VersionOf[q]}
    BY <1>1 DEF FileInv, OwnInputs
  <2>3. q = o => stacks[ProjectOf[q]][m] = VersionOf[q]
    BY <1>1, <1>6, <2>1 DEF FileInv, OwnFiles
  <2> QED BY <1>4, <2>1, <2>2, <2>3
<1> QED BY <1>3, <1>5, <1>7, <1>8, MovesKeepCli DEF IInv, FileInv, Moves

\* The steps by which a caller learns what compose command there is.
Learns(c) == Receive(c) \/ Detect(c) \/ TryV2(c) \/ TryV1(c) \/ Assign(c)

Before == {"unsent", "detect", "try v2", "try v1", "record"}

LEMMA RecordFacts ==
    \A v : /\ DOMAIN Record(v) = Fields
           /\ Record(v).composeChecked = TRUE
           /\ Record("v1").composeCmd = "docker-compose" /\ Record("v1").composeArgs = "none"
           /\ Record("v2").composeCmd = "docker" /\ Record("v2").composeArgs = "compose"
BY DEF Record, Fields

LEMMA LearnsKeepsFiles ==
    ASSUME IInv, NEW c \in Callers, Learns(c)
    PROVE  FileInv' /\ UNCHANGED <<fileVars, runVars>>
<1>1. UNCHANGED <<fileVars, runVars>>
  BY DEF Learns, Receive, Detect, TryV2, TryV1, Assign
<1>2. \E l \in Before \cup {"over", "login"} : pc' = [pc EXCEPT ![c] = l]
  BY DEF Learns, Receive, Detect, TryV2, TryV1, Assign, Found, Known, Goto, Before
<1>3. pc[c] \in Before
  BY DEF Learns, Receive, Detect, TryV2, TryV1, Assign, At, Before
<1>4. TypeOK /\ FileInv /\ Ops \subseteq Callers
  BY DEF IInv, Callers
<1>5. \A q \in Ops : pc'[q] = pc[q] \/ (q = c /\ pc'[q] # "run" /\ pc[q] \in Before)
  BY <1>2, <1>3, <1>4 DEF TypeOK, Before
<1>6. Phases'
  <2> SUFFICES ASSUME NEW q \in Ops
               PROVE  /\ writing[q] # NoName => pc'[q] \in {"write", "fallback"}
                      /\ pc'[q] # "run" => \A n \in Names : read[q][n] = "unread"
    BY <1>1 DEF Phases, fileVars, runVars
  <2>1. /\ writing[q] # NoName => pc[q] \in {"write", "fallback"}
        /\ pc[q] # "run" => \A n \in Names : read[q][n] = "unread"
    BY <1>4 DEF FileInv, Phases
  <2> QED BY <1>5, <2>1 DEF Before
<1>7. OwnFiles' /\ OwnInputs'
  BY <1>1, <1>4 DEF FileInv, OwnFiles, OwnInputs, fileVars, runVars
<1> QED BY <1>1, <1>6, <1>7 DEF FileInv

\* Requests that come, and detections that find a command known or not there.
LEMMA SearchPreserves ==
    ASSUME IInv, NEW c \in Callers, Learns(c), UNCHANGED cliVars
    PROVE  IInv'
<1>1. TypeOK /\ CliInv /\ Ops \subseteq Callers /\ UNCHANGED <<cli, pend, found>>
  BY DEF IInv, Callers, cliVars
<1>2. pc[c] # "record"
  <2> SUFFICES ASSUME pc[c] = "record" PROVE FALSE
    OBVIOUS
  <2>1. Assign(c)
    BY DEF Learns, Receive, Detect, TryV2, TryV1, At
  <2>2. PICK a \in pend[c] : pend' = [pend EXCEPT ![c] = @ \ {a}]
    BY <2>1 DEF Assign
  <2> QED BY <1>1, <2>2 DEF TypeOK
<1>3. \E l \in {"detect", "login", "try v2", "try v1", "over", "record"} :
        /\ pc' = [pc EXCEPT ![c] = l]
        /\ l = "login" => cli.composeChecked
        /\ l = "record" => \E v \in Installed : found' = found \cup {v}
             /\ pend' = [pend EXCEPT ![c] = {<<f, Record(v)[f]>> : f \in DOMAIN Record(v)}]
  BY <1>2 DEF Learns, Receive, Detect, TryV2, TryV1, Assign, Found, Known, Goto, At
<1>4. pc'[c] # "record"
  <2> SUFFICES ASSUME pc'[c] = "record" PROVE FALSE
    OBVIOUS
  <2>1. PICK v \in Installed : pend' = [pend EXCEPT ![c] = {<<f, Record(v)[f]>> : f \in DOMAIN Record(v)}]
    BY <1>1, <1>3 DEF TypeOK
  <2>2. <<"composeChecked", Record(v)["composeChecked"]>> \in pend[c]
    BY <1>1, <2>1, RecordFacts DEF TypeOK, Fields
  <2> QED BY <1>1, <1>2, <2>2 DEF CliInv, Detections
<1>5. \A d \in Callers : /\ pc'[d] = "record" <=> pc[d] = "record"
                         /\ pc'[d] \in Past => (pc[d] \in Past \/ cli.composeChecked)
  BY <1>1, <1>2, <1>3, <1>4 DEF TypeOK, Past
<1>6. Detections'
  <2>1. \A q \in Ops : pc'[q] \in Past => cli.composeChecked
    BY <1>1, <1>5 DEF CliInv, Detections, Past
  <2> QED BY <1>1, <1>5, <2>1 DEF CliInv, Detections, Past
<1>7. Agreed'
  BY <1>1, <1>5 DEF CliInv, Agreed
<1>8. TypeOK'
  BY <1>1, <1>3, LearnsKeepsFiles DEF TypeOK, FilesTyped, fileVars, runVars
<1> QED BY <1>6, <1>7, <1>8, LearnsKeepsFiles DEF IInv, CliInv

\* A detection finds v: three assignments are before it.
LEMMA FoundPreserves ==
    ASSUME IInv, NEW c \in Callers, NEW v, Learns(c), pc[c] \in {"try v1", "try v2"}, Found(c, v)
    PROVE  IInv'
<1>1. TypeOK /\ CliInv /\ Ops \subseteq Callers
  BY DEF IInv, Callers
<1>2. /\ v \in {"v1", "v2"} /\ found' = found \cup {v} /\ UNCHANGED cli
      /\ pc' = [pc EXCEPT ![c] = "record"]
      /\ pend' = [pend EXCEPT ![c] = {<<f, Record(v)[f]>> : f \in Fields}]
  BY RecordFacts, ConstantsAssumption DEF Found, Goto
<1>3. pend[c] = {}
  BY <1>1 DEF CliInv, Detections
<1>4. /\ pc'[c] = "record" /\ pend'[c] = {<<f, Record(v)[f]>> : f \in Fields}
      /\ \A d \in Callers : d # c => (pc'[d] = pc[d] /\ pend'[d] = pend[d])
      /\ \A d \in Callers : pend[d] \subseteq pend'[d]
  BY <1>1, <1>2, <1>3 DEF TypeOK
<1>5. Detections'
  <2>1. \A q \in Ops : pc'[q] \in Past => pc[q] \in Past
    BY <1>1, <1>4 DEF Past
  <2>2. ASSUME NEW d \in Callers
        PROVE  /\ \A a \in pend'[d] : \E w \in found' : \E f \in Fields : a = <<f, Record(w)[f]>>
               /\ pend'[d] # {} => pc'[d] = "record"
    <3>1. v \in found' /\ found \subseteq found'
      BY <1>2
    <3>2. CASE d = c
      BY <1>4, <3>1, <3>2
    <3>3. CASE d # c
      <4>1. /\ \A a \in pend[d] : \E w \in found : \E f \in Fields : a = <<f, Record(w)[f]>>
            /\ pend[d] # {} => pc[d] = "record"
        BY <1>1 DEF CliInv, Detections
      <4>2. pc'[d] = pc[d] /\ pend'[d] = pend[d]
        BY <1>4, <3>3
      <4> QED BY <3>1, <4>1, <4>2
    <3> QED BY <3>2, <3>3
  <2>3. <<"composeChecked", TRUE>> \in pend'[c]
    BY <1>4, RecordFacts DEF Fields
  <2>4. \A d \in Callers : pc'[d] = "record" => (cli.composeChecked \/ <<"composeChecked", TRUE>> \in pend'[d])
    BY <1>1, <1>4, <2>3 DEF CliInv, Detections
  <2> QED BY <1>1, <1>2, <2>1, <2>2, <2>4 DEF CliInv, Detections, Past
<1>6. Agreed'
  <2> SUFFICES ASSUME NEW w \in {"v1", "v2"}, found' = {w}, NEW f \in Fields
               PROVE  /\ \A d \in Callers : pc'[d] = "record" =>
                           (cli[f] = Record(w)[f] \/ <<f, Record(w)[f]>> \in pend'[d])
                      /\ cli.composeChecked =>
                           (cli[f] = Record(w)[f] \/ \E d \in Callers : <<f, Record(w)[f]>> \in pend'[d])
    BY <1>2 DEF Agreed
  <2>1. w = v /\ <<f, Record(w)[f]>> \in pend'[c]
    BY <1>2, <1>4
  <2>2. ASSUME NEW d \in Callers, d # c, pc'[d] = "record"
        PROVE  cli[f] = Record(w)[f] \/ <<f, Record(w)[f]>> \in pend'[d]
    <3>1. pc[d] = "record" /\ pend'[d] = pend[d]
      BY <1>4, <2>2
    <3>2. found = {w}
      BY <1>1, <1>2, <2>1, <3>1 DEF CliInv, Detections
    <3> QED BY <1>1, <3>1, <3>2 DEF CliInv, Agreed
  <2> QED BY <2>1, <2>2
<1>7. TypeOK'
  BY <1>1, <1>2, LearnsKeepsFiles DEF TypeOK, FilesTyped, fileVars, runVars
<1> QED BY <1>5, <1>6, <1>7, LearnsKeepsFiles DEF IInv, CliInv

\* One of the assignments is made.
LEMMA AssignPreserves ==
    ASSUME IInv, NEW c \in Callers, Assign(c)
    PROVE  IInv'
<1>1. TypeOK /\ CliInv /\ Ops \subseteq Callers
  BY DEF IInv, Callers
<1>2. PICK a \in pend[c] : /\ cli' = [cli EXCEPT ![a[1]] = a[2]]
                           /\ pend' = [pend EXCEPT ![c] = @ \ {a}]
                           /\ pc' = [pc EXCEPT ![c] = IF pend[c] = {a} THEN Known(c) ELSE "record"]
  BY DEF Assign, Goto
<1>3. pc[c] = "record" /\ UNCHANGED found
  BY DEF Assign, At
<1>4. PICK w \in found, g \in Fields : a = <<g, Record(w)[g]>>
  BY <1>1 DEF CliInv, Detections
<1>5. w \in {"v1", "v2"} /\ Record(w).composeChecked = TRUE
  BY <1>1, RecordFacts DEF TypeOK
<1>6. /\ DOMAIN cli' = Fields
      /\ cli'[g] = Record(w)[g] /\ \A f \in Fields : f # g => cli'[f] = cli[f]
  BY <1>1, <1>2, <1>4 DEF TypeOK
<1>7. /\ pend'[c] = pend[c] \ {a} /\ \A d \in Callers : d # c => pend'[d] = pend[d]
      /\ DOMAIN pend' = Callers /\ DOMAIN pc' = Callers
  BY <1>1, <1>2 DEF TypeOK
<1>8. /\ \A d \in Callers : d # c => pc'[d] = pc[d]
      /\ pc'[c] = IF pend'[c] = {} THEN Known(c) ELSE "record"
  <2>1. pend[c] = {a} <=> pend'[c] = {}
    BY <1>7
  <2> QED BY <1>1, <1>2, <2>1 DEF TypeOK
<1>9. cli'.composeChecked \in BOOLEAN /\ (cli.composeChecked => cli'.composeChecked)
      /\ (g = "composeChecked" => cli'.composeChecked)
  BY <1>1, <1>5, <1>6 DEF TypeOK, Fields
<1>10. cli'.composeChecked \/ <<"composeChecked", TRUE>> \in pend'[c]
  <2>1. cli.composeChecked \/ <<"composeChecked", TRUE>> \in pend[c]
    BY <1>1, <1>3 DEF CliInv, Detections
  <2>2. a = <<"composeChecked", TRUE>> => g = "composeChecked"
    BY <1>4
  <2> QED BY <1>7, <1>9, <2>1, <2>2
<1>11. Detections'
  <2>1. \A d \in Callers : pend'[d] \subseteq pend[d]
    BY <1>7
  <2>2. \A d \in Callers : \A b \in pend'[d] : \E u \in found : \E f \in Fields : b = <<f, Record(u)[f]>>
    BY <1>1, <2>1 DEF CliInv, Detections
  <2>3. \A d \in Callers : pend'[d] # {} => pc'[d] = "record"
    BY <1>1, <1>7, <1>8 DEF CliInv, Detections
  <2>4. \A d \in Callers : pc'[d] = "record" => (cli'.composeChecked \/ <<"composeChecked", TRUE>> \in pend'[d])
    BY <1>1, <1>7, <1>8, <1>9, <1>10 DEF CliInv, Detections
  <2>5. \A q \in Ops : pc'[q] \in Past => cli'.composeChecked
    BY <1>1, <1>8, <1>9, <1>10 DEF CliInv, Detections, Past
  <2> QED BY <1>3, <2>2, <2>3, <2>4, <2>5 DEF Detections, Past
<1>12. Agreed'
  <2> SUFFICES ASSUME NEW v \in {"v1", "v2"}, found = {v}, NEW f \in Fields
               PROVE  /\ \A d \in Callers : pc'[d] = "record" =>
                           (cli'[f] = Record(v)[f] \/ <<f, Record(v)[f]>> \in pend'[d])
                      /\ cli'.composeChecked =>
                           (cli'[f] = Record(v)[f] \/ \E d \in Callers : <<f, Record(v)[f]>> \in pend'[d])
    BY <1>3 DEF Agreed
  <2>1. w = v
    OBVIOUS
  <2>2. CASE f = g
    BY <1>6, <2>1, <2>2
  <2>3. CASE f # g
    <3>1. cli'[f] = cli[f] /\ a # <<f, Record(v)[f]>>
      BY <1>4, <1>6, <2>3
    <3>2. \A d \in Callers : <<f, Record(v)[f]>> \in pend[d] => <<f, Record(v)[f]>> \in pend'[d]
      BY <1>7, <3>1
    <3>3. \A d \in Callers : pc[d] = "record" => (cli[f] = Record(v)[f] \/ <<f, Record(v)[f]>> \in pend[d])
      BY <1>1 DEF CliInv, Agreed
    <3>4. \A d \in Callers : pc'[d] = "record" => pc[d] = "record"
      BY <1>3, <1>8
    <3> QED BY <1>3, <3>1, <3>2, <3>3, <3>4
  <2> QED BY <2>2, <2>3
<1>13. TypeOK'
  BY <1>1, <1>3, <1>6, <1>7, <1>9, LearnsKeepsFiles DEF TypeOK, FilesTyped, fileVars, runVars, Learns
<1> QED BY <1>11, <1>12, <1>13, LearnsKeepsFiles DEF IInv, CliInv, Learns

LEMMA StepIInv == IInv /\ [Next]_vars => IInv'
<1> SUFFICES ASSUME IInv, [Next]_vars PROVE IInv'
  OBVIOUS
<1>1. CASE UNCHANGED vars
  BY <1>1 DEF vars, cliVars, fileVars, runVars, IInv, TypeOK, FilesTyped, FileInv, OwnFiles, Phases,
              OwnInputs, CliInv, Detections, Agreed
<1>2. ASSUME NEW c \in Callers, Receive(c) \/ Detect(c)
      PROVE  IInv'
  BY <1>2, SearchPreserves DEF Learns, Receive, Detect
<1>3. ASSUME NEW c \in Callers, TryV2(c) \/ TryV1(c)
      PROVE  IInv'
  <2>1. CASE UNCHANGED cliVars
    BY <1>3, <2>1, SearchPreserves DEF Learns
  <2>2. CASE ~UNCHANGED cliVars
    <3>1. Found(c, "v1") \/ Found(c, "v2")
      BY <1>3, <2>2 DEF TryV2, TryV1
    <3>2. pc[c] \in {"try v1", "try v2"}
      BY <1>3 DEF TryV2, TryV1, At
    <3> QED BY <1>3, <3>1, <3>2, FoundPreserves DEF Learns
  <2> QED BY <2>1, <2>2
<1> QED
  BY <1>1, <1>2, <1>3, AssignPreserves, QuietPreserves, WriteBeginPreserves, WriteEndPreserves,
     WriteFailsPreserves, ReadFilePreserves DEF Next, Step

LEMMA Invariance == Spec => []IInv
BY InitIInv, StepIInv, PTL DEF Spec

(***************************************************************************)
(* The theorems.                                                           *)
(***************************************************************************)

\* What a command reads of a file that its operation has written, and that no
\* other operation has opened since, is that operation's content, whole
\* (compose.go:281-345).
THEOREM OwnInputsHolds == Spec => []OwnInputs
<1>1. IInv => OwnInputs
  BY DEF IInv, FileInv
<1> QED BY <1>1, Invariance, PTL

\* Without a lock on the detected command (compose.go:52-90, 348) an incoherent
\* command line is started only during the assignments of a detection, or after
\* two detections that disagreed.
THEOREM CommandSoundHolds == Spec => CommandSound
<1> DEFINE Sound ==
      \A o \in Ops :
        command'[o] \notin Coherent \cup {command[o], NoCommand}
            => \/ \E c \in Callers : pend[c] # {}
               \/ found = {"v1", "v2"}
<1>1. IInv /\ [Next]_vars => [Sound]_vars
  <2> SUFFICES ASSUME IInv, Next, NEW o \in Ops,
                      command'[o] \notin Coherent \cup {command[o], NoCommand},
                      \A c \in Callers : pend[c] = {}, found # {"v1", "v2"}
               PROVE  FALSE
    OBVIOUS
  <2>1. DOMAIN command = Ops /\ DOMAIN cli = Fields
    BY DEF IInv, TypeOK
  <2>2. ASSUME NEW q \in Ops, ~Start(q),
               \/ ContextEnds(q) \/ Login(q) \/ WriteBegin(q) \/ Refuse(q) \/ WriteEnd(q) \/ WriteFails(q)
               \/ Fallback(q) \/ Choose(q) \/ ReadFile(q) \/ CommandEnds(q) \/ Killed(q)
        PROVE  FALSE
    <3>1. command' = command \/ command' = [command EXCEPT ![q] = NoCommand]
      BY <2>2 DEF ContextEnds, Login, WriteBegin, Refuse, WriteEnd, WriteFails, Fallback, Choose, ReadFile,
                  CommandEnds, Killed, Return, Forget, fileVars, runVars, locals
    <3> QED BY <2>1, <3>1
  <2>3. ASSUME NEW c \in Callers, Learns(c)
        PROVE  FALSE
    BY <2>3, LearnsKeepsFiles DEF runVars
  <2>4. PICK q \in Ops : Start(q)
    BY <2>2, <2>3 DEF Next, Step, Learns
  <2>5. /\ command'[o] \in Seen("composeCmd") \X Seen("composeArgs")
        /\ q = o /\ pc[o] = "start"
    BY <2>1, <2>4 DEF Start, Return, Forget, At
  <2>6. cli.composeChecked /\ found # {} /\ found \subseteq {"v1", "v2"}
    BY <2>5 DEF IInv, TypeOK, CliInv, Detections
  <2>7. PICK v \in {"v1", "v2"} : found = {v}
    BY <2>6
  <2>8. \A f \in Fields : cli[f] = Record(v)[f]
    BY <2>6, <2>7 DEF IInv, CliInv, Agreed
  <2>9. \A f \in Fields : Seen(f) = {cli[f]}
    BY DEF Seen
  <2>10. command'[o] = <<Record(v).composeCmd, Record(v).composeArgs>>
    BY <2>5, <2>8, <2>9 DEF Fields
  <2> QED BY <2>7, <2>10, RecordFacts DEF Coherent
<1> QED BY <1>1, Invariance, PTL DEF Spec, CommandSound
=============================================================================
