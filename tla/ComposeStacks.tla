--------------------------- MODULE ComposeStacks ---------------------------
(***************************************************************************)
(* Compose operations: ComposeClient of src/internal/docker/compose.go and *)
(* its callers, handleCompose in Standard mode and handleComposeRequest in *)
(* Edge mode.  Each request runs Execute on a goroutine of its own.        *)
(* Executes share, with no lock, the fields in which the first one records *)
(* which compose command is installed, and the directory of their project, *)
(* which each fills with its files before it runs compose there.           *)
(*                                                                         *)
(* A file's content is the version of the stack that one operation brings, *)
(* or "empty" (opened with O_TRUNC, nothing written yet), or "torn" (part  *)
(* of a version, or parts of two).  The fields are written without         *)
(* synchronisation: another goroutine may see the three assignments in any *)
(* order, and a field of several words half assigned ("torn").  docker     *)
(* login changes the CLI's own files, which no property here is about.     *)
(***************************************************************************)
EXTENDS Naturals, Sequences, FiniteSets, Functions

CONSTANTS
    Ops,          \* compose operations, one for each request
    Probes,       \* calls of IsAvailable, as sendHello makes
    Installed,    \* the compose commands on the host: of "v2", "v1"
    Projects,
    ProjectOf,    \* ProjectName of each operation
    Names,        \* names of files in a stack directory
    Standard,     \* the standard compose file names, in the order of the code
    EnvFiles,     \* .env and .env.dockhand
    FilesOf,      \* the names in Files of each operation; none: stdin is used
    ExplicitOf,   \* ComposeFileName of each operation, or NoName
    Inline,       \* the operations that have a ComposeFile
    VersionOf,    \* the version of the stack each operation brings
    NoName,
    MaxParallel   \* bound: operations and probes in progress at once

ASSUME ConstantsAssumption ==
    /\ Ops \cap Probes = {}
    /\ Installed \subseteq {"v1", "v2"}
    /\ ProjectOf \in [Ops -> Projects]
    /\ Standard \in Seq(Names) /\ Standard # <<>> /\ EnvFiles \subseteq Names
    /\ FilesOf \in [Ops -> SUBSET Names]
    /\ ExplicitOf \in [Ops -> Names \cup {NoName}] /\ NoName \notin Names
    /\ Inline \subseteq Ops
    /\ \A o \in Ops : VersionOf[o] \notin {"absent", "empty", "torn", "unread"}

VARIABLES
    pc,          \* where each operation and probe is
    cli,         \* composeCmd, composeArgs, composeChecked
    pend,        \* the assignments each detection has still to make
    found,       \* history: the commands that detections have found
    stacks,      \* the files of each project's directory
    todo,        \* the files each operation has still to write
    writing,     \* the file it has open, or NoName
    toRead,      \* the files its command has still to read
    read,        \* what the command read of each file
    command,     \* the command started for it, or NoCommand
    context,     \* the request's context: "live" or "done"
    orphans,     \* a command that is killed may leave a child that holds its pipes
    own          \* history: files it has opened and no other has changed since

cliVars == <<cli, pend, found>>
fileVars == <<stacks, todo, writing, own>>
runVars == <<toRead, read, command>>
locals == <<todo, own, runVars>>
vars == <<pc, cliVars, fileVars, runVars, context, orphans>>

Callers == Ops \cup Probes
NoCommand == <<>>
Versions == {VersionOf[o] : o \in Ops}
Contents == Versions \cup {"absent", "empty", "torn"}

Init ==
    /\ pc = [c \in Callers |-> "unsent"]
    /\ cli = [composeCmd |-> "", composeArgs |-> "none", composeChecked |-> FALSE]
    /\ pend = [c \in Callers |-> {}]
    /\ found = {}
    /\ stacks = [p \in Projects |-> [n \in Names |-> "absent"]]
    /\ todo = FilesOf
    /\ writing = [o \in Ops |-> NoName]
    /\ toRead = [o \in Ops |-> {}]
    /\ read = [o \in Ops |-> [n \in Names |-> "unread"]]
    /\ command = [o \in Ops |-> NoCommand]
    /\ context = [o \in Ops |-> "live"]
    /\ orphans \in BOOLEAN
    /\ own = [o \in Ops |-> {}]

At(c, label) == pc[c] = label
Goto(c, label) == pc' = [pc EXCEPT ![c] = label]
InProgress == {c \in Callers : pc[c] \notin {"unsent", "over"}}

\* Execute returns, with a result or an error; the request is answered.
Forget(o) ==
    /\ toRead' = [toRead EXCEPT ![o] = {}]
    /\ read' = [read EXCEPT ![o] = [n \in Names |-> "unread"]]
    /\ command' = [command EXCEPT ![o] = NoCommand]
    /\ todo' = [todo EXCEPT ![o] = {}]

Return(o) ==
    /\ Goto(o, "over")
    /\ Forget(o)
    /\ own' = [own EXCEPT ![o] = {}]

-----------------------------------------------------------------------------
(* Requests                                                                *)

Receive(c) ==
    /\ At(c, "unsent")
    /\ Cardinality(InProgress) < MaxParallel
    /\ Goto(c, "detect")
    /\ UNCHANGED <<cliVars, fileVars, runVars, context>>

\* REQUEST_TIMEOUT passes (Edge), or the client goes (Standard).
ContextEnds(o) ==
    /\ o \in InProgress
    /\ context[o] = "live"
    /\ context' = [context EXCEPT ![o] = "done"]
    /\ UNCHANGED <<pc, cliVars, fileVars, runVars>>

-----------------------------------------------------------------------------
(* detectComposeCommand                                                    *)

\* What a detection of v assigns to the fields.
Record(v) ==
    IF v = "v2" THEN [composeCmd |-> "docker", composeArgs |-> "compose", composeChecked |-> TRUE]
                ELSE [composeCmd |-> "docker-compose", composeArgs |-> "none", composeChecked |-> TRUE]

\* Where a caller goes once the command is known.
Known(c) == IF c \in Probes THEN "over" ELSE "login"

\* Slip: composeChecked is set before the commands are tried.
DetectChecked(c) ==
    /\ At(c, "detect")
    /\ Goto(c, IF cli.composeChecked THEN Known(c) ELSE "try v2")
    /\ cli' = [cli EXCEPT !.composeChecked = TRUE]
    /\ UNCHANGED <<pend, found, fileVars, runVars, context>>

Detect(c) ==
    /\ At(c, "detect")
    /\ Goto(c, IF cli.composeChecked THEN Known(c) ELSE "try v2")
    /\ UNCHANGED <<cliVars, fileVars, runVars, context>>

Found(c, v) ==
    /\ v \in Installed
    /\ found' = found \cup {v}
    /\ pend' = [pend EXCEPT ![c] = {<<f, Record(v)[f]>> : f \in DOMAIN Record(v)}]
    /\ Goto(c, "record")
    /\ UNCHANGED cli

\* "docker compose version" runs, or fails; with no context it has no limit.
TryV2(c) ==
    /\ At(c, "try v2")
    /\ \/ Found(c, "v2")
       \/ Goto(c, "try v1") /\ UNCHANGED cliVars
    /\ UNCHANGED <<fileVars, runVars, context>>

\* The same for docker-compose; if it fails too, nothing is recorded.
TryV1(c) ==
    /\ At(c, "try v1")
    /\ \/ Found(c, "v1")
       \/ Goto(c, "over") /\ UNCHANGED cliVars
    /\ UNCHANGED <<fileVars, runVars, context>>

\* The assignments, in any order that the compiler or the processor gives them.
Assign(c) ==
    /\ At(c, "record")
    /\ \E a \in pend[c] :
        /\ cli' = [cli EXCEPT ![a[1]] = a[2]]
        /\ pend' = [pend EXCEPT ![c] = @ \ {a}]
        /\ Goto(c, IF pend[c] = {a} THEN Known(c) ELSE "record")
    /\ UNCHANGED <<found, fileVars, runVars, context>>

\* What a read of a field may return: a string or a slice has several words.
Seen(f) ==
    {cli[f]} \cup
    {"torn" : d \in {d \in Callers : \E a \in pend[d] : a[1] = f /\ a[2] # cli[f]}}

-----------------------------------------------------------------------------
(* Execute: the stack's files                                              *)

\* A compose file is given by its name or has a standard one, or has none.
StandardIn(o) == {i \in DOMAIN Standard : Standard[i] \in FilesOf[o]}

Chosen(o) ==
    CASE ExplicitOf[o] # NoName -> ExplicitOf[o]
      [] ExplicitOf[o] = NoName /\ StandardIn(o) # {} ->
            Standard[CHOOSE i \in StandardIn(o) : \A j \in StandardIn(o) : i <= j]
      [] OTHER -> NoName

UsesInline(o) == Chosen(o) = NoName /\ o \in Inline

\* The file gets this content; what else the operation calls its own is mine.
Put(o, n, content, mine) ==
    /\ stacks' = [stacks EXCEPT ![ProjectOf[o]][n] = content]
    /\ own' = [q \in Ops |->
                  CASE q = o -> mine
                    [] q # o /\ ProjectOf[q] = ProjectOf[o] -> own[q] \ {n}
                    [] OTHER -> own[q]]

\* docker login, which the context kills and whose failure is ignored, and
\* MkdirAll, whose failure is not.
Login(o) ==
    /\ At(o, "login")
    /\ \/ Goto(o, IF FilesOf[o] = {} THEN "start" ELSE "write") /\ UNCHANGED locals
       \/ FilesOf[o] # {} /\ Return(o)
    /\ UNCHANGED <<cliVars, stacks, writing, context>>

\* Slip: the file is opened without O_TRUNC.
WriteBeginOver(o) ==
    /\ pc[o] \in {"write", "fallback"}
    /\ writing[o] = NoName
    /\ \E n \in todo[o] :
        /\ writing' = [writing EXCEPT ![o] = n]
        /\ todo' = [todo EXCEPT ![o] = @ \ {n}]
        /\ LET old == stacks[ProjectOf[o]][n]
           IN Put(o, n, IF old = "absent" THEN "empty" ELSE old, own[o] \cup {n})
    /\ UNCHANGED <<pc, cliVars, runVars, context>>

\* os.WriteFile opens the next file, in the order of the map, and truncates it.
WriteBegin(o) ==
    /\ pc[o] \in {"write", "fallback"}
    /\ writing[o] = NoName
    /\ \E n \in todo[o] :
        /\ writing' = [writing EXCEPT ![o] = n]
        /\ todo' = [todo EXCEPT ![o] = @ \ {n}]
        /\ Put(o, n, "empty", own[o] \cup {n})
    /\ UNCHANGED <<pc, cliVars, runVars, context>>

\* A path that leaves the directory, a content that does not decode, a file
\* that does not open: the files written before it stay.
Refuse(o) ==
    /\ pc[o] \in {"write", "fallback"}
    /\ writing[o] = NoName /\ todo[o] # {}
    /\ Return(o)
    /\ UNCHANGED <<cliVars, stacks, writing, context>>

\* The bytes arrive over an empty file, or over what another has put there.
WriteEnd(o) ==
    /\ writing[o] # NoName
    /\ LET n == writing[o]
           old == stacks[ProjectOf[o]][n]
           clean == old \in {"empty", VersionOf[o]}
       IN \E content \in {VersionOf[o]} \cup (IF clean THEN {} ELSE {"torn"}) :
            Put(o, n, content, own[o])
    /\ writing' = [writing EXCEPT ![o] = NoName]
    /\ UNCHANGED <<pc, todo, cliVars, runVars, context>>

\* The disk is full: part of the file, or none of it, stays.
WriteFails(o) ==
    /\ writing[o] # NoName
    /\ \E content \in {"torn", stacks[ProjectOf[o]][writing[o]]} :
        Put(o, writing[o], content, {})
    /\ writing' = [writing EXCEPT ![o] = NoName]
    /\ Goto(o, "over")
    /\ Forget(o)
    /\ UNCHANGED <<cliVars, context>>

\* No file was given or chosen: Execute writes the inline content to one.
Fallback(o) ==
    /\ At(o, "write") /\ UsesInline(o)
    /\ writing[o] = NoName /\ todo[o] = {}
    /\ Goto(o, "fallback")
    /\ todo' = [todo EXCEPT ![o] = {Standard[1]}]
    /\ UNCHANGED <<cliVars, stacks, writing, own, runVars, context>>

\* -f with the compose file, and --env-file for each env file that the
\* directory has, whoever wrote it.
Choose(o) ==
    /\ At(o, IF UsesInline(o) THEN "fallback" ELSE "write")
    /\ writing[o] = NoName /\ todo[o] = {}
    /\ toRead' = [toRead EXCEPT ![o] =
            (IF UsesInline(o) THEN {Standard[1]} ELSE {Chosen(o)} \ {NoName})
            \cup {n \in EnvFiles : stacks[ProjectOf[o]][n] # "absent"}]
    /\ Goto(o, "start")
    /\ UNCHANGED <<cliVars, fileVars, read, command, context>>

-----------------------------------------------------------------------------
(* Execute: the command                                                    *)

Coherent == {<<"docker", "compose">>, <<"docker-compose", "none">>}

\* Without -f compose looks for a file with a standard name in its directory.
LookUp(o) ==
    IF FilesOf[o] # {} /\ Chosen(o) = NoName /\ o \notin Inline
    THEN {n \in Range(Standard) : stacks[ProjectOf[o]][n] # "absent"}
    ELSE {}

\* An unknown operation, service name or variable name is an error only now,
\* and cmd.Run starts nothing for a context that is done.
Start(o) ==
    /\ At(o, "start")
    /\ \/ Return(o)
       \/ /\ context[o] = "live"
          /\ \E line \in Seen("composeCmd") \X Seen("composeArgs") :
                command' = [command EXCEPT ![o] = line]
          /\ toRead' = [toRead EXCEPT ![o] = @ \cup LookUp(o)]
          /\ Goto(o, "run")
          /\ UNCHANGED <<todo, own, read>>
    /\ UNCHANGED <<cliVars, stacks, writing, context>>

Running(o) == At(o, "run") /\ command[o] \in Coherent

\* compose reads its files.
ReadFile(o) ==
    /\ Running(o)
    /\ \E n \in toRead[o] :
        /\ stacks[ProjectOf[o]][n] # "absent"
        /\ read' = [read EXCEPT ![o][n] = stacks[ProjectOf[o]][n]]
        /\ toRead' = [toRead EXCEPT ![o] = @ \ {n}]
    /\ UNCHANGED <<pc, cliVars, fileVars, command, context>>

\* The command ends, of itself or for want of a file, or does not exist.
CommandEnds(o) ==
    /\ At(o, "run")
    /\ Return(o)
    /\ UNCHANGED <<cliVars, stacks, writing, context>>

\* Slip: exec.Command, which no context ends.
KilledNot(o) ==
    /\ At(o, "run")
    /\ FALSE
    /\ UNCHANGED vars

\* exec.CommandContext kills the command, and Wait returns once its pipes are
\* closed: no WaitDelay limits the wait for a child that still holds them.
Killed(o) ==
    /\ At(o, "run")
    /\ context[o] = "done"
    /\ Return(o)
    /\ UNCHANGED <<cliVars, stacks, writing, context>>

-----------------------------------------------------------------------------
Step ==
    \/ \E c \in Callers : Receive(c) \/ Detect(c) \/ TryV2(c) \/ TryV1(c) \/ Assign(c)
    \/ \E o \in Ops :
        \/ ContextEnds(o) \/ Login(o)
        \/ WriteBegin(o) \/ Refuse(o) \/ WriteEnd(o) \/ WriteFails(o)
        \/ Fallback(o) \/ Choose(o) \/ Start(o)
        \/ ReadFile(o) \/ CommandEnds(o) \/ Killed(o)

Next == Step /\ UNCHANGED orphans

\* What the scheduler does for a caller.
Goes(c) ==
    \/ Detect(c) \/ Assign(c)
    \/ c \in Ops /\ \/ WriteBegin(c) \/ Refuse(c) \/ WriteEnd(c) \/ WriteFails(c)
                    \/ Fallback(c) \/ Choose(c) \/ Start(c)

\* A command that its context has killed ends, if it leaves no child behind.
Reaped(o) == ~orphans /\ context[o] = "done" /\ (Login(o) \/ Killed(o))

\* Nothing else makes a command end: not the "version" ones, which have no
\* context, and no other before its context is done.
Fairness == \A c \in Callers : WF_vars((Goes(c) \/ (c \in Ops /\ Reaped(c))) /\ UNCHANGED orphans)

Spec == Init /\ [][Next]_vars /\ Fairness

-----------------------------------------------------------------------------
(* Properties                                                              *)

\* A command line that is neither form of compose is started only while a
\* caller is between its assignments, or when the detections have disagreed:
\* Execute reads the fields with no lock, and relies on composeChecked being
\* set after them.
CommandSound ==
    [][\A o \in Ops :
        command'[o] \notin Coherent \cup {command[o], NoCommand}
            => \/ \E c \in Callers : pend[c] # {}
               \/ found = {"v1", "v2"}]_vars

\* What compose reads of a file that its operation has written is this
\* operation's content and whole, unless another operation on the project has
\* opened or written the file since: Execute truncates each file, and starts
\* compose only when every file is closed.
OwnInputs ==
    \A o \in Ops : \A n \in own[o] :
        read[o][n] \in {"unread", VersionOf[o]}

\* A request whose context is done is answered, wherever it was, but for the two
\* waits that no context ends: for a "version" command, and for the pipes of a
\* killed command that a child of it still holds.
Answered ==
    \A o \in Ops : context[o] = "done" ~>
        \/ At(o, "over")
        \/ pc[o] \in {"try v2", "try v1"}
        \/ orphans /\ pc[o] \in {"login", "run"}
=============================================================================
