---------------------------- MODULE HostMetrics ----------------------------
(***************************************************************************)
(* The CPU share of the metrics messages: collectCPU of                    *)
(* src/internal/metrics/collector.go.  One Collector serves every          *)
(* metricsLoop, and the loop of a finished connection may still be in      *)
(* Collect when the next one's begins.  Each call reads /proc/stat without *)
(* the lock, then takes it to compare what it read with prevCPU and to put *)
(* it there.                                                               *)
(*                                                                         *)
(* Counters are kept here as the numbers they stand for, and subtracted    *)
(* modulo Width as unsigned words are.  "busy" is user, nice and system;   *)
(* the kernel lets iowait go back (proc(5)).                               *)
(***************************************************************************)
EXTENDS Integers

CONSTANTS
    Width,         \* 2^64 in the code
    Starts,        \* what the busy counter may be when the agent starts
    Collectors,    \* the calls of Collect that may be in progress at once
    MaxTicks,      \* bound: ticks the kernel counts
    MaxReadings    \* bound: readings of /proc/stat

ASSUME MetricsConstantsAssumption ==
    /\ Width \in Nat /\ Width > MaxTicks
    /\ Starts \subseteq Nat
    /\ MaxTicks \in Nat /\ MaxReadings \in Nat

VARIABLES
    counters,    \* the kernel's
    ticks,       \* counted so far
    readings,    \* made so far
    current,     \* what each call has read and not yet compared, or NoReading
    prevCPU,     \* the Collector's, or NoReading
    overtaken,   \* history: calls that another has compared during
    report       \* the last share: a busy part of a total, and its two readings

metricsVars == <<counters, ticks, readings, current, prevCPU, overtaken, report>>

Kinds == {"busy", "idle", "iowait"}
NoReading == [taken |-> 0]
NoReport == [busy |-> 0, total |-> 0]

MetricsInit ==
    /\ \E s \in Starts : counters = [k \in Kinds |-> IF k = "busy" THEN s ELSE 0]
    /\ ticks = 0 /\ readings = 0
    /\ current = [c \in Collectors |-> NoReading]
    /\ prevCPU = NoReading
    /\ overtaken = {}
    /\ report = NoReport

Tick ==
    /\ ticks < MaxTicks
    /\ ticks' = ticks + 1
    /\ \/ \E k \in Kinds : counters' = [counters EXCEPT ![k] = @ + 1]
       \/ counters["iowait"] > 0 /\ counters' = [counters EXCEPT !["iowait"] = @ - 1]
    /\ UNCHANGED <<readings, current, prevCPU, overtaken, report>>

\* /proc/stat is read, before the lock is taken.
ReadStat(c) ==
    /\ current[c] = NoReading
    /\ readings < MaxReadings
    /\ readings' = readings + 1
    /\ current' = [current EXCEPT ![c] = [taken |-> readings', of |-> counters]]
    /\ UNCHANGED <<counters, ticks, prevCPU, overtaken, report>>

\* Slip: a counter that has become smaller counts as unchanged.
DeltaClamped(new, old) ==
    [k \in Kinds |-> IF new.of[k] % Width < old.of[k] % Width THEN 0
                     ELSE (new.of[k] - old.of[k]) % Width]

Delta(new, old) == [k \in Kinds |-> (new.of[k] - old.of[k]) % Width]

Total(delta) == (delta["busy"] + delta["idle"] + delta["iowait"]) % Width

\* Under c.mu.  The first reading, and one that finds no tick, report 0; only
\* the second of these leaves prevCPU as it is.
Compare(c) ==
    /\ current[c] # NoReading
    /\ current' = [current EXCEPT ![c] = NoReading]
    /\ overtaken' = (overtaken \ {c}) \cup {d \in Collectors \ {c} : current[d] # NoReading}
    /\ IF prevCPU = NoReading
       THEN prevCPU' = current[c] /\ report' = NoReport
       ELSE LET delta == Delta(current[c], prevCPU)
            IN IF Total(delta) = 0
               THEN report' = NoReport /\ UNCHANGED prevCPU
               ELSE /\ prevCPU' = current[c]
                    /\ report' = [busy |-> delta["busy"], total |-> Total(delta),
                                  from |-> prevCPU, to |-> current[c],
                                  overlapped |-> c \in overtaken]
    /\ UNCHANGED <<counters, ticks, readings>>

MetricsNext == Tick \/ \E c \in Collectors : ReadStat(c) \/ Compare(c)

MetricsSpec == MetricsInit /\ [][MetricsNext]_metricsVars

\* A share that is reported is the true share of the ticks between two
\* readings, wherever the counters wrap, unless iowait went back between them,
\* or another Collect compared its reading between the read and the lock of
\* this one: then a later reading may be subtracted from an earlier.
UsageIsTrue ==
    report # NoReport /\ ~report.overlapped
        /\ report.from.of["iowait"] <= report.to.of["iowait"] =>
            /\ report.from.taken < report.to.taken
            /\ report.busy = report.to.of["busy"] - report.from.of["busy"]
            /\ report.total = LET d(k) == report.to.of[k] - report.from.of[k]
                              IN d("busy") + d("idle") + d("iowait")
=============================================================================
