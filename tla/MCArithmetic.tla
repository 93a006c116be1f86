--------------------------- MODULE MCArithmetic ---------------------------
(***************************************************************************)
(* ReconnectBackoff, HostMetrics and PlainRequests for TLC.  They share    *)
(* nothing, so it is enough to walk each with the others where they start. *)
(***************************************************************************)
EXTENDS ReconnectBackoff, HostMetrics, PlainRequests

MCBodies == UNION {[1 .. n -> Bytes] : n \in 0 .. 4}

ArithmeticInit == Init /\ MetricsInit /\ PlainInit

BackoffRests == initial = max /\ step = "dial" /\ delay = 0
MetricsRest == ticks + readings = 0

ArithmeticNext ==
    \/ MetricsRest /\ PlainInit /\ Next /\ UNCHANGED <<metricsVars, plainVars>>
    \/ BackoffRests /\ PlainInit /\ MetricsNext /\ UNCHANGED <<vars, plainVars>>
    \/ BackoffRests /\ MetricsRest /\ PlainNext /\ UNCHANGED <<vars, metricsVars>>

Arithmetic == ArithmeticInit /\ [][ArithmeticNext]_<<vars, metricsVars, plainVars>>
===========================================================================
