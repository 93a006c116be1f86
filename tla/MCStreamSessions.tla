------------------------- MODULE MCStreamSessions -------------------------
(***************************************************************************)
(* A small instance of StreamSessions for TLC: two requests with one       *)
(* requestId, and one with its own.                                        *)
(***************************************************************************)
EXTENDS StreamSessions, TLC

CONSTANTS r1, r2, r3, x1, x2

MCRequests == {r1, r2, r3}
MCIds == {x1, x2}
MCIdOf == (r1 :> x1) @@ (r2 :> x1) @@ (r3 :> x2)
===========================================================================
