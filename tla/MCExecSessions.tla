-------------------------- MODULE MCExecSessions --------------------------
(* Small instances of ExecSessions for TLC.                                *)
EXTENDS ExecSessions, TLC

CONSTANTS s1, s2, s3, x1, x2, x3

MCStarts2 == {s1, s2}
MCStarts3 == {s1, s2, s3}
MCIds2 == {x1, x2}
MCIds3 == {x1, x2, x3}

\* Every start has an execId of its own.
MCUnique2 == (s1 :> x1) @@ (s2 :> x2)
MCUnique3 == (s1 :> x1) @@ (s2 :> x2) @@ (s3 :> x3)

\* The server reuses the execId of one start for another.
MCReused3 == (s1 :> x1) @@ (s2 :> x1) @@ (s3 :> x2)
\* With execIds of their own, starts are interchangeable with their ids.
MCSymmetry == {[v \in MCStarts3 \cup MCIds3 |->
                  IF v \in MCStarts3 THEN p[v]
                  ELSE MCUnique3[p[CHOOSE s \in MCStarts3 : MCUnique3[s] = v]]] :
               p \in Permutations(MCStarts3)}
===========================================================================
