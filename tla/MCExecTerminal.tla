-------------------------- MODULE MCExecTerminal --------------------------
(* Small instances of ExecTerminal for TLC.                                *)
EXTENDS ExecTerminal, MCExecSessions

CONSTANTS input, resize

MCInputs == {input}
MCResizes == {resize}
MCTargetOf == (input :> x1) @@ (resize :> x1)

\* Two starts, or one start and the messages for its terminal.
TwoOrTyped == pc[s2] = "unsent" \/ \A m \in Messages : handler[m] = "unsent"

\* Nothing makes the server send a start or a message, so the fairness is met.
MCSpec == TerminalInit /\ [][TerminalNext /\ TwoOrTyped']_<<vars, terminalVars>> /\ Fairness
===========================================================================
