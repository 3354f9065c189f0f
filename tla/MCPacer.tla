------------------------------ MODULE MCPacer ------------------------------
(* Three callers and a delay of two or three ticks.                        *)
EXTENDS Pacer

CONSTANTS t1, t2, t3

MCTasks == {t1, t2, t3}
=============================================================================
