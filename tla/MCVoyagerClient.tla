-------------------------- MODULE MCVoyagerClient --------------------------
(* Two concurrent callers.                                                 *)
EXTENDS VoyagerClient

CONSTANTS t1, t2

MCTasks == {t1, t2}
MCRetryAfters == {1}
=============================================================================
