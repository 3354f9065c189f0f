----------------------------- MODULE MCQueryIds -----------------------------
(* Two callers, two queries, and one deployment of LinkedIn.               *)
EXTENDS QueryIds

CONSTANTS t1, t2

MCTasks == {t1, t2}
MCQueries == {Vanity, Cards}
=============================================================================
