--------------------------- MODULE MCSessionPool ---------------------------
(* Three sessions, so that the order of last uses is more than a swap; each *)
(* with a budget of one request per tick.                                   *)
EXTENDS SessionPool

MCRetryAfters == {1}
=============================================================================
