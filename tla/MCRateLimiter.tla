--------------------------- MODULE MCRateLimiter ---------------------------
(* Two configured keys and a wrong one, two requests per window of three ticks.  *)
EXTENDS RateLimiter

CONSTANTS k1, k2, wrong, h1

MCPresented == {k1, k2, wrong}
MCApiKeys == {k1, k2}
MCHosts == {h1}
=============================================================================
