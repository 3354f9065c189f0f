-------------------------- MODULE MCProfileService --------------------------
(* Two callers, one of which leads when the other waits; a cache of one       *)
(* entry for two profiles.                                                    *)
EXTENDS ProfileService

CONSTANTS c1, c2, p1, p2

MCCallers == {c1, c2}
MCProfiles == {p1, p2}
=============================================================================
