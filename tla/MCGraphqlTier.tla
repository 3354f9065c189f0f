--------------------------- MODULE MCGraphqlTier ---------------------------
(* Two fetches of two sections each and two permits between them.          *)
EXTENDS GraphqlTier

CONSTANTS f1, f2, experience, skills

MCFetches == {f1, f2}
MCSections == {experience, skills}
=============================================================================
