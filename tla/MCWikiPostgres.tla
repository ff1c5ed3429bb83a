----------------------------- MODULE MCWikiPostgres -----------------------------
(* A small instance of WikiPostgres: two requests race over one slug.          *)
EXTENDS WikiPostgres, TLC

CONSTANTS c1, c2, c3, a1, k1, k2

MCCommandIds == {c1, c2, c3}
MCCallers == {k1, k2}
MCPrincipals == {<<a1, PublicScopes>>}
MCSymmetry == Permutations(MCCommandIds) \cup Permutations(MCCallers)
=============================================================================
