------------------------------ MODULE MCWikiStore ------------------------------
(* A small instance of WikiStore: two pages can compete for one slug, each     *)
(* author can also hold the moderator's key.                                   *)
EXTENDS WikiStore, TLC

CONSTANTS c1, c2, c3, a1, a2, s1, s2, x1, x2

MCCommandIds == {c1, c2, c3}
MCPrincipals == {<<a1, PublicScopes>>, <<a1, ModeratorScopes>>, <<a2, ModeratorScopes>>}
MCSymmetry == Permutations(MCCommandIds) \cup Permutations({x1, x2}) \cup Permutations({s1, s2})
=============================================================================
