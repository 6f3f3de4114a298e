--------------------------- MODULE MCSkillRegistry ---------------------------
(* SkillRegistry with one shipped document and one version of the user's.     *)
EXTENDS SkillRegistry, TLC

CONSTANTS c1, c2

OfficialFiles == {<<1, "shipped">>}
Symmetry == Permutations(Clients)
=============================================================================
