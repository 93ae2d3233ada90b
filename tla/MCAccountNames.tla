--------------------------- MODULE MCAccountNames ---------------------------
(* Instance of AccountNames: the rows of two accounts that want one alias, *)
(* and an administrator who adds a character that no row names.            *)
EXTENDS AccountNames, TLC

CONSTANTS x, y, z
Symmetry == Permutations(Reqs)

MCEdits == {<<"character", z>>}
MCRows == {
    [user |-> x, restricted |-> FALSE, alias |-> {x, z}, tag |-> {}, character |-> {}],
    [user |-> y, restricted |-> TRUE, alias |-> {z}, tag |-> {z}, character |-> {}] }
=============================================================================
