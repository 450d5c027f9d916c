---------------------------- MODULE MC_SysQueue ----------------------------
(* Two lists and four elements: a list can be empty, have one element, or  *)
(* have a first, an inner and a last one, while another list exists.         *)
EXTENDS SysQueue, TLC

CONSTANTS h1, h2, e1, e2, e3, e4

MCHeads == {h1, h2}
MCElements == {e1, e2, e3, e4}

\* The elements are alike; the heads of a step are chosen alike too.
Symmetry == Permutations(MCElements) \union Permutations(MCHeads)

=============================================================================
