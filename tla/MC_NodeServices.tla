-------------------------- MODULE MC_NodeServices --------------------------
(***************************************************************************)
(* Constants for model checking NodeServices: an identity that can be      *)
(* generated and two that can be configured, two networks; two numbers of  *)
(* the driver; three process numbers.                                       *)
(***************************************************************************)
EXTENDS NodeServices

CONSTANTS g1, c1, c2, n1, n2, m1, m2, p1, p2, p3

=============================================================================
