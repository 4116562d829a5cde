------------------------------ MODULE MCOrgTree ------------------------------
(* Instances of OrgTree for TLC: the implicit department and up to two     *)
(* more, with one name to spare for a rename, and two requests at a time.  *)
EXTENDS OrgTree, TLC

Symmetry == Permutations(Name \ {Everyone})
=============================================================================
