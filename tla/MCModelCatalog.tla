---------------------------- MODULE MCModelCatalog ----------------------------
(* Instances of ModelCatalog for TLC.                                      *)
EXTENDS ModelCatalog
CONSTANTS m1, m2

Lists == {{m1}, {m1, m2}}
=============================================================================
