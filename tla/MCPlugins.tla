------------------------------ MODULE MCPlugins ------------------------------
(* Instances of Plugins for TLC.                                            *)
EXTENDS Plugins
=============================================================================
