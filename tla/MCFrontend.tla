---------------------------- MODULE MCFrontend ----------------------------
(* The two passes over the programs of MCPrograms *)
EXTENDS Frontend, MCPrograms
=============================================================================
