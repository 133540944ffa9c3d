----------------------------- MODULE MCDriver -----------------------------
(* main() over the programs of MCPrograms *)
EXTENDS Driver, MCPrograms
=============================================================================
