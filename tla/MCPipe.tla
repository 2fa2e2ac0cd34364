------------------------------- MODULE MCPipe -------------------------------
(***************************************************************************)
(* Pipe for TLC.  Tasks are interchangeable: they are neither ordered nor  *)
(* chosen by CHOOSE; so runs without liveness may use symmetry.            *)
(***************************************************************************)
EXTENDS Pipe, TLC

Symmetry == Permutations(Task)
=============================================================================
