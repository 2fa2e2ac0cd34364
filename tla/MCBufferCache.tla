---------------------------- MODULE MCBufferCache ----------------------------
(***************************************************************************)
(* BufferCache for TLC.  Tasks and blocks are interchangeable: neither is  *)
(* ordered nor chosen by CHOOSE; so runs without liveness may use symmetry.*)
(***************************************************************************)
EXTENDS BufferCache, TLC

Symmetry == Permutations(Task) \cup Permutations(Block)
=============================================================================
