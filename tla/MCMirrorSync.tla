---------------------------- MODULE MCMirrorSync ----------------------------
(***************************************************************************)
(* MirrorSync for TLC.  Keys are interchangeable: no operator of the model *)
(* orders or names them.  Symmetry is left out where a temporal property   *)
(* is checked under fairness.                                              *)
(***************************************************************************)
EXTENDS MirrorSync

KeySymmetry == Permutations(Keys)
==============================================================================
