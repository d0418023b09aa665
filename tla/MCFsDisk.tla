------------------------------- MODULE MCFsDisk -------------------------------
(* Names are alike: neither a formatted disk nor a step tells them apart. *)
EXTENDS FsDisk, TLC

MCNameSymmetry == Permutations(Name)
=============================================================================
