------------------------------ MODULE MCJosPages ------------------------------
(* CPUs are alike: neither the initial state nor a step tells them apart. *)
EXTENDS JosPages, TLC

MCCpuSymmetry == Permutations(Cpu)
=============================================================================
