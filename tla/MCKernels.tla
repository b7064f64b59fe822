------------------------------- MODULE MCKernels -------------------------------
(* The threads are alike, the names of their kernels included.                *)
EXTENDS KernelRegistry

Symmetry == Permutations(Threads)
=============================================================================
