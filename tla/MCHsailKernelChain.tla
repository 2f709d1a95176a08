------------------------- MODULE MCHsailKernelChain -------------------------
(***************************************************************************)
(* Instances of HsailKernelChain for TLC.                                  *)
(***************************************************************************)
EXTENDS HsailKernelChain, TLC

\* Addresses differ in nothing but their names.
NodeSymmetry == Permutations(Nodes)

=============================================================================
