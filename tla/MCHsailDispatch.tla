-------------------------- MODULE MCHsailDispatch --------------------------
(***************************************************************************)
(* Instances of HsailDispatch for TLC.                                     *)
(***************************************************************************)
EXTENDS HsailDispatch

=============================================================================
