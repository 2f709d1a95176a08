-------------------------- MODULE MCHsailHandshake --------------------------
(***************************************************************************)
(* Instances of HsailHandshake for TLC.                                    *)
(***************************************************************************)
EXTENDS HsailHandshake

-----------------------------------------------------------------------------
(* What a comment says, and the code does not do. *)

\* linux_nat_close: the SIGALRMs of an agent that is loaded several times are
\* harmless; so gdb is initialized all the same.
AlarmsAreHarmless ==
  alive /\ raised >= 2 ~> initialized \/ ~alive \/ pc = "stopped"

=============================================================================
