--------------------------- MODULE MCLinuxNatLwps ---------------------------
(***************************************************************************)
(* LinuxNatLwps with the history that says when a ^C is safe.              *)
(***************************************************************************)
EXTENDS LinuxNatLwps

\* History: an LWP may have been told to ignore a SIGINT that never comes.
VARIABLE marked

\* set_ignore_sigint marks an LWP that is stopped already.
Marks ==
  /\ phase = "wait" /\ phase' = "stopping"
  /\ event'.status = "int"
  /\ ~(lwps \cap stopped \subseteq {event'.lwp})

\* An LWP stops with its mark, which maybe_clear_ignore_sigint leaves for the
\* SIGINT of the next ^C.
Outlives == \E l \in ignoring : l \in stopped' \ stopped /\ interrupt

MCInit == Init /\ marked = FALSE
MCNext == Next /\ marked' = (marked \/ Marks \/ Outlives)
MCSafe == MCInit /\ [][MCNext]_<<vars, marked>>
MCSpec == MCSafe /\ Fairness

\* A ^C reaches the core as long as no LWP is told to ignore a SIGINT while it is
\* stopped, nor stops so marked while the next ^C is on its way
\* (set_ignore_sigint, maybe_clear_ignore_sigint).
InterruptReachesCore == marked \/ InterruptAccounted

=============================================================================
