----------------------- MODULE MCHsailRequestBuffer -----------------------
(***************************************************************************)
(* Instances of HsailRequestBuffer for TLC.                                *)
(***************************************************************************)
EXTENDS HsailRequestBuffer

\* History: the user has deleted no breakpoint while requests may wait for the
\* FIFO (those deletions make the holes a later request is written over).
VARIABLE careful

KeepsPending == allocated /\ ~initialized => chain \subseteq chain'

MCInit == Init /\ careful = TRUE
MCNext == Next /\ careful' = (careful /\ KeepsPending)
MCSpec == MCInit /\ [][MCNext]_<<vars, careful>>

\* A session in which the buffer is never freed.
OneBufferSpec ==
  MCInit /\ [][MCNext /\ (allocated => allocated')]_<<vars, careful>>

\* For a user who deletes nothing while requests wait, no breakpoint on a kernel
\* is lost between two runs, whatever else is done in whatever order.
KernelBreakpointsStay == careful => KernelBreakpointsReturn

-----------------------------------------------------------------------------
(* What comments, assertions and the manual say, and the code does not do. *)

\* breakpoint_re_set_all_hsail: the request of a breakpoint that is not yet
\* resolved "will be in the breakpoint cache".
PendingRequestIsCached ==
  gdb = "running" /\ inferiors > 0 /\ ~initialized =>
    \A b \in chain : \E i \in Live : slots[i].number = b

\* The manual: a breakpoint that has been deleted no longer exists; so nothing
\* follows its DELETE packet on the FIFO.
DeletedStaysDeleted ==
  [][\A b \in Bps : sent[b].last = "DELETE" =>
       sent'[b].last \in {"DELETE", "none"}]_vars

=============================================================================
