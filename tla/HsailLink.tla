----------------------------- MODULE HsailLink -----------------------------
(***************************************************************************)
(* What the rest of gdb is promised of the link with the agent: it is      *)
(* initialized at most once for a process, while the process lives, and is *)
(* gone with it.  HsailHandshake shows how two SIGALRMs bring it about;    *)
(* HsailRequestBuffer builds on it.                                        *)
(***************************************************************************)

VARIABLES
  process,      \* there is a process
  initialized,  \* is_hsail_linux_initialized
  fifoOpen      \* g_hsail_fifo_descriptor > 0

vars == <<process, initialized, fifoOpen>>

Init ==
  /\ process = FALSE
  /\ initialized = FALSE
  /\ fifoOpen = FALSE

\* run, or attach.
Start ==
  /\ ~process
  /\ process' = TRUE
  /\ UNCHANGED <<initialized, fifoOpen>>

\* hsail_linux_initialize_stg2; the FIFO may fail to open.
Initialize(open) ==
  /\ process
  /\ ~initialized
  /\ initialized' = TRUE
  /\ fifoOpen' = open
  /\ UNCHANGED process

\* The process ends and hsail_linux_close is called.
Close ==
  /\ process
  /\ process' = FALSE
  /\ initialized' = FALSE
  /\ fifoOpen' = FALSE

Next ==
  \/ Start
  \/ \E open \in BOOLEAN : Initialize(open)
  \/ Close

Spec == Init /\ [][Next]_vars

=============================================================================
