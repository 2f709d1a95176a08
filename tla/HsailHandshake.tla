--------------------------- MODULE HsailHandshake ---------------------------
(***************************************************************************)
(* The handshake of gdb with the agent, a library inside the inferior.     *)
(*                                                                         *)
(* The agent makes two FIFOs and raises SIGALRM twice: the first tells gdb *)
(* to open the FIFO it reads, the second the FIFO it writes.  The handler  *)
(* of SIGALRM only counts; linux_nat_wait, the next time it returns,       *)
(* compares the count with 1 and then with 2.  After each SIGALRM the      *)
(* agent stops itself, so that there is a next time.                       *)
(*                                                                         *)
(* Processes: gdb (pc says where in linux_nat_wait), its signal handler,   *)
(* the agent, the rest of the inferior.  A pending SIGALRM is handled      *)
(* before gdb's next step: the kernel delivers it on the way back to user  *)
(* mode.  SIGALRM does not queue: one raised while another is pending is   *)
(* lost.  The agent is not part of the repository; it is modelled from     *)
(* what gdb and its comments expect of it.                                 *)
(***************************************************************************)
EXTENDS Integers

CONSTANTS
  MaxRuns,    \* processes started in a session (bound)
  MaxAlarms,  \* SIGALRMs an agent raises in a process (bound)
  Agent       \* "paced", or "reloading": loaded again at any time

ASSUME MaxRunsAssumption == MaxRuns \in Nat
ASSUME MaxAlarmsAssumption == MaxAlarms \in Nat \ {0}
ASSUME AgentAssumption == Agent \in {"paced", "reloading"}

VARIABLES
  pc,           \* where gdb is: "loop" is the event loop and the prompt
  nonStop,      \* the setting non-stop
  pipe,         \* linux_nat_event_pipe[0] # -1
  count,        \* sighsail_pending_count
  stage1,       \* gs_stage1_has_run
  stage2,       \* gs_stage2_has_run
  initialized,  \* gs_is_hsail_initialized
  readFd,       \* g_hsail_fifo_read_descriptor: the FIFO it reads, 0 if none
  writeFd,      \* g_hsail_fifo_descriptor > 0
  watched,      \* FIFOs with handle_hsail_event as their file handler
  alarm,        \* SIGALRM is pending
  run,          \* the process, numbered from 1
  alive,        \* it has not ended
  resumed,      \* its threads run
  event,        \* it has an event for linux_nat_wait
  raised,       \* SIGALRMs its agent has raised
  poke,         \* its agent is about to stop itself
  fifo          \* the FIFO of the agent's name, by the run that made it

natVars == <<pc, nonStop, pipe, count>>
linkVars == <<stage1, stage2, initialized, readFd, writeFd, watched>>
processVars == <<run, alive, resumed, event>>
agentVars == <<raised, poke, fifo>>
vars == <<natVars, linkVars, alarm, processVars, agentVars>>

Runs == 1..MaxRuns

-----------------------------------------------------------------------------
(* The signal. *)

\* sighsail_handler, at any point of gdb.
Handle ==
  /\ alarm
  /\ alarm' = FALSE
  /\ count' = IF pipe THEN count + 1 ELSE count
  /\ UNCHANGED <<pc, nonStop, pipe, linkVars, processVars, agentVars>>

\* gdb goes on from one point to another.
Step(from, to) ==
  /\ ~alarm
  /\ pc = from
  /\ pc' = to
  /\ UNCHANGED <<nonStop, alarm>>

-----------------------------------------------------------------------------
(* linux_nat_wait. *)

\* linux_nat_wait_1 returns with an event, for which all threads are stopped
\* unless non-stop, or with the end of the process.
WaitEvent ==
  /\ Step("loop", "check1")
  /\ pipe
  /\ event \/ ~alive
  /\ event' = FALSE
  /\ resumed' = (resumed /\ nonStop)
  /\ UNCHANGED <<pipe, count, linkVars, run, alive, agentVars>>

\* It returns with nothing, after a SIGCHLD that was handled before.
WaitNothing ==
  /\ Step("loop", "check1")
  /\ pipe
  /\ alive /\ ~event
  /\ UNCHANGED <<pipe, count, linkVars, processVars, agentVars>>

\* The call of hsail_linux_initialize_stg1.  add_file_handler is given the
\* descriptor through an assertion, so a failing open stops gdb.
Stage1Due == ~initialized /\ count = 1

Stage1(open) ==
  /\ Step("check1", IF open THEN "check2" ELSE "stopped")
  /\ Stage1Due
  /\ ~stage1
  /\ stage1' = open
  /\ readFd' = IF open THEN fifo ELSE readFd
  /\ watched' = IF open THEN watched \cup {fifo} ELSE watched
  /\ UNCHANGED <<pipe, count, stage2, initialized, writeFd, processVars,
                 agentVars>>

SkipStage1 ==
  /\ Step("check1", "check2")
  /\ ~Stage1Due \/ stage1
  /\ UNCHANGED <<pipe, count, linkVars, processVars, agentVars>>

\* The call of hsail_linux_initialize_stg2, which opens the FIFO to write: open
\* blocks until a reader has it, and the agent has it from its second SIGALRM
\* to the end of the process.
Stage2Due == ~initialized /\ count = 2

EnterStage2 ==
  /\ Step("check2", IF stage2 THEN "reset" ELSE "opening")
  /\ Stage2Due
  /\ UNCHANGED <<pipe, count, linkVars, processVars, agentVars>>

Stage2 ==
  /\ Step("opening", "reset")
  /\ alive
  /\ raised >= 2
  /\ initialized' = TRUE
  /\ stage2' = TRUE
  /\ writeFd' = TRUE
  /\ UNCHANGED <<pipe, count, stage1, readFd, watched, processVars, agentVars>>

\* Without the FIFO it fails at once, and hsail counts as initialized.
Stage2Fails ==
  /\ Step("check2", "reset")
  /\ Stage2Due
  /\ ~stage2
  /\ initialized' = TRUE
  /\ stage2' = TRUE
  /\ UNCHANGED <<pipe, count, stage1, readFd, writeFd, watched, processVars,
                 agentVars>>

SkipStage2 ==
  /\ Step("check2", "flush")
  /\ ~Stage2Due
  /\ UNCHANGED <<pipe, count, linkVars, processVars, agentVars>>

Reset ==
  /\ Step("reset", "flush")
  /\ count' = 0
  /\ UNCHANGED <<pipe, linkVars, processVars, agentVars>>

\* The flush of the pending requests asserts that the FIFO is open; then
\* target_async opens the event pipe.
Flush ==
  /\ Step("flush", IF initialized /\ ~writeFd THEN "stopped" ELSE "return")
  /\ pipe' = TRUE
  /\ UNCHANGED <<count, linkVars, processVars, agentVars>>

-----------------------------------------------------------------------------
(* What gdb does with the event. *)

\* Slips: the read FIFO keeps its file handler; the flag of the second stage is
\* not cleared.
CloseKeepsHandler ==
  IF initialized
    THEN /\ initialized' = FALSE
         /\ stage1' = FALSE
         /\ stage2' = FALSE
         /\ readFd' = 0
         /\ writeFd' = FALSE
         /\ fifo' = IF readFd # 0 THEN 0 ELSE fifo
         /\ UNCHANGED watched
    ELSE UNCHANGED <<linkVars, fifo>>

CloseKeepsStage2 ==
  IF initialized
    THEN /\ initialized' = FALSE
         /\ stage1' = FALSE
         /\ readFd' = 0
         /\ writeFd' = FALSE
         /\ watched' = watched \ {readFd}
         /\ fifo' = IF readFd # 0 THEN 0 ELSE fifo
         /\ UNCHANGED stage2
    ELSE UNCHANGED <<linkVars, fifo>>

\* linux_nat_close and hsail_linux_close: only a link that is initialized is
\* closed.
CloseLink ==
  IF initialized
    THEN /\ initialized' = FALSE
         /\ stage1' = FALSE
         /\ stage2' = FALSE
         /\ readFd' = 0
         /\ writeFd' = FALSE
         /\ watched' = watched \ {readFd}
         /\ fifo' = IF readFd # 0 THEN 0 ELSE fifo
    ELSE UNCHANGED <<linkVars, fifo>>

\* Slips: linux_nat_clear_pending_sighsail is not called; hsail_linux_close is
\* not.
CloseKeepsCount == pipe' = FALSE /\ UNCHANGED count /\ CloseLink
CloseKeepsLink == pipe' = FALSE /\ count' = 0 /\ UNCHANGED <<linkVars, fifo>>

Close ==
  /\ pipe' = FALSE
  /\ count' = 0
  /\ CloseLink

\* The process has ended: the target is popped.
Mourn ==
  /\ Step("return", "loop")
  /\ ~alive
  /\ Close
  /\ UNCHANGED <<processVars, raised, poke>>

\* The program is resumed, or goes on because there was no event.
KeepGoing ==
  /\ Step("return", "loop")
  /\ alive
  /\ resumed' = TRUE
  /\ UNCHANGED <<pipe, count, linkVars, run, alive, event, agentVars>>

\* A slip: the event loop is left with non-stop too.
StopAlways ==
  /\ Step("return", "loop")
  /\ alive
  /\ resumed => nonStop
  /\ pipe' = FALSE
  /\ UNCHANGED <<count, linkVars, processVars, agentVars>>

\* The stop is the user's: inferior_event_handler leaves the event loop.
StopForUser ==
  /\ Step("return", "loop")
  /\ alive
  /\ resumed => nonStop
  /\ pipe' = nonStop
  /\ UNCHANGED <<count, linkVars, processVars, agentVars>>

-----------------------------------------------------------------------------
(* Commands of the user. *)

\* run, or attach: the inferior runs with the event pipe open.
Start ==
  /\ Step("loop", "loop")
  /\ ~alive
  /\ ~pipe
  /\ run < MaxRuns
  /\ run' = run + 1
  /\ alive' = TRUE
  /\ resumed' = TRUE
  /\ event' = FALSE
  /\ pipe' = TRUE
  /\ raised' = 0
  /\ poke' = FALSE
  /\ UNCHANGED <<count, linkVars, fifo>>

Continue ==
  /\ Step("loop", "loop")
  /\ alive
  /\ ~resumed
  /\ resumed' = TRUE
  /\ pipe' = TRUE
  /\ UNCHANGED <<count, linkVars, run, alive, event, agentVars>>

\* kill: the target is popped with no call of linux_nat_wait.
Kill ==
  /\ Step("loop", "loop")
  /\ alive
  /\ resumed => nonStop
  /\ alive' = FALSE
  /\ resumed' = FALSE
  /\ event' = FALSE
  /\ Close
  /\ UNCHANGED <<run, raised, poke>>

-----------------------------------------------------------------------------
(* The inferior. *)

\* A library that the process loads is the agent: it makes its FIFO, or finds
\* the one that a process killed earlier has left.
AgentLoads ==
  /\ alive /\ resumed
  /\ raised = 0
  /\ fifo' \in IF fifo = 0 THEN {run} ELSE {fifo, run}
  /\ raised' = 1
  /\ alarm' = TRUE
  /\ poke' = TRUE
  /\ UNCHANGED <<natVars, linkVars, processVars>>

\* The next SIGALRM.  To raise the second, the agent has opened its FIFO for
\* writing, which needs gdb as a reader.  Later ones come with new binaries and
\* when the library is loaded again (C++AMP): a paced agent is not loaded again
\* before gdb is initialized.
AgentRaises ==
  /\ alive /\ resumed
  /\ raised \in 1..(MaxAlarms - 1)
  /\ raised = 1 => readFd = fifo /\ ~poke
  /\ raised > 1 /\ Agent = "paced" => initialized /\ ~poke
  /\ raised' = raised + 1
  /\ alarm' = TRUE
  /\ poke' = TRUE
  /\ UNCHANGED <<natVars, linkVars, processVars, fifo>>

\* The agent stops itself, so that linux_nat_wait returns.
AgentStops ==
  /\ alive /\ resumed
  /\ poke
  /\ poke' = FALSE
  /\ event' = TRUE
  /\ UNCHANGED <<natVars, linkVars, alarm, run, alive, resumed, raised, fifo>>

\* Any other stop of the program.
ProgramStops ==
  /\ alive /\ resumed
  /\ ~event
  /\ event' = TRUE
  /\ UNCHANGED <<natVars, linkVars, alarm, run, alive, resumed, agentVars>>

ProgramEnds ==
  /\ alive /\ resumed
  /\ alive' = FALSE
  /\ resumed' = FALSE
  /\ event' = FALSE
  /\ UNCHANGED <<natVars, linkVars, alarm, run, agentVars>>

-----------------------------------------------------------------------------
Init ==
  /\ pc = "loop"
  /\ nonStop \in BOOLEAN
  /\ pipe = FALSE
  /\ count = 0
  /\ stage1 = FALSE
  /\ stage2 = FALSE
  /\ initialized = FALSE
  /\ readFd = 0
  /\ writeFd = FALSE
  /\ watched = {}
  /\ alarm = FALSE
  /\ run = 0
  /\ alive = FALSE
  /\ resumed = FALSE
  /\ event = FALSE
  /\ raised = 0
  /\ poke = FALSE
  /\ fifo = 0

\* The steps of gdb from an event back to its event loop.
GdbStep ==
  \/ Handle
  \/ WaitEvent
  \/ \E open \in BOOLEAN : Stage1(open)
  \/ SkipStage1
  \/ EnterStage2
  \/ SkipStage2
  \/ Stage2
  \/ Stage2Fails
  \/ Reset
  \/ Flush
  \/ Mourn
  \/ KeepGoing
  \/ StopForUser

UserStep == Start \/ Continue \/ Kill

InferiorStep ==
  AgentLoads \/ AgentRaises \/ AgentStops \/ ProgramStops \/ ProgramEnds

Next == GdbStep \/ WaitNothing \/ UserStep \/ InferiorStep

Spec == Init /\ [][Next]_vars

\* gdb takes its steps as long as it can; the agent goes on if its threads run.
\* Nothing is assumed of the user or of the rest of the program.
Fairness ==
  /\ WF_vars(GdbStep)
  /\ WF_vars(AgentStops)

FairSpec == Spec /\ Fairness

\* Processes do not end in the middle of the handshake.
Orderly == alive /\ ~alive' => raised = 0 \/ initialized

OrderlySpec == Init /\ [][Next /\ Orderly]_vars /\ Fairness

-----------------------------------------------------------------------------
(* Properties. *)

TypeOK ==
  /\ pc \in {"loop", "check1", "check2", "opening", "reset", "flush", "return",
             "stopped"}
  /\ count \in 0..MaxAlarms
  /\ readFd \in 0..MaxRuns
  /\ watched \subseteq Runs
  /\ run \in 0..MaxRuns
  /\ raised \in 0..MaxAlarms
  /\ fifo \in 0..MaxRuns
  /\ {nonStop, pipe, stage1, stage2, initialized, writeFd, alarm, alive,
      resumed, event, poke} \subseteq BOOLEAN

\* Once hsail is initialized, gdb reads the FIFO its agent writes, and no other:
\* no notification is missed and none comes from an earlier process.
ReadsItsAgent == initialized => readFd = fifo /\ watched = {fifo}

\* If no process ends in the middle of its handshake: until hsail is
\* initialized, the count is that of the SIGALRMs the agent of this process has
\* raised: none was lost at the prompt, where the event pipe is closed, or to
\* another that was pending, and none is left from before.
AlarmsCounted ==
  alive /\ ~initialized => raised = count + (IF alarm THEN 1 ELSE 0)

\* The handshake is what the rest of gdb is promised of the link.  The process
\* is there until its end has been handled.
Link == INSTANCE HsailLink WITH process <- alive \/ pipe, fifoOpen <- writeFd

LinkSpec == Link!Spec

\* After each SIGALRM gdb opens the FIFO that it announces, unless the process
\* ends or gdb stops.
HandshakeCompletes ==
  /\ alive /\ raised = 1 ~> readFd = fifo \/ ~alive \/ pc = "stopped"
  /\ alive /\ raised = 2 ~> initialized \/ ~alive \/ pc = "stopped"

\* The end of a process, at whatever point of its handshake, is handled: gdb
\* closes the link and is ready for the next one; unless it waits in open for
\* an agent that is gone.
EndIsHandled ==
  ~alive ~> \/ alive
            \/ ~pipe /\ ~initialized
            \/ pc \in {"opening", "stopped"}

=============================================================================
