--------------------------- MODULE HsailDispatch ---------------------------
(***************************************************************************)
(* What gdb knows of a dispatch, and what the user's commands make of it.  *)
(*                                                                         *)
(* The agent tells gdb of its dispatches through a FIFO.  gdb reads one    *)
(* notification at a time, in its event loop (handle_hsail_event), so the  *)
(* user types while others wait.  continue, step, finish, "hsail thread",  *)
(* kill and quit act on what was read.  The last three call a function of  *)
(* the agent: meanwhile the process runs and nothing is read.  A kill or   *)
(* quit is delayed until the agent answers that it killed the waves.       *)
(*                                                                         *)
(* One wave stands for those of the dispatch: their number is compared     *)
(* with 0, or used with the buffer in shared memory, which has the active  *)
(* work-items.  The agent is not part of the repository: it sends what the *)
(* comments in gdb and CommunicationControl.h expect, in any order they    *)
(* leave open.  The link is that of HsailLink, with a FIFO that did open.  *)
(***************************************************************************)
EXTENDS Integers, Sequences

CONSTANTS
  Lanes,         \* lanes of a wave, each with a work-item
  Unknown,       \* gs_unknown_wave_dim
  MaxRuns,       \* processes started in a session (bound)
  MaxDispatches, \* dispatches in a session (bound)
  MaxUnread,     \* notifications that wait in the FIFO (bound)
  Restart        \* "any", or "clean": a process is started only if gdb
                 \* read the end of the last dispatch and delays nothing

ASSUME LanesAssumption == Lanes \in Nat
ASSUME UnknownAssumption == Unknown \notin 1..Lanes
ASSUME MaxRunsAssumption == MaxRuns \in Nat
ASSUME MaxDispatchesAssumption == MaxDispatches \in Nat
ASSUME MaxUnreadAssumption == MaxUnread \in Nat
ASSUME RestartAssumption == Restart \in {"any", "clean"}

VARIABLES
  at,             \* where gdb is: "loop" is the event loop and the prompt, the
                  \* name of a command its call of the agent
  process,        \* "none", "running", "stopped", or "dead": gdb does not know
  run,            \* its number
  initialized,    \* is_hsail_linux_initialized
  focusDevice,    \* gs_is_hsail_focus_device
  predispatch,    \* hsail_is_focus_predispatch
  waves,          \* gs_num_active_waves > 0
  available,      \* g_binary_notification = HSAIL_AGENT_BINARY_AVAILABLE
  dbginfo,        \* gs_DbgInfo: the dispatch it is of, 0 for NULL
  dispatchThread, \* gs_hsail_dispatch_thread_id: the run it is of, 0 if none
  focus,          \* gs_active_work_item
  item,           \* the work-item of an "hsail thread" that goes on
  killSkip,       \* skip_confirmation_check of kill_command
  quitSkip,       \* skip_confirmation_check of quit_command
  asked,          \* the commands the user has confirmed for the process
  fifo,           \* the notifications to read
  dispatch,       \* the dispatch the agent is at, numbered from 1
  phase,          \* how far it is
  begun,          \* the agent debugs it
  binary,         \* its binary was sent
  hit,            \* waves of it have stopped
  active,         \* the wave buffer: the work-items that are active in them
  debugThread,    \* the agent has its debug thread
  requests        \* KillHsailDebug was called, with these arguments

viewVars ==
  <<focusDevice, predispatch, waves, available, dbginfo, dispatchThread, focus>>
skipVars == <<killSkip, quitSkip>>
processVars == <<process, run, initialized>>
agentVars == <<dispatch, phase, begun, binary, hit, active, debugThread>>
vars == <<at, item, viewVars, skipVars, processVars, asked, fifo, agentVars,
          requests>>

Dispatches == 1..MaxDispatches

\* A work-item by its lane.
Items == 1..Lanes

-----------------------------------------------------------------------------
(* The agent.  Its threads run with the process. *)

\* The agent goes on and sends messages.
Send(messages) ==
  /\ process = "running"
  /\ initialized
  /\ Len(fifo) + Len(messages) <= MaxUnread
  /\ fifo' = fifo \o messages
  /\ UNCHANGED <<at, item, viewVars, skipVars, processVars, asked>>

StartDebugThread ==
  /\ ~debugThread
  /\ debugThread' = TRUE
  /\ Send(<<[type |-> "debugThread", run |-> run]>>)
  /\ UNCHANGED <<dispatch, phase, begun, binary, hit, active, requests>>

\* One dispatch after the other.
EnterPredispatch ==
  /\ phase = "idle"
  /\ dispatch < MaxDispatches
  /\ dispatch' = dispatch + 1
  /\ phase' = "predispatch"
  /\ binary' = FALSE
  /\ Send(<<[type |-> "predispatch", entered |-> TRUE]>>)
  /\ UNCHANGED <<begun, hit, active, debugThread, requests>>

\* The binary, of which debug information may be made or not.
SendBinary(ok) ==
  /\ phase = "predispatch"
  /\ ~binary
  /\ binary' = TRUE
  /\ Send(<<[type |-> "newBinary", dispatch |-> dispatch, ok |-> ok]>>)
  /\ UNCHANGED <<dispatch, phase, begun, hit, active, debugThread, requests>>

\* The initial focus is sent before the wave buffer is filled.
Begin(i) ==
  /\ phase = "predispatch"
  /\ ~begun
  /\ begun' = TRUE
  /\ Send(<<[type |-> "begin"], [type |-> "focus", item |-> i]>>)
  /\ UNCHANGED <<dispatch, phase, binary, hit, active, debugThread, requests>>

\* Debugging ends, and begins again within the callback.
EndInCallback ==
  /\ phase = "predispatch"
  /\ begun
  /\ begun' = FALSE
  /\ Send(<<[type |-> "end", completed |-> FALSE]>>)
  /\ UNCHANGED <<dispatch, phase, binary, hit, active, debugThread, requests>>

LeavePredispatch ==
  /\ phase = "predispatch"
  /\ begun /\ binary
  /\ phase' = "running"
  /\ Send(<<[type |-> "predispatch", entered |-> FALSE]>>)
  /\ UNCHANGED <<dispatch, begun, binary, hit, active, debugThread, requests>>

\* Waves stop at a breakpoint; the focus goes to a work-item of theirs.
Hit(stopped, i) ==
  /\ phase = "running"
  /\ i \in stopped
  /\ hit' = TRUE
  /\ active' = stopped
  /\ Send(<<[type |-> "hit"], [type |-> "focus", item |-> i]>>)
  /\ UNCHANGED <<dispatch, phase, begun, binary, debugThread, requests>>

Complete ==
  /\ phase = "running"
  /\ phase' = "idle"
  /\ begun' = FALSE
  /\ hit' = FALSE
  /\ Send(<<[type |-> "end", completed |-> TRUE]>>)
  /\ UNCHANGED <<dispatch, binary, active, debugThread, requests>>

\* The answer to KillHsailDebug, at any time after its call.
AnswerKill(quit, success) ==
  /\ quit \in requests
  /\ requests' = requests \ {quit}
  /\ phase' = IF success THEN "killed" ELSE phase
  /\ Send(<<[type |-> "killComplete", quit |-> quit, success |-> success]>>)
  /\ UNCHANGED <<dispatch, begun, binary, hit, active, debugThread>>

-----------------------------------------------------------------------------
(* The process goes, and with it its agent, its FIFO and hsail_linux_close.
   What gdb knows of the dispatch stays. *)

\* A slip: the link is not closed.
KeepLink == UNCHANGED initialized

CloseLink == initialized' = FALSE

ProcessGone ==
  /\ process' = "none"
  /\ CloseLink
  /\ fifo' = <<>>
  /\ phase' = "idle"
  /\ begun' = FALSE
  /\ binary' = FALSE
  /\ hit' = FALSE
  /\ active' = {}
  /\ debugThread' = FALSE
  /\ requests' = {}
  /\ UNCHANGED <<run, dispatch>>

-----------------------------------------------------------------------------
(* hsail_tdep_kill_all_waves. *)

\* A slip: the state of the callback is tested for the focus.
DelayedInCallback == initialized /\ predispatch /\ waves

KillIsDelayed == initialized /\ focusDevice /\ waves

\* The call resumes the process, and gdb waits for it outside its event loop.
CallAgent(command) ==
  /\ at' = command
  /\ process' = "running"
  /\ UNCHANGED <<viewVars, skipVars, run, initialized, fifo, agentVars>>

-----------------------------------------------------------------------------
(* handle_hsail_event. *)

Read(type) ==
  /\ at = "loop"
  /\ initialized
  /\ fifo # <<>>
  /\ Head(fifo).type = type

\* A notification that changes only what gdb knows.
ReadView(type) ==
  /\ Read(type)
  /\ fifo' = Tail(fifo)
  /\ UNCHANGED <<at, item, skipVars, processVars, asked, agentVars, requests>>

\* A slip: the debug information is freed, the status is kept.
FreeDebugInfo(binaryAvailable, info) ==
  /\ available' = TRUE
  /\ dbginfo' = IF binaryAvailable THEN info ELSE 0

\* hsail_dbginfo_set_facilities_status.
SetStatus(binaryAvailable, info) ==
  /\ available' = binaryAvailable
  /\ dbginfo' = IF binaryAvailable THEN info ELSE 0

ReadNewBinary ==
  /\ ReadView("newBinary")
  /\ SetStatus(Head(fifo).ok, Head(fifo).dispatch)
  /\ UNCHANGED <<focusDevice, predispatch, waves, dispatchThread, focus>>

ReadPredispatch ==
  /\ ReadView("predispatch")
  /\ predispatch' = Head(fifo).entered
  /\ UNCHANGED <<focusDevice, waves, available, dbginfo, dispatchThread, focus>>

ReadDebugThread ==
  /\ ReadView("debugThread")
  /\ dispatchThread' = Head(fifo).run
  /\ UNCHANGED <<focusDevice, predispatch, waves, available, dbginfo, focus>>

\* hsail_tdep_set_active_wave_count(0), and a slip.
KeepWaves == UNCHANGED waves

ClearWaves == waves' = FALSE

ReadHit ==
  /\ ReadView("hit")
  /\ waves' = TRUE
  /\ UNCHANGED <<focusDevice, predispatch, available, dbginfo, dispatchThread,
                 focus>>

ReadBegin ==
  /\ ReadView("begin")
  /\ focusDevice' = TRUE
  /\ ClearWaves
  /\ UNCHANGED <<predispatch, available, dbginfo, dispatchThread, focus>>

\* hsail_cmd_clear_focus; slips: the focus is kept, or cleared to 0.
KeepFocus == UNCHANGED focus
ZeroFocus == focus' = 0

ClearFocus == focus' = Unknown

\* The binary is kept if debugging may begin again within the callback; a slip:
\* it always is.
KeepStatus(completed) == UNCHANGED <<available, dbginfo>>

StatusAtEnd(completed) ==
  IF completed THEN SetStatus(FALSE, 0) ELSE UNCHANGED <<available, dbginfo>>

ReadEnd ==
  /\ ReadView("end")
  /\ focusDevice' = FALSE
  /\ StatusAtEnd(Head(fifo).completed)
  /\ ClearWaves
  /\ ClearFocus
  /\ UNCHANGED <<predispatch, dispatchThread>>

\* hsail_thread_command_validate_active: the bit of the execution mask goes on
\* to the next lane only when it is set, so a lane behind one that is not
\* active is not found.
IsActive(i) == focusDevice /\ initialized /\ waves /\ 1..i \subseteq active

\* hsail_cmd_set_focus: the first focus cannot be validated.
ReadFocus ==
  /\ ReadView("focus")
  /\ focus' = IF focus = Unknown \/ IsActive(Head(fifo).item)
                THEN Head(fifo).item
                ELSE focus
  /\ UNCHANGED <<focusDevice, predispatch, waves, available, dbginfo,
                 dispatchThread>>

\* A slip: the kill goes through hsail_tdep_kill_all_waves once more.
CompleteKillsWaves ==
  /\ Read("killComplete")
  /\ Head(fifo).success
  /\ IF KillIsDelayed
       THEN /\ at' = IF Head(fifo).quit THEN "quit" ELSE "kill"
            /\ process' = "running"
            /\ fifo' = Tail(fifo)
            /\ requests' = requests \cup {Head(fifo).quit}
            /\ UNCHANGED <<skipVars, run, initialized, agentVars>>
       ELSE ProcessGone /\ UNCHANGED <<at, skipVars>>
  /\ UNCHANGED <<item, viewVars, asked>>

\* quit_command_complete and kill_command_complete, which neither ask nor wait
\* for the agent again.
ReadKillComplete ==
  /\ Read("killComplete")
  /\ Head(fifo).success
  /\ IF Head(fifo).quit
       THEN at' = "gone" /\ quitSkip' = FALSE /\ UNCHANGED killSkip
       ELSE killSkip' = FALSE /\ UNCHANGED <<at, quitSkip>>
  /\ ProcessGone
  /\ UNCHANGED <<item, viewVars, asked>>

\* "Could not kill waves safely".
ReadKillFailed ==
  /\ ReadView("killComplete")
  /\ ~Head(fifo).success
  /\ UNCHANGED viewVars

-----------------------------------------------------------------------------
(* gdb and its process. *)

\* What an earlier process may leave behind.
Clean == ~focusDevice /\ ~predispatch /\ ~available /\ ~killSkip /\ ~quitSkip

Start ==
  /\ at = "loop"
  /\ process = "none"
  /\ run < MaxRuns
  /\ Restart = "clean" => Clean
  /\ run' = run + 1
  /\ process' = "running"
  /\ asked' = {}
  /\ UNCHANGED <<at, item, viewVars, skipVars, initialized, fifo, agentVars,
                 requests>>

\* hsail_linux_initialize_stg2.
Initialize ==
  /\ at = "loop"
  /\ process = "running"
  /\ ~initialized
  /\ initialized' = TRUE
  /\ UNCHANGED <<at, item, viewVars, skipVars, process, run, asked, fifo,
                 agentVars, requests>>

\* gdb sees an event, and the prompt is there.
Stop ==
  /\ at = "loop"
  /\ process = "running"
  /\ process' = "stopped"
  /\ UNCHANGED <<at, item, viewVars, skipVars, run, initialized, asked, fifo,
                 agentVars, requests>>

ProcessEnds ==
  /\ process = "running"
  /\ process' = "dead"
  /\ UNCHANGED <<at, item, viewVars, skipVars, run, initialized, asked, fifo,
                 agentVars, requests>>

\* gdb sees the end, in its event loop or in a call, which is then an error.
HandleEnd ==
  /\ process = "dead"
  /\ at \in {"loop", "thread", "kill", "quit"}
  /\ at' = "loop"
  /\ item' = Unknown
  /\ ProcessGone
  /\ UNCHANGED <<viewVars, skipVars, asked>>

-----------------------------------------------------------------------------
(* Commands that resume the process. *)

\* A command is given at the prompt, with a process.
Prompt == at = "loop" /\ process = "stopped"

\* The process runs, or gdb stops at an assertion.
ResumeOrFail(assertion) ==
  /\ at' = assertion
  /\ process' = IF assertion = "loop" THEN "running" ELSE process
  /\ UNCHANGED <<item, viewVars, skipVars, run, initialized, asked, fifo,
                 agentVars, requests>>

\* hsail_set_continue_dispatch.
ContinueFails == focusDevice /\ ~initialized

Continue ==
  /\ Prompt
  /\ ResumeOrFail(IF ContinueFails THEN "continueAssert" ELSE "loop")

\* is_hsail_step; gdb's own focus may be on the debug thread.
IsHsailStep(onDebugThread) ==
  /\ focusDevice
  /\ (onDebugThread /\ dispatchThread = run) \/ predispatch
  /\ available

\* hsail_get_current_pc # 0.
HasAddress == focusDevice /\ initialized /\ waves

\* The assertion of hsail_set_step_breakpoints that fails, "loop" if none does.
StepAssertion(stepType) ==
  IF dbginfo = 0 THEN "debugInfoAssert"
  ELSE IF stepType = "out" /\ ~HasAddress THEN "addressAssert"
  ELSE IF ~initialized THEN "bufferAssert"
  ELSE "loop"

\* step, next and their like are a step in, finish is a step out.
Step(stepType, onDebugThread) ==
  /\ Prompt
  /\ onDebugThread => debugThread
  /\ ResumeOrFail(IF IsHsailStep(onDebugThread)
                    THEN StepAssertion(stepType)
                    ELSE "loop")

-----------------------------------------------------------------------------
(* Commands that call a function of the agent. *)

ThreadCommand(i) ==
  /\ Prompt
  /\ IsActive(i)
  /\ item' = i
  /\ CallAgent("thread")
  /\ UNCHANGED <<asked, requests>>

Kill ==
  /\ Prompt
  /\ asked' = IF killSkip THEN asked ELSE asked \cup {"kill"}
  /\ UNCHANGED item
  /\ IF KillIsDelayed
       THEN CallAgent("kill") /\ requests' = requests \cup {FALSE}
       ELSE ProcessGone /\ UNCHANGED <<at, viewVars, skipVars>>

\* quit_confirm asks only if there is a process.
Quit ==
  /\ at = "loop"
  /\ process \in {"none", "stopped"}
  /\ asked' = IF quitSkip THEN asked ELSE asked \cup {"quit"}
  /\ UNCHANGED item
  /\ IF KillIsDelayed
       THEN CallAgent("quit") /\ requests' = requests \cup {TRUE}
       ELSE at' = "gone" /\ ProcessGone /\ UNCHANGED <<viewVars, skipVars>>

\* A slip: kill and quit have one skip_confirmation_check.
SkipBoth(command) ==
  /\ killSkip' = (killSkip \/ command \in {"kill", "quit"})
  /\ quitSkip' = (quitSkip \/ command \in {"kill", "quit"})

\* A command that is delayed does not ask the next time.
SkipConfirmation(command) ==
  /\ killSkip' = (killSkip \/ command = "kill")
  /\ quitSkip' = (quitSkip \/ command = "quit")

\* The function returns, and the command goes on.
CallReturns ==
  /\ at \in {"thread", "kill", "quit"}
  /\ process = "running"
  /\ at' = "loop"
  /\ process' = "stopped"
  /\ focus' = IF at = "thread" THEN item ELSE focus
  /\ item' = Unknown
  /\ SkipConfirmation(at)
  /\ UNCHANGED <<focusDevice, predispatch, waves, available, dbginfo,
                 dispatchThread, run, initialized, asked, fifo, agentVars,
                 requests>>

\* The process stops in the function: an error ends the command.
CallFails ==
  /\ at \in {"thread", "kill", "quit"}
  /\ process = "running"
  /\ at' = "loop"
  /\ process' = "stopped"
  /\ item' = Unknown
  /\ UNCHANGED <<viewVars, skipVars, run, initialized, asked, fifo,
                 agentVars, requests>>

-----------------------------------------------------------------------------
Init ==
  /\ at = "loop"
  /\ item = Unknown
  /\ process = "none"
  /\ run = 0
  /\ initialized = FALSE
  /\ focusDevice = FALSE
  /\ predispatch = FALSE
  /\ waves = FALSE
  /\ available = FALSE
  /\ dbginfo = 0
  /\ dispatchThread = 0
  /\ focus = Unknown
  /\ killSkip = FALSE
  /\ quitSkip = FALSE
  /\ asked = {}
  /\ fifo = <<>>
  /\ dispatch = 0
  /\ phase = "idle"
  /\ begun = FALSE
  /\ binary = FALSE
  /\ hit = FALSE
  /\ active = {}
  /\ debugThread = FALSE
  /\ requests = {}

AgentStep ==
  \/ StartDebugThread
  \/ EnterPredispatch
  \/ \E ok \in BOOLEAN : SendBinary(ok)
  \/ \E i \in Items : Begin(i)
  \/ EndInCallback
  \/ LeavePredispatch
  \/ \E stopped \in SUBSET Items, i \in Items : Hit(stopped, i)
  \/ Complete
  \/ \E quit, success \in BOOLEAN : AnswerKill(quit, success)

\* One notification.
HandleHsailEvent ==
  \/ ReadNewBinary
  \/ ReadPredispatch
  \/ ReadDebugThread
  \/ ReadHit
  \/ ReadBegin
  \/ ReadEnd
  \/ ReadFocus
  \/ ReadKillComplete
  \/ ReadKillFailed

UserStep ==
  \/ Start
  \/ Continue
  \/ \E stepType \in {"in", "out"}, onDebugThread \in BOOLEAN :
       Step(stepType, onDebugThread)
  \/ \E i \in Items : ThreadCommand(i)
  \/ Kill
  \/ Quit

Next ==
  \/ AgentStep
  \/ HandleHsailEvent
  \/ UserStep
  \/ Initialize
  \/ Stop
  \/ ProcessEnds
  \/ HandleEnd
  \/ CallReturns
  \/ CallFails

Spec == Init /\ [][Next]_vars

-----------------------------------------------------------------------------
(* Properties. *)

Messages ==
  [type : {"debugThread"}, run : 1..MaxRuns]
    \cup [type : {"predispatch"}, entered : BOOLEAN]
    \cup [type : {"newBinary"}, dispatch : Dispatches, ok : BOOLEAN]
    \cup [type : {"begin", "hit"}]
    \cup [type : {"focus"}, item : Items]
    \cup [type : {"end"}, completed : BOOLEAN]
    \cup [type : {"killComplete"}, quit : BOOLEAN, success : BOOLEAN]

Assertions ==
  {"continueAssert", "debugInfoAssert", "addressAssert", "bufferAssert"}

TypeOK ==
  /\ at \in {"loop", "thread", "kill", "quit", "gone"} \cup Assertions
  /\ {item, focus} \subseteq Items \cup {Unknown}
  /\ process \in {"none", "running", "stopped", "dead"}
  /\ run \in 0..MaxRuns
  /\ {initialized, focusDevice, predispatch, waves, available, killSkip,
      quitSkip, begun, binary, hit, debugThread} \subseteq BOOLEAN
  /\ dbginfo \in 0..MaxDispatches
  /\ dispatchThread \in 0..MaxRuns
  /\ asked \subseteq {"kill", "quit"}
  /\ fifo \in Seq(Messages)
  /\ dispatch \in 0..MaxDispatches
  /\ phase \in {"idle", "predispatch", "running", "killed"}
  /\ active \subseteq Items
  /\ requests \subseteq BOOLEAN

\* No command of the user, whatever is unread when it is given, meets an
\* assertion of hsail-infcmd.c: the device has the focus only while hsail is
\* initialized, and a step has its debug information.  Left out is finish
\* before a wave has stopped.
AssertionsHold == at \notin Assertions \ {"addressAssert"}

\* All that the agent has sent was read.
Settled == at = "loop" /\ process # "none" /\ initialized /\ fifo = <<>>

\* Once all is read, gdb knows where the agent is: whether it debugs, is in the
\* predispatch callback, has waves that stopped.
ViewIsCurrent ==
  Settled => /\ focusDevice = begun
             /\ waves = hit
             /\ predispatch = (phase = "predispatch")

\* Once all is read, a step has the momentary breakpoints of the dispatch it is
\* in, not of an earlier one.
StepsItsDispatch ==
  Settled /\ focusDevice /\ available => dbginfo = dispatch

\* Once all is read, the focus is unknown outside of a dispatch.  In one whose
\* waves have stopped it is active, whatever moved since it was validated, if
\* no lane before the last that is active is inactive.
FocusIsActive ==
  Settled => /\ ~focusDevice => focus = Unknown
             /\ waves /\ (\A i \in active : 1..i \subseteq active) =>
                  focus \in active

\* Commands, notifications and ends use the link as HsailLink promises it.
Link ==
  INSTANCE HsailLink WITH process <- process # "none", fifoOpen <- initialized

LinkSpec == Link!Spec

\* gdb never kills the process under waves it knows of, unless the agent has
\* killed them.
WavesKilledFirst ==
  [][process = "stopped" /\ process' = "none" /\ waves => phase = "killed"]_vars

\* A process that lives is not killed, and gdb not left with it, unless the
\* user was asked about this process.
KillIsConfirmed ==
  [][(process \in {"running", "stopped"} /\ process' = "none") =>
       (IF at' = "gone" THEN "quit" ELSE "kill") \in asked']_vars

\* The answer that the waves are killed ends the process: it is not lost to an
\* error of another command, and the kill is not delayed again.
WavesKilled ==
  \E i \in DOMAIN fifo : fifo[i].type = "killComplete" /\ fifo[i].success

KillCompletes == [][WavesKilled => WavesKilled' \/ process' = "none"]_vars

=============================================================================
