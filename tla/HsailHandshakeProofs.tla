----------------------- MODULE HsailHandshakeProofs -----------------------
(***************************************************************************)
(* Theorems about HsailHandshake, for any number of processes, any number  *)
(* of SIGALRMs and either agent: the types, that gdb reads the FIFO of its *)
(* agent and no other, and that the handshake implements HsailLink.        *)
(***************************************************************************)
EXTENDS HsailHandshake, TLAPS

(***************************************************************************)
(* The inductive invariant.                                                *)
(***************************************************************************)

\* The event pipe is open while gdb handles an event and while the program
\* runs; where it is closed no SIGALRM is pending, and no link is left when the
\* process is gone too.
PipeInv ==
  /\ pc \notin {"loop", "stopped"} => pipe
  /\ resumed => pipe /\ alive
  /\ ~pipe => ~alarm
  /\ ~pipe /\ ~alive => count = 0 /\ ~initialized

\* No SIGALRM is counted that the agent of this process has not raised.
CountInv == count + (IF alarm THEN 1 ELSE 0) <= raised

\* The FIFO gdb reads: opened by the first stage alone, watched as long as it
\* is open, and that of the agent when it has raised the second SIGALRM.
FifoInv ==
  /\ raised >= 2 => readFd = fifo
  /\ raised >= 1 /\ (alive \/ pipe) => fifo # 0
  /\ ~stage1 => readFd = 0
  /\ watched = IF readFd = 0 THEN {} ELSE {readFd}
  /\ alive => run # 0

\* The second stage comes with the second SIGALRM, and opens the FIFO to write.
InitializedInv ==
  /\ initialized => raised >= 2
  /\ ~initialized => ~writeFd
  /\ pc = "opening" => ~initialized

IInv == TypeOK /\ PipeInv /\ CountInv /\ FifoInv /\ InitializedInv

\* The handler counts a SIGALRM or drops it: the invariant is kept.
LEMMA HandleKeeps ==
  ASSUME IInv, Handle
  PROVE  IInv'
<1> USE MaxRunsAssumption, MaxAlarmsAssumption DEF IInv
<1>1. TypeOK'
  <2>1. /\ pc' \in {"loop", "check1", "check2", "opening", "reset", "flush",
                    "return", "stopped"}
        /\ {nonStop', pipe', stage1', stage2', initialized', writeFd', alarm',
            alive', resumed', event', poke'} \subseteq BOOLEAN
    BY DEF Handle, linkVars, processVars, agentVars, TypeOK
  <2>2. /\ count' \in 0..MaxAlarms /\ raised' \in 0..MaxAlarms
        /\ readFd' \in 0..MaxRuns /\ run' \in 0..MaxRuns /\ fifo' \in 0..MaxRuns
        /\ watched' \subseteq Runs
    BY DEF Handle, linkVars, processVars, agentVars, TypeOK, CountInv
  <2>3. QED
    BY <2>1, <2>2 DEF TypeOK
<1>2. PipeInv'
  BY DEF Handle, processVars, PipeInv
<1>3. CountInv'
  BY DEF Handle, agentVars, TypeOK, CountInv
<1>4. FifoInv'
  BY DEF Handle, linkVars, processVars, agentVars, FifoInv
<1>5. InitializedInv'
  BY DEF Handle, linkVars, agentVars, InitializedInv
<1>6. QED
  BY <1>1, <1>2, <1>3, <1>4, <1>5

\* linux_nat_wait returns with an event: the invariant is kept.
LEMMA WaitEventKeeps ==
  ASSUME IInv, WaitEvent
  PROVE  IInv'
<1> USE MaxRunsAssumption, MaxAlarmsAssumption DEF IInv
<1>1. TypeOK'
  BY DEF WaitEvent, Step, linkVars, agentVars, TypeOK
<1>2. PipeInv'
  BY DEF WaitEvent, PipeInv
<1>3. CountInv'
  BY DEF WaitEvent, Step, agentVars, CountInv
<1>4. FifoInv'
  BY DEF WaitEvent, linkVars, agentVars, FifoInv
<1>5. InitializedInv'
  BY DEF WaitEvent, Step, linkVars, agentVars, InitializedInv
<1>6. QED
  BY <1>1, <1>2, <1>3, <1>4, <1>5

\* linux_nat_wait returns with nothing: the invariant is kept.
LEMMA WaitNothingKeeps ==
  ASSUME IInv, WaitNothing
  PROVE  IInv'
<1> USE MaxRunsAssumption, MaxAlarmsAssumption DEF IInv
<1>1. TypeOK'
  BY DEF WaitNothing, Step, linkVars, processVars, agentVars, TypeOK
<1>2. PipeInv'
  BY DEF WaitNothing, processVars, PipeInv
<1>3. CountInv'
  BY DEF WaitNothing, Step, agentVars, CountInv
<1>4. FifoInv'
  BY DEF WaitNothing, linkVars, processVars, agentVars, FifoInv
<1>5. InitializedInv'
  BY DEF WaitNothing, Step, linkVars, agentVars, InitializedInv
<1>6. QED
  BY <1>1, <1>2, <1>3, <1>4, <1>5

\* The first stage opens the FIFO the agent has just made: the invariant is kept.
LEMMA Stage1Keeps ==
  ASSUME IInv, NEW open \in BOOLEAN, Stage1(open)
  PROVE  IInv'
<1> USE MaxRunsAssumption, MaxAlarmsAssumption DEF IInv
<1>1. TypeOK'
  BY DEF Stage1, Step, Stage1Due, processVars, agentVars, TypeOK, PipeInv,
         CountInv, FifoInv, Runs
<1>2. PipeInv'
  BY DEF Stage1, Step, processVars, PipeInv
<1>3. CountInv'
  BY DEF Stage1, Step, agentVars, CountInv
<1>4. FifoInv'
  BY DEF Stage1, Stage1Due, processVars, agentVars, TypeOK, PipeInv, CountInv,
         FifoInv
<1>5. InitializedInv'
  BY DEF Stage1, Stage1Due, InitializedInv
<1>6. QED
  BY <1>1, <1>2, <1>3, <1>4, <1>5

\* The first stage is not due: the invariant is kept.
LEMMA SkipStage1Keeps ==
  ASSUME IInv, SkipStage1
  PROVE  IInv'
<1> USE MaxRunsAssumption, MaxAlarmsAssumption DEF IInv
<1>1. TypeOK'
  BY DEF SkipStage1, Step, linkVars, processVars, agentVars, TypeOK
<1>2. PipeInv'
  BY DEF SkipStage1, Step, processVars, PipeInv
<1>3. CountInv'
  BY DEF SkipStage1, Step, agentVars, CountInv
<1>4. FifoInv'
  BY DEF SkipStage1, linkVars, processVars, agentVars, FifoInv
<1>5. InitializedInv'
  BY DEF SkipStage1, Step, linkVars, agentVars, InitializedInv
<1>6. QED
  BY <1>1, <1>2, <1>3, <1>4, <1>5

\* The second stage is due: the invariant is kept.
LEMMA EnterStage2Keeps ==
  ASSUME IInv, EnterStage2
  PROVE  IInv'
<1> USE MaxRunsAssumption, MaxAlarmsAssumption DEF IInv
<1>1. TypeOK'
  BY DEF EnterStage2, Step, linkVars, processVars, agentVars, TypeOK
<1>2. PipeInv'
  BY DEF EnterStage2, Step, processVars, PipeInv
<1>3. CountInv'
  BY DEF EnterStage2, Step, agentVars, CountInv
<1>4. FifoInv'
  BY DEF EnterStage2, linkVars, processVars, agentVars, FifoInv
<1>5. InitializedInv'
  BY DEF EnterStage2, Stage2Due, linkVars, InitializedInv
<1>6. QED
  BY <1>1, <1>2, <1>3, <1>4, <1>5

\* The second stage opens the FIFO to write: the invariant is kept.
LEMMA Stage2Keeps ==
  ASSUME IInv, Stage2
  PROVE  IInv'
<1> USE MaxRunsAssumption, MaxAlarmsAssumption DEF IInv
<1>1. TypeOK'
  BY DEF Stage2, Step, processVars, agentVars, TypeOK
<1>2. PipeInv'
  BY DEF Stage2, Step, processVars, PipeInv
<1>3. CountInv'
  BY DEF Stage2, Step, agentVars, CountInv
<1>4. FifoInv'
  BY DEF Stage2, processVars, agentVars, FifoInv
<1>5. InitializedInv'
  BY DEF Stage2, Step, agentVars, InitializedInv
<1>6. QED
  BY <1>1, <1>2, <1>3, <1>4, <1>5

\* The second stage fails: the invariant is kept.
LEMMA Stage2FailsKeeps ==
  ASSUME IInv, Stage2Fails
  PROVE  IInv'
<1> USE MaxRunsAssumption, MaxAlarmsAssumption DEF IInv
<1>1. TypeOK'
  BY DEF Stage2Fails, Step, processVars, agentVars, TypeOK
<1>2. PipeInv'
  BY DEF Stage2Fails, Step, processVars, PipeInv
<1>3. CountInv'
  BY DEF Stage2Fails, Step, agentVars, CountInv
<1>4. FifoInv'
  BY DEF Stage2Fails, processVars, agentVars, FifoInv
<1>5. InitializedInv'
  BY DEF Stage2Fails, Step, Stage2Due, agentVars, CountInv, InitializedInv
<1>6. QED
  BY <1>1, <1>2, <1>3, <1>4, <1>5

\* The second stage is not due: the invariant is kept.
LEMMA SkipStage2Keeps ==
  ASSUME IInv, SkipStage2
  PROVE  IInv'
<1> USE MaxRunsAssumption, MaxAlarmsAssumption DEF IInv
<1>1. TypeOK'
  BY DEF SkipStage2, Step, linkVars, processVars, agentVars, TypeOK
<1>2. PipeInv'
  BY DEF SkipStage2, Step, processVars, PipeInv
<1>3. CountInv'
  BY DEF SkipStage2, Step, agentVars, CountInv
<1>4. FifoInv'
  BY DEF SkipStage2, linkVars, processVars, agentVars, FifoInv
<1>5. InitializedInv'
  BY DEF SkipStage2, Step, linkVars, agentVars, InitializedInv
<1>6. QED
  BY <1>1, <1>2, <1>3, <1>4, <1>5

\* The count is set to 0 after the second stage: the invariant is kept.
LEMMA ResetKeeps ==
  ASSUME IInv, Reset
  PROVE  IInv'
<1> USE MaxRunsAssumption, MaxAlarmsAssumption DEF IInv
<1>1. TypeOK'
  BY DEF Reset, Step, linkVars, processVars, agentVars, TypeOK
<1>2. PipeInv'
  BY DEF Reset, Step, processVars, PipeInv
<1>3. CountInv'
  BY DEF Reset, Step, agentVars, TypeOK, CountInv
<1>4. FifoInv'
  BY DEF Reset, linkVars, processVars, agentVars, FifoInv
<1>5. InitializedInv'
  BY DEF Reset, Step, linkVars, agentVars, InitializedInv
<1>6. QED
  BY <1>1, <1>2, <1>3, <1>4, <1>5

\* The pending requests are flushed: the invariant is kept.
LEMMA FlushKeeps ==
  ASSUME IInv, Flush
  PROVE  IInv'
<1> USE MaxRunsAssumption, MaxAlarmsAssumption DEF IInv
<1>1. TypeOK'
  BY DEF Flush, Step, linkVars, processVars, agentVars, TypeOK
<1>2. PipeInv'
  BY DEF Flush, processVars, PipeInv
<1>3. CountInv'
  BY DEF Flush, Step, agentVars, CountInv
<1>4. FifoInv'
  BY DEF Flush, Step, linkVars, processVars, agentVars, PipeInv, FifoInv
<1>5. InitializedInv'
  BY DEF Flush, Step, linkVars, agentVars, InitializedInv
<1>6. QED
  BY <1>1, <1>2, <1>3, <1>4, <1>5

\* The end of the process is handled: the invariant is kept.
LEMMA MournKeeps ==
  ASSUME IInv, Mourn
  PROVE  IInv'
<1> USE MaxRunsAssumption, MaxAlarmsAssumption DEF IInv
<1>1. TypeOK'
  <2>1. /\ pc' \in {"loop", "check1", "check2", "opening", "reset", "flush",
                    "return", "stopped"}
        /\ {nonStop', pipe', stage1', stage2', initialized', writeFd', alarm',
            alive', resumed', event', poke'} \subseteq BOOLEAN
    BY DEF Mourn, Step, Close, CloseLink, linkVars, processVars, TypeOK
  <2>2. /\ count' \in 0..MaxAlarms /\ raised' \in 0..MaxAlarms
        /\ readFd' \in 0..MaxRuns /\ run' \in 0..MaxRuns /\ fifo' \in 0..MaxRuns
        /\ watched' \subseteq Runs
    BY DEF Mourn, Close, CloseLink, linkVars, processVars, TypeOK, FifoInv
  <2>3. QED
    BY <2>1, <2>2 DEF TypeOK
<1>2. PipeInv'
  BY DEF Mourn, Step, Close, CloseLink, linkVars, processVars, PipeInv
<1>3. CountInv'
  BY DEF Mourn, Step, Close, TypeOK, CountInv
<1>4. FifoInv'
  BY DEF Mourn, Close, CloseLink, linkVars, processVars, FifoInv
<1>5. InitializedInv'
  BY DEF Mourn, Close, CloseLink, linkVars, InitializedInv
<1>6. QED
  BY <1>1, <1>2, <1>3, <1>4, <1>5

\* The program is resumed: the invariant is kept.
LEMMA KeepGoingKeeps ==
  ASSUME IInv, KeepGoing
  PROVE  IInv'
<1> USE MaxRunsAssumption, MaxAlarmsAssumption DEF IInv
<1>1. TypeOK'
  BY DEF KeepGoing, Step, linkVars, agentVars, TypeOK
<1>2. PipeInv'
  BY DEF KeepGoing, Step, PipeInv
<1>3. CountInv'
  BY DEF KeepGoing, Step, agentVars, CountInv
<1>4. FifoInv'
  BY DEF KeepGoing, linkVars, agentVars, FifoInv
<1>5. InitializedInv'
  BY DEF KeepGoing, Step, linkVars, agentVars, InitializedInv
<1>6. QED
  BY <1>1, <1>2, <1>3, <1>4, <1>5

\* The event loop is left: the invariant is kept.
LEMMA StopForUserKeeps ==
  ASSUME IInv, StopForUser
  PROVE  IInv'
<1> USE MaxRunsAssumption, MaxAlarmsAssumption DEF IInv
<1>1. TypeOK'
  BY DEF StopForUser, Step, linkVars, processVars, agentVars, TypeOK
<1>2. PipeInv'
  BY DEF StopForUser, Step, processVars, PipeInv
<1>3. CountInv'
  BY DEF StopForUser, Step, agentVars, CountInv
<1>4. FifoInv'
  BY DEF StopForUser, linkVars, processVars, agentVars, FifoInv
<1>5. InitializedInv'
  BY DEF StopForUser, Step, linkVars, agentVars, InitializedInv
<1>6. QED
  BY <1>1, <1>2, <1>3, <1>4, <1>5

\* A process is started: the invariant is kept.
LEMMA StartKeeps ==
  ASSUME IInv, Start
  PROVE  IInv'
<1> USE MaxRunsAssumption, MaxAlarmsAssumption DEF IInv
<1>1. TypeOK'
  <2>1. /\ pc' \in {"loop", "check1", "check2", "opening", "reset", "flush",
                    "return", "stopped"}
        /\ {nonStop', pipe', stage1', stage2', initialized', writeFd', alarm',
            alive', resumed', event', poke'} \subseteq BOOLEAN
    BY DEF Start, Step, linkVars, TypeOK
  <2>2. /\ count' \in 0..MaxAlarms /\ raised' \in 0..MaxAlarms
        /\ readFd' \in 0..MaxRuns /\ run' \in 0..MaxRuns /\ fifo' \in 0..MaxRuns
        /\ watched' \subseteq Runs
    BY DEF Start, linkVars, TypeOK
  <2>3. QED
    BY <2>1, <2>2 DEF TypeOK
<1>2. PipeInv'
  BY DEF Start, PipeInv
<1>3. CountInv'
  BY DEF Start, Step, PipeInv, CountInv
<1>4. FifoInv'
  BY DEF Start, linkVars, TypeOK, FifoInv
<1>5. InitializedInv'
  BY DEF Start, linkVars, PipeInv, InitializedInv
<1>6. QED
  BY <1>1, <1>2, <1>3, <1>4, <1>5

\* The user continues: the invariant is kept.
LEMMA ContinueKeeps ==
  ASSUME IInv, Continue
  PROVE  IInv'
<1> USE MaxRunsAssumption, MaxAlarmsAssumption DEF IInv
<1>1. TypeOK'
  BY DEF Continue, Step, linkVars, agentVars, TypeOK
<1>2. PipeInv'
  BY DEF Continue, PipeInv
<1>3. CountInv'
  BY DEF Continue, Step, agentVars, CountInv
<1>4. FifoInv'
  BY DEF Continue, linkVars, agentVars, FifoInv
<1>5. InitializedInv'
  BY DEF Continue, Step, linkVars, agentVars, InitializedInv
<1>6. QED
  BY <1>1, <1>2, <1>3, <1>4, <1>5

\* The user kills the process: the invariant is kept.
LEMMA KillKeeps ==
  ASSUME IInv, Kill
  PROVE  IInv'
<1> USE MaxRunsAssumption, MaxAlarmsAssumption DEF IInv
<1>1. TypeOK'
  <2>1. /\ pc' \in {"loop", "check1", "check2", "opening", "reset", "flush",
                    "return", "stopped"}
        /\ {nonStop', pipe', stage1', stage2', initialized', writeFd', alarm',
            alive', resumed', event', poke'} \subseteq BOOLEAN
    BY DEF Kill, Step, Close, CloseLink, linkVars, TypeOK
  <2>2. /\ count' \in 0..MaxAlarms /\ raised' \in 0..MaxAlarms
        /\ readFd' \in 0..MaxRuns /\ run' \in 0..MaxRuns /\ fifo' \in 0..MaxRuns
        /\ watched' \subseteq Runs
    BY DEF Kill, Close, CloseLink, linkVars, TypeOK, FifoInv
  <2>3. QED
    BY <2>1, <2>2 DEF TypeOK
<1>2. PipeInv'
  BY DEF Kill, Step, Close, CloseLink, linkVars, PipeInv
<1>3. CountInv'
  BY DEF Kill, Step, Close, TypeOK, CountInv
<1>4. FifoInv'
  BY DEF Kill, Close, CloseLink, linkVars, FifoInv
<1>5. InitializedInv'
  BY DEF Kill, Close, CloseLink, linkVars, InitializedInv
<1>6. QED
  BY <1>1, <1>2, <1>3, <1>4, <1>5

\* The agent raises its first SIGALRM: the invariant is kept.
LEMMA AgentLoadsKeeps ==
  ASSUME IInv, AgentLoads
  PROVE  IInv'
<1> USE MaxRunsAssumption, MaxAlarmsAssumption DEF IInv
<1>1. TypeOK'
  <2>1. /\ pc' \in {"loop", "check1", "check2", "opening", "reset", "flush",
                    "return", "stopped"}
        /\ {nonStop', pipe', stage1', stage2', initialized', writeFd', alarm',
            alive', resumed', event', poke'} \subseteq BOOLEAN
    BY DEF AgentLoads, natVars, linkVars, processVars, TypeOK
  <2>2. /\ count' \in 0..MaxAlarms /\ raised' \in 0..MaxAlarms
        /\ readFd' \in 0..MaxRuns /\ run' \in 0..MaxRuns /\ fifo' \in 0..MaxRuns
        /\ watched' \subseteq Runs
    BY DEF AgentLoads, natVars, linkVars, processVars, TypeOK
  <2>3. QED
    BY <2>1, <2>2 DEF TypeOK
<1>2. PipeInv'
  BY DEF AgentLoads, natVars, processVars, PipeInv
<1>3. CountInv'
  BY DEF AgentLoads, natVars, TypeOK, CountInv
<1>4. FifoInv'
  BY DEF AgentLoads, linkVars, processVars, FifoInv
<1>5. InitializedInv'
  BY DEF AgentLoads, linkVars, InitializedInv
<1>6. QED
  BY <1>1, <1>2, <1>3, <1>4, <1>5

\* The agent raises another: the invariant is kept.
LEMMA AgentRaisesKeeps ==
  ASSUME IInv, AgentRaises
  PROVE  IInv'
<1> USE MaxRunsAssumption, MaxAlarmsAssumption DEF IInv
<1>1. TypeOK'
  BY DEF AgentRaises, natVars, linkVars, processVars, TypeOK
<1>2. PipeInv'
  BY DEF AgentRaises, natVars, processVars, PipeInv
<1>3. CountInv'
  BY DEF AgentRaises, natVars, TypeOK, CountInv
<1>4. FifoInv'
  BY DEF AgentRaises, linkVars, processVars, FifoInv
<1>5. InitializedInv'
  BY DEF AgentRaises, natVars, linkVars, InitializedInv
<1>6. QED
  BY <1>1, <1>2, <1>3, <1>4, <1>5

\* The agent stops itself: the invariant is kept.
LEMMA AgentStopsKeeps ==
  ASSUME IInv, AgentStops
  PROVE  IInv'
<1> USE MaxRunsAssumption, MaxAlarmsAssumption DEF IInv
<1>1. TypeOK'
  BY DEF AgentStops, natVars, linkVars, TypeOK
<1>2. PipeInv'
  BY DEF AgentStops, natVars, PipeInv
<1>3. CountInv'
  BY DEF AgentStops, natVars, CountInv
<1>4. FifoInv'
  BY DEF AgentStops, linkVars, FifoInv
<1>5. InitializedInv'
  BY DEF AgentStops, natVars, linkVars, InitializedInv
<1>6. QED
  BY <1>1, <1>2, <1>3, <1>4, <1>5

\* The program stops: the invariant is kept.
LEMMA ProgramStopsKeeps ==
  ASSUME IInv, ProgramStops
  PROVE  IInv'
<1> USE MaxRunsAssumption, MaxAlarmsAssumption DEF IInv
<1>1. TypeOK'
  BY DEF ProgramStops, natVars, linkVars, agentVars, TypeOK
<1>2. PipeInv'
  BY DEF ProgramStops, natVars, PipeInv
<1>3. CountInv'
  BY DEF ProgramStops, natVars, agentVars, CountInv
<1>4. FifoInv'
  BY DEF ProgramStops, linkVars, agentVars, FifoInv
<1>5. InitializedInv'
  BY DEF ProgramStops, natVars, linkVars, agentVars, InitializedInv
<1>6. QED
  BY <1>1, <1>2, <1>3, <1>4, <1>5

\* The process ends: the invariant is kept.
LEMMA ProgramEndsKeeps ==
  ASSUME IInv, ProgramEnds
  PROVE  IInv'
<1> USE MaxRunsAssumption, MaxAlarmsAssumption DEF IInv
<1>1. TypeOK'
  BY DEF ProgramEnds, natVars, linkVars, agentVars, TypeOK
<1>2. PipeInv'
  BY DEF ProgramEnds, natVars, PipeInv
<1>3. CountInv'
  BY DEF ProgramEnds, natVars, agentVars, CountInv
<1>4. FifoInv'
  BY DEF ProgramEnds, linkVars, agentVars, FifoInv
<1>5. InitializedInv'
  BY DEF ProgramEnds, natVars, linkVars, agentVars, InitializedInv
<1>6. QED
  BY <1>1, <1>2, <1>3, <1>4, <1>5

\* Nothing changes: the invariant is kept.
LEMMA StutterKeeps ==
  ASSUME IInv, UNCHANGED vars
  PROVE  IInv'
BY DEF IInv, TypeOK, PipeInv, CountInv, FifoInv, InitializedInv, vars, natVars,
       linkVars, processVars, agentVars

-----------------------------------------------------------------------------
(* Every state satisfies the invariant. *)

\* No process has been started.
LEMMA InitEstablishes ==
  ASSUME Init
  PROVE  IInv
<1>1. PipeInv /\ CountInv /\ FifoInv /\ InitializedInv
  BY DEF Init, PipeInv, CountInv, FifoInv, InitializedInv
<1>2. {nonStop, pipe, stage1, stage2, initialized, writeFd, alarm, alive,
       resumed, event, poke} \subseteq BOOLEAN
  BY DEF Init
<1>3. TypeOK
  BY <1>2, MaxRunsAssumption, MaxAlarmsAssumption DEF Init, TypeOK
<1> QED
  BY <1>1, <1>3 DEF IInv

\* One case for each action.
LEMMA StepKeeps ==
  ASSUME IInv, [Next]_vars
  PROVE  IInv'
<1>1. CASE Handle
  BY <1>1, HandleKeeps
<1>2. CASE WaitEvent
  BY <1>2, WaitEventKeeps
<1>3. CASE WaitNothing
  BY <1>3, WaitNothingKeeps
<1>4. CASE \E open \in BOOLEAN : Stage1(open)
  BY <1>4, Stage1Keeps
<1>5. CASE SkipStage1
  BY <1>5, SkipStage1Keeps
<1>6. CASE EnterStage2
  BY <1>6, EnterStage2Keeps
<1>7. CASE Stage2
  BY <1>7, Stage2Keeps
<1>8. CASE Stage2Fails
  BY <1>8, Stage2FailsKeeps
<1>9. CASE SkipStage2
  BY <1>9, SkipStage2Keeps
<1>10. CASE Reset
  BY <1>10, ResetKeeps
<1>11. CASE Flush
  BY <1>11, FlushKeeps
<1>12. CASE Mourn
  BY <1>12, MournKeeps
<1>13. CASE KeepGoing
  BY <1>13, KeepGoingKeeps
<1>14. CASE StopForUser
  BY <1>14, StopForUserKeeps
<1>15. CASE Start
  BY <1>15, StartKeeps
<1>16. CASE Continue
  BY <1>16, ContinueKeeps
<1>17. CASE Kill
  BY <1>17, KillKeeps
<1>18. CASE AgentLoads
  BY <1>18, AgentLoadsKeeps
<1>19. CASE AgentRaises
  BY <1>19, AgentRaisesKeeps
<1>20. CASE AgentStops
  BY <1>20, AgentStopsKeeps
<1>21. CASE ProgramStops
  BY <1>21, ProgramStopsKeeps
<1>22. CASE ProgramEnds
  BY <1>22, ProgramEndsKeeps
<1>23. CASE UNCHANGED vars
  BY <1>23, StutterKeeps
<1> QED
  BY <1>1, <1>2, <1>3, <1>4, <1>5, <1>6, <1>7, <1>8, <1>9, <1>10, <1>11, <1>12,
     <1>13, <1>14, <1>15, <1>16, <1>17, <1>18, <1>19, <1>20, <1>21, <1>22,
     <1>23
     DEF Next, GdbStep, UserStep, InferiorStep

\* The invariant holds in every reachable state.
THEOREM IInvHolds == Spec => []IInv
<1>1. Init => IInv
  BY InitEstablishes
<1>2. IInv /\ [Next]_vars => IInv'
  BY StepKeeps
<1> QED
  BY <1>1, <1>2, PTL DEF Spec

-----------------------------------------------------------------------------
(* What follows. *)

\* Every variable keeps its type: in particular no more SIGALRMs are counted
\* than a process can raise.
THEOREM TypesHold == Spec => []TypeOK
BY IInvHolds, PTL DEF IInv

\* gdb, when hsail is initialized, reads the FIFO of the agent of this process
\* and of no earlier one (hsail_linux_initialize_stg1, linux_nat_close).
THEOREM GdbReadsItsAgent == Spec => []ReadsItsAgent
<1>1. IInv => ReadsItsAgent
  <2> SUFFICES ASSUME IInv, initialized
               PROVE  readFd = fifo /\ watched = {fifo}
    BY DEF ReadsItsAgent
  <2>1. raised >= 2 /\ raised \in Nat
    BY MaxAlarmsAssumption DEF IInv, TypeOK, InitializedInv
  <2>2. readFd = fifo
    BY <2>1 DEF IInv, FifoInv
  <2>3. fifo # 0
    BY <2>1 DEF IInv, PipeInv, FifoInv
  <2> QED
    BY <2>2, <2>3 DEF IInv, FifoInv
<1> QED
  BY <1>1, IInvHolds, PTL

-----------------------------------------------------------------------------
(* The handshake implements HsailLink. *)

\* The actions that neither start a process, nor initialize hsail, nor close
\* the link, are not seen there.
LEMMA OthersAreStutters ==
  ASSUME IInv,
         \/ Handle
         \/ WaitEvent
         \/ WaitNothing
         \/ \E open \in BOOLEAN : Stage1(open)
         \/ SkipStage1
         \/ EnterStage2
         \/ SkipStage2
         \/ Reset
         \/ Flush
         \/ KeepGoing
         \/ StopForUser
         \/ Continue
         \/ AgentLoads
         \/ AgentRaises
         \/ AgentStops
         \/ ProgramStops
         \/ ProgramEnds
         \/ UNCHANGED vars
  PROVE  UNCHANGED Link!vars
<1>1. CASE Handle
  BY <1>1 DEF Handle, IInv, PipeInv, natVars, linkVars, processVars, Link!vars
<1>2. CASE WaitEvent
  BY <1>2 DEF WaitEvent, Step, IInv, PipeInv, natVars, linkVars, processVars, Link!vars
<1>3. CASE WaitNothing
  BY <1>3 DEF WaitNothing, Step, IInv, PipeInv, natVars, linkVars, processVars, Link!vars
<1>4. CASE \E open \in BOOLEAN : Stage1(open)
  BY <1>4 DEF Stage1, Step, IInv, PipeInv, natVars, linkVars, processVars, Link!vars
<1>5. CASE SkipStage1
  BY <1>5 DEF SkipStage1, Step, IInv, PipeInv, natVars, linkVars, processVars, Link!vars
<1>6. CASE EnterStage2
  BY <1>6 DEF EnterStage2, Step, IInv, PipeInv, natVars, linkVars, processVars, Link!vars
<1>7. CASE SkipStage2
  BY <1>7 DEF SkipStage2, Step, IInv, PipeInv, natVars, linkVars, processVars, Link!vars
<1>8. CASE Reset
  BY <1>8 DEF Reset, Step, IInv, PipeInv, natVars, linkVars, processVars, Link!vars
<1>9. CASE Flush
  BY <1>9 DEF Flush, Step, IInv, PipeInv, natVars, linkVars, processVars, Link!vars
<1>10. CASE KeepGoing
  BY <1>10 DEF KeepGoing, Step, IInv, PipeInv, natVars, linkVars, processVars, Link!vars
<1>11. CASE StopForUser
  BY <1>11 DEF StopForUser, Step, IInv, PipeInv, natVars, linkVars, processVars, Link!vars
<1>12. CASE Continue
  BY <1>12 DEF Continue, Step, IInv, PipeInv, natVars, linkVars, processVars, Link!vars
<1>13. CASE AgentLoads
  BY <1>13 DEF AgentLoads, IInv, PipeInv, natVars, linkVars, processVars, Link!vars
<1>14. CASE AgentRaises
  BY <1>14 DEF AgentRaises, IInv, PipeInv, natVars, linkVars, processVars, Link!vars
<1>15. CASE AgentStops
  BY <1>15 DEF AgentStops, IInv, PipeInv, natVars, linkVars, processVars, Link!vars
<1>16. CASE ProgramStops
  BY <1>16 DEF ProgramStops, IInv, PipeInv, natVars, linkVars, processVars, Link!vars
<1>17. CASE ProgramEnds
  BY <1>17 DEF ProgramEnds, IInv, PipeInv, natVars, linkVars, processVars, Link!vars
<1>18. CASE UNCHANGED vars
  BY <1>18 DEF vars, natVars, linkVars, processVars, Link!vars
<1> QED
  BY <1>1, <1>2, <1>3, <1>4, <1>5, <1>6, <1>7, <1>8, <1>9, <1>10, <1>11, <1>12,
     <1>13, <1>14, <1>15, <1>16, <1>17, <1>18

\* Every step of the handshake is a step of the link, or none.
LEMMA LinkStep ==
  ASSUME IInv, [Next]_vars
  PROVE  [Link!Next]_Link!vars
<1>1. CASE Start
  <2>1. Link!Start
    BY <1>1 DEF Start, Step, linkVars, Link!Start
  <2> QED
    BY <2>1 DEF Link!Next
<1>2. CASE Stage2
  <2>1. Link!Initialize(TRUE)
    BY <1>2 DEF Stage2, Step, IInv, InitializedInv, processVars, Link!Initialize
  <2> QED
    BY <2>1 DEF Link!Next
<1>3. CASE Stage2Fails
  <2>1. ~writeFd /\ pipe
    BY <1>3 DEF Stage2Fails, Step, Stage2Due, IInv, PipeInv, InitializedInv
  <2>2. Link!Initialize(FALSE)
    BY <1>3, <2>1 DEF Stage2Fails, Step, Stage2Due, processVars, Link!Initialize
  <2> QED
    BY <2>2 DEF Link!Next
<1>4. CASE Mourn \/ Kill
  <2>1. (alive \/ pipe) /\ ~alive' /\ ~pipe' /\ CloseLink
    BY <1>4 DEF Mourn, Kill, Step, Close, IInv, PipeInv, processVars
  <2>2. initialized' = FALSE /\ writeFd' = FALSE
    BY <2>1 DEF CloseLink, IInv, TypeOK, InitializedInv, linkVars
  <2>3. Link!Close
    BY <2>1, <2>2 DEF Link!Close
  <2> QED
    BY <2>3 DEF Link!Next
<1>5. CASE ~(Start \/ Stage2 \/ Stage2Fails \/ Mourn \/ Kill)
  BY <1>5, OthersAreStutters DEF Next, GdbStep, UserStep, InferiorStep
<1> QED
  BY <1>1, <1>2, <1>3, <1>4, <1>5

\* The rest of gdb may take the handshake for HsailLink: hsail is initialized at
\* most once for a process, while there is one, and is gone with it.
THEOREM HandshakeImplementsLink == Spec => LinkSpec
<1>1. Init => Link!Init
  BY DEF Init, Link!Init
<1>2. IInv /\ [Next]_vars => [Link!Next]_Link!vars
  BY LinkStep
<1> QED
  BY <1>1, <1>2, IInvHolds, PTL DEF Spec, LinkSpec, Link!Spec

-----------------------------------------------------------------------------
(* When no process ends in the middle of its handshake, no SIGALRM is lost. *)

\* The count and the pending SIGALRM are those the agent has raised; gdb has
\* opened a FIFO only for one that is counted; the flag of the second stage and
\* the reset of the count belong to a link that is initialized; and a process
\* whose end is not handled was initialized or had not begun.
OrderlyInv ==
  /\ alive \/ pipe => initialized \/ raised = count + (IF alarm THEN 1 ELSE 0)
  /\ readFd # 0 /\ ~initialized => count >= 1
  /\ stage2 \/ pc = "reset" => initialized
  /\ ~alive /\ pipe => initialized \/ raised = 0

\* The steps of gdb from an event to its event loop keep it.
LEMMA GdbKeepsOrder ==
  ASSUME IInv, IInv', OrderlyInv, Agent = "paced", Orderly,
         \/ Handle
         \/ WaitEvent
         \/ WaitNothing
         \/ \E open \in BOOLEAN : Stage1(open)
         \/ SkipStage1
         \/ EnterStage2
         \/ Stage2
         \/ Stage2Fails
         \/ SkipStage2
         \/ Reset
         \/ Flush
         \/ KeepGoing
         \/ StopForUser
  PROVE  OrderlyInv'
<1> USE MaxRunsAssumption, MaxAlarmsAssumption DEF IInv
<1>1. CASE Handle
  BY <1>1 DEF Handle, OrderlyInv, TypeOK, PipeInv, natVars, linkVars,
          processVars, agentVars
<1>2. CASE WaitEvent
  BY <1>2 DEF WaitEvent, Step, OrderlyInv, TypeOK, PipeInv, natVars, linkVars,
          processVars, agentVars
<1>3. CASE WaitNothing
  BY <1>3 DEF WaitNothing, Step, OrderlyInv, TypeOK, PipeInv, natVars,
          linkVars, processVars, agentVars
<1>4. CASE \E open \in BOOLEAN : Stage1(open)
  BY <1>4 DEF Stage1, Step, Stage1Due, OrderlyInv, TypeOK, PipeInv, natVars,
          linkVars, processVars, agentVars
<1>5. CASE SkipStage1
  BY <1>5 DEF SkipStage1, Step, Stage1Due, OrderlyInv, TypeOK, PipeInv,
          natVars, linkVars, processVars, agentVars
<1>6. CASE EnterStage2
  BY <1>6 DEF EnterStage2, Step, Stage2Due, OrderlyInv, TypeOK, PipeInv,
          natVars, linkVars, processVars, agentVars
<1>7. CASE Stage2
  BY <1>7 DEF Stage2, Step, OrderlyInv, TypeOK, PipeInv, natVars, linkVars,
          processVars, agentVars
<1>8. CASE Stage2Fails
  BY <1>8 DEF Stage2Fails, Step, Stage2Due, OrderlyInv, TypeOK, PipeInv,
          natVars, linkVars, processVars, agentVars
<1>9. CASE SkipStage2
  BY <1>9 DEF SkipStage2, Step, Stage2Due, OrderlyInv, TypeOK, PipeInv,
          natVars, linkVars, processVars, agentVars
<1>10. CASE Reset
  BY <1>10 DEF Reset, Step, OrderlyInv, TypeOK, PipeInv, natVars, linkVars,
          processVars, agentVars
<1>11. CASE Flush
  BY <1>11 DEF Flush, Step, OrderlyInv, TypeOK, PipeInv, natVars, linkVars,
          processVars, agentVars
<1>12. CASE KeepGoing
  BY <1>12 DEF KeepGoing, Step, OrderlyInv, TypeOK, PipeInv, natVars, linkVars,
          processVars, agentVars
<1>13. CASE StopForUser
  BY <1>13 DEF StopForUser, Step, OrderlyInv, TypeOK, PipeInv, natVars,
          linkVars, processVars, agentVars
<1> QED
  BY <1>1, <1>2, <1>3, <1>4, <1>5, <1>6, <1>7, <1>8, <1>9, <1>10, <1>11, <1>12,
     <1>13

\* The ends of a process keep it.
LEMMA EndKeepsOrder ==
  ASSUME IInv, IInv', OrderlyInv, Agent = "paced", Orderly,
         \/ Mourn
         \/ Kill
         \/ ProgramEnds
  PROVE  OrderlyInv'
<1> USE MaxRunsAssumption, MaxAlarmsAssumption DEF IInv
<1>1. CASE Mourn
  BY <1>1 DEF Mourn, Step, Close, CloseLink, OrderlyInv, TypeOK, Orderly,
          PipeInv, natVars, linkVars, processVars, agentVars
<1>2. CASE Kill
  BY <1>2 DEF Kill, Step, Close, CloseLink, OrderlyInv, TypeOK, Orderly,
          PipeInv, natVars, linkVars, processVars, agentVars
<1>3. CASE ProgramEnds
  BY <1>3 DEF ProgramEnds, OrderlyInv, TypeOK, Orderly, PipeInv, natVars,
          linkVars, processVars, agentVars
<1> QED
  BY <1>1, <1>2, <1>3

\* The other steps of the user and of the inferior keep it.
LEMMA ProgramKeepsOrder ==
  ASSUME IInv, IInv', OrderlyInv, Agent = "paced", Orderly,
         \/ Start
         \/ Continue
         \/ AgentLoads
         \/ AgentRaises
         \/ AgentStops
         \/ ProgramStops
  PROVE  OrderlyInv'
<1> USE MaxRunsAssumption, MaxAlarmsAssumption DEF IInv
<1>1. CASE Start
  BY <1>1 DEF Start, Step, OrderlyInv, TypeOK, PipeInv, FifoInv, CountInv,
          natVars, linkVars, processVars, agentVars
<1>2. CASE Continue
  BY <1>2 DEF Continue, Step, OrderlyInv, TypeOK, PipeInv, FifoInv, natVars,
          linkVars, processVars, agentVars
<1>3. CASE AgentLoads
  BY <1>3 DEF AgentLoads, OrderlyInv, TypeOK, PipeInv, FifoInv, natVars,
          linkVars, processVars, agentVars
<1>4. CASE AgentRaises
  BY <1>4 DEF AgentRaises, OrderlyInv, TypeOK, PipeInv, FifoInv, natVars,
          linkVars, processVars, agentVars
<1>5. CASE AgentStops
  BY <1>5 DEF AgentStops, OrderlyInv, TypeOK, PipeInv, FifoInv, natVars,
          linkVars, processVars, agentVars
<1>6. CASE ProgramStops
  BY <1>6 DEF ProgramStops, OrderlyInv, TypeOK, PipeInv, FifoInv, natVars,
          linkVars, processVars, agentVars
<1> QED
  BY <1>1, <1>2, <1>3, <1>4, <1>5, <1>6

\* One case for each group of actions.
LEMMA OrderlyStep ==
  ASSUME IInv, IInv', OrderlyInv, Agent = "paced", [Next /\ Orderly]_vars
  PROVE  OrderlyInv'
<1>1. CASE UNCHANGED vars
  BY <1>1 DEF OrderlyInv, vars, natVars, linkVars, processVars, agentVars
<1>2. CASE Next /\ Orderly
  BY <1>2, GdbKeepsOrder, EndKeepsOrder, ProgramKeepsOrder
     DEF Next, GdbStep, UserStep, InferiorStep
<1> QED
  BY <1>1, <1>2

\* Until hsail is initialized the count is that of the SIGALRMs of this process
\* (sighsail_handler, linux_nat_wait), although one that comes while the event
\* pipe is closed is dropped and two that come together are one.
THEOREM AlarmsAreCounted ==
  ASSUME Agent = "paced"
  PROVE  OrderlySpec => []AlarmsCounted
<1>1. OrderlySpec => Spec
  <2>1. [Next /\ Orderly]_vars => [Next]_vars
    OBVIOUS
  <2> QED
    BY <2>1, PTL DEF OrderlySpec, Spec
<1>2. Init => OrderlyInv
  BY DEF Init, OrderlyInv
<1>3. IInv /\ IInv' /\ OrderlyInv /\ [Next /\ Orderly]_vars => OrderlyInv'
  BY OrderlyStep
<1>4. OrderlyInv => AlarmsCounted
  BY DEF OrderlyInv, AlarmsCounted
<1> QED
  BY <1>1, <1>2, <1>3, <1>4, IInvHolds, PTL DEF OrderlySpec

=============================================================================
