------------------------ MODULE HsailDispatchProofs ------------------------
(***************************************************************************)
(* Theorems about HsailDispatch, for any number of lanes, processes,       *)
(* dispatches and unread notifications.                                    *)
(***************************************************************************)
EXTENDS HsailDispatch, TLAPS

-----------------------------------------------------------------------------
(* The inductive invariants. *)

\* A process and a dispatch that are there have a number.
Numbered ==
  /\ process # "none" => run >= 1
  /\ phase = "predispatch" => dispatch >= 1

\* hsail is initialized for a process, which takes with it what it has sent and
\* what it was asked.
GoneWithProcess ==
  process = "none" => ~initialized /\ fifo = <<>> /\ requests = {}

\* The binary is not available without its debug information.
DebugInfoOfBinary == available => dbginfo # 0

DispatchInv == TypeOK /\ Numbered /\ GoneWithProcess /\ DebugInfoOfBinary

CommandOf(quit) == IF quit THEN "quit" ELSE "kill"

\* The command of an unread answer, "none" of another notification.
CommandAnswered(message) ==
  IF message.type = "killComplete" THEN CommandOf(message.quit) ELSE "none"

\* A command that is called, asked of the agent, answered by it, or will not ask
\* again, was confirmed for this process.
DelayedIsConfirmed ==
  /\ killSkip => "kill" \in asked
  /\ quitSkip => "quit" \in asked
  /\ at \in {"kill", "quit"} => at \in asked
  /\ \A quit \in requests : CommandOf(quit) \in asked
  /\ \A i \in 1..Len(fifo) : CommandAnswered(fifo[i]) \in asked \cup {"none"}

\* The answers among the messages are to what the agent was asked.
AnswersRequests(messages) ==
  \A i \in 1..Len(messages) :
    messages[i].type = "killComplete" => messages[i].quit \in requests

\* While a process is not yet initialized, no device has the focus.
FocusNeedsLink == process # "none" /\ focusDevice => initialized

\* What a process that is started only after a clean end adds.
SessionInv == FocusNeedsLink /\ AssertionsHold

-----------------------------------------------------------------------------
(* Notifications. *)

\* What a notification carries.
LEMMA MessageFields ==
  ASSUME NEW m \in Messages
  PROVE  /\ m.type = "debugThread" => m.run \in 1..MaxRuns
         /\ m.type = "predispatch" => m.entered \in BOOLEAN
         /\ m.type = "newBinary" =>
              m.dispatch \in Dispatches /\ m.ok \in BOOLEAN
         /\ m.type = "focus" => m.item \in Items
         /\ m.type = "end" => m.completed \in BOOLEAN
         /\ m.type = "killComplete" =>
              m.quit \in BOOLEAN /\ m.success \in BOOLEAN
  BY DEF Messages

\* Reading takes a notification from the FIFO.
LEMMA Reading ==
  ASSUME fifo \in Seq(Messages), NEW type, Read(type)
  PROVE  /\ Head(fifo) \in Messages
         /\ Head(fifo) = fifo[1]
         /\ Len(fifo) \in Nat \ {0}
         /\ Tail(fifo) \in Seq(Messages)
         /\ Len(Tail(fifo)) = Len(fifo) - 1
         /\ \A i \in 1..Len(Tail(fifo)) : Tail(fifo)[i] = fifo[i + 1]
  BY DEF Read

\* The agent appends to the FIFO.
LEMMA Sending ==
  ASSUME fifo \in Seq(Messages), NEW messages \in Seq(Messages), Send(messages)
  PROVE  /\ fifo' \in Seq(Messages)
         /\ Len(fifo') = Len(fifo) + Len(messages)
         /\ \A i \in 1..Len(fifo) : fifo'[i] = fifo[i]
         /\ \A i \in 1..Len(messages) : fifo'[Len(fifo) + i] = messages[i]
  BY DEF Send

-----------------------------------------------------------------------------
(* The types. *)

\* Initially there is no process.
LEMMA InitDispatchInv == Init => DispatchInv
<1> SUFFICES ASSUME Init PROVE DispatchInv
  OBVIOUS
<1> USE DEF Init
<1>1. run \in 0..MaxRuns /\ dispatchThread \in 0..MaxRuns
  BY MaxRunsAssumption
<1>2. dbginfo \in 0..MaxDispatches /\ dispatch \in 0..MaxDispatches
  BY MaxDispatchesAssumption
<1>3. fifo \in Seq(Messages)
  OBVIOUS
<1>4. TypeOK
  BY <1>1, <1>2, <1>3 DEF TypeOK, Assertions
<1>5. QED
  BY <1>4 DEF DispatchInv, Numbered, GoneWithProcess, DebugInfoOfBinary

\* What the agent sends is a notification, and it moves nothing of gdb's.
LEMMA AgentKeepsDispatchInv ==
  ASSUME DispatchInv, AgentStep
  PROVE  /\ DispatchInv'
         /\ UNCHANGED <<at, item, viewVars, skipVars, processVars, asked>>
         /\ process = "running" /\ initialized
         /\ requests' \subseteq requests
         /\ \E messages \in Seq(Messages) :
              Send(messages) /\ AnswersRequests(messages)
<1> USE DEF DispatchInv, AnswersRequests, agentVars, viewVars, skipVars,
        processVars
<1>1. fifo \in Seq(Messages) /\ run \in 1..MaxRuns
  <2>1. process = "running"
    BY DEF AgentStep, StartDebugThread, EnterPredispatch, SendBinary, Begin,
       EndInCallback, LeavePredispatch, Hit, Complete, AnswerKill, Send
  <2>2. QED
    BY <2>1, MaxRunsAssumption DEF TypeOK, Numbered
<1> DEFINE Sent(messages) ==
      /\ messages \in Seq(Messages)
      /\ Send(messages)
      /\ dispatch' \in 0..MaxDispatches
      /\ phase' \in {"idle", "predispatch", "running", "killed"}
      /\ phase' = "predispatch" => dispatch' >= 1
      /\ {begun', binary', hit', debugThread'} \subseteq BOOLEAN
      /\ active' \subseteq Items
      /\ requests' \subseteq requests
      /\ AnswersRequests(messages)
<1>2. ASSUME NEW messages, Sent(messages)
      PROVE  /\ DispatchInv'
             /\ UNCHANGED <<at, item, viewVars, skipVars, processVars, asked>>
             /\ process = "running" /\ initialized
             /\ requests' \subseteq requests
             /\ \E sent \in Seq(Messages) : Send(sent) /\ AnswersRequests(sent)
  <2>1. fifo' \in Seq(Messages)
    BY <1>1, <1>2, Sending
  <2>2. /\ UNCHANGED <<at, item, viewVars, skipVars, processVars, asked>>
        /\ process = "running" /\ initialized
    BY <1>2 DEF Send
  <2>3. TypeOK'
    BY <1>2, <2>1, <2>2 DEF TypeOK
  <2>4. DispatchInv'
    BY <1>2, <2>2, <2>3 DEF Numbered, GoneWithProcess, DebugInfoOfBinary
  <2>5. QED
    BY <1>2, <2>2, <2>4
<1>3. CASE StartDebugThread
  <2>1. [type |-> "debugThread", run |-> run] \in Messages
    BY <1>1 DEF Messages
  <2>2. Sent(<<[type |-> "debugThread", run |-> run]>>)
    BY <1>3, <2>1 DEF StartDebugThread, TypeOK, Numbered
  <2>3. QED
    BY <1>2, <2>2
<1>4. CASE EnterPredispatch
  <2>1. [type |-> "predispatch", entered |-> TRUE] \in Messages
    BY DEF Messages
  <2>2. dispatch' \in 1..MaxDispatches
    BY <1>4, MaxDispatchesAssumption DEF EnterPredispatch, TypeOK
  <2>3. dispatch' \in 0..MaxDispatches /\ dispatch' >= 1
    BY <2>2, MaxDispatchesAssumption
  <2>4. Send(<<[type |-> "predispatch", entered |-> TRUE]>>)
    BY <1>4 DEF EnterPredispatch
  <2>5. /\ phase' \in {"idle", "predispatch", "running", "killed"}
        /\ {begun', binary', hit', debugThread'} \subseteq BOOLEAN
        /\ active' \subseteq Items
        /\ requests' \subseteq requests
    BY <1>4 DEF EnterPredispatch, TypeOK
  <2>6. Sent(<<[type |-> "predispatch", entered |-> TRUE]>>)
    BY <2>1, <2>3, <2>4, <2>5
  <2>7. QED
    BY <1>2, <2>6
<1>5. ASSUME NEW ok \in BOOLEAN, SendBinary(ok)
      PROVE  \E messages : Sent(messages)
  <2> DEFINE message ==
        [type |-> "newBinary", dispatch |-> dispatch, ok |-> ok]
  <2>1. dispatch \in Dispatches
    BY <1>5, MaxDispatchesAssumption
       DEF SendBinary, TypeOK, Numbered, Dispatches
  <2>2. message \in Messages
    BY <2>1 DEF Messages
  <2>3. Sent(<<message>>)
    BY <1>5, <2>2 DEF SendBinary, TypeOK, Numbered
  <2>4. QED
    BY <2>3
<1>6. ASSUME NEW i \in Items, Begin(i)
      PROVE  \E messages : Sent(messages)
  <2>1. /\ [type |-> "begin"] \in Messages
        /\ [type |-> "focus", item |-> i] \in Messages
    BY DEF Messages
  <2>2. Sent(<<[type |-> "begin"], [type |-> "focus", item |-> i]>>)
    BY <1>6, <2>1 DEF Begin, TypeOK, Numbered
  <2>3. QED
    BY <2>2
<1>7. ASSUME NEW completed \in BOOLEAN,
             Send(<<[type |-> "end", completed |-> completed]>>),
             phase' \in {phase, "idle"}, {begun', hit'} \subseteq BOOLEAN,
             UNCHANGED <<dispatch, binary, active, debugThread, requests>>
      PROVE  \E messages : Sent(messages)
  <2>1. [type |-> "end", completed |-> completed] \in Messages
    BY DEF Messages
  <2>2. Sent(<<[type |-> "end", completed |-> completed]>>)
    BY <1>7, <2>1 DEF TypeOK, Numbered
  <2>3. QED
    BY <2>2
<1>8. CASE EndInCallback \/ Complete
  <2>1. /\ phase' \in {phase, "idle"} /\ {begun', hit'} \subseteq BOOLEAN
        /\ UNCHANGED <<dispatch, binary, active, debugThread, requests>>
    BY <1>8 DEF EndInCallback, Complete, TypeOK
  <2>2. \E completed \in BOOLEAN :
          Send(<<[type |-> "end", completed |-> completed]>>)
    BY <1>8 DEF EndInCallback, Complete
  <2>3. QED
    BY <1>2, <1>7, <2>1, <2>2
<1>9. CASE LeavePredispatch
  <2>1. [type |-> "predispatch", entered |-> FALSE] \in Messages
    BY DEF Messages
  <2>2. Sent(<<[type |-> "predispatch", entered |-> FALSE]>>)
    BY <1>9, <2>1 DEF LeavePredispatch, TypeOK
  <2>3. QED
    BY <1>2, <2>2
<1>10. ASSUME NEW stopped \in SUBSET Items, NEW i \in Items, Hit(stopped, i)
      PROVE  \E messages : Sent(messages)
  <2>1. /\ [type |-> "hit"] \in Messages
        /\ [type |-> "focus", item |-> i] \in Messages
    BY DEF Messages
  <2>2. Sent(<<[type |-> "hit"], [type |-> "focus", item |-> i]>>)
    BY <1>10, <2>1 DEF Hit, TypeOK, Numbered
  <2>3. QED
    BY <2>2
<1>11. ASSUME NEW quit \in BOOLEAN, NEW success \in BOOLEAN,
              AnswerKill(quit, success)
       PROVE  \E messages : Sent(messages)
  <2> DEFINE message ==
        [type |-> "killComplete", quit |-> quit, success |-> success]
  <2>1. message \in Messages
    BY DEF Messages
  <2>2. Sent(<<message>>)
    BY <1>11, <2>1 DEF AnswerKill, TypeOK, Numbered
  <2>3. QED
    BY <2>2
<1>12. QED
  BY <1>2, <1>3, <1>4, <1>5, <1>6, <1>8, <1>9, <1>10, <1>11 DEF AgentStep

\* When the process goes, what it sent and was asked goes with it.
LEMMA ProcessGoneKeeps ==
  ASSUME DispatchInv, ProcessGone, UNCHANGED viewVars,
         {item', focus'} \subseteq Items \cup {Unknown},
         at' \in {"loop", "gone"} \cup {at},
         {killSkip', quitSkip'} \subseteq BOOLEAN,
         asked' \subseteq {"kill", "quit"}
  PROVE  DispatchInv'
<1> USE DEF DispatchInv, ProcessGone, CloseLink, viewVars
<1>1. fifo' \in Seq(Messages)
  OBVIOUS
<1>2. /\ {initialized', focusDevice', predispatch', waves', available',
          killSkip', quitSkip', begun', binary', hit', debugThread'}
            \subseteq BOOLEAN
      /\ active' \subseteq Items /\ requests' \subseteq BOOLEAN
  BY DEF TypeOK
<1>3. TypeOK'
  BY <1>1, <1>2 DEF TypeOK
<1>4. QED
  BY <1>3 DEF Numbered, GoneWithProcess, DebugInfoOfBinary

\* What gdb reads changes its view, within its types, or ends the process.
LEMMA EventKeepsDispatchInv ==
  ASSUME DispatchInv, HandleHsailEvent
  PROVE  DispatchInv'
<1> DEFINE m == Head(fifo)
           ViewTyped ==
             /\ {focusDevice', predispatch', waves', available'} \subseteq BOOLEAN
             /\ dbginfo' \in 0..MaxDispatches
             /\ available' => dbginfo' # 0
             /\ dispatchThread' \in 0..MaxRuns
             /\ focus' \in Items \cup {Unknown}
<1>1. ASSUME NEW type, ReadView(type), ViewTyped
      PROVE  DispatchInv'
  <2> USE DEF DispatchInv, skipVars, processVars, agentVars
  <2>1. Tail(fifo) \in Seq(Messages) /\ initialized
    BY <1>1, Reading DEF ReadView, Read, TypeOK
  <2>2. TypeOK'
    BY <1>1, <2>1 DEF ReadView, TypeOK
  <2>3. process # "none"
    BY <2>1 DEF GoneWithProcess
  <2>4. QED
    BY <1>1, <2>2, <2>3 DEF ReadView, Numbered, GoneWithProcess,
       DebugInfoOfBinary
<1>2. ASSUME NEW type, Read(type)
      PROVE  m \in Messages /\ m.type = type
  BY <1>2, Reading DEF Read, DispatchInv, TypeOK
<1> USE DEF DispatchInv, DebugInfoOfBinary
<1>3. CASE ReadNewBinary
  <2>1. m.dispatch \in Dispatches /\ m.ok \in BOOLEAN
    BY <1>2, <1>3, MessageFields DEF ReadNewBinary, ReadView
  <2>2. ViewTyped
    BY <1>3, <2>1, MaxDispatchesAssumption
       DEF ReadNewBinary, SetStatus, Dispatches, TypeOK
  <2>3. QED
    BY <1>1, <1>3, <2>2 DEF ReadNewBinary
<1>4. CASE ReadPredispatch
  <2>1. m.entered \in BOOLEAN
    BY <1>2, <1>4, MessageFields DEF ReadPredispatch, ReadView
  <2>2. ViewTyped
    BY <1>4, <2>1 DEF ReadPredispatch, TypeOK
  <2>3. QED
    BY <1>1, <1>4, <2>2 DEF ReadPredispatch
<1>5. CASE ReadDebugThread
  <2>1. m.run \in 0..MaxRuns
    BY <1>2, <1>5, MessageFields, MaxRunsAssumption
       DEF ReadDebugThread, ReadView
  <2>2. ViewTyped
    BY <1>5, <2>1 DEF ReadDebugThread, TypeOK
  <2>3. QED
    BY <1>1, <1>5, <2>2 DEF ReadDebugThread
<1>6. CASE ReadHit
  BY <1>1, <1>6 DEF ReadHit, TypeOK
<1>7. CASE ReadBegin
  BY <1>1, <1>7 DEF ReadBegin, ClearWaves, TypeOK
<1>8. CASE ReadEnd
  <2>1. m.completed \in BOOLEAN
    BY <1>2, <1>8, MessageFields DEF ReadEnd, ReadView
  <2>2. /\ available' \in BOOLEAN /\ dbginfo' \in 0..MaxDispatches
        /\ available' => dbginfo' # 0
    <3>1. CASE m.completed
      <4>1. SetStatus(FALSE, 0)
        BY <1>8, <3>1, Zenon DEF ReadEnd, StatusAtEnd
      <4>2. available' = FALSE
        BY <4>1 DEF SetStatus
      <4>3. dbginfo' = 0
        BY <4>1 DEF SetStatus
      <4>4. dbginfo' \in 0..MaxDispatches
        BY <4>3, MaxDispatchesAssumption
      <4>5. QED
        BY <4>2, <4>4
    <3>2. CASE ~m.completed
      BY <1>8, <3>2 DEF ReadEnd, StatusAtEnd, TypeOK
    <3>3. QED
      BY <3>1, <3>2
  <2>3. ViewTyped
    BY <1>8, <2>2 DEF ReadEnd, ClearWaves, ClearFocus, TypeOK
  <2>4. QED
    BY <1>1, <1>8, <2>3 DEF ReadEnd
<1>9. CASE ReadFocus
  <2>1. m.item \in Items
    BY <1>2, <1>9, MessageFields DEF ReadFocus, ReadView
  <2>2. ViewTyped
    BY <1>9, <2>1 DEF ReadFocus, TypeOK
  <2>3. QED
    BY <1>1, <1>9, <2>2 DEF ReadFocus
<1>10. CASE ReadKillComplete
  <2>1. /\ at' \in {"loop", "gone"}
        /\ {killSkip', quitSkip'} \subseteq BOOLEAN
        /\ ProcessGone /\ UNCHANGED <<item, viewVars, asked>>
    BY <1>10 DEF ReadKillComplete, Read, TypeOK
  <2>2. QED
    BY <2>1, ProcessGoneKeeps DEF viewVars, TypeOK
<1>11. CASE ReadKillFailed
  BY <1>1, <1>11 DEF ReadKillFailed, viewVars, TypeOK
<1>12. QED
  BY <1>3, <1>4, <1>5, <1>6, <1>7, <1>8, <1>9, <1>10, <1>11
     DEF HandleHsailEvent

\* A command, an end or an event of the process keeps the types.
LEMMA OtherKeepsDispatchInv ==
  ASSUME DispatchInv,
         UserStep \/ Initialize \/ Stop \/ ProcessEnds \/ HandleEnd
           \/ CallReturns \/ CallFails
  PROVE  DispatchInv'
<1> USE DEF DispatchInv, viewVars, skipVars, agentVars
<1>1. ASSUME UNCHANGED <<viewVars, skipVars, fifo, agentVars>>,
             at' \in {at, "loop", "thread", "kill", "quit"} \cup Assertions,
             process' \in {process, "running", "stopped", "dead"},
             process' # "none" => run' >= 1,
             run' \in 0..MaxRuns, initialized' \in BOOLEAN,
             initialized' => process' # "none",
             item' \in Items \cup {Unknown},
             asked' \subseteq {"kill", "quit"},
             requests' \subseteq BOOLEAN,
             process' = "none" => requests' = requests
      PROVE  DispatchInv'
  <2>1. TypeOK'
    BY <1>1 DEF TypeOK
  <2>2. process' = "none" => process = "none"
    BY <1>1
  <2>3. QED
    BY <1>1, <2>1, <2>2 DEF Numbered, GoneWithProcess, DebugInfoOfBinary
<1>2. CASE Start
  <2>1. run + 1 \in 0..MaxRuns /\ run + 1 >= 1
    BY <1>2, MaxRunsAssumption DEF Start, TypeOK
  <2>2. QED
    BY <1>1, <1>2, <2>1 DEF Start, TypeOK, GoneWithProcess
<1>3. ASSUME NEW assertion \in Assertions \cup {"loop"}, Prompt,
             ResumeOrFail(assertion)
      PROVE  DispatchInv'
  BY <1>1, <1>3 DEF Prompt, ResumeOrFail, TypeOK, Numbered
<1>4. CASE Continue
  BY <1>3, <1>4 DEF Continue, Assertions
<1>5. ASSUME NEW stepType \in {"in", "out"}, NEW onDebugThread \in BOOLEAN,
             Step(stepType, onDebugThread)
      PROVE  DispatchInv'
  BY <1>3, <1>5 DEF Step, StepAssertion, Assertions
<1>6. ASSUME NEW command \in {"thread", "kill", "quit"}, CallAgent(command),
             process = "stopped",
             item' \in Items \cup {Unknown},
             asked' \subseteq {"kill", "quit"}, requests' \subseteq BOOLEAN
      PROVE  DispatchInv'
  BY <1>1, <1>6 DEF CallAgent, TypeOK, Numbered
<1>7. ASSUME NEW i \in Items, ThreadCommand(i)
      PROVE  DispatchInv'
  BY <1>6, <1>7 DEF ThreadCommand, Prompt, TypeOK
<1>8. CASE Kill
  <2>1. asked' \subseteq {"kill", "quit"} /\ UNCHANGED item /\ Prompt
    BY <1>8 DEF Kill, TypeOK
  <2>2. CASE KillIsDelayed
    BY <1>6, <1>8, <2>1, <2>2 DEF Kill, Prompt, TypeOK
  <2>3. CASE ~KillIsDelayed
    BY <1>8, <2>1, <2>3, ProcessGoneKeeps DEF Kill, TypeOK
  <2>4. QED
    BY <2>2, <2>3
<1>9. CASE Quit
  <2>1. asked' \subseteq {"kill", "quit"} /\ UNCHANGED item
    BY <1>9 DEF Quit, TypeOK
  <2>2. CASE KillIsDelayed
    <3>1. process = "stopped"
      BY <1>9, <2>2 DEF Quit, KillIsDelayed, GoneWithProcess
    <3>2. QED
      BY <1>6, <1>9, <2>1, <2>2, <3>1 DEF Quit, TypeOK
  <2>3. CASE ~KillIsDelayed
    BY <1>9, <2>1, <2>3, ProcessGoneKeeps DEF Quit, TypeOK
  <2>4. QED
    BY <2>2, <2>3
<1>10. CASE Initialize \/ Stop \/ ProcessEnds \/ CallFails
  BY <1>1, <1>10 DEF Initialize, Stop, ProcessEnds, CallFails, TypeOK, Numbered
<1>11. CASE HandleEnd
  BY <1>11, ProcessGoneKeeps DEF HandleEnd, TypeOK
<1>12. CASE CallReturns
  <2>1. /\ focus' \in Items \cup {Unknown}
        /\ {killSkip', quitSkip'} \subseteq BOOLEAN
    BY <1>12 DEF CallReturns, SkipConfirmation, TypeOK
  <2>2. TypeOK'
    BY <1>12, <2>1 DEF CallReturns, TypeOK
  <2>3. QED
    BY <1>12, <2>2 DEF CallReturns, Numbered, GoneWithProcess,
       DebugInfoOfBinary
<1>13. QED
  BY <1>2, <1>4, <1>5, <1>7, <1>8, <1>9, <1>10, <1>11, <1>12 DEF UserStep

\* Every step keeps the invariant.
LEMMA DispatchInvKept == DispatchInv /\ [Next]_vars => DispatchInv'
<1> SUFFICES ASSUME DispatchInv, [Next]_vars PROVE DispatchInv'
  OBVIOUS
<1>1. CASE UNCHANGED vars
  BY <1>1 DEF vars, viewVars, skipVars, processVars, agentVars, DispatchInv,
     TypeOK, Numbered, GoneWithProcess, DebugInfoOfBinary
<1>2. QED
  BY <1>1, AgentKeepsDispatchInv, EventKeepsDispatchInv, OtherKeepsDispatchInv
     DEF Next

LEMMA DispatchInvariant == Spec => []DispatchInv
  BY InitDispatchInv, DispatchInvKept, PTL DEF Spec

\* Every variable keeps to its type: no notification that gdb reads, and no
\* command, brings a value that the code does not expect.
THEOREM DispatchTypeCorrect == Spec => []TypeOK
<1>1. DispatchInv => TypeOK
  BY DEF DispatchInv
<1>2. QED
  BY <1>1, DispatchInvariant, PTL

-----------------------------------------------------------------------------
(* The link, and the answer to a kill. *)

\* Notifications, commands and ends use the link as HsailLink promises it: it
\* is initialized at most once for a process and is gone with it.
THEOREM DispatchLinkImplemented == Spec => LinkSpec
<1> USE DEF viewVars, skipVars, processVars, agentVars
<1>1. Init => Link!Init
  BY DEF Init, Link!Init
<1>2. DispatchInv /\ [Next]_vars => [Link!Next]_(Link!vars)
  <2> SUFFICES ASSUME DispatchInv, [Next]_vars
               PROVE  Link!Next \/ UNCHANGED Link!vars
    OBVIOUS
  <2> USE DEF Link!vars, Link!Next
  <2>1. CASE ProcessGone /\ process # "none"
    BY <2>1 DEF ProcessGone, CloseLink, Link!Close
  <2>2. CASE ProcessGone /\ process = "none"
    BY <2>2 DEF ProcessGone, CloseLink, DispatchInv, TypeOK, GoneWithProcess
  <2>3. CASE Start
    BY <2>3 DEF Start, Link!Start
  <2>4. CASE Initialize
    BY <2>4 DEF Initialize, Link!Initialize
  <2>5. CASE UNCHANGED processVars
    BY <2>5
  <2>6. CASE AgentStep
    BY <2>5, <2>6, AgentKeepsDispatchInv
  <2>7. CASE HandleHsailEvent
    BY <2>1, <2>2, <2>5, <2>7 DEF HandleHsailEvent, ReadView, ReadNewBinary,
       ReadPredispatch, ReadDebugThread, ReadHit, ReadBegin, ReadEnd,
       ReadFocus, ReadKillComplete, ReadKillFailed
  <2>8. CASE Continue \/ \E stepType \in {"in", "out"}, debug \in BOOLEAN :
                           Step(stepType, debug)
    <3>1. Prompt /\ \E assertion : ResumeOrFail(assertion)
      BY <2>8 DEF Continue, Step
    <3>2. process = "stopped" /\ process' # "none" /\ UNCHANGED initialized
      BY <3>1 DEF Prompt, ResumeOrFail
    <3>3. QED
      BY <3>2
  <2>9. ASSUME NEW command, CallAgent(command), process # "none"
        PROVE  UNCHANGED Link!vars
    BY <2>9 DEF CallAgent
  <2>10. ASSUME NEW i \in Items, ThreadCommand(i)
         PROVE  UNCHANGED Link!vars
    BY <2>9, <2>10 DEF ThreadCommand, Prompt
  <2>11. CASE Kill
    BY <2>1, <2>9, <2>11 DEF Kill, Prompt
  <2>12. CASE Quit
    BY <2>1, <2>2, <2>9, <2>12 DEF Quit, KillIsDelayed, DispatchInv,
       GoneWithProcess
  <2>13. CASE Stop \/ ProcessEnds \/ CallReturns \/ CallFails
    BY <2>13 DEF Stop, ProcessEnds, CallReturns, CallFails
  <2>14. CASE HandleEnd
    BY <2>1, <2>14 DEF HandleEnd
  <2>15. QED
    BY <2>3, <2>4, <2>5, <2>6, <2>7, <2>8, <2>10, <2>11, <2>12, <2>13, <2>14
       DEF Next, UserStep, vars
<1>3. QED
  BY <1>1, <1>2, DispatchInvariant, PTL DEF Spec, LinkSpec, Link!Spec

\* The answer that the waves are killed ends the process: no notification,
\* command or error takes it from the FIFO otherwise.
THEOREM KillAlwaysCompletes == Spec => KillCompletes
<1>1. DispatchInv /\ [Next]_vars =>
        [WavesKilled => WavesKilled' \/ process' = "none"]_vars
  <2> SUFFICES ASSUME DispatchInv, [Next]_vars, WavesKilled
               PROVE  WavesKilled' \/ process' = "none"
    OBVIOUS
  <2> USE DEF viewVars, skipVars, processVars, agentVars
  <2>1. fifo \in Seq(Messages)
    BY DEF DispatchInv, TypeOK
  <2>2. PICK i \in 1..Len(fifo) :
          fifo[i].type = "killComplete" /\ fifo[i].success
    BY <2>1 DEF WavesKilled
  <2>3. CASE UNCHANGED fifo
    BY <2>3 DEF WavesKilled
  <2>4. CASE ProcessGone
    BY <2>4 DEF ProcessGone
  <2>5. CASE AgentStep
    <3>1. PICK messages : Send(messages) /\ messages \in Seq(Messages)
      BY <2>5, AgentKeepsDispatchInv
    <3>2. i \in DOMAIN fifo' /\ fifo'[i] = fifo[i]
      BY <2>1, <2>2, <3>1, Sending
    <3>3. QED
      BY <2>2, <3>2 DEF WavesKilled
  <2>6. ASSUME NEW type, ReadView(type),
               type # "killComplete" \/ ~Head(fifo).success
        PROVE  WavesKilled'
    <3>1. i # 1
      BY <2>1, <2>2, <2>6, Reading DEF ReadView, Read
    <3>2. i - 1 \in DOMAIN fifo' /\ fifo'[i - 1] = fifo[i]
      BY <2>1, <2>2, <2>6, <3>1, Reading DEF ReadView
    <3>3. QED
      BY <2>2, <3>2 DEF WavesKilled
  <2>7. CASE HandleHsailEvent
    BY <2>4, <2>6, <2>7 DEF HandleHsailEvent, ReadNewBinary, ReadPredispatch,
       ReadDebugThread, ReadHit, ReadBegin, ReadEnd, ReadFocus,
       ReadKillComplete, ReadKillFailed
  <2>8. CASE UserStep
    BY <2>3, <2>4, <2>8 DEF UserStep, Start, Continue, Step, ResumeOrFail,
       ThreadCommand, Kill, Quit, CallAgent
  <2>9. CASE HandleEnd
    BY <2>4, <2>9 DEF HandleEnd
  <2>10. CASE Initialize \/ Stop \/ ProcessEnds \/ CallReturns \/ CallFails
    BY <2>3, <2>10 DEF Initialize, Stop, ProcessEnds, CallReturns, CallFails
  <2>11. CASE UNCHANGED vars
    BY <2>3, <2>11 DEF vars
  <2>12. QED
    BY <2>5, <2>7, <2>8, <2>9, <2>10, <2>11 DEF Next
<1>2. QED
  BY <1>1, DispatchInvariant, PTL DEF Spec, KillCompletes

-----------------------------------------------------------------------------
(* Assertions and confirmations, if a process is started after a clean end. *)

\* A process that starts finds nothing of an earlier one; later the device gets
\* the focus only by a notification, so hsail is initialized.
LEMMA SessionInvKept ==
  ASSUME Restart = "clean"
  PROVE  DispatchInv /\ SessionInv /\ [Next]_vars => SessionInv'
<1> SUFFICES ASSUME DispatchInv, SessionInv, [Next]_vars PROVE SessionInv'
  OBVIOUS
<1> USE DEF SessionInv, FocusNeedsLink, AssertionsHold, viewVars, skipVars,
        processVars, agentVars
<1>1. ASSUME ProcessGone, at' \in {at, "loop", "gone"}
      PROVE  SessionInv'
  BY <1>1 DEF ProcessGone, Assertions
<1>2. ASSUME UNCHANGED <<focusDevice, initialized>>,
             process' = "none" \/ process # "none",
             at' \in {at, "loop", "thread", "kill", "quit", "addressAssert"}
      PROVE  SessionInv'
  BY <1>2 DEF Assertions
<1>3. CASE AgentStep
  BY <1>2, <1>3, AgentKeepsDispatchInv
<1>4. CASE HandleHsailEvent
  <2>1. ASSUME NEW type, ReadView(type)
        PROVE  SessionInv'
    BY <2>1 DEF ReadView, Read
  <2>2. QED
    BY <1>1, <1>4, <2>1 DEF HandleHsailEvent, ReadNewBinary, ReadPredispatch,
       ReadDebugThread, ReadHit, ReadBegin, ReadEnd, ReadFocus,
       ReadKillComplete, ReadKillFailed
<1>5. CASE Start
  BY <1>5 DEF Start, Clean, Assertions
<1>6. CASE Initialize
  BY <1>6 DEF Initialize, DispatchInv, TypeOK
<1>7. CASE Continue
  <2>1. ~ContinueFails
    BY <1>7 DEF Continue, Prompt, ContinueFails
  <2>2. QED
    BY <1>2, <1>7, <2>1 DEF Continue, Prompt, ResumeOrFail
<1>8. ASSUME NEW stepType \in {"in", "out"}, NEW onDebugThread \in BOOLEAN,
             Step(stepType, onDebugThread)
      PROVE  SessionInv'
  <2>1. CASE IsHsailStep(onDebugThread)
    <3>1. initialized /\ dbginfo # 0
      BY <1>8, <2>1 DEF Step, Prompt, IsHsailStep, DispatchInv,
         DebugInfoOfBinary
    <3>2. StepAssertion(stepType) \in {"loop", "addressAssert"}
      BY <3>1 DEF StepAssertion
    <3>3. QED
      BY <1>2, <1>8, <2>1, <3>2 DEF Step, Prompt, ResumeOrFail
  <2>2. CASE ~IsHsailStep(onDebugThread)
    BY <1>2, <1>8, <2>2 DEF Step, Prompt, ResumeOrFail
  <2>3. QED
    BY <2>1, <2>2
<1>9. ASSUME NEW command \in {"thread", "kill", "quit"}, CallAgent(command),
             process # "none"
      PROVE  SessionInv'
  BY <1>2, <1>9 DEF CallAgent
<1>10. ASSUME NEW i \in Items, ThreadCommand(i)
       PROVE  SessionInv'
  BY <1>9, <1>10 DEF ThreadCommand, Prompt
<1>11. CASE Kill
  BY <1>1, <1>9, <1>11 DEF Kill, Prompt
<1>12. CASE Quit
  BY <1>1, <1>9, <1>12 DEF Quit, KillIsDelayed, DispatchInv, GoneWithProcess
<1>13. CASE Stop \/ ProcessEnds \/ CallReturns \/ CallFails
  BY <1>2, <1>13 DEF Stop, ProcessEnds, CallReturns, CallFails
<1>14. CASE HandleEnd
  BY <1>1, <1>14 DEF HandleEnd
<1>15. CASE UNCHANGED vars
  BY <1>15 DEF vars
<1>16. QED
  BY <1>3, <1>4, <1>5, <1>6, <1>7, <1>8, <1>10, <1>11, <1>12, <1>13, <1>14,
     <1>15 DEF Next, UserStep

\* If each process is started after gdb read the end of the last dispatch, no
\* continue, step or finish meets an assertion of hsail-infcmd.c that the
\* device's focus is without the link or a step without debug information.
THEOREM AssertionsAlwaysHold ==
  ASSUME Restart = "clean" PROVE Spec => []AssertionsHold
<1>1. Init => SessionInv
  BY DEF Init, SessionInv, FocusNeedsLink, AssertionsHold, Assertions
<1>2. SessionInv => AssertionsHold
  BY DEF SessionInv
<1>3. QED
  BY <1>1, <1>2, DispatchInvariant, SessionInvKept, PTL DEF Spec

\* What is delayed was confirmed for this process: a start forgets what was
\* confirmed for an earlier one, and finds nothing delayed.
LEMMA ConfirmedKept ==
  ASSUME Restart = "clean"
  PROVE  DispatchInv /\ DelayedIsConfirmed /\ [Next]_vars =>
           DelayedIsConfirmed'
<1> SUFFICES ASSUME DispatchInv, DelayedIsConfirmed, [Next]_vars
             PROVE  DelayedIsConfirmed'
  OBVIOUS
<1> USE DEF viewVars, skipVars, processVars, agentVars
<1>1. fifo \in Seq(Messages) /\ requests \subseteq BOOLEAN
  BY DEF DispatchInv, TypeOK
<1>2. ASSUME UNCHANGED <<skipVars, asked, at>>, requests' \subseteq requests,
             \A i \in 1..Len(fifo') :
               CommandAnswered(fifo'[i]) \in asked \cup {"none"}
      PROVE  DelayedIsConfirmed'
  BY <1>2 DEF DelayedIsConfirmed
<1>3. ASSUME ProcessGone, asked \subseteq asked', at' \in {"loop", "gone"},
             killSkip' => killSkip, quitSkip' => quitSkip
      PROVE  DelayedIsConfirmed'
  BY <1>3 DEF ProcessGone, DelayedIsConfirmed
<1>4. ASSUME UNCHANGED <<skipVars, asked, fifo, requests>>,
             at' \in {at, "loop", "thread"} \cup Assertions
      PROVE  DelayedIsConfirmed'
  BY <1>4 DEF DelayedIsConfirmed, Assertions
<1>5. CASE AgentStep
  <2>1. UNCHANGED <<at, skipVars, asked>> /\ requests' \subseteq requests
    BY <1>5, AgentKeepsDispatchInv
  <2>2. PICK messages \in Seq(Messages) :
          Send(messages) /\ AnswersRequests(messages)
    BY <1>5, AgentKeepsDispatchInv
  <2>3. \A i \in 1..Len(messages) :
          CommandAnswered(messages[i]) \in asked \cup {"none"}
    BY <2>2 DEF DelayedIsConfirmed, CommandAnswered, AnswersRequests
  <2>4. ASSUME NEW i \in 1..Len(fifo')
        PROVE  CommandAnswered(fifo'[i]) \in asked \cup {"none"}
    <3>1. CASE i \in 1..Len(fifo)
      BY <1>1, <2>2, <3>1, Sending DEF DelayedIsConfirmed
    <3>2. CASE i \notin 1..Len(fifo)
      <4>1. i - Len(fifo) \in 1..Len(messages)
        BY <1>1, <2>2, <3>2, Sending
      <4>2. fifo'[i] = messages[i - Len(fifo)]
        BY <1>1, <2>2, <4>1, Sending
      <4>3. QED
        BY <2>3, <4>1, <4>2
    <3>3. QED
      BY <3>1, <3>2
  <2>5. QED
    BY <1>2, <2>1, <2>4
<1>6. ASSUME NEW type, ReadView(type)
      PROVE  DelayedIsConfirmed'
  <2>1. ASSUME NEW i \in 1..Len(fifo')
        PROVE  CommandAnswered(fifo'[i]) \in asked \cup {"none"}
    BY <1>1, <1>6, <2>1, Reading DEF ReadView, DelayedIsConfirmed
  <2>2. QED
    BY <1>2, <1>6, <2>1 DEF ReadView
<1>7. CASE HandleHsailEvent
  <2>1. CASE ReadKillComplete
    BY <1>3, <2>1 DEF ReadKillComplete, Read
  <2>2. QED
    BY <1>6, <1>7, <2>1 DEF HandleHsailEvent, ReadNewBinary, ReadPredispatch,
       ReadDebugThread, ReadHit, ReadBegin, ReadEnd, ReadFocus, ReadKillFailed
<1>8. CASE Start
  BY <1>8 DEF Start, Clean, DispatchInv, GoneWithProcess, DelayedIsConfirmed
<1>9. CASE Initialize \/ Stop \/ ProcessEnds \/ CallFails
  BY <1>4, <1>9 DEF Initialize, Stop, ProcessEnds, CallFails
<1>10. ASSUME NEW assertion \in Assertions \cup {"loop"},
              ResumeOrFail(assertion)
       PROVE  DelayedIsConfirmed'
  BY <1>4, <1>10 DEF ResumeOrFail
<1>11. CASE Continue
  BY <1>10, <1>11 DEF Continue, Assertions
<1>12. ASSUME NEW stepType \in {"in", "out"}, NEW onDebugThread \in BOOLEAN,
              Step(stepType, onDebugThread)
       PROVE  DelayedIsConfirmed'
  BY <1>10, <1>12 DEF Step, StepAssertion, Assertions
<1>13. ASSUME NEW i \in Items, ThreadCommand(i)
       PROVE  DelayedIsConfirmed'
  BY <1>4, <1>13 DEF ThreadCommand, CallAgent
<1>14. ASSUME NEW quit \in BOOLEAN, CallAgent(CommandOf(quit)),
              asked \subseteq asked', CommandOf(quit) \in asked',
              requests' = requests \cup {quit}
       PROVE  DelayedIsConfirmed'
  BY <1>14 DEF CallAgent, DelayedIsConfirmed, CommandOf
<1>15. CASE Kill
  <2>1. asked \subseteq asked' /\ "kill" \in asked' /\ at = "loop"
    BY <1>15 DEF Kill, Prompt, DelayedIsConfirmed
  <2>2. CASE KillIsDelayed
    BY <1>14, <1>15, <2>1, <2>2 DEF Kill, CommandOf
  <2>3. CASE ~KillIsDelayed
    BY <1>3, <1>15, <2>1, <2>3 DEF Kill
  <2>4. QED
    BY <2>2, <2>3
<1>16. CASE Quit
  <2>1. asked \subseteq asked' /\ "quit" \in asked'
    BY <1>16 DEF Quit, DelayedIsConfirmed
  <2>2. CASE KillIsDelayed
    BY <1>14, <1>16, <2>1, <2>2 DEF Quit, CommandOf
  <2>3. CASE ~KillIsDelayed
    BY <1>3, <1>16, <2>1, <2>3 DEF Quit
  <2>4. QED
    BY <2>2, <2>3
<1>17. CASE HandleEnd
  BY <1>3, <1>17 DEF HandleEnd
<1>18. CASE CallReturns
  BY <1>18 DEF CallReturns, SkipConfirmation, DelayedIsConfirmed
<1>19. CASE UNCHANGED vars
  BY <1>4, <1>19 DEF vars
<1>20. QED
  BY <1>5, <1>7, <1>8, <1>9, <1>11, <1>12, <1>13, <1>15, <1>16, <1>17, <1>18,
     <1>19 DEF Next, UserStep

\* A process that lives is not killed, and gdb not left with it, unless the
\* user was asked about it, however often the kill or quit is delayed.
THEOREM KillsConfirmed ==
  ASSUME Restart = "clean" PROVE Spec => KillIsConfirmed
<1>1. Init => DelayedIsConfirmed
  BY DEF Init, DelayedIsConfirmed
<1>2. DispatchInv /\ DelayedIsConfirmed /\ [Next]_vars =>
        [(process \in {"running", "stopped"} /\ process' = "none") =>
           (IF at' = "gone" THEN "quit" ELSE "kill") \in asked']_vars
  <2> SUFFICES ASSUME DispatchInv, DelayedIsConfirmed, [Next]_vars,
                      process \in {"running", "stopped"}, process' = "none"
               PROVE  (IF at' = "gone" THEN "quit" ELSE "kill") \in asked'
    OBVIOUS
  <2> USE DEF viewVars, skipVars, processVars, agentVars
  <2>1. CASE ReadKillComplete
    <3>1. /\ Head(fifo) = fifo[1] /\ 1 \in 1..Len(fifo)
          /\ Head(fifo).quit \in BOOLEAN
      BY <2>1, Reading, MessageFields
         DEF ReadKillComplete, Read, DispatchInv, TypeOK
    <3>2. CommandOf(Head(fifo).quit) \in asked
      BY <2>1, <3>1 DEF ReadKillComplete, Read, DelayedIsConfirmed,
         CommandAnswered, CommandOf
    <3>3. QED
      BY <2>1, <3>1, <3>2 DEF ReadKillComplete, Read, CommandOf
  <2>2. CASE Kill
    BY <2>2 DEF Kill, Prompt, CallAgent, DelayedIsConfirmed
  <2>3. CASE Quit
    BY <2>3 DEF Quit, CallAgent, DelayedIsConfirmed
  <2>4. CASE AgentStep
    BY <2>4, AgentKeepsDispatchInv
  <2>5. CASE HandleHsailEvent /\ ~ReadKillComplete
    BY <2>5 DEF HandleHsailEvent, ReadView, ReadNewBinary, ReadPredispatch,
       ReadDebugThread, ReadHit, ReadBegin, ReadEnd, ReadFocus, ReadKillFailed
  <2>6. CASE UserStep /\ ~Kill /\ ~Quit
    BY <2>6 DEF UserStep, Start, Continue, Step, ResumeOrFail, ThreadCommand,
       CallAgent, Prompt
  <2>7. CASE Initialize \/ Stop \/ ProcessEnds \/ HandleEnd \/ CallReturns
               \/ CallFails \/ UNCHANGED vars
    BY <2>7 DEF Initialize, Stop, ProcessEnds, HandleEnd, CallReturns,
       CallFails, vars
  <2>8. QED
    BY <2>1, <2>2, <2>3, <2>4, <2>5, <2>6, <2>7 DEF Next
<1>3. QED
  BY <1>1, <1>2, DispatchInvariant, ConfirmedKept, PTL
     DEF Spec, KillIsConfirmed

=============================================================================
