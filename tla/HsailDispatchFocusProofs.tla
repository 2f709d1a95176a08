---------------------- MODULE HsailDispatchFocusProofs ----------------------
(***************************************************************************)
(* The focus, once gdb has read all that the agent sent, is on an active   *)
(* work-item: a theorem about HsailDispatch for any number of lanes,       *)
(* processes, dispatches and unread notifications, if a process is started *)
(* only after a clean end.                                                 *)
(*                                                                         *)
(* A focus is validated with the wave buffer as it is when gdb reads it or *)
(* the user asks for it, so a later stop of waves may make it stale, also  *)
(* while "hsail thread" calls the agent.  But that stop sends a focus of   *)
(* its own: either it is unread, and will pass the validation, or it was   *)
(* read and all that moved the focus since was validated with the same     *)
(* buffer.                                                                 *)
(***************************************************************************)
EXTENDS HsailDispatchViewProofs

-----------------------------------------------------------------------------
(* The inductive invariant. *)

\* That waves have stopped, before the first n notifications of f are read.
WavesBefore(f, n) == After(f, n, Hits, Begins \cup Ends, waves)

\* The agent sends a focus only while it debugs.
FocusWhileDebugged(f) ==
  \A i \in 1..Len(f) : f[i].type = "focus" => WillDebug(f, i - 1)

\* Nothing after the first n moves the focus.
NoFocusAfter(f, n) ==
  \A k \in n + 1..Len(f) : f[k].type \notin {"focus", "end"}

\* The last focus is unread, and is on a work-item of s with waves stopped.
FocusPending(f, s) ==
  \E i \in 1..Len(f) :
    /\ f[i].type = "focus"
    /\ f[i].item \in s
    /\ WavesBefore(f, i - 1)
    /\ NoFocusAfter(f, i)

\* It was read, and the user moves it within s.
FocusTaken(f, s) ==
  /\ focus \in s
  /\ at = "thread" => item \in s
  /\ NoFocusAfter(f, 0)

\* No lane before an active one is inactive.
Contiguous(s) == \A i \in s : 1..i \subseteq s

FocusInv ==
  /\ ~focusDevice => focus = Unknown
  /\ at = "thread" => focusDevice
  /\ FocusWhileDebugged(fifo)
  /\ hit /\ Contiguous(active) =>
       FocusPending(fifo, active) \/ FocusTaken(fifo, active)

\* What it depends on.
LEMMA FocusInvUnchanged ==
  ASSUME UNCHANGED <<focusDevice, waves, focus>>,
         ~focusDevice => focus = Unknown,
         at' = "thread" => focusDevice,
         FocusWhileDebugged(fifo'),
         hit' /\ Contiguous(active') =>
           \/ FocusPending(fifo', active')
           \/ /\ focus \in active'
              /\ at' = "thread" => item' \in active'
              /\ NoFocusAfter(fifo', 0)
  PROVE  FocusInv'
  BY DEF FocusInv, FocusWhileDebugged, WillDebug, FocusPending, WavesBefore,
     FocusTaken, NoFocusAfter, Contiguous

-----------------------------------------------------------------------------
(* Sending. *)

\* What one more notification changes.
LEMMA AppendedFocus ==
  ASSUME TypeOK, NEW f \in Seq(Messages), NEW m \in Messages,
         NEW g, g = Append(f, m), NEW s
  PROVE  /\ FocusWhileDebugged(f) /\ (m.type = "focus" => WillDebug(f, Len(f)))
              => FocusWhileDebugged(g)
         /\ m.type \notin {"focus", "end"} =>
              /\ FocusPending(f, s) => FocusPending(g, s)
              /\ FocusTaken(f, s) => FocusTaken(g, s)
         /\ m.type = "focus" /\ m.item \in s /\ WillHaveWaves(f) =>
              FocusPending(g, s)
<1>1. /\ g \in Seq(Messages) /\ Len(g) = Len(f) + 1 /\ Len(f) \in Nat
      /\ g[Len(f) + 1] = m /\ \A i \in 1..Len(f) : g[i] = f[i]
  OBVIOUS
<1>2. focusDevice \in BOOLEAN /\ waves \in BOOLEAN
  BY DEF TypeOK
<1>3. ASSUME NEW n \in 0..Len(f)
      PROVE  /\ WillDebug(g, n) <=> WillDebug(f, n)
             /\ WavesBefore(g, n) <=> WavesBefore(f, n)
  <2>1. WillDebug(g, n) <=> WillDebug(f, n)
    <3>1. \A k \in 0..Len(f) : After(Append(f, m), k, Begins, Ends, focusDevice)
                                 <=> After(f, k, Begins, Ends, focusDevice)
      BY <1>2, AfterAppend
    <3>2. QED
      BY <3>1 DEF WillDebug
  <2>2. WavesBefore(g, n) <=> WavesBefore(f, n)
    <3>1. \A k \in 0..Len(f) :
            After(Append(f, m), k, Hits, Begins \cup Ends, waves)
              <=> After(f, k, Hits, Begins \cup Ends, waves)
      BY <1>2, AfterAppend
    <3>2. QED
      BY <3>1 DEF WavesBefore
  <2>3. QED
    BY <2>1, <2>2
<1>4. \A i \in 1..Len(g) : i = Len(f) + 1 \/ i \in 1..Len(f)
  BY <1>1
<1>5. /\ \A i \in 1..Len(f) : i \in 1..Len(g) /\ i - 1 \in 0..Len(f)
      /\ Len(f) + 1 \in 1..Len(g) /\ (Len(f) + 1) - 1 = Len(f)
      /\ Len(f) \in 0..Len(f)
  BY <1>1
<1>6. ASSUME m.type \notin {"focus", "end"}, NEW n \in 0..Len(f),
             NoFocusAfter(f, n)
      PROVE  NoFocusAfter(g, n)
  <2>1. \A k \in n + 1..Len(g) :
          k = Len(f) + 1 \/ (k \in n + 1..Len(f) /\ g[k] = f[k])
    BY <1>1
  <2>2. QED
    BY <1>1, <1>6, <2>1 DEF NoFocusAfter
<1>7. FocusWhileDebugged(f) /\ (m.type = "focus" => WillDebug(f, Len(f)))
        => FocusWhileDebugged(g)
  BY <1>1, <1>3, <1>4, <1>5 DEF FocusWhileDebugged
<1>8. ASSUME m.type \notin {"focus", "end"}, FocusPending(f, s)
      PROVE  FocusPending(g, s)
  <2>1. PICK i \in 1..Len(f) : /\ f[i].type = "focus" /\ f[i].item \in s
                               /\ WavesBefore(f, i - 1) /\ NoFocusAfter(f, i)
    BY <1>8 DEF FocusPending
  <2>2. i \in 0..Len(f) /\ i - 1 \in 0..Len(f) /\ i \in 1..Len(g)
    BY <1>1
  <2>3. g[i] = f[i] /\ WavesBefore(g, i - 1) /\ NoFocusAfter(g, i)
    BY <1>1, <1>3, <1>6, <1>8, <2>1, <2>2
  <2>4. QED
    BY <2>1, <2>2, <2>3 DEF FocusPending
<1>9. ASSUME m.type \notin {"focus", "end"}, FocusTaken(f, s)
      PROVE  FocusTaken(g, s)
  <2>1. 0 \in 0..Len(f)
    BY <1>1
  <2>2. QED
    BY <1>6, <1>9, <2>1 DEF FocusTaken
<1>10. ASSUME m.type = "focus", m.item \in s, WillHaveWaves(f)
       PROVE  FocusPending(g, s)
  <2>1. WavesBefore(g, Len(f))
    BY <1>3, <1>5, <1>10 DEF WillHaveWaves, WavesBefore
  <2>2. NoFocusAfter(g, Len(f) + 1)
    BY <1>1 DEF NoFocusAfter
  <2>3. QED
    BY <1>1, <1>5, <1>10, <2>1, <2>2 DEF FocusPending
<1>11. QED
  BY <1>7, <1>8, <1>9, <1>10

\* The agent sends a focus with each beginning and with each stop of waves.
LEMMA AgentKeepsFocusInv ==
  ASSUME DispatchInv, ViewInv, FocusInv, AgentStep
  PROVE  FocusInv'
<1> USE DEF viewVars, processVars
<1>1. /\ fifo \in Seq(Messages) /\ TypeOK
      /\ process = "running" /\ process # "none"
      /\ UNCHANGED <<at, item, focusDevice, waves, focus>>
  BY AgentKeepsDispatchInv DEF DispatchInv, TypeOK
<1>2. WillBeCurrent /\ AgentInOrder
  BY <1>1 DEF ViewInv
<1>3. /\ ~focusDevice => focus = Unknown
      /\ at = "thread" => focusDevice
      /\ FocusWhileDebugged(fifo)
      /\ hit /\ Contiguous(active) =>
           FocusPending(fifo, active) \/ FocusTaken(fifo, active)
  BY DEF FocusInv
\* One notification, which does not move the focus.
<1>4. ASSUME NEW m \in Messages, Send(<<m>>), m.type # "focus",
             hit' => hit /\ m.type # "end" /\ active' = active
      PROVE  FocusInv'
  <2>1. fifo' = Append(fifo, m)
    BY <1>1, <1>4 DEF Send
  <2>2. FocusWhileDebugged(fifo')
    BY <1>1, <1>3, <1>4, <2>1, AppendedFocus
  <2>3. hit' /\ Contiguous(active') =>
          FocusPending(fifo', active) \/ FocusTaken(fifo', active)
    BY <1>1, <1>3, <1>4, <2>1, AppendedFocus
  <2>4. QED
    BY <1>1, <1>3, <1>4, <2>2, <2>3, FocusInvUnchanged DEF FocusTaken
\* The beginning, or waves that stop, with a focus.
<1>5. ASSUME NEW m \in Messages, NEW b \in Messages, Send(<<m, b>>),
             m.type \in {"begin", "hit"}, b.type = "focus",
             m.type = "hit" => begun /\ b.item \in active',
             m.type = "begin" => ~hit'
      PROVE  FocusInv'
  <2> DEFINE f == Append(fifo, m)
  <2>1. fifo' = Append(f, b) /\ f \in Seq(Messages)
    BY <1>1, <1>5 DEF Send
  <2>2. /\ WillDebug(f, Len(f)) <=>
             m.type = "begin" \/ (m.type # "end" /\ WillDebug(fifo, Len(fifo)))
        /\ WillHaveWaves(f) <=>
             m.type = "hit" \/ (m.type \notin {"begin", "end"}
                                  /\ WillHaveWaves(fifo))
    BY <1>1, Appended
  <2>3. WillDebug(f, Len(f)) /\ (m.type = "hit" => WillHaveWaves(f))
    BY <1>2, <1>5, <2>2 DEF WillBeCurrent
  <2>4. FocusWhileDebugged(f)
    BY <1>1, <1>3, <1>5, AppendedFocus
  <2> HIDE DEF f
  <2>5. FocusWhileDebugged(fifo')
    BY <1>1, <2>1, <2>3, <2>4, AppendedFocus
  <2>6. hit' => FocusPending(fifo', active')
    <3>1. m.type = "hit" => FocusPending(fifo', active')
      BY <1>1, <1>5, <2>1, <2>3, AppendedFocus
    <3>2. QED
      BY <1>5, <3>1
  <2>7. QED
    BY <1>1, <1>3, <2>5, <2>6, FocusInvUnchanged
<1>6. CASE StartDebugThread \/ LeavePredispatch \/ EnterPredispatch
  <2>1. /\ [type |-> "predispatch", entered |-> TRUE] \in Messages
        /\ [type |-> "predispatch", entered |-> FALSE] \in Messages
    BY DEF Messages
  <2>2. [type |-> "debugThread", run |-> run] \in Messages
    BY <1>1, MaxRunsAssumption DEF DispatchInv, Numbered, TypeOK, Messages
  <2>3. UNCHANGED <<hit, active>>
    BY <1>6 DEF StartDebugThread, LeavePredispatch, EnterPredispatch
  <2>4. PICK m \in Messages : Send(<<m>>) /\ m.type \notin {"focus", "end"}
    BY <1>6, <2>1, <2>2
       DEF StartDebugThread, LeavePredispatch, EnterPredispatch
  <2>5. QED
    BY <1>4, <2>3, <2>4
<1>7. CASE EndInCallback \/ Complete
  <2>1. PICK completed \in BOOLEAN :
          Send(<<[type |-> "end", completed |-> completed]>>)
    BY <1>7 DEF EndInCallback, Complete
  <2>2. ~hit'
    BY <1>2, <1>7 DEF EndInCallback, Complete, AgentInOrder
  <2>3. [type |-> "end", completed |-> completed] \in Messages
    BY DEF Messages
  <2>4. QED
    BY <1>4, <2>1, <2>2, <2>3
<1>8. ASSUME NEW ok \in BOOLEAN, SendBinary(ok)
      PROVE  FocusInv'
  <2> DEFINE m == [type |-> "newBinary", dispatch |-> dispatch, ok |-> ok]
  <2>1. phase = "predispatch" /\ Send(<<m>>) /\ UNCHANGED <<hit, active>>
    BY <1>8 DEF SendBinary
  <2>2. dispatch \in Dispatches
    BY <1>1, <2>1, MaxDispatchesAssumption
       DEF DispatchInv, Numbered, TypeOK, Dispatches
  <2>3. m \in Messages /\ m.type = "newBinary"
    BY <2>2 DEF Messages
  <2> HIDE DEF m
  <2>4. QED
    BY <1>4, <2>1, <2>3
<1>9. ASSUME NEW i \in Items, Begin(i)
      PROVE  FocusInv'
  <2>1. /\ phase = "predispatch" /\ UNCHANGED hit
        /\ Send(<<[type |-> "begin"], [type |-> "focus", item |-> i]>>)
    BY <1>9 DEF Begin
  <2>2. ~hit'
    BY <1>2, <2>1 DEF AgentInOrder
  <2>3. /\ [type |-> "begin"] \in Messages
        /\ [type |-> "focus", item |-> i] \in Messages
    BY DEF Messages
  <2>4. QED
    BY <1>5, <2>1, <2>2, <2>3
<1>10. ASSUME NEW stopped \in SUBSET Items, NEW i \in Items, Hit(stopped, i)
       PROVE  FocusInv'
  <2>1. /\ phase = "running" /\ i \in active'
        /\ Send(<<[type |-> "hit"], [type |-> "focus", item |-> i]>>)
    BY <1>10 DEF Hit
  <2>2. begun
    BY <1>2, <2>1 DEF AgentInOrder
  <2>3. /\ [type |-> "hit"] \in Messages
        /\ [type |-> "focus", item |-> i] \in Messages
    BY DEF Messages
  <2>4. QED
    BY <1>5, <2>1, <2>2, <2>3
<1>11. ASSUME NEW quit \in BOOLEAN, NEW success \in BOOLEAN,
              AnswerKill(quit, success)
       PROVE  FocusInv'
  <2> DEFINE m ==
        [type |-> "killComplete", quit |-> quit, success |-> success]
  <2>1. Send(<<m>>) /\ UNCHANGED <<hit, active>>
    BY <1>11 DEF AnswerKill
  <2>2. m \in Messages /\ m.type = "killComplete"
    BY DEF Messages
  <2> HIDE DEF m
  <2>3. QED
    BY <1>4, <2>1, <2>2
<1>12. QED
  BY <1>6, <1>7, <1>8, <1>9, <1>10, <1>11 DEF AgentStep

-----------------------------------------------------------------------------
(* Reading. *)

\* A notification that is read changes the flags as they will be; the focus of
\* the last stop is read, or comes one place nearer.
LEMMA ReadKeepsFocus ==
  ASSUME DispatchInv, NEW type, ReadView(type), NEW s,
         {focusDevice', waves'} \subseteq BOOLEAN,
         focusDevice' <=> type = "begin" \/ (type # "end" /\ focusDevice),
         waves' <=> type = "hit" \/ (type \notin {"begin", "end"} /\ waves)
  PROVE  /\ FocusWhileDebugged(fifo) =>
              FocusWhileDebugged(fifo)' /\ (type = "focus" => focusDevice)
         /\ NoFocusAfter(fifo, 0) =>
              NoFocusAfter(fifo', 0) /\ type \notin {"focus", "end"}
         /\ FocusPending(fifo, s) =>
              \/ /\ type = "focus" /\ fifo[1].item \in s /\ waves
                 /\ NoFocusAfter(fifo', 0)
              \/ \E i \in 1..Len(fifo') :
                   /\ fifo'[i].type = "focus" /\ fifo'[i].item \in s
                   /\ WavesBefore(fifo, i - 1)'
                   /\ NoFocusAfter(fifo', i)
<1>1. /\ fifo \in Seq(Messages) /\ fifo # <<>>
      /\ Len(fifo) \in Nat \ {0} /\ fifo' = Tail(fifo)
      /\ Len(fifo') = Len(fifo) - 1
      /\ \A i \in 1..Len(fifo') : fifo'[i] = fifo[i + 1]
      /\ fifo[1] \in Messages /\ fifo[1].type = type
  BY Reading DEF ReadView, Read, DispatchInv, TypeOK
<1>2. {focusDevice, waves} \subseteq BOOLEAN
  BY DEF DispatchInv, TypeOK
<1>3. /\ fifo[1] \in Begins <=> type = "begin"
      /\ fifo[1] \in Ends <=> type = "end"
      /\ fifo[1] \in Hits <=> type = "hit"
  BY <1>1 DEF Begins, Ends, Hits
<1>4. ASSUME NEW n \in 1..Len(fifo)
      PROVE  /\ After(fifo', n - 1, Begins, Ends, focusDevice')
                  <=> WillDebug(fifo, n)
             /\ After(fifo', n - 1, Hits, Begins \cup Ends, waves')
                  <=> WavesBefore(fifo, n)
  BY <1>1, <1>2, <1>3, AfterTail DEF WillDebug, WavesBefore
<1>5. ASSUME NEW n \in 1..Len(fifo), NoFocusAfter(fifo, n)
      PROVE  NoFocusAfter(fifo', n - 1)
  <2>1. \A k \in (n - 1) + 1..Len(fifo') :
          k + 1 \in n + 1..Len(fifo) /\ fifo'[k] = fifo[k + 1]
    BY <1>1
  <2>2. QED
    BY <1>5, <2>1 DEF NoFocusAfter
<1>6. ASSUME FocusWhileDebugged(fifo)
      PROVE  FocusWhileDebugged(fifo)' /\ (type = "focus" => focusDevice)
  <2>1. ASSUME NEW i \in 1..Len(fifo'), fifo'[i].type = "focus"
        PROVE  After(fifo', i - 1, Begins, Ends, focusDevice')
    <3>1. i + 1 \in 1..Len(fifo) /\ i \in 1..Len(fifo) /\ (i + 1) - 1 = i
      BY <1>1
    <3>2. WillDebug(fifo, i)
      BY <1>1, <1>6, <2>1, <3>1 DEF FocusWhileDebugged
    <3>3. QED
      BY <1>4, <3>1, <3>2
  <2>2. ASSUME type = "focus"
        PROVE  focusDevice
    <3>1. 1 \in 1..Len(fifo) /\ 1 - 1 = 0
      BY <1>1
    <3>2. WillDebug(fifo, 0)
      BY <1>1, <1>6, <2>2, <3>1 DEF FocusWhileDebugged
    <3>3. QED
      BY <1>2, <3>2, AfterNone DEF WillDebug
  <2>3. QED
    BY <2>1, <2>2 DEF FocusWhileDebugged, WillDebug
<1>7. ASSUME NoFocusAfter(fifo, 0)
      PROVE  NoFocusAfter(fifo', 0) /\ type \notin {"focus", "end"}
  <2>1. /\ 1 \in 0 + 1..Len(fifo)
        /\ \A k \in 0 + 1..Len(fifo') :
             k + 1 \in 0 + 1..Len(fifo) /\ fifo'[k] = fifo[k + 1]
    BY <1>1
  <2>2. QED
    BY <1>1, <1>7, <2>1 DEF NoFocusAfter
<1>8. ASSUME FocusPending(fifo, s)
      PROVE  \/ /\ type = "focus" /\ fifo[1].item \in s /\ waves
                /\ NoFocusAfter(fifo', 0)
             \/ \E i \in 1..Len(fifo') :
                  /\ fifo'[i].type = "focus" /\ fifo'[i].item \in s
                  /\ WavesBefore(fifo, i - 1)'
                  /\ NoFocusAfter(fifo', i)
  <2>1. PICK i \in 1..Len(fifo) :
          /\ fifo[i].type = "focus" /\ fifo[i].item \in s
          /\ WavesBefore(fifo, i - 1) /\ NoFocusAfter(fifo, i)
    BY <1>8 DEF FocusPending
  <2>2. NoFocusAfter(fifo', i - 1)
    BY <1>5, <2>1
  <2>3. CASE i = 1
    <3>1. WavesBefore(fifo, 0) /\ NoFocusAfter(fifo', 0)
      BY <2>1, <2>2, <2>3
    <3>2. waves
      BY <1>2, <3>1, AfterNone DEF WavesBefore
    <3>3. QED
      BY <1>1, <2>1, <2>3, <3>1, <3>2
  <2>4. CASE i # 1
    <3>1. /\ i - 1 \in 1..Len(fifo') /\ i - 1 \in 1..Len(fifo)
          /\ fifo'[i - 1] = fifo[i]
      BY <1>1, <2>4
    <3>2. After(fifo', (i - 1) - 1, Hits, Begins \cup Ends, waves')
      BY <1>4, <2>1, <3>1
    <3>3. QED
      BY <2>1, <2>2, <3>1, <3>2 DEF WavesBefore
  <2>5. QED
    BY <2>3, <2>4
<1>9. QED
  BY <1>6, <1>7, <1>8

\* A focus is read where it passes the validation, and cleared at an end.
LEMMA EventKeepsFocusInv ==
  ASSUME DispatchInv, DispatchInv', FocusInv, HandleHsailEvent
  PROVE  FocusInv'
<1> USE DEF viewVars, processVars, agentVars
<1>1. ASSUME NEW type, ReadView(type),
             focusDevice' <=> type = "begin" \/ (type # "end" /\ focusDevice),
             waves' <=> type = "hit" \/ (type \notin {"begin", "end"} /\ waves),
             type = "end" => focus' = Unknown,
             type = "focus" =>
               focus' = IF focus = Unknown \/ IsActive(fifo[1].item)
                          THEN fifo[1].item ELSE focus,
             type \notin {"end", "focus"} => focus' = focus
      PROVE  FocusInv'
  <2>1. /\ {focusDevice', waves'} \subseteq BOOLEAN
        /\ {focusDevice, waves} \subseteq BOOLEAN
    BY DEF DispatchInv, TypeOK
  <2>2. at' = "loop" /\ initialized /\ UNCHANGED <<hit, active>>
    BY <1>1 DEF ReadView, Read
  <2>3. FocusWhileDebugged(fifo)' /\ (type = "focus" => focusDevice)
    BY <1>1, <2>1, ReadKeepsFocus DEF FocusInv
  <2>4. ~focusDevice' => focus' = Unknown
    BY <1>1, <2>1, <2>3 DEF FocusInv
  <2>5. ASSUME hit, Contiguous(active)
        PROVE  FocusPending(fifo, active)' \/ FocusTaken(fifo, active)'
    <3>1. CASE FocusTaken(fifo, active)
      <4>1. NoFocusAfter(fifo', 0) /\ focus' = focus
        BY <1>1, <2>1, <3>1, ReadKeepsFocus DEF FocusTaken
      <4>2. QED
        BY <2>2, <3>1, <4>1 DEF FocusTaken, NoFocusAfter
    <3>2. CASE /\ type = "focus" /\ fifo[1].item \in active /\ waves
               /\ NoFocusAfter(fifo', 0)
      <4>1. IsActive(fifo[1].item)
        BY <2>2, <2>3, <2>5, <3>2 DEF IsActive, Contiguous
      <4>2. QED
        BY <1>1, <2>2, <3>2, <4>1 DEF FocusTaken, NoFocusAfter
    <3>3. CASE \E i \in 1..Len(fifo') :
                 /\ fifo'[i].type = "focus" /\ fifo'[i].item \in active
                 /\ WavesBefore(fifo, i - 1)'
                 /\ NoFocusAfter(fifo', i)
      BY <2>2, <3>3 DEF FocusPending, WavesBefore, NoFocusAfter
    <3>4. QED
      BY <1>1, <2>1, <2>5, <3>1, <3>2, <3>3, ReadKeepsFocus DEF FocusInv
  <2>6. QED
    BY <2>2, <2>3, <2>4, <2>5 DEF FocusInv, Contiguous
<1>2. ASSUME NEW type, Read(type)
      PROVE  fifo[1] = Head(fifo) /\ fifo[1].type = type
  BY <1>2, Reading DEF Read, DispatchInv, TypeOK
<1>3. CASE ReadNewBinary
  BY <1>1, <1>3 DEF ReadNewBinary
<1>4. CASE ReadPredispatch
  BY <1>1, <1>4 DEF ReadPredispatch
<1>5. CASE ReadDebugThread
  BY <1>1, <1>5 DEF ReadDebugThread
<1>6. CASE ReadHit
  BY <1>1, <1>6 DEF ReadHit
<1>7. CASE ReadBegin
  BY <1>1, <1>7 DEF ReadBegin, ClearWaves
<1>8. CASE ReadEnd
  BY <1>1, <1>8 DEF ReadEnd, ClearWaves, ClearFocus
<1>9. CASE ReadFocus
  BY <1>1, <1>2, <1>9 DEF ReadFocus, ReadView
<1>10. CASE ReadKillFailed
  BY <1>1, <1>10 DEF ReadKillFailed
<1>11. CASE ReadKillComplete
  <2>1. /\ UNCHANGED <<focusDevice, waves, focus>>
        /\ ~hit' /\ fifo' = <<>> /\ at' # "thread"
    BY <1>11 DEF ReadKillComplete, Read, ProcessGone
  <2>2. FocusWhileDebugged(fifo')
    BY <2>1 DEF FocusWhileDebugged
  <2>3. QED
    BY <2>1, <2>2, FocusInvUnchanged DEF FocusInv
<1>12. QED
  BY <1>3, <1>4, <1>5, <1>6, <1>7, <1>8, <1>9, <1>10, <1>11
     DEF HandleHsailEvent

-----------------------------------------------------------------------------
(* The other steps, and the theorem. *)

\* A command moves the focus to a work-item that is active when it is given.
LEMMA FocusInvKept ==
  DispatchInv /\ ViewInv /\ FocusInv /\ [Next]_vars => FocusInv'
<1> SUFFICES ASSUME DispatchInv, ViewInv, FocusInv, [Next]_vars
             PROVE  FocusInv'
  OBVIOUS
<1>1. DispatchInv'
  BY DispatchInvKept
<1> USE DEF viewVars, processVars, agentVars
<1>2. ASSUME ProcessGone, UNCHANGED <<focusDevice, waves, focus>>,
             at' # "thread"
      PROVE  FocusInv'
  <2>1. ~hit' /\ FocusWhileDebugged(fifo')
    BY <1>2 DEF ProcessGone, FocusWhileDebugged
  <2>2. QED
    BY <1>2, <2>1, FocusInvUnchanged DEF FocusInv
<1>3. ASSUME UNCHANGED <<focusDevice, waves, focus, fifo, hit, active>>,
             \/ at' # "thread"
             \/ UNCHANGED <<at, item>>
             \/ item' \in Items /\ IsActive(item')
      PROVE  FocusInv'
  <2>1. at' = "thread" => focusDevice
    BY <1>3 DEF FocusInv, IsActive
  <2>2. ASSUME FocusTaken(fifo, active), at' = "thread"
        PROVE  item' \in active
    <3>1. CASE UNCHANGED <<at, item>>
      BY <2>2, <3>1 DEF FocusTaken
    <3>2. CASE item' \in Items /\ IsActive(item')
      <4>1. item' \in 1..item'
        BY <3>2, LanesAssumption DEF Items
      <4>2. QED
        BY <3>2, <4>1 DEF IsActive
    <3>3. QED
      BY <1>3, <2>2, <3>1, <3>2
  <2>3. hit' /\ Contiguous(active') =>
          \/ FocusPending(fifo', active')
          \/ /\ focus \in active'
             /\ at' = "thread" => item' \in active'
             /\ NoFocusAfter(fifo', 0)
    BY <1>3, <2>2 DEF FocusInv, FocusTaken
  <2>4. FocusWhileDebugged(fifo')
    BY <1>3 DEF FocusInv
  <2>5. QED
    BY <1>3, <2>1, <2>3, <2>4, FocusInvUnchanged DEF FocusInv
<1>4. CASE AgentStep
  BY <1>4, AgentKeepsFocusInv
<1>5. CASE HandleHsailEvent
  BY <1>1, <1>5, EventKeepsFocusInv
<1>6. CASE Start \/ Initialize \/ Stop \/ ProcessEnds \/ CallFails
  BY <1>3, <1>6 DEF Start, Initialize, Stop, ProcessEnds, CallFails
<1>7. CASE CallReturns
  <2>1. /\ at' = "loop" /\ focus' = IF at = "thread" THEN item ELSE focus
        /\ UNCHANGED <<focusDevice, waves, fifo, hit, active>>
    BY <1>7 DEF CallReturns
  <2>2. ~focusDevice' => focus' = Unknown
    BY <2>1 DEF FocusInv
  <2>3. FocusWhileDebugged(fifo)'
    BY <2>1 DEF FocusInv, FocusWhileDebugged, WillDebug
  <2>4. hit' /\ Contiguous(active') =>
          FocusPending(fifo, active)' \/ FocusTaken(fifo, active)'
    BY <2>1 DEF FocusInv, FocusPending, WavesBefore, FocusTaken, NoFocusAfter
  <2>5. QED
    BY <2>1, <2>2, <2>3, <2>4 DEF FocusInv, Contiguous
<1>8. CASE HandleEnd
  BY <1>2, <1>8 DEF HandleEnd
<1>9. CASE Continue
  BY <1>3, <1>9 DEF Continue, ResumeOrFail
<1>10. CASE \E stepType \in {"in", "out"}, onDebugThread \in BOOLEAN :
              Step(stepType, onDebugThread)
  BY <1>3, <1>10 DEF Step, ResumeOrFail, StepAssertion
<1>11. CASE \E i \in Items : ThreadCommand(i)
  <2>1. PICK i \in Items : ThreadCommand(i)
    BY <1>11
  <2>2. /\ item' \in Items /\ IsActive(item')
        /\ UNCHANGED <<focusDevice, waves, focus, fifo, hit, active>>
    BY <2>1 DEF ThreadCommand, CallAgent
  <2>3. QED
    BY <1>3, <2>2
<1>12. CASE Kill \/ Quit
  <2>1. UNCHANGED <<focusDevice, waves, focus>> /\ at' # "thread"
    BY <1>12 DEF Kill, Quit, CallAgent, Prompt
  <2>2. CASE ProcessGone
    BY <1>2, <2>1, <2>2
  <2>3. CASE ~ProcessGone
    BY <1>3, <1>12, <2>1, <2>3 DEF Kill, Quit, CallAgent
  <2>4. QED
    BY <2>2, <2>3
<1>13. CASE UNCHANGED vars
  BY <1>3, <1>13 DEF vars
<1>14. QED
  BY <1>4, <1>5, <1>6, <1>7, <1>8, <1>9, <1>10, <1>11, <1>12, <1>13
     DEF Next, UserStep

\* Once all is read, the focus is unknown outside of a dispatch, and active in
\* one whose waves have stopped, whatever was unread when the user moved it and
\* whatever stopped while "hsail thread" called the agent.
THEOREM FocusAlwaysActive ==
  ASSUME Restart = "clean" PROVE Spec => []FocusIsActive
<1>1. Init => FocusInv
  BY DEF Init, FocusInv, FocusWhileDebugged
<1>2. DispatchInv /\ ViewInv /\ FocusInv => FocusIsActive
  <2> SUFFICES ASSUME DispatchInv, ViewInv, FocusInv, Settled
               PROVE  /\ ~focusDevice => focus = Unknown
                      /\ waves /\ (\A i \in active : 1..i \subseteq active) =>
                           focus \in active
    BY DEF FocusIsActive
  <2>1. WillBeCurrent /\ Len(fifo) = 0 /\ waves \in BOOLEAN
    BY DEF Settled, ViewInv, DispatchInv, TypeOK
  <2>2. hit <=> waves
    BY <2>1, AfterNone DEF WillBeCurrent, WillHaveWaves
  <2>3. ~FocusPending(fifo, active)
    BY <2>1 DEF FocusPending
  <2>4. QED
    BY <2>2, <2>3 DEF FocusInv, FocusTaken, Contiguous
<1>3. QED
  BY <1>1, <1>2, ViewInvariant, FocusInvKept, PTL DEF Spec

=============================================================================
