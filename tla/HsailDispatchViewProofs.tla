---------------------- MODULE HsailDispatchViewProofs ----------------------
(***************************************************************************)
(* What gdb knows of the dispatch, once it has read all that the agent     *)
(* sent, is what the agent does: theorems about HsailDispatch for any      *)
(* number of lanes, processes, dispatches and unread notifications, if a   *)
(* process is started only after a clean end.                              *)
(*                                                                         *)
(* What gdb will know is a function of what it knows and of the unread     *)
(* notifications.  Reading one does not change it, and sending one changes *)
(* it as the agent changes.                                                *)
(***************************************************************************)
EXTENDS HsailDispatchProofs

-----------------------------------------------------------------------------
(* A flag after some notifications. *)

\* A flag that is now the given one, after the first n notifications of f: the
\* raising ones set it, the lowering ones clear it.
After(f, n, raising, lowering, now) ==
  \/ \E j \in 1..n : /\ f[j] \in raising
                     /\ \A k \in j + 1..n : f[k] \notin lowering
  \/ now /\ \A k \in 1..n : f[k] \notin lowering

\* Before any notification it is as it is.
LEMMA AfterNone ==
  ASSUME NEW f, NEW raising, NEW lowering, NEW now \in BOOLEAN
  PROVE  After(f, 0, raising, lowering, now) <=> now
  BY DEF After

\* A notification at the end decides it last.
LEMMA AfterAppend ==
  ASSUME NEW f \in Seq(Messages), NEW m \in Messages,
         NEW raising, NEW lowering, NEW now \in BOOLEAN
  PROVE  /\ Append(f, m) \in Seq(Messages)
         /\ Len(Append(f, m)) = Len(f) + 1
         /\ Append(f, m)[Len(f) + 1] = m
         /\ \A i \in 1..Len(f) : Append(f, m)[i] = f[i]
         /\ \A n \in 0..Len(f) : After(Append(f, m), n, raising, lowering, now)
                                   <=> After(f, n, raising, lowering, now)
         /\ After(Append(f, m), Len(f) + 1, raising, lowering, now) <=>
              \/ m \in raising
              \/ m \notin lowering /\ After(f, Len(f), raising, lowering, now)
<1> DEFINE g == Append(f, m)
<1>1. /\ g \in Seq(Messages)
      /\ Len(g) = Len(f) + 1
      /\ g[Len(f) + 1] = m
      /\ \A i \in 1..Len(f) : g[i] = f[i]
  OBVIOUS
<1> HIDE DEF g
<1>2. ASSUME NEW n \in 0..Len(f)
      PROVE  After(g, n, raising, lowering, now)
               <=> After(f, n, raising, lowering, now)
  <2>1. \A i \in 1..n : g[i] = f[i]
    BY <1>1
  <2>2. \A j \in 1..n : \A k \in j + 1..n : k \in 1..n
    OBVIOUS
  <2>3. QED
    BY <2>1, <2>2 DEF After
<1>3. After(g, Len(f) + 1, raising, lowering, now) <=>
        \/ m \in raising
        \/ m \notin lowering /\ After(f, Len(f), raising, lowering, now)
  <2> DEFINE n == Len(f)
  <2>1. n \in Nat
    OBVIOUS
  <2>2. CASE m \in raising
    <3>1. n + 1 \in 1..n + 1 /\ \A k \in (n + 1) + 1..n + 1 : FALSE
      BY <2>1
    <3>2. QED
      BY <1>1, <2>2, <3>1 DEF After
  <2>3. CASE m \notin raising /\ m \in lowering
    <3>1. \A j \in 1..n : n + 1 \in j + 1..n + 1
      BY <2>1
    <3>2. n + 1 \in 1..n + 1
      BY <2>1
    <3>3. \A j \in 1..n + 1 : j \in 1..n \/ j = n + 1
      BY <2>1
    <3>4. QED
      BY <1>1, <2>3, <3>1, <3>2, <3>3 DEF After
  <2>4. CASE m \notin raising /\ m \notin lowering
    <3>1. \A j \in 1..n + 1 : j \in 1..n \/ j = n + 1
      BY <2>1
    <3>2. \A j \in 1..n : j \in 1..n + 1
      BY <2>1
    <3>3. \A j \in 1..n : \A k \in j + 1..n + 1 : k \in j + 1..n \/ k = n + 1
      BY <2>1
    <3>4. \A j \in 1..n : \A k \in j + 1..n : k \in j + 1..n + 1 /\ k \in 1..n
      BY <2>1
    <3>5. (\A k \in 1..n + 1 : g[k] \notin lowering)
            <=> (\A k \in 1..n : f[k] \notin lowering)
      BY <1>1, <2>4, <3>1, <3>2
    <3>6. \A j \in 1..n : (\A k \in j + 1..n + 1 : g[k] \notin lowering)
                            <=> (\A k \in j + 1..n : f[k] \notin lowering)
      BY <1>1, <2>4, <3>3, <3>4
    <3>7. (\E j \in 1..n + 1 : /\ g[j] \in raising
                               /\ \A k \in j + 1..n + 1 : g[k] \notin lowering)
            <=> (\E j \in 1..n : /\ f[j] \in raising
                                 /\ \A k \in j + 1..n : f[k] \notin lowering)
      BY <1>1, <2>4, <3>1, <3>2, <3>6
    <3>8. QED
      BY <2>4, <3>5, <3>7 DEF After
  <2>5. QED
    BY <2>2, <2>3, <2>4
<1>4. QED
  BY <1>1, <1>2, <1>3 DEF g

\* A notification that is read changes the flag, and the flag after the others
\* is the same.
LEMMA AfterTail ==
  ASSUME NEW f \in Seq(Messages), f # <<>>, NEW n \in 1..Len(f),
         NEW raising, NEW lowering,
         NEW now \in BOOLEAN, NEW later \in BOOLEAN,
         later <=> f[1] \in raising \/ (f[1] \notin lowering /\ now)
  PROVE  After(Tail(f), n - 1, raising, lowering, later)
           <=> After(f, n, raising, lowering, now)
<1> DEFINE t == Tail(f)
<1>1. \A i \in 1..Len(f) - 1 : t[i] = f[i + 1]
  OBVIOUS
<1> HIDE DEF t
<1>2. \A k \in 1..n : k = 1 \/ (k - 1 \in 1..n - 1 /\ t[k - 1] = f[k])
  BY <1>1
<1>3. \A k \in 1..n - 1 : k + 1 \in 2..n /\ t[k] = f[k + 1]
  BY <1>1
<1>4. (\A k \in 1..n - 1 : t[k] \notin lowering)
        <=> (\A k \in 2..n : f[k] \notin lowering)
  <2>1. \A k \in 2..n : k \in 1..n /\ k # 1
    OBVIOUS
  <2>2. QED
    BY <1>2, <1>3, <2>1
<1>5. ASSUME NEW j \in 2..n
      PROVE  (\A k \in (j - 1) + 1..n - 1 : t[k] \notin lowering)
               <=> (\A k \in j + 1..n : f[k] \notin lowering)
  <2>1. \A k \in j + 1..n : k - 1 \in (j - 1) + 1..n - 1 /\ t[k - 1] = f[k]
    BY <1>1
  <2>2. \A k \in (j - 1) + 1..n - 1 : k + 1 \in j + 1..n /\ t[k] = f[k + 1]
    BY <1>1
  <2>3. QED
    BY <2>1, <2>2
<1>6. (\E j \in 1..n - 1 : /\ t[j] \in raising
                           /\ \A k \in j + 1..n - 1 : t[k] \notin lowering)
        <=> (\E j \in 2..n : /\ f[j] \in raising
                             /\ \A k \in j + 1..n : f[k] \notin lowering)
  <2>1. \A j \in 2..n : j - 1 \in 1..n - 1 /\ t[j - 1] = f[j]
    BY <1>1
  <2>2. \A j \in 1..n - 1 : j + 1 \in 2..n /\ t[j] = f[j + 1]
                            /\ ((j + 1) - 1) + 1 = j + 1
    BY <1>1
  <2>3. QED
    BY <1>5, <2>1, <2>2
<1>7. (\A k \in 1..n : f[k] \notin lowering)
        <=> f[1] \notin lowering /\ (\A k \in 2..n : f[k] \notin lowering)
  OBVIOUS
<1>8. (\E j \in 1..n : /\ f[j] \in raising
                       /\ \A k \in j + 1..n : f[k] \notin lowering)
        <=> \/ f[1] \in raising /\ (\A k \in 2..n : f[k] \notin lowering)
            \/ \E j \in 2..n : /\ f[j] \in raising
                               /\ \A k \in j + 1..n : f[k] \notin lowering
  <2>1. \A j \in 1..n : j = 1 \/ j \in 2..n
    OBVIOUS
  <2>2. 1 \in 1..n /\ \A j \in 2..n : j \in 1..n
    OBVIOUS
  <2>3. 1 + 1 = 2
    OBVIOUS
  <2>4. QED
    BY <2>1, <2>2, <2>3
<1>9. After(t, n - 1, raising, lowering, later)
        <=> After(f, n, raising, lowering, now)
  BY <1>4, <1>6, <1>7, <1>8 DEF After
<1>10. QED
  BY <1>9 DEF t

-----------------------------------------------------------------------------
(* What gdb will know when it has read the notifications f. *)

Begins == {m \in Messages : m.type = "begin"}
Ends == {m \in Messages : m.type = "end"}
Hits == {m \in Messages : m.type = "hit"}
Enters == {m \in Messages : m.type = "predispatch" /\ m.entered}
Leaves == {m \in Messages : m.type = "predispatch" /\ ~m.entered}
Completions == {m \in Messages : m.type = "end" /\ m.completed}

\* That the agent debugs, before the first n are read or all.
WillDebug(f, n) == After(f, n, Begins, Ends, focusDevice)

\* That waves have stopped.
WillHaveWaves(f) == After(f, Len(f), Hits, Begins \cup Ends, waves)

\* That the agent is in the predispatch callback.
WillBeInCallback(f) == After(f, Len(f), Enters, Leaves, predispatch)

\* Waves stop only while the agent debugs.
HitsWhileDebugged(f) ==
  \A i \in 1..Len(f) : f[i] \in Hits => WillDebug(f, i - 1)

\* No dispatch completes after the first n.
NoneCompletes(f, n) == \A k \in n + 1..Len(f) : f[k] \notin Completions

\* The last binary, sent or read, is of the dispatch d.
LastBinaryOf(f, d) ==
  /\ available /\ NoneCompletes(f, 0) => dbginfo = d
  /\ \A i \in 1..Len(f) :
       f[i].type = "newBinary" /\ NoneCompletes(f, i) => f[i].dispatch = d

\* No binary, sent or read, is of a dispatch that has not completed.
NoBinary(f) ==
  /\ available => ~NoneCompletes(f, 0)
  /\ \A i \in 1..Len(f) : f[i].type = "newBinary" => ~NoneCompletes(f, i)

-----------------------------------------------------------------------------
(* The inductive invariant. *)

\* The agent is idle until a process has it, its waves stop in a dispatch that
\* it debugs, and the last binary is of that dispatch.
AgentInOrder ==
  /\ process = "none" => phase = "idle" /\ ~begun /\ ~hit
  /\ phase = "running" => begun
  /\ phase \in {"idle", "predispatch"} => ~hit

\* gdb knows of waves only where the device has the focus.
WavesUnderFocus == waves => focusDevice

\* What gdb will know is what the agent does.
WillBeCurrent ==
  /\ WillDebug(fifo, Len(fifo)) <=> begun
  /\ WillHaveWaves(fifo) <=> hit
  /\ phase # "killed" => (WillBeInCallback(fifo) <=> phase = "predispatch")
  /\ HitsWhileDebugged(fifo)
  /\ LastBinaryOf(fifo, dispatch)
  /\ phase = "idle" => NoBinary(fifo)

\* The agent has killed the waves when it says so, and goes no further.
KilledWhenAnswered == phase = "killed" <=> WavesKilled

ViewInv ==
  /\ AgentInOrder
  /\ WavesUnderFocus
  /\ process # "none" => WillBeCurrent /\ KilledWhenAnswered

-----------------------------------------------------------------------------
(* Sending. *)

\* What one more notification changes of what gdb will know.
LEMMA Appended ==
  ASSUME TypeOK, NEW f \in Seq(Messages), NEW m \in Messages,
         NEW g, g = Append(f, m)
  PROVE  /\ g \in Seq(Messages)
         /\ WillDebug(g, Len(g)) <=>
              m.type = "begin" \/ (m.type # "end" /\ WillDebug(f, Len(f)))
         /\ WillHaveWaves(g) <=>
              m.type = "hit" \/ (m.type \notin {"begin", "end"} /\ WillHaveWaves(f))
         /\ WillBeInCallback(g) <=>
              \/ m.type = "predispatch" /\ m.entered
              \/ m.type # "predispatch" /\ WillBeInCallback(f)
         /\ HitsWhileDebugged(f) /\ (m.type = "hit" => WillDebug(f, Len(f))) =>
              HitsWhileDebugged(g)
<1>1. /\ m \in Begins <=> m.type = "begin"
      /\ m \in Ends <=> m.type = "end"
      /\ m \in Hits <=> m.type = "hit"
      /\ m \in Enters <=> m.type = "predispatch" /\ m.entered
      /\ m \in Leaves <=> m.type = "predispatch" /\ ~m.entered
  BY DEF Begins, Ends, Hits, Enters, Leaves
<1>2. {focusDevice, waves, predispatch} \subseteq BOOLEAN
  BY DEF TypeOK
<1>3. g \in Seq(Messages) /\ Len(g) = Len(f) + 1 /\ Len(f) \in Nat
      /\ g[Len(f) + 1] = m /\ \A i \in 1..Len(f) : g[i] = f[i]
  OBVIOUS
<1>4. WillDebug(g, Len(g)) <=>
        m.type = "begin" \/ (m.type # "end" /\ WillDebug(f, Len(f)))
  BY <1>1, <1>2, <1>3, AfterAppend DEF WillDebug
<1>5. WillHaveWaves(g) <=>
        m.type = "hit" \/ (m.type \notin {"begin", "end"} /\ WillHaveWaves(f))
  BY <1>1, <1>2, <1>3, AfterAppend DEF WillHaveWaves
<1>6. WillBeInCallback(g) <=>
        \/ m.type = "predispatch" /\ m.entered
        \/ m.type # "predispatch" /\ WillBeInCallback(f)
  <2>1. WillBeInCallback(g) <=>
          m \in Enters \/ (m \notin Leaves /\ WillBeInCallback(f))
    BY <1>2, <1>3, AfterAppend DEF WillBeInCallback
  <2>2. QED
    BY <1>1, <2>1
<1>7. ASSUME HitsWhileDebugged(f), m.type = "hit" => WillDebug(f, Len(f)),
             NEW i \in 1..Len(g), g[i] \in Hits
      PROVE  WillDebug(g, i - 1)
  <2>1. i - 1 \in 0..Len(f)
    BY <1>3
  <2>2. WillDebug(g, i - 1) <=> WillDebug(f, i - 1)
    BY <1>2, <1>3, <2>1, AfterAppend DEF WillDebug
  <2>3. CASE i = Len(f) + 1
    BY <1>1, <1>3, <1>7, <2>2, <2>3
  <2>4. CASE i \in 1..Len(f)
    BY <1>3, <1>7, <2>2, <2>4 DEF HitsWhileDebugged
  <2>5. QED
    BY <1>3, <2>3, <2>4
<1>8. QED
  BY <1>3, <1>4, <1>5, <1>6, <1>7 DEF HitsWhileDebugged

\* What it changes of the binary that gdb will know of.
LEMMA AppendedBinary ==
  ASSUME NEW f \in Seq(Messages), NEW m \in Messages, NEW g, g = Append(f, m),
         NEW d
  PROVE  /\ LastBinaryOf(f, d) /\ (m.type = "newBinary" => m.dispatch = d) =>
              LastBinaryOf(g, d)
         /\ m \in Completions => NoBinary(g)
         /\ NoBinary(f) => LastBinaryOf(f, d)
         /\ NoBinary(f) /\ m.type # "newBinary" => NoBinary(g)
<1>1. Len(g) = Len(f) + 1 /\ Len(f) \in Nat
      /\ g[Len(f) + 1] = m /\ \A i \in 1..Len(f) : g[i] = f[i]
  OBVIOUS
<1>2. ASSUME NEW i \in 0..Len(f)
      PROVE  NoneCompletes(g, i) <=> NoneCompletes(f, i) /\ m \notin Completions
  <2>1. Len(f) + 1 \in i + 1..Len(g)
    BY <1>1
  <2>2. \A k \in i + 1..Len(g) : k = Len(f) + 1 \/ k \in i + 1..Len(f)
    BY <1>1
  <2>3. \A k \in i + 1..Len(f) :
          k \in i + 1..Len(g) /\ k \in 1..Len(f) /\ g[k] = f[k]
    BY <1>1
  <2>4. QED
    BY <1>1, <2>1, <2>2, <2>3 DEF NoneCompletes
<1>3. \A i \in 1..Len(g) : i = Len(f) + 1 \/ (i \in 1..Len(f) /\ g[i] = f[i])
  BY <1>1
<1>4. 0 \in 0..Len(f) /\ \A i \in 1..Len(f) : i \in 0..Len(f)
  BY <1>1
<1>5. LastBinaryOf(f, d) /\ (m.type = "newBinary" => m.dispatch = d) =>
        LastBinaryOf(g, d)
  BY <1>1, <1>2, <1>3, <1>4 DEF LastBinaryOf
<1>6. m \in Completions => NoBinary(g)
  <2>1. m \in Completions => m.type # "newBinary"
    BY DEF Completions
  <2>2. QED
    BY <1>1, <1>2, <1>3, <1>4, <2>1 DEF NoBinary
<1>7. NoBinary(f) => LastBinaryOf(f, d)
  BY DEF NoBinary, LastBinaryOf
<1>8. NoBinary(f) /\ m.type # "newBinary" => NoBinary(g)
  BY <1>1, <1>2, <1>3, <1>4 DEF NoBinary
<1>9. QED
  BY <1>5, <1>6, <1>7, <1>8

\* A step that leaves what gdb knows: the flags after the FIFO are those it
\* will have.
LEMMA ViewUnchanged ==
  ASSUME UNCHANGED <<focusDevice, waves, predispatch, available, dbginfo>>,
         WillDebug(fifo', Len(fifo')) <=> begun',
         WillHaveWaves(fifo') <=> hit',
         phase' # "killed" =>
           (WillBeInCallback(fifo') <=> phase' = "predispatch"),
         HitsWhileDebugged(fifo'),
         LastBinaryOf(fifo', dispatch'),
         phase' = "idle" => NoBinary(fifo')
  PROVE  WillBeCurrent'
  BY DEF WillBeCurrent, WillDebug, WillHaveWaves, WillBeInCallback,
     HitsWhileDebugged, LastBinaryOf, NoBinary, NoneCompletes

\* The answer that the waves are killed is sent, or was, when they are.
LEMMA AnswerSent ==
  ASSUME fifo \in Seq(Messages), NEW messages \in Seq(Messages), Send(messages)
  PROVE  /\ WavesKilled => WavesKilled'
         /\ (\E i \in 1..Len(messages) : messages[i].type = "killComplete"
                                           /\ messages[i].success) => WavesKilled'
         /\ WavesKilled' =>
              \/ WavesKilled
              \/ \E i \in 1..Len(messages) : messages[i].type = "killComplete"
                                               /\ messages[i].success
<1>1. /\ Len(fifo') = Len(fifo) + Len(messages)
      /\ \A i \in 1..Len(fifo) : fifo'[i] = fifo[i]
      /\ \A i \in 1..Len(messages) : fifo'[Len(fifo) + i] = messages[i]
      /\ fifo' \in Seq(Messages)
  BY Sending
<1>2. /\ \A i \in 1..Len(fifo) : i \in 1..Len(fifo')
      /\ \A i \in 1..Len(messages) : Len(fifo) + i \in 1..Len(fifo')
      /\ \A i \in 1..Len(fifo') : \/ i \in 1..Len(fifo)
                                  \/ i - Len(fifo) \in 1..Len(messages)
                                       /\ fifo'[i] = messages[i - Len(fifo)]
  <2>1. \A i \in 1..Len(fifo') : i \in 1..Len(fifo)
           \/ (i - Len(fifo) \in 1..Len(messages)
               /\ Len(fifo) + (i - Len(fifo)) = i)
    BY <1>1
  <2>2. QED
    BY <1>1, <2>1
<1>3. /\ WavesKilled <=> \E i \in 1..Len(fifo) :
                           fifo[i].type = "killComplete" /\ fifo[i].success
      /\ WavesKilled' <=> \E i \in 1..Len(fifo') :
                            fifo'[i].type = "killComplete" /\ fifo'[i].success
  <2>1. DOMAIN fifo = 1..Len(fifo) /\ DOMAIN fifo' = 1..Len(fifo')
    BY <1>1
  <2>2. QED
    BY <2>1, Zenon DEF WavesKilled
<1>4. QED
  BY <1>1, <1>2, <1>3

\* The agent's steps are in the order that makes what gdb will know current.
LEMMA AgentKeepsViewInv ==
  ASSUME DispatchInv, ViewInv, AgentStep
  PROVE  ViewInv'
<1> USE DEF viewVars, processVars
<1>1. /\ fifo \in Seq(Messages) /\ TypeOK
      /\ process = "running" /\ process' = process
      /\ UNCHANGED <<focusDevice, waves, predispatch, available, dbginfo>>
  BY AgentKeepsDispatchInv DEF DispatchInv, TypeOK
<1>2. WillBeCurrent /\ KilledWhenAnswered /\ AgentInOrder /\ WavesUnderFocus
  BY <1>1 DEF ViewInv
<1>3. ASSUME AgentInOrder', WillBeCurrent', KilledWhenAnswered'
      PROVE  ViewInv'
  BY <1>1, <1>2, <1>3 DEF ViewInv, WavesUnderFocus
<1>4. ASSUME NEW messages \in Seq(Messages), Send(messages),
             \A i \in 1..Len(messages) : messages[i].type # "killComplete",
             phase' = "killed" <=> phase = "killed"
      PROVE  KilledWhenAnswered'
  BY <1>1, <1>2, <1>4, AnswerSent DEF KilledWhenAnswered
<1> USE DEF AgentInOrder
\* One notification, which is not of waves that stop.
<1>5. ASSUME NEW m \in Messages, Send(<<m>>), m.type # "hit",
             m.type # "killComplete",
             phase' = "killed" <=> phase = "killed",
             AgentInOrder',
             begun' <=> m.type = "begin" \/ (m.type # "end" /\ begun),
             hit' <=> m.type \notin {"begin", "end"} /\ hit,
             phase' = "predispatch" <=>
               \/ m.type = "predispatch" /\ m.entered
               \/ m.type # "predispatch" /\ phase = "predispatch",
             \/ phase = "idle" /\ m.type # "newBinary"
             \/ /\ dispatch' = dispatch /\ phase' # "idle"
                /\ m.type = "newBinary" => m.dispatch = dispatch
             \/ dispatch' = dispatch /\ m \in Completions
      PROVE  ViewInv'
  <2>1. fifo' = Append(fifo, m)
    BY <1>1, <1>5 DEF Send
  <2>2. LastBinaryOf(fifo', dispatch') /\ (phase' = "idle" => NoBinary(fifo'))
    <3>1. m \in Completions => m.type # "newBinary"
      BY DEF Completions
    <3>2. QED
      BY <1>1, <1>2, <1>5, <2>1, <3>1, AppendedBinary DEF WillBeCurrent
  <2>3. WillBeCurrent'
    BY <1>1, <1>2, <1>5, <2>1, <2>2, Appended, ViewUnchanged
       DEF WillBeCurrent
  <2>4. KilledWhenAnswered'
    <3>1. <<m>> \in Seq(Messages) /\ Len(<<m>>) = 1 /\ <<m>>[1] = m
      OBVIOUS
    <3>2. \A i \in 1..Len(<<m>>) : i = 1
      BY <3>1
    <3>3. QED
      BY <1>4, <1>5, <3>1, <3>2
  <2>5. QED
    BY <1>3, <1>5, <2>3, <2>4
\* The beginning, or waves that stop, with a focus.
<1>6. ASSUME NEW m \in Messages, NEW b \in Messages, Send(<<m, b>>),
             m.type \in {"begin", "hit"}, b.type = "focus",
             UNCHANGED <<dispatch, phase>>, phase \in {"predispatch", "running"},
             AgentInOrder',
             begun' <=> m.type = "begin" \/ begun,
             m.type = "hit" => begun,
             hit' <=> m.type = "hit" \/ (m.type # "begin" /\ hit)
      PROVE  ViewInv'
  <2> DEFINE f == Append(fifo, m)
  <2>1. fifo' = Append(f, b) /\ f \in Seq(Messages)
    BY <1>1, <1>6 DEF Send
  <2>2. /\ WillDebug(f, Len(f)) <=> begun'
        /\ WillHaveWaves(f) <=> hit'
        /\ WillBeInCallback(f) <=> phase = "predispatch"
        /\ HitsWhileDebugged(f)
    BY <1>1, <1>2, <1>6, Appended DEF WillBeCurrent
  <2>3. LastBinaryOf(f, dispatch)
    BY <1>1, <1>2, <1>6, AppendedBinary DEF WillBeCurrent
  <2> HIDE DEF f
  <2>4. WillBeCurrent'
    <3>1. LastBinaryOf(fifo', dispatch')
      BY <1>6, <2>1, <2>3, AppendedBinary
    <3>2. QED
      BY <1>1, <1>6, <2>1, <2>2, <3>1, Appended, ViewUnchanged
  <2>5. KilledWhenAnswered'
    <3>1. <<m, b>> \in Seq(Messages) /\ Len(<<m, b>>) = 2
          /\ <<m, b>>[1] = m /\ <<m, b>>[2] = b
      OBVIOUS
    <3>2. \A i \in 1..Len(<<m, b>>) : i = 1 \/ i = 2
      BY <3>1
    <3>3. QED
      BY <1>4, <1>6, <3>1, <3>2
  <2>6. QED
    BY <1>3, <1>6, <2>4, <2>5
<1>7. CASE StartDebugThread \/ LeavePredispatch \/ EnterPredispatch
  <2>1. PICK m \in Messages :
          /\ Send(<<m>>)
          /\ \/ m.type = "debugThread" /\ StartDebugThread
             \/ m.type = "predispatch" /\ ~m.entered /\ LeavePredispatch
             \/ m.type = "predispatch" /\ m.entered /\ EnterPredispatch
    <3>1. /\ [type |-> "predispatch", entered |-> TRUE] \in Messages
          /\ [type |-> "predispatch", entered |-> FALSE] \in Messages
      BY DEF Messages
    <3>2. [type |-> "debugThread", run |-> run] \in Messages
      BY <1>1, MaxRunsAssumption DEF DispatchInv, Numbered, TypeOK, Messages
    <3>3. QED
      BY <1>7, <3>1, <3>2
         DEF StartDebugThread, LeavePredispatch, EnterPredispatch
  <2>2. CASE m.type = "debugThread" /\ StartDebugThread
    <3>1. UNCHANGED <<dispatch, phase, begun, hit>>
      BY <2>2 DEF StartDebugThread
    <3>2. QED
      BY <1>1, <1>2, <1>5, <2>1, <2>2, <3>1
  <2>3. CASE m.type = "predispatch" /\ ~m.entered /\ LeavePredispatch
    <3>1. /\ phase = "predispatch" /\ phase' = "running" /\ begun
          /\ UNCHANGED <<dispatch, begun, hit>>
      BY <2>3 DEF LeavePredispatch
    <3>2. QED
      BY <1>1, <1>2, <1>5, <2>1, <2>3, <3>1
  <2>4. CASE m.type = "predispatch" /\ m.entered /\ EnterPredispatch
    <3>1. phase = "idle" /\ phase' = "predispatch" /\ UNCHANGED <<begun, hit>>
      BY <2>4 DEF EnterPredispatch
    <3>2. QED
      BY <1>1, <1>2, <1>5, <2>1, <2>4, <3>1
  <2>5. QED
    BY <2>1, <2>2, <2>3, <2>4
<1>8. CASE EndInCallback \/ Complete
  <2>1. PICK completed \in BOOLEAN :
          /\ Send(<<[type |-> "end", completed |-> completed]>>)
          /\ completed => Complete
          /\ ~completed => EndInCallback
    BY <1>8 DEF EndInCallback, Complete
  <2> DEFINE m == [type |-> "end", completed |-> completed]
  <2>2. /\ m \in Messages /\ m.type = "end" /\ Send(<<m>>)
        /\ completed => m \in Completions
    BY <2>1 DEF Messages, Completions
  <2> HIDE DEF m
  <2>3. CASE completed
    <3>1. /\ phase = "running" /\ phase' = "idle" /\ ~begun' /\ ~hit'
          /\ UNCHANGED dispatch
      BY <2>1, <2>3 DEF Complete
    <3>2. QED
      BY <1>1, <1>2, <1>5, <2>2, <2>3, <3>1
  <2>4. CASE ~completed
    <3>1. /\ phase = "predispatch" /\ phase' = phase /\ ~begun'
          /\ UNCHANGED <<dispatch, hit>>
      BY <2>1, <2>4 DEF EndInCallback
    <3>2. QED
      BY <1>1, <1>2, <1>5, <2>2, <3>1
  <2>5. QED
    BY <2>1, <2>3, <2>4
<1>9. ASSUME NEW ok \in BOOLEAN, SendBinary(ok)
      PROVE  ViewInv'
  <2> DEFINE m == [type |-> "newBinary", dispatch |-> dispatch, ok |-> ok]
  <2>1. /\ phase = "predispatch" /\ Send(<<m>>)
        /\ UNCHANGED <<dispatch, phase, begun, hit>>
    BY <1>9 DEF SendBinary
  <2>2. dispatch \in Dispatches
    BY <1>1, <2>1, MaxDispatchesAssumption
       DEF DispatchInv, Numbered, TypeOK, Dispatches
  <2>3. m \in Messages /\ m.type = "newBinary" /\ m.dispatch = dispatch
    BY <2>2 DEF Messages
  <2> HIDE DEF m
  <2>4. QED
    BY <1>1, <1>2, <1>5, <2>1, <2>3
<1>10. ASSUME NEW i \in Items, Begin(i)
       PROVE  ViewInv'
  <2>1. /\ phase = "predispatch" /\ begun'
        /\ Send(<<[type |-> "begin"], [type |-> "focus", item |-> i]>>)
        /\ UNCHANGED <<dispatch, phase, hit>>
    BY <1>10 DEF Begin
  <2>2. /\ [type |-> "begin"] \in Messages
        /\ [type |-> "focus", item |-> i] \in Messages
    BY DEF Messages
  <2>3. QED
    BY <1>1, <1>2, <1>6, <2>1, <2>2
<1>11. ASSUME NEW stopped \in SUBSET Items, NEW i \in Items, Hit(stopped, i)
       PROVE  ViewInv'
  <2>1. /\ phase = "running" /\ hit'
        /\ Send(<<[type |-> "hit"], [type |-> "focus", item |-> i]>>)
        /\ UNCHANGED <<dispatch, phase, begun>>
    BY <1>11 DEF Hit
  <2>2. /\ [type |-> "hit"] \in Messages
        /\ [type |-> "focus", item |-> i] \in Messages
    BY DEF Messages
  <2>3. QED
    BY <1>1, <1>2, <1>6, <2>1, <2>2
<1>12. ASSUME NEW quit \in BOOLEAN, NEW success \in BOOLEAN,
              AnswerKill(quit, success)
       PROVE  ViewInv'
  <2> DEFINE m ==
        [type |-> "killComplete", quit |-> quit, success |-> success]
  <2>1. /\ phase' = IF success THEN "killed" ELSE phase
        /\ Send(<<m>>) /\ UNCHANGED <<dispatch, begun, hit>>
    BY <1>12 DEF AnswerKill
  <2>2. /\ m \in Messages /\ m.type = "killComplete"
        /\ m.success <=> success
    BY DEF Messages
  <2> HIDE DEF m
  <2>3. fifo' = Append(fifo, m)
    BY <1>1, <2>1, <2>2 DEF Send
  <2>4. AgentInOrder'
    BY <1>1, <1>2, <2>1
  <2>5. LastBinaryOf(fifo', dispatch') /\ (phase' = "idle" => NoBinary(fifo'))
    BY <1>1, <1>2, <2>1, <2>2, <2>3, AppendedBinary DEF WillBeCurrent
  <2>6. WillBeCurrent'
    BY <1>1, <1>2, <2>1, <2>2, <2>3, <2>5, Appended, ViewUnchanged
       DEF WillBeCurrent
  <2>7. KilledWhenAnswered'
    <3>1. <<m>> \in Seq(Messages) /\ Len(<<m>>) = 1 /\ <<m>>[1] = m
          /\ \A i \in 1..Len(<<m>>) : i = 1
      BY <2>2
    <3>2. WavesKilled' <=> WavesKilled \/ success
      <4> DEFINE messages == <<m>>
      <4>1. (\E i \in 1..Len(messages) :
               messages[i].type = "killComplete" /\ messages[i].success)
              <=> success
        BY <2>2, <3>1
      <4>2. messages \in Seq(Messages) /\ Send(messages)
        BY <2>1, <3>1
      <4> HIDE DEF messages
      <4>3. QED
        BY <1>1, <4>1, <4>2, AnswerSent
    <3>3. phase' = "killed" <=> phase = "killed" \/ success
      BY <2>1
    <3>4. QED
      BY <1>2, <3>2, <3>3 DEF KilledWhenAnswered
  <2>8. QED
    BY <1>3, <2>4, <2>6, <2>7
<1>13. QED
  BY <1>7, <1>8, <1>9, <1>10, <1>11, <1>12 DEF AgentStep

-----------------------------------------------------------------------------
(* Reading. *)

\* A flag is changed by the notification that is read as it will be when that
\* is the first of those unread.
LEMMA ReadKeepsFlags ==
  ASSUME DispatchInv, NEW type, ReadView(type),
         {focusDevice', waves', predispatch'} \subseteq BOOLEAN,
         focusDevice' <=> type = "begin" \/ (type # "end" /\ focusDevice),
         waves' <=> type = "hit" \/ (type \notin {"begin", "end"} /\ waves),
         predispatch' <=> \/ type = "predispatch" /\ fifo[1].entered
                          \/ type # "predispatch" /\ predispatch
  PROVE  /\ WillDebug(fifo, Len(fifo))' <=> WillDebug(fifo, Len(fifo))
         /\ WillHaveWaves(fifo)' <=> WillHaveWaves(fifo)
         /\ WillBeInCallback(fifo)' <=> WillBeInCallback(fifo)
         /\ HitsWhileDebugged(fifo) =>
              HitsWhileDebugged(fifo)' /\ (type = "hit" => focusDevice)
<1>1. /\ fifo \in Seq(Messages) /\ fifo # <<>>
      /\ Len(fifo) \in Nat \ {0} /\ fifo' = Tail(fifo)
      /\ Len(fifo') = Len(fifo) - 1
      /\ \A i \in 1..Len(fifo') : fifo'[i] = fifo[i + 1]
      /\ fifo[1] \in Messages /\ fifo[1].type = type
  BY Reading DEF ReadView, Read, DispatchInv, TypeOK
<1>2. {focusDevice, waves, predispatch} \subseteq BOOLEAN
  BY DEF DispatchInv, TypeOK
<1>3. /\ fifo[1] \in Begins <=> type = "begin"
      /\ fifo[1] \in Ends <=> type = "end"
      /\ fifo[1] \in Hits <=> type = "hit"
      /\ fifo[1] \in Enters <=> type = "predispatch" /\ fifo[1].entered
      /\ fifo[1] \in Leaves <=> type = "predispatch" /\ ~fifo[1].entered
  BY <1>1 DEF Begins, Ends, Hits, Enters, Leaves
<1>4. ASSUME NEW n \in 1..Len(fifo)
      PROVE  After(fifo', n - 1, Begins, Ends, focusDevice')
               <=> WillDebug(fifo, n)
  BY <1>1, <1>2, <1>3, AfterTail DEF WillDebug
<1>5. WillDebug(fifo, Len(fifo))' <=> WillDebug(fifo, Len(fifo))
  BY <1>1, <1>4 DEF WillDebug
<1>6. WillHaveWaves(fifo)' <=> WillHaveWaves(fifo)
  <2>1. After(fifo', Len(fifo) - 1, Hits, Begins \cup Ends, waves')
          <=> After(fifo, Len(fifo), Hits, Begins \cup Ends, waves)
    BY <1>1, <1>2, <1>3, AfterTail
  <2>2. QED
    BY <1>1, <2>1 DEF WillHaveWaves
<1>7. WillBeInCallback(fifo)' <=> WillBeInCallback(fifo)
  <2>1. predispatch' <=> \/ fifo[1] \in Enters
                         \/ fifo[1] \notin Leaves /\ predispatch
    BY <1>3
  <2>2. After(fifo', Len(fifo) - 1, Enters, Leaves, predispatch')
          <=> After(fifo, Len(fifo), Enters, Leaves, predispatch)
    BY <1>1, <1>2, <2>1, AfterTail
  <2>3. QED
    BY <1>1, <2>2 DEF WillBeInCallback
<1>8. ASSUME HitsWhileDebugged(fifo)
      PROVE  HitsWhileDebugged(fifo)' /\ (type = "hit" => focusDevice)
  <2>1. ASSUME NEW i \in 1..Len(fifo'), fifo'[i] \in Hits
        PROVE  After(fifo', i - 1, Begins, Ends, focusDevice')
    <3>1. i + 1 \in 1..Len(fifo) /\ i \in 1..Len(fifo) /\ (i + 1) - 1 = i
      BY <1>1
    <3>2. WillDebug(fifo, i)
      BY <1>1, <1>8, <2>1, <3>1 DEF HitsWhileDebugged
    <3>3. QED
      BY <1>4, <3>1, <3>2
  <2>2. ASSUME type = "hit"
        PROVE  focusDevice
    <3>1. 1 \in 1..Len(fifo) /\ 1 - 1 = 0
      BY <1>1
    <3>2. WillDebug(fifo, 0)
      BY <1>3, <1>8, <2>2, <3>1 DEF HitsWhileDebugged
    <3>3. QED
      BY <1>2, <3>2, AfterNone DEF WillDebug
  <2>3. QED
    BY <2>1, <2>2 DEF HitsWhileDebugged, WillDebug
<1>9. QED
  BY <1>5, <1>6, <1>7, <1>8

\* What gdb knows of the binary is that of the notifications it read.
LEMMA ReadKeepsBinary ==
  ASSUME DispatchInv, NEW type, ReadView(type), NEW d,
         \/ /\ type = "newBinary"
            /\ available' => dbginfo' = fifo[1].dispatch
         \/ ~available'
         \/ /\ type # "newBinary" /\ fifo[1] \notin Completions
            /\ UNCHANGED <<available, dbginfo>>
  PROVE  /\ LastBinaryOf(fifo, d) => LastBinaryOf(fifo, d)'
         /\ NoBinary(fifo) => NoBinary(fifo)'
<1>1. /\ fifo \in Seq(Messages) /\ Len(fifo) \in Nat \ {0}
      /\ Len(fifo') = Len(fifo) - 1
      /\ \A i \in 1..Len(fifo') : fifo'[i] = fifo[i + 1]
      /\ fifo[1] \in Messages /\ fifo[1].type = type
  BY Reading DEF ReadView, Read, DispatchInv, TypeOK
<1>2. ASSUME NEW i \in 0..Len(fifo')
      PROVE  NoneCompletes(fifo', i) <=> NoneCompletes(fifo, i + 1)
  <2>1. /\ \A k \in i + 1..Len(fifo') :
             k + 1 \in (i + 1) + 1..Len(fifo) /\ fifo'[k] = fifo[k + 1]
        /\ \A k \in (i + 1) + 1..Len(fifo) :
             k - 1 \in i + 1..Len(fifo') /\ fifo'[k - 1] = fifo[k]
    BY <1>1
  <2>2. QED
    BY <2>1 DEF NoneCompletes
<1>3. NoneCompletes(fifo, 0) <=> fifo[1] \notin Completions /\ NoneCompletes(fifo, 1)
  BY <1>1 DEF NoneCompletes
<1>4. /\ 0 \in 0..Len(fifo') /\ 1 \in 1..Len(fifo) /\ 0 + 1 = 1
      /\ \A i \in 1..Len(fifo') : i \in 0..Len(fifo') /\ i + 1 \in 1..Len(fifo)
  BY <1>1
<1>5. (NoneCompletes(fifo, 0))' <=> NoneCompletes(fifo, 1)
  BY <1>2, <1>4 DEF NoneCompletes
<1>6. \A i \in 1..Len(fifo') :
        NoneCompletes(fifo', i) <=> NoneCompletes(fifo, i + 1)
  BY <1>2, <1>4
<1>7. ASSUME LastBinaryOf(fifo, d)
      PROVE  LastBinaryOf(fifo, d)'
  <2>1. available' /\ NoneCompletes(fifo, 1) => dbginfo' = d
    <3>1. /\ available /\ NoneCompletes(fifo, 0) => dbginfo = d
          /\ type = "newBinary" /\ NoneCompletes(fifo, 1) => fifo[1].dispatch = d
      BY <1>1, <1>4, <1>7 DEF LastBinaryOf
    <3>2. CASE type = "newBinary" /\ (available' => dbginfo' = fifo[1].dispatch)
      BY <3>1, <3>2
    <3>3. CASE fifo[1] \notin Completions /\ UNCHANGED <<available, dbginfo>>
      BY <1>3, <3>1, <3>3
    <3>4. QED
      BY <3>2, <3>3
  <2>2. \A i \in 1..Len(fifo') :
          fifo'[i].type = "newBinary" /\ NoneCompletes(fifo', i) =>
            fifo'[i].dispatch = d
    BY <1>1, <1>4, <1>6, <1>7 DEF LastBinaryOf
  <2>3. QED
    BY <1>5, <2>1, <2>2 DEF LastBinaryOf, NoneCompletes
<1>8. ASSUME NoBinary(fifo)
      PROVE  NoBinary(fifo)'
  <2>1. available' => ~NoneCompletes(fifo, 1)
    BY <1>1, <1>3, <1>4, <1>8 DEF NoBinary
  <2>2. \A i \in 1..Len(fifo') :
          fifo'[i].type = "newBinary" => ~NoneCompletes(fifo', i)
    BY <1>1, <1>4, <1>6, <1>8 DEF NoBinary
  <2>3. QED
    BY <1>5, <2>1, <2>2 DEF NoBinary, NoneCompletes
<1>9. QED
  BY <1>7, <1>8

\* Reading changes what gdb knows and leaves what it will know.
LEMMA EventKeepsViewInv ==
  ASSUME DispatchInv, DispatchInv', ViewInv, HandleHsailEvent
  PROVE  ViewInv'
<1> USE DEF viewVars, processVars, agentVars
<1>1. ASSUME NEW type, ReadView(type),
             focusDevice' <=> type = "begin" \/ (type # "end" /\ focusDevice),
             waves' <=> type = "hit" \/ (type \notin {"begin", "end"} /\ waves),
             predispatch' <=> \/ type = "predispatch" /\ fifo[1].entered
                              \/ type # "predispatch" /\ predispatch,
             \/ /\ type = "newBinary"
                /\ available' => dbginfo' = fifo[1].dispatch
             \/ ~available'
             \/ /\ type # "newBinary" /\ fifo[1] \notin Completions
                /\ UNCHANGED <<available, dbginfo>>,
             type # "killComplete" \/ ~fifo[1].success
      PROVE  ViewInv'
  <2>1. /\ fifo \in Seq(Messages) /\ Len(fifo) \in Nat \ {0}
        /\ Len(fifo') = Len(fifo) - 1
        /\ \A i \in 1..Len(fifo') : fifo'[i] = fifo[i + 1]
        /\ fifo[1].type = type
    BY <1>1, Reading DEF ReadView, Read, DispatchInv, TypeOK
  <2>2. /\ {focusDevice', waves', predispatch'} \subseteq BOOLEAN
        /\ {focusDevice, waves, predispatch} \subseteq BOOLEAN
    BY DEF DispatchInv, TypeOK
  <2>3. /\ process # "none" /\ process' = process
        /\ UNCHANGED <<dispatch, phase, begun, hit>>
    BY <1>1 DEF ReadView, Read, DispatchInv, GoneWithProcess
  <2>4. AgentInOrder /\ WavesUnderFocus /\ WillBeCurrent /\ KilledWhenAnswered
    BY <2>3 DEF ViewInv
  <2>5. AgentInOrder'
    BY <2>3, <2>4 DEF AgentInOrder
  <2>6. /\ WillDebug(fifo, Len(fifo))' <=> WillDebug(fifo, Len(fifo))
        /\ WillHaveWaves(fifo)' <=> WillHaveWaves(fifo)
        /\ WillBeInCallback(fifo)' <=> WillBeInCallback(fifo)
        /\ HitsWhileDebugged(fifo)' /\ (type = "hit" => focusDevice)
    BY <1>1, <2>2, <2>4, ReadKeepsFlags DEF WillBeCurrent
  <2>7. /\ LastBinaryOf(fifo, dispatch)'
        /\ phase' = "idle" => NoBinary(fifo)'
    <3>1. /\ \A d : LastBinaryOf(fifo, d) => LastBinaryOf(fifo, d)'
          /\ NoBinary(fifo) => NoBinary(fifo)'
      BY <1>1, ReadKeepsBinary
    <3>2. LastBinaryOf(fifo, dispatch)'
      BY <2>3, <2>4, <3>1 DEF WillBeCurrent, LastBinaryOf, NoneCompletes
    <3>3. QED
      BY <2>3, <2>4, <3>1, <3>2 DEF WillBeCurrent
  <2>8. WavesUnderFocus'
    BY <1>1, <2>4, <2>6 DEF WavesUnderFocus
  <2>9. WillBeCurrent'
    BY <2>3, <2>4, <2>6, <2>7 DEF WillBeCurrent
  <2>10. KilledWhenAnswered'
    <3>1. /\ \A i \in 1..Len(fifo) :
               i = 1 \/ (i - 1 \in 1..Len(fifo') /\ fifo'[i - 1] = fifo[i])
          /\ \A i \in 1..Len(fifo') : i + 1 \in 1..Len(fifo)
      BY <2>1
    <3>2. DOMAIN fifo = 1..Len(fifo) /\ DOMAIN fifo' = 1..Len(fifo')
      BY <1>1, <2>1 DEF ReadView
    <3>3. WavesKilled' <=> WavesKilled
      BY <1>1, <2>1, <3>1, <3>2 DEF WavesKilled
    <3>4. QED
      BY <2>3, <2>4, <3>3 DEF KilledWhenAnswered
  <2>11. QED
    BY <2>5, <2>8, <2>9, <2>10 DEF ViewInv
<1>2. ASSUME NEW type, Read(type)
      PROVE  fifo[1] = Head(fifo) /\ fifo[1] \in Messages /\ fifo[1].type = type
  BY <1>2, Reading DEF Read, DispatchInv, TypeOK
<1>3. \A m : m.type # "end" => m \notin Completions
  BY DEF Completions
<1>4. CASE ReadNewBinary
  BY <1>1, <1>2, <1>4 DEF ReadNewBinary, SetStatus, ReadView
<1>5. CASE ReadPredispatch
  BY <1>1, <1>2, <1>3, <1>5 DEF ReadPredispatch, ReadView
<1>6. CASE ReadDebugThread
  BY <1>1, <1>2, <1>3, <1>6 DEF ReadDebugThread, ReadView
<1>7. CASE ReadHit
  BY <1>1, <1>2, <1>3, <1>7 DEF ReadHit, ReadView
<1>8. CASE ReadBegin
  BY <1>1, <1>2, <1>3, <1>8 DEF ReadBegin, ClearWaves, ReadView
<1>9. CASE ReadEnd
  <2>1. ~available' \/ (fifo[1] \notin Completions
                          /\ UNCHANGED <<available, dbginfo>>)
    BY <1>2, <1>9 DEF ReadEnd, ReadView, StatusAtEnd, SetStatus, Completions
  <2>2. QED
    BY <1>1, <1>2, <1>9, <2>1 DEF ReadEnd, ClearWaves, ReadView
<1>10. CASE ReadFocus
  BY <1>1, <1>2, <1>3, <1>10 DEF ReadFocus, ReadView
<1>11. CASE ReadKillComplete
  <2>1. ProcessGone /\ UNCHANGED <<focusDevice, waves>>
    BY <1>11 DEF ReadKillComplete
  <2>2. QED
    BY <2>1 DEF ViewInv, ProcessGone, AgentInOrder, WavesUnderFocus
<1>12. CASE ReadKillFailed
  BY <1>1, <1>2, <1>3, <1>12 DEF ReadKillFailed, ReadView
<1>13. QED
  BY <1>4, <1>5, <1>6, <1>7, <1>8, <1>9, <1>10, <1>11, <1>12
     DEF HandleHsailEvent

-----------------------------------------------------------------------------
(* The other steps, and the theorems. *)

\* Commands leave what gdb knows and will know, or end the process; a process
\* that starts finds nothing of an earlier one.
LEMMA ViewInvKept ==
  ASSUME Restart = "clean"
  PROVE  DispatchInv /\ ViewInv /\ [Next]_vars => ViewInv'
<1> SUFFICES ASSUME DispatchInv, ViewInv, [Next]_vars PROVE ViewInv'
  OBVIOUS
<1>1. DispatchInv'
  BY DispatchInvKept
<1> USE DEF viewVars, processVars, agentVars
<1>2. ASSUME ProcessGone, UNCHANGED <<focusDevice, waves>>
      PROVE  ViewInv'
  BY <1>2 DEF ViewInv, ProcessGone, AgentInOrder, WavesUnderFocus
<1>3. ASSUME UNCHANGED <<focusDevice, waves, predispatch, available, dbginfo,
                         fifo, dispatch, phase, begun, hit>>,
             process' = "none" <=> process = "none"
      PROVE  ViewInv'
  BY <1>3 DEF ViewInv, AgentInOrder, WavesUnderFocus, WillBeCurrent,
     WillDebug, WillHaveWaves, WillBeInCallback, HitsWhileDebugged,
     LastBinaryOf, NoBinary, NoneCompletes, KilledWhenAnswered, WavesKilled
<1>4. CASE AgentStep
  BY <1>4, AgentKeepsViewInv
<1>5. CASE HandleHsailEvent
  BY <1>1, <1>5, EventKeepsViewInv
<1>6. CASE Start
  <2>1. /\ ~focusDevice /\ ~predispatch /\ ~available /\ fifo = <<>>
        /\ process = "none" /\ process' = "running"
        /\ UNCHANGED <<focusDevice, waves, predispatch, available, dbginfo,
                       fifo, dispatch, phase, begun, hit>>
    BY <1>6 DEF Start, Clean, DispatchInv, GoneWithProcess
  <2>2. /\ phase = "idle" /\ ~begun /\ ~hit /\ ~waves
    BY <2>1 DEF ViewInv, AgentInOrder, WavesUnderFocus
  <2>3. AgentInOrder' /\ WavesUnderFocus'
    BY <2>1, <2>2 DEF AgentInOrder, WavesUnderFocus
  <2>4. Len(fifo') = 0
    BY <2>1
  <2>5. WillBeCurrent'
    BY <2>1, <2>2, <2>4 DEF WillBeCurrent, WillDebug, WillHaveWaves,
       WillBeInCallback, HitsWhileDebugged, LastBinaryOf, NoBinary,
       NoneCompletes, After
  <2>6. KilledWhenAnswered'
    BY <2>1, <2>2 DEF KilledWhenAnswered, WavesKilled
  <2>7. QED
    BY <2>3, <2>5, <2>6 DEF ViewInv
<1>7. CASE UserStep /\ ~Start
  <2>1. CASE ProcessGone
    BY <1>2, <1>7, <2>1 DEF UserStep, Continue, Step, ResumeOrFail,
       ThreadCommand, Kill, Quit, CallAgent
  <2>2. CASE ~ProcessGone
    <3>1. process = "stopped"
      BY <1>7, <2>2 DEF UserStep, Continue, Step, ThreadCommand, Kill, Quit,
         Prompt, KillIsDelayed, DispatchInv, GoneWithProcess
    <3>2. QED
      BY <1>3, <1>7, <2>2, <3>1 DEF UserStep, Continue, Step, ResumeOrFail,
         ThreadCommand, Kill, Quit, CallAgent
  <2>3. QED
    BY <2>1, <2>2
<1>8. CASE Initialize \/ Stop \/ ProcessEnds \/ CallReturns \/ CallFails
  BY <1>3, <1>8 DEF Initialize, Stop, ProcessEnds, CallReturns, CallFails
<1>9. CASE HandleEnd
  BY <1>2, <1>9 DEF HandleEnd
<1>10. CASE UNCHANGED vars
  BY <1>3, <1>10 DEF vars
<1>11. QED
  BY <1>4, <1>5, <1>6, <1>7, <1>8, <1>9, <1>10 DEF Next

LEMMA ViewInvariant ==
  ASSUME Restart = "clean" PROVE Spec => [](DispatchInv /\ ViewInv)
<1>1. Init => ViewInv
  BY DEF Init, ViewInv, AgentInOrder, WavesUnderFocus
<1>2. QED
  BY <1>1, DispatchInvariant, ViewInvKept, PTL DEF Spec

\* Once all is read, gdb knows where the agent is: whether it debugs, is in the
\* predispatch callback, has waves that stopped.
THEOREM ViewBecomesCurrent ==
  ASSUME Restart = "clean" PROVE Spec => []ViewIsCurrent
<1>1. DispatchInv /\ ViewInv => ViewIsCurrent
  <2> SUFFICES ASSUME DispatchInv, ViewInv, Settled
               PROVE  /\ focusDevice = begun
                      /\ waves = hit
                      /\ predispatch = (phase = "predispatch")
    BY DEF ViewIsCurrent
  <2>1. WillBeCurrent /\ KilledWhenAnswered /\ Len(fifo) = 0 /\ fifo = <<>>
    BY DEF Settled, ViewInv
  <2>2. {focusDevice, waves, predispatch, begun, hit} \subseteq BOOLEAN
    BY DEF DispatchInv, TypeOK
  <2>3. phase # "killed"
    BY <2>1 DEF KilledWhenAnswered, WavesKilled
  <2>4. /\ WillDebug(fifo, Len(fifo)) <=> focusDevice
        /\ WillHaveWaves(fifo) <=> waves
        /\ WillBeInCallback(fifo) <=> predispatch
    BY <2>1, <2>2, AfterNone DEF WillDebug, WillHaveWaves, WillBeInCallback
  <2>5. QED
    BY <2>1, <2>2, <2>3, <2>4 DEF WillBeCurrent
<1>2. QED
  BY <1>1, ViewInvariant, PTL

\* Once all is read, a step has the momentary breakpoints of the dispatch it is
\* in, however many dispatches, binaries and ends were unread.
THEOREM StepsCurrentDispatch ==
  ASSUME Restart = "clean" PROVE Spec => []StepsItsDispatch
<1>1. DispatchInv /\ ViewInv => StepsItsDispatch
  <2> SUFFICES ASSUME ViewInv, Settled, available
               PROVE  dbginfo = dispatch
    BY DEF StepsItsDispatch
  <2>1. LastBinaryOf(fifo, dispatch) /\ Len(fifo) = 0
    BY DEF Settled, ViewInv, WillBeCurrent
  <2>2. QED
    BY <2>1 DEF LastBinaryOf, NoneCompletes
<1>2. QED
  BY <1>1, ViewInvariant, PTL

\* gdb never kills the process under waves it knows of, unless the agent has
\* killed them, whatever is unread when the user types kill or quit.
THEOREM WavesAlwaysKilledFirst ==
  ASSUME Restart = "clean" PROVE Spec => WavesKilledFirst
<1>1. DispatchInv /\ ViewInv /\ FocusNeedsLink /\ [Next]_vars =>
        [process = "stopped" /\ process' = "none" /\ waves =>
           phase = "killed"]_vars
  <2> SUFFICES ASSUME DispatchInv, ViewInv, FocusNeedsLink, [Next]_vars,
                      process = "stopped", process' = "none", waves
               PROVE  phase = "killed"
    OBVIOUS
  <2> USE DEF viewVars, skipVars, processVars, agentVars
  <2>1. KillIsDelayed /\ KilledWhenAnswered
    BY DEF ViewInv, WavesUnderFocus, FocusNeedsLink, KillIsDelayed
  <2>2. CASE ReadKillComplete
    <3>1. /\ Head(fifo) = fifo[1] /\ fifo \in Seq(Messages) /\ fifo # <<>>
          /\ fifo[1].type = "killComplete" /\ fifo[1].success
      BY <2>2, Reading DEF ReadKillComplete, Read, DispatchInv, TypeOK
    <3>2. 1 \in DOMAIN fifo
      BY <3>1
    <3>3. QED
      BY <2>1, <3>1, <3>2 DEF KilledWhenAnswered, WavesKilled
  <2>3. CASE Kill \/ Quit
    BY <2>1, <2>3 DEF Kill, Quit, CallAgent
  <2>4. CASE AgentStep
    BY <2>4, AgentKeepsDispatchInv
  <2>5. CASE HandleHsailEvent /\ ~ReadKillComplete
    BY <2>5 DEF HandleHsailEvent, ReadView, ReadNewBinary, ReadPredispatch,
       ReadDebugThread, ReadHit, ReadBegin, ReadEnd, ReadFocus, ReadKillFailed
  <2>6. CASE UserStep /\ ~Kill /\ ~Quit
    BY <2>6 DEF UserStep, Start, Continue, Step, ResumeOrFail, ThreadCommand,
       CallAgent, Prompt
  <2>7. CASE Initialize \/ Stop \/ ProcessEnds \/ HandleEnd \/ CallReturns
               \/ CallFails \/ UNCHANGED vars
    BY <2>7 DEF Initialize, Stop, ProcessEnds, HandleEnd, CallReturns,
       CallFails, vars
  <2>8. QED
    BY <2>2, <2>3, <2>4, <2>5, <2>6, <2>7 DEF Next
<1>2. SessionInv => FocusNeedsLink
  BY DEF SessionInv
<1>3. Init => SessionInv
  BY DEF Init, SessionInv, FocusNeedsLink, AssertionsHold, Assertions
<1>4. QED
  BY <1>1, <1>2, <1>3, ViewInvariant, SessionInvKept, PTL
     DEF Spec, WavesKilledFirst

=============================================================================
