------------------------- MODULE LinuxNatLwpsProofs -------------------------
(***************************************************************************)
(* Proofs about LinuxNatLwps, for every number of threads and of signals:  *)
(* what gdb believes of its LWPs is so, and no event of a thread is lost   *)
(* or invented while gdb stops all of them for the event of one.           *)
(*                                                                         *)
(* The properties are not inductive by themselves: what linux_nat_wait     *)
(* does with an LWP rests on what the kernel can have done to the thread   *)
(* since it was resumed (ThreadInv), and on what linux_nat_wait holds      *)
(* between its loops (PhaseInv).  IInv joins both with the properties; one *)
(* lemma for each action shows that it is kept.                            *)
(***************************************************************************)
EXTENDS MCLinuxNatLwps, TLAPS

Alive(l) == kern[l] \in {"runs", "stopped"}

\* A thread that lives is in the list, and is not marked as stopped while it
\* runs; one that does not live has nothing pending, and leaves the list.
ThreadInv ==
  \A l \in Lwps :
    /\ Alive(l) => l \in lwps
    /\ kern[l] = "runs" => l \notin stopped
    /\ kern[l] # "stopped" => report[l] = "none"
    /\ ~Alive(l) => status[l] = "none" /\ signals[l] = {} /\ l \notin sigstop
    /\ report[l] = "stop" => l \notin sigstop
    /\ kern[l] = "reaped" => l \notin lwps \/ event.status = "exit"

\* The event of linux_nat_wait_1, by phase.
PhaseInv ==
  /\ phase = "wait" => event = NoEvent
  /\ phase = "stopping" =>
       /\ event.lwp \in stopped
       /\ status[event.lwp] = "none"
       /\ event.status # "none"
  /\ event.status = "exit" =>
       /\ phase \in {"stopping", "over"}
       /\ lwps = {event.lwp}
       /\ kern[event.lwp] = "reaped"
  /\ phase = "over" => event.status = "exit"
  /\ phase # "stopping" => \A l \in past : report[l] = "trap"

\* The inductive invariant.
IInv ==
  /\ TypeOK /\ AssertionsHold
  /\ StopsAccounted /\ SignalsAccounted /\ HitsAccounted
  /\ ThreadInv /\ PhaseInv

\* What waitpid has of a thread depends on what the thread is.
LEMMA WaitableFacts ==
  ASSUME TypeOK, NEW l \in Lwps
  PROVE  /\ Waitable(l) = "exit" => kern[l] = "exited"
         /\ kern[l] = "stopped" => Waitable(l) = report[l]
         /\ Waitable(l) \notin {"exit", "none"} => kern[l] = "stopped"
BY DEF Waitable, TypeOK, Statuses, Signals

\* What StopAll does, without the cases of the SIGINT.
StopFacts(l, s, st) ==
  /\ status' \in [Lwps -> Statuses \cup {"none"}]
  /\ \A o \in Lwps :
       \/ status'[o] = st[o]
       \/ st[o] = "int" /\ status'[o] = "none" /\ o \in lwps \cap stopped
  /\ ignoring' \subseteq lwps
  /\ stopped' = stopped \cup {l}
  /\ signalled' = signalled \cup (lwps \ (stopped \cup signalled \cup {l}))
  /\ sigstop' \subseteq Lwps
  /\ \A o \in Lwps :
       o \in sigstop' <=>
         \/ o \in sigstop
         \/ /\ o \in lwps \ (stopped \cup signalled \cup {l})
            /\ kern[o] \in {"runs", "stopped"}
  /\ event' = [lwp |-> l, status |-> s]
  /\ phase' = "stopping"

\* StopAll does that (stop_callback, set_ignore_sigint).
LEMMA StopAllFacts ==
  ASSUME TypeOK, NEW l \in Lwps, NEW s,
         NEW st \in [Lwps -> Statuses \cup {"none"}],
         StopAll(l, s, st)
  PROVE  StopFacts(l, s, st)
<1>1. CASE s = "int"
  BY <1>1 DEF StopFacts, StopAll, IgnoreInterrupts, Asked, TypeOK
<1>2. CASE s # "int"
  BY <1>2 DEF StopFacts, StopAll, IgnoreInterrupts, MaybeClear, Asked, TypeOK
<1> QED
  BY <1>1, <1>2

\* The wait takes an event that stayed pending: it is passed on, or all LWPs
\* are stopped for it (status_callback, then linux_nat_wait_1).
LEMMA TakePendingKeeps ==
  ASSUME IInv, NEW l \in Lwps, TakePending(l)
  PROVE  IInv'
<1> USE DEF IInv
<1>1. TypeOK'
  <2>1. (/\ phase \in {"core", "wait", "stopping", "over"}
         /\ lwps \subseteq Lwps
         /\ bp \in {"in", "lifted", "deleted"}
         /\ sigstop \subseteq Lwps
         /\ past \subseteq Lwps)'
    BY DEF TakePending, IsFirst, Pending, IsPassed, StopAll,
         IgnoreInterrupts, MaybeClear, Asked, Go, TypeOK, Lwps, Statuses,
         Signals, userVars
  <2>2. ({stopped, signalled, resumed, stepped, step, ignoring}
          \subseteq SUBSET lwps)'
    BY DEF TakePending, IsFirst, Pending, IsPassed, StopAll,
         IgnoreInterrupts, MaybeClear, Asked, Go, TypeOK, Lwps, Statuses,
         Signals, userVars
  <2>3. (/\ event \in [lwp : Lwps, status : Statuses \cup {"exit", "none"}]
         /\ status \in [Lwps -> Statuses \cup {"none"}])'
    BY DEF TakePending, IsFirst, Pending, IsPassed, StopAll,
         IgnoreInterrupts, MaybeClear, Asked, Go, TypeOK, Lwps, Statuses,
         Signals, userVars
  <2>4. (/\ kern \in [Lwps -> {"runs", "stopped", "exited", "reaped"}]
         /\ report \in [Lwps -> Statuses \cup {"none"}]
         /\ signals \in [Lwps -> SUBSET Signals]
         /\ due \in [Lwps -> SUBSET Signals])'
    BY DEF TakePending, IsFirst, Pending, IsPassed, StopAll,
         IgnoreInterrupts, MaybeClear, Asked, Go, TypeOK, Lwps, Statuses,
         Signals, userVars
  <2>5. (interrupt \in BOOLEAN /\ typed \in BOOLEAN)'
    BY DEF TakePending, IsFirst, Pending, IsPassed, StopAll,
         IgnoreInterrupts, MaybeClear, Asked, Go, TypeOK, Lwps, Statuses,
         Signals, userVars
  <2>6. (sent \in 0..MaxSignals /\ typings \in 0..MaxTyped)'
    BY MaxSignalsAssumption, MaxTypedAssumption DEF TakePending, IsFirst,
         Pending, IsPassed, StopAll, IgnoreInterrupts, MaybeClear, Asked,
         Go, TypeOK, Lwps, Statuses, Signals, userVars
  <2> QED
    BY <2>1, <2>2, <2>3, <2>4, <2>5, <2>6 DEF TypeOK
<1>2. AssertionsHold'
  BY DEF TakePending, IsFirst, Pending, IsPassed, StopAll, IgnoreInterrupts,
       MaybeClear, Asked, Go, TypeOK, AssertionsHold, Knows, StopsAccounted,
       ThreadInv, PhaseInv, Alive, NoEvent, userVars
<1>3. StopsAccounted'
  <2>1. CASE IsPassed(l, status[l])
    BY <2>1 DEF TakePending, IsFirst, Pending, IsPassed, Go, TypeOK,
         StopsAccounted, ThreadInv, Alive, userVars
  <2>2. CASE ~IsPassed(l, status[l])
    <3>1. StopFacts(l, status[l], [status EXCEPT ![l] = "none"])
      BY <2>2, StopAllFacts DEF TakePending, TypeOK
    <3> QED
      BY <2>2, <3>1 DEF StopFacts, TakePending, IsFirst, Pending, IsPassed,
           Go, TypeOK, StopsAccounted, ThreadInv, Alive, userVars
  <2> QED
    BY <2>1, <2>2
<1>4. SignalsAccounted'
  BY DEF TakePending, IsFirst, Pending, IsPassed, StopAll, IgnoreInterrupts,
       MaybeClear, Asked, Go, TypeOK, SignalsAccounted, Held, Signals,
       userVars
<1>5. HitsAccounted'
  BY DEF TakePending, IsFirst, Pending, IsPassed, StopAll, IgnoreInterrupts,
       MaybeClear, Asked, Go, TypeOK, HitsAccounted, Held, userVars
<1>6. ThreadInv'
  <2>1. CASE IsPassed(l, status[l])
    BY <2>1 DEF TakePending, IsFirst, Pending, IsPassed, Go, TypeOK,
         AssertionsHold, Knows, StopsAccounted, ThreadInv, PhaseInv, Alive,
         NoEvent, userVars
  <2>2. CASE ~IsPassed(l, status[l])
    <3>1. StopFacts(l, status[l], [status EXCEPT ![l] = "none"])
      BY <2>2, StopAllFacts DEF TakePending, TypeOK
    <3> QED
      BY <2>2, <3>1 DEF StopFacts, TakePending, IsFirst, Pending, IsPassed,
           Go, TypeOK, AssertionsHold, Knows, StopsAccounted, ThreadInv,
           PhaseInv, Alive, NoEvent, userVars
  <2> QED
    BY <2>1, <2>2
<1>7. PhaseInv'
  BY NumLwpsAssumption DEF TakePending, IsFirst, Pending, IsPassed, StopAll,
       IgnoreInterrupts, MaybeClear, Asked, Go, TypeOK, AssertionsHold,
       Knows, StopsAccounted, SignalsAccounted, HitsAccounted, ThreadInv,
       PhaseInv, Alive, Held, Signals, Statuses, NoEvent, Lwps, Leader,
       userVars
<1> QED
  BY <1>1, <1>2, <1>3, <1>4, <1>5, <1>6, <1>7

\* A thread exits that is not the last.
LEMMA FilterExitKeeps ==
  ASSUME IInv, NEW l \in Lwps, FilterExit(l)
  PROVE  IInv'
<1> USE DEF IInv
<1>1. TypeOK'
  BY WaitableFacts DEF FilterExit, Collect, ExitLwp, TypeOK, Lwps, Statuses,
       Signals, userVars
<1>2. AssertionsHold'
  BY WaitableFacts DEF FilterExit, Collect, ExitLwp, TypeOK, AssertionsHold,
       Knows, ThreadInv, userVars
<1>3. StopsAccounted'
  BY WaitableFacts DEF FilterExit, Collect, ExitLwp, TypeOK, StopsAccounted,
       ThreadInv, Alive, userVars
<1>4. SignalsAccounted'
  BY WaitableFacts DEF FilterExit, Collect, ExitLwp, TypeOK, AssertionsHold,
       Knows, SignalsAccounted, Held, Signals, ThreadInv, PhaseInv, Alive,
       NoEvent, userVars
<1>5. HitsAccounted'
  BY WaitableFacts DEF FilterExit, Collect, ExitLwp, TypeOK, AssertionsHold,
       Knows, HitsAccounted, Held, ThreadInv, PhaseInv, Alive, NoEvent,
       userVars
<1>6. ThreadInv'
  BY WaitableFacts DEF FilterExit, Collect, ExitLwp, TypeOK, ThreadInv,
       Alive, userVars
<1>7. PhaseInv'
  BY WaitableFacts DEF FilterExit, Collect, ExitLwp, TypeOK, PhaseInv,
       NoEvent, userVars
<1> QED
  BY <1>1, <1>2, <1>3, <1>4, <1>5, <1>6, <1>7

\* A late SIGSTOP of gdb, or a SIGINT reported for another thread, is taken.
LEMMA FilterDelayedKeeps ==
  ASSUME IInv, NEW l \in Lwps, FilterDelayed(l)
  PROVE  IInv'
<1> USE DEF IInv
<1>1. TypeOK'
  BY DEF FilterDelayed, DelayedStop, DelayedInterrupt, CollectAndGo, TypeOK,
       Lwps, Statuses, Signals, userVars
<1>2. AssertionsHold'
  BY DEF FilterDelayed, DelayedStop, DelayedInterrupt, CollectAndGo, TypeOK,
       AssertionsHold, Knows, StopsAccounted, ThreadInv, PhaseInv, Alive,
       NoEvent, userVars
<1>3. StopsAccounted'
  <2> SUFFICES ASSUME NEW o \in lwps'
               PROVE  /\ status'[o] # "stop"
                      /\ kern'[o] \in {"runs", "stopped"} =>
                           (o \in signalled' <=>
                              o \in sigstop' \/ report'[o] = "stop")
    <3> event'.status # "stop"
      BY DEF FilterDelayed, DelayedStop, DelayedInterrupt, CollectAndGo,
           TypeOK, StopsAccounted, ThreadInv, Alive, userVars
    <3> QED
      BY DEF StopsAccounted
  <2>1. CASE o = l
    BY <2>1 DEF FilterDelayed, DelayedStop, DelayedInterrupt, CollectAndGo,
         TypeOK, StopsAccounted, ThreadInv, Alive, userVars
  <2>2. CASE o # l
    BY <2>2 DEF FilterDelayed, DelayedStop, DelayedInterrupt, CollectAndGo,
         TypeOK, StopsAccounted, ThreadInv, Alive, userVars
  <2> QED
    BY <2>1, <2>2
<1>4. SignalsAccounted'
  BY DEF FilterDelayed, DelayedStop, DelayedInterrupt, CollectAndGo, TypeOK,
       SignalsAccounted, Held, Signals, userVars
<1>5. HitsAccounted'
  BY DEF FilterDelayed, DelayedStop, DelayedInterrupt, CollectAndGo, TypeOK,
       HitsAccounted, Held, userVars
<1>6. ThreadInv'
  BY DEF FilterDelayed, DelayedStop, DelayedInterrupt, CollectAndGo, TypeOK,
       ThreadInv, Alive, userVars
<1>7. PhaseInv'
  BY DEF FilterDelayed, DelayedStop, DelayedInterrupt, CollectAndGo, TypeOK,
       PhaseInv, NoEvent, userVars
<1> QED
  BY <1>1, <1>2, <1>3, <1>4, <1>5, <1>6, <1>7

\* waitpid has an event to pass on, or to report.
LEMMA FilterEventKeeps ==
  ASSUME IInv, NEW l \in Lwps, FilterEvent(l)
  PROVE  IInv'
<1> USE DEF IInv
<1>1. TypeOK'
  <2>1. (/\ phase \in {"core", "wait", "stopping", "over"}
         /\ lwps \subseteq Lwps
         /\ bp \in {"in", "lifted", "deleted"}
         /\ sigstop \subseteq Lwps
         /\ past \subseteq Lwps)'
    BY WaitableFacts DEF FilterEvent, DelayedStop, DelayedInterrupt,
         IsPassed, StopAll, IgnoreInterrupts, MaybeClear, Asked, Collect,
         CollectAndGo, TypeOK, Lwps, Statuses, Signals, userVars
  <2>2. ({stopped, signalled, resumed, stepped, step, ignoring}
          \subseteq SUBSET lwps)'
    BY WaitableFacts DEF FilterEvent, DelayedStop, DelayedInterrupt,
         IsPassed, StopAll, IgnoreInterrupts, MaybeClear, Asked, Collect,
         CollectAndGo, TypeOK, Lwps, Statuses, Signals, userVars
  <2>3. (/\ event \in [lwp : Lwps, status : Statuses \cup {"exit", "none"}]
         /\ status \in [Lwps -> Statuses \cup {"none"}])'
    BY WaitableFacts DEF FilterEvent, DelayedStop, DelayedInterrupt,
         IsPassed, StopAll, IgnoreInterrupts, MaybeClear, Asked, Collect,
         CollectAndGo, TypeOK, Lwps, Statuses, Signals, userVars
  <2>4. (/\ kern \in [Lwps -> {"runs", "stopped", "exited", "reaped"}]
         /\ report \in [Lwps -> Statuses \cup {"none"}]
         /\ signals \in [Lwps -> SUBSET Signals]
         /\ due \in [Lwps -> SUBSET Signals])'
    BY WaitableFacts DEF FilterEvent, DelayedStop, DelayedInterrupt,
         IsPassed, StopAll, IgnoreInterrupts, MaybeClear, Asked, Collect,
         CollectAndGo, TypeOK, Lwps, Statuses, Signals, userVars
  <2>5. (interrupt \in BOOLEAN /\ typed \in BOOLEAN)'
    BY WaitableFacts DEF FilterEvent, DelayedStop, DelayedInterrupt,
         IsPassed, StopAll, IgnoreInterrupts, MaybeClear, Asked, Collect,
         CollectAndGo, TypeOK, Lwps, Statuses, Signals, userVars
  <2>6. (sent \in 0..MaxSignals /\ typings \in 0..MaxTyped)'
    BY WaitableFacts, MaxSignalsAssumption, MaxTypedAssumption DEF
         FilterEvent, DelayedStop, DelayedInterrupt, IsPassed, StopAll,
         IgnoreInterrupts, MaybeClear, Asked, Collect, CollectAndGo, TypeOK,
         Lwps, Statuses, Signals, userVars
  <2> QED
    BY <2>1, <2>2, <2>3, <2>4, <2>5, <2>6 DEF TypeOK
<1>2. AssertionsHold'
  BY WaitableFacts DEF FilterEvent, DelayedStop, DelayedInterrupt, IsPassed,
       StopAll, IgnoreInterrupts, MaybeClear, Asked, Collect, CollectAndGo,
       TypeOK, AssertionsHold, Knows, StopsAccounted, ThreadInv, PhaseInv,
       Alive, NoEvent, userVars
<1>3. StopsAccounted'
  <2>1. CASE IsPassed(l, Waitable(l))
    BY <2>1, WaitableFacts DEF FilterEvent, DelayedStop, DelayedInterrupt,
         IsPassed, Collect, CollectAndGo, TypeOK, StopsAccounted, ThreadInv,
         Alive, userVars
  <2>2. CASE ~IsPassed(l, Waitable(l))
    <3>1. StopFacts(l, Waitable(l), status)
      BY <2>2, StopAllFacts DEF FilterEvent, TypeOK
    <3> QED
      BY <2>2, <3>1, WaitableFacts DEF StopFacts, FilterEvent, DelayedStop,
           DelayedInterrupt, IsPassed, Collect, CollectAndGo, TypeOK,
           AssertionsHold, Knows, StopsAccounted, ThreadInv, PhaseInv,
           Alive, NoEvent, userVars
  <2> QED
    BY <2>1, <2>2
<1>4. SignalsAccounted'
  BY WaitableFacts DEF FilterEvent, DelayedStop, DelayedInterrupt, IsPassed,
       StopAll, IgnoreInterrupts, MaybeClear, Asked, Collect, CollectAndGo,
       TypeOK, SignalsAccounted, Held, Signals, userVars
<1>5. HitsAccounted'
  BY WaitableFacts DEF FilterEvent, DelayedStop, DelayedInterrupt, IsPassed,
       StopAll, IgnoreInterrupts, MaybeClear, Asked, Collect, CollectAndGo,
       TypeOK, HitsAccounted, Held, userVars
<1>6. ThreadInv'
  <2>1. CASE IsPassed(l, Waitable(l))
    BY <2>1, WaitableFacts DEF FilterEvent, DelayedStop, DelayedInterrupt,
         IsPassed, Collect, CollectAndGo, TypeOK, ThreadInv, Alive, userVars
  <2>2. CASE ~IsPassed(l, Waitable(l))
    <3>1. StopFacts(l, Waitable(l), status)
      BY <2>2, StopAllFacts DEF FilterEvent, TypeOK
    <3> QED
      BY <2>2, <3>1, WaitableFacts DEF StopFacts, FilterEvent, DelayedStop,
           DelayedInterrupt, IsPassed, Collect, CollectAndGo, TypeOK,
           AssertionsHold, Knows, StopsAccounted, ThreadInv, PhaseInv,
           Alive, NoEvent, userVars
  <2> QED
    BY <2>1, <2>2
<1>7. PhaseInv'
  BY WaitableFacts DEF FilterEvent, DelayedStop, DelayedInterrupt, IsPassed,
       StopAll, IgnoreInterrupts, MaybeClear, Asked, Collect, CollectAndGo,
       TypeOK, PhaseInv, NoEvent, ThreadInv, Alive, AssertionsHold, Knows,
       HitsAccounted, Held, StopsAccounted, userVars
<1> QED
  BY <1>1, <1>2, <1>3, <1>4, <1>5, <1>6, <1>7

\* check_zombie_leaders drops the leader.
LEMMA DropZombieLeaderKeeps ==
  ASSUME IInv, DropZombieLeader
  PROVE  IInv'
<1> USE DEF IInv
<1>1. TypeOK'
  BY DEF DropZombieLeader, LeaderVanished, Zombie, ExitLwp, TypeOK, Lwps,
       Statuses, Signals, kernelVars, userVars
<1>2. AssertionsHold'
  BY DEF DropZombieLeader, LeaderVanished, Zombie, ExitLwp, TypeOK,
       AssertionsHold, Knows, ThreadInv, kernelVars, userVars
<1>3. StopsAccounted'
  BY DEF DropZombieLeader, LeaderVanished, Zombie, ExitLwp, TypeOK,
       StopsAccounted, ThreadInv, Alive, kernelVars, userVars
<1>4. SignalsAccounted'
  BY DEF DropZombieLeader, LeaderVanished, Zombie, ExitLwp, TypeOK,
       AssertionsHold, Knows, SignalsAccounted, Held, Signals, ThreadInv,
       PhaseInv, Alive, NoEvent, kernelVars, userVars
<1>5. HitsAccounted'
  BY DEF DropZombieLeader, LeaderVanished, Zombie, ExitLwp, TypeOK,
       AssertionsHold, Knows, HitsAccounted, Held, ThreadInv, PhaseInv,
       Alive, NoEvent, kernelVars, userVars
<1>6. ThreadInv'
  BY DEF DropZombieLeader, LeaderVanished, Zombie, ExitLwp, TypeOK,
       ThreadInv, Alive, kernelVars, userVars
<1>7. PhaseInv'
  BY DEF DropZombieLeader, LeaderVanished, Zombie, ExitLwp, TypeOK,
       PhaseInv, NoEvent, kernelVars, userVars
<1> QED
  BY <1>1, <1>2, <1>3, <1>4, <1>5, <1>6, <1>7

\* The wait ends with nothing resumed.
LEMMA NoResumedKeeps ==
  ASSUME IInv, NoResumed
  PROVE  IInv'
<1> USE DEF IInv
<1>1. TypeOK'
  BY DEF NoResumed, Quiescent, TypeOK, Lwps, Statuses, Signals, lwpVars,
       kernelVars, userVars
<1>2. AssertionsHold'
  BY DEF NoResumed, Quiescent, TypeOK, AssertionsHold, Knows, ThreadInv,
       lwpVars, kernelVars, userVars
<1>3. StopsAccounted'
  BY DEF NoResumed, Quiescent, TypeOK, StopsAccounted, ThreadInv, Alive,
       lwpVars, kernelVars, userVars
<1>4. SignalsAccounted'
  BY DEF NoResumed, Quiescent, TypeOK, SignalsAccounted, Held, Signals,
       lwpVars, kernelVars, userVars
<1>5. HitsAccounted'
  BY DEF NoResumed, Quiescent, TypeOK, HitsAccounted, Held, lwpVars,
       kernelVars, userVars
<1>6. ThreadInv'
  BY DEF NoResumed, Quiescent, TypeOK, ThreadInv, Alive, lwpVars,
       kernelVars, userVars
<1>7. PhaseInv'
  BY DEF NoResumed, Quiescent, TypeOK, PhaseInv, NoEvent, lwpVars,
       kernelVars, userVars
<1> QED
  BY <1>1, <1>2, <1>3, <1>4, <1>5, <1>6, <1>7

\* An LWP exits while gdb waits for it to stop.
LEMMA AwaitExitKeeps ==
  ASSUME IInv, NEW l \in Lwps, AwaitExit(l)
  PROVE  IInv'
<1> USE DEF IInv
<1>1. TypeOK'
  BY WaitableFacts DEF AwaitExit, Awaited, Zombie, Collect, ExitLwp, TypeOK,
       Lwps, Statuses, Signals, userVars
<1>2. AssertionsHold'
  BY WaitableFacts DEF AwaitExit, Awaited, Zombie, Collect, ExitLwp, TypeOK,
       AssertionsHold, Knows, ThreadInv, userVars
<1>3. StopsAccounted'
  BY WaitableFacts DEF AwaitExit, Awaited, Zombie, Collect, ExitLwp, TypeOK,
       StopsAccounted, ThreadInv, Alive, userVars
<1>4. SignalsAccounted'
  BY WaitableFacts DEF AwaitExit, Awaited, Zombie, Collect, ExitLwp, TypeOK,
       AssertionsHold, Knows, SignalsAccounted, Held, Signals, ThreadInv,
       PhaseInv, Alive, NoEvent, userVars
<1>5. HitsAccounted'
  BY WaitableFacts DEF AwaitExit, Awaited, Zombie, Collect, ExitLwp, TypeOK,
       AssertionsHold, Knows, HitsAccounted, Held, ThreadInv, PhaseInv,
       Alive, NoEvent, userVars
<1>6. ThreadInv'
  BY WaitableFacts DEF AwaitExit, Awaited, Zombie, Collect, ExitLwp, TypeOK,
       ThreadInv, Alive, userVars
<1>7. PhaseInv'
  BY WaitableFacts DEF AwaitExit, Awaited, Zombie, Collect, ExitLwp, TypeOK,
       PhaseInv, NoEvent, userVars
<1> QED
  BY <1>1, <1>2, <1>3, <1>4, <1>5, <1>6, <1>7

\* An LWP shows a SIGINT that was reported for another thread.
LEMMA AwaitIgnoredKeeps ==
  ASSUME IInv, NEW l \in Lwps, AwaitIgnored(l)
  PROVE  IInv'
<1> USE DEF IInv
<1>1. TypeOK'
  BY DEF AwaitIgnored, Awaited, DelayedInterrupt, CollectAndGo, TypeOK,
       Lwps, Statuses, Signals, userVars
<1>2. AssertionsHold'
  BY DEF AwaitIgnored, Awaited, DelayedInterrupt, CollectAndGo, TypeOK,
       AssertionsHold, Knows, ThreadInv, userVars
<1>3. StopsAccounted'
  BY DEF AwaitIgnored, Awaited, DelayedInterrupt, CollectAndGo, TypeOK,
       StopsAccounted, ThreadInv, Alive, userVars
<1>4. SignalsAccounted'
  BY DEF AwaitIgnored, Awaited, DelayedInterrupt, CollectAndGo, TypeOK,
       SignalsAccounted, Held, Signals, userVars
<1>5. HitsAccounted'
  BY DEF AwaitIgnored, Awaited, DelayedInterrupt, CollectAndGo, TypeOK,
       HitsAccounted, Held, userVars
<1>6. ThreadInv'
  BY DEF AwaitIgnored, Awaited, DelayedInterrupt, CollectAndGo, TypeOK,
       ThreadInv, Alive, userVars
<1>7. PhaseInv'
  BY DEF AwaitIgnored, Awaited, DelayedInterrupt, CollectAndGo, TypeOK,
       PhaseInv, NoEvent, userVars
<1> QED
  BY <1>1, <1>2, <1>3, <1>4, <1>5, <1>6, <1>7

\* An LWP stops: for the SIGSTOP, or with an event that stays pending.
LEMMA AwaitStopKeeps ==
  ASSUME IInv, NEW l \in Lwps, AwaitStop(l)
  PROVE  IInv'
<1> USE DEF IInv
<1>1. TypeOK'
  BY WaitableFacts DEF AwaitStop, Awaited, DelayedInterrupt, Collect,
       MaybeClear, Keep, TypeOK, Lwps, Statuses, Signals, userVars
<1>2. AssertionsHold'
  BY WaitableFacts DEF AwaitStop, Awaited, DelayedInterrupt, Collect,
       MaybeClear, Keep, TypeOK, AssertionsHold, Knows, ThreadInv, userVars
<1>3. StopsAccounted'
  <2> SUFFICES ASSUME NEW o \in lwps'
               PROVE  /\ status'[o] # "stop"
                      /\ kern'[o] \in {"runs", "stopped"} =>
                           (o \in signalled' <=>
                              o \in sigstop' \/ report'[o] = "stop")
    <3> event'.status # "stop"
      BY WaitableFacts DEF AwaitStop, Awaited, DelayedInterrupt, Collect,
           MaybeClear, Keep, TypeOK, StopsAccounted, ThreadInv, Alive,
           userVars
    <3> QED
      BY DEF StopsAccounted
  <2>1. CASE o = l
    BY <2>1, WaitableFacts DEF AwaitStop, Awaited, DelayedInterrupt,
         Collect, MaybeClear, Keep, TypeOK, StopsAccounted, ThreadInv,
         Alive, userVars
  <2>2. CASE o # l
    BY <2>2, WaitableFacts DEF AwaitStop, Awaited, DelayedInterrupt,
         Collect, MaybeClear, Keep, TypeOK, StopsAccounted, ThreadInv,
         Alive, userVars
  <2> QED
    BY <2>1, <2>2
<1>4. SignalsAccounted'
  BY WaitableFacts DEF AwaitStop, Awaited, DelayedInterrupt, Collect,
       MaybeClear, Keep, TypeOK, AssertionsHold, Knows, SignalsAccounted,
       Held, Signals, ThreadInv, PhaseInv, Alive, NoEvent, userVars
<1>5. HitsAccounted'
  BY WaitableFacts DEF AwaitStop, Awaited, DelayedInterrupt, Collect,
       MaybeClear, Keep, TypeOK, AssertionsHold, Knows, HitsAccounted, Held,
       ThreadInv, PhaseInv, Alive, NoEvent, userVars
<1>6. ThreadInv'
  BY WaitableFacts DEF AwaitStop, Awaited, DelayedInterrupt, Collect,
       MaybeClear, Keep, TypeOK, ThreadInv, Alive, userVars
<1>7. PhaseInv'
  BY WaitableFacts DEF AwaitStop, Awaited, DelayedInterrupt, Collect,
       MaybeClear, Keep, TypeOK, PhaseInv, NoEvent, userVars
<1> QED
  BY <1>1, <1>2, <1>3, <1>4, <1>5, <1>6, <1>7

\* The event is chosen and reported; the other hits are cancelled.
LEMMA ReportKeeps ==
  ASSUME IInv, NEW chosen \in Lwps, Report(chosen)
  PROVE  IInv'
<1> USE DEF IInv
<1>1. TypeOK'
  <2>1. (/\ phase \in {"core", "wait", "stopping", "over"}
         /\ lwps \subseteq Lwps
         /\ bp \in {"in", "lifted", "deleted"}
         /\ sigstop \subseteq Lwps
         /\ past \subseteq Lwps)'
    BY DEF Report, Recorded, Cancelled, RemainingStatus, Candidates,
         IsFirst, TypeOK, Lwps, Statuses, Signals
  <2>2. ({stopped, signalled, resumed, stepped, step, ignoring}
          \subseteq SUBSET lwps)'
    BY DEF Report, Recorded, Cancelled, RemainingStatus, Candidates,
         IsFirst, TypeOK, Lwps, Statuses, Signals
  <2>3. (/\ event \in [lwp : Lwps, status : Statuses \cup {"exit", "none"}]
         /\ status \in [Lwps -> Statuses \cup {"none"}])'
    BY NumLwpsAssumption DEF Report, Recorded, Cancelled, RemainingStatus,
         Candidates, IsFirst, TypeOK, Lwps, Statuses, Signals, NoEvent,
         Leader, PhaseInv, ThreadInv
  <2>4. (/\ kern \in [Lwps -> {"runs", "stopped", "exited", "reaped"}]
         /\ report \in [Lwps -> Statuses \cup {"none"}]
         /\ signals \in [Lwps -> SUBSET Signals]
         /\ due \in [Lwps -> SUBSET Signals])'
    BY DEF Report, Recorded, Cancelled, RemainingStatus, Candidates,
         IsFirst, TypeOK, Lwps, Statuses, Signals
  <2>5. (interrupt \in BOOLEAN /\ typed \in BOOLEAN)'
    BY DEF Report, Recorded, Cancelled, RemainingStatus, Candidates,
         IsFirst, TypeOK, Lwps, Statuses, Signals
  <2>6. (sent \in 0..MaxSignals /\ typings \in 0..MaxTyped)'
    BY MaxSignalsAssumption, MaxTypedAssumption DEF Report, Recorded,
         Cancelled, RemainingStatus, Candidates, IsFirst, TypeOK, Lwps,
         Statuses, Signals
  <2> QED
    BY <2>1, <2>2, <2>3, <2>4, <2>5, <2>6 DEF TypeOK
<1>2. AssertionsHold'
  BY DEF Report, Recorded, Cancelled, RemainingStatus, Candidates, IsFirst,
       TypeOK, AssertionsHold, Knows, StopsAccounted, ThreadInv, PhaseInv,
       Alive, NoEvent
<1>3. StopsAccounted'
  BY DEF Report, Recorded, Cancelled, RemainingStatus, Candidates, IsFirst,
       TypeOK, StopsAccounted, ThreadInv, Alive
<1>4. SignalsAccounted'
  BY DEF Report, Recorded, Cancelled, RemainingStatus, Candidates, IsFirst,
       TypeOK, AssertionsHold, Knows, SignalsAccounted, Held, Signals,
       ThreadInv, PhaseInv, Alive, NoEvent
<1>5. HitsAccounted'
  BY DEF Report, Recorded, Cancelled, RemainingStatus, Candidates, IsFirst,
       TypeOK, AssertionsHold, Knows, HitsAccounted, Held, ThreadInv,
       PhaseInv, Alive, NoEvent
<1>6. ThreadInv'
  BY DEF Report, Recorded, Cancelled, RemainingStatus, Candidates, IsFirst,
       TypeOK, AssertionsHold, Knows, StopsAccounted, ThreadInv, PhaseInv,
       Alive, NoEvent
<1>7. PhaseInv'
  BY NumLwpsAssumption DEF Report, Recorded, Cancelled, RemainingStatus,
       Candidates, IsFirst, TypeOK, AssertionsHold, Knows, StopsAccounted,
       SignalsAccounted, HitsAccounted, ThreadInv, PhaseInv, Alive, Held,
       Signals, Statuses, NoEvent, Lwps, Leader
<1> QED
  BY <1>1, <1>2, <1>3, <1>4, <1>5, <1>6, <1>7

\* The core resumes all LWPs, or one alone.
LEMMA ResumeKeeps ==
  ASSUME IInv, NEW l \in Lwps, NEW all \in BOOLEAN, NEW stepping \in BOOLEAN,
         Resume(l, all, stepping)
  PROVE  IInv'
<1> USE DEF IInv
<1>1. TypeOK'
  BY NumLwpsAssumption DEF Resume, Go, TypeOK, Lwps, Statuses, Signals,
       NoEvent, Leader, PhaseInv, ThreadInv, userVars
<1>2. AssertionsHold'
  BY DEF Resume, Go, TypeOK, AssertionsHold, Knows, StopsAccounted,
       ThreadInv, PhaseInv, Alive, NoEvent, userVars
<1>3. StopsAccounted'
  BY DEF Resume, Go, TypeOK, AssertionsHold, Knows, StopsAccounted,
       ThreadInv, PhaseInv, Alive, NoEvent, userVars
<1>4. SignalsAccounted'
  BY DEF Resume, Go, TypeOK, SignalsAccounted, Held, Signals, userVars
<1>5. HitsAccounted'
  BY DEF Resume, Go, TypeOK, AssertionsHold, Knows, HitsAccounted, Held,
       ThreadInv, PhaseInv, Alive, NoEvent, userVars
<1>6. ThreadInv'
  BY DEF Resume, Go, TypeOK, AssertionsHold, Knows, StopsAccounted,
       ThreadInv, PhaseInv, Alive, NoEvent, userVars
<1>7. PhaseInv'
  BY DEF Resume, Go, TypeOK, PhaseInv, NoEvent, ThreadInv, Alive,
       AssertionsHold, Knows, HitsAccounted, Held, StopsAccounted, userVars
<1> QED
  BY <1>1, <1>2, <1>3, <1>4, <1>5, <1>6, <1>7

\* The user deletes the breakpoint.
LEMMA DeleteKeeps ==
  ASSUME IInv, Delete
  PROVE  IInv'
<1> USE DEF IInv
<1>1. TypeOK'
  BY DEF Delete, TypeOK, Lwps, Statuses, Signals, lwpVars, kernelVars,
       userVars
<1>2. AssertionsHold'
  BY DEF Delete, TypeOK, AssertionsHold, Knows, ThreadInv, lwpVars,
       kernelVars, userVars
<1>3. StopsAccounted'
  BY DEF Delete, TypeOK, StopsAccounted, ThreadInv, Alive, lwpVars,
       kernelVars, userVars
<1>4. SignalsAccounted'
  BY DEF Delete, TypeOK, SignalsAccounted, Held, Signals, lwpVars,
       kernelVars, userVars
<1>5. HitsAccounted'
  BY DEF Delete, TypeOK, AssertionsHold, Knows, HitsAccounted, Held,
       ThreadInv, PhaseInv, Alive, NoEvent, lwpVars, kernelVars, userVars
<1>6. ThreadInv'
  BY DEF Delete, TypeOK, ThreadInv, Alive, lwpVars, kernelVars, userVars
<1>7. PhaseInv'
  BY DEF Delete, TypeOK, PhaseInv, NoEvent, lwpVars, kernelVars, userVars
<1> QED
  BY <1>1, <1>2, <1>3, <1>4, <1>5, <1>6, <1>7

\* A signal is sent to a thread.
LEMMA SendKeeps ==
  ASSUME IInv, NEW l \in Lwps, NEW s \in Signals, Send(l, s)
  PROVE  IInv'
<1> USE DEF IInv
<1>1. TypeOK'
  <2>1. (/\ phase \in {"core", "wait", "stopping", "over"}
         /\ lwps \subseteq Lwps
         /\ bp \in {"in", "lifted", "deleted"}
         /\ sigstop \subseteq Lwps
         /\ past \subseteq Lwps)'
    BY DEF Send, TypeOK, Lwps, Statuses, Signals, gdbVars, lwpVars
  <2>2. ({stopped, signalled, resumed, stepped, step, ignoring}
          \subseteq SUBSET lwps)'
    BY DEF Send, TypeOK, Lwps, Statuses, Signals, gdbVars, lwpVars
  <2>3. (/\ event \in [lwp : Lwps, status : Statuses \cup {"exit", "none"}]
         /\ status \in [Lwps -> Statuses \cup {"none"}])'
    BY DEF Send, TypeOK, Lwps, Statuses, Signals, gdbVars, lwpVars
  <2>4. (/\ kern \in [Lwps -> {"runs", "stopped", "exited", "reaped"}]
         /\ report \in [Lwps -> Statuses \cup {"none"}]
         /\ signals \in [Lwps -> SUBSET Signals]
         /\ due \in [Lwps -> SUBSET Signals])'
    BY DEF Send, TypeOK, Lwps, Statuses, Signals, gdbVars, lwpVars
  <2>5. (interrupt \in BOOLEAN /\ typed \in BOOLEAN)'
    BY DEF Send, TypeOK, Lwps, Statuses, Signals, gdbVars, lwpVars
  <2>6. (sent \in 0..MaxSignals /\ typings \in 0..MaxTyped)'
    BY MaxSignalsAssumption, MaxTypedAssumption DEF Send, TypeOK, Lwps,
         Statuses, Signals, gdbVars, lwpVars
  <2> QED
    BY <2>1, <2>2, <2>3, <2>4, <2>5, <2>6 DEF TypeOK
<1>2. AssertionsHold'
  BY DEF Send, TypeOK, AssertionsHold, Knows, ThreadInv, gdbVars, lwpVars
<1>3. StopsAccounted'
  BY DEF Send, TypeOK, StopsAccounted, ThreadInv, Alive, gdbVars, lwpVars
<1>4. SignalsAccounted'
  BY DEF Send, TypeOK, SignalsAccounted, Held, Signals, gdbVars, lwpVars
<1>5. HitsAccounted'
  BY DEF Send, TypeOK, HitsAccounted, Held, gdbVars, lwpVars
<1>6. ThreadInv'
  BY DEF Send, TypeOK, ThreadInv, Alive, gdbVars, lwpVars
<1>7. PhaseInv'
  BY DEF Send, TypeOK, PhaseInv, NoEvent, gdbVars, lwpVars
<1> QED
  BY <1>1, <1>2, <1>3, <1>4, <1>5, <1>6, <1>7

\* ^C is typed.
LEMMA TypeInterruptKeeps ==
  ASSUME IInv, TypeInterrupt
  PROVE  IInv'
<1> USE DEF IInv
<1>1. TypeOK'
  <2>1. (/\ phase \in {"core", "wait", "stopping", "over"}
         /\ lwps \subseteq Lwps
         /\ bp \in {"in", "lifted", "deleted"}
         /\ sigstop \subseteq Lwps
         /\ past \subseteq Lwps)'
    BY DEF TypeInterrupt, TypeOK, Lwps, Statuses, Signals, gdbVars, lwpVars
  <2>2. ({stopped, signalled, resumed, stepped, step, ignoring}
          \subseteq SUBSET lwps)'
    BY DEF TypeInterrupt, TypeOK, Lwps, Statuses, Signals, gdbVars, lwpVars
  <2>3. (/\ event \in [lwp : Lwps, status : Statuses \cup {"exit", "none"}]
         /\ status \in [Lwps -> Statuses \cup {"none"}])'
    BY DEF TypeInterrupt, TypeOK, Lwps, Statuses, Signals, gdbVars, lwpVars
  <2>4. (/\ kern \in [Lwps -> {"runs", "stopped", "exited", "reaped"}]
         /\ report \in [Lwps -> Statuses \cup {"none"}]
         /\ signals \in [Lwps -> SUBSET Signals]
         /\ due \in [Lwps -> SUBSET Signals])'
    BY DEF TypeInterrupt, TypeOK, Lwps, Statuses, Signals, gdbVars, lwpVars
  <2>5. (interrupt \in BOOLEAN /\ typed \in BOOLEAN)'
    BY DEF TypeInterrupt, TypeOK, Lwps, Statuses, Signals, gdbVars, lwpVars
  <2>6. (sent \in 0..MaxSignals /\ typings \in 0..MaxTyped)'
    BY MaxSignalsAssumption, MaxTypedAssumption DEF TypeInterrupt, TypeOK,
         Lwps, Statuses, Signals, gdbVars, lwpVars
  <2> QED
    BY <2>1, <2>2, <2>3, <2>4, <2>5, <2>6 DEF TypeOK
<1>2. AssertionsHold'
  BY DEF TypeInterrupt, TypeOK, AssertionsHold, Knows, ThreadInv, gdbVars,
       lwpVars
<1>3. StopsAccounted'
  BY DEF TypeInterrupt, TypeOK, StopsAccounted, ThreadInv, Alive, gdbVars,
       lwpVars
<1>4. SignalsAccounted'
  BY DEF TypeInterrupt, TypeOK, SignalsAccounted, Held, Signals, gdbVars,
       lwpVars
<1>5. HitsAccounted'
  BY DEF TypeInterrupt, TypeOK, HitsAccounted, Held, gdbVars, lwpVars
<1>6. ThreadInv'
  BY DEF TypeInterrupt, TypeOK, ThreadInv, Alive, gdbVars, lwpVars
<1>7. PhaseInv'
  BY DEF TypeInterrupt, TypeOK, PhaseInv, NoEvent, gdbVars, lwpVars
<1> QED
  BY <1>1, <1>2, <1>3, <1>4, <1>5, <1>6, <1>7

\* A thread stops for its SIGSTOP.
LEMMA TakeStopKeeps ==
  ASSUME IInv, NEW l \in Lwps, TakeStop(l)
  PROVE  IInv'
<1> USE DEF IInv
<1>1. TypeOK'
  BY DEF TakeStop, Halt, TypeOK, Lwps, Statuses, Signals, gdbVars, lwpVars,
       userVars
<1>2. AssertionsHold'
  BY DEF TakeStop, Halt, TypeOK, AssertionsHold, Knows, ThreadInv, gdbVars,
       lwpVars, userVars
<1>3. StopsAccounted'
  BY DEF TakeStop, Halt, TypeOK, StopsAccounted, ThreadInv, Alive, gdbVars,
       lwpVars, userVars
<1>4. SignalsAccounted'
  BY DEF TakeStop, Halt, TypeOK, AssertionsHold, Knows, SignalsAccounted,
       Held, Signals, ThreadInv, PhaseInv, Alive, NoEvent, gdbVars, lwpVars,
       userVars
<1>5. HitsAccounted'
  BY DEF TakeStop, Halt, TypeOK, AssertionsHold, Knows, HitsAccounted, Held,
       ThreadInv, PhaseInv, Alive, NoEvent, gdbVars, lwpVars, userVars
<1>6. ThreadInv'
  BY DEF TakeStop, Halt, TypeOK, ThreadInv, Alive, gdbVars, lwpVars,
       userVars
<1>7. PhaseInv'
  BY DEF TakeStop, Halt, TypeOK, PhaseInv, NoEvent, ThreadInv, Alive,
       AssertionsHold, Knows, HitsAccounted, Held, StopsAccounted, gdbVars,
       lwpVars, userVars
<1> QED
  BY <1>1, <1>2, <1>3, <1>4, <1>5, <1>6, <1>7

\* A thread stops for a signal.
LEMMA TakeSignalKeeps ==
  ASSUME IInv, NEW l \in Lwps, NEW s \in Signals, TakeSignal(l, s)
  PROVE  IInv'
<1> USE DEF IInv
<1>1. TypeOK'
  BY DEF TakeSignal, Halt, TypeOK, Lwps, Statuses, Signals, gdbVars,
       lwpVars, userVars
<1>2. AssertionsHold'
  BY DEF TakeSignal, Halt, TypeOK, AssertionsHold, Knows, ThreadInv,
       gdbVars, lwpVars, userVars
<1>3. StopsAccounted'
  BY NumLwpsAssumption DEF TakeSignal, Halt, TypeOK, AssertionsHold, Knows,
       StopsAccounted, SignalsAccounted, HitsAccounted, ThreadInv, PhaseInv,
       Alive, Held, Signals, Statuses, NoEvent, Lwps, Leader, gdbVars,
       lwpVars, userVars
<1>4. SignalsAccounted'
  BY DEF TakeSignal, Halt, TypeOK, AssertionsHold, Knows, SignalsAccounted,
       Held, Signals, ThreadInv, PhaseInv, Alive, NoEvent, gdbVars, lwpVars,
       userVars
<1>5. HitsAccounted'
  BY DEF TakeSignal, Halt, TypeOK, AssertionsHold, Knows, HitsAccounted,
       Held, ThreadInv, PhaseInv, Alive, NoEvent, gdbVars, lwpVars, userVars
<1>6. ThreadInv'
  BY NumLwpsAssumption DEF TakeSignal, Halt, TypeOK, AssertionsHold, Knows,
       StopsAccounted, SignalsAccounted, HitsAccounted, ThreadInv, PhaseInv,
       Alive, Held, Signals, Statuses, NoEvent, Lwps, Leader, gdbVars,
       lwpVars, userVars
<1>7. PhaseInv'
  BY DEF TakeSignal, Halt, TypeOK, PhaseInv, NoEvent, ThreadInv, Alive,
       AssertionsHold, Knows, HitsAccounted, Held, StopsAccounted, gdbVars,
       lwpVars, userVars
<1> QED
  BY <1>1, <1>2, <1>3, <1>4, <1>5, <1>6, <1>7

\* A thread takes the SIGINT.
LEMMA TakeInterruptKeeps ==
  ASSUME IInv, NEW l \in Lwps, TakeInterrupt(l)
  PROVE  IInv'
<1> USE DEF IInv
<1>1. TypeOK'
  BY DEF TakeInterrupt, Halt, TypeOK, Lwps, Statuses, Signals, gdbVars,
       lwpVars, userVars
<1>2. AssertionsHold'
  BY DEF TakeInterrupt, Halt, TypeOK, AssertionsHold, Knows, ThreadInv,
       gdbVars, lwpVars, userVars
<1>3. StopsAccounted'
  BY DEF TakeInterrupt, Halt, TypeOK, StopsAccounted, ThreadInv, Alive,
       gdbVars, lwpVars, userVars
<1>4. SignalsAccounted'
  BY DEF TakeInterrupt, Halt, TypeOK, AssertionsHold, Knows,
       SignalsAccounted, Held, Signals, ThreadInv, PhaseInv, Alive, NoEvent,
       gdbVars, lwpVars, userVars
<1>5. HitsAccounted'
  BY DEF TakeInterrupt, Halt, TypeOK, AssertionsHold, Knows, HitsAccounted,
       Held, ThreadInv, PhaseInv, Alive, NoEvent, gdbVars, lwpVars, userVars
<1>6. ThreadInv'
  BY DEF TakeInterrupt, Halt, TypeOK, ThreadInv, Alive, gdbVars, lwpVars,
       userVars
<1>7. PhaseInv'
  BY DEF TakeInterrupt, Halt, TypeOK, PhaseInv, NoEvent, ThreadInv, Alive,
       AssertionsHold, Knows, HitsAccounted, Held, StopsAccounted, gdbVars,
       lwpVars, userVars
<1> QED
  BY <1>1, <1>2, <1>3, <1>4, <1>5, <1>6, <1>7

\* A thread runs into the breakpoint.
LEMMA HitKeeps ==
  ASSUME IInv, NEW l \in Lwps, Hit(l)
  PROVE  IInv'
<1> USE DEF IInv
<1>1. TypeOK'
  BY DEF Hit, Halt, TypeOK, Lwps, Statuses, Signals, gdbVars, lwpVars,
       userVars
<1>2. AssertionsHold'
  BY DEF Hit, Halt, TypeOK, AssertionsHold, Knows, ThreadInv, gdbVars,
       lwpVars, userVars
<1>3. StopsAccounted'
  BY DEF Hit, Halt, TypeOK, StopsAccounted, ThreadInv, Alive, gdbVars,
       lwpVars, userVars
<1>4. SignalsAccounted'
  BY DEF Hit, Halt, TypeOK, AssertionsHold, Knows, SignalsAccounted, Held,
       Signals, ThreadInv, PhaseInv, Alive, NoEvent, gdbVars, lwpVars,
       userVars
<1>5. HitsAccounted'
  BY DEF Hit, Halt, TypeOK, HitsAccounted, Held, gdbVars, lwpVars, userVars
<1>6. ThreadInv'
  BY DEF Hit, Halt, TypeOK, ThreadInv, Alive, gdbVars, lwpVars, userVars
<1>7. PhaseInv'
  BY DEF Hit, Halt, TypeOK, PhaseInv, NoEvent, gdbVars, lwpVars, userVars
<1> QED
  BY <1>1, <1>2, <1>3, <1>4, <1>5, <1>6, <1>7

\* A thread has made its step.
LEMMA SteppedKeeps ==
  ASSUME IInv, NEW l \in Lwps, Stepped(l)
  PROVE  IInv'
<1> USE DEF IInv
<1>1. TypeOK'
  BY DEF Stepped, Halt, TypeOK, Lwps, Statuses, Signals, gdbVars, lwpVars,
       userVars
<1>2. AssertionsHold'
  BY DEF Stepped, Halt, TypeOK, AssertionsHold, Knows, ThreadInv, gdbVars,
       lwpVars, userVars
<1>3. StopsAccounted'
  BY DEF Stepped, Halt, TypeOK, StopsAccounted, ThreadInv, Alive, gdbVars,
       lwpVars, userVars
<1>4. SignalsAccounted'
  BY DEF Stepped, Halt, TypeOK, AssertionsHold, Knows, SignalsAccounted,
       Held, Signals, ThreadInv, PhaseInv, Alive, NoEvent, gdbVars, lwpVars,
       userVars
<1>5. HitsAccounted'
  BY DEF Stepped, Halt, TypeOK, HitsAccounted, Held, gdbVars, lwpVars,
       userVars
<1>6. ThreadInv'
  BY DEF Stepped, Halt, TypeOK, ThreadInv, Alive, gdbVars, lwpVars, userVars
<1>7. PhaseInv'
  BY DEF Stepped, Halt, TypeOK, PhaseInv, NoEvent, gdbVars, lwpVars,
       userVars
<1> QED
  BY <1>1, <1>2, <1>3, <1>4, <1>5, <1>6, <1>7

\* A thread exits.
LEMMA ExitKeeps ==
  ASSUME IInv, NEW l \in Lwps, Exit(l)
  PROVE  IInv'
<1> USE DEF IInv
<1>1. TypeOK'
  BY DEF Exit, TypeOK, Lwps, Statuses, Signals, gdbVars, lwpVars, userVars
<1>2. AssertionsHold'
  BY DEF Exit, TypeOK, AssertionsHold, Knows, ThreadInv, gdbVars, lwpVars,
       userVars
<1>3. StopsAccounted'
  BY DEF Exit, TypeOK, StopsAccounted, ThreadInv, Alive, gdbVars, lwpVars,
       userVars
<1>4. SignalsAccounted'
  BY DEF Exit, TypeOK, AssertionsHold, Knows, SignalsAccounted, Held,
       Signals, ThreadInv, PhaseInv, Alive, NoEvent, gdbVars, lwpVars,
       userVars
<1>5. HitsAccounted'
  BY DEF Exit, TypeOK, HitsAccounted, Held, gdbVars, lwpVars, userVars
<1>6. ThreadInv'
  BY DEF Exit, TypeOK, AssertionsHold, Knows, StopsAccounted, ThreadInv,
       PhaseInv, Alive, NoEvent, gdbVars, lwpVars, userVars
<1>7. PhaseInv'
  BY DEF Exit, TypeOK, PhaseInv, NoEvent, gdbVars, lwpVars, userVars
<1> QED
  BY <1>1, <1>2, <1>3, <1>4, <1>5, <1>6, <1>7

-----------------------------------------------------------------------------
\* Nothing changes when no variable does.
LEMMA StutterKeeps ==
  ASSUME IInv, UNCHANGED vars
  PROVE  IInv'
<1> USE DEF vars, gdbVars, lwpVars, kernelVars, userVars
<1>1. TypeOK'
  BY DEF IInv, TypeOK
<1>2. AssertionsHold'
  BY DEF IInv, AssertionsHold, Knows
<1>3. StopsAccounted' /\ SignalsAccounted' /\ HitsAccounted'
  BY DEF IInv, StopsAccounted, SignalsAccounted, HitsAccounted, Held
<1>4. ThreadInv' /\ PhaseInv'
  BY DEF IInv, ThreadInv, PhaseInv, Alive
<1> QED
  BY <1>1, <1>2, <1>3, <1>4 DEF IInv

\* All LWPs are stopped at first, with nothing pending.
LEMMA InitEstablishes ==
  ASSUME Init
  PROVE  IInv
<1> USE NumLwpsAssumption DEF Init
<1>1. TypeOK
  <2>1. sent \in 0..MaxSignals /\ typings \in 0..MaxTyped
    BY MaxSignalsAssumption, MaxTypedAssumption
  <2>2. interrupt \in BOOLEAN /\ typed \in BOOLEAN
    OBVIOUS
  <2>3. event \in [lwp : Lwps, status : Statuses \cup {"exit", "none"}]
    BY DEF NoEvent, Lwps, Leader
  <2> QED
    BY <2>1, <2>2, <2>3 DEF TypeOK
<1>2. AssertionsHold
  BY DEF AssertionsHold, Knows
<1>3. StopsAccounted /\ SignalsAccounted /\ HitsAccounted
  BY DEF StopsAccounted, SignalsAccounted, HitsAccounted, Held, NoEvent,
         Signals
<1>4. ThreadInv /\ PhaseInv
  BY DEF ThreadInv, PhaseInv, Alive, NoEvent
<1> QED
  BY <1>1, <1>2, <1>3, <1>4 DEF IInv

\* Every step of linux-nat.c, the core, the threads and the terminal keeps it.
LEMMA StepKeeps ==
  ASSUME IInv, [Next]_vars
  PROVE  IInv'
<1>1. CASE WaitStep
  BY <1>1, TakePendingKeeps, FilterExitKeeps, FilterDelayedKeeps,
     FilterEventKeeps, DropZombieLeaderKeeps, NoResumedKeeps DEF WaitStep
<1>2. CASE StopStep
  BY <1>2, AwaitExitKeeps, AwaitIgnoredKeeps, AwaitStopKeeps, ReportKeeps
     DEF StopStep
<1>3. CASE CoreStep
  BY <1>3, ResumeKeeps, DeleteKeeps DEF CoreStep
<1>4. CASE ThreadStep
  BY <1>4, SendKeeps, TakeSignalKeeps, TakeStopKeeps, TakeInterruptKeeps,
     HitKeeps, SteppedKeeps, ExitKeeps DEF ThreadStep
<1>5. CASE TypeInterrupt
  BY <1>5, TypeInterruptKeeps
<1>6. CASE UNCHANGED vars
  BY <1>6, StutterKeeps
<1> QED
  BY <1>1, <1>2, <1>3, <1>4, <1>5, <1>6 DEF Next

\* The inductive invariant holds in every state.
THEOREM IInvHolds == Spec => []IInv
<1>1. Init => IInv
  BY InitEstablishes
<1>2. IInv /\ [Next]_vars => IInv'
  BY StepKeeps
<1> QED
  BY <1>1, <1>2, PTL DEF Spec

\* Type correctness of the LWPs and of what the kernel holds for gdb.
THEOREM TypesHold == Spec => []TypeOK
<1>1. IInv => TypeOK
  BY DEF IInv
<1> QED
  BY <1>1, IInvHolds, PTL

\* However the stops of the threads are ordered, the assertions on status,
\* signalled and resumed hold, and an LWP marked as stopped is stopped.
THEOREM AssertionsAlwaysHold == Spec => []AssertionsHold
<1>1. IInv => AssertionsHold
  BY DEF IInv
<1> QED
  BY <1>1, IInvHolds, PTL

\* However many threads stop at once, no SIGSTOP of gdb, no signal and no
\* breakpoint hit is lost, reported twice, or reported when it is not there.
THEOREM EventsAreAccounted == Spec => []EventsAccounted
<1>1. IInv => EventsAccounted
  BY DEF IInv, EventsAccounted
<1> QED
  BY <1>1, IInvHolds, PTL

-----------------------------------------------------------------------------
(***************************************************************************)
(* The SIGINT of a ^C.  InterruptAccounted needs that an LWP is told to    *)
(* ignore one only while another SIGINT is held for the core, and that it  *)
(* loses the mark when it stops: what the history of MCLinuxNatLwps rules  *)
(* out is the two ways in which the code does not see to that.             *)
(***************************************************************************)

\* An LWP with the mark did not stop yet, for a SIGINT that is to be reported.
MarksEnd ==
  /\ ignoring \cap stopped = {}
  /\ ignoring # {} => phase = "stopping" /\ event.status = "int"

Safe == InterruptAccounted /\ MarksEnd

\* A SIGINT is known to gdb in one of these places.
KnownAt(l) == report[l] = "int" \/ status[l] = "int" \/ Held(l, "int")

\* Where a step takes no SIGINT away and raises nobody, it stays accounted.
LEMMA KnownStays ==
  ASSUME InterruptAccounted,
         typed' => typed \/ interrupt',
         interrupt => interrupt' \/ \E l \in Lwps : KnownAt(l)',
         \A l \in Lwps : kern'[l] \in {"runs", "stopped"} =>
                           kern[l] \in {"runs", "stopped"},
         \A l \in Lwps : KnownAt(l) => \E o \in Lwps : KnownAt(o)'
  PROVE  InterruptAccounted'
BY DEF InterruptAccounted, KnownAt, Held

\* The stop of all LWPs for the event of one takes no SIGINT away, and marks
\* only those that run (linux_nat_wait_1, set_ignore_sigint).
LEMMA StopAllIsSafe ==
  ASSUME IInv, Safe, NEW l \in Lwps, NEW s,
         NEW st \in [Lwps -> Statuses \cup {"none"}],
         StopAll(l, s, st), phase = "wait", ~Marks, ~Outlives,
         \A o \in Lwps \ {l} : report'[o] = report[o] /\ st[o] = status[o],
         \A o \in Lwps : kern'[o] \in {"runs", "stopped"} =>
                           kern[o] \in {"runs", "stopped"},
         KnownAt(l) => s = "int",
         UNCHANGED <<typed, interrupt, lwps>>
  PROVE  Safe'
<1>1. ignoring = {}
  BY DEF Safe, MarksEnd
<1>2. StopFacts(l, s, st)
  BY StopAllFacts DEF IInv
<1>3. MarksEnd'
  <2>1. CASE s = "int"
    BY <1>1, <2>1 DEF StopAll, IgnoreInterrupts, Marks, MarksEnd
  <2>2. CASE s # "int"
    BY <1>1, <2>2 DEF StopAll, IgnoreInterrupts, MaybeClear, MarksEnd
  <2> QED
    BY <2>1, <2>2
<1>4. InterruptAccounted'
  <2>1. CASE s = "int"
    BY <1>2, <2>1 DEF StopFacts, InterruptAccounted, Held
  <2>2. CASE s # "int"
    <3>1. status' = st
      BY <2>2 DEF StopAll, IgnoreInterrupts
    <3>2. ASSUME NEW o \in Lwps, KnownAt(o)
          PROVE  KnownAt(o)'
      BY <2>2, <3>1, <3>2 DEF KnownAt, Held
    <3> QED
      BY <3>2, KnownStays DEF Safe
  <2> QED
    BY <2>1, <2>2
<1> QED
  BY <1>3, <1>4 DEF Safe

\* linux_nat_wait_1 loses no SIGINT.
LEMMA WaitIsSafe ==
  ASSUME IInv, Safe, WaitStep, ~Marks, ~Outlives
  PROVE  Safe'
<1> USE DEF IInv
<1>1. ASSUME NEW l \in Lwps, TakePending(l)
      PROVE  Safe'
  <2>1. l \in stopped /\ kern[l] = "stopped" /\ report[l] = "none"
    BY <1>1 DEF TakePending, IsFirst, Pending, AssertionsHold, Knows, PhaseInv,
         NoEvent
  <2>2. CASE IsPassed(l, status[l]) /\ status' = [status EXCEPT ![l] = "none"]
    <3>1. ASSUME NEW o \in Lwps, KnownAt(o)
          PROVE  KnownAt(o)'
      BY <1>1, <2>1, <2>2, <3>1 DEF TakePending, StopAll, IsPassed, KnownAt,
           Held, TypeOK
    <3>2. InterruptAccounted'
      BY <1>1, <2>1, <2>2, <3>1, KnownStays DEF TakePending, Go, TypeOK, Safe,
           userVars
    <3> QED
      BY <1>1, <2>2, <3>2 DEF TakePending, Safe, MarksEnd
  <2>3. CASE ~IsPassed(l, status[l])
    <3>1. StopAll(l, status[l], [status EXCEPT ![l] = "none"])
      BY <1>1, <2>3 DEF TakePending
    <3>2. [status EXCEPT ![l] = "none"] \in [Lwps -> Statuses \cup {"none"}]
      BY DEF TypeOK
    <3>3. KnownAt(l) => status[l] = "int"
      BY <1>1, <2>1 DEF KnownAt, Held, TakePending
    <3>4. \A o \in Lwps \ {l} : [status EXCEPT ![l] = "none"][o] = status[o]
      BY DEF TypeOK
    <3>5. phase = "wait" /\ UNCHANGED <<report, kern, typed, interrupt, lwps>>
      BY <1>1, <2>3 DEF TakePending, userVars
    <3> QED
      BY <3>1, <3>2, <3>3, <3>4, <3>5, StopAllIsSafe
  <2> QED
    BY <1>1, <2>2, <2>3 DEF TakePending
<1>2. ASSUME NEW l \in Lwps, FilterExit(l)
      PROVE  Safe'
  <2>1. kern[l] = "exited" /\ report[l] = "none" /\ status[l] = "none"
    BY <1>2, WaitableFacts DEF FilterExit, ThreadInv, Alive
  <2>2. ASSUME NEW o \in Lwps, KnownAt(o)
        PROVE  KnownAt(o)'
    BY <1>2, <2>1, <2>2 DEF FilterExit, Collect, ExitLwp, KnownAt, Held, TypeOK
  <2>3. InterruptAccounted'
    BY <1>2, <2>2, KnownStays DEF FilterExit, Collect, TypeOK, Safe, userVars
  <2> QED
    BY <1>2, <2>3 DEF FilterExit, ExitLwp, Safe, MarksEnd
<1>3. ASSUME NEW l \in Lwps, FilterDelayed(l)
      PROVE  Safe'
  <2>1. DelayedStop(l) /\ report[l] = "stop" /\ kern[l] = "stopped"
    BY <1>3 DEF FilterDelayed, DelayedStop, DelayedInterrupt, Safe, MarksEnd
  <2>2. ASSUME NEW o \in Lwps, KnownAt(o)
        PROVE  KnownAt(o)'
    BY <1>3, <2>1, <2>2 DEF FilterDelayed, CollectAndGo, KnownAt, Held, TypeOK
  <2>3. InterruptAccounted'
    BY <1>3, <2>1, <2>2, KnownStays DEF FilterDelayed, CollectAndGo, TypeOK,
         Safe, userVars
  <2> QED
    BY <1>3, <2>1, <2>3 DEF FilterDelayed, Safe, MarksEnd
<1>4. ASSUME NEW l \in Lwps, FilterEvent(l)
      PROVE  Safe'
  <2>1. Waitable(l) = "exit" =>
          kern[l] = "exited" /\ report[l] = "none" /\ status[l] = "none"
    BY <1>4, WaitableFacts DEF FilterEvent, ThreadInv, Alive
  <2>2. Waitable(l) # "exit" =>
          kern[l] = "stopped" /\ report[l] = Waitable(l)
    BY <1>4, WaitableFacts DEF FilterEvent
  <2>3. report[l] # "none" => status[l] = "none"
    BY <1>4 DEF FilterEvent, AssertionsHold, Knows, PhaseInv, NoEvent
  <2>4. CASE CollectAndGo(l) /\ IsPassed(l, Waitable(l)) /\ UNCHANGED ignoring
    <3>1. ASSUME NEW o \in Lwps, KnownAt(o)
          PROVE  KnownAt(o)'
      BY <1>4, <2>2, <2>3, <2>4, <3>1 DEF FilterEvent, CollectAndGo, StopAll,
           IsPassed, KnownAt, Held, TypeOK
    <3>2. InterruptAccounted'
      BY <1>4, <2>2, <2>4, <3>1, KnownStays DEF FilterEvent, CollectAndGo,
           IsPassed, TypeOK, Safe, userVars
    <3> QED
      BY <1>4, <2>4, <3>2 DEF FilterEvent, IsPassed, Safe, MarksEnd
  <2>5. CASE ~IsPassed(l, Waitable(l))
    <3>1. StopAll(l, Waitable(l), status) /\ Collect(l)
      BY <1>4, <2>5 DEF FilterEvent
    <3>2. KnownAt(l) => Waitable(l) = "int"
      BY <1>4, <2>1, <2>2, <2>3 DEF KnownAt, Held, FilterEvent
    <3> QED
      BY <1>4, <3>1, <3>2, StopAllIsSafe DEF FilterEvent, Collect, TypeOK,
         userVars
  <2> QED
    BY <1>4, <2>4, <2>5 DEF FilterEvent
<1>5. ASSUME DropZombieLeader
      PROVE  Safe'
  <2>1. Leader \in Lwps /\ kern[Leader] = "exited" /\ status[Leader] = "none"
    BY <1>5, NumLwpsAssumption DEF DropZombieLeader, LeaderVanished, Zombie,
         ThreadInv, Alive, Leader, Lwps
  <2>2. ASSUME NEW o \in Lwps, KnownAt(o)
        PROVE  KnownAt(o)'
    BY <1>5, <2>1, <2>2 DEF DropZombieLeader, ExitLwp, KnownAt, Held, TypeOK,
         kernelVars
  <2>3. InterruptAccounted'
    BY <1>5, <2>2, KnownStays DEF DropZombieLeader, Safe, kernelVars, userVars
  <2> QED
    BY <1>5, <2>3 DEF DropZombieLeader, ExitLwp, Safe, MarksEnd
<1>6. ASSUME NoResumed
      PROVE  Safe'
  BY <1>6 DEF NoResumed, Safe, MarksEnd, InterruptAccounted, Held, lwpVars,
     kernelVars, userVars
<1> QED
  BY <1>1, <1>2, <1>3, <1>4, <1>5, <1>6 DEF WaitStep

\* Nor do the wait for the other LWPs and the report.
LEMMA StopIsSafe ==
  ASSUME IInv, Safe, StopStep, ~Marks, ~Outlives
  PROVE  Safe'
<1> USE DEF IInv
<1>1. ASSUME NEW l \in Lwps, AwaitExit(l)
      PROVE  Safe'
  <2>1. kern[l] = "exited" /\ report[l] = "none" /\ status[l] = "none"
    BY <1>1, WaitableFacts DEF AwaitExit, Zombie, ThreadInv, Alive
  <2>2. ASSUME NEW o \in Lwps, KnownAt(o)
        PROVE  KnownAt(o)'
    BY <1>1, <2>1, <2>2 DEF AwaitExit, Collect, ExitLwp, KnownAt, Held, TypeOK
  <2>3. InterruptAccounted'
    BY <1>1, <2>2, KnownStays DEF AwaitExit, Collect, TypeOK, Safe, userVars
  <2> QED
    BY <1>1, <2>3 DEF AwaitExit, ExitLwp, Safe, MarksEnd
<1>2. ASSUME NEW l \in Lwps, AwaitIgnored(l)
      PROVE  Safe'
  <2>1. event.lwp \in Lwps /\ Held(event.lwp, "int")'
    BY <1>2 DEF AwaitIgnored, Awaited, DelayedInterrupt, Safe, MarksEnd, Held,
         TypeOK
  <2>2. InterruptAccounted'
    BY <1>2, <2>1 DEF AwaitIgnored, InterruptAccounted
  <2> QED
    BY <1>2, <2>2 DEF AwaitIgnored, Safe, MarksEnd
<1>3. ASSUME NEW l \in Lwps, AwaitStop(l)
      PROVE  Safe'
  <2>1. status[l] = "none" /\ kern[l] = "stopped" /\ l \notin stopped
    BY <1>3 DEF AwaitStop, Awaited, AssertionsHold, Knows
  <2>2. ASSUME NEW o \in Lwps, KnownAt(o)
        PROVE  KnownAt(o)'
    BY <1>3, <2>1, <2>2, WaitableFacts DEF AwaitStop, Collect, Keep, KnownAt,
         Held, TypeOK
  <2>3. kern' = kern
    BY <1>3, <2>1, WaitableFacts DEF AwaitStop, Collect
  <2>4. InterruptAccounted'
    BY <1>3, <2>2, <2>3, KnownStays DEF AwaitStop, Safe, userVars
  <2>5. MarksEnd'
    BY <1>3, <2>1 DEF AwaitStop, MaybeClear, Outlives, Safe, MarksEnd, TypeOK
  <2> QED
    BY <2>4, <2>5 DEF Safe
<1>4. ASSUME NEW l \in Lwps, Report(l)
      PROVE  Safe'
  <2>1. ignoring = {} /\ ignoring' = {}
    BY <1>4 DEF Report, Safe, MarksEnd, TypeOK
  <2>2. InterruptAccounted'
    <3>1. CASE Recorded[l] = "int"
      BY <1>4, <3>1 DEF Report, InterruptAccounted
    <3>2. CASE Recorded[l] # "int"
      <4>1. ASSUME NEW o \in Lwps, KnownAt(o)
            PROVE  KnownAt(o)'
        <5>1. report[o] = "int" \/ Recorded[o] = "int"
          BY <1>4, <4>1 DEF Recorded, KnownAt, Held, TypeOK, PhaseInv, Report
        <5>2. Recorded[o] = "int" => status'[o] = "int"
          BY <1>4, <3>2 DEF Report, RemainingStatus, Cancelled
        <5> QED
          BY <1>4, <5>1, <5>2 DEF KnownAt, Report
      <4> QED
        BY <1>4, <4>1, KnownStays DEF Report, Safe
    <3> QED
      BY <3>1, <3>2
  <2> QED
    BY <2>1, <2>2 DEF Safe, MarksEnd
<1> QED
  BY <1>1, <1>2, <1>3, <1>4 DEF StopStep

\* Nor does the core, when it resumes the threads.
LEMMA CoreIsSafe ==
  ASSUME IInv, Safe, CoreStep
  PROVE  Safe'
<1> USE DEF IInv
<1>1. ASSUME NEW l \in Lwps, NEW all \in BOOLEAN, NEW stepping \in BOOLEAN,
             Resume(l, all, stepping)
      PROVE  Safe'
  <2> DEFINE passed == status[l] = "quiet" /\ ~stepping
             st == IF passed THEN [status EXCEPT ![l] = "none"] ELSE status
             group == IF all THEN lwps ELSE {l}
             going == IF st[l] = "none" THEN {o \in group : st[o] = "none"}
                                        ELSE {}
  <2>1. /\ phase = "core" /\ l \in lwps /\ phase' = "wait" /\ status' = st
        /\ stopped' = stopped \ going
        /\ Go(going)
        /\ UNCHANGED <<ignoring, report, interrupt, userVars>>
    BY <1>1 DEF Resume
  <2>2. group \subseteq lwps
    BY <2>1
  <2>3. \A o \in going : kern[o] = "stopped"
    BY <2>1, <2>2 DEF AssertionsHold, Knows, PhaseInv
  <2>4. \A o \in Lwps : status[o] = "int" => st[o] = "int"
    BY DEF TypeOK
  <2> HIDE DEF st, group, going, passed
  <2>5. ASSUME NEW o \in Lwps, KnownAt(o)
        PROVE  KnownAt(o)'
    BY <2>1, <2>4, <2>5 DEF KnownAt, Held
  <2>6. InterruptAccounted'
    BY <2>1, <2>3, <2>5, KnownStays DEF Go, Safe, userVars
  <2> QED
    BY <2>1, <2>6 DEF Safe, MarksEnd
<1>2. ASSUME Delete
      PROVE  Safe'
  BY <1>2 DEF Delete, Safe, MarksEnd, InterruptAccounted, Held, lwpVars,
     kernelVars, userVars
<1> QED
  BY <1>1, <1>2 DEF CoreStep

\* A thread that halts had nothing to report.
LEMMA HaltIsSafe ==
  ASSUME IInv, Safe, NEW l \in Lwps, NEW s \in Statuses, Halt(l, s),
         interrupt => interrupt' \/ s = "int"
  PROVE  Safe'
<1>1. report[l] = "none" /\ kern[l] = "runs"
  BY DEF Halt, IInv, ThreadInv
<1>2. ASSUME NEW o \in Lwps, KnownAt(o)
      PROVE  KnownAt(o)'
  BY <1>1, <1>2 DEF Halt, KnownAt, Held, IInv, TypeOK, gdbVars, lwpVars
<1>3. s = "int" => KnownAt(l)'
  BY DEF Halt, KnownAt, IInv, TypeOK
<1>4. InterruptAccounted'
  BY <1>1, <1>2, <1>3, KnownStays DEF Halt, Safe, IInv, TypeOK, userVars
<1> QED
  BY <1>4 DEF Halt, Safe, MarksEnd, gdbVars, lwpVars

\* Nor do the threads and the terminal.
LEMMA ThreadsAreSafe ==
  ASSUME IInv, Safe, ThreadStep \/ TypeInterrupt
  PROVE  Safe'
<1>1. ASSUME NEW l \in Lwps, NEW s \in Signals, Send(l, s)
      PROVE  Safe'
  BY <1>1 DEF Send, Safe, MarksEnd, InterruptAccounted, Held, gdbVars, lwpVars
<1>2. ASSUME NEW l \in Lwps, NEW s \in Signals, TakeSignal(l, s)
      PROVE  Safe'
  BY <1>2, HaltIsSafe DEF TakeSignal, Statuses
<1>3. ASSUME NEW l \in Lwps, TakeStop(l)
      PROVE  Safe'
  BY <1>3, HaltIsSafe DEF TakeStop, Statuses
<1>4. ASSUME NEW l \in Lwps, TakeInterrupt(l)
      PROVE  Safe'
  BY <1>4, HaltIsSafe DEF TakeInterrupt, Statuses
<1>5. ASSUME NEW l \in Lwps, Hit(l) \/ Stepped(l)
      PROVE  Safe'
  BY <1>5, HaltIsSafe DEF Hit, Stepped, Statuses
<1>6. ASSUME NEW l \in Lwps, Exit(l)
      PROVE  Safe'
  <2>1. ASSUME NEW o \in Lwps, KnownAt(o)
        PROVE  KnownAt(o)'
    BY <1>6, <2>1 DEF Exit, KnownAt, Held, gdbVars, lwpVars
  <2>2. InterruptAccounted'
    BY <1>6, <2>1, KnownStays DEF Exit, Safe, IInv, TypeOK, userVars
  <2> QED
    BY <1>6, <2>2 DEF Exit, Safe, MarksEnd, gdbVars, lwpVars
<1>7. ASSUME TypeInterrupt
      PROVE  Safe'
  BY <1>7 DEF TypeInterrupt, Safe, MarksEnd, InterruptAccounted, gdbVars,
     lwpVars
<1> QED
  BY <1>1, <1>2, <1>3, <1>4, <1>5, <1>6, <1>7 DEF ThreadStep

\* In every state the marks are in order, unless the history says why not.
MarkInv == marked \in BOOLEAN /\ (marked \/ Safe)

LEMMA MarkInvKept ==
  ASSUME IInv, MarkInv, [MCNext]_<<vars, marked>>
  PROVE  MarkInv'
<1>1. CASE MCNext
  <2>1. marked' \in BOOLEAN
    BY <1>1 DEF MCNext, MarkInv
  <2>2. ASSUME ~marked'
        PROVE  Safe'
    <3>1. Next /\ Safe /\ ~Marks /\ ~Outlives
      BY <1>1, <2>2 DEF MCNext, MarkInv
    <3> QED
      BY <3>1, WaitIsSafe, StopIsSafe, CoreIsSafe, ThreadsAreSafe DEF Next
  <2> QED
    BY <2>1, <2>2 DEF MarkInv
<1>2. CASE UNCHANGED <<vars, marked>>
  BY <1>2 DEF MarkInv, Safe, MarksEnd, InterruptAccounted, Held, vars, gdbVars,
     lwpVars, kernelVars, userVars
<1> QED
  BY <1>1, <1>2

\* A ^C reaches the core, whatever else the threads report and however many ^C
\* are typed, unless an LWP was marked while it was stopped, or stopped with its
\* mark while a SIGINT was pending.
THEOREM InterruptsReachCore == MCSafe => []InterruptReachesCore
<1>1. MCInit => IInv /\ MarkInv
  BY InitEstablishes DEF MCInit, MarkInv, Safe, MarksEnd, InterruptAccounted,
     Init
<1>2. IInv /\ MarkInv /\ [MCNext]_<<vars, marked>> => IInv' /\ MarkInv'
  BY StepKeeps, MarkInvKept DEF MCNext, vars
<1>3. IInv /\ MarkInv => InterruptReachesCore
  BY DEF MarkInv, Safe, InterruptReachesCore
<1> QED
  BY <1>1, <1>2, <1>3, PTL DEF MCSafe

=============================================================================
