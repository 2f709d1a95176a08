---------------------------- MODULE LinuxNatLwps ----------------------------
(***************************************************************************)
(* The threads (LWPs) of the inferior, as linux-nat.c resumes, stops and   *)
(* waits for them in all-stop mode: every event of the process that the    *)
(* agent lives in reaches gdb this way, and linux_nat_wait opens the link  *)
(* with the agent each time it returns (HsailHandshake).                   *)
(*                                                                         *)
(* gdb stops a thread by a SIGSTOP of its own and may find another event   *)
(* first: then the event stays pending in the LWP, and the SIGSTOP in the  *)
(* kernel.  Processes: gdb's core (Resume, Delete), linux-nat.c, the       *)
(* threads with the kernel, the terminal.  The kernel's side is external:  *)
(* what ptrace, tkill and waitpid of Linux 2.6 and later do for threads of *)
(* one process.  There are no clones, forks and execs here, the threads    *)
(* exit one by one, and nobody else sends SIGSTOP.                         *)
(***************************************************************************)
EXTENDS Integers

CONSTANTS
  NumLwps,     \* threads; the first is the leader, the last heads lwp_list
  MaxSignals,  \* signals sent to threads (bound)
  MaxTyped     \* ^C typed at the terminal (bound)

ASSUME NumLwpsAssumption == NumLwps \in Nat \ {0}
ASSUME MaxSignalsAssumption == MaxSignals \in Nat
ASSUME MaxTypedAssumption == MaxTyped \in Nat

Lwps == 1..NumLwps
Leader == 1

\* "user" stops the program, "quiet" is in pass_mask (nostop noprint pass).
Signals == {"user", "quiet"}
Statuses == Signals \cup {"stop", "int", "trap"}
NoEvent == [lwp |-> Leader, status |-> "none"]

VARIABLES
  phase,      \* "core", "wait" (linux_nat_wait), "stopping" all, or "over"
  event,      \* the LWP and status that is reported, or about to be
  lwps,       \* lwp_list
  stopped,    \* the LWPs with lp->stopped,
  signalled,  \*   lp->signalled,
  resumed,    \*   lp->resumed,
  stepped,    \*   lp->last_resume_kind = resume_step,
  step,       \*   lp->step,
  ignoring,   \*   lp->ignore_sigint
  status,     \* lp->status
  bp,         \* the breakpoint: "in" the program, "lifted", or "deleted"
  kern,       \* the thread "runs", is "stopped", has "exited", is "reaped"
  report,     \* what waitpid has to say of a stopped thread
  sigstop,    \* threads with SIGSTOP pending
  signals,    \* the signals pending for a thread
  interrupt,  \* SIGINT is pending for the process
  past,       \* threads whose pc is after the breakpoint they hit
  due,        \* history: the signals of a thread gdb has still to see
  typed,      \* history: ^C was typed, and no SIGINT reported since
  sent,       \* signals sent to threads
  typings     \* ^C typed

lwpVars == <<lwps, stopped, signalled, resumed, stepped, step, ignoring, status>>
gdbVars == <<phase, event, lwpVars, bp>>
kernelVars == <<kern, report, sigstop, signals, interrupt, past>>
userVars == <<typed, sent, typings>>
vars == <<gdbVars, kernelVars, due, userVars>>

-----------------------------------------------------------------------------
(* waitpid and ptrace. *)

\* A thread has an exit status at once, the leader after all others.
Waitable(l) ==
  CASE kern[l] = "stopped" -> report[l]
    [] kern[l] = "exited"
         /\ (l = Leader => \A o \in Lwps \ {l} : kern[o] = "reaped") -> "exit"
    [] OTHER -> "none"

\* A slip: nobody looks for zombies.
NoZombie(l) == FALSE

\* The leader is a zombie for as long as other threads are there.
Zombie(l) == l = Leader /\ kern[l] = "exited" /\ Waitable(l) = "none"

\* waitpid returns the status of a thread.
Collect(l) ==
  IF Waitable(l) = "exit"
    THEN kern' = [kern EXCEPT ![l] = "reaped"] /\ UNCHANGED report
    ELSE report' = [report EXCEPT ![l] = "none"] /\ UNCHANGED kern

\* waitpid returns it, and PTRACE_CONT or PTRACE_SINGLESTEP resumes the thread.
CollectAndGo(l) ==
  /\ report' = [report EXCEPT ![l] = "none"]
  /\ kern' = [kern EXCEPT ![l] = "runs"]

Go(S) == kern' = [l \in Lwps |-> IF l \in S THEN "runs" ELSE kern[l]]

-----------------------------------------------------------------------------
(* linux_nat_wait_1. *)

\* The first of a set in lwp_list, which grows at its head.
IsFirst(l, S) == l \in S /\ \A o \in S : o <= l

\* status_callback.
Pending == {l \in lwps \cap resumed : status[l] # "none"}

\* my_waitpid has nothing more.
Quiescent == \A l \in Lwps : Waitable(l) = "none"

\* A signal in pass_mask is passed at once, and the wait goes on.
IsPassed(l, s) == s = "quiet" /\ l \notin step

\* A slip: the flag is not cleared.
KeepIgnoring(l) == ignoring

\* maybe_clear_ignore_sigint: no SIGINT is pending, so none will come.
MaybeClear(l) == IF interrupt THEN ignoring ELSE ignoring \ {l}

\* The candidate has a SIGINT: set_ignore_sigint for all LWPs but this one.
\* Else maybe_clear_ignore_sigint.
IgnoreInterrupts(l, s, st) ==
  IF s = "int"
    THEN LET consuming == {o \in lwps \cap stopped : st[o] = "int"} IN
         /\ status' = [o \in Lwps |->
                         IF o \in consuming THEN "none" ELSE st[o]]
         /\ ignoring' = (ignoring \cup (lwps \ consuming)) \ {l}
    ELSE /\ status' = st
         /\ ignoring' = IF s = "exit" THEN ignoring ELSE MaybeClear(l)

\* A slip: only the LWPs that still run are asked.
AskedRunning(l) ==
  {o \in lwps \ (stopped \cup signalled \cup {l}) : kern[o] = "runs"}

\* stop_callback: LWPs that did not stop yet, and have no SIGSTOP to come.
Asked(l) == lwps \ (stopped \cup signalled \cup {l})

\* A candidate to report: all other LWPs are sent a SIGSTOP.
StopAll(l, s, st) ==
  /\ IgnoreInterrupts(l, s, st)
  /\ stopped' = stopped \cup {l}
  /\ sigstop' = sigstop \cup {o \in Asked(l) : kern[o] \in {"runs", "stopped"}}
  /\ signalled' = signalled \cup Asked(l)
  /\ event' = [lwp |-> l, status |-> s]
  /\ phase' = "stopping"

\* An LWP has a status from before.
TakePending(l) ==
  LET s == status[l]
      st == [status EXCEPT ![l] = "none"]
  IN
  /\ phase = "wait"
  /\ IsFirst(l, Pending)
  /\ \/ /\ IsPassed(l, s)
        /\ status' = st
        /\ stopped' = stopped \ {l}
        /\ due' = [due EXCEPT ![l] = @ \ {s}]
        /\ Go({l})
        /\ UNCHANGED <<phase, event, signalled, ignoring, sigstop>>
     \/ /\ ~IsPassed(l, s)
        /\ StopAll(l, s, st)
        /\ UNCHANGED <<kern, due>>
  /\ UNCHANGED <<lwps, resumed, stepped, step, bp, report, signals, interrupt,
                 past, userVars>>

\* exit_lwp.
ExitLwp(l) ==
  /\ lwps' = lwps \ {l}
  /\ stopped' = stopped \ {l}
  /\ signalled' = signalled \ {l}
  /\ resumed' = resumed \ {l}
  /\ stepped' = stepped \ {l}
  /\ step' = step \ {l}
  /\ ignoring' = ignoring \ {l}
  /\ status' = [status EXCEPT ![l] = "none"]

\* waitpid returns the exit of a thread that is not the last, or of one that
\* gdb has dropped before (linux_nat_filter_event).
FilterExit(l) ==
  /\ phase = "wait"
  /\ Pending = {}
  /\ Waitable(l) = "exit"
  /\ lwps # {l}
  /\ Collect(l)
  /\ ExitLwp(l)
  /\ UNCHANGED <<phase, event, bp, sigstop, signals, interrupt, past, due,
                 userVars>>

\* A delayed SIGSTOP of gdb's own, or a SIGINT that was reported for another
\* thread: the thread goes on.
DelayedStop(l) == l \in signalled /\ report[l] = "stop" /\ l \in resumed
DelayedInterrupt(l) == l \in ignoring /\ report[l] = "int"

FilterDelayed(l) ==
  /\ phase = "wait"
  /\ Pending = {}
  /\ l \in lwps
  /\ kern[l] = "stopped"
  /\ DelayedStop(l) \/ DelayedInterrupt(l)
  /\ signalled' = IF DelayedStop(l) THEN signalled \ {l} ELSE signalled
  /\ ignoring' = IF DelayedStop(l) THEN ignoring ELSE ignoring \ {l}
  /\ stopped' = stopped \ {l}
  /\ CollectAndGo(l)
  /\ UNCHANGED <<phase, event, lwps, resumed, stepped, step, status, bp, sigstop,
                 signals, interrupt, past, due, userVars>>

\* An interesting event, or the end of the last thread.
FilterEvent(l) ==
  LET s == Waitable(l) IN
  /\ phase = "wait"
  /\ Pending = {}
  /\ l \in lwps
  /\ s # "none"
  /\ s = "exit" => lwps = {l}
  /\ ~DelayedStop(l) /\ ~DelayedInterrupt(l)
  /\ \/ /\ IsPassed(l, s)
        /\ CollectAndGo(l)
        /\ stopped' = stopped \ {l}
        /\ due' = [due EXCEPT ![l] = @ \ {s}]
        /\ UNCHANGED <<phase, event, signalled, ignoring, status, sigstop>>
     \/ /\ ~IsPassed(l, s)
        /\ Collect(l)
        /\ StopAll(l, s, status)
        /\ UNCHANGED due
  /\ UNCHANGED <<lwps, resumed, stepped, step, bp, signals, interrupt, past,
                 userVars>>

\* check_zombie_leaders, when waitpid has nothing more.
LeaderVanished == Leader \in lwps /\ Zombie(Leader) /\ lwps # {Leader}

DropZombieLeader ==
  /\ phase = "wait"
  /\ Pending = {}
  /\ Quiescent
  /\ LeaderVanished
  /\ ExitLwp(Leader)
  /\ UNCHANGED <<phase, event, bp, kernelVars, due, userVars>>

\* TARGET_WAITKIND_NO_RESUMED.
NoResumed ==
  /\ phase = "wait"
  /\ Pending = {}
  /\ Quiescent
  /\ ~LeaderVanished
  /\ lwps \cap resumed = {}
  /\ phase' = "core"
  /\ UNCHANGED <<event, lwpVars, bp, kernelVars, due, userVars>>

-----------------------------------------------------------------------------
(* All threads are stopping: stop_wait_callback, wait_lwp. *)

\* The LWPs gdb waits for.
Awaited(l) == phase = "stopping" /\ l \in lwps \ stopped

\* It has exited; a zombie leader is not waited for.
AwaitExit(l) ==
  /\ Awaited(l)
  /\ \/ Waitable(l) = "exit" /\ Collect(l)
     \/ Zombie(l) /\ UNCHANGED <<kern, report>>
  /\ ExitLwp(l)
  /\ UNCHANGED <<phase, event, bp, sigstop, signals, interrupt, past, due,
                 userVars>>

\* A SIGINT that is reported for another thread.
AwaitIgnored(l) ==
  /\ Awaited(l)
  /\ kern[l] = "stopped"
  /\ DelayedInterrupt(l)
  /\ ignoring' = ignoring \ {l}
  /\ CollectAndGo(l)
  /\ UNCHANGED <<phase, event, lwps, stopped, signalled, resumed, stepped, step,
                 status, bp, sigstop, signals, interrupt, past, due, userVars>>

\* A slip: the event is dropped.
DropEvent(l, s) ==
  /\ signalled' = IF s = "stop" THEN signalled \ {l} ELSE signalled
  /\ UNCHANGED status

\* The SIGSTOP of gdb is caught; any other event stays pending, and the SIGSTOP
\* is still to come.
Keep(l, s) ==
  /\ signalled' = IF s = "stop" THEN signalled \ {l} ELSE signalled
  /\ status' = [status EXCEPT ![l] = IF s = "stop" THEN "none" ELSE s]

AwaitStop(l) ==
  /\ Awaited(l)
  /\ kern[l] = "stopped"
  /\ report[l] # "none"
  /\ ~DelayedInterrupt(l)
  /\ Collect(l)
  /\ stopped' = stopped \cup {l}
  /\ ignoring' = MaybeClear(l)
  /\ Keep(l, report[l])
  /\ UNCHANGED <<phase, event, lwps, resumed, stepped, step, bp, sigstop, signals,
                 interrupt, past, due, userVars>>

-----------------------------------------------------------------------------
(* The event is reported. *)

\* The candidate's status is recorded before another LWP is chosen; a slip: it
\* is not.
Forgotten == status
Recorded == [status EXCEPT ![event.lwp] = event.status]

\* select_event_lwp: a single-stepped LWP, else any of those with a trap, else
\* the candidate.
Candidates ==
  LET steppers == {l \in lwps \cap stepped : Recorded[l] # "none"}
      traps == {l \in lwps \cap resumed : Recorded[l] = "trap"}
  IN IF steppers # {} THEN {l \in steppers : IsFirst(l, steppers)}
     ELSE IF traps # {} THEN traps
     ELSE {event.lwp}

\* cancel_breakpoints_callback: LWPs that are not reported take their breakpoint
\* hits back; a slip: they keep them.
NoneCancelled(chosen) == {}
Cancelled(chosen) ==
  {l \in lwps \ {chosen} : Recorded[l] = "trap" /\ bp = "in" /\ l \in past}

\* A slip: the status of the chosen LWP is not flushed.
KeptStatus(chosen) ==
  [l \in Lwps |-> IF l \in Cancelled(chosen) THEN "none" ELSE Recorded[l]]

RemainingStatus(chosen) ==
  [l \in Lwps |-> IF l = chosen \/ l \in Cancelled(chosen)
                    THEN "none" ELSE Recorded[l]]

\* The core sees all LWPs as stopped until it resumes them; it moves the pc of
\* the reported thread back to the breakpoint (adjust_pc_after_break).
Report(chosen) ==
  /\ phase = "stopping"
  /\ lwps \subseteq stopped
  /\ chosen \in Candidates
  /\ event' = [lwp |-> chosen, status |-> Recorded[chosen]]
  /\ phase' = IF Recorded[chosen] = "exit" THEN "over" ELSE "core"
  /\ status' = RemainingStatus(chosen)
  /\ past' = past \ ({chosen} \cup Cancelled(chosen))
  /\ resumed' = {}
  /\ stepped' = {}
  /\ due' = [due EXCEPT ![chosen] = @ \ {Recorded[chosen]}]
  /\ typed' = (typed /\ Recorded[chosen] # "int")
  /\ UNCHANGED <<lwps, stopped, signalled, step, ignoring, bp, kern, report,
                 sigstop, signals, interrupt, sent, typings>>

-----------------------------------------------------------------------------
(* The core, at the prompt. *)

\* linux_nat_resume of all threads, or of one alone that steps over the
\* breakpoint, which is lifted for as long.  An LWP with a pending status is not
\* resumed, and no other either if it is the one asked for, unless its signal is
\* passed.
Resume(l, all, stepping) ==
  LET passed == status[l] = "quiet" /\ ~stepping
      st == IF passed THEN [status EXCEPT ![l] = "none"] ELSE status
      group == IF all THEN lwps ELSE {l}
      going == IF st[l] = "none" THEN {o \in group : st[o] = "none"} ELSE {}
  IN
  /\ phase = "core"
  /\ l \in lwps
  /\ all \/ stepping
  /\ phase' = "wait"
  /\ event' = NoEvent
  /\ resumed' = resumed \cup group
  /\ stepped' = (stepped \ group) \cup IF stepping THEN {l} ELSE {}
  /\ step' = (step \ (going \cup {l})) \cup IF stepping THEN {l} ELSE {}
  /\ stopped' = stopped \ going
  /\ status' = st
  /\ due' = IF passed THEN [due EXCEPT ![l] = @ \ {"quiet"}] ELSE due
  /\ bp' = IF bp = "deleted" THEN bp ELSE IF all THEN "in" ELSE "lifted"
  /\ Go(going)
  /\ UNCHANGED <<lwps, signalled, ignoring, report, sigstop, signals, interrupt,
                 past, userVars>>

\* The user deletes the breakpoint.
Delete ==
  /\ phase = "core"
  /\ bp # "deleted"
  /\ bp' = "deleted"
  /\ UNCHANGED <<phase, event, lwpVars, kernelVars, due, userVars>>

-----------------------------------------------------------------------------
(* The threads, the kernel and the terminal. *)

\* A signal for a thread; one that is pending already is the same.
Send(l, s) ==
  /\ kern[l] \in {"runs", "stopped"}
  /\ sent < MaxSignals
  /\ s \notin due[l]
  /\ sent' = sent + 1
  /\ due' = [due EXCEPT ![l] = @ \cup {s}]
  /\ signals' = [signals EXCEPT ![l] = @ \cup {s}]
  /\ UNCHANGED <<gdbVars, kern, report, sigstop, interrupt, past, typed,
                 typings>>

\* ^C goes to the process, which has the terminal until it stops.
TypeInterrupt ==
  /\ phase \in {"wait", "stopping"}
  /\ typings < MaxTyped
  /\ typings' = typings + 1
  /\ typed' = TRUE
  /\ interrupt' = TRUE
  /\ UNCHANGED <<gdbVars, kern, report, sigstop, signals, past, due, sent>>

\* A running thread stops with a status for gdb.
Halt(l, s) ==
  /\ kern[l] = "runs"
  /\ kern' = [kern EXCEPT ![l] = "stopped"]
  /\ report' = [report EXCEPT ![l] = s]
  /\ UNCHANGED <<gdbVars, due, userVars>>

\* Its SIGSTOP, a signal, or the SIGINT of the process is about to be delivered.
TakeStop(l) ==
  /\ l \in sigstop
  /\ sigstop' = sigstop \ {l}
  /\ Halt(l, "stop")
  /\ UNCHANGED <<signals, interrupt, past>>

TakeSignal(l, s) ==
  /\ s \in signals[l]
  /\ signals' = [signals EXCEPT ![l] = @ \ {s}]
  /\ Halt(l, s)
  /\ UNCHANGED <<sigstop, interrupt, past>>

TakeInterrupt(l) ==
  /\ interrupt
  /\ interrupt' = FALSE
  /\ Halt(l, "int")
  /\ UNCHANGED <<sigstop, signals, past>>

\* It runs into the breakpoint, or has made its step.
Hit(l) ==
  /\ bp = "in"
  /\ past' = past \cup {l}
  /\ Halt(l, "trap")
  /\ UNCHANGED <<sigstop, signals, interrupt>>

Stepped(l) ==
  /\ l \in step
  /\ Halt(l, "trap")
  /\ UNCHANGED <<sigstop, signals, interrupt, past>>

Exit(l) ==
  /\ kern[l] = "runs"
  /\ kern' = [kern EXCEPT ![l] = "exited"]
  /\ sigstop' = sigstop \ {l}
  /\ signals' = [signals EXCEPT ![l] = {}]
  /\ due' = [due EXCEPT ![l] = {}]
  /\ UNCHANGED <<gdbVars, report, interrupt, past, userVars>>

-----------------------------------------------------------------------------
\* The threads are known and stopped: attached to, or at a breakpoint.
Init ==
  /\ phase = "core"
  /\ event = NoEvent
  /\ lwps = Lwps
  /\ stopped = Lwps
  /\ signalled = {}
  /\ resumed = {}
  /\ stepped = {}
  /\ step = {}
  /\ ignoring = {}
  /\ status = [l \in Lwps |-> "none"]
  /\ bp = "in"
  /\ kern = [l \in Lwps |-> "stopped"]
  /\ report = [l \in Lwps |-> "none"]
  /\ sigstop = {}
  /\ signals = [l \in Lwps |-> {}]
  /\ interrupt = FALSE
  /\ past = {}
  /\ due = [l \in Lwps |-> {}]
  /\ typed = FALSE
  /\ sent = 0
  /\ typings = 0

WaitStep ==
  \/ \E l \in Lwps :
       TakePending(l) \/ FilterExit(l) \/ FilterDelayed(l) \/ FilterEvent(l)
  \/ DropZombieLeader
  \/ NoResumed

StopStep ==
  \E l \in Lwps :
    AwaitExit(l) \/ AwaitIgnored(l) \/ AwaitStop(l) \/ Report(l)

CoreStep ==
  \/ \E l \in Lwps, all, stepping \in BOOLEAN : Resume(l, all, stepping)
  \/ Delete

ThreadStep ==
  \E l \in Lwps :
    \/ \E s \in Signals : Send(l, s) \/ TakeSignal(l, s)
    \/ TakeStop(l)
    \/ TakeInterrupt(l)
    \/ Hit(l)
    \/ Stepped(l)
    \/ Exit(l)

Next == WaitStep \/ StopStep \/ CoreStep \/ ThreadStep \/ TypeInterrupt

Spec == Init /\ [][Next]_vars

\* gdb goes on where waitpid has something for it, and the kernel delivers the
\* SIGSTOP of a thread that runs.  Nothing is assumed of the user, nor of what
\* the threads do by themselves.
Fairness ==
  /\ WF_vars(WaitStep)
  /\ WF_vars(StopStep)
  /\ \A l \in Lwps : WF_vars(TakeStop(l))

-----------------------------------------------------------------------------
(* Properties. *)

TypeOK ==
  /\ phase \in {"core", "wait", "stopping", "over"}
  /\ event \in [lwp : Lwps, status : Statuses \cup {"exit", "none"}]
  /\ lwps \subseteq Lwps
  /\ {stopped, signalled, resumed, stepped, step, ignoring} \subseteq SUBSET lwps
  /\ status \in [Lwps -> Statuses \cup {"none"}]
  /\ bp \in {"in", "lifted", "deleted"}
  /\ kern \in [Lwps -> {"runs", "stopped", "exited", "reaped"}]
  /\ report \in [Lwps -> Statuses \cup {"none"}]
  /\ sigstop \subseteq Lwps
  /\ signals \in [Lwps -> SUBSET Signals]
  /\ interrupt \in BOOLEAN
  /\ past \subseteq Lwps
  /\ due \in [Lwps -> SUBSET Signals]
  /\ typed \in BOOLEAN
  /\ sent \in 0..MaxSignals
  /\ typings \in 0..MaxTyped

\* What gdb believes of its LWPs is so, whatever order their stops come in: one
\* that it takes for stopped is, and waitpid has nothing more of it; at the
\* prompt all are; and the assertions on status, signalled and resumed hold
\* (stop_callback, wait_lwp, stop_wait_callback, linux_nat_filter_event).
Knows(l) ==
  /\ l \in stopped /\ event.status # "exit" =>
       kern[l] = "stopped" /\ report[l] = "none"
  /\ l \notin stopped =>
       /\ status[l] = "none"
       /\ phase \notin {"core", "over"}
       /\ phase = "wait" => l \in resumed
       /\ phase = "stopping" => l \in signalled

AssertionsHold == \A l \in lwps : Knows(l)

\* lp->signalled says that a SIGSTOP of gdb is pending, or in waitpid; it is
\* never reported, nor left as an event of the program.
StopsAccounted ==
  /\ event.status # "stop"
  /\ \A l \in lwps :
       /\ status[l] # "stop"
       /\ kern[l] \in {"runs", "stopped"} =>
            (l \in signalled <=> l \in sigstop \/ report[l] = "stop")

\* The candidate of linux_nat_wait_1, with its status.
Held(l, s) == phase = "stopping" /\ event = [lwp |-> l, status |-> s]

\* A signal sent to a thread is in one place until gdb reports or passes it.
SignalsAccounted ==
  \A l \in Lwps, s \in Signals :
    /\ s \in due[l] <=>
         s \in signals[l] \/ report[l] = s \/ status[l] = s \/ Held(l, s)
    /\ s \in signals[l] => report[l] # s /\ status[l] # s /\ ~Held(l, s)
    /\ report[l] = s => status[l] # s /\ ~Held(l, s)

\* A thread whose pc is after the breakpoint has a trap to show for it, and the
\* breakpoint is there: none is reported that was deleted or lifted since.
HitsAccounted ==
  \A l \in past :
    /\ bp = "in"
    /\ report[l] = "trap" \/ status[l] = "trap" \/ Held(l, "trap")

\* Stopping all threads for the event of one neither loses an event of another,
\* nor reports it twice, nor reports what is not there.
EventsAccounted == StopsAccounted /\ SignalsAccounted /\ HitsAccounted

\* A ^C the user typed is on its way to the core: at the latest, with the next
\* SIGINT that is reported.
InterruptAccounted ==
  typed /\ (\E l \in Lwps : kern[l] \in {"runs", "stopped"}) =>
    \/ interrupt
    \/ \E l \in Lwps : report[l] = "int" \/ status[l] = "int" \/ Held(l, "int")

\* gdb does not hang in wait_lwp: once it stops all threads for an event, an
\* event is reported, whatever the threads do meanwhile.
StopCompletes == phase = "stopping" ~> phase # "stopping"

=============================================================================
