# A verification project for the HSAIL part of hsail-gdb

hsail-gdb is GDB 7.8 extended to debug HSAIL kernels on a GPU. Most of the
source tree is upstream GDB, bfd, opcodes, readline and the simulators. The
program's own logic is small and stateful: `gdb/hsail-*.c`, the debug
information library under `amd/`, and the hooks the extension placed in stock
files (`breakpoint.c`, `linux-nat.c`, `infcmd.c`, `inf-loop.c`, `top.c`,
`cli/cli-cmds.c`). The specifications here model that logic, and one part of
stock GDB it stands on: how `linux-nat.c` resumes, stops and waits for the
threads of the process the agent lives in. All paths below are relative to
`gdb-7.8/` in the source tree.

    user ---- commands ----> gdb core hooks ----> hsail-breakpoint / -cmd / -infcmd
                                  |                        |
        linux_nat_wait  <---------+                        v
        SIGALRM handler                      request buffer --> FIFO (write) --> agent
              ^                                                                   |
              |                         handle_hsail_event <--- FIFO (read) <-----+
          SIGALRM  <------------------------------------------------------------- +

The agent is a library inside the inferior. It is not in the repository: gdb
and its comments say what it does, and the models treat it as external.

## 1. Inventory

### Breakpoint requests (`hsail-breakpoint.c`, `hsail-fifo-control.c`, hooks in `breakpoint.c`)

- State: the HSAIL breakpoints in gdb's chain with their resolved request
  (`b->hsail_bp_request`) and `enable_state`; `gs_hsail_request_buffer`, an
  array of 1024 pointers to requests that wait; its length
  `gs_hsail_command_buffer_len`, which is also the index of the next enqueue;
  a flag that it is allocated; the descriptor of the FIFO.
- Operations: create (kernel, source line, any kernel), delete, disable,
  enable, re-set of all at a new run, allocate, free, enqueue, remove, flush.
- Interactions: create and delete look at `is_hsail_linux_initialized`; the
  flush is called from `linux_nat_wait` (every wait) and from
  `handle_hsail_event` (new binary); a slot holds a pointer to the gdb
  breakpoint.
- Hard: the order of creations, deletions, flushes, runs and ends is free; the
  buffer is indexed by a length that is not the number of slots in use.
- Correct when: each request reaches the agent once per run, in some run state
  that may be far from where it was made; none is lost; none is sent for a
  breakpoint that is gone.

### Handshake (`hsail-tdep.c`, `linux-nat.c`)

- State: `sighsail_pending_count`, the event pipe, the flags of two stages,
  `gs_is_hsail_initialized`, the two descriptors and the file handler.
- Operations: the signal handler; in `linux_nat_wait` the two stages, the reset
  of the count and the flush; `linux_nat_close` and `hsail_linux_close`.
- Interactions: the agent makes FIFOs and raises SIGALRM; gdb opens one FIFO
  per signal; the second open blocks until the agent opened the other end.
- Hard: signals coalesce and are not counted while the pipe is closed; the
  process may end at any point; state of one process must not reach the next.
- Correct when: both FIFOs get opened, the FIFO read is that of the present
  process, and the end of a process leaves gdb ready for the next.

### Notifications and focus (`handle_hsail_event`, `hsail-cmd.c`, `hsail-tdep.c`)

- State: the focus (work-group, work-item), the wave count, the predispatch
  state, `g_binary_notification`, the debug information object, the thread of
  the dispatch, the hsail thread setting.
- Operations: one case per notification (breakpoint hit, new binary, begin and
  end of debugging, predispatch state, focus change, kill complete, thread
  state); `hsail info`, `hsail set`, `hsail thread`.
- Hard: notifications queue in the FIFO while the user types; close resets
  almost none of this state.
- Correct when: the focus names an active wave whenever a stepping command or a
  print relies on it, and nothing of an earlier process is used.

### Kernel chain (`hsail-kernel.c`)

- State: a list of kernels, each with a list of its dispatches (work-group
  size, grid, count), and a pointer to the active dispatch.
- Operations: add a dispatch, append to a list, clear the chain, info.
- Hard: a second dispatch of a known size is merged and its node freed.
- Correct when: every dispatch is counted, nodes are owned once, and the
  active dispatch is the latest.

### Stepping and continue (`hsail-infcmd.c`, hooks in `infcmd.c`)

- Operations: `step`, `next`, `finish`, `continue` decide between a CPU and a
  GPU step, write momentary breakpoints in shared memory and send CONTINUE.
- Correct when: a GPU step is only asked for with active waves in focus, and
  the packet follows the breakpoints it refers to.

### Kill and quit (`infcmd.c`, `cli/cli-cmds.c`, `hsail-tdep.c`)

- Operations: with waves active, kill and quit call `KillHsailDebug` in the
  agent, remember that they were delayed, and are completed by KILL_COMPLETE.
- Hard: two flags for one answer; the answer may be a failure; the process may
  end first.
- Correct when: the target is not killed under active waves, and each
  confirmed command is done once.

### Debug information (`amd/HwDbgFacilities`, `hsail-breakpoint.c`, `hsail-infcmd.c`)

- State: two line mappings, of HSAIL instructions to source lines and of ISA
  addresses to HSAIL instructions, each of two maps and three vectors; a tree of
  code scopes, each with a cache of the instructions it owns; the pointer
  `gs_DbgInfo` to all of it.
- Operations: read the rows of two line tables, fill the caches, resolve a
  source line to an address, list the addresses of a `step`, `next` or `finish`,
  write them as momentary breakpoints, free.
- Interactions: a new binary of the agent makes the object and resolves the
  source breakpoints that wait; the end of a dispatch frees it.
- Hard: rows repeat and contradict each other; the low level leaves out
  instructions, and what is not mapped is looked for nearby in both levels; the
  ends of ranges are inclusive; the search for a scope takes the first child that
  fits, and the caches are filled so that the last one keeps the address.
- Correct when: a breakpoint is where the debug information reports its line, a
  step stops there, `finish` stops in the callers and nowhere else, and a step
  that does not fit the shared memory is one of a kernel as large.

### Threads of the native target (`linux-nat.c`)

- State: `lwp_list`; of each LWP `stopped`, `signalled`, `resumed`,
  `last_resume_kind`, `step`, `ignore_sigint` and `status`.
- Operations: `linux_nat_resume`; `linux_nat_wait_1` with its callbacks, which
  takes or filters an event, stops all other LWPs, selects which to report and
  takes back the breakpoint hits of the others.
- Interactions: each notification of the agent by SIGALRM, and each stop at a
  CPU breakpoint, comes out of this wait.
- Hard: a thread that gdb stops may have an event of its own first, so the event
  stays pending in gdb and the SIGSTOP in the kernel; a SIGINT may reach any
  thread; a leader that has exited is a zombie until the others are gone.
- Correct when: what gdb believes of a thread is so, no event is lost or reported
  twice, a ^C reaches the core, and stopping all threads completes.

### Printing (`hsail-print.c`)

- Reads GPU variables in the focus: lookups and formatting, no state.

### Protocol headers, and the agent

- `gdb/CommunicationControl.h` and its neighbours: packets and notifications.

### Upstream code

- GDB, bfd, opcodes, readline, sim: not the subject, except for the hooks.

## 2. Modules

| module | what it is |
| --- | --- |
| `HsailLink` | abstract: the link is initialized at most once per process and gone with it |
| `HsailHandshake` | SIGALRM, the waits step by step, close; implements `HsailLink` |
| `HsailRequestBuffer` | breakpoint chain, buffer, packets; implements `HsailLink` |
| `HsailKernelChain` | the kernels and dispatches, with their memory |
| `HsailDispatch` | notifications, focus, stepping, kill and quit; implements `HsailLink` |
| `LineNumberMapping` | one line mapping and its searches, as operators |
| `HsailDebugInfo` | two mappings and the scopes, from the rows read to the addresses gdb sends |
| `LinuxNatLwps` | the threads, as the native target resumes, stops and waits for them |
| `HsailHandshakeProofs`, `HsailRequestBufferProofs`, `HsailKernelChainProofs`, `HsailDispatchProofs`, `HsailDispatchViewProofs`, `HsailDispatchFocusProofs`, `HsailDebugInfoProofs`, `LinuxNatLwpsProofs` | theorems and proofs |
| `MCHsailHandshake`, `MCHsailRequestBuffer`, `MCHsailKernelChain`, `MCHsailDispatch`, `MCHsailDebugInfo`, `MCLinuxNatLwps` | instances for TLC, history variables, properties that the code breaks |

The proof modules of the request buffer and of the threads extend the MC modules
of these, whose history variables their last theorems speak of.

`HsailLink` is how the components compose. Buffer and dispatch do not repeat the
handshake: each takes from it that `initialized` and the descriptor change by
`Initialize(open)` while there is a process, and go when it goes. The
handshake establishes this in detail and all three are checked against it.

### `HsailRequestBuffer`

gdb is single threaded and none of the operations waits in the middle, so each
is one action.

| variable | code |
| --- | --- |
| `chain`, `count`, `request`, `enabled` | breakpoint chain, `breakpoint_count`, `hsail_bp_request->type`, `enable_state` |
| `slots`, `len`, `allocated` | `gs_hsail_request_buffer`, `gs_hsail_command_buffer_len`, `gs_hsail_is_command_buffer_initialized` |
| `initialized`, `fifoOpen` | `gs_is_hsail_initialized`, `g_hsail_fifo_descriptor > 0` |
| `binary`, `lines` | `g_binary_notification`, which source breakpoints `gs_DbgInfo` can map |
| `sent` | history: the packets of this run, by breakpoint |
| `inferiors`, `runs`, `gdb` | live inferiors, a bound, and "running" or why gdb stopped |

| action | code |
| --- | --- |
| `CreateBreakpoint` | `create_breakpoint_hsail` and the three `hsail_breakpoint_set_*` |
| `DeleteBreakpoint`, `DisableBreakpoint`, `EnableBreakpoint` | the HSAIL branches of `breakpoint.c` |
| `Run`, `Attach` | `linux_nat_create_inferior` (which allocates) or `linux_nat_attach` (which does not), then `post_create_inferior` and `breakpoint_re_set_all_hsail` |
| `RunFails`, `InferiorExit` (all ends of a process), `Quit` | `linux_nat_close`; `quit_force` |
| `Initialize`, `WaitFlush` | second stage and flush in `linux_nat_wait` |
| `NewBinary`, `NewBinaryFails`, `EndDebugging` | cases of `handle_hsail_event` |

A failed `gdb_assert`, a write past the array and a use of freed memory end the
behaviour with the reason in `gdb`. Slots hold the type and the number of their
request. Cleared slots keep their number, as in the code. The request and the
enable state of a deleted breakpoint return to their initial values, which only
makes states canonical: numbers are not reused. Two requests for the same place
("duplicate" breakpoints), conditions and hit statistics are not modelled.

### `HsailHandshake`

Here the interleaving is inside a wait, so `pc` says where gdb is. SIGALRM is
handled before gdb's next step (the kernel delivers it on return to user mode)
and does not queue. `fifo` is the file of the agent's name, by the run that
made it: it outlives a killed process. The second open blocks until the agent
reads. `Agent = "reloading"` lets the agent raise further signals whenever it
likes, as `linux-nat.c:4890-4898` describes for C++AMP; `"paced"` lets it do so
only after gdb initialized the link.

A program that dies in startup goes through `startup_inferior` and
`target_mourn_inferior` to `linux_nat_close`, like every end. `target native`
given explicitly keeps the target open and is not modelled.

### `HsailKernelChain`

`heap` is the set of dispatch nodes allocated, so that a leak, a double free
and a dangling pointer can be told. `new` of `hsail_kernel_append_dispatch` is
any node not on the heap. `node[n].count` of a node that is not first in its
list starts from uninitialized memory: any value of `Garbage`. `seen` is a
history variable: how often each size was dispatched since the last clear.
`gs_active_dispatch` is `active`.

### `HsailDispatch`

gdb's view of a dispatch, the agent's progress through it, and the FIFO between
them. `fifo` holds what the agent has sent and gdb has not read, so every
command of the user may meet a view that is behind.

| variable | code |
| --- | --- |
| `focusDevice`, `predispatch`, `waves` | `gs_is_hsail_focus_device`, `gs_hsail_predispatch_state`, `gs_num_active_waves > 0` |
| `available`, `dbginfo`, `dispatchThread`, `focus` | `g_binary_notification`, `gs_DbgInfo` by its dispatch, `gs_hsail_dispatch_thread_id`, `gs_active_work_item` |
| `killSkip`, `quitSkip` | the two variables `skip_confirmation_check` of infcmd.c and cli-cmds.c |
| `at` | the event loop, a call of the agent in a command, or why gdb stopped |
| `active` | the wave buffer in shared memory |
| `dispatch`, `phase`, `begun`, `binary`, `hit`, `debugThread`, `requests` | the agent |
| `asked` | history: what the user has confirmed for this process |

| action | code |
| --- | --- |
| `ReadNewBinary` to `ReadKillFailed` | the cases of `handle_hsail_event` |
| `Continue`, `Step` | `continue_command`, `step_1` and `finish_command` with `hsail-infcmd.c` |
| `ThreadCommand`, `Kill`, `Quit` | up to the call of the agent: `hsail_command`, `kill_command`, `quit_command` |
| `CallReturns`, `CallFails` | what these do after it, or the error that ends them |
| `Stop`, `HandleEnd` | an event or the end of the process in `linux_nat_wait` |

A call of a function of the agent resumes the process, and gdb waits for it
outside its event loop. So agent and program go on between the test before the
call and the assignments after it, and nothing is read.

The agent may send its binary before or after the beginning of debugging, end
and begin again within the callback (the comment at hsail-tdep.c:799), answer a
kill at any time or never, and fail it. It sends a focus with each beginning and
with each hit, and starts a dispatch only after the last has completed, as the
comment at hsail-tdep.c:727 says. One wave stands for all. `skip_hsa_kill` is
set and reset within one handler and has no variable.

`Restart = "clean"` makes the user start a process only if gdb has read the end
of the last dispatch and delays no kill; otherwise gdb would be restarted. It is
needed: `"any"` is the run `stale_focus`.

### `LineNumberMapping` and `HsailDebugInfo`

The mapping is a record of the two maps and three vectors of the template
`LineNumberMapping` (DbgInfoLines.h); both levels are values of it. An address
belongs to the line of its first row. What is asked for and not mapped is looked
for in a `Window`: ahead from the place itself, then back.

| variable | code |
| --- | --- |
| `hl_lm`, `ll_lm` | the line mappings of the high and low level |
| `hl_sc`, `cache` | the code scopes of the high level; which scope's `m_addressCache` has an instruction |
| `bkpt` | the last source breakpoint: line asked for, line found, address sent |
| `step` | the last step and its momentary breakpoints |
| `phase` | no object, which level is read, loaded, or a failed assertion |

| action | code |
| --- | --- |
| `NewBinary`, `HighRow`, `EndOfHigh`, `LowRow`, `EndOfLow` | `hwdbginfo_init_with_two_binaries`: the loop over the rows in `FillLineMappingFromDwarf` and what follows it in `InitializeWithBinary` |
| `Free` | `hsail_free_hwdbginfo`, and a level without addresses |
| `ResolveBreakpoint` | `hsail_breakpoint_from_line_resolve` |
| `StepIn`, `StepOut` | `hsail_set_step_breakpoints` with `hwdbginfo_all_mapped_addrs`, `hwdbginfo_step_addresses` and `hsail_step_write_momentary_breakpoints` |

Scopes are inputs: sequences of DIEs, each after its parent, with the order and
the inherited ranges that the code gives them. The file of a line is left out, as
gdb asks for the first file only. `Nested` says of a tree that its scopes are
nested as in DWARF, which the comment at DbgInfoData.h:465 assumes of siblings:
a scope is inside its parent, siblings share no more than an end, a scope without
a range, which the code gives that of its parent, has no ranges below it or no
siblings, and a function without a range is directly below the unit. TLC
evaluates it on the trees checked.

### `LinuxNatLwps`

Three actors: gdb, the threads with the kernel's ptrace and `waitpid`, and the
terminal. gdb's callbacks are one action where the code makes no system call
that another actor can precede; waiting for each LWP to stop is an action of its
own, since threads run and exit between them.

| variable | code |
| --- | --- |
| `lwps`, `stopped`, `signalled`, `resumed`, `stepped`, `step`, `ignoring`, `status` | `lwp_list` and the fields of `struct lwp_info` (`stepped` is `last_resume_kind`) |
| `phase`, `event` | where `linux_nat_wait_1` is, and the LWP and status it holds |
| `bp`, `past` | the breakpoint, and the threads whose pc is after it |
| `kern`, `report`, `sigstop`, `signals`, `interrupt` | external: state of a thread, what `waitpid` has of it, signals pending for it and for the process |
| `due`, `typed` | history: signals gdb has still to see; a ^C that was not reported |

| action | code |
| --- | --- |
| `TakePending` | `iterate_over_lwps (ptid, status_callback)` and what is done with its result |
| `FilterExit`, `FilterDelayed`, `FilterEvent` | `linux_nat_filter_event` on what `my_waitpid` returned |
| `DropZombieLeader`, `NoResumed` | `check_zombie_leaders`, `TARGET_WAITKIND_NO_RESUMED` |
| `AwaitExit`, `AwaitIgnored`, `AwaitStop` | `stop_wait_callback` and `wait_lwp` |
| `Report` | `select_event_lwp`, `cancel_breakpoints_callback`, the return |
| `Resume`, `Delete` | `linux_nat_resume` with `resume_lwp`; the core lifts or removes the breakpoint |

Assumed: Linux 2.6 or later, all-stop mode, no clones, forks or execs, threads
exit one by one (not by `exit_group` while stopped), and nobody but gdb sends
SIGSTOP. HSAIL meets this module at one place: `linux_nat_wait` looks at the
count of SIGALRMs each time around, which is where `HsailHandshake` begins.

## 3. Runs

Each passing run stops with no error and covers the whole state space of its
instance. Deadlock checking is off because gdb does stop: it quits, an assertion
fails, or the process is over.

| run | shows | bounds |
| --- | --- | --- |
| `buffer_single` | the agent is told once of each breakpoint in a run; nothing sendable waits; the length covers what waits; pending requests are of live breakpoints; created requests are known to the chain; the re-set is in time; a kernel breakpoint returns in each later run, unless something was deleted while requests waited; the link is kept | 3 breakpoints and 3 slots, so that holes, overwriting, the full buffer and the overrun all occur; 3 runs, so that what one leaves in the length is met twice; types KERNEL and SOURCE (ANY takes the same paths as KERNEL); 1.4 million states |
| `handshake_paced` | an initialized gdb reads the FIFO of its own agent; the handshake implements `HsailLink`; every end of a process is handled, or gdb is blocked in `open` | 3 processes, 4 signals each: two of the handshake and two later |
| `handshake_live` | if processes do not end in mid-handshake, no signal is lost or left over, and both stages complete | 2 processes, 3 signals |
| `kernel_chain` | dispatches are owned once, listed once per size, belong to this process, and heads are counted exactly | 2 kernels, 2 sizes, 2 grids, 4 dispatches per process, any number of processes |
| `dispatch` | no assertion but that of `finish` fails; once all is read, gdb's view, the debug information of a step and the focus are those of the agent; no process is killed under waves or unasked; the answer of the agent completes a kill | 2 processes and 2 dispatches, in one process or in two, so that state left by one meets the next; 3 unread notifications: an end and the beginning of the next dispatch together; 2 lanes, so that a focus can be stale |
| `debug_info` | both mappings stay in agreement with themselves; a breakpoint maps back to its line; a step reaches it; `finish` stops in the callers; an overflow is genuine | 2 source lines, 4 instructions, 3 ISA addresses, 3 rows for each level, so that rows repeat, conflict and leave holes; searches of 2 places ahead and 1 back, so that they find, pass over and miss; 4 trees of scopes, up to a call in a call in a block; 3 places for momentary breakpoints, so that a step just fits or just does not; 435 thousand states |
| `lwps` | what gdb believes of its threads is so; no event is lost, doubled or invented; a ^C reaches the core; stopping completes | 2 threads, one of them the leader, so that any two events meet; 2 signals, stopping or passed, so that one thread can have two or both one; 3 ^C, so that a mark of the first can meet the SIGINT of the second and discard that of the third; 754 thousand states |

And the runs that find what the code does against its own comments or manual:

| run | says | code |
| --- | --- | --- |
| `buffer_overwritten` | breakpoint.c:10136: an unresolved request "will be in the breakpoint cache" | a deletion lowers the index of the next enqueue, which then overwrites a request that waits |
| `deleted_created` | the manual: a deleted breakpoint is "forgotten" | a source breakpoint deleted after initialization is created by the next binary |
| `alarms_harmless` | linux-nat.c:4897: repeated SIGALRMs are harmless | a count of 2 or 3 at the first wait skips a stage for ever |
| `stale_focus` | the assertion at hsail-infcmd.c:256 | close keeps the focus on the device: kill in the predispatch callback, run, `continue` is an internal error |
| `interrupt_lost` | linux-nat.c:3109: what is discarded is a SIGINT already displayed for another thread | a ^C taken while one thread steps alone marks the stopped ones too, and the next ^C is discarded |

Two specifications narrow the user or the process, never gdb: `OneBufferSpec`
(the buffer is not freed) and `OrderlySpec` (no end in mid-handshake). The second
is needed because after a process that was killed between its two signals
`stage1` stays set, so the next handshake cannot open its FIFO. Two history
variables of the MC modules say what a property does not claim, and leave every
behaviour in: `careful` (no deletion while requests wait) for
`KernelBreakpointsStay`, since otherwise a request is overwritten, and `marked`
(an LWP was told to ignore a SIGINT while it was stopped, or stopped with its
mark while a SIGINT was pending) for `InterruptReachesCore`.
`buffer_overwritten` and `interrupt_lost` show what happens without them. The
second case of `marked` needs three ^C: `maybe_clear_ignore_sigint` takes the
pending SIGINT of the second for that of the first and keeps the mark, and it is
the third that is lost. The inductive invariant did not hold without it.

### Fairness

`WF_vars(GdbStep)`: gdb is a running process and its wait and event loop take
their steps as long as they can; only `WaitNothing`, which a spurious SIGCHLD
causes, is left out. `WF_vars(AgentStops)`: an agent that is about to stop
itself does, as long as its threads run. Nothing is assumed of the user, nor of
the rest of the program: it need not load an agent, stop or end.

Of the threads: `WF_vars(WaitStep)` and `WF_vars(StopStep)`, as gdb goes on when
`waitpid` has something for it, and `WF_vars(TakeStop(l))` for each thread, as
the kernel delivers a SIGSTOP to a thread that runs. A thread need not do
anything else, so it may run for ever between two events.

## 4. Proofs

The theorems hold for every value of the constants that satisfies the named
assumptions of the modules.

`HsailHandshakeProofs`:

- `IInv`, for either kind of agent, is `TypeOK` with `PipeInv` (where the event
  pipe is closed, no SIGALRM is pending; with process and pipe gone nothing of
  the link is left), `CountInv` (gdb counts no more than was raised, without
  which the count has no bound), `FifoInv` (once the second SIGALRM is raised
  the FIFO read is that of the agent) and `InitializedInv` (the second stage
  follows the second SIGALRM). It gives `TypeOK`, `ReadsItsAgent`, and by one
  step or stutter for each action `LinkSpec`. The mapping to `HsailLink` calls
  the process present until its end was handled, which needs `PipeInv`.
- `OrderlyInv`, for `OrderlySpec` and a paced agent, gives `AlarmsCounted`: it
  says what each value of the count leaves of the flags of the stages, and that
  a process whose end is unhandled had not begun or was initialized.

`HsailRequestBufferProofs`:

- `BufferInv` is inductive for any number of inferiors. Beside `TypeOK`,
  `LengthCoversPending`, `NothingSendableWaits` and `CreatedIsKnown` it has
  `NumbersCounted` (no number beyond `count` is in use anywhere, so a new
  breakpoint starts clean) and `NumbersWait` (a slot that waits has a
  number). `LengthCoversPending` is not inductive alone: a deletion lowers
  the length by one, which is right only because the slot it found was live.
  `NothingSendableWaits` needs it, for the early return of the flush at
  length 0.
- `OnceInv` adds, with one inferior at a time, `WaitsOnce`: a number waits in at
  most one slot, and only if nothing was sent of it in this run. It gives
  `AtMostOneCreatePerRun`, `PendingIsOfLiveBreakpoint`,
  `ReSetBeforeInitialization` and `LinkSpec`. The assumption
  `MaxInferiors = 1` is needed: with two inferiors the second run re-sets
  requests that wait already.
- `ReturnInv` adds, for a user who deletes nothing while requests wait, that each
  breakpoint on a kernel waits while the link of a process is not initialized,
  below the length, where no enqueue reaches it, and was created once it is
  (`Returning`); and that a number not given yet has no request (`Fresh`). It
  gives `KernelBreakpointsStay`, for any number of inferiors.
- Lemmas about the buffer: what `Enqueue`, `Dequeue`, `ClearSlots`, `Flush` and
  `Push` do to the slots and the length.

`HsailKernelChainProofs`:

- `ChainInv` consists of the properties of the run and
  `SeenWhileInitialized`: hsail is initialized only while there is a process,
  and before it no dispatch of the process was seen. Without it the clearing at
  `Initialize` could lose a dispatch. The search in `Merge` takes the first node
  of a size; `FirstIsOnly` shows that there is one at most, so no minimum
  is needed. `FirstCountExact` needs `DispatchesOfThisProcess` (an empty list
  means that nothing was seen) and `OwnedOnce` (a merge in another place does
  not touch the head).

`HsailDispatchProofs`:

- `DispatchInv` holds however processes are started. Beside `TypeOK` it has
  `Numbered`, `GoneWithProcess` (without a process the link is closed, nothing is
  unread and nothing was asked of the agent) and `DebugInfoOfBinary`. It gives
  `TypeOK`, `LinkSpec` and `KillCompletes`.
- With `Restart = "clean"`, `SessionInv` adds that a device with the focus has
  its link, from which `AssertionsHold` follows, and `DelayedIsConfirmed` that
  whatever stands for a confirmation was confirmed for this process: a flag of
  kill or quit, a call of the agent, a request it has, an answer that is unread.
  `KillIsConfirmed` needs the last, since the answer does not ask again. Without
  the assumption both fail: `stale_focus` shows it of the first.

`HsailDispatchViewProofs`, with `Restart = "clean"`:

- What gdb will know when it has read all is `After`: a function of what it
  knows and of the unread notifications, which raise or lower a flag.
  `AfterAppend` and `AfterTail` say what sending and reading do to it. So reading
  leaves it as it is, each step of the agent changes it as the agent changes,
  and `ViewInv`, which says that it is what the agent does, is inductive.
  `ViewIsCurrent` is the case of an empty FIFO.
- `LastBinaryOf` and `NoBinary` say the same of the binary: unless a completion
  follows, the last is of the dispatch the agent is in. This is
  `StepsItsDispatch`.
- `HitsWhileDebugged` keeps the order within the FIFO: wherever a hit is unread,
  the device will have the focus when it is read. Hence gdb never knows of waves
  without the focus, so a kill under waves is delayed, which with
  `KilledWhenAnswered` is `WavesKilledFirst`.

`HsailDispatchFocusProofs`, with `Restart = "clean"`:

- A focus is validated with the wave buffer in shared memory, which may belong to
  a later stop than the focus. `FocusInv` says why that does no lasting harm:
  the last stop has sent a focus of its own, which either is unread
  (`FocusPending`: on an active work-item, after the news of the stop, before
  anything else that moves the focus), so it will pass the validation; or was
  read (`FocusTaken`), and what moved the focus since was validated with the
  same buffer, the work-item of a call of `hsail thread` in progress included.
  `FocusWhileDebugged` orders the FIFO as `HitsWhileDebugged` does. It gives
  `FocusIsActive`.

`HsailDebugInfoProofs`:

- `MappingInv`: both mappings are typed and agree. `AddLineMapping` appends to
  the vector of the line and to that of all addresses, and to the other two only
  for a line that is new; the lemmas say what each of the five parts has then.
- `BreakpointInv`, with the mappings, gives `BreakpointMapsBack`: the search for
  a line ends at one that is mapped, a search for what is mapped ends at once
  (`AddressesOfMapped` and its like), so the address of the breakpoint is in the
  vectors of both levels, and agreement leads back. It holds for any size of the
  windows. `Complete` is needed: a hole sends the search to another
  instruction, which may have another line.
- `ObjectInv` says what object the caches and the last step are of: the caches
  are those of the tree and of the high level, the step is a function of the
  object, and a failed assertion had no address or too many. Reading a row
  disturbs neither, since there is no step yet. It gives `TypeOK`. With
  `BreakpointInv` it gives `StepInReachesBreakpoints`: a step asks for the
  addresses of each instruction with the search that a breakpoint was resolved
  with.
- `OverflowIsGenuine` follows from three facts about sequences: each list of
  addresses is without doubles, those of two instructions are disjoint
  (`Complete`), and an instruction is in the cache of one scope, so the
  concatenation has no doubles either (`FlattenFacts`).
- `StepsOutReachCallers` proves `StepOutTargets` for any trees that are `Nested`.
  `SearchPasses` and `SearchStays` say that the search from the unit goes down
  through the functions that have the instruction, `HomeIsFrame` that the cache
  which the code fills last keeps what the search finds, and `EnclosingFacts`
  that the scopes walked upwards are those around it, each once. Without
  `Nested` it is false: two siblings that intersect share what the search finds in
  the first and the cache gives to the last.
- Induction over a tree or a sequence is by a minimal counterexample: a recursive
  function is shown to exist on `1 .. n` as the least `n` without one would have
  a predecessor with one (`FindIsDefined`, `EnclosingIsDefined`,
  `FlattenIsDefined`), and a property fails first at some scope, whose children
  or parent have it.

`LinuxNatLwpsProofs`:

- `IInv`, for any number of threads, signals and ^C. `AssertionsHold` and the
  parts of `EventsAccounted` are not inductive: what gdb does with an LWP rests
  on what the kernel can have done since it was resumed (`ThreadInv`: a thread
  that runs is not marked as stopped, one that is gone has nothing pending), and
  on what gdb holds between its loops (`PhaseInv`: the candidate is stopped, with
  no status but the one held; a breakpoint hit that was not reported is still in
  `waitpid` unless all threads are stopping). One lemma for each action.
- `MarkInv` adds where a mark may be: unless the history `marked` says otherwise,
  an LWP to ignore a SIGINT has not stopped yet, and gdb holds another SIGINT for
  the core. Hence a SIGINT that is discarded was displayed for another LWP, which
  is `InterruptReachesCore`.

Every inductive invariant was checked by TLC, in the instance of its run, before
it was proved.

Only model-checked is liveness (`HandshakeCompletes`, `EndIsHandled`,
`StopCompletes`), since fairness and ENABLED are out of the reach of the
provers. Every invariant of a passing run, the refinements and the other action
properties are theorems.

## 5. Disagreements met that have no run

- `disable` before the FIFO is open stops gdb at the assertion in
  `hsail_get_fifo_handler` (hsail-tdep.c:554), although the comment above it
  (542-552) means to report an error. The early return of the flush at
  hsail-fifo-control.c:217 is unreachable for the same reason when the FIFO
  failed to open.
- `attach` after a run: `linux_nat_attach` does not allocate the buffer, and
  the re-set of known requests then has no buffer.
- Requests that wait when a process ends are dropped with the buffer, and the
  comment at breakpoint.c:10136 counts on them.
- `enable` sends no packet, so a breakpoint disabled and enabled stays disabled
  in the agent. A disabled one is created anew, enabled, in the next run.
- Two inferiors: the second `run` re-sets the breakpoints again, or meets the
  assertion at breakpoint.c:10088 once hsail is initialized.
- A process killed between its signals leaves `stage1` set and its FIFO open:
  `hsail_linux_close` acts only on an initialized link, while the comment at
  hsail-tdep.c:145 says that close resets the flag.
- A process that dies between its second signal and the wait leaves gdb in the
  blocking `open` of the second stage.
- The count of a dispatch that is not the first of its list is incremented from
  uninitialized memory; a merged dispatch keeps the grid of the earlier one.
- `finish` before a wave has stopped (in the predispatch callback, or in the
  debug thread) fails the assertion at hsail-infcmd.c:167: there is no address.
- `finish` in the outermost function of a kernel finds no address and fails the
  assertion at hsail-infcmd.c:212-213.
- Freeing the buffer keeps its length (hsail-fifo-control.c:201), which grows
  over sessions, against the assertion at 224 and the comment at 59. An index
  past the end of the array is written to without a test (444-478).
- The dispatch marked as active (hsail-kernel.c:81-82) is freed when it is merged
  with an earlier one of its size (119).
- An address that is not mapped is looked for 20 places ahead and none back, while
  the comment of the class (DbgInfoLines.h:55-58) gives it to the line of its
  nearest predecessor. A read-back of 3 tries two lines.
- The end of a scope's range is part of it (DbgInfoData.h:632-635), as it is not
  in DWARF. So two calls that follow each other share an instruction: the search
  takes the first child and the cache the last, although the comment at 465
  assumes that siblings do not intersect. `Apart` excludes it from
  `StepOutTargets`, and `Nested` from its theorem what intersects more.
- A mark that `maybe_clear_ignore_sigint` keeps for the SIGINT of a later ^C
  (linux-nat.c:2482) is bogus, and discards the ^C after that one.
- Where the low level leaves instructions out, a breakpoint may be reported at
  another line, and `finish` may stop elsewhere. `Complete` excludes it.
- The text and the line sent with a source breakpoint are those of the line the
  user asked for, not of the nearest mapped one (hsail-breakpoint.c:1272-1279).
- `gs_hsail_source` is allocated once, for the length of the first kernel's
  source (hsail-breakpoint.c:1023-1030), and longer ones are copied into it.
- The comment at FacilitiesInterface.cpp:720 speaks of the first ISA address of
  each instruction; `m_firstMappedLLAddr` is false, so all are taken. The step
  type STEP_OVER exists and is never used.
- The handler of SIGALRM calls `ui_out_text` (linux-nat.c:3678), which is not
  safe in a signal handler.
- `hsail_thread_command_validate_active` shifts its bit only when it is set
  (hsail-cmd.c:428), so it finds no lane behind an inactive one, and a focus
  change to such a lane is ignored. `FocusIsActive` claims nothing then.
- A kill that fails, or a process that ends first, leaves
  `skip_confirmation_check` set: the next kill, also of the next process, asks
  nothing. The same for quit.
- `kill` and then `quit` while the waves are killed: the answer for the kill ends
  the process and closes the FIFO, and gdb does not quit.
- `continue` typed before the beginning of debugging is read sends no packet, and
  the dispatch waits for one. A `step` typed before an end is read sends the
  breakpoints of the earlier dispatch. Prompts come after such notifications as
  a rule; commands from a file need not.

## 6. Plan

Done: the link and the handshake with their proofs, the request buffer, the
kernel chain, the dispatch with kill and quit and the proof about its focus, the
line mappings and the debug information of steps, the thread control of the
native target, and theorems for every invariant that a run checks.

Left, in this order, with what each is for:

1. A composition of buffer and dispatch: the packets of a step and of the
   breakpoints in one order on the FIFO.
2. Conditions and statistics of breakpoints; the text of the kernel source with
   its one allocation.
3. New threads in `LinuxNatLwps` (a clone that stops before or after its
   parent's event), then forks and execs.
4. Virtual call stacks and the flattened ids of work-groups, as operators against
   a reference definition.

## 7. Not modelled, and why

- Printing and formatting: lookups that change no state.
- Conversion of DIEs, variables and ELF bytes in HwDbgFacilities, its variables
  and call stacks: data, with no control that several actors share.
- Shared memory segments in close: created and deleted by one actor in order.
- Thread control beyond what is listed above: clones, forks, `vfork` and execs,
  non-stop mode, waits for one process, watchpoints, system call traps, and the
  fall-backs for Linux 2.4.
- The rest of stock GDB, with bfd, opcodes, readline and the simulators, which
  is nearly all of the source tree by size: not this program's own logic, and
  unchanged by it. Its hooks are modelled where they call.
- The agent: external. Its actions are what gdb expects, and it may fail,
  repeat and die.
