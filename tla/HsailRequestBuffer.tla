------------------------- MODULE HsailRequestBuffer -------------------------
(***************************************************************************)
(* HSAIL breakpoints of hsail-gdb and the buffer of pending requests.      *)
(*                                                                         *)
(* A breakpoint on a GPU kernel is set by the agent, a library inside the  *)
(* inferior, when gdb writes a packet to a FIFO.  Until the FIFO is open,  *)
(* and for a source line until the kernel's debug information has come,    *)
(* the request waits in an array of Size slots (hsail-fifo-control.c).     *)
(* Commands of the user (create, delete, disable, run, attach, quit),      *)
(* events of the inferior (a wait that returns, its exit) and              *)
(* notifications of the agent (new binary, end of debugging) change the    *)
(* breakpoint chain and that array in any order.                           *)
(*                                                                         *)
(* gdb is one thread, so an operation is one step.  A gdb_assert that      *)
(* fails, and a use of freed or foreign memory, ends the behaviour with    *)
(* its reason in gdb: internal_error offers to quit, and C gives no        *)
(* meaning to what would follow.                                           *)
(***************************************************************************)
EXTENDS Integers, FiniteSets

CONSTANTS
  MaxBps,        \* breakpoint numbers a session hands out (bound)
  Size,          \* slots of the buffer (1024 in the code)
  Kinds,         \* the types of request the user enters
  MaxInferiors,  \* inferiors alive at one time
  MaxRuns        \* processes started or attached to in a session (bound)

ASSUME BoundsAssumption ==
  /\ MaxBps \in Nat \ {0}
  /\ Size \in Nat \ {0}
  /\ MaxInferiors \in Nat \ {0}
  /\ MaxRuns \in Nat

ASSUME KindsAssumption == Kinds \subseteq {"KERNEL", "SOURCE", "ANY"}

VARIABLES
  chain,       \* numbers of the HSAIL breakpoints in gdb's chain
  count,       \* breakpoint_count, the last number given
  request,     \* b->hsail_bp_request->type of each breakpoint
  enabled,     \* b->enable_state
  slots,       \* gs_hsail_request_buffer
  len,         \* gs_hsail_command_buffer_len
  allocated,   \* gs_hsail_is_command_buffer_initialized
  initialized, \* gs_is_hsail_initialized
  fifoOpen,    \* g_hsail_fifo_descriptor > 0
  binary,      \* g_binary_notification is HSAIL_AGENT_BINARY_AVAILABLE
  lines,       \* breakpoints whose source line gs_DbgInfo maps
  sent,        \* what the FIFO of this run has carried on each breakpoint
  inferiors,   \* live inferiors of the native target
  runs,        \* processes started or attached to so far
  gdb          \* "running", or why gdb stopped

userVars == <<chain, count, request, enabled>>
bufferVars == <<slots, len, allocated>>
agentVars == <<initialized, fifoOpen, binary, lines>>
runVars == <<inferiors, runs>>
vars == <<userVars, bufferVars, agentVars, sent, runVars, gdb>>

Bps == 1..MaxBps
Idx == 0..(Size - 1)
Request == Kinds \cup {"UNKNOWN"}
Slot == [type : Request, number : 0..MaxBps]
EmptySlot == [type |-> "UNKNOWN", number |-> 0]
EmptyBuffer == [i \in Idx |-> EmptySlot]
Record == [creates : Nat, last : {"none", "CREATE", "DELETE", "DISABLE"}]
NothingSent == [b \in Bps |-> [creates |-> 0, last |-> "none"]]

\* Why a session can end.
Stops == {"quit", "no_fifo", "no_buffer", "overflow", "len", "freed_bkpt",
          "reset_late"}

Minimum(S) == CHOOSE x \in S : \A y \in S : x <= y

Live == {i \in Idx : slots[i].type # "UNKNOWN"}
SlotsOf(b) == {i \in Idx : slots[i].number = b}

-----------------------------------------------------------------------------
(* The buffer: allocation, enqueue, removal. *)

\* hsail_initialize_command_buffer: the array is zeroed, the length is not.
Allocate == allocated' = TRUE

\* hsail_free_command_buffer: the length keeps its value.
FreeBuffer ==
  /\ allocated' = FALSE
  /\ slots' = EmptyBuffer
  /\ UNCHANGED len

\* A slip: the requests of one reset all go to the same slot.
SlotAtLength(S, b) == len

\* hsail_enqueue_create_breakpoint_request_buffer for the breakpoints of S,
\* in the order of their numbers: each goes to slot len, whatever it holds.
SlotFor(S, b) == len + Cardinality({c \in S : c < b})

Enqueue(S, type) ==
  /\ slots' = [i \in Idx |->
       IF \E b \in S : SlotFor(S, b) = i
         THEN LET b == CHOOSE c \in S : SlotFor(S, c) = i
              IN  [type |-> type[b], number |-> b]
         ELSE slots[i]]
  /\ len' = len + Cardinality(S)

\* The array has Size slots and the index is never compared with Size.
Fits(S) == len + Cardinality(S) <= Size

\* Slips: the length goes down when no slot has the number; the search stops
\* at the length, as if the slots in use were the first ones.
DequeueAlways(b) ==
  /\ slots' = IF SlotsOf(b) = {} THEN slots
              ELSE [slots EXCEPT ![Minimum(SlotsOf(b))].type = "UNKNOWN"]
  /\ len' = len - 1
  /\ UNCHANGED allocated

DequeueBelowLength(b) ==
  IF allocated /\ \E i \in SlotsOf(b) : i < len
    THEN /\ slots' = [slots EXCEPT ![Minimum(SlotsOf(b))].type = "UNKNOWN"]
         /\ len' = len - 1
         /\ UNCHANGED allocated
    ELSE UNCHANGED bufferVars

\* hsail_enqueue_delete_breakpoint_request_buffer: the first slot with the
\* number is cleared; clearing keeps the number in it.
Dequeue(b) ==
  IF allocated /\ SlotsOf(b) # {}
    THEN /\ slots' = [slots EXCEPT ![Minimum(SlotsOf(b))].type = "UNKNOWN"]
         /\ len' = len - 1
         /\ UNCHANGED allocated
    ELSE UNCHANGED bufferVars

-----------------------------------------------------------------------------
(* The FIFO to the agent. *)

Stop(reason) == gdb' = reason

\* hsail_push_command of one packet on breakpoint b: it asserts that the FIFO
\* is open.
Push(b, command) ==
  \/ /\ fifoOpen
     /\ sent' = [sent EXCEPT ![b] =
          [creates |-> @.creates + (IF command = "CREATE" THEN 1 ELSE 0),
           last |-> command]]
     /\ UNCHANGED gdb
  \/ /\ ~fifoOpen
     /\ Stop("no_fifo")
     /\ UNCHANGED sent

\* Slips in the flush: without debug information nothing is sent, kernel
\* requests neither; the breakpoints do not get their requests back; the slots
\* that were sent are not cleared.
SendableWithBinary(bin) == IF bin THEN Live ELSE {}
CopyNoRequests(F, map) == UNCHANGED request
ClearNoSlots(F) == UNCHANGED <<slots, len>>

\* What hsail_flush_breakpoint_command_buffer does with the debug information
\* (bin, map): the slots it can send, those of them whose request makes a
\* packet (hsail_breakpoint_from_line_resolve sends nothing for a line that is
\* not mapped), and those whose gdb_bkpt, which a packet needs, was freed.
Sendable(bin) == {i \in Live : slots[i].type = "SOURCE" => bin}
Resolves(i, map) == slots[i].type = "SOURCE" => slots[i].number \in map
Freed(bin, map) ==
  {i \in Sendable(bin) : Resolves(i, map) /\ slots[i].number \notin chain}

Packets(F, map, b) == {i \in F : slots[i].number = b /\ Resolves(i, map)}

\* The slots of F are sent, a CREATE packet each.
SendPackets(F, map) ==
  sent' = [b \in Bps |->
    IF Packets(F, map, b) = {} THEN sent[b]
    ELSE [creates |-> sent[b].creates + Cardinality(Packets(F, map, b)),
          last |-> "CREATE"]]

\* hsail_breakpoint_copy_bp_request from the slots of F to their breakpoints.
CopyRequests(F, map) ==
  request' = [b \in Bps |->
    IF b \in chain /\ Packets(F, map, b) # {}
      THEN slots[CHOOSE i \in Packets(F, map, b) : TRUE].type
      ELSE request[b]]

Transmit(F, map) == SendPackets(F, map) /\ CopyRequests(F, map)

ClearSlots(F) ==
  /\ slots' = [i \in Idx |->
       IF i \in F THEN [slots[i] EXCEPT !.type = "UNKNOWN"] ELSE slots[i]]
  /\ len' = len - Cardinality(F)

\* hsail_flush_breakpoint_command_buffer with its early return and assertions.
\* The array is walked in order; with a freed breakpoint in it, gdb stops
\* there, with or without a packet that carries the number of that breakpoint.
Flush(open, bin, map) ==
  \/ /\ ~open
     /\ Stop("no_fifo")
     /\ UNCHANGED <<slots, len, sent, request>>
  \/ /\ open
     /\ len = 0
     /\ UNCHANGED <<slots, len, sent, request, gdb>>
  \/ /\ open
     /\ len >= Size
     /\ Stop("len")
     /\ UNCHANGED <<slots, len, sent, request>>
  \/ /\ open
     /\ 0 < len /\ len < Size
     /\ ~allocated
     /\ Stop("no_buffer")
     /\ UNCHANGED <<slots, len, sent, request>>
  \/ /\ open
     /\ 0 < len /\ len < Size
     /\ allocated
     /\ Freed(bin, map) = {}
     /\ Transmit(Sendable(bin), map)
     /\ ClearSlots(Sendable(bin))
     /\ UNCHANGED gdb
  \/ /\ open
     /\ 0 < len /\ len < Size
     /\ allocated
     /\ Freed(bin, map) # {}
     /\ LET first  == Minimum(Freed(bin, map))
            before == {i \in Sendable(bin) : i < first}
        IN  /\ \E F \in {before, before \cup {first}} : Transmit(F, map)
            /\ ClearSlots(before)
     /\ Stop("freed_bkpt")

-----------------------------------------------------------------------------
(* Commands of the user. *)

\* create_breakpoint_hsail.  The request goes to the FIFO, or waits in the
\* buffer, as hsail_breakpoint_set_from_kernel_name, _set_any and
\* _set_from_line choose; a line that is not mapped goes nowhere.
CreateBreakpoint(type) ==
  LET b     == count + 1
      ready == initialized /\ (type = "SOURCE" => binary)
  IN
  /\ gdb = "running"
  /\ count < MaxBps
  /\ count' = b
  /\ chain' = chain \cup {b}
  /\ Allocate
  /\ \/ /\ ready
        /\ type = "SOURCE" => b \in lines
        /\ Push(b, "CREATE")
        /\ request' = [request EXCEPT ![b] = type]
        /\ UNCHANGED <<slots, len>>
     \/ /\ ready
        /\ type = "SOURCE" /\ b \notin lines
        /\ UNCHANGED <<slots, len, request, sent, gdb>>
     \/ /\ ~ready
        /\ Fits({b})
        /\ Enqueue({b}, [c \in {b} |-> type])
        /\ UNCHANGED <<request, sent, gdb>>
     \/ /\ ~ready
        /\ ~Fits({b})
        /\ Stop("overflow")
        /\ UNCHANGED <<slots, len, request, sent>>
  /\ UNCHANGED <<enabled, agentVars, runVars>>

\* delete_breakpoint: once hsail is initialized a packet is sent and the buffer
\* is left as it is.  The number is not given again; request and enabled of a
\* deleted breakpoint are put back to their initial values.
DeleteBreakpoint(b) ==
  /\ gdb = "running"
  /\ b \in chain
  /\ chain' = chain \ {b}
  /\ request' = [request EXCEPT ![b] = "UNKNOWN"]
  /\ enabled' = [enabled EXCEPT ![b] = TRUE]
  /\ \/ /\ initialized
        /\ Push(b, "DELETE")
        /\ UNCHANGED bufferVars
     \/ /\ ~initialized
        /\ Dequeue(b)
        /\ UNCHANGED <<sent, gdb>>
  /\ UNCHANGED <<count, agentVars, runVars>>

\* disable_breakpoint: the packet is sent whatever the state of the FIFO.
DisableBreakpoint(b) ==
  /\ gdb = "running"
  /\ b \in chain
  /\ enabled' = [enabled EXCEPT ![b] = FALSE]
  /\ Push(b, "DISABLE")
  /\ UNCHANGED <<chain, count, request, bufferVars, agentVars, runVars>>

\* enable_breakpoint_disp: no packet says it.
EnableBreakpoint(b) ==
  /\ gdb = "running"
  /\ b \in chain
  /\ enabled' = [enabled EXCEPT ![b] = TRUE]
  /\ UNCHANGED <<chain, count, request, bufferVars, agentVars, sent, runVars,
                 gdb>>

\* breakpoint_re_set_all_hsail: the requests the chain knows are put back in
\* the buffer, in the order of the chain.
Known == {b \in chain : request[b] # "UNKNOWN"}

ReSetAll(buffer) ==
  \/ /\ initialized
     /\ Stop("reset_late")
     /\ UNCHANGED <<slots, len>>
  \/ /\ ~initialized
     /\ Known = {}
     /\ UNCHANGED <<slots, len, gdb>>
  \/ /\ ~initialized
     /\ Known # {}
     /\ ~buffer
     /\ Stop("no_buffer")
     /\ UNCHANGED <<slots, len>>
  \/ /\ ~initialized
     /\ Known # {}
     /\ buffer
     /\ Fits(Known)
     /\ Enqueue(Known, request)
     /\ UNCHANGED gdb
  \/ /\ ~initialized
     /\ Known # {}
     /\ buffer
     /\ ~Fits(Known)
     /\ Stop("overflow")
     /\ UNCHANGED <<slots, len>>

\* post_create_inferior, which ends by resetting the HSAIL breakpoints.
Start ==
  /\ gdb = "running"
  /\ inferiors < MaxInferiors
  /\ runs < MaxRuns
  /\ inferiors' = inferiors + 1
  /\ runs' = runs + 1
  /\ ReSetAll(allocated')
  /\ UNCHANGED <<userVars, agentVars, sent>>

\* run: linux_nat_create_inferior allocates the buffer.
Run ==
  /\ Allocate
  /\ Start

\* attach: linux_nat_attach does not.
Attach ==
  /\ UNCHANGED allocated
  /\ Start

\* A slip: hsail still counts as initialized after the target is closed.
CloseInitialized ==
  /\ FreeBuffer
  /\ fifoOpen' = FALSE
  /\ sent' = NothingSent
  /\ UNCHANGED <<initialized, binary, lines>>

\* linux_nat_close, when the native target is popped: free the buffer, then
\* hsail_linux_close, which forgets the FIFO and keeps the debug information.
CloseTarget ==
  /\ FreeBuffer
  /\ initialized' = FALSE
  /\ fifoOpen' = FALSE
  /\ sent' = NothingSent
  /\ UNCHANGED <<binary, lines>>

\* run, when the program dies before it is started (startup_inferior): the
\* target is popped if no other inferior uses it.
RunFails ==
  /\ gdb = "running"
  /\ inferiors = 0
  /\ CloseTarget
  /\ UNCHANGED <<userVars, runVars, gdb>>

\* quit_force, then hsail_linux_do_final_cleanup.
Quit ==
  /\ gdb = "running"
  /\ CloseTarget
  /\ inferiors' = 0
  /\ Stop("quit")
  /\ UNCHANGED <<userVars, runs>>

-----------------------------------------------------------------------------
(* Events of the inferior and notifications of the agent. *)

\* linux_nat_wait, second SIGALRM: hsail_linux_initialize_stg2 marks hsail
\* initialized even if the FIFO does not open; the same wait flushes.
Initialize(open) ==
  /\ gdb = "running"
  /\ inferiors > 0
  /\ ~initialized
  /\ initialized' = TRUE
  /\ fifoOpen' = open
  /\ Flush(open, binary, lines)
  /\ UNCHANGED <<chain, count, enabled, allocated, binary, lines, runVars>>

\* linux_nat_wait, at any later event.
WaitFlush ==
  /\ gdb = "running"
  /\ initialized
  /\ Flush(fifoOpen, binary, lines)
  /\ UNCHANGED <<chain, count, enabled, allocated, agentVars, runVars>>

\* HSAIL_NOTIFY_NEW_BINARY in handle_hsail_event; map is the set of breakpoints
\* whose line the binary maps.  The agent announces a binary once both FIFOs
\* are open.
NewBinary(map) ==
  /\ gdb = "running"
  /\ initialized
  /\ binary' = TRUE
  /\ lines' = map
  /\ Flush(fifoOpen, TRUE, map)
  /\ UNCHANGED <<chain, count, enabled, allocated, initialized, fifoOpen,
                 runVars>>

\* The same with a code object that has no debug information.
NewBinaryFails ==
  /\ gdb = "running"
  /\ initialized
  /\ binary' = FALSE
  /\ lines' = {}
  /\ Flush(fifoOpen, FALSE, {})
  /\ UNCHANGED <<chain, count, enabled, allocated, initialized, fifoOpen,
                 runVars>>

\* HSAIL_NOTIFY_END_DEBUGGING of a dispatch that has completed: the map is not
\* looked at again before a binary brings another.
EndDebugging ==
  /\ gdb = "running"
  /\ initialized
  /\ binary' = FALSE
  /\ lines' = {}
  /\ UNCHANGED <<userVars, bufferVars, initialized, fifoOpen, sent, runVars,
                 gdb>>

\* An inferior exits, is killed or is detached; the target is popped with the
\* last one (inf_child_maybe_unpush_target).
InferiorExit ==
  /\ gdb = "running"
  /\ inferiors > 0
  /\ inferiors' = inferiors - 1
  /\ \/ inferiors = 1 /\ CloseTarget
     \/ inferiors > 1 /\ UNCHANGED <<bufferVars, agentVars, sent>>
  /\ UNCHANGED <<userVars, runs, gdb>>

-----------------------------------------------------------------------------
Init ==
  /\ chain = {}
  /\ count = 0
  /\ request = [b \in Bps |-> "UNKNOWN"]
  /\ enabled = [b \in Bps |-> TRUE]
  /\ slots = EmptyBuffer
  /\ len = 0
  /\ allocated = FALSE
  /\ initialized = FALSE
  /\ fifoOpen = FALSE
  /\ binary = FALSE
  /\ lines = {}
  /\ sent = NothingSent
  /\ inferiors = 0
  /\ runs = 0
  /\ gdb = "running"

Next ==
  \/ \E type \in Kinds : CreateBreakpoint(type)
  \/ \E b \in Bps : DeleteBreakpoint(b)
  \/ \E b \in Bps : DisableBreakpoint(b)
  \/ \E b \in Bps : EnableBreakpoint(b)
  \/ Run
  \/ Attach
  \/ RunFails
  \/ Quit
  \/ \E open \in BOOLEAN : Initialize(open)
  \/ WaitFlush
  \/ \E map \in SUBSET Bps : NewBinary(map)
  \/ NewBinaryFails
  \/ EndDebugging
  \/ InferiorExit

Spec == Init /\ [][Next]_vars

-----------------------------------------------------------------------------
(* Properties. *)

TypeOK ==
  /\ chain \subseteq Bps
  /\ count \in 0..MaxBps
  /\ request \in [Bps -> Request]
  /\ enabled \in [Bps -> BOOLEAN]
  /\ slots \in [Idx -> Slot]
  /\ len \in Nat
  /\ allocated \in BOOLEAN
  /\ initialized \in BOOLEAN
  /\ fifoOpen \in BOOLEAN
  /\ binary \in BOOLEAN
  /\ lines \subseteq Bps
  /\ sent \in [Bps -> Record]
  /\ inferiors \in 0..MaxInferiors
  /\ runs \in 0..MaxRuns
  /\ gdb \in {"running"} \cup Stops

\* In one run the agent is told at most once to create a breakpoint, however
\* the request travelled: at once, through the buffer, or put back at the start
\* of the run ("we don't send multiple packets to the agent", breakpoint.c).
AtMostOneCreatePerRun == \A b \in Bps : sent[b].creates <= 1

\* Between two steps, nothing waits that could be sent: once hsail is
\* initialized only source requests wait, and only without debug information.
\* The early return of the flush on a zero length never skips a request.
NothingSendableWaits ==
  gdb = "running" /\ initialized =>
    \A i \in Live : slots[i].type = "SOURCE" /\ ~binary

\* The length, which creations, deletions and flushes adjust apart from the
\* slots and which no one ever recomputes, is never below the number of
\* requests that wait.
LengthCoversPending == gdb = "running" => Cardinality(Live) <= len

\* A breakpoint the agent was told to create has its request recorded in the
\* chain, so that the next run can put it back.
CreatedIsKnown ==
  gdb = "running" =>
    \A b \in chain : sent[b].creates > 0 => request[b] # "UNKNOWN"

\* Before hsail is initialized, no request waits whose breakpoint was deleted:
\* a deletion finds its slot, wherever creations and deletions have put it.
PendingIsOfLiveBreakpoint ==
  gdb = "running" /\ ~initialized =>
    \A i \in Live : slots[i].number \in chain

\* The assertion of breakpoint_re_set_all_hsail holds: with one inferior, a new
\* process never starts while the agent of an earlier one counts as initialized.
ReSetBeforeInitialization == gdb # "reset_late"

\* A kernel breakpoint that an earlier run resolved is created in every later
\* run as soon as hsail is initialized.
KernelBreakpointsReturn ==
  gdb = "running" /\ initialized =>
    \A b \in chain : request[b] \in {"KERNEL", "ANY"} => sent[b].creates > 0

\* With one inferior at a time, the buffer uses the link as it is promised to
\* the rest of gdb: initialized once for a process and gone with it.
Link == INSTANCE HsailLink WITH process <- inferiors > 0

LinkSpec == Link!Spec

=============================================================================
