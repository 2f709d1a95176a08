-------------------------- MODULE HsailKernelChain --------------------------
(***************************************************************************)
(* The kernels and dispatches that gdb has seen (hsail-kernel.c).          *)
(*                                                                         *)
(* A list of kernels, each with a list of its dispatches.  A dispatch with *)
(* the work-group size of one in the list is counted there, and its own    *)
(* node is freed.  The list is cleared when the link with the agent of the *)
(* next process is initialized, not when a process ends.                   *)
(*                                                                         *)
(* Nodes are addresses: malloc gives any that is not in use, with whatever *)
(* it held.  The contents of freed nodes are put back to NoDispatch; no    *)
(* action reads them.                                                      *)
(***************************************************************************)
EXTENDS Integers, Sequences

CONSTANTS
  Kernels,       \* kernel names
  Sizes,         \* work-group sizes
  Grids,         \* grid sizes
  Nodes,         \* addresses of dispatches (bound)
  Garbage,       \* what an uninitialized int holds
  MaxDispatches  \* dispatches in a process (bound)

ASSUME GarbageAssumption == Garbage \subseteq Int
ASSUME DispatchesAssumption == MaxDispatches \in Nat

\* No size, no grid, no address.
None == "none"
NoDispatch == [size |-> None, grid |-> None, count |-> 0]

VARIABLES
  chain,        \* gs_hsail_kernel_chain, the names of its kernels
  list,         \* dispatch_list of each kernel
  node,         \* contents of the dispatches
  heap,         \* addresses in use
  active,       \* gs_active_dispatch
  process,      \* there is a process
  initialized,  \* gs_is_hsail_initialized
  running,      \* gdb has not quit
  seen,         \* dispatches of this process, by kernel and size
  latest,       \* size and grid of the last one
  dispatches    \* their number

chainVars == <<chain, list, node, heap, active>>
historyVars == <<seen, latest, dispatches>>
vars == <<chainVars, process, initialized, running, historyVars>>

Chained == {chain[i] : i \in 1..Len(chain)}
NodesOf(k) == {list[k][i] : i \in 1..Len(list[k])}

-----------------------------------------------------------------------------
(* hsail_kernel_append_dispatch_to_kernel. *)

\* Slips: only the head of the list is looked at; the node of a dispatch that
\* is merged stays allocated; the count of the head starts as malloc left it; a
\* new dispatch is not given its size.
HeadOfSize(k, s) == {i \in 1..Len(list[k]) : i = 1 /\ node[list[k][i]].size = s}

MergeKeepsNode(k, s, new) ==
  \E i \in 1..Len(list[k]) :
    /\ node[list[k][i]].size = s
    /\ node' = [node EXCEPT ![list[k][i]].count = @ + 1]
    /\ heap' = heap \cup {new}
    /\ UNCHANGED list

StartsAsFound(k, found) == found

UnsizedAt(s, g, count) == [size |-> None, grid |-> g, count |-> count]

\* The positions in the list of k with size s; the code takes the first.
OfSize(k, s) == {i \in 1..Len(list[k]) : node[list[k][i]].size = s}

FirstOfSize(k, s) ==
  CHOOSE i \in OfSize(k, s) : \A j \in OfSize(k, s) : i <= j

\* The dispatch is counted at the node with its size; the new node is freed.
Merge(k, s, new) ==
  /\ OfSize(k, s) # {}
  /\ node' = [node EXCEPT ![list[k][FirstOfSize(k, s)]].count = @ + 1]
  /\ UNCHANGED <<list, heap>>

\* Only the head of a list has its count set to zero before it is incremented.
StartsAt(k, found) == IF list[k] = <<>> THEN 0 ELSE found

Filled(s, g, count) == [size |-> s, grid |-> g, count |-> count]

\* The new node goes to the end of the list.
AppendNode(k, s, g, new) ==
  /\ OfSize(k, s) = {}
  /\ \E found \in Garbage :
       node' = [node EXCEPT ![new] = Filled(s, g, StartsAt(k, found) + 1)]
  /\ list' = [list EXCEPT ![k] = Append(@, new)]
  /\ heap' = heap \cup {new}

\* A slip: every dispatch adds its kernel to the chain.
ChainAlways(k) == chain' = Append(chain, k)

\* A kernel not found by its name is added at the end of the chain.
ChainKernel(k) == chain' = IF k \in Chained THEN chain ELSE Append(chain, k)

\* hsail_kernel_add_dispatch, from HSAIL_NOTIFY_NEW_BINARY with debug
\* information.
AddDispatch(k, s, g) ==
  /\ running /\ initialized
  /\ dispatches < MaxDispatches
  /\ ChainKernel(k)
  /\ \E new \in Nodes \ heap :
       /\ active' = new
       /\ Merge(k, s, new) \/ AppendNode(k, s, g, new)
  /\ seen' = [seen EXCEPT ![k][s] = @ + 1]
  /\ latest' = [size |-> s, grid |-> g]
  /\ dispatches' = dispatches + 1
  /\ UNCHANGED <<process, initialized, running>>

-----------------------------------------------------------------------------
(* The rest of gdb. *)

\* hsail_kernel_clear_chain frees kernels and dispatches and leaves the active
\* dispatch as it is.
ClearChain ==
  /\ chain' = <<>>
  /\ list' = [k \in Kernels |-> <<>>]
  /\ node' = [n \in Nodes |-> IF n \in UNION {NodesOf(k) : k \in Chained}
                                THEN NoDispatch ELSE node[n]]
  /\ heap' = heap \ UNION {NodesOf(k) : k \in Chained}
  /\ UNCHANGED active

\* run, or attach: the list still shows the dispatches of the last process.
Start ==
  /\ running /\ ~process
  /\ process' = TRUE
  /\ seen' = [k \in Kernels |-> [s \in Sizes |-> 0]]
  /\ latest' = [size |-> None, grid |-> None]
  /\ dispatches' = 0
  /\ UNCHANGED <<chainVars, initialized, running>>

\* A slip: the second stage does not clear the chain.
InitializeOnly ==
  /\ running /\ process /\ ~initialized
  /\ initialized' = TRUE
  /\ UNCHANGED <<chainVars, process, running, historyVars>>

\* hsail_linux_initialize_stg2.
Initialize ==
  /\ running /\ process /\ ~initialized
  /\ initialized' = TRUE
  /\ ClearChain
  /\ UNCHANGED <<process, running, historyVars>>

\* hsail_linux_close, as the process ends.
Close ==
  /\ running /\ process
  /\ process' = FALSE
  /\ initialized' = FALSE
  /\ UNCHANGED <<chainVars, running, historyVars>>

\* quit_force, which kills the process, and hsail_linux_do_final_cleanup.
Quit ==
  /\ running
  /\ running' = FALSE
  /\ process' = FALSE
  /\ initialized' = FALSE
  /\ ClearChain
  /\ UNCHANGED historyVars

-----------------------------------------------------------------------------
Init ==
  /\ chain = <<>>
  /\ list = [k \in Kernels |-> <<>>]
  /\ node = [n \in Nodes |-> NoDispatch]
  /\ heap = {}
  /\ active = None
  /\ process = FALSE
  /\ initialized = FALSE
  /\ running = TRUE
  /\ seen = [k \in Kernels |-> [s \in Sizes |-> 0]]
  /\ latest = [size |-> None, grid |-> None]
  /\ dispatches = 0

Next ==
  \/ \E k \in Kernels, s \in Sizes, g \in Grids : AddDispatch(k, s, g)
  \/ Start
  \/ Initialize
  \/ Close
  \/ Quit

Spec == Init /\ [][Next]_vars

-----------------------------------------------------------------------------
(* Properties. *)

TypeOK ==
  /\ chain \in Seq(Kernels)
  /\ list \in [Kernels -> Seq(Nodes)]
  /\ node \in [Nodes -> [size : Sizes \cup {None}, grid : Grids \cup {None},
                         count : Int]]
  /\ heap \subseteq Nodes
  /\ \A n \in heap : node[n].size \in Sizes /\ node[n].grid \in Grids
  /\ active \in Nodes \cup {None}
  /\ process \in BOOLEAN
  /\ initialized \in BOOLEAN
  /\ running \in BOOLEAN
  /\ seen \in [Kernels -> [Sizes -> Nat]]
  /\ latest \in [size : Sizes \cup {None}, grid : Grids \cup {None}]
  /\ dispatches \in 0..MaxDispatches

\* The allocated dispatches are those of the lists of the chained kernels, each
\* in one place: none leaks when dispatches are merged and chains cleared, and
\* clearing frees none twice.
OwnedOnce ==
  /\ heap = UNION {NodesOf(k) : k \in Chained}
  /\ \A k1, k2 \in Kernels :
       \A i \in 1..Len(list[k1]), j \in 1..Len(list[k2]) :
         list[k1][i] = list[k2][j] => k1 = k2 /\ i = j

\* A kernel is chained once, and exactly when it has a dispatch, which
\* hsail_kernel_print_info asserts of each kernel of the chain.
ChainedWithDispatches ==
  /\ \A k \in Kernels : k \in Chained <=> list[k] # <<>>
  /\ \A i, j \in 1..Len(chain) : chain[i] = chain[j] => i = j

\* "info kernels" never shows two dispatches of a kernel with the same
\* work-group size, from whichever process they come.
OneDispatchPerSize ==
  \A k \in Kernels : \A i, j \in 1..Len(list[k]) :
    node[list[k][i]].size = node[list[k][j]].size => i = j

\* Once hsail is initialized, the lists show the dispatches of this process,
\* all of them and none of an earlier process, although those stay in the lists
\* long after their process.
DispatchesOfThisProcess ==
  initialized =>
    \A k \in Kernels :
      {node[n].size : n \in NodesOf(k)} = {s \in Sizes : seen[k][s] > 0}

\* The first dispatch of each kernel is counted exactly, whatever dispatches
\* of other sizes and other kernels come between.
FirstCountExact ==
  initialized =>
    \A k \in Chained :
      LET first == node[list[k][1]]
      IN  first.count = seen[k][first.size]

=============================================================================
