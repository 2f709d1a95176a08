--------------------------- MODULE HsailDebugInfo ---------------------------
(***************************************************************************)
(* The debug information of a kernel, from the binary the agent announces  *)
(* to the addresses gdb sends back: HwDbgFacilities reads two line tables  *)
(* and the code scopes, hsail-breakpoint.c resolves source breakpoints     *)
(* with them, hsail-infcmd.c writes the momentary breakpoints of a step.   *)
(*                                                                         *)
(* The high level maps the instructions of the kernel's HSAIL to source    *)
(* lines, the low level maps ISA addresses to the HSAIL instructions, as   *)
(* its lines.  Rows come in the order of the DWARF of a binary, which is   *)
(* any the bounds allow: a level may leave instructions unmapped, and the  *)
(* finalizer may have moved, doubled or dropped them.                      *)
(***************************************************************************)
EXTENDS LineNumberMapping, SequencesExt

CONSTANTS
  MaxLine,         \* source lines are 1 .. MaxLine (a bound)
  MaxHAddr,        \* HSAIL instructions are 1 .. MaxHAddr (a bound)
  MaxLAddr,        \* ISA addresses are 1 .. MaxLAddr (a bound)
  MaxHighRows,     \* rows of the high level (a bound)
  MaxLowRows,      \* rows of the low level (a bound)
  Trees,           \* code scopes a binary may have, each a sequence of DIEs
  MomentarySize    \* momentary breakpoints the shared memory has bytes for

Lines == 1 .. MaxLine
HAddrs == 1 .. MaxHAddr
LAddrs == 1 .. MaxLAddr

ScopeKinds == {"unit", "function", "inlined", "block"}

(***************************************************************************)
(* A DIE of a scope: the index of its parent, its kind and its range; the  *)
(* first is the compilation unit, and each comes after its parent.  A      *)
(* scope without a range of its own has that of its parent.                *)
(***************************************************************************)
Scope ==
  [parent : Nat, kind : ScopeKinds, minAddr : Nat, maxAddr : Nat,
   nonTrivial : BOOLEAN]

ASSUME BoundsAssumption ==
  /\ MaxLine \in Nat \ {0} /\ MaxHAddr \in Nat \ {0} /\ MaxLAddr \in Nat \ {0}
  /\ MaxHighRows \in Nat /\ MaxLowRows \in Nat
  /\ MomentarySize \in Nat

ASSUME TreesAssumption ==
  \A t \in Trees :
    /\ t \in Seq(Scope)
    /\ Len(t) > 0
    /\ t[1].parent = 0
    /\ \A s \in 2 .. Len(t) : t[s].parent \in 1 .. s - 1

VARIABLES
  phase,      \* "none", "high" and "low" (reading), "loaded", "failed": an
              \* assertion of gdb
  hl_lm,      \* the line mapping of the high level
  ll_lm,      \* and of the low level
  hl_sc,      \* the scopes of the high level
  cache,      \* the scope whose m_addressCache has an instruction
  bkpt,       \* the last source breakpoint resolved
  step        \* the last step, with the momentary breakpoints written

vars == <<phase, hl_lm, ll_lm, hl_sc, cache, bkpt, step>>

NoBreakpoint == [asked |-> 0, line |-> 0, pc |-> 0]
NoStep == [kind |-> "none", from |-> 0, targets |-> <<>>]

(***************************************************************************)
(* The code scopes, DbgInfoData.h and DbgInfoConsumerImpl.h.               *)
(***************************************************************************)

\* The end of a range is part of it, which it is not in DWARF.
IsAddressInCodeScope(scope, addr) ==
  scope.minAddr <= addr /\ addr <= scope.maxAddr

IsFunction(scope) == scope.kind \in {"function", "inlined"}

\* Of the children of a scope that have an address, the one whose subtree is
\* searched: the first of those with a range of their own, else the first.
FirstChild(t, hits) ==
  LET ranged == {c \in hits : t[c].nonTrivial}
  IN IF ranged # {} THEN Min(ranged) ELSE Min(hits)

\* The innermost scope of tree t that has the address, by the first child that
\* has it; 0 if none.
FindSmallestScopeContainingAddress(t, addr) ==
  LET find[s \in DOMAIN t] ==
        IF ~IsAddressInCodeScope(t[s], addr) THEN 0
        ELSE LET hits == {c \in DOMAIN t : t[c].parent = s /\ find[c] # 0}
             IN IF hits = {} THEN s ELSE find[FirstChild(t, hits)]
  IN find[1]

\* MapAddressesToCodeScopes: the functions that have the address take it one
\* after the other, one without a range of its own only if nobody has it.
HomeScope(t, addr) ==
  LET takers == {s \in DOMAIN t : /\ s = 1 \/ IsFunction(t[s])
                                  /\ IsAddressInCodeScope(t[s], addr)}
      ranged == {s \in takers : t[s].nonTrivial}
  IN IF ranged # {} THEN Max(ranged)
     ELSE IF takers # {} THEN Min(takers) ELSE 0

\* The scope of each mapped address that some scope has.
MapAddressesToCodeScopes(t, m) ==
  [a \in {b \in DOMAIN m.addrToLine : HomeScope(t, b) # 0} |-> HomeScope(t, a)]

\* The functions a scope is in, the innermost first.
EnclosingFunctions(t, scope) ==
  LET up[s \in 0 .. Len(t)] ==
        IF s = 0 THEN <<>>
        ELSE (IF IsFunction(t[s]) THEN <<s>> ELSE <<>>) \o up[t[s].parent]
  IN up[scope]

\* A std::set as it is walked: the least first.
Ascending(S) ==
  CHOOSE s \in [1 .. Cardinality(S) -> S] :
    \A i, j \in DOMAIN s : i < j => s[i] < s[j]

\* m_addressCache of a scope.
AddressCache(scope) == Ascending({a \in DOMAIN cache : cache[a] = scope})

\* A slip: the innermost function is never left out.
AllFunctions(includeCurrentScope, functions) == functions

\* Stepping out leaves the innermost function out.
FunctionsToTake(includeCurrentScope, functions) ==
  IF includeCurrentScope \/ functions = <<>> THEN functions ELSE Tail(functions)

\* DbgInfoConsumerImpl::GetCachedAddresses.
CachedHAddresses(hAddr, includeCurrentScope) ==
  LET smallest == FindSmallestScopeContainingAddress(hl_sc, hAddr)
      functions == FunctionsToTake(includeCurrentScope,
                                   EnclosingFunctions(hl_sc, smallest))
  IN FlattenSeq([i \in DOMAIN functions |-> AddressCache(functions[i])])

(***************************************************************************)
(* The two levels together, DbgInfoCompoundConsumer.h and the interface of *)
(* FacilitiesInterface.cpp: a line of the low level is an address of the   *)
(* high one.                                                               *)
(***************************************************************************)

\* hwdbginfo_addr_to_line.
AddrToLine(lAddr) ==
  LET lLine == GetLineFromAddress(ll_lm, lAddr)
  IN IF lLine = NotFound THEN NotFound ELSE GetLineFromAddress(hl_lm, lLine)

\* The ISA addresses of some instructions, one instruction after the other.
LowAddresses(hAddrs) ==
  FlattenSeq([i \in DOMAIN hAddrs |-> GetAddressesFromLine(ll_lm, hAddrs[i])])

\* hwdbginfo_nearest_mapped_line: the high level decides, the low one may veto.
NearestMappedLine(line) ==
  LET near == GetNearestMappedLine(hl_lm, line)
      hAddrs == GetAddressesFromLine(hl_lm, near)
  IN IF near # NotFound
          /\ \E i \in DOMAIN hAddrs :
               GetNearestMappedLine(ll_lm, hAddrs[i]) # NotFound
     THEN near
     ELSE NotFound

\* The first of hwdbginfo_line_to_addrs.
FirstAddrOfLine(line) ==
  LET hAddrs == GetAddressesFromLine(hl_lm, line)
      hits == {i \in DOMAIN hAddrs :
                 GetAddressesFromLine(ll_lm, hAddrs[i]) # <<>>}
  IN IF hits = {} THEN NotFound
     ELSE GetAddressesFromLine(ll_lm, hAddrs[Min(hits)])[1]

\* Slips: only instructions the low level maps, those that are the first of a
\* line twice, or the instructions themselves.
MappedInstructions ==
  LET IsMapped(a) == a \in DOMAIN ll_lm.lineToAddr
  IN LowAddresses(SelectSeq(hl_lm.mappedAddrs, IsMapped))
AllTwice ==
  LowAddresses(hl_lm.mappedAddrs) \o LowAddresses(hl_lm.mappedFirstAddrs)

Instructions == hl_lm.mappedAddrs

\* hwdbginfo_all_mapped_addrs.
AllMappedAddrs == LowAddresses(hl_lm.mappedAddrs)

\* hwdbginfo_step_addresses.
StepAddresses(lAddr, stepOut) ==
  LET lLine == GetLineFromAddress(ll_lm, lAddr)
  IN IF lLine = NotFound THEN <<>>
     ELSE LowAddresses(CachedHAddresses(lLine, ~stepOut))

(***************************************************************************)
(* The actions.                                                            *)
(***************************************************************************)

Init ==
  /\ phase = "none"
  /\ hl_lm = EmptyMapping
  /\ ll_lm = EmptyMapping
  /\ hl_sc = <<>>
  /\ cache = <<>>
  /\ bkpt = NoBreakpoint
  /\ step = NoStep

\* The object, before a binary is read and after it is freed.
NoObject ==
  /\ hl_lm' = EmptyMapping
  /\ ll_lm' = EmptyMapping
  /\ cache' = <<>>
  /\ bkpt' = NoBreakpoint
  /\ step' = NoStep

\* A binary is announced: the object of the last one is freed, and the scopes
\* of the high level are read.
NewBinary(t) ==
  /\ phase \in {"none", "loaded"}
  /\ phase' = "high"
  /\ hl_sc' = t
  /\ NoObject

\* A row of the line table of the high level; addresses do not decrease.
HighRow(line, addr) ==
  /\ phase = "high"
  /\ Len(hl_lm.mappedAddrs) < MaxHighRows
  /\ hl_lm.mappedAddrs # <<>> => Last(hl_lm.mappedAddrs) <= addr
  /\ hl_lm' = AddLineMapping(hl_lm, line, addr)
  /\ UNCHANGED <<phase, ll_lm, hl_sc, cache, bkpt, step>>

\* The scopes take the mapped addresses.
EndOfHigh ==
  /\ phase = "high"
  /\ hl_lm.mappedAddrs # <<>>
  /\ phase' = "low"
  /\ cache' = MapAddressesToCodeScopes(hl_sc, hl_lm)
  /\ UNCHANGED <<hl_lm, ll_lm, hl_sc, bkpt, step>>

LowRow(line, addr) ==
  /\ phase = "low"
  /\ Len(ll_lm.mappedAddrs) < MaxLowRows
  /\ ll_lm.mappedAddrs # <<>> => Last(ll_lm.mappedAddrs) <= addr
  /\ ll_lm' = AddLineMapping(ll_lm, line, addr)
  /\ UNCHANGED <<phase, hl_lm, hl_sc, cache, bkpt, step>>

EndOfLow ==
  /\ phase = "low"
  /\ ll_lm.mappedAddrs # <<>>
  /\ phase' = "loaded"
  /\ UNCHANGED <<hl_lm, ll_lm, hl_sc, cache, bkpt, step>>

\* A level whose scopes take no address makes no object; nor does a dispatch
\* that ends leave one, hsail_free_hwdbginfo.
Free ==
  /\ \/ phase = "high" /\ hl_lm.mappedAddrs = <<>>
     \/ phase = "low" /\ ll_lm.mappedAddrs = <<>>
     \/ phase = "loaded"
  /\ phase' = "none"
  /\ hl_sc' = <<>>
  /\ NoObject

\* hsail_breakpoint_from_line_resolve sends the first address of the nearest
\* line; if there is none, nothing.
ResolveBreakpoint(line) ==
  LET near == NearestMappedLine(line)
      pc == FirstAddrOfLine(near)
  IN /\ phase = "loaded"
     /\ near # NotFound
     /\ pc # NotFound
     /\ bkpt' = [asked |-> line, line |-> near, pc |-> pc]
     /\ UNCHANGED <<phase, hl_lm, ll_lm, hl_sc, cache, step>>

\* A slip: one place less.
FitLess(targets) == Len(targets) + 1 < MomentarySize

\* hsail_step_write_momentary_breakpoints asserts that they fit.
Fit(targets) == Len(targets) < MomentarySize

\* The rest of hsail_set_step_breakpoints, with the addresses found, of which
\* it asserts that there are some.
WriteStep(kind, pc, targets) ==
  /\ phase' = IF targets # <<>> /\ Fit(targets) THEN "loaded" ELSE "failed"
  /\ step' = [kind |-> kind, from |-> pc, targets |-> targets]
  /\ UNCHANGED <<hl_lm, ll_lm, hl_sc, cache, bkpt>>

\* step and next, which stop at any mapped address.
StepIn ==
  /\ phase = "loaded"
  /\ WriteStep("in", 0, AllMappedAddrs)

\* finish, at an address waves stop at.
StepOut(pc) ==
  /\ phase = "loaded"
  /\ WriteStep("out", pc, StepAddresses(pc, TRUE))

Next ==
  \/ \E t \in Trees : NewBinary(t)
  \/ \E line \in Lines, addr \in HAddrs : HighRow(line, addr)
  \/ EndOfHigh
  \/ \E line \in HAddrs, addr \in LAddrs : LowRow(line, addr)
  \/ EndOfLow
  \/ Free
  \/ \E line \in Lines : ResolveBreakpoint(line)
  \/ StepIn
  \/ \E pc \in DOMAIN ll_lm.addrToLine : StepOut(pc)

Spec == Init /\ [][Next]_vars

(***************************************************************************)
(* The properties.                                                         *)
(***************************************************************************)

\* Types of the variables.
TypeOK ==
  /\ phase \in {"none", "high", "low", "loaded", "failed"}
  /\ IsMapping(hl_lm, HAddrs, Lines)
  /\ IsMapping(ll_lm, LAddrs, HAddrs)
  /\ hl_sc \in Trees \cup {<<>>}
  /\ bkpt \in [asked : Lines \cup {0}, line : Lines \cup {0},
               pc : LAddrs \cup {0}]
  /\ step \in [kind : {"none", "in", "out"}, from : LAddrs \cup {0},
               targets : Seq(LAddrs)]

\* After any rows, doubled and conflicting ones among them, AddLineMapping
\* leaves both mappings in agreement with themselves.
MappingsAgree == Agrees(hl_lm) /\ Agrees(ll_lm)

\* The finalizer made code for each instruction the high level maps.
Complete == DOMAIN hl_lm.addrToLine \subseteq DOMAIN ll_lm.lineToAddr

\* The address a source breakpoint is set at is one that hwdbginfo_addr_to_line
\* reports at the line the breakpoint was moved to.
BreakpointMapsBack ==
  bkpt # NoBreakpoint /\ Complete => AddrToLine(bkpt.pc) = bkpt.line

\* A step stops at each address a source breakpoint may have been set at,
\* also where the low level leaves instructions out: the searches of
\* GetAddressesFromLine and of GetMappedAddresses lead to the same places.
StepInReachesBreakpoints ==
  bkpt # NoBreakpoint /\ step.kind = "in" => bkpt.pc \in Range(step.targets)

\* The innermost function an instruction is in, the ends of the ranges not
\* included: what DWARF means.
Frame(hAddr) ==
  LET functions == {s \in DOMAIN hl_sc :
                      /\ IsFunction(hl_sc[s]) /\ hl_sc[s].nonTrivial
                      /\ hl_sc[s].minAddr <= hAddr
                      /\ hAddr < hl_sc[s].maxAddr}
  IN IF functions = {} THEN 0 ELSE Max(functions)

\* The ISA addresses of the functions that called the one of pc.
CallersAddresses(pc) ==
  LET functions == EnclosingFunctions(hl_sc, Frame(ll_lm.addrToLine[pc]))
  IN IF functions = <<>> THEN {}
     ELSE {a \in DOMAIN ll_lm.addrToLine :
             /\ ll_lm.addrToLine[a] \in DOMAIN hl_lm.addrToLine
             /\ Frame(ll_lm.addrToLine[a]) \in Range(Tail(functions))}

\* No instruction is at the end of a range, where the code takes it into the
\* range and DWARF does not.
Apart ==
  \A s \in DOMAIN hl_sc :
    hl_sc[s].nonTrivial
      => hl_sc[s].maxAddr \notin DOMAIN hl_lm.addrToLine
                                   \cup DOMAIN ll_lm.lineToAddr

\* The scopes of a tree are nested as DWARF nests them, and as the comment of
\* FindSmallestScopeContainingAddress assumes: a scope is inside its parent,
\* siblings do not intersect but at their ends.  A scope without a range, whose
\* range is that of its parent, is bare, with no range below it either, or has
\* no siblings; a function without a range, which is one that is only inlined,
\* is directly below the unit.
Nested(t) ==
  /\ ~IsFunction(t[1])
  /\ \A s \in 2 .. Len(t) :
       /\ t[t[s].parent].minAddr <= t[s].minAddr
       /\ t[s].maxAddr <= t[t[s].parent].maxAddr
       /\ IsFunction(t[s]) /\ ~t[s].nonTrivial => t[s].parent = 1
  /\ \E bare \in SUBSET (2 .. Len(t)) :
       /\ \A s \in bare : ~t[s].nonTrivial
       /\ \A s \in 2 .. Len(t) : t[s].parent \in bare => s \in bare
       /\ \A c, d \in 2 .. Len(t) :
            c # d /\ t[c].parent = t[d].parent
              => \/ /\ t[c].nonTrivial /\ t[d].nonTrivial
                    /\ \/ t[c].maxAddr <= t[d].minAddr
                       \/ t[d].maxAddr <= t[c].minAddr
                 \/ /\ c \in bare \/ d \in bare
                    /\ c \in bare \/ t[c].nonTrivial
                    /\ d \in bare \/ t[d].nonTrivial

\* finish stops at the addresses of the callers, all of them and no others:
\* the search for the innermost scope and the caches of the scopes, which are
\* filled in another order, agree.  It fails its assertion in a function that
\* no other has called.
StepOutTargets ==
  step.kind = "out" /\ Complete /\ Apart
    => Range(step.targets) = CallersAddresses(step.from)

\* A step that does not fit in the shared memory is one of a kernel with as
\* many addresses: no address is asked for twice.
OverflowIsGenuine ==
  phase = "failed" /\ step.targets # <<>> /\ Complete
    => Cardinality(DOMAIN ll_lm.addrToLine) >= MomentarySize

=============================================================================
