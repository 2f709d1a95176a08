-------------------------- MODULE MCHsailDebugInfo --------------------------
(***************************************************************************)
(* Instances of HsailDebugInfo for TLC: the code scopes of small kernels.  *)
(***************************************************************************)
EXTENDS HsailDebugInfo

\* The largest address.
Infinity == 9

Unit == [parent |-> 0, kind |-> "unit", minAddr |-> 0, maxAddr |-> Infinity,
         nonTrivial |-> FALSE]

\* The DIE of a function that is only inlined, which has no range.
Abstract == [parent |-> 1, kind |-> "function", minAddr |-> 0,
             maxAddr |-> Infinity, nonTrivial |-> FALSE]

Ranged(p, k, a, b) ==
  [parent |-> p, kind |-> k, minAddr |-> a, maxAddr |-> b, nonTrivial |-> TRUE]

Block(p, a, b) ==
  [parent |-> p, kind |-> "block", minAddr |-> a, maxAddr |-> b,
   nonTrivial |-> FALSE]

MCTrees ==
  { \* a kernel
    <<Unit, Ranged(1, "function", 1, 5)>>,
    \* a call in the middle, the abstract function before the kernel
    <<Unit, Abstract, Ranged(1, "function", 1, 5), Ranged(3, "inlined", 2, 3)>>,
    \* two calls, the second after the end of the first
    <<Unit, Ranged(1, "function", 1, 5), Ranged(2, "inlined", 2, 3),
      Ranged(2, "inlined", 3, 4)>>,
    \* a call in a call in a block
    <<Unit, Ranged(1, "function", 1, 5), Block(2, 1, 5),
      Ranged(3, "inlined", 2, 5), Ranged(4, "inlined", 3, 4)>> }

\* All of them nested, as DWARF nests scopes.
ASSUME MCTreesAreNested == \A t \in MCTrees : Nested(t)

=============================================================================
