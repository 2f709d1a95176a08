----------------------- MODULE HsailKernelChainProofs -----------------------
(***************************************************************************)
(* Theorems about HsailKernelChain, for any kernels, sizes, addresses and  *)
(* number of dispatches, and whatever malloc leaves in a new dispatch.     *)
(***************************************************************************)
EXTENDS HsailKernelChain, TLAPS

-----------------------------------------------------------------------------
(* The inductive invariant. *)

\* What ties the history to the link, so that clearing the chain when hsail is
\* initialized leaves nothing out: no dispatch of a process is seen before.
SeenWhileInitialized ==
  /\ initialized => process
  /\ process /\ ~initialized => \A k \in Kernels, s \in Sizes : seen[k][s] = 0

ChainInv ==
  /\ TypeOK
  /\ OwnedOnce
  /\ ChainedWithDispatches
  /\ OneDispatchPerSize
  /\ DispatchesOfThisProcess
  /\ FirstCountExact
  /\ SeenWhileInitialized

\* Initially there is no kernel.
LEMMA InitChainInv == Init => ChainInv
<1> SUFFICES ASSUME Init PROVE ChainInv
  OBVIOUS
<1> USE DEF Init
<1>1. Chained = {} /\ \A k \in Kernels : list[k] = <<>> /\ NodesOf(k) = {}
  BY DEF Chained, NodesOf
<1>2. TypeOK
  <2>1. chain \in Seq(Kernels) /\ list \in [Kernels -> Seq(Nodes)]
    OBVIOUS
  <2>2. node \in [Nodes -> [size : Sizes \cup {None}, grid : Grids \cup {None},
                           count : Int]]
    BY DEF NoDispatch
  <2>3. latest \in [size : Sizes \cup {None}, grid : Grids \cup {None}]
    OBVIOUS
  <2>4. seen \in [Kernels -> [Sizes -> Nat]]
    OBVIOUS
  <2>5. dispatches \in 0..MaxDispatches
    BY DispatchesAssumption
  <2>6. /\ heap \subseteq Nodes
        /\ \A n \in heap : node[n].size \in Sizes /\ node[n].grid \in Grids
        /\ active \in Nodes \cup {None}
    OBVIOUS
  <2>7. process \in BOOLEAN /\ initialized \in BOOLEAN /\ running \in BOOLEAN
    OBVIOUS
  <2> QED
    BY <2>1, <2>2, <2>3, <2>4, <2>5, <2>6, <2>7, Zenon DEF TypeOK
<1>3. OwnedOnce
  BY <1>1 DEF OwnedOnce
<1>4. ChainedWithDispatches
  BY <1>1 DEF ChainedWithDispatches
<1>5. OneDispatchPerSize
  BY <1>1 DEF OneDispatchPerSize
<1>6. DispatchesOfThisProcess /\ FirstCountExact /\ SeenWhileInitialized
  BY DEF DispatchesOfThisProcess, FirstCountExact, SeenWhileInitialized
<1> QED
  BY <1>2, <1>3, <1>4, <1>5, <1>6 DEF ChainInv

-----------------------------------------------------------------------------
(* Lemmas about the lists. *)

\* The search for a size in a list has at most one answer.
LEMMA FirstIsOnly ==
  ASSUME TypeOK, OneDispatchPerSize,
         NEW k \in Kernels, NEW s, NEW i \in OfSize(k, s)
  PROVE  FirstOfSize(k, s) = i
<1>1. \A j \in OfSize(k, s) : j = i
  BY DEF TypeOK, OneDispatchPerSize, OfSize
<1>2. i \in Int
  BY DEF TypeOK, OfSize
<1>3. \E n \in OfSize(k, s) : \A j \in OfSize(k, s) : n <= j
  BY <1>1, <1>2
<1>4. FirstOfSize(k, s) \in OfSize(k, s)
  BY <1>3, Zenon DEF FirstOfSize
<1> QED
  BY <1>1, <1>4

\* The dispatches of the lists are allocated, and their sizes are sizes.
LEMMA ListedAllocated ==
  ASSUME TypeOK, OwnedOnce, ChainedWithDispatches,
         NEW k \in Kernels, NEW i \in 1..Len(list[k])
  PROVE  /\ list[k][i] \in heap
         /\ node[list[k][i]].size \in Sizes
<1>1. list[k] # <<>>
  BY DEF TypeOK
<1>2. k \in Chained
  BY <1>1 DEF ChainedWithDispatches
<1>3. list[k][i] \in NodesOf(k)
  BY DEF NodesOf
<1>4. list[k][i] \in heap
  BY <1>2, <1>3 DEF OwnedOnce
<1> QED
  BY <1>4 DEF TypeOK

\* What adding a kernel does to the chain.
LEMMA Chaining ==
  ASSUME chain \in Seq(Kernels), NEW k \in Kernels, ChainKernel(k),
         \A i, j \in 1..Len(chain) : chain[i] = chain[j] => i = j
  PROVE  /\ chain' \in Seq(Kernels)
         /\ Chained' = Chained \cup {k}
         /\ \A i, j \in 1..Len(chain') : chain'[i] = chain'[j] => i = j
<1>1. CASE k \in Chained
  BY <1>1 DEF ChainKernel, Chained
<1>2. CASE k \notin Chained
  <2>1. chain' = Append(chain, k)
    BY <1>2 DEF ChainKernel
  <2>2. /\ Len(chain') = Len(chain) + 1
        /\ \A i \in 1..Len(chain) : chain'[i] = chain[i]
        /\ chain'[Len(chain) + 1] = k
    BY <2>1
  <2>3. chain' \in Seq(Kernels)
    BY <2>1
  <2>4. Chained' = Chained \cup {k}
    BY <2>2 DEF Chained
  <2>5. ASSUME NEW i \in 1..Len(chain'), NEW j \in 1..Len(chain'),
               chain'[i] = chain'[j]
        PROVE  i = j
    BY <2>2, <2>5, <1>2 DEF Chained
  <2> QED
    BY <2>3, <2>4, <2>5
<1> QED
  BY <1>1, <1>2

\* Clearing frees every dispatch, since each is in the list of a kernel of the
\* chain.
LEMMA Clearing ==
  ASSUME ChainInv, ClearChain
  PROVE  /\ chain' = <<>> /\ Chained' = {}
         /\ \A k \in Kernels : list'[k] = <<>> /\ NodesOf(k)' = {}
         /\ list' \in [Kernels -> Seq(Nodes)]
         /\ heap' = {}
         /\ node' \in [Nodes -> [size : Sizes \cup {None},
                                 grid : Grids \cup {None}, count : Int]]
         /\ active' = active
<1> USE DEF ChainInv
<1>1. chain' = <<>> /\ Chained' = {}
  BY DEF ClearChain, Chained
<1>2. \A k \in Kernels : list'[k] = <<>> /\ NodesOf(k)' = {}
  BY DEF ClearChain, NodesOf
<1>3. heap' = {}
  BY DEF ClearChain, OwnedOnce
<1>4. NoDispatch \in [size : Sizes \cup {None}, grid : Grids \cup {None},
                      count : Int]
  BY DEF NoDispatch
<1>5. node' \in [Nodes -> [size : Sizes \cup {None},
                           grid : Grids \cup {None}, count : Int]]
  BY <1>4 DEF ClearChain, TypeOK
<1>6. list' \in [Kernels -> Seq(Nodes)]
  BY DEF ClearChain
<1> QED
  BY <1>1, <1>2, <1>3, <1>5, <1>6 DEF ClearChain

-----------------------------------------------------------------------------
(* Adding a dispatch. *)

\* A dispatch with a size of the list is counted there: lists and allocation
\* stay as they are.
LEMMA MergeKeeps ==
  ASSUME ChainInv, NEW k \in Kernels, NEW s \in Sizes, NEW g \in Grids,
         NEW new \in Nodes, AddDispatch(k, s, g), active' = new,
         Merge(k, s, new)
  PROVE  ChainInv'
<1> USE DEF ChainInv
<1>1. PICK p \in OfSize(k, s) : TRUE
  BY DEF Merge
<1> DEFINE n == list[k][p]
<1>2. p \in 1..Len(list[k]) /\ node[n].size = s
  BY DEF OfSize
<1>3. n \in heap /\ n \in Nodes
  BY <1>2, ListedAllocated DEF TypeOK
<1>4. FirstOfSize(k, s) = p
  BY FirstIsOnly
<1>5. node' = [node EXCEPT ![n].count = @ + 1]
  BY <1>4 DEF Merge
<1>6. list' = list /\ heap' = heap
  BY DEF Merge
<1>7. \A m \in Nodes : node'[m].size = node[m].size /\ node'[m].grid = node[m].grid
  BY <1>5 DEF TypeOK
<1>8. \A m \in Nodes : node'[m].count = IF m = n THEN node[m].count + 1
                                                 ELSE node[m].count
  BY <1>5 DEF TypeOK
<1>9. list[k] # <<>>
  BY <1>2 DEF TypeOK
<1>10. k \in Chained
  BY <1>9 DEF ChainedWithDispatches
<1>11. chain' = chain /\ Chained' = Chained
  BY <1>10 DEF AddDispatch, ChainKernel, Chained
<1>12. \A l \in Kernels : NodesOf(l)' = NodesOf(l)
  BY <1>6 DEF NodesOf
<1>13. seen' = [seen EXCEPT ![k][s] = @ + 1]
  BY DEF AddDispatch
<1>14. initialized /\ initialized' = initialized /\ process' = process
  BY DEF AddDispatch
<1>15. \A l \in Kernels : \A i \in 1..Len(list[l]) : list[l][i] \in Nodes
  BY DEF TypeOK
<1>16. TypeOK'
  <2>1. node' \in [Nodes -> [size : Sizes \cup {None}, grid : Grids \cup {None},
                             count : Int]]
    <3>1. [node[n] EXCEPT !.count = @ + 1] \in
            [size : Sizes \cup {None}, grid : Grids \cup {None}, count : Int]
      <4>1. node[n] \in
              [size : Sizes \cup {None}, grid : Grids \cup {None}, count : Int]
        BY <1>3 DEF TypeOK
      <4>2. node[n].count + 1 \in Int
        BY <4>1
      <4> QED
        BY <4>1, <4>2
    <3> QED
      BY <3>1, <1>5, <1>3, Zenon DEF TypeOK
  <2>2. seen' \in [Kernels -> [Sizes -> Nat]]
    BY <1>13 DEF TypeOK
  <2>3. dispatches' \in 0..MaxDispatches
    BY DispatchesAssumption DEF AddDispatch, TypeOK
  <2>4. /\ heap' \subseteq Nodes
        /\ \A m \in heap' : node'[m].size \in Sizes /\ node'[m].grid \in Grids
    BY <1>6, <1>7 DEF TypeOK
  <2>5. latest' \in [size : Sizes \cup {None}, grid : Grids \cup {None}]
    BY DEF AddDispatch
  <2>6. /\ process' \in BOOLEAN /\ initialized' \in BOOLEAN
        /\ running' \in BOOLEAN
    BY DEF AddDispatch, TypeOK
  <2>7. /\ chain' \in Seq(Kernels) /\ list' \in [Kernels -> Seq(Nodes)]
        /\ active' \in Nodes \cup {None}
    BY <1>6, <1>11 DEF TypeOK
  <2> QED
    BY <2>1, <2>2, <2>3, <2>4, <2>5, <2>6, <2>7, Zenon DEF TypeOK
<1>17. OwnedOnce'
  BY <1>6, <1>11, <1>12 DEF OwnedOnce, Chained, NodesOf
<1>18. ChainedWithDispatches'
  BY <1>6, <1>11 DEF ChainedWithDispatches
<1>19. OneDispatchPerSize'
  BY <1>6, <1>7, <1>15 DEF OneDispatchPerSize
<1>20. DispatchesOfThisProcess'
  <2> SUFFICES ASSUME NEW l \in Kernels
               PROVE  {node'[m].size : m \in NodesOf(l)'} =
                        {t \in Sizes : seen'[l][t] > 0}
    BY <1>14 DEF DispatchesOfThisProcess
  <2>1. {node[m].size : m \in NodesOf(l)} = {t \in Sizes : seen[l][t] > 0}
    BY <1>14 DEF DispatchesOfThisProcess
  <2>2. \A m \in NodesOf(l) : m \in Nodes
    BY <1>15 DEF NodesOf
  <2>3. {node'[m].size : m \in NodesOf(l)'} = {node[m].size : m \in NodesOf(l)}
    BY <1>7, <1>12, <2>2
  <2>4. s \in {node[m].size : m \in NodesOf(k)}
    BY <1>2 DEF NodesOf
  <2>5. seen[k][s] > 0
    BY <2>4, <1>14 DEF DispatchesOfThisProcess
  <2>6. \A t \in Sizes : seen'[l][t] > 0 <=> seen[l][t] > 0
    BY <1>13, <2>5 DEF TypeOK
  <2> QED
    BY <2>1, <2>3, <2>6
<1>21. FirstCountExact'
  <2> SUFFICES ASSUME NEW l \in Chained
               PROVE  node'[list[l][1]].count =
                        seen'[l][node'[list[l][1]].size]
    BY <1>6, <1>11, <1>14 DEF FirstCountExact
  <2> DEFINE h == list[l][1]
  <2>1. l \in Kernels
    BY DEF TypeOK, Chained
  <2>2. 1 \in 1..Len(list[l])
    BY <2>1 DEF ChainedWithDispatches, TypeOK
  <2>3. h \in Nodes /\ node[h].size \in Sizes
    BY <2>1, <2>2, <1>15, ListedAllocated
  <2>4. node[h].count = seen[l][node[h].size]
    BY <1>14 DEF FirstCountExact
  <2>5. CASE l = k /\ p = 1
    BY <2>3, <2>4, <2>5, <1>2, <1>7, <1>8, <1>13 DEF TypeOK
  <2>6. CASE ~(l = k /\ p = 1)
    <3>1. h # n
      BY <2>1, <2>2, <2>6, <1>2 DEF OwnedOnce
    <3>2. l = k => node[h].size # s
      BY <2>1, <2>2, <2>6, <1>2 DEF OneDispatchPerSize
    <3>3. seen'[l][node[h].size] = seen[l][node[h].size]
      BY <2>1, <2>3, <3>2, <1>13 DEF TypeOK
    <3> QED
      BY <2>3, <2>4, <3>1, <3>3, <1>7, <1>8
  <2> QED
    BY <2>5, <2>6
<1>22. SeenWhileInitialized'
  BY <1>14 DEF SeenWhileInitialized
<1> QED
  BY <1>16, <1>17, <1>18, <1>19, <1>20, <1>21, <1>22

\* A dispatch of another size gets a node of its own at the end of the list.
LEMMA AppendKeeps ==
  ASSUME ChainInv, NEW k \in Kernels, NEW s \in Sizes, NEW g \in Grids,
         NEW new \in Nodes \ heap, AddDispatch(k, s, g), active' = new,
         AppendNode(k, s, g, new)
  PROVE  ChainInv'
<1> USE DEF ChainInv
<1>1. PICK found \in Garbage :
        node' = [node EXCEPT ![new] = Filled(s, g, StartsAt(k, found) + 1)]
  BY DEF AppendNode
<1> DEFINE count == StartsAt(k, found) + 1
           length == Len(list[k])
<1>2. list' = [list EXCEPT ![k] = Append(@, new)] /\ heap' = heap \cup {new}
  BY DEF AppendNode
<1>3. count \in Int
  BY GarbageAssumption DEF StartsAt
<1>4. /\ node'[new] = [size |-> s, grid |-> g, count |-> count]
      /\ \A m \in Nodes : m # new => node'[m] = node[m]
  BY <1>1 DEF TypeOK, Filled
<1>5. /\ list[k] \in Seq(Nodes) /\ length \in Nat
      /\ list' \in [Kernels -> Seq(Nodes)]
      /\ \A l \in Kernels : l # k => list'[l] = list[l]
      /\ list'[k] = Append(list[k], new)
  BY <1>2 DEF TypeOK
<1>6. /\ Len(list'[k]) = length + 1
      /\ \A i \in 1..length : list'[k][i] = list[k][i]
      /\ list'[k][length + 1] = new
  BY <1>5
<1>7. /\ chain' \in Seq(Kernels) /\ Chained' = Chained \cup {k}
      /\ \A i, j \in 1..Len(chain') : chain'[i] = chain'[j] => i = j
  <2>1. chain \in Seq(Kernels) /\ ChainKernel(k)
    BY DEF TypeOK, AddDispatch
  <2>2. \A i, j \in 1..Len(chain) : chain[i] = chain[j] => i = j
    BY DEF ChainedWithDispatches
  <2> QED
    BY <2>1, <2>2, Chaining
<1>8. \A l \in Kernels : \A i \in 1..Len(list[l]) :
        /\ list[l][i] \in heap /\ list[l][i] \in Nodes /\ list[l][i] # new
        /\ node[list[l][i]].size \in Sizes
  BY ListedAllocated DEF TypeOK
<1>9. /\ NodesOf(k)' = NodesOf(k) \cup {new}
      /\ \A l \in Kernels : l # k => NodesOf(l)' = NodesOf(l)
  <2>1. NodesOf(k)' = NodesOf(k) \cup {new}
    BY <1>5, <1>6 DEF NodesOf
  <2> QED
    BY <2>1, <1>5 DEF NodesOf
<1>10. seen' = [seen EXCEPT ![k][s] = @ + 1]
  BY DEF AddDispatch
<1>11. initialized /\ initialized' = initialized /\ process' = process
  BY DEF AddDispatch
<1>12. \A i \in 1..length : node[list[k][i]].size # s
  BY DEF AppendNode, OfSize
<1>13. TypeOK'
  <2>1. node' \in [Nodes -> [size : Sizes \cup {None}, grid : Grids \cup {None},
                             count : Int]]
    <3>1. Filled(s, g, count) \in
            [size : Sizes \cup {None}, grid : Grids \cup {None}, count : Int]
      BY <1>3 DEF Filled
    <3> QED
      BY <3>1, <1>1, Zenon DEF TypeOK
  <2>2. seen' \in [Kernels -> [Sizes -> Nat]]
    BY <1>10 DEF TypeOK
  <2>3. dispatches' \in 0..MaxDispatches
    BY DispatchesAssumption DEF AddDispatch, TypeOK
  <2>4. /\ heap' \subseteq Nodes
        /\ \A m \in heap' : node'[m].size \in Sizes /\ node'[m].grid \in Grids
    BY <1>2, <1>4 DEF TypeOK
  <2>5. latest' \in [size : Sizes \cup {None}, grid : Grids \cup {None}]
    BY DEF AddDispatch
  <2>6. /\ process' \in BOOLEAN /\ initialized' \in BOOLEAN
        /\ running' \in BOOLEAN
    BY DEF AddDispatch, TypeOK
  <2>7. active' \in Nodes \cup {None}
    OBVIOUS
  <2> QED
    BY <1>5, <1>7, <2>1, <2>2, <2>3, <2>4, <2>5, <2>6, <2>7, Zenon DEF TypeOK
<1>14. OwnedOnce'
  <2>1. heap' = UNION {NodesOf(l)' : l \in Chained'}
    <3>1. heap = UNION {NodesOf(l) : l \in Chained}
      BY DEF OwnedOnce
    <3>2. Chained \subseteq Kernels
      BY DEF Chained, TypeOK
    <3>3. k \notin Chained => NodesOf(k) = {}
      BY DEF ChainedWithDispatches, NodesOf
    <3> QED
      BY <3>1, <3>2, <3>3, <1>2, <1>7, <1>9
  <2>2. ASSUME NEW k1 \in Kernels, NEW k2 \in Kernels,
               NEW i \in 1..Len(list'[k1]), NEW j \in 1..Len(list'[k2]),
               list'[k1][i] = list'[k2][j]
        PROVE  k1 = k2 /\ i = j
    <3>1. CASE k1 = k /\ i = length + 1
      BY <3>1, <2>2, <1>5, <1>6, <1>8
    <3>2. CASE k2 = k /\ j = length + 1
      BY <3>2, <2>2, <1>5, <1>6, <1>8
    <3>3. CASE ~(k1 = k /\ i = length + 1) /\ ~(k2 = k /\ j = length + 1)
      <4>1. i \in 1..Len(list[k1]) /\ list'[k1][i] = list[k1][i]
        <5>1. CASE k1 = k
          <6>1. i \in 1..(length + 1) /\ i # length + 1
            BY <5>1, <3>3, <1>6
          <6>2. length \in Nat
            BY <1>5
          <6>3. i \in 1..length
            BY <6>1, <6>2
          <6> QED
            BY <5>1, <6>3, <1>6
        <5>2. CASE k1 # k
          BY <5>2, <1>5
        <5> QED
          BY <5>1, <5>2
      <4>2. j \in 1..Len(list[k2]) /\ list'[k2][j] = list[k2][j]
        <5>1. CASE k2 = k
          <6>1. j \in 1..(length + 1) /\ j # length + 1
            BY <5>1, <3>3, <1>6
          <6>2. length \in Nat
            BY <1>5
          <6>3. j \in 1..length
            BY <6>1, <6>2
          <6> QED
            BY <5>1, <6>3, <1>6
        <5>2. CASE k2 # k
          BY <5>2, <1>5
        <5> QED
          BY <5>1, <5>2
      <4>3. list[k1][i] = list[k2][j]
        BY <4>1, <4>2, <2>2
      <4>4. \A l1, l2 \in Kernels :
              \A m1 \in 1..Len(list[l1]), m2 \in 1..Len(list[l2]) :
                list[l1][m1] = list[l2][m2] => l1 = l2 /\ m1 = m2
        BY DEF OwnedOnce
      <4> HIDE DEF ChainInv
      <4> QED
        BY <4>1, <4>2, <4>3, <4>4
    <3> QED
      BY <3>1, <3>2, <3>3
  <2>3. \A k1, k2 \in Kernels :
          \A i \in 1..Len(list'[k1]), j \in 1..Len(list'[k2]) :
            list'[k1][i] = list'[k2][j] => k1 = k2 /\ i = j
    BY <2>2
  <2> QED
    BY <2>1, <2>3 DEF OwnedOnce
<1>15. ChainedWithDispatches'
  <2>1. \A l \in Kernels : l \in Chained' <=> list'[l] # <<>>
    <3>1. list'[k] # <<>>
      BY <1>5
    <3> QED
      BY <3>1, <1>5, <1>7 DEF ChainedWithDispatches
  <2> QED
    BY <2>1, <1>7 DEF ChainedWithDispatches
<1>16. OneDispatchPerSize'
  <2> SUFFICES ASSUME NEW l \in Kernels,
                      NEW i \in 1..Len(list'[l]), NEW j \in 1..Len(list'[l]),
                      node'[list'[l][i]].size = node'[list'[l][j]].size
               PROVE  i = j
    BY DEF OneDispatchPerSize
  <2>1. CASE l # k
    BY <2>1, <1>4, <1>5, <1>8 DEF OneDispatchPerSize
  <2>2. CASE l = k
    <3>1. \A m \in 1..length : node'[list'[k][m]] = node[list[k][m]]
      BY <1>4, <1>6, <1>8
    <3>2. node'[list'[k][length + 1]].size = s
      BY <1>4, <1>6
    <3>3. CASE i = length + 1 \/ j = length + 1
      BY <3>1, <3>2, <3>3, <2>2, <1>5, <1>6, <1>12
    <3>4. CASE i \in 1..length /\ j \in 1..length
      <4>1. node'[list'[k][i]].size = node'[list'[k][j]].size
        BY <2>2
      <4>2. node[list[k][i]].size = node[list[k][j]].size
        BY <3>1, <3>4, <4>1
      <4>3. \A m1, m2 \in 1..length :
              node[list[k][m1]].size = node[list[k][m2]].size => m1 = m2
        BY DEF OneDispatchPerSize
      <4> QED
        BY <3>4, <4>2, <4>3
    <3>5. length \in Nat
      BY <1>5
    <3>6. i \in 1..(length + 1) /\ j \in 1..(length + 1)
      BY <2>2, <1>6
    <3> QED
      BY <3>3, <3>4, <3>5, <3>6
  <2> QED
    BY <2>1, <2>2
<1>17. \A l \in Kernels : \A m \in NodesOf(l) : m \in Nodes /\ node'[m] = node[m]
  BY <1>4, <1>8 DEF NodesOf
<1>18. DispatchesOfThisProcess'
  <2> SUFFICES ASSUME NEW l \in Kernels
               PROVE  {node'[m].size : m \in NodesOf(l)'} =
                        {t \in Sizes : seen'[l][t] > 0}
    BY <1>11 DEF DispatchesOfThisProcess
  <2>1. {node[m].size : m \in NodesOf(l)} = {t \in Sizes : seen[l][t] > 0}
    BY <1>11 DEF DispatchesOfThisProcess
  <2>2. {node'[m].size : m \in NodesOf(l)} = {node[m].size : m \in NodesOf(l)}
    BY <1>17
  <2>3. CASE l # k
    BY <2>1, <2>2, <2>3, <1>9, <1>10 DEF TypeOK
  <2>4. CASE l = k
    <3>1. {node'[m].size : m \in NodesOf(l)'} =
            {node'[m].size : m \in NodesOf(l)} \cup {s}
      BY <2>4, <1>4, <1>9
    <3>2. \A t \in Sizes : seen'[l][t] > 0 <=> seen[l][t] > 0 \/ t = s
      BY <2>4, <1>10 DEF TypeOK
    <3> QED
      BY <3>1, <3>2, <2>1, <2>2
  <2> QED
    BY <2>3, <2>4
<1>19. FirstCountExact'
  <2> SUFFICES ASSUME NEW l \in Chained'
               PROVE  node'[list'[l][1]].count =
                        seen'[l][node'[list'[l][1]].size]
    BY DEF FirstCountExact
  <2>1. l \in Kernels
    BY <1>7 DEF TypeOK, Chained
  <2>2. CASE list[l] = <<>>
    <3>1. l = k
      BY <2>1, <2>2, <1>7 DEF ChainedWithDispatches
    <3>2. length = 0 /\ count = 1 /\ list'[l][1] = new
      BY <2>2, <3>1, <1>6 DEF StartsAt
    <3>3. NodesOf(k) = {}
      BY <2>2, <3>1 DEF NodesOf
    <3>4. seen[k][s] = 0
      BY <3>3, <1>11 DEF DispatchesOfThisProcess, TypeOK
    <3> QED
      BY <3>1, <3>2, <3>4, <1>4, <1>10 DEF TypeOK
  <2>3. CASE list[l] # <<>>
    <3>1. l \in Chained /\ 1 \in 1..Len(list[l])
      BY <2>1, <2>3 DEF ChainedWithDispatches, TypeOK
    <3>2. list'[l][1] = list[l][1]
      BY <2>1, <3>1, <1>5, <1>6
    <3> DEFINE h == list[l][1]
    <3>3. node'[h] = node[h] /\ node[h].size \in Sizes
      BY <2>1, <3>1, <1>4, <1>8
    <3>4. node[h].count = seen[l][node[h].size]
      BY <3>1, <1>11 DEF FirstCountExact
    <3>5. l = k => node[h].size # s
      BY <3>1, <1>12
    <3>6. seen'[l][node[h].size] = seen[l][node[h].size]
      BY <2>1, <3>3, <3>5, <1>10 DEF TypeOK
    <3> QED
      BY <3>2, <3>3, <3>4, <3>6
  <2> QED
    BY <2>2, <2>3
<1>20. SeenWhileInitialized'
  BY <1>11 DEF SeenWhileInitialized
<1> QED
  BY <1>13, <1>14, <1>15, <1>16, <1>18, <1>19, <1>20

-----------------------------------------------------------------------------
(* The steps that do not add a dispatch. *)

\* With the lists empty, the invariant is about the history alone.
LEMMA ClearKeeps ==
  ASSUME ChainInv, ClearChain, UNCHANGED historyVars,
         process' \in BOOLEAN, initialized' \in BOOLEAN, running' \in BOOLEAN,
         SeenWhileInitialized',
         initialized' => \A k \in Kernels, s \in Sizes : seen[k][s] = 0
  PROVE  ChainInv'
<1>1. /\ chain' = <<>> /\ Chained' = {}
      /\ \A k \in Kernels : list'[k] = <<>> /\ NodesOf(k)' = {}
      /\ list' \in [Kernels -> Seq(Nodes)]
      /\ heap' = {}
      /\ node' \in [Nodes -> [size : Sizes \cup {None},
                              grid : Grids \cup {None}, count : Int]]
      /\ active' = active
  BY Clearing
<1>2. TypeOK'
  <2>1. /\ seen' \in [Kernels -> [Sizes -> Nat]]
        /\ latest' \in [size : Sizes \cup {None}, grid : Grids \cup {None}]
        /\ dispatches' \in 0..MaxDispatches
        /\ active' \in Nodes \cup {None}
    BY <1>1 DEF ChainInv, TypeOK, historyVars
  <2>2. /\ chain' \in Seq(Kernels)
        /\ heap' \subseteq Nodes
        /\ \A n \in heap' : node'[n].size \in Sizes /\ node'[n].grid \in Grids
    BY <1>1
  <2> QED
    BY <1>1, <2>1, <2>2, Zenon DEF TypeOK
<1>3. OwnedOnce'
  BY <1>1 DEF OwnedOnce
<1>4. ChainedWithDispatches'
  BY <1>1 DEF ChainedWithDispatches
<1>5. OneDispatchPerSize'
  BY <1>1 DEF OneDispatchPerSize
<1>6. DispatchesOfThisProcess'
  BY <1>1 DEF DispatchesOfThisProcess, historyVars
<1>7. FirstCountExact'
  BY <1>1 DEF FirstCountExact
<1> QED
  BY <1>2, <1>3, <1>4, <1>5, <1>6, <1>7 DEF ChainInv

\* What is said of the chain alone stays with it; the rest is said of a process
\* with an initialized link.
LEMMA ChainStays ==
  ASSUME ChainInv, UNCHANGED chainVars
  PROVE  OwnedOnce' /\ ChainedWithDispatches' /\ OneDispatchPerSize'
<1> USE DEF ChainInv, chainVars
<1>1. OwnedOnce'
  BY DEF OwnedOnce, Chained, NodesOf
<1>2. ChainedWithDispatches'
  BY DEF ChainedWithDispatches, Chained
<1>3. OneDispatchPerSize'
  BY DEF OneDispatchPerSize
<1> QED
  BY <1>1, <1>2, <1>3

\* Every step keeps the invariant.
LEMMA NextChainInv == ChainInv /\ [Next]_vars => ChainInv'
<1> SUFFICES ASSUME ChainInv, [Next]_vars PROVE ChainInv'
  OBVIOUS
<1>0. TypeOK
  BY DEF ChainInv
<1>1. ASSUME NEW k \in Kernels, NEW s \in Sizes, NEW g \in Grids,
             AddDispatch(k, s, g)
      PROVE  ChainInv'
  <2>1. PICK new \in Nodes \ heap :
          active' = new /\ (Merge(k, s, new) \/ AppendNode(k, s, g, new))
    BY <1>1 DEF AddDispatch
  <2>2. CASE Merge(k, s, new)
    BY <1>1, <2>1, <2>2, MergeKeeps
  <2>3. CASE AppendNode(k, s, g, new)
    BY <1>1, <2>1, <2>3, AppendKeeps
  <2> QED
    BY <2>1, <2>2, <2>3
<1>2. CASE Start
  <2>1. ~initialized /\ initialized' = FALSE
    BY <1>2, <1>0 DEF Start, ChainInv, SeenWhileInitialized, TypeOK
  <2>2. TypeOK'
    <3>1. seen' \in [Kernels -> [Sizes -> Nat]]
      BY <1>2 DEF Start
    <3>2. latest' \in [size : Sizes \cup {None}, grid : Grids \cup {None}]
      BY <1>2 DEF Start
    <3>3. dispatches' \in 0..MaxDispatches
      BY <1>2, DispatchesAssumption DEF Start
    <3>4. process' \in BOOLEAN /\ initialized' \in BOOLEAN /\ running' \in BOOLEAN
      BY <1>2, <1>0 DEF Start, TypeOK
    <3> QED
      BY <1>2, <1>0, <3>1, <3>2, <3>3, <3>4, Zenon DEF Start, TypeOK, chainVars
  <2>3. OwnedOnce' /\ ChainedWithDispatches' /\ OneDispatchPerSize'
    BY <1>2, ChainStays DEF Start
  <2>4. DispatchesOfThisProcess' /\ FirstCountExact'
    BY <2>1 DEF DispatchesOfThisProcess, FirstCountExact
  <2>5. SeenWhileInitialized'
    BY <1>2, <2>1 DEF Start, SeenWhileInitialized
  <2> QED
    BY <2>2, <2>3, <2>4, <2>5 DEF ChainInv
<1>3. CASE Initialize
  <2>1. SeenWhileInitialized'
    BY <1>3 DEF Initialize, SeenWhileInitialized
  <2>2. \A k \in Kernels, s \in Sizes : seen[k][s] = 0
    BY <1>3 DEF Initialize, ChainInv, SeenWhileInitialized
  <2>3. process' \in BOOLEAN /\ initialized' \in BOOLEAN /\ running' \in BOOLEAN
    BY <1>3, <1>0 DEF Initialize, TypeOK
  <2> QED
    BY <1>3, <2>1, <2>2, <2>3, ClearKeeps DEF Initialize
<1>4. CASE Close
  <2>1. initialized' = FALSE /\ process' = FALSE
    BY <1>4 DEF Close
  <2>2. TypeOK'
    <3>1. process' \in BOOLEAN /\ initialized' \in BOOLEAN /\ running' \in BOOLEAN
      BY <1>4, <1>0 DEF Close, TypeOK
    <3> QED
      BY <1>4, <1>0, <3>1, Zenon DEF Close, TypeOK, chainVars, historyVars
  <2>3. OwnedOnce' /\ ChainedWithDispatches' /\ OneDispatchPerSize'
    BY <1>4, ChainStays DEF Close
  <2>4. /\ DispatchesOfThisProcess' /\ FirstCountExact'
        /\ SeenWhileInitialized'
    BY <2>1 DEF DispatchesOfThisProcess, FirstCountExact, SeenWhileInitialized
  <2> QED
    BY <2>2, <2>3, <2>4 DEF ChainInv
<1>5. CASE Quit
  <2>1. initialized' = FALSE /\ process' = FALSE /\ running' = FALSE
    BY <1>5 DEF Quit
  <2>2. SeenWhileInitialized'
    BY <2>1 DEF SeenWhileInitialized
  <2> QED
    BY <1>5, <2>1, <2>2, ClearKeeps DEF Quit
<1>6. CASE UNCHANGED vars
  <2>1. TypeOK'
    BY <1>6, <1>0 DEF vars, TypeOK, chainVars, historyVars
  <2>2. OwnedOnce' /\ ChainedWithDispatches' /\ OneDispatchPerSize'
    BY <1>6, ChainStays DEF vars
  <2>3. DispatchesOfThisProcess'
    BY <1>6 DEF vars, chainVars, historyVars, ChainInv,
                DispatchesOfThisProcess, NodesOf
  <2>4. FirstCountExact'
    BY <1>6 DEF vars, chainVars, historyVars, ChainInv, FirstCountExact, Chained
  <2>5. SeenWhileInitialized'
    BY <1>6 DEF vars, historyVars, ChainInv, SeenWhileInitialized
  <2> QED
    BY <2>1, <2>2, <2>3, <2>4, <2>5 DEF ChainInv
<1> QED
  BY <1>1, <1>2, <1>3, <1>4, <1>5, <1>6 DEF Next

-----------------------------------------------------------------------------
(* Theorems. *)

\* ChainInv holds throughout every behaviour.
THEOREM ChainInvariant == Spec => []ChainInv
<1> QED
  BY InitChainInv, NextChainInv, PTL DEF Spec

\* The variables keep their types, and every allocated dispatch has its sizes.
THEOREM ChainTypeCorrect == Spec => []TypeOK
<1>1. ChainInv => TypeOK
  BY DEF ChainInv
<1> QED
  BY <1>1, ChainInvariant, PTL

\* hsail_kernel_append_dispatch_to_kernel and hsail_kernel_clear_chain leak no
\* dispatch and free none twice.
THEOREM DispatchesOwned == Spec => []OwnedOnce
<1>1. ChainInv => OwnedOnce
  BY DEF ChainInv
<1> QED
  BY <1>1, ChainInvariant, PTL

\* The assertion of hsail_kernel_print_info never fails.
THEOREM KernelsHaveDispatches == Spec => []ChainedWithDispatches
<1>1. ChainInv => ChainedWithDispatches
  BY DEF ChainInv
<1> QED
  BY <1>1, ChainInvariant, PTL

\* The lists have each work-group size once.
THEOREM SizesDistinct == Spec => []OneDispatchPerSize
<1>1. ChainInv => OneDispatchPerSize
  BY DEF ChainInv
<1> QED
  BY <1>1, ChainInvariant, PTL

\* With an initialized link, the lists show the dispatches of this process.
THEOREM NoStaleDispatches == Spec => []DispatchesOfThisProcess
<1>1. ChainInv => DispatchesOfThisProcess
  BY DEF ChainInv
<1> QED
  BY <1>1, ChainInvariant, PTL

\* The count of the first dispatch of every kernel is exact.
THEOREM FirstCounted == Spec => []FirstCountExact
<1>1. ChainInv => FirstCountExact
  BY DEF ChainInv
<1> QED
  BY <1>1, ChainInvariant, PTL

=============================================================================
