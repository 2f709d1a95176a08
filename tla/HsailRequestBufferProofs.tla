---------------------- MODULE HsailRequestBufferProofs ----------------------
(***************************************************************************)
(* Theorems on HsailRequestBuffer, for every number of breakpoints, slots  *)
(* and runs.                                                               *)
(***************************************************************************)
EXTENDS MCHsailRequestBuffer, FiniteSetTheorems,
        WellFoundedInduction, TLAPS

-----------------------------------------------------------------------------
(* Finite sets and the slots. *)

\* The image of a finite set under a function is finite and not larger.
LEMMA ImageBound ==
  ASSUME NEW S, IsFiniteSet(S), NEW f
  PROVE  /\ IsFiniteSet({f[x] : x \in S})
         /\ Cardinality({f[x] : x \in S}) <= Cardinality(S)
<1> DEFINE T == {f[x] : x \in S}
           g == [x \in S |-> f[x]]
<1>1. g \in Surjection(S, T)
  BY DEF Surjection
<1> HIDE DEF g
<1>2. QED
  BY <1>1, FS_Surjection

\* A set of slots, or of breakpoints, is finite.
LEMMA FiniteParts ==
  /\ \A S \in SUBSET Idx : IsFiniteSet(S) /\ Cardinality(S) \in Nat
  /\ \A S \in SUBSET Bps : IsFiniteSet(S) /\ Cardinality(S) \in Nat
<1>1. Size \in Nat /\ MaxBps \in Nat
  BY BoundsAssumption
<1>2. IsFiniteSet(Idx) /\ IsFiniteSet(Bps)
  BY <1>1, FS_Interval DEF Idx, Bps
<1>3. QED
  BY <1>2, FS_Subset, FS_CardinalityType

\* A part of a finite set is not larger, and taking it away subtracts its size.
LEMMA Removal ==
  ASSUME NEW S \in SUBSET Idx, NEW T \in SUBSET S
  PROVE  /\ Cardinality(T) <= Cardinality(S)
         /\ Cardinality(S \ T) = Cardinality(S) - Cardinality(T)
<1>1. IsFiniteSet(S) /\ IsFiniteSet(T) /\ IsFiniteSet(S \ T)
  BY FiniteParts
<1>2. Cardinality(T) <= Cardinality(S)
  BY <1>1, FS_Subset
<1>3. (S \ T) \cup T = S /\ (S \ T) \cap T = {}
  OBVIOUS
<1>4. Cardinality(S) = Cardinality(S \ T) + Cardinality(T) - Cardinality({})
  BY <1>1, <1>3, FS_Union
<1>5. Cardinality({}) = 0 /\ Cardinality(S \ T) \in Nat /\ Cardinality(T) \in Nat
  BY FS_EmptySet, FiniteParts
<1>6. QED
  BY <1>2, <1>4, <1>5, FiniteParts

\* The first of some slots is one of them.
LEMMA MinimumOfSlots ==
  ASSUME NEW S \in SUBSET Idx, S # {}
  PROVE  Minimum(S) \in S
<1> DEFINE R == {p \in Nat \X Nat : p[1] < p[2]}
<1>1. S \in SUBSET Nat
  BY BoundsAssumption DEF Idx
<1>2. IsWellFoundedOn(R, Nat)
  BY NatLessThanWellFounded DEF OpToRel
<1>3. PICK x \in S : \A y \in S : ~(<<y, x>> \in R)
  BY <1>1, <1>2, WFMin
<1>4. ASSUME NEW y \in S
      PROVE  x <= y
  <2>1. x \in Nat /\ y \in Nat /\ ~(<<y, x>> \in R)
    BY <1>1, <1>3
  <2>2. <<y, x>> \in Nat \X Nat /\ <<y, x>>[1] = y /\ <<y, x>>[2] = x
    BY <2>1
  <2>3. ~(y < x)
    BY <2>1, <2>2
  <2>4. QED
    BY <2>1, <2>3
<1>5. QED
  BY <1>4 DEF Minimum

-----------------------------------------------------------------------------
(* The inductive invariant of the buffer, for any number of inferiors. *)

\* Numbers come from the counter, in the chain, the slots and the FIFO.
NumbersCounted ==
  /\ chain \subseteq 1..count
  /\ \A i \in Idx : slots[i].number <= count
  /\ \A b \in Bps : sent[b].creates > 0 => b <= count

\* Before hsail is initialized a slot with the number of a live breakpoint
\* waits: the removal by number never meets a slot that was cleared.
NumbersWait ==
  gdb = "running" /\ ~initialized =>
    \A i \in Idx : slots[i].number \in chain => i \in Live

BufferInv ==
  /\ TypeOK
  /\ NumbersCounted
  /\ NumbersWait
  /\ LengthCoversPending
  /\ NothingSendableWaits
  /\ CreatedIsKnown

\* The values that a session and a run start with have their types.
LEMMA EmptyTypes ==
  /\ EmptyBuffer \in [Idx -> Slot]
  /\ NothingSent \in [Bps -> Record]
<1>1. EmptySlot \in Slot
  BY BoundsAssumption DEF EmptySlot, Slot, Request
<1>2. [creates |-> 0, last |-> "none"] \in Record
  BY DEF Record
<1>3. QED
  BY <1>1, <1>2 DEF EmptyBuffer, NothingSent

\* A session starts in BufferInv.
LEMMA InitBufferInv == Init => BufferInv
<1> SUFFICES ASSUME Init PROVE BufferInv
  OBVIOUS
<1> USE DEF Init
<1>1. Live = {}
  BY DEF Live, EmptyBuffer, EmptySlot
<1>2. TypeOK
  <2>1. request \in [Bps -> Request] /\ enabled \in [Bps -> BOOLEAN]
    BY DEF Request
  <2>2. slots \in [Idx -> Slot] /\ sent \in [Bps -> Record]
    BY EmptyTypes
  <2>3. /\ count \in 0..MaxBps /\ len \in Nat
        /\ inferiors \in 0..MaxInferiors /\ runs \in 0..MaxRuns
    BY BoundsAssumption
  <2>4. QED
    BY <2>1, <2>2, <2>3 DEF TypeOK
<1>3. NumbersCounted /\ NumbersWait
  BY <1>1 DEF NumbersCounted, NumbersWait, EmptyBuffer, EmptySlot, NothingSent
<1>4. LengthCoversPending /\ NothingSendableWaits /\ CreatedIsKnown
  BY <1>1, FS_EmptySet DEF LengthCoversPending, NothingSendableWaits,
     CreatedIsKnown
<1>5. QED
  BY <1>2, <1>3, <1>4 DEF BufferInv

\* Enqueue writes the requests of S, each to one slot, and keeps the others.
LEMMA EnqueueSlots ==
  ASSUME NEW S \in SUBSET Bps, NEW type, Enqueue(S, type)
  PROVE  \A i \in Idx :
           \/ slots'[i] = slots[i]
           \/ \E b \in S : /\ SlotFor(S, b) = i
                           /\ slots'[i] = [type |-> type[b], number |-> b]
<1> TAKE i \in Idx
<1>1. CASE \E b \in S : SlotFor(S, b) = i
  <2> DEFINE b == CHOOSE c \in S : SlotFor(S, c) = i
  <2>1. b \in S /\ SlotFor(S, b) = i
    BY <1>1
  <2>2. slots'[i] = [type |-> type[b], number |-> b]
    BY <1>1 DEF Enqueue
  <2>3. QED
    BY <2>1, <2>2
<1>2. CASE ~\E b \in S : SlotFor(S, b) = i
  BY <1>2 DEF Enqueue
<1>3. QED
  BY <1>1, <1>2

\* Enqueue keeps the types, and the length covers what waits after it.
LEMMA EnqueueLength ==
  ASSUME TypeOK, NEW S \in SUBSET Bps, NEW type,
         \A b \in S : type[b] \in Kinds,
         Enqueue(S, type)
  PROVE  /\ slots' \in [Idx -> Slot]
         /\ len' \in Nat
         /\ Cardinality(Live) <= len => Cardinality(Live') <= len'
<1> DEFINE f == [b \in S |-> SlotFor(S, b)]
           W == {f[b] : b \in S}
<1>1. slots' \in [Idx -> Slot]
  <2>1. ASSUME NEW i \in Idx
        PROVE  slots'[i] \in Slot
    <3>1. CASE slots'[i] = slots[i]
      BY <3>1 DEF TypeOK
    <3>2. ASSUME NEW b \in S,
                 slots'[i] = [type |-> type[b], number |-> b]
          PROVE  slots'[i] \in Slot
      <4>1. type[b] \in Request
        BY DEF Request
      <4>2. b \in 0..MaxBps
        BY BoundsAssumption DEF Bps
      <4>3. [type |-> type[b], number |-> b] \in Slot
        BY <4>1, <4>2 DEF Slot
      <4>4. QED
        BY <3>2, <4>3
    <3>3. \/ slots'[i] = slots[i]
          \/ \E b \in S : slots'[i] = [type |-> type[b], number |-> b]
      BY EnqueueSlots
    <3>4. QED
      BY <3>1, <3>2, <3>3
  <2>2. slots' = [i \in Idx |-> slots'[i]]
    BY DEF Enqueue
  <2>3. QED
    BY <2>1, <2>2
<1>2. Live' \subseteq Live \cup W
  <2> SUFFICES ASSUME NEW i \in Live', i \notin Live
               PROVE  i \in W
    OBVIOUS
  <2>1. i \in Idx /\ slots'[i] # slots[i]
    BY DEF Live
  <2>2. PICK b \in S : SlotFor(S, b) = i
    BY <2>1, EnqueueSlots
  <2>3. QED
    BY <2>2
<1>3. IsFiniteSet(S) /\ IsFiniteSet(Live) /\ IsFiniteSet(Live')
  BY FiniteParts DEF Live
<1> HIDE DEF f
<1>4. IsFiniteSet(W) /\ Cardinality(W) <= Cardinality(S)
  BY <1>3, ImageBound
<1> HIDE DEF W
<1>5. /\ Cardinality(Live \cup W) =
            Cardinality(Live) + Cardinality(W) - Cardinality(Live \cap W)
      /\ IsFiniteSet(Live \cup W)
  BY <1>3, <1>4, FS_Union
<1>6. Cardinality(Live') <= Cardinality(Live \cup W)
  BY <1>2, <1>5, FS_Subset
<1>7. /\ Cardinality(Live) \in Nat /\ Cardinality(Live') \in Nat
      /\ Cardinality(W) \in Nat /\ Cardinality(S) \in Nat
      /\ Cardinality(Live \cup W) \in Nat /\ Cardinality(Live \cap W) \in Nat
  <2>1. IsFiniteSet(Live \cap W)
    BY <1>3, FS_Subset
  <2>2. QED
    BY <1>3, <1>4, <1>5, <2>1, FS_CardinalityType
<1>8. len \in Nat /\ len' = len + Cardinality(S)
  BY DEF Enqueue, TypeOK
<1>9. QED
  BY <1>1, <1>4, <1>5, <1>6, <1>7, <1>8

\* Clearing slots that wait takes them away, types and length alike; numbers
\* stay.
LEMMA Clearing ==
  ASSUME TypeOK, NEW F \in SUBSET Live, Cardinality(Live) <= len,
         ClearSlots(F)
  PROVE  /\ slots' \in [Idx -> Slot]
         /\ len' \in Nat
         /\ \A i \in Idx : slots'[i].number = slots[i].number
         /\ \A i \in Idx \ F : slots'[i] = slots[i]
         /\ Live' = Live \ F
         /\ Cardinality(Live') <= len'
<1>1. F \subseteq Idx /\ Live \subseteq Idx
  BY DEF Live
<1>2. ASSUME NEW i \in Idx
      PROVE  /\ slots'[i] \in Slot
             /\ slots'[i].number = slots[i].number
             /\ i \in F => slots'[i].type = "UNKNOWN"
             /\ i \notin F => slots'[i] = slots[i]
  BY DEF ClearSlots, TypeOK, Slot, Request
<1>3. slots' \in [Idx -> Slot]
  BY <1>2 DEF ClearSlots
<1>4. Live' = Live \ F
  BY <1>1, <1>2 DEF Live
<1>5. /\ Cardinality(F) <= Cardinality(Live)
      /\ Cardinality(Live \ F) = Cardinality(Live) - Cardinality(F)
  BY <1>1, Removal
<1>6. Cardinality(Live) \in Nat /\ Cardinality(F) \in Nat
  BY <1>1, FiniteParts
<1>7. len \in Nat /\ len' = len - Cardinality(F)
  BY DEF ClearSlots, TypeOK
<1>8. len' \in Nat /\ Cardinality(Live') <= len'
  BY <1>4, <1>5, <1>6, <1>7
<1>9. QED
  BY <1>2, <1>3, <1>4, <1>8

\* Sending slots that wait: each breakpoint of the chain that gets a CREATE
\* packet gets its request back with it.
LEMMA Transmission ==
  ASSUME TypeOK, NEW F \in SUBSET Live, NEW map, Transmit(F, map)
  PROVE  /\ sent' \in [Bps -> Record]
         /\ request' \in [Bps -> Request]
         /\ \A b \in Bps :
              \/ sent'[b] = sent[b] /\ request'[b] = request[b]
              \/ /\ \E i \in F : slots[i].number = b
                 /\ b \in chain => request'[b] # "UNKNOWN"
<1>1. F \subseteq Idx
  BY DEF Live
<1>2. ASSUME NEW b \in Bps
      PROVE  /\ sent'[b] \in Record
             /\ request'[b] \in Request
             /\ \/ sent'[b] = sent[b] /\ request'[b] = request[b]
                \/ /\ \E i \in F : slots[i].number = b
                   /\ b \in chain => request'[b] # "UNKNOWN"
  <2>1. CASE Packets(F, map, b) = {}
    BY <2>1 DEF Transmit, SendPackets, CopyRequests, TypeOK
  <2>2. CASE Packets(F, map, b) # {}
    <3>1. Packets(F, map, b) \subseteq F
      BY DEF Packets
    <3>2. Cardinality(Packets(F, map, b)) \in Nat
      BY <1>1, <3>1, FiniteParts
    <3>3. sent'[b] = [creates |-> sent[b].creates
                                    + Cardinality(Packets(F, map, b)),
                      last |-> "CREATE"]
      BY <2>2 DEF Transmit, SendPackets
    <3>4. sent'[b] \in Record
      BY <3>2, <3>3 DEF TypeOK, Record
    <3>5. PICK i \in F : slots[i].number = b
      BY <2>2 DEF Packets
    <3>6. CASE b \in chain
      <4> DEFINE j == CHOOSE k \in Packets(F, map, b) : TRUE
      <4>1. j \in F
        BY <2>2, <3>1
      <4>2. slots[j].type # "UNKNOWN" /\ slots[j].type \in Request
        BY <4>1 DEF Live, TypeOK, Slot
      <4>3. request'[b] = slots[j].type
        BY <2>2, <3>6 DEF Transmit, CopyRequests
      <4>4. QED
        BY <3>4, <3>5, <4>2, <4>3
    <3>7. CASE b \notin chain
      <4>1. request'[b] = request[b]
        BY <3>7 DEF Transmit, CopyRequests
      <4>2. QED
        BY <3>4, <3>5, <3>7, <4>1 DEF TypeOK
    <3>8. QED
      BY <3>6, <3>7
  <2>3. QED
    BY <2>1, <2>2
<1>3. sent' \in [Bps -> Record]
  BY <1>2 DEF Transmit, SendPackets
<1>4. request' \in [Bps -> Request]
  BY <1>2 DEF Transmit, CopyRequests
<1>5. QED
  BY <1>2, <1>3, <1>4

\* What a flush does, however it ends: if gdb goes on, exactly what could be
\* sent is gone, though the flush looks at the length and not at the slots.
LEMMA Flushing ==
  ASSUME TypeOK, NumbersCounted, LengthCoversPending, gdb = "running",
         NEW open, NEW bin, NEW map, Flush(open, bin, map)
  PROVE  /\ slots' \in [Idx -> Slot]
         /\ len' \in Nat
         /\ sent' \in [Bps -> Record]
         /\ request' \in [Bps -> Request]
         /\ gdb' \in {"running"} \cup Stops
         /\ \A i \in Idx : slots'[i].number = slots[i].number
         /\ \A i \in Idx : slots'[i] = slots[i] \/ i \in Live \ Live'
         /\ \A b \in Bps :
              \/ sent'[b] = sent[b] /\ request'[b] = request[b]
              \/ /\ \E i \in Live \ (IF gdb' = "running" THEN Live' ELSE {}) :
                      slots[i].number = b
                 /\ b \in chain => request'[b] # "UNKNOWN"
         /\ gdb' = "running" => /\ Live' = Live \ Sendable(bin)
                                /\ Cardinality(Live') <= len'
<1>1. Cardinality(Live) <= len
  BY DEF LengthCoversPending
<1>2. Sendable(bin) \subseteq Live
  BY DEF Sendable
<1>3. /\ slots \in [Idx -> Slot] /\ len \in Nat
      /\ sent \in [Bps -> Record] /\ request \in [Bps -> Request]
  BY DEF TypeOK
<1>4. CASE UNCHANGED <<slots, len, sent, request>> /\ gdb' \in Stops
  BY <1>3, <1>4 DEF Stops
<1>5. CASE len = 0 /\ UNCHANGED <<slots, len, sent, request, gdb>>
  <2>1. IsFiniteSet(Live) /\ Cardinality(Live) \in Nat
    BY FiniteParts DEF Live
  <2>2. Cardinality(Live) = 0
    BY <1>1, <1>5, <2>1
  <2>3. Live = {}
    BY <2>1, <2>2, FS_EmptySet
  <2>4. Live' = {}
    BY <1>5, <2>3 DEF Live
  <2>5. QED
    BY <1>1, <1>2, <1>3, <1>5, <2>3, <2>4
<1>6. CASE /\ Transmit(Sendable(bin), map)
           /\ ClearSlots(Sendable(bin))
           /\ UNCHANGED gdb
  <2>1. /\ slots' \in [Idx -> Slot]
        /\ len' \in Nat
        /\ \A i \in Idx : slots'[i].number = slots[i].number
        /\ \A i \in Idx \ Sendable(bin) : slots'[i] = slots[i]
        /\ Live' = Live \ Sendable(bin)
        /\ Cardinality(Live') <= len'
    BY <1>1, <1>2, <1>6, Clearing
  <2>2. /\ sent' \in [Bps -> Record]
        /\ request' \in [Bps -> Request]
        /\ \A b \in Bps :
              \/ sent'[b] = sent[b] /\ request'[b] = request[b]
              \/ /\ \E i \in Sendable(bin) : slots[i].number = b
                 /\ b \in chain => request'[b] # "UNKNOWN"
    BY <1>2, <1>6, Transmission
  <2>3. Sendable(bin) = Live \ Live'
    BY <1>2, <2>1
  <2>4. gdb' = "running"
    BY <1>6
  <2>5. QED
    BY <2>1, <2>2, <2>3, <2>4
<1>7. CASE /\ Freed(bin, map) # {}
           /\ LET first  == Minimum(Freed(bin, map))
                  before == {i \in Sendable(bin) : i < first}
              IN  /\ \E F \in {before, before \cup {first}} : Transmit(F, map)
                  /\ ClearSlots(before)
           /\ Stop("freed_bkpt")
  <2> DEFINE first  == Minimum(Freed(bin, map))
             before == {i \in Sendable(bin) : i < first}
  <2>1. Freed(bin, map) \in SUBSET Idx /\ Freed(bin, map) \subseteq Live
    BY <1>2 DEF Freed, Live
  <2>2. first \in Live
    BY <1>7, <2>1, MinimumOfSlots
  <2>3. before \in SUBSET Live /\ before \cup {first} \in SUBSET Live
    BY <1>2, <2>2
  <2>4. PICK F \in {before, before \cup {first}} : Transmit(F, map)
    BY <1>7
  <2>5. gdb' = "freed_bkpt" /\ ClearSlots(before)
    BY <1>7 DEF Stop
  <2> HIDE DEF before
  <2>6. /\ slots' \in [Idx -> Slot]
        /\ len' \in Nat
        /\ \A i \in Idx : slots'[i].number = slots[i].number
        /\ \A i \in Idx \ before : slots'[i] = slots[i]
        /\ Live' = Live \ before
    BY <1>1, <2>3, <2>5, Clearing
  <2>7. F \in SUBSET Live
    BY <2>3, <2>4
  <2>8. /\ sent' \in [Bps -> Record]
        /\ request' \in [Bps -> Request]
        /\ \A b \in Bps :
              \/ sent'[b] = sent[b] /\ request'[b] = request[b]
              \/ /\ \E i \in F : slots[i].number = b
                 /\ b \in chain => request'[b] # "UNKNOWN"
    BY <2>4, <2>7, Transmission
  <2>9. \A i \in before : i \in Live \ Live'
    BY <2>3, <2>6
  <2>10. QED
    BY <2>5, <2>6, <2>7, <2>8, <2>9 DEF Stops
<1>8. QED
  BY <1>4, <1>5, <1>6, <1>7 DEF Flush, Stop, Stops

\* A deletion before hsail is initialized: the length goes down only if a
\* request that waits is taken away.
LEMMA Dequeuing ==
  ASSUME TypeOK, NumbersWait, LengthCoversPending,
         gdb = "running", ~initialized,
         NEW b \in chain, Dequeue(b)
  PROVE  /\ slots' \in [Idx -> Slot]
         /\ len' \in Nat
         /\ allocated' \in BOOLEAN
         /\ \A i \in Idx : slots'[i].number = slots[i].number
         /\ \A i \in Idx : slots'[i] = slots[i] \/ slots[i].number = b
         /\ Live' \subseteq Live
         /\ Cardinality(Live') <= len'
<1>1. Cardinality(Live) <= len
  BY DEF LengthCoversPending
<1>2. CASE allocated /\ SlotsOf(b) # {}
  <2> DEFINE i == Minimum(SlotsOf(b))
  <2>1. SlotsOf(b) \in SUBSET Idx
    BY DEF SlotsOf
  <2>2. i \in SlotsOf(b)
    BY <1>2, <2>1, MinimumOfSlots
  <2>3. i \in Idx /\ slots[i].number = b
    BY <2>2 DEF SlotsOf
  <2>4. i \in Live
    BY <2>3 DEF NumbersWait
  <2>5. /\ slots' = [slots EXCEPT ![i].type = "UNKNOWN"]
        /\ len' = len - 1
        /\ allocated' = allocated
    BY <1>2 DEF Dequeue
  <2> HIDE DEF i
  <2>6. /\ slots' = [slots EXCEPT ![i] = [slots[i] EXCEPT !.type = "UNKNOWN"]]
        /\ slots \in [Idx -> Slot]
    BY <2>5 DEF TypeOK
  <2>7. /\ slots'[i].type = "UNKNOWN" /\ slots'[i].number = slots[i].number
        /\ slots'[i] \in Slot
        /\ \A j \in Idx \ {i} : slots'[j] = slots[j]
    BY <2>3, <2>6 DEF Slot, Request
  <2>8. slots' \in [Idx -> Slot]
    BY <2>6, <2>7
  <2>9. Live' = Live \ {i}
    BY <2>3, <2>7 DEF Live
  <2>10. Live \in SUBSET Idx /\ {i} \in SUBSET Live
    BY <2>4 DEF Live
  <2>11. /\ Cardinality(Live') = Cardinality(Live) - Cardinality({i})
         /\ Cardinality({i}) <= Cardinality(Live)
    BY <2>9, <2>10, Removal
  <2>12. Cardinality({i}) = 1
    BY FS_Singleton
  <2>13. Cardinality(Live) \in Nat /\ len \in Nat
    BY <2>10, FiniteParts DEF TypeOK
  <2>14. len' \in Nat /\ Cardinality(Live') <= len'
    BY <1>1, <2>5, <2>11, <2>12, <2>13
  <2>15. QED
    BY <2>3, <2>5, <2>7, <2>8, <2>9, <2>14 DEF TypeOK
<1>3. CASE ~(allocated /\ SlotsOf(b) # {})
  <2>1. UNCHANGED <<slots, len, allocated>>
    BY <1>3 DEF Dequeue, bufferVars
  <2>2. Live' = Live
    BY <2>1 DEF Live
  <2>3. QED
    BY <1>1, <2>1, <2>2 DEF TypeOK
<1>4. QED
  BY <1>2, <1>3

\* A packet pushed on one breakpoint adds at most one CREATE, or stops gdb when
\* the FIFO is not open.
LEMMA Pushing ==
  ASSUME TypeOK, NEW b \in Bps, NEW command \in {"CREATE", "DELETE", "DISABLE"},
         gdb = "running", Push(b, command)
  PROVE  /\ sent' \in [Bps -> Record]
         /\ gdb' \in {"running", "no_fifo"}
         /\ \A c \in Bps \ {b} : sent'[c] = sent[c]
         /\ command # "CREATE" => sent'[b].creates = sent[b].creates
         /\ sent'[b].creates <= sent[b].creates + 1
<1>1. CASE /\ sent' = [sent EXCEPT ![b] =
                [creates |-> @.creates + (IF command = "CREATE" THEN 1 ELSE 0),
                 last |-> command]]
           /\ UNCHANGED gdb
  <2>1. sent[b].creates \in Nat
    BY DEF TypeOK, Record
  <2>2. sent'[b] = [creates |-> sent[b].creates
                                  + (IF command = "CREATE" THEN 1 ELSE 0),
                    last |-> command]
    BY <1>1 DEF TypeOK
  <2>3. sent'[b] \in Record
    BY <2>1, <2>2 DEF Record
  <2>4. QED
    BY <1>1, <2>1, <2>2, <2>3 DEF TypeOK
<1>2. CASE Stop("no_fifo") /\ UNCHANGED sent
  <2>1. sent[b].creates \in Nat
    BY DEF TypeOK, Record
  <2>2. QED
    BY <1>2, <2>1 DEF TypeOK, Stop
<1>3. QED
  BY <1>1, <1>2 DEF Push

\* Putting the known requests back at the start of a run.
LEMMA ReSetting ==
  ASSUME TypeOK, NumbersCounted, LengthCoversPending, gdb = "running",
         NEW buffer, ReSetAll(buffer)
  PROVE  /\ slots' \in [Idx -> Slot]
         /\ len' \in Nat
         /\ gdb' \in {"running", "reset_late", "no_buffer", "overflow"}
         /\ gdb' = "reset_late" => initialized
         /\ Cardinality(Live') <= len'
         /\ gdb' = "running" => /\ ~initialized
                                /\ \/ UNCHANGED <<slots, len>>
                                   \/ Enqueue(Known, request)
         /\ \A i \in Idx :
              \/ slots'[i] = slots[i]
              \/ /\ slots'[i].number \in Known
                 /\ slots'[i].type = request[slots'[i].number]
                 /\ slots'[i].type # "UNKNOWN"
<1>1. Cardinality(Live) <= len
  BY DEF LengthCoversPending
<1>2. CASE UNCHANGED <<slots, len>>
  <2>1. Live' = Live
    BY <1>2 DEF Live
  <2>2. QED
    BY <1>1, <1>2, <2>1 DEF ReSetAll, Stop, TypeOK
<1>3. CASE ~initialized /\ Enqueue(Known, request) /\ UNCHANGED gdb
  <2>1. Known \in SUBSET Bps /\ \A b \in Known : request[b] \in Kinds
    BY DEF Known, TypeOK, Request
  <2>2. /\ slots' \in [Idx -> Slot]
        /\ len' \in Nat
        /\ Cardinality(Live') <= len'
    BY <1>1, <1>3, <2>1, EnqueueLength
  <2>3. \A i \in Idx :
           \/ slots'[i] = slots[i]
           \/ \E b \in Known : slots'[i] = [type |-> request[b], number |-> b]
    BY <1>3, <2>1, EnqueueSlots
  <2>4. \A b \in Known : request[b] # "UNKNOWN"
    BY DEF Known
  <2>5. QED
    BY <1>3, <2>2, <2>3, <2>4
<1>4. QED
  BY <1>2, <1>3 DEF ReSetAll

-----------------------------------------------------------------------------
(* Every step keeps BufferInv. *)

\* A flush with hsail initialized, whatever made it: SIGALRM, a later event, or
\* a binary that comes (bin and map, the new debug information).
LEMMA FlushKeeps ==
  ASSUME BufferInv, gdb = "running",
         NEW open, NEW bin \in BOOLEAN, NEW map \in SUBSET Bps,
         Flush(open, bin, map),
         initialized' = TRUE, fifoOpen' \in BOOLEAN,
         binary' = bin, lines' = map,
         UNCHANGED <<chain, count, enabled, allocated, runVars>>
  PROVE  BufferInv'
<1> USE DEF runVars
<1>1. /\ slots' \in [Idx -> Slot]
      /\ len' \in Nat
      /\ sent' \in [Bps -> Record]
      /\ request' \in [Bps -> Request]
      /\ gdb' \in {"running"} \cup Stops
      /\ \A i \in Idx : slots'[i].number = slots[i].number
      /\ \A i \in Idx : slots'[i] = slots[i] \/ i \in Live \ Live'
      /\ \A b \in Bps :
           \/ sent'[b] = sent[b] /\ request'[b] = request[b]
           \/ /\ \E i \in Live : slots[i].number = b
              /\ b \in chain => request'[b] # "UNKNOWN"
      /\ gdb' = "running" => /\ Live' = Live \ Sendable(bin)
                             /\ Cardinality(Live') <= len'
  BY Flushing DEF BufferInv
<1>2. TypeOK'
  BY <1>1 DEF BufferInv, TypeOK
<1>3. NumbersCounted'
  <2>1. ASSUME NEW b \in Bps, sent'[b].creates > 0
        PROVE  b <= count
    <3>1. CASE sent'[b] = sent[b]
      BY <2>1, <3>1 DEF BufferInv, NumbersCounted
    <3>2. CASE \E i \in Live : slots[i].number = b
      BY <3>2 DEF Live, BufferInv, NumbersCounted
    <3>3. QED
      BY <1>1, <3>1, <3>2
  <2>2. QED
    BY <1>1, <2>1 DEF BufferInv, NumbersCounted
<1>4. NumbersWait'
  BY DEF NumbersWait
<1>5. LengthCoversPending'
  BY <1>1 DEF LengthCoversPending
<1>6. NothingSendableWaits'
  <2>1. ASSUME gdb' = "running", NEW i \in Live'
        PROVE  slots'[i].type = "SOURCE" /\ ~bin
    <3>1. i \in Live /\ i \notin Sendable(bin)
      BY <1>1, <2>1
    <3>2. i \in Idx /\ slots'[i] = slots[i]
      BY <1>1, <2>1 DEF Live
    <3>3. QED
      BY <3>1, <3>2 DEF Sendable
  <2>2. QED
    BY <2>1 DEF NothingSendableWaits
<1>7. CreatedIsKnown'
  <2>1. ASSUME NEW b \in chain, sent'[b].creates > 0
        PROVE  request'[b] # "UNKNOWN"
    <3>1. b \in Bps
      BY DEF BufferInv, TypeOK
    <3>2. CASE sent'[b] = sent[b] /\ request'[b] = request[b]
      BY <2>1, <3>2 DEF BufferInv, CreatedIsKnown
    <3>3. QED
      BY <1>1, <3>1, <3>2
  <2>2. QED
    BY <2>1 DEF CreatedIsKnown
<1>8. QED
  BY <1>2, <1>3, <1>4, <1>5, <1>6, <1>7 DEF BufferInv

\* A creation: at once, not at all for a line that is not mapped, or into the
\* buffer.
LEMMA CreateKeeps ==
  ASSUME BufferInv, NEW type \in Kinds, CreateBreakpoint(type)
  PROVE  BufferInv'
<1> DEFINE b == count + 1
           ready == initialized /\ (type = "SOURCE" => binary)
<1> USE DEF agentVars, runVars
<1>1. /\ gdb = "running" /\ count < MaxBps /\ count' = b
      /\ chain' = chain \cup {b} /\ allocated' = TRUE
      /\ UNCHANGED <<enabled, initialized, fifoOpen, binary, lines,
                     inferiors, runs>>
  BY DEF CreateBreakpoint, Allocate
<1>2. b \in Bps /\ b \notin chain /\ sent[b].creates = 0
  <2>1. count \in 0..MaxBps /\ MaxBps \in Nat
    BY BoundsAssumption DEF BufferInv, TypeOK
  <2>2. b \in Bps /\ b \notin 1..count /\ ~(b <= count)
    BY <1>1, <2>1 DEF Bps
  <2>3. sent[b].creates \in Nat
    BY <2>2 DEF BufferInv, TypeOK, Record
  <2>4. b \notin chain
    BY <2>2 DEF BufferInv, NumbersCounted
  <2>5. ~(sent[b].creates > 0)
    BY <2>2 DEF BufferInv, NumbersCounted
  <2>6. QED
    BY <2>2, <2>3, <2>4, <2>5
<1>3. type \in Request /\ type # "UNKNOWN"
  BY KindsAssumption DEF Request
<1>4. CASE /\ ready
           /\ Push(b, "CREATE")
           /\ request' = [request EXCEPT ![b] = type]
           /\ UNCHANGED <<slots, len>>
  <2>1. /\ sent' \in [Bps -> Record]
        /\ gdb' \in {"running", "no_fifo"}
        /\ \A c \in Bps \ {b} : sent'[c] = sent[c]
    <3>1. TypeOK
      BY DEF BufferInv
    <3>2. QED
      BY <1>1, <1>2, <1>4, <3>1, Pushing
  <2>2. /\ request' \in [Bps -> Request]
        /\ request'[b] = type
        /\ \A c \in Bps \ {b} : request'[c] = request[c]
    BY <1>2, <1>3, <1>4 DEF BufferInv, TypeOK
  <2>3. Live' = Live
    BY <1>4 DEF Live
  <2>4. TypeOK'
    <3>1. chain' \subseteq Bps /\ count' \in 0..MaxBps
      BY <1>1, <1>2 DEF BufferInv, TypeOK, Bps
    <3>2. gdb' \in {"running"} \cup Stops
      BY <2>1 DEF Stops
    <3>3. QED
      BY <1>1, <1>4, <2>1, <2>2, <3>1, <3>2 DEF BufferInv, TypeOK
  <2>5. NumbersCounted'
    BY <1>1, <1>2, <1>4, <2>1 DEF BufferInv, NumbersCounted, TypeOK, Bps, Slot
  <2>6. NumbersWait'
    BY <1>1, <1>4 DEF NumbersWait
  <2>7. LengthCoversPending' /\ NothingSendableWaits'
    BY <1>1, <1>4, <2>3 DEF BufferInv, LengthCoversPending,
       NothingSendableWaits
  <2>8. CreatedIsKnown'
    BY <1>1, <1>2, <1>3, <2>1, <2>2 DEF BufferInv, CreatedIsKnown, TypeOK
  <2>9. QED
    BY <2>4, <2>5, <2>6, <2>7, <2>8 DEF BufferInv
<1>5. CASE /\ UNCHANGED <<slots, len, request, sent>>
           /\ \/ ready /\ UNCHANGED gdb
              \/ ~ready /\ Stop("overflow")
  <2>1. Live' = Live
    BY <1>5 DEF Live
  <2>2. TypeOK'
    BY <1>1, <1>2, <1>5 DEF BufferInv, TypeOK, Stop, Stops, Bps
  <2>3. NumbersCounted'
    BY <1>1, <1>2, <1>5 DEF BufferInv, NumbersCounted, TypeOK, Bps, Slot
  <2>4. NumbersWait'
    BY <1>1, <1>5 DEF NumbersWait, Stop
  <2>5. LengthCoversPending' /\ NothingSendableWaits'
    BY <1>1, <1>5, <2>1 DEF BufferInv, LengthCoversPending,
       NothingSendableWaits, Stop
  <2>6. CreatedIsKnown'
    BY <1>1, <1>2, <1>5 DEF BufferInv, CreatedIsKnown, Stop
  <2>7. QED
    BY <2>2, <2>3, <2>4, <2>5, <2>6 DEF BufferInv
<1>6. CASE /\ ~ready
           /\ Enqueue({b}, [c \in {b} |-> type])
           /\ UNCHANGED <<request, sent, gdb>>
  <2>1. {b} \in SUBSET Bps /\ TypeOK /\ Cardinality(Live) <= len
    BY <1>1, <1>2 DEF BufferInv, LengthCoversPending
  <2>2. /\ slots' \in [Idx -> Slot]
        /\ len' \in Nat
        /\ Cardinality(Live') <= len'
    BY <1>6, <2>1, EnqueueLength
  <2>3. \A i \in Idx : \/ slots'[i] = slots[i]
                       \/ slots'[i] = [type |-> type, number |-> b]
    <3> DEFINE types == [c \in {b} |-> type]
    <3>1. types[b] = type /\ Enqueue({b}, types)
      BY <1>6
    <3> HIDE DEF types
    <3>2. \A i \in Idx :
            \/ slots'[i] = slots[i]
            \/ \E c \in {b} : slots'[i] = [type |-> types[c], number |-> c]
      BY <2>1, <3>1, EnqueueSlots
    <3>3. QED
      BY <3>1, <3>2
  <2>4. TypeOK'
    BY <1>1, <1>2, <1>6, <2>2 DEF BufferInv, TypeOK, Bps
  <2>5. NumbersCounted'
    BY <1>1, <1>2, <1>6, <2>3 DEF BufferInv, NumbersCounted, TypeOK, Bps, Slot
  <2>6. NumbersWait'
    <3> SUFFICES ASSUME ~initialized, NEW i \in Idx,
                        slots'[i].number \in chain'
                 PROVE  slots'[i].type # "UNKNOWN"
      BY <1>1 DEF NumbersWait, Live
    <3>1. CASE slots'[i] = [type |-> type, number |-> b]
      BY <1>3, <3>1
    <3>2. CASE slots'[i] = slots[i]
      <4>1. slots[i].number <= count /\ slots[i].number \in Nat
        BY DEF BufferInv, NumbersCounted, TypeOK, Slot
      <4>2. slots[i].number \in chain
        BY <1>1, <3>2, <4>1 DEF BufferInv, TypeOK
      <4>3. i \in Live
        BY <1>1, <4>2 DEF BufferInv, NumbersWait
      <4>4. QED
        BY <3>2, <4>3 DEF Live
    <3>3. QED
      BY <2>3, <3>1, <3>2
  <2>7. LengthCoversPending'
    BY <2>2 DEF LengthCoversPending
  <2>8. NothingSendableWaits'
    <3> SUFFICES ASSUME initialized, NEW i \in Idx,
                        slots'[i].type # "UNKNOWN"
                 PROVE  slots'[i].type = "SOURCE" /\ ~binary
      BY <1>1 DEF NothingSendableWaits, Live
    <3>1. CASE slots'[i] = [type |-> type, number |-> b]
      BY <1>6, <3>1
    <3>2. CASE slots'[i] = slots[i]
      BY <1>1, <3>2 DEF BufferInv, NothingSendableWaits, Live
    <3>3. QED
      BY <2>3, <3>1, <3>2
  <2>9. CreatedIsKnown'
    BY <1>1, <1>2, <1>6 DEF BufferInv, CreatedIsKnown
  <2>10. QED
    BY <2>4, <2>5, <2>6, <2>7, <2>8, <2>9 DEF BufferInv
<1>7. QED
  BY <1>4, <1>5, <1>6 DEF CreateBreakpoint

\* A deletion: a packet once hsail is initialized, a slot cleared before.
LEMMA DeleteKeeps ==
  ASSUME BufferInv, NEW b \in Bps, DeleteBreakpoint(b)
  PROVE  BufferInv'
<1> USE DEF agentVars, runVars, bufferVars
<1>1. /\ gdb = "running" /\ b \in chain /\ chain' = chain \ {b}
      /\ UNCHANGED <<count, initialized, fifoOpen, binary, lines,
                     inferiors, runs>>
  BY DEF DeleteBreakpoint
<1>2. /\ request' \in [Bps -> Request] /\ enabled' \in [Bps -> BOOLEAN]
      /\ \A c \in Bps \ {b} : request'[c] = request[c]
  BY DEF DeleteBreakpoint, BufferInv, TypeOK, Request
<1>3. Cardinality(Live) <= len
  BY <1>1 DEF BufferInv, LengthCoversPending
<1>4. /\ slots' \in [Idx -> Slot]
      /\ len' \in Nat
      /\ allocated' \in BOOLEAN
      /\ sent' \in [Bps -> Record]
      /\ gdb' \in {"running", "no_fifo"}
      /\ \A c \in Bps \ {b} : sent'[c] = sent[c]
      /\ sent'[b].creates = sent[b].creates
      /\ \A i \in Idx : slots'[i].number = slots[i].number
      /\ \A i \in Idx : slots'[i] = slots[i] \/ slots[i].number = b
      /\ Live' \subseteq Live
      /\ Cardinality(Live') <= len'
      /\ initialized => UNCHANGED slots
  <2>1. CASE initialized /\ Push(b, "DELETE") /\ UNCHANGED bufferVars
    <3>1. Live' = Live
      BY <2>1 DEF Live
    <3>2. TypeOK
      BY DEF BufferInv
    <3>3. QED
      BY <1>1, <1>3, <2>1, <3>1, <3>2, Pushing DEF TypeOK
  <2>2. CASE ~initialized /\ Dequeue(b) /\ UNCHANGED <<sent, gdb>>
    <3>1. TypeOK /\ NumbersWait /\ LengthCoversPending
      BY DEF BufferInv
    <3>2. /\ slots' \in [Idx -> Slot]
          /\ len' \in Nat
          /\ allocated' \in BOOLEAN
          /\ \A i \in Idx : slots'[i].number = slots[i].number
          /\ \A i \in Idx : slots'[i] = slots[i] \/ slots[i].number = b
          /\ Live' \subseteq Live
          /\ Cardinality(Live') <= len'
      BY <1>1, <2>2, <3>1, Dequeuing
    <3>3. QED
      BY <1>1, <2>2, <3>1, <3>2 DEF TypeOK
  <2>3. QED
    BY <2>1, <2>2 DEF DeleteBreakpoint
<1>5. TypeOK'
  <2>1. chain' \subseteq Bps /\ gdb' \in {"running"} \cup Stops
    BY <1>1, <1>4 DEF BufferInv, TypeOK, Stops
  <2>2. QED
    BY <1>1, <1>2, <1>4, <2>1 DEF BufferInv, TypeOK
<1>6. NumbersCounted'
  <2>1. \A c \in Bps : sent'[c].creates = sent[c].creates
    BY <1>4
  <2>2. QED
    BY <1>1, <1>4, <2>1 DEF BufferInv, NumbersCounted
<1>7. NumbersWait'
  <2> SUFFICES ASSUME ~initialized, NEW i \in Idx,
                      slots'[i].number \in chain'
               PROVE  slots'[i].type # "UNKNOWN"
    BY <1>1 DEF NumbersWait, Live
  <2>1. slots[i].number \in chain /\ slots[i].number # b
    BY <1>1, <1>4
  <2>2. i \in Live /\ slots'[i] = slots[i]
    BY <1>1, <1>4, <2>1 DEF BufferInv, NumbersWait
  <2>3. QED
    BY <2>2 DEF Live
<1>8. LengthCoversPending'
  BY <1>4 DEF LengthCoversPending
<1>9. NothingSendableWaits'
  BY <1>1, <1>4 DEF BufferInv, NothingSendableWaits
<1>10. CreatedIsKnown'
  BY <1>1, <1>2, <1>4 DEF BufferInv, CreatedIsKnown, TypeOK
<1>11. QED
  BY <1>5, <1>6, <1>7, <1>8, <1>9, <1>10 DEF BufferInv

\* A disable changes nothing but the FIFO and the breakpoint's own state.
LEMMA DisableKeeps ==
  ASSUME BufferInv, NEW b \in Bps, DisableBreakpoint(b)
  PROVE  BufferInv'
<1> USE DEF agentVars, runVars, bufferVars
<1>1. /\ gdb = "running"
      /\ UNCHANGED <<chain, count, request, slots, len, allocated,
                     initialized, fifoOpen, binary, lines, inferiors, runs>>
  BY DEF DisableBreakpoint
<1>2. enabled' \in [Bps -> BOOLEAN]
  BY DEF DisableBreakpoint, BufferInv, TypeOK
<1>3. /\ sent' \in [Bps -> Record]
      /\ gdb' \in {"running", "no_fifo"}
      /\ \A c \in Bps : sent'[c].creates = sent[c].creates
  <2>1. Push(b, "DISABLE") /\ TypeOK
    BY DEF DisableBreakpoint, BufferInv
  <2>2. QED
    BY <1>1, <2>1, Pushing
<1>4. Live' = Live
  BY <1>1 DEF Live
<1>5. TypeOK'
  BY <1>1, <1>2, <1>3 DEF BufferInv, TypeOK, Stops
<1>6. NumbersCounted' /\ NumbersWait' /\ LengthCoversPending'
  BY <1>1, <1>3, <1>4 DEF BufferInv, NumbersCounted, NumbersWait,
     LengthCoversPending
<1>7. NothingSendableWaits' /\ CreatedIsKnown'
  BY <1>1, <1>3, <1>4 DEF BufferInv, NothingSendableWaits, CreatedIsKnown,
     TypeOK
<1>8. QED
  BY <1>5, <1>6, <1>7 DEF BufferInv

\* An enable changes nothing but the breakpoint's own state.
LEMMA EnableKeeps ==
  ASSUME BufferInv, NEW b \in Bps, EnableBreakpoint(b)
  PROVE  BufferInv'
<1>1. /\ enabled' \in [Bps -> BOOLEAN]
      /\ UNCHANGED <<chain, count, request, slots, len, allocated,
                     initialized, fifoOpen, binary, lines, sent, inferiors,
                     runs, gdb>>
  BY DEF EnableBreakpoint, BufferInv, TypeOK, agentVars, runVars, bufferVars
<1>2. Live' = Live
  BY <1>1 DEF Live
<1>3. TypeOK'
  BY <1>1 DEF BufferInv, TypeOK
<1>4. NumbersCounted' /\ NumbersWait' /\ LengthCoversPending'
  BY <1>1, <1>2 DEF BufferInv, NumbersCounted, NumbersWait,
     LengthCoversPending
<1>5. NothingSendableWaits' /\ CreatedIsKnown'
  BY <1>1, <1>2 DEF BufferInv, NothingSendableWaits, CreatedIsKnown
<1>6. QED
  BY <1>3, <1>4, <1>5 DEF BufferInv

\* run and attach.
LEMMA StartKeeps ==
  ASSUME BufferInv, Start, allocated' \in BOOLEAN
  PROVE  BufferInv'
<1> USE DEF userVars, agentVars
<1>1. /\ gdb = "running"
      /\ inferiors < MaxInferiors /\ inferiors' = inferiors + 1
      /\ runs < MaxRuns /\ runs' = runs + 1
      /\ UNCHANGED <<chain, count, request, enabled,
                     initialized, fifoOpen, binary, lines, sent>>
  BY DEF Start
<1>2. /\ slots' \in [Idx -> Slot]
      /\ len' \in Nat
      /\ gdb' \in {"running", "reset_late", "no_buffer", "overflow"}
      /\ Cardinality(Live') <= len'
      /\ gdb' = "running" => ~initialized
      /\ \A i \in Idx :
           \/ slots'[i] = slots[i]
           \/ /\ slots'[i].number \in Known
              /\ slots'[i].type # "UNKNOWN"
  <2>1. /\ TypeOK /\ NumbersCounted /\ LengthCoversPending
        /\ ReSetAll(allocated')
    BY DEF BufferInv, Start
  <2>2. QED
    BY <1>1, <2>1, ReSetting
<1>3. TypeOK'
  <2>1. inferiors' \in 0..MaxInferiors /\ runs' \in 0..MaxRuns
    BY <1>1, BoundsAssumption DEF BufferInv, TypeOK
  <2>2. gdb' \in {"running"} \cup Stops
    BY <1>2 DEF Stops
  <2>3. QED
    BY <1>1, <1>2, <2>1, <2>2 DEF BufferInv, TypeOK
<1>4. NumbersCounted'
  <2>1. \A c \in Known : c <= count
    BY DEF Known, BufferInv, NumbersCounted, TypeOK
  <2>2. QED
    BY <1>1, <1>2, <2>1 DEF BufferInv, NumbersCounted
<1>5. NumbersWait'
  <2> SUFFICES ASSUME ~initialized, NEW i \in Idx,
                      slots'[i].number \in chain
               PROVE  slots'[i].type # "UNKNOWN"
    BY <1>1 DEF NumbersWait, Live
  <2>1. CASE slots'[i] = slots[i]
    BY <1>1, <2>1 DEF BufferInv, NumbersWait, Live
  <2>2. QED
    BY <1>2, <2>1
<1>6. LengthCoversPending'
  BY <1>2 DEF LengthCoversPending
<1>7. NothingSendableWaits'
  BY <1>1, <1>2 DEF NothingSendableWaits
<1>8. CreatedIsKnown'
  BY <1>1 DEF BufferInv, CreatedIsKnown
<1>9. QED
  BY <1>3, <1>4, <1>5, <1>6, <1>7, <1>8 DEF BufferInv

\* The target is closed, by an exit, a failed start or quit.
LEMMA CloseKeeps ==
  ASSUME BufferInv, CloseTarget, UNCHANGED <<userVars, runs>>,
         inferiors' \in 0..MaxInferiors,
         gdb' \in {"running", "quit"}
  PROVE  BufferInv'
<1> USE DEF userVars
<1>1. /\ slots' = EmptyBuffer /\ len' = len /\ allocated' = FALSE
      /\ initialized' = FALSE /\ fifoOpen' = FALSE /\ sent' = NothingSent
      /\ UNCHANGED <<binary, lines>>
  BY DEF CloseTarget, FreeBuffer
<1>2. Live' = {}
  BY <1>1 DEF Live, EmptyBuffer, EmptySlot
<1>3. TypeOK'
  <2>1. slots' \in [Idx -> Slot] /\ sent' \in [Bps -> Record]
    BY <1>1, EmptyTypes
  <2>2. QED
    BY <1>1, <2>1 DEF BufferInv, TypeOK, Stops
<1>4. NumbersCounted'
  <2>1. count \in Nat
    BY DEF BufferInv, TypeOK
  <2>2. QED
    BY <1>1, <2>1 DEF BufferInv, NumbersCounted, EmptyBuffer, EmptySlot,
       NothingSent
<1>5. NumbersWait'
  <2>1. chain \subseteq Bps /\ 0 \notin Bps
    BY DEF BufferInv, TypeOK, Bps
  <2>2. \A i \in Idx : slots'[i].number = 0
    BY <1>1 DEF EmptyBuffer, EmptySlot
  <2>3. QED
    BY <2>1, <2>2 DEF NumbersWait
<1>6. LengthCoversPending'
  <2>1. Cardinality(Live') = 0 /\ len' \in Nat
    BY <1>1, <1>2, FS_EmptySet DEF BufferInv, TypeOK
  <2>2. QED
    BY <2>1 DEF LengthCoversPending
<1>7. NothingSendableWaits' /\ CreatedIsKnown'
  <2>1. \A b \in chain' : sent'[b].creates = 0
    BY <1>1 DEF BufferInv, TypeOK, NothingSent
  <2>2. QED
    BY <1>1, <2>1 DEF NothingSendableWaits, CreatedIsKnown
<1>8. QED
  BY <1>3, <1>4, <1>5, <1>6, <1>7 DEF BufferInv

\* Each step, by the lemma of its action.
LEMMA NextBufferInv == BufferInv /\ [Next]_vars => BufferInv'
<1> SUFFICES ASSUME BufferInv, [Next]_vars PROVE BufferInv'
  OBVIOUS
<1> USE DEF agentVars, runVars, bufferVars, userVars
<1>1. ASSUME NEW type \in Kinds, CreateBreakpoint(type) PROVE BufferInv'
  BY <1>1, CreateKeeps
<1>2. ASSUME NEW b \in Bps, DeleteBreakpoint(b) PROVE BufferInv'
  BY <1>2, DeleteKeeps
<1>3. ASSUME NEW b \in Bps, DisableBreakpoint(b) PROVE BufferInv'
  BY <1>3, DisableKeeps
<1>4. ASSUME NEW b \in Bps, EnableBreakpoint(b) PROVE BufferInv'
  BY <1>4, EnableKeeps
<1>5. CASE Run
  BY <1>5, StartKeeps DEF Run, Allocate
<1>6. CASE Attach
  BY <1>6, StartKeeps DEF Attach, BufferInv, TypeOK
<1>7. CASE RunFails
  BY <1>7, CloseKeeps DEF RunFails, BufferInv, TypeOK
<1>8. CASE Quit
  <2>1. inferiors' \in 0..MaxInferiors /\ gdb' = "quit"
    BY <1>8, BoundsAssumption DEF Quit, Stop
  <2>2. QED
    BY <1>8, <2>1, CloseKeeps DEF Quit
<1>9. ASSUME NEW open \in BOOLEAN, Initialize(open) PROVE BufferInv'
  BY <1>9, FlushKeeps DEF Initialize, BufferInv, TypeOK
<1>10. CASE WaitFlush
  BY <1>10, FlushKeeps DEF WaitFlush, BufferInv, TypeOK
<1>11. ASSUME NEW map \in SUBSET Bps, NewBinary(map) PROVE BufferInv'
  BY <1>11, FlushKeeps DEF NewBinary, BufferInv, TypeOK
<1>12. CASE NewBinaryFails
  BY <1>12, FlushKeeps DEF NewBinaryFails, BufferInv, TypeOK
<1>13. CASE EndDebugging
  <2>1. Live' = Live
    BY <1>13 DEF EndDebugging, Live
  <2>2. TypeOK'
    BY <1>13 DEF EndDebugging, BufferInv, TypeOK
  <2>3. NumbersCounted' /\ NumbersWait' /\ LengthCoversPending'
    BY <1>13, <2>1 DEF EndDebugging, BufferInv, NumbersCounted, NumbersWait,
       LengthCoversPending
  <2>4. NothingSendableWaits' /\ CreatedIsKnown'
    BY <1>13, <2>1 DEF EndDebugging, BufferInv, NothingSendableWaits,
       CreatedIsKnown
  <2>5. QED
    BY <2>2, <2>3, <2>4 DEF BufferInv
<1>14. CASE InferiorExit
  <2>1. /\ inferiors' \in 0..MaxInferiors
        /\ gdb = "running" /\ UNCHANGED <<userVars, runs, gdb>>
    <3>1. inferiors \in 0..MaxInferiors /\ MaxInferiors \in Nat
      BY BoundsAssumption DEF BufferInv, TypeOK
    <3>2. inferiors > 0 /\ inferiors' = inferiors - 1
      BY <1>14 DEF InferiorExit
    <3>3. inferiors' \in 0..MaxInferiors
      BY <3>1, <3>2
    <3>4. QED
      BY <1>14, <3>3 DEF InferiorExit
  <2>2. CASE CloseTarget
    BY <2>1, <2>2, CloseKeeps
  <2>3. CASE UNCHANGED <<bufferVars, agentVars, sent>>
    <3>1. Live' = Live
      BY <2>3 DEF Live
    <3>2. TypeOK'
      BY <2>1, <2>3 DEF BufferInv, TypeOK
    <3>3. NumbersCounted' /\ NumbersWait' /\ LengthCoversPending'
      BY <2>1, <2>3, <3>1 DEF BufferInv, NumbersCounted, NumbersWait,
         LengthCoversPending
    <3>4. NothingSendableWaits' /\ CreatedIsKnown'
      BY <2>1, <2>3, <3>1 DEF BufferInv, NothingSendableWaits, CreatedIsKnown
    <3>5. QED
      BY <3>2, <3>3, <3>4 DEF BufferInv
  <2>4. QED
    BY <1>14, <2>2, <2>3 DEF InferiorExit
<1>15. CASE UNCHANGED vars
  <2>1. Live' = Live
    BY <1>15 DEF vars, Live
  <2>2. TypeOK'
    BY <1>15 DEF vars, BufferInv, TypeOK
  <2>3. NumbersCounted' /\ NumbersWait' /\ LengthCoversPending'
    BY <1>15, <2>1 DEF vars, BufferInv, NumbersCounted, NumbersWait,
       LengthCoversPending
  <2>4. NothingSendableWaits' /\ CreatedIsKnown'
    BY <1>15, <2>1 DEF vars, BufferInv, NothingSendableWaits, CreatedIsKnown
  <2>5. QED
    BY <2>2, <2>3, <2>4 DEF BufferInv
<1>16. QED
  BY <1>1, <1>2, <1>3, <1>4, <1>5, <1>6, <1>7, <1>8, <1>9, <1>10, <1>11,
     <1>12, <1>13, <1>14, <1>15 DEF Next

\* BufferInv is an invariant: slots, length, counter and chain stay together
\* through every order of commands, events and notifications.
THEOREM BufferInvariant == Spec => []BufferInv
  BY InitBufferInv, NextBufferInv, PTL DEF Spec

\* Every variable keeps its type: in particular the length never goes below
\* zero, though a deletion decrements it.
THEOREM TypeCorrect == Spec => []TypeOK
<1>1. BufferInv => TypeOK
  BY DEF BufferInv
<1>2. QED
  BY <1>1, BufferInvariant, PTL

\* The length covers the requests that wait, so the early return of the flush
\* on a zero length skips none.
THEOREM LengthCovers == Spec => []LengthCoversPending
<1>1. BufferInv => LengthCoversPending
  BY DEF BufferInv
<1>2. QED
  BY <1>1, BufferInvariant, PTL

\* Once hsail is initialized only source requests wait, and only while there is
\* no debug information to resolve them.
THEOREM NothingWaits == Spec => []NothingSendableWaits
<1>1. BufferInv => NothingSendableWaits
  BY DEF BufferInv
<1>2. QED
  BY <1>1, BufferInvariant, PTL

\* A breakpoint that the agent created in this run is known to the chain, from
\* which the next run puts it back.
THEOREM CreatedKnown == Spec => []CreatedIsKnown
<1>1. BufferInv => CreatedIsKnown
  BY DEF BufferInv
<1>2. QED
  BY <1>1, BufferInvariant, PTL

-----------------------------------------------------------------------------
(* With one inferior at a time: what is needed to send a request once. *)

\* A request that waits has its own breakpoint, which the agent has not heard
\* of in this run and which, between two runs, the chain does not know: so a
\* run that starts puts nothing into the buffer that is there already.
WaitsOnce ==
  gdb = "running" =>
    /\ \A i \in Live : /\ slots[i].number \in Bps
                       /\ sent[slots[i].number].creates = 0
                       /\ inferiors = 0 => request[slots[i].number] = "UNKNOWN"
    /\ \A i, j \in Live : slots[i].number = slots[j].number => i = j

OnceInv ==
  /\ gdb = "running" /\ initialized => inferiors = 1
  /\ ~initialized => ~fifoOpen /\ \A b \in Bps : sent[b].creates = 0
  /\ ~allocated => Live = {}
  /\ \A b \in Bps : b > count => request[b] = "UNKNOWN"
  /\ WaitsOnce
  /\ AtMostOneCreatePerRun
  /\ PendingIsOfLiveBreakpoint
  /\ ReSetBeforeInitialization

\* A session starts in OnceInv.
LEMMA InitOnceInv == Init => OnceInv
<1> SUFFICES ASSUME Init PROVE OnceInv
  OBVIOUS
<1> USE DEF Init
<1>1. Live = {}
  BY DEF Live, EmptyBuffer, EmptySlot
<1>2. \A b \in Bps : sent[b].creates = 0
  BY DEF NothingSent
<1>3. QED
  BY <1>1, <1>2 DEF OnceInv, WaitsOnce, AtMostOneCreatePerRun,
     PendingIsOfLiveBreakpoint, ReSetBeforeInitialization

\* Slots with their own breakpoints make at most one packet for each.
LEMMA TransmitOnce ==
  ASSUME TypeOK, OnceInv, gdb = "running",
         NEW F \in SUBSET Live, NEW map, Transmit(F, map)
  PROVE  \A b \in Bps : sent'[b].creates <= 1
<1> TAKE b \in Bps
<1> DEFINE P == Packets(F, map, b)
<1>1. sent[b].creates \in Nat /\ sent[b].creates <= 1
  BY DEF TypeOK, Record, OnceInv, AtMostOneCreatePerRun
<1>2. CASE P = {}
  BY <1>1, <1>2 DEF Transmit, SendPackets
<1>3. CASE P # {}
  <2>1. PICK i \in P : TRUE
    BY <1>3
  <2>2. i \in Live /\ slots[i].number = b
    BY <2>1 DEF Packets
  <2>3. sent[b].creates = 0
    BY <2>2 DEF OnceInv, WaitsOnce
  <2>4. P = {i}
    BY <2>1, <2>2 DEF Packets, OnceInv, WaitsOnce
  <2>5. Cardinality(P) = 1
    BY <2>4, FS_Singleton
  <2>6. sent'[b].creates = sent[b].creates + Cardinality(P)
    BY <1>3 DEF Transmit, SendPackets
  <2>7. QED
    BY <2>3, <2>5, <2>6
<1>4. QED
  BY <1>2, <1>3

\* A flush, completed or stopped at a freed breakpoint, sends none twice.
LEMMA FlushOnce ==
  ASSUME TypeOK, OnceInv, gdb = "running",
         NEW open, NEW bin, NEW map, Flush(open, bin, map)
  PROVE  \A b \in Bps : sent'[b].creates <= 1
<1>1. CASE UNCHANGED sent
  BY <1>1 DEF OnceInv, AtMostOneCreatePerRun
<1>2. ASSUME NEW F \in SUBSET Live, Transmit(F, map)
      PROVE  \A b \in Bps : sent'[b].creates <= 1
  BY <1>2, TransmitOnce
<1>3. Sendable(bin) \in SUBSET Live
  BY DEF Sendable
<1>4. CASE Transmit(Sendable(bin), map)
  BY <1>2, <1>3, <1>4
<1>5. CASE /\ Freed(bin, map) # {}
           /\ LET first  == Minimum(Freed(bin, map))
                  before == {i \in Sendable(bin) : i < first}
              IN  /\ \E F \in {before, before \cup {first}} : Transmit(F, map)
  <2> DEFINE first  == Minimum(Freed(bin, map))
             before == {i \in Sendable(bin) : i < first}
  <2>1. Freed(bin, map) \in SUBSET Idx /\ Freed(bin, map) \subseteq Live
    BY <1>3 DEF Freed, Live
  <2>2. first \in Live
    BY <1>5, <2>1, MinimumOfSlots
  <2>3. before \in SUBSET Live /\ before \cup {first} \in SUBSET Live
    BY <1>3, <2>2
  <2>4. PICK F \in {before, before \cup {first}} : Transmit(F, map)
    BY <1>5
  <2> HIDE DEF before
  <2>5. QED
    BY <1>2, <2>3, <2>4
<1>6. QED
  BY <1>1, <1>4, <1>5 DEF Flush

\* After a flush, what still waits has not been sent.
LEMMA FlushKeepsOnce ==
  ASSUME BufferInv, OnceInv, gdb = "running",
         NEW open, NEW bin \in BOOLEAN, NEW map \in SUBSET Bps,
         Flush(open, bin, map),
         initialized' = TRUE, inferiors = 1,
         UNCHANGED <<chain, count, allocated, inferiors>>
  PROVE  OnceInv'
<1>1. /\ \A i \in Idx : slots'[i].number = slots[i].number
      /\ \A i \in Idx : slots'[i] = slots[i] \/ i \in Live \ Live'
      /\ gdb' \in {"running"} \cup Stops
      /\ \A b \in Bps :
           \/ sent'[b] = sent[b] /\ request'[b] = request[b]
           \/ \E i \in Live \ (IF gdb' = "running" THEN Live' ELSE {}) :
                   slots[i].number = b
      /\ gdb' = "running" => Live' = Live \ Sendable(bin)
  BY Flushing DEF BufferInv
<1>2. Live' \subseteq Live
  BY <1>1 DEF Live
<1>3. ~allocated' => Live' = {}
  BY <1>2 DEF OnceInv
<1>4. \A b \in Bps : b > count => request'[b] = "UNKNOWN"
  <2> SUFFICES ASSUME NEW b \in Bps, b > count
               PROVE  request'[b] = "UNKNOWN"
    OBVIOUS
  <2>1. \A i \in Live : slots[i].number <= count
    BY DEF BufferInv, NumbersCounted, Live
  <2>2. \A i \in Live : slots[i].number # b
    BY <2>1 DEF BufferInv, TypeOK, Bps
  <2>3. request'[b] = request[b]
    BY <1>1, <2>2
  <2>4. QED
    BY <2>3 DEF OnceInv
<1>5. WaitsOnce'
  <2> SUFFICES ASSUME gdb' = "running" PROVE WaitsOnce'
    BY DEF WaitsOnce
  <2>1. ASSUME NEW i \in Live'
        PROVE  /\ slots'[i].number \in Bps
               /\ sent'[slots'[i].number].creates = 0
    <3>1. i \in Live /\ slots'[i].number = slots[i].number
      BY <1>1, <1>2 DEF Live
    <3>2. slots[i].number \in Bps /\ sent[slots[i].number].creates = 0
      BY <3>1 DEF OnceInv, WaitsOnce
    <3>3. \A j \in Live \ Live' : slots[j].number # slots[i].number
      BY <2>1, <3>1 DEF OnceInv, WaitsOnce
    <3>4. sent'[slots[i].number] = sent[slots[i].number]
      BY <1>1, <3>2, <3>3
    <3>5. QED
      BY <3>1, <3>2, <3>4
  <2>2. \A i, j \in Live' : slots'[i].number = slots'[j].number => i = j
    BY <1>1, <1>2 DEF OnceInv, WaitsOnce, Live
  <2>3. QED
    BY <2>1, <2>2 DEF WaitsOnce
<1>6. AtMostOneCreatePerRun'
  BY FlushOnce DEF BufferInv, AtMostOneCreatePerRun
<1>7. PendingIsOfLiveBreakpoint' /\ ReSetBeforeInitialization'
  <2>1. gdb' # "reset_late"
    BY DEF Flush, Stop
  <2>2. QED
    BY <2>1 DEF PendingIsOfLiveBreakpoint, ReSetBeforeInitialization
<1>8. QED
  BY <1>3, <1>4, <1>5, <1>6, <1>7 DEF OnceInv

\* A creation gives a number that no slot, packet or request has yet.
LEMMA CreateKeepsOnce ==
  ASSUME BufferInv, BufferInv', OnceInv,
         NEW type \in Kinds, CreateBreakpoint(type)
  PROVE  OnceInv'
<1> DEFINE b == count + 1
           ready == initialized /\ (type = "SOURCE" => binary)
<1> USE DEF agentVars, runVars
<1>1. /\ gdb = "running" /\ count < MaxBps /\ count' = b
      /\ chain' = chain \cup {b} /\ allocated' = TRUE
      /\ UNCHANGED <<initialized, fifoOpen, inferiors>>
  BY DEF CreateBreakpoint, Allocate
<1>2. b \in Bps /\ \A c \in Bps : c > b => c > count /\ c # b
  <2>1. count \in Nat /\ MaxBps \in Nat
    BY BoundsAssumption DEF BufferInv, TypeOK
  <2>2. QED
    BY <1>1, <2>1 DEF Bps
<1>3. sent[b].creates = 0 /\ request[b] = "UNKNOWN"
  <2>1. sent[b].creates \in Nat /\ count \in Nat
    BY <1>2 DEF BufferInv, TypeOK, Record
  <2>2. ~(b <= count) /\ b > count
    BY <2>1
  <2>3. ~(sent[b].creates > 0)
    BY <1>2, <2>2 DEF BufferInv, NumbersCounted
  <2>4. QED
    BY <1>2, <2>1, <2>2, <2>3 DEF OnceInv
<1>4. \A i \in Idx : slots[i].number # b /\ slots[i].number <= count
  <2>1. \A i \in Idx : slots[i].number <= count /\ slots[i].number \in Nat
    BY DEF BufferInv, NumbersCounted, TypeOK, Slot
  <2>2. count \in Nat
    BY DEF BufferInv, TypeOK
  <2>3. QED
    BY <2>1, <2>2
<1>5. CASE /\ ready
           /\ Push(b, "CREATE")
           /\ request' = [request EXCEPT ![b] = type]
           /\ UNCHANGED <<slots, len>>
  <2>1. TypeOK
    BY DEF BufferInv
  <2>2. /\ \A c \in Bps \ {b} : sent'[c] = sent[c]
        /\ sent'[b].creates <= sent[b].creates + 1
        /\ gdb' \in {"running", "no_fifo"}
    BY <1>1, <1>2, <1>5, <2>1, Pushing
  <2>3. \A c \in Bps \ {b} : request'[c] = request[c]
    BY <1>5, <2>1 DEF TypeOK
  <2>4. Live' = Live
    BY <1>5 DEF Live
  <2>5. WaitsOnce'
    <3>1. inferiors = 1
      BY <1>1, <1>5 DEF OnceInv
    <3>2. \A i \in Live : slots[i].number \in Bps \ {b}
      BY <1>1, <1>4 DEF OnceInv, WaitsOnce, Live
    <3>3. QED
      BY <1>1, <1>5, <2>2, <2>4, <3>1, <3>2 DEF OnceInv, WaitsOnce
  <2>6. \A c \in Bps : c > count' => request'[c] = "UNKNOWN"
    BY <1>1, <1>2, <2>3 DEF OnceInv
  <2>7. AtMostOneCreatePerRun'
    BY <1>2, <1>3, <2>2 DEF OnceInv, AtMostOneCreatePerRun
  <2>8. PendingIsOfLiveBreakpoint' /\ ReSetBeforeInitialization'
    BY <1>1, <1>5, <2>2 DEF PendingIsOfLiveBreakpoint,
       ReSetBeforeInitialization
  <2>9. QED
    BY <1>1, <1>5, <2>5, <2>6, <2>7, <2>8 DEF OnceInv
<1>6. CASE /\ UNCHANGED <<slots, len, request, sent>>
           /\ \/ ready /\ UNCHANGED gdb
              \/ ~ready /\ Stop("overflow")
  <2>1. Live' = Live
    BY <1>6 DEF Live
  <2>2. WaitsOnce'
    BY <1>1, <1>6, <2>1 DEF OnceInv, WaitsOnce, Stop
  <2>3. \A c \in Bps : c > count' => request'[c] = "UNKNOWN"
    BY <1>1, <1>2, <1>6 DEF OnceInv
  <2>4. AtMostOneCreatePerRun' /\ ReSetBeforeInitialization'
    BY <1>1, <1>6 DEF OnceInv, AtMostOneCreatePerRun,
       ReSetBeforeInitialization, Stop
  <2>5. PendingIsOfLiveBreakpoint'
    BY <1>1, <1>6, <2>1 DEF OnceInv, PendingIsOfLiveBreakpoint, Stop
  <2>6. QED
    BY <1>1, <1>6, <2>2, <2>3, <2>4, <2>5 DEF OnceInv, Stop
<1>7. CASE /\ ~ready
           /\ Enqueue({b}, [c \in {b} |-> type])
           /\ UNCHANGED <<request, sent, gdb>>
  <2> DEFINE types == [c \in {b} |-> type]
  <2>1. types[b] = type /\ Enqueue({b}, types) /\ {b} \in SUBSET Bps
    BY <1>2, <1>7
  <2> HIDE DEF types
  <2>2. \A i \in Idx :
          \/ slots'[i] = slots[i]
          \/ \E c \in {b} : /\ SlotFor({b}, c) = i
                            /\ slots'[i] = [type |-> types[c], number |-> c]
    BY <2>1, EnqueueSlots
  <2>3. \A i \in Live' :
          \/ /\ i \in Live /\ slots'[i] = slots[i] /\ slots[i].number # b
          \/ /\ slots'[i].number = b /\ SlotFor({b}, b) = i
    <3> TAKE i \in Live'
    <3>1. i \in Idx /\ slots'[i].type # "UNKNOWN"
      BY DEF Live
    <3>2. CASE slots'[i] = slots[i]
      BY <1>4, <3>1, <3>2 DEF Live
    <3>3. CASE slots'[i] = [type |-> types[b], number |-> b]
      BY <2>2, <1>4, <3>1, <3>3
    <3>4. QED
      BY <2>2, <3>1, <3>2, <3>3
  <2>4. \A i \in Live' : /\ slots'[i].number \in Bps
                         /\ sent[slots'[i].number].creates = 0
                         /\ inferiors = 0 =>
                              request[slots'[i].number] = "UNKNOWN"
    BY <1>1, <1>2, <1>3, <2>3 DEF OnceInv, WaitsOnce
  <2>5. \A i, j \in Live' : slots'[i].number = slots'[j].number => i = j
    BY <1>1, <2>3 DEF OnceInv, WaitsOnce
  <2>6. WaitsOnce'
    BY <1>1, <1>7, <2>4, <2>5 DEF WaitsOnce
  <2>7. \A c \in Bps : c > count' => request'[c] = "UNKNOWN"
    BY <1>1, <1>2, <1>7 DEF OnceInv
  <2>8. AtMostOneCreatePerRun' /\ ReSetBeforeInitialization'
    BY <1>7 DEF OnceInv, AtMostOneCreatePerRun, ReSetBeforeInitialization
  <2>9. PendingIsOfLiveBreakpoint'
    BY <1>1, <1>7, <2>3 DEF OnceInv, PendingIsOfLiveBreakpoint
  <2>10. QED
    BY <1>1, <1>7, <2>6, <2>7, <2>8, <2>9 DEF OnceInv
<1>8. QED
  BY <1>5, <1>6, <1>7 DEF CreateBreakpoint

\* A deletion clears the only slot of its breakpoint.
LEMMA DeleteKeepsOnce ==
  ASSUME BufferInv, OnceInv, NEW b \in Bps, DeleteBreakpoint(b)
  PROVE  OnceInv'
<1> USE DEF agentVars, runVars, bufferVars
<1>1. /\ gdb = "running" /\ b \in chain /\ chain' = chain \ {b}
      /\ UNCHANGED <<count, initialized, fifoOpen, inferiors>>
      /\ TypeOK
  BY DEF DeleteBreakpoint, BufferInv
<1>2. /\ request'[b] = "UNKNOWN"
      /\ \A c \in Bps \ {b} : request'[c] = request[c]
  BY <1>1 DEF DeleteBreakpoint, TypeOK
<1>3. \A c \in Bps : c > count' => request'[c] = "UNKNOWN"
  BY <1>1, <1>2 DEF OnceInv
<1>4. CASE initialized /\ Push(b, "DELETE") /\ UNCHANGED bufferVars
  <2>1. /\ \A c \in Bps : sent'[c].creates = sent[c].creates
        /\ gdb' \in {"running", "no_fifo"}
    BY <1>1, <1>4, Pushing
  <2>2. Live' = Live
    BY <1>4 DEF Live
  <2>3. WaitsOnce'
    BY <1>1, <1>2, <1>4, <2>1, <2>2 DEF OnceInv, WaitsOnce
  <2>4. AtMostOneCreatePerRun' /\ ReSetBeforeInitialization'
    BY <2>1 DEF OnceInv, AtMostOneCreatePerRun, ReSetBeforeInitialization
  <2>5. QED
    BY <1>1, <1>3, <1>4, <2>2, <2>3, <2>4 DEF OnceInv,
       PendingIsOfLiveBreakpoint
<1>5. CASE ~initialized /\ Dequeue(b) /\ UNCHANGED <<sent, gdb>>
  <2>1. /\ \A i \in Idx : slots'[i].number = slots[i].number
        /\ Live' \subseteq Live
        /\ allocated' = allocated
    BY <1>1, <1>5, Dequeuing DEF BufferInv, Dequeue
  <2>2. WaitsOnce'
    BY <1>1, <1>2, <1>5, <2>1 DEF OnceInv, WaitsOnce, Live
  <2>3. AtMostOneCreatePerRun' /\ ReSetBeforeInitialization'
    BY <1>5 DEF OnceInv, AtMostOneCreatePerRun, ReSetBeforeInitialization
  <2>4. PendingIsOfLiveBreakpoint'
    <3> SUFFICES ASSUME NEW i \in Live', slots'[i].number = b PROVE FALSE
      BY <1>1, <1>5, <2>1 DEF OnceInv, PendingIsOfLiveBreakpoint, Live
    <3> DEFINE j == Minimum(SlotsOf(b))
    <3>1. i \in Live /\ i \in SlotsOf(b) /\ allocated
      BY <2>1 DEF Live, SlotsOf, OnceInv
    <3>2. SlotsOf(b) \in SUBSET Idx
      BY DEF SlotsOf
    <3>3. j \in SlotsOf(b)
      BY <3>1, <3>2, MinimumOfSlots
    <3>4. j \in Idx /\ slots[j].number = b
      BY <3>3 DEF SlotsOf
    <3>5. j \in Live
      BY <1>1, <1>5, <3>4 DEF BufferInv, NumbersWait
    <3>6. i = j
      BY <1>1, <3>1, <3>4, <3>5 DEF OnceInv, WaitsOnce, SlotsOf
    <3>7. slots' = [slots EXCEPT ![j].type = "UNKNOWN"]
      BY <1>5, <3>1 DEF Dequeue
    <3> HIDE DEF j
    <3>8. slots'[j].type = "UNKNOWN"
      BY <1>1, <3>4, <3>7 DEF TypeOK, Slot
    <3>9. QED
      BY <3>6, <3>8 DEF Live
  <2>5. QED
    BY <1>1, <1>3, <1>5, <2>1, <2>2, <2>3, <2>4 DEF OnceInv
<1>6. QED
  BY <1>4, <1>5 DEF DeleteBreakpoint

\* A disable creates nothing.
LEMMA DisableKeepsOnce ==
  ASSUME BufferInv, OnceInv, NEW b \in Bps, DisableBreakpoint(b)
  PROVE  OnceInv'
<1> USE DEF agentVars, runVars, bufferVars
<1>1. /\ gdb = "running" /\ TypeOK /\ Push(b, "DISABLE")
      /\ UNCHANGED <<chain, count, request, slots, len, allocated,
                     initialized, fifoOpen, inferiors>>
  BY DEF DisableBreakpoint, BufferInv
<1>2. /\ \A c \in Bps : sent'[c].creates = sent[c].creates
      /\ gdb' \in {"running", "no_fifo"}
  BY <1>1, Pushing
<1>3. Live' = Live
  BY <1>1 DEF Live
<1>4. WaitsOnce'
  BY <1>1, <1>2, <1>3 DEF OnceInv, WaitsOnce
<1>5. AtMostOneCreatePerRun' /\ ReSetBeforeInitialization'
  BY <1>2 DEF OnceInv, AtMostOneCreatePerRun, ReSetBeforeInitialization
<1>6. PendingIsOfLiveBreakpoint'
  BY <1>1, <1>3 DEF OnceInv, PendingIsOfLiveBreakpoint
<1>7. QED
  BY <1>1, <1>2, <1>3, <1>4, <1>5, <1>6 DEF OnceInv

\* A start puts back the known requests, each once: none of them waits.
LEMMA StartKeepsOnce ==
  ASSUME MaxInferiors = 1, BufferInv, OnceInv, Start,
         allocated' \in {TRUE, allocated}
  PROVE  OnceInv'
<1> USE DEF userVars, agentVars
<1>1. /\ gdb = "running"
      /\ inferiors = 0 /\ inferiors' = 1 /\ ~initialized
      /\ UNCHANGED <<chain, count, request, initialized, fifoOpen, sent>>
  <2>1. /\ gdb = "running"
        /\ inferiors < MaxInferiors /\ inferiors' = inferiors + 1
        /\ inferiors \in 0..MaxInferiors
    BY DEF Start, BufferInv, TypeOK
  <2>2. inferiors = 0 /\ inferiors' = 1
    BY <2>1
  <2>3. QED
    BY <2>1, <2>2 DEF Start, OnceInv
<1>2. Known \in SUBSET Bps /\ \A b \in Known : b \in chain
  BY DEF Known, BufferInv, TypeOK
<1>3. \A b \in Known : request[b] # "UNKNOWN"
  BY DEF Known
<1>4. gdb' # "reset_late"
  BY <1>1 DEF Start, ReSetAll, Stop
<1>5. WaitsOnce' /\ PendingIsOfLiveBreakpoint'
  <2> SUFFICES ASSUME gdb' = "running"
               PROVE  WaitsOnce' /\ PendingIsOfLiveBreakpoint'
    BY DEF WaitsOnce, PendingIsOfLiveBreakpoint
  <2>1. CASE UNCHANGED <<slots, len>>
    <3>1. Live' = Live
      BY <2>1 DEF Live
    <3>2. QED
      BY <1>1, <2>1, <3>1 DEF OnceInv, WaitsOnce, PendingIsOfLiveBreakpoint
  <2>2. CASE Enqueue(Known, request)
    <3>1. \A i \in Idx :
            \/ slots'[i] = slots[i]
            \/ \E b \in Known :
                 /\ SlotFor(Known, b) = i
                 /\ slots'[i] = [type |-> request[b], number |-> b]
      BY <1>2, <2>2, EnqueueSlots
    <3>2. \A i \in Live' :
            \/ /\ i \in Live /\ slots'[i] = slots[i]
               /\ slots[i].number \in Bps \ Known
               /\ slots[i].number \in chain
               /\ sent[slots[i].number].creates = 0
            \/ /\ slots'[i].number \in Known
               /\ SlotFor(Known, slots'[i].number) = i
      <4> TAKE i \in Live'
      <4>1. i \in Idx /\ slots'[i].type # "UNKNOWN"
        BY DEF Live
      <4>2. CASE slots'[i] = slots[i]
        <5>1. i \in Live
          BY <4>1, <4>2 DEF Live
        <5>2. /\ slots[i].number \in Bps
              /\ sent[slots[i].number].creates = 0
              /\ request[slots[i].number] = "UNKNOWN"
          BY <1>1, <5>1 DEF OnceInv, WaitsOnce
        <5>3. slots[i].number \in chain
          BY <1>1, <5>1 DEF OnceInv, PendingIsOfLiveBreakpoint
        <5>4. QED
          BY <1>3, <4>2, <5>1, <5>2, <5>3
      <4>3. ASSUME NEW b \in Known, SlotFor(Known, b) = i,
                   slots'[i] = [type |-> request[b], number |-> b]
            PROVE  /\ slots'[i].number \in Known
                   /\ SlotFor(Known, slots'[i].number) = i
        BY <4>3
      <4>4. QED
        BY <3>1, <4>1, <4>2, <4>3
    <3>3. \A i \in Live' : /\ slots'[i].number \in Bps
                           /\ sent[slots'[i].number].creates = 0
                           /\ slots'[i].number \in chain
      BY <1>1, <1>2, <3>2 DEF OnceInv
    <3>4. \A i, j \in Live' : slots'[i].number = slots'[j].number => i = j
      BY <1>1, <3>2 DEF OnceInv, WaitsOnce
    <3>5. QED
      BY <1>1, <3>3, <3>4 DEF WaitsOnce, PendingIsOfLiveBreakpoint
  <2>3. \/ UNCHANGED <<slots, len>>
        \/ Enqueue(Known, request)
    BY <1>1 DEF Start, ReSetAll
  <2>4. QED
    BY <2>1, <2>2, <2>3
<1>6. ~allocated' => Live' = {}
  <2> SUFFICES ASSUME ~allocated' PROVE Live' = {}
    OBVIOUS
  <2>1. UNCHANGED slots
    BY DEF Start, ReSetAll
  <2>2. Live' = Live
    BY <2>1 DEF Live
  <2>3. QED
    BY <2>2 DEF OnceInv
<1>7. QED
  BY <1>1, <1>4, <1>5, <1>6 DEF OnceInv, AtMostOneCreatePerRun,
     ReSetBeforeInitialization

\* Closing the target empties the buffer and forgets what was sent.
LEMMA CloseKeepsOnce ==
  ASSUME OnceInv, CloseTarget, UNCHANGED userVars,
         gdb' \in {"running", "quit"}
  PROVE  OnceInv'
<1>1. /\ slots' = EmptyBuffer /\ initialized' = FALSE /\ sent' = NothingSent
      /\ fifoOpen' = FALSE
      /\ UNCHANGED <<count, request>>
  BY DEF CloseTarget, FreeBuffer, userVars
<1>2. Live' = {}
  BY <1>1 DEF Live, EmptyBuffer, EmptySlot
<1>3. \A b \in Bps : sent'[b].creates = 0
  BY <1>1 DEF NothingSent
<1>4. WaitsOnce' /\ PendingIsOfLiveBreakpoint'
  BY <1>2 DEF WaitsOnce, PendingIsOfLiveBreakpoint
<1>5. AtMostOneCreatePerRun' /\ ReSetBeforeInitialization'
  BY <1>3 DEF AtMostOneCreatePerRun, ReSetBeforeInitialization
<1>6. QED
  BY <1>1, <1>2, <1>3, <1>4, <1>5 DEF OnceInv

\* The steps that leave the slots, the FIFO and the requests as they are.
LEMMA QuietKeepsOnce ==
  ASSUME OnceInv,
         UNCHANGED <<chain, count, request, slots, allocated, initialized,
                     fifoOpen, sent, inferiors, gdb>>
  PROVE  OnceInv'
<1>1. Live' = Live
  BY DEF Live
<1>2. WaitsOnce'
  BY <1>1 DEF OnceInv, WaitsOnce
<1>3. AtMostOneCreatePerRun' /\ ReSetBeforeInitialization'
  BY DEF OnceInv, AtMostOneCreatePerRun, ReSetBeforeInitialization
<1>4. PendingIsOfLiveBreakpoint'
  BY <1>1 DEF OnceInv, PendingIsOfLiveBreakpoint
<1>5. QED
  BY <1>1, <1>2, <1>3, <1>4 DEF OnceInv

\* Each step, by the lemma of its action.
LEMMA NextOnceInv ==
  ASSUME MaxInferiors = 1, BufferInv, BufferInv', OnceInv, [Next]_vars
  PROVE  OnceInv'
<1> USE DEF agentVars, runVars, bufferVars, userVars
<1>1. ASSUME NEW type \in Kinds, CreateBreakpoint(type) PROVE OnceInv'
  BY <1>1, CreateKeepsOnce
<1>2. ASSUME NEW b \in Bps, DeleteBreakpoint(b) PROVE OnceInv'
  BY <1>2, DeleteKeepsOnce
<1>3. ASSUME NEW b \in Bps, DisableBreakpoint(b) PROVE OnceInv'
  BY <1>3, DisableKeepsOnce
<1>4. ASSUME NEW b \in Bps, EnableBreakpoint(b) PROVE OnceInv'
  BY <1>4, QuietKeepsOnce DEF EnableBreakpoint
<1>5. CASE Run
  BY <1>5, StartKeepsOnce DEF Run, Allocate
<1>6. CASE Attach
  BY <1>6, StartKeepsOnce DEF Attach
<1>7. CASE RunFails
  BY <1>7, CloseKeepsOnce DEF RunFails
<1>8. CASE Quit
  BY <1>8, CloseKeepsOnce DEF Quit, Stop
<1>9. ASSUME NEW open \in BOOLEAN, Initialize(open) PROVE OnceInv'
  <2>1. inferiors > 0 /\ inferiors \in 0..MaxInferiors
    BY <1>9 DEF Initialize, BufferInv, TypeOK
  <2>2. inferiors = 1
    BY <2>1
  <2>3. QED
    BY <1>9, <2>2, FlushKeepsOnce DEF Initialize, BufferInv, TypeOK
<1>10. CASE WaitFlush
  BY <1>10, FlushKeepsOnce DEF WaitFlush, OnceInv, BufferInv, TypeOK
<1>11. ASSUME NEW map \in SUBSET Bps, NewBinary(map) PROVE OnceInv'
  BY <1>11, FlushKeepsOnce DEF NewBinary, OnceInv, BufferInv, TypeOK
<1>12. CASE NewBinaryFails
  BY <1>12, FlushKeepsOnce DEF NewBinaryFails, OnceInv, BufferInv, TypeOK
<1>13. CASE EndDebugging
  BY <1>13, QuietKeepsOnce DEF EndDebugging
<1>14. CASE InferiorExit
  <2>1. inferiors > 0 /\ inferiors \in 0..MaxInferiors
    BY <1>14 DEF InferiorExit, BufferInv, TypeOK
  <2>2. ~(inferiors > 1)
    BY <2>1
  <2>3. QED
    BY <1>14, <2>2, CloseKeepsOnce DEF InferiorExit
<1>15. CASE UNCHANGED vars
  BY <1>15, QuietKeepsOnce DEF vars
<1>16. QED
  BY <1>1, <1>2, <1>3, <1>4, <1>5, <1>6, <1>7, <1>8, <1>9, <1>10, <1>11,
     <1>12, <1>13, <1>14, <1>15 DEF Next

\* OnceInv is invariant when gdb has one inferior at a time; with two, a second
\* one may start, or exit, while the first uses the agent.
THEOREM OnceInvariant == ASSUME MaxInferiors = 1 PROVE Spec => []OnceInv
<1>1. OnceInv /\ BufferInv /\ BufferInv' /\ [Next]_vars => OnceInv'
  BY NextOnceInv
<1>2. QED
  BY <1>1, InitOnceInv, BufferInvariant, PTL DEF Spec

\* With one inferior at a time the agent is told at most once in a run to create
\* a breakpoint, through however many creations, deletions and restarts.
THEOREM CreateOnce ==
  ASSUME MaxInferiors = 1 PROVE Spec => []AtMostOneCreatePerRun
<1>1. OnceInv => AtMostOneCreatePerRun
  BY DEF OnceInv
<1>2. QED
  BY <1>1, OnceInvariant, PTL

\* With one inferior at a time, a deletion before hsail is initialized takes its
\* request out of the buffer.
THEOREM PendingLive ==
  ASSUME MaxInferiors = 1 PROVE Spec => []PendingIsOfLiveBreakpoint
<1>1. OnceInv => PendingIsOfLiveBreakpoint
  BY DEF OnceInv
<1>2. QED
  BY <1>1, OnceInvariant, PTL

\* With one inferior at a time, the assertion of breakpoint_re_set_all_hsail
\* holds.
THEOREM ReSetInTime ==
  ASSUME MaxInferiors = 1 PROVE Spec => []ReSetBeforeInitialization
<1>1. OnceInv => ReSetBeforeInitialization
  BY DEF OnceInv
<1>2. QED
  BY <1>1, OnceInvariant, PTL

\* With one inferior at a time, the commands, events and notifications that the
\* buffer is exposed to implement the promise of the link: a process starts,
\* the link is initialized once while it lives and is gone with it.
THEOREM LinkImplemented == ASSUME MaxInferiors = 1 PROVE Spec => LinkSpec
<1> USE DEF agentVars, runVars, bufferVars, userVars
<1>1. Init => Link!Init
  BY DEF Init, Link!Init
<1>2. TypeOK /\ OnceInv /\ [Next]_vars => [Link!Next]_(Link!vars)
  <2> SUFFICES ASSUME TypeOK, OnceInv, [Next]_vars
               PROVE  Link!Next \/ UNCHANGED Link!vars
    OBVIOUS
  <2> USE DEF Link!vars
  <2>1. inferiors \in 0..1 /\ (gdb = "running" /\ inferiors = 0 => ~initialized)
    BY DEF TypeOK, OnceInv
  <2>2. CASE UNCHANGED <<initialized, fifoOpen, inferiors>>
    BY <2>2
  <2>3. CASE Run \/ Attach
    <3>1. inferiors = 0 /\ inferiors' = 1 /\ UNCHANGED <<initialized, fifoOpen>>
      BY <2>1, <2>3 DEF Run, Attach, Start
    <3>2. Link!Start
      BY <3>1 DEF Link!Start
    <3>3. QED
      BY <3>2 DEF Link!Next
  <2>4. CASE RunFails
    <3>1. inferiors' = 0 /\ inferiors = 0 /\ initialized' = FALSE
          /\ fifoOpen' = FALSE /\ ~initialized /\ ~fifoOpen
      BY <2>1, <2>4 DEF RunFails, CloseTarget, OnceInv
    <3>2. initialized = FALSE /\ fifoOpen = FALSE
      BY <3>1 DEF TypeOK
    <3>3. QED
      BY <3>1, <3>2
  <2>5. CASE Quit \/ InferiorExit
    <3>1. /\ gdb = "running" /\ inferiors' = 0
          /\ initialized' = FALSE /\ fifoOpen' = FALSE
      BY <2>1, <2>5 DEF Quit, InferiorExit, CloseTarget
    <3>2. CASE inferiors = 0
      <4>1. initialized = FALSE /\ fifoOpen = FALSE
        BY <2>1, <3>1, <3>2 DEF OnceInv, TypeOK
      <4>2. QED
        BY <3>1, <3>2, <4>1
    <3>3. CASE inferiors = 1
      BY <3>1, <3>3 DEF Link!Close, Link!Next
    <3>4. QED
      BY <2>1, <3>2, <3>3
  <2>6. ASSUME NEW open \in BOOLEAN, Initialize(open)
        PROVE  Link!Next
    BY <2>6 DEF Initialize, Link!Initialize, Link!Next
  <2>7. QED
    BY <2>2, <2>3, <2>4, <2>5, <2>6 DEF Next, vars, CreateBreakpoint,
       DeleteBreakpoint, DisableBreakpoint, EnableBreakpoint, WaitFlush,
       NewBinary, NewBinaryFails, EndDebugging
<1>3. QED
  BY <1>1, <1>2, TypeCorrect, OnceInvariant, PTL DEF Spec, LinkSpec, Link!Spec

-----------------------------------------------------------------------------
(***************************************************************************)
(* Kernel breakpoints return in each run, for any number of inferiors, if  *)
(* the user deletes none while requests wait.  Until hsail is initialized  *)
(* each one the chain knows has a slot, and all slots in use are below the *)
(* length, so that no later request is written over one of them.           *)
(***************************************************************************)

Named(b) == request[b] \in {"KERNEL", "ANY"}

\* The agent has a breakpoint on a kernel, or a slot waits that will send it.
Waits(b) == \E i \in Live : slots[i].number = b /\ slots[i].type # "SOURCE"

Returning ==
  gdb = "running" =>
    /\ initialized => \A b \in chain : Named(b) => sent[b].creates > 0
    /\ ~initialized => \A i \in Live : i < len
    /\ ~initialized /\ inferiors > 0 =>
         \A b \in chain : Named(b) => Waits(b)

\* A number that was not given yet has no request.
Fresh == \A b \in Bps : b > count => request[b] = "UNKNOWN"

\* Requests are written from the length on, each in its own slot.
LEMMA EnqueuePlaces ==
  ASSUME TypeOK, NEW S \in SUBSET Bps, NEW type, Fits(S), Enqueue(S, type)
  PROVE  /\ \A i \in Idx : i < len => slots'[i] = slots[i]
         /\ \A b \in S :
              /\ SlotFor(S, b) \in Idx
              /\ slots'[SlotFor(S, b)] = [type |-> type[b], number |-> b]
         /\ \A i \in Idx : slots'[i] # slots[i] => i < len'
<1> DEFINE Below(b) == {c \in S : c < b}
<1>1. len \in Nat /\ len' = len + Cardinality(S) /\ Size \in Nat
  BY BoundsAssumption DEF TypeOK, Enqueue
<1>2. IsFiniteSet(S) /\ Cardinality(S) \in Nat
  BY FiniteParts
<1>3. ASSUME NEW b \in S
      PROVE  /\ Cardinality(Below(b)) \in Nat
             /\ Cardinality(Below(b)) < Cardinality(S)
  <2>1. Below(b) \in SUBSET S /\ b \notin Below(b) /\ b \in Bps
    BY DEF Bps
  <2> HIDE DEF Below
  <2>2. /\ IsFiniteSet(Below(b))
        /\ Cardinality(Below(b)) <= Cardinality(S)
        /\ Cardinality(S) = Cardinality(Below(b)) => S = Below(b)
    BY <1>2, <2>1, FS_Subset
  <2> QED
    BY <1>2, <2>1, <2>2, FS_CardinalityType
<1>4. ASSUME NEW b \in S, NEW c \in S, b < c
      PROVE  Cardinality(Below(b)) < Cardinality(Below(c))
  <2>1. Below(b) \in SUBSET Below(c) /\ b \in Below(c) /\ b \notin Below(b)
    <3>1. \A x \in S : x \in Int
      BY DEF Bps
    <3>2. \A x \in S : x < b => x < c
      BY <1>4, <3>1
    <3> QED
      BY <1>4, <3>1, <3>2
  <2>2. IsFiniteSet(Below(c))
    BY <1>2, FS_Subset
  <2> HIDE DEF Below
  <2>3. /\ Cardinality(Below(b)) <= Cardinality(Below(c))
        /\ Cardinality(Below(c)) = Cardinality(Below(b)) => Below(c) = Below(b)
    BY <2>1, <2>2, FS_Subset
  <2> QED
    BY <1>3, <2>1, <2>3
<1>5. \A b \in S : SlotFor(S, b) = len + Cardinality(Below(b))
  BY DEF SlotFor
<1> HIDE DEF Below
<1>6. ASSUME NEW b \in S
      PROVE  /\ SlotFor(S, b) \in Idx
             /\ len <= SlotFor(S, b) /\ SlotFor(S, b) < len'
  BY <1>1, <1>2, <1>3, <1>5 DEF Fits, Idx
<1>7. ASSUME NEW b \in S, NEW c \in S, SlotFor(S, b) = SlotFor(S, c)
      PROVE  b = c
  <2>1. b \in Int /\ c \in Int
    BY DEF Bps
  <2>2. ~(b < c) /\ ~(c < b)
    BY <1>1, <1>3, <1>4, <1>5, <1>7
  <2> QED
    BY <2>1, <2>2
<1>8. ASSUME NEW b \in S
      PROVE  slots'[SlotFor(S, b)] = [type |-> type[b], number |-> b]
  <2> DEFINE i == SlotFor(S, b)
             d == CHOOSE c \in S : SlotFor(S, c) = i
  <2>1. d \in S /\ SlotFor(S, d) = i
    OBVIOUS
  <2>2. d = b
    BY <1>7, <2>1
  <2>3. slots'[i] = [type |-> type[d], number |-> d]
    BY <1>6 DEF Enqueue
  <2> QED
    BY <2>2, <2>3
<1>9. ASSUME NEW i \in Idx, slots'[i] # slots[i]
      PROVE  \E b \in S : SlotFor(S, b) = i
  BY <1>9, EnqueueSlots
<1>10. ASSUME NEW i \in Idx
       PROVE  /\ i < len => slots'[i] = slots[i]
              /\ slots'[i] # slots[i] => i < len'
  <2>1. i \in Int
    BY DEF Idx
  <2> QED
    BY <1>1, <1>6, <1>9, <2>1
<1> QED
  BY <1>6, <1>8, <1>10

\* A flush that gdb survives has sent each breakpoint on a kernel that waited,
\* and gives no breakpoint such a request without a packet for it.
LEMMA FlushReturns ==
  ASSUME TypeOK, LengthCoversPending, gdb = "running",
         NEW open, NEW bin, NEW map, Flush(open, bin, map), gdb' = "running",
         \A b \in chain : Named(b) => sent[b].creates > 0 \/ Waits(b)
  PROVE  \A b \in chain : Named(b)' => sent'[b].creates > 0
<1>1. CASE len = 0 /\ UNCHANGED <<sent, request>>
  <2>1. IsFiniteSet(Live) /\ Cardinality(Live) \in Nat
    BY FiniteParts DEF Live
  <2>2. Live = {}
    BY <1>1, <2>1, FS_EmptySet DEF LengthCoversPending
  <2> QED
    BY <1>1, <2>2 DEF Named, Waits
<1>2. CASE Transmit(Sendable(bin), map)
  <2> DEFINE P(b) == Packets(Sendable(bin), map, b)
  <2> SUFFICES ASSUME NEW b \in chain, Named(b)'
               PROVE  sent'[b].creates > 0
    OBVIOUS
  <2>1. b \in Bps /\ sent[b].creates \in Nat
    BY DEF TypeOK, Record
  <2>2. CASE P(b) = {}
    <3>1. sent'[b] = sent[b] /\ request'[b] = request[b]
      BY <1>2, <2>1, <2>2 DEF Transmit, SendPackets, CopyRequests
    <3>2. ~Waits(b)
      BY <2>2 DEF Waits, Packets, Sendable, Resolves
    <3> QED
      BY <3>1, <3>2 DEF Named
  <2>3. CASE P(b) # {}
    <3>1. P(b) \in SUBSET Idx
      BY DEF Packets, Sendable, Live
    <3>2. IsFiniteSet(P(b)) /\ Cardinality(P(b)) \in Nat
      BY <3>1, FiniteParts
    <3>3. Cardinality(P(b)) > 0
      BY <2>3, <3>2, FS_EmptySet
    <3>4. sent'[b].creates = sent[b].creates + Cardinality(P(b))
      BY <1>2, <2>1, <2>3 DEF Transmit, SendPackets
    <3> QED
      BY <2>1, <3>2, <3>3, <3>4
  <2> QED
    BY <2>2, <2>3
<1> QED
  BY <1>1, <1>2 DEF Flush, Stop

\* A flush with hsail initialized by it, or before.
LEMMA FlushKeepsReturning ==
  ASSUME BufferInv, Returning, Fresh, gdb = "running",
         NEW open, NEW bin, NEW map, Flush(open, bin, map),
         initialized \/ inferiors > 0, initialized' = TRUE,
         UNCHANGED <<chain, count>>
  PROVE  Returning' /\ Fresh'
<1>1. gdb' = "running" => \A b \in chain : Named(b)' => sent'[b].creates > 0
  BY FlushReturns DEF BufferInv, Returning
<1>2. \A b \in Bps : b > count => request'[b] = request[b]
  <2>1. ASSUME NEW F, CopyRequests(F, map), NEW b \in Bps, b > count
        PROVE  request'[b] = request[b]
    BY <2>1 DEF CopyRequests, BufferInv, NumbersCounted, TypeOK, Bps
  <2> QED
    BY <2>1 DEF Flush, Transmit
<1> QED
  BY <1>1, <1>2 DEF Returning, Fresh

\* A breakpoint that is created goes to the agent, behind all that wait, or is
\* not yet on a kernel.
LEMMA CreateKeepsReturning ==
  ASSUME BufferInv, Returning, Fresh,
         NEW type \in Kinds, CreateBreakpoint(type)
  PROVE  Returning' /\ Fresh'
<1> DEFINE b == count + 1
<1> USE DEF agentVars, runVars
<1>1. /\ gdb = "running" /\ count' = b /\ chain' = chain \cup {b}
      /\ UNCHANGED <<initialized, inferiors>>
  BY DEF CreateBreakpoint
<1>2. b \in Bps /\ count \in Nat /\ request[b] = "UNKNOWN"
  <2>1. count \in 0..MaxBps /\ count < MaxBps /\ MaxBps \in Nat
    BY BoundsAssumption DEF CreateBreakpoint, BufferInv, TypeOK
  <2>2. b \in Bps /\ b > count /\ count \in Nat
    BY <2>1 DEF Bps
  <2> QED
    BY <2>2 DEF Fresh
<1>3. chain \subseteq Bps \ {b}
  BY DEF BufferInv, TypeOK, NumbersCounted, Bps
<1> HIDE DEF b
<1>4. CASE /\ initialized
           /\ Push(b, "CREATE")
           /\ request' = [request EXCEPT ![b] = type]
  <2>1. \A c \in Bps \ {b} : sent'[c] = sent[c] /\ request'[c] = request[c]
    BY <1>1, <1>2, <1>4, Pushing DEF BufferInv, TypeOK
  <2>2. gdb' = "running" => sent'[b].creates > 0
    <3>1. sent[b].creates \in Nat
      BY <1>2 DEF BufferInv, TypeOK, Record
    <3>2. gdb' = "running" => sent'[b].creates = sent[b].creates + 1
      BY <1>2, <1>4 DEF Push, Stop, BufferInv, TypeOK
    <3> QED
      BY <3>1, <3>2
  <2>3. Returning'
    BY <1>1, <1>3, <1>4, <2>1, <2>2 DEF Returning, Named
  <2>4. Fresh'
    <3>1. ASSUME NEW c \in Bps, c > b
          PROVE  request'[c] = "UNKNOWN"
      BY <1>2, <2>1, <3>1 DEF Fresh, Bps, b
    <3> QED
      BY <1>1, <3>1 DEF Fresh
  <2> QED
    BY <2>3, <2>4
<1>5. CASE UNCHANGED <<slots, len, request, sent>> /\ initialized
  <2>1. Returning'
    BY <1>1, <1>2, <1>5 DEF Returning, Named
  <2>2. Fresh'
    BY <1>1, <1>2, <1>5 DEF Fresh, Bps, b
  <2> QED
    BY <2>1, <2>2
<1>6. CASE /\ Fits({b})
           /\ Enqueue({b}, [c \in {b} |-> type])
           /\ UNCHANGED <<request, sent, gdb>>
  <2> DEFINE t == [c \in {b} |-> type]
  <2>1. {b} \in SUBSET Bps
    BY <1>2
  <2> HIDE DEF t
  <2>2. Enqueue({b}, t)
    BY <1>6 DEF t
  <2>3. /\ \A i \in Idx : i < len => slots'[i] = slots[i]
        /\ \A i \in Idx : slots'[i] # slots[i] => i < len'
    BY <1>6, <2>1, <2>2, EnqueuePlaces DEF BufferInv
  <2>4. len' >= len /\ len \in Nat /\ len' \in Nat
    BY <2>1, <2>2, FiniteParts DEF Enqueue, BufferInv, TypeOK
  <2>5. ~initialized => \A i \in Live' : i < len'
    <3> SUFFICES ASSUME ~initialized, NEW i \in Live'
                 PROVE  i < len'
      OBVIOUS
    <3>1. i \in Idx /\ i \in Int
      BY DEF Live, Idx
    <3>2. CASE slots'[i] = slots[i]
      BY <1>1, <2>4, <3>1, <3>2 DEF Live, Returning
    <3> QED
      BY <2>3, <3>1, <3>2
  <2>6. ASSUME ~initialized, NEW c, Waits(c)
        PROVE  Waits(c)'
    BY <1>1, <2>3, <2>6 DEF Waits, Returning, Live
  <2>7. Returning'
    BY <1>1, <1>2, <1>6, <2>5, <2>6 DEF Returning, Named
  <2>8. Fresh'
    BY <1>1, <1>2, <1>6 DEF Fresh, Bps, b
  <2> QED
    BY <2>7, <2>8
<1>7. CASE gdb' # "running" /\ UNCHANGED request
  BY <1>1, <1>2, <1>7 DEF Returning, Fresh, Bps, b
<1> QED
  BY <1>4, <1>5, <1>6, <1>7 DEF CreateBreakpoint, Stop, b

\* A deletion while no request waits for the FIFO.
LEMMA DeleteKeepsReturning ==
  ASSUME BufferInv, Returning, Fresh,
         NEW b \in Bps, DeleteBreakpoint(b), KeepsPending
  PROVE  Returning' /\ Fresh'
<1>1. /\ gdb = "running" /\ b \in chain /\ chain' = chain \ {b}
      /\ UNCHANGED <<count, initialized, inferiors>>
      /\ \A c \in Bps \ {b} : request'[c] = request[c]
      /\ request'[b] = "UNKNOWN"
  BY DEF DeleteBreakpoint, agentVars, runVars, BufferInv, TypeOK
<1>2. UNCHANGED bufferVars
  BY <1>1 DEF DeleteBreakpoint, Dequeue, KeepsPending
<1>3. \A c \in Bps \ {b} : sent'[c] = sent[c]
  BY <1>1, Pushing DEF DeleteBreakpoint, BufferInv
<1>4. chain \subseteq Bps
  BY DEF BufferInv, TypeOK
<1>5. \A c \in Bps : Waits(c) => Waits(c)'
  BY <1>2 DEF Waits, Live, bufferVars
<1>6. Returning'
  BY <1>1, <1>2, <1>3, <1>4, <1>5 DEF Returning, Named, bufferVars, Live
<1>7. Fresh'
  BY <1>1 DEF Fresh
<1> QED
  BY <1>6, <1>7

\* A process that is started has the known requests of the chain in the buffer.
LEMMA StartKeepsReturning ==
  ASSUME BufferInv, Returning, Fresh, Start
  PROVE  Returning' /\ Fresh'
<1>1. /\ gdb = "running"
      /\ UNCHANGED <<chain, count, request, initialized, sent>>
  BY DEF Start, userVars, agentVars
<1>2. ASSUME NEW b \in chain, Named(b)
      PROVE  b \in Known /\ request[b] # "SOURCE" /\ request[b] # "UNKNOWN"
  BY <1>2 DEF Named, Known
<1>3. CASE Known = {} /\ UNCHANGED <<slots, len, gdb>>
  BY <1>1, <1>2, <1>3 DEF Returning, Fresh, Named, Live
<1>4. CASE ~initialized /\ Fits(Known) /\ Enqueue(Known, request)
  <2>1. Known \in SUBSET Bps
    BY DEF Known, BufferInv, TypeOK
  <2>2. /\ \A b \in Known :
             /\ SlotFor(Known, b) \in Idx
             /\ slots'[SlotFor(Known, b)] = [type |-> request[b], number |-> b]
        /\ \A i \in Idx : slots'[i] # slots[i] => i < len'
    BY <1>4, <2>1, EnqueuePlaces DEF BufferInv
  <2>3. len' >= len /\ len \in Nat /\ len' \in Nat
    BY <1>4, <2>1, FiniteParts DEF Enqueue, BufferInv, TypeOK
  <2>4. \A i \in Live' : i < len'
    <3> TAKE i \in Live'
    <3>1. i \in Idx /\ i \in Int
      BY DEF Live, Idx
    <3>2. CASE slots'[i] = slots[i]
      BY <1>1, <1>4, <2>3, <3>1, <3>2 DEF Live, Returning
    <3> QED
      BY <2>2, <3>1, <3>2
  <2>5. ASSUME NEW b \in chain, Named(b)
        PROVE  Waits(b)'
    <3> DEFINE i == SlotFor(Known, b)
    <3>1. i \in Idx /\ slots'[i] = [type |-> request[b], number |-> b]
      BY <1>2, <2>2, <2>5
    <3>2. i \in Live' /\ slots'[i].number = b /\ slots'[i].type # "SOURCE"
      BY <1>2, <2>5, <3>1 DEF Live
    <3> QED
      BY <3>2 DEF Waits
  <2> QED
    BY <1>1, <1>4, <2>4, <2>5 DEF Returning, Fresh, Named
<1>5. CASE gdb' # "running"
  BY <1>1, <1>5 DEF Returning, Fresh
<1> QED
  BY <1>3, <1>4, <1>5 DEF Start, ReSetAll, Stop

\* The target is closed: nothing waits, and no process is there to wait for.
LEMMA CloseKeepsReturning ==
  ASSUME BufferInv, Returning, Fresh, CloseTarget, UNCHANGED userVars,
         inferiors' = 0
  PROVE  Returning' /\ Fresh'
<1>1. /\ slots' = EmptyBuffer /\ initialized' = FALSE
      /\ UNCHANGED <<count, request>>
  BY DEF CloseTarget, FreeBuffer, userVars
<1>2. Live' = {}
  BY <1>1 DEF Live, EmptyBuffer, EmptySlot
<1> QED
  BY <1>1, <1>2 DEF Returning, Fresh

\* The steps that leave the chain, the slots, the FIFO and the requests alone.
LEMMA QuietKeepsReturning ==
  ASSUME Returning, Fresh, inferiors' > 0 => inferiors > 0,
         UNCHANGED <<chain, count, request, slots, len, initialized, sent, gdb>>
  PROVE  Returning' /\ Fresh'
BY DEF Returning, Fresh, Named, Waits, Live

\* Each step, by the lemma of its action.
LEMMA NextReturning ==
  ASSUME BufferInv, Returning, Fresh, [Next]_vars, KeepsPending
  PROVE  Returning' /\ Fresh'
<1> USE DEF agentVars, runVars, bufferVars, userVars
<1> DEFINE Goal == Returning' /\ Fresh'
<1>1. ASSUME NEW type \in Kinds, CreateBreakpoint(type) PROVE Goal
  BY <1>1, CreateKeepsReturning
<1>2. ASSUME NEW b \in Bps, DeleteBreakpoint(b) PROVE Goal
  BY <1>2, DeleteKeepsReturning
<1>3. ASSUME NEW b \in Bps, DisableBreakpoint(b) PROVE Goal
  <2>1. \A c \in Bps : sent'[c].creates = sent[c].creates
    BY <1>3, Pushing DEF DisableBreakpoint, BufferInv
  <2>2. chain \subseteq Bps
    BY DEF BufferInv, TypeOK
  <2> QED
    BY <1>3, <2>1, <2>2 DEF DisableBreakpoint, Returning, Fresh, Named, Waits,
       Live
<1>4. ASSUME NEW b \in Bps, EnableBreakpoint(b) PROVE Goal
  BY <1>4, QuietKeepsReturning DEF EnableBreakpoint
<1>5. CASE Run \/ Attach
  BY <1>5, StartKeepsReturning DEF Run, Attach
<1>6. CASE RunFails \/ Quit
  BY <1>6, CloseKeepsReturning DEF RunFails, Quit
<1>7. ASSUME NEW open \in BOOLEAN, Initialize(open) PROVE Goal
  BY <1>7, FlushKeepsReturning DEF Initialize
<1>8. CASE WaitFlush
  BY <1>8, FlushKeepsReturning DEF WaitFlush, BufferInv, TypeOK
<1>9. ASSUME NEW map \in SUBSET Bps, NewBinary(map) PROVE Goal
  BY <1>9, FlushKeepsReturning DEF NewBinary, BufferInv, TypeOK
<1>10. CASE NewBinaryFails
  BY <1>10, FlushKeepsReturning DEF NewBinaryFails, BufferInv, TypeOK
<1>11. CASE EndDebugging
  BY <1>11, QuietKeepsReturning DEF EndDebugging
<1>12. CASE InferiorExit
  <2>1. CASE inferiors = 1 /\ CloseTarget
    BY <1>12, <2>1, CloseKeepsReturning DEF InferiorExit
  <2>2. CASE UNCHANGED <<bufferVars, agentVars, sent>>
    BY <1>12, <2>2, QuietKeepsReturning DEF InferiorExit
  <2> QED
    BY <1>12, <2>1, <2>2 DEF InferiorExit
<1>13. CASE UNCHANGED vars
  BY <1>13, QuietKeepsReturning DEF vars
<1> QED
  BY <1>1, <1>2, <1>3, <1>4, <1>5, <1>6, <1>7, <1>8, <1>9, <1>10, <1>11,
     <1>12, <1>13 DEF Next

\* As long as the user deletes none while requests wait.
ReturnInv == careful => Returning /\ Fresh

\* For a user who deletes nothing while requests wait, a breakpoint on a kernel
\* that one run resolved is created in every later run as soon as hsail is
\* initialized, for any number of inferiors, slots and breakpoints.
THEOREM KernelBreakpointsAlwaysStay == MCSpec => []KernelBreakpointsStay
<1>1. MCInit => BufferInv /\ ReturnInv
  <2>1. Init => Returning /\ Fresh
    BY DEF Init, Returning, Fresh, Live, EmptyBuffer, EmptySlot
  <2> QED
    BY <2>1, InitBufferInv DEF MCInit, ReturnInv
<1>2. BufferInv /\ ReturnInv /\ [MCNext]_<<vars, careful>>
        => BufferInv' /\ ReturnInv'
  <2> SUFFICES ASSUME BufferInv, ReturnInv, [MCNext]_<<vars, careful>>
               PROVE  BufferInv' /\ ReturnInv'
    OBVIOUS
  <2>1. [Next]_vars
    BY DEF MCNext
  <2>2. careful' => careful /\ (KeepsPending \/ UNCHANGED vars)
    BY DEF MCNext
  <2>3. UNCHANGED vars => KeepsPending
    BY DEF vars, userVars, KeepsPending
  <2> QED
    BY <2>1, <2>2, <2>3, NextBufferInv, NextReturning DEF ReturnInv
<1>3. ReturnInv => KernelBreakpointsStay
  BY DEF ReturnInv, Returning, Named, KernelBreakpointsStay,
     KernelBreakpointsReturn
<1> QED
  BY <1>1, <1>2, <1>3, PTL DEF MCSpec

=============================================================================
