------------------------ MODULE HsailDebugInfoProofs ------------------------
(***************************************************************************)
(* Theorems about HsailDebugInfo: the line mappings agree with themselves  *)
(* after any rows, a source breakpoint maps back to its line, a step stops *)
(* at every breakpoint and at no address twice, and finish stops at the    *)
(* callers.                                                                *)
(***************************************************************************)
EXTENDS HsailDebugInfo, FiniteSetTheorems, WellFoundedInduction,
        TLAPS

(***************************************************************************)
(* The mapping.                                                            *)
(***************************************************************************)

\* Appending what a vector without doubles does not have.
LEMMA AppendNew ==
  ASSUME NEW S, NEW s \in Seq(S), NEW x \in S, IsInjective(s), x \notin Range(s)
  PROVE  /\ Append(s, x) \in Seq(S)
         /\ IsInjective(Append(s, x))
         /\ Range(Append(s, x)) = Range(s) \cup {x}
<1> DEFINE t == Append(s, x)
<1>1. t \in Seq(S)
  OBVIOUS
<1>2. /\ DOMAIN s = 1 .. Len(s) /\ DOMAIN t = 1 .. Len(s) + 1
      /\ Len(s) \in Nat
      /\ \A i \in 1 .. Len(s) : t[i] = s[i]
      /\ t[Len(s) + 1] = x
  OBVIOUS
<1>3. \A i \in 1 .. Len(s) : s[i] # x
  BY <1>2 DEF Range
<1>4. IsInjective(t)
  <2> HIDE DEF t
  <2> SUFFICES ASSUME NEW a \in DOMAIN t, NEW b \in DOMAIN t, t[a] = t[b]
               PROVE  a = b
    BY DEF IsInjective
  <2>1. CASE a \in 1 .. Len(s) /\ b \in 1 .. Len(s)
    BY <2>1, <1>2 DEF IsInjective
  <2>2. CASE a = Len(s) + 1 \/ b = Len(s) + 1
    BY <2>2, <1>2, <1>3
  <2>3. QED
    BY <2>1, <2>2, <1>2
<1>5. Range(t) = Range(s) \cup {x}
  <2> HIDE DEF t
  <2>1. \A y \in Range(t) : y \in Range(s) \cup {x}
    BY <1>2 DEF Range
  <2>2. \A y \in Range(s) : y \in Range(t)
    BY <1>2 DEF Range
  <2>3. x \in Range(t)
    <3>1. Len(s) + 1 \in DOMAIN t
      BY <1>2
    <3>2. QED
      BY <3>1, <1>2 DEF Range
  <2>4. QED
    BY <2>1, <2>2, <2>3
<1>6. QED
  BY <1>1, <1>4, <1>5

\* What the vector of a line holds.
LEMMA AddressesOfFacts ==
  ASSUME NEW A, NEW L, NEW m, IsMapping(m, A, L), Agrees(m), NEW line
  PROVE  /\ AddressesOf(m, line) \in Seq(A)
         /\ IsInjective(AddressesOf(m, line))
         /\ Range(AddressesOf(m, line))
              = {a \in DOMAIN m.addrToLine : m.addrToLine[a] = line}
<1>1. CASE line \in DOMAIN m.lineToAddr
  BY <1>1 DEF AddressesOf, IsMapping, Agrees
<1>2. CASE line \notin DOMAIN m.lineToAddr
  <2>1. AddressesOf(m, line) = <<>>
    BY <1>2 DEF AddressesOf
  <2>2. \A a \in DOMAIN m.addrToLine : m.addrToLine[a] # line
    <3> SUFFICES ASSUME NEW a \in DOMAIN m.addrToLine, m.addrToLine[a] = line
                 PROVE  FALSE
      OBVIOUS
    <3> QED
      BY <1>2 DEF Agrees, Range
  <2>3. QED
    BY <2>1, <2>2 DEF IsInjective, Range
<1>3. QED
  BY <1>1, <1>2

\* A new address leaves a mapping a mapping.
LEMMA MapAddressTypes ==
  ASSUME NEW A, NEW L, NEW m, IsMapping(m, A, L), Agrees(m),
         NEW line \in L, NEW addr \in A
  PROVE  IsMapping(MapAddress(m, line, addr), A, L)
<1> DEFINE n == MapAddress(m, line, addr)
           v == Append(AddressesOf(m, line), addr)
<1>1. /\ n.addrToLine = Put(m.addrToLine, addr, line)
      /\ n.lineToAddr = Put(m.lineToAddr, line, v)
      /\ n.mappedAddrs = Append(m.mappedAddrs, addr)
      /\ n.mappedFirstAddrs \in {Append(m.mappedFirstAddrs, addr),
                                 m.mappedFirstAddrs}
      /\ n.mappedLines \in {Append(m.mappedLines, line), m.mappedLines}
  BY DEF MapAddress
<1>2. v \in Seq(A)
  BY AddressesOfFacts
<1> HIDE DEF n, v
<1>2a. /\ DOMAIN n.addrToLine = DOMAIN m.addrToLine \cup {addr}
       /\ n.addrToLine[addr] = line
       /\ \A a \in DOMAIN m.addrToLine \ {addr} :
            n.addrToLine[a] = m.addrToLine[a]
       /\ n.addrToLine = [a \in DOMAIN n.addrToLine |-> n.addrToLine[a]]
  BY <1>1 DEF Put
<1>2b. /\ DOMAIN n.lineToAddr = DOMAIN m.lineToAddr \cup {line}
       /\ n.lineToAddr[line] = v
       /\ \A l \in DOMAIN m.lineToAddr \ {line} :
            n.lineToAddr[l] = m.lineToAddr[l]
  BY <1>1 DEF Put
<1>3. DOMAIN n.addrToLine \subseteq A /\ DOMAIN n.lineToAddr \subseteq L
  BY <1>1, <1>2a, <1>2b DEF IsMapping
<1>4. n.addrToLine \in [DOMAIN n.addrToLine -> L]
  <2>1. \A a \in DOMAIN n.addrToLine : n.addrToLine[a] \in L
    BY <1>1, <1>2a, <1>2b DEF IsMapping
  <2>2. n.addrToLine = [a \in DOMAIN n.addrToLine |-> n.addrToLine[a]]
    BY <1>1 DEF Put
  <2>3. QED
    BY <2>1, <2>2
<1>5. \A l \in DOMAIN n.lineToAddr : n.lineToAddr[l] \in Seq(A)
  BY <1>1, <1>2, <1>2a, <1>2b DEF IsMapping
<1>6. /\ n.mappedAddrs \in Seq(A) /\ n.mappedFirstAddrs \in Seq(A)
      /\ n.mappedLines \in Seq(L)
  <2>1. /\ m.mappedAddrs \in Seq(A) /\ m.mappedFirstAddrs \in Seq(A)
        /\ m.mappedLines \in Seq(L)
    BY DEF IsMapping
  <2>2. /\ Append(m.mappedAddrs, addr) \in Seq(A)
        /\ Append(m.mappedFirstAddrs, addr) \in Seq(A)
        /\ Append(m.mappedLines, line) \in Seq(L)
    BY <2>1
  <2>3. QED
    BY <1>1, <2>1, <2>2
<1>7. QED
  BY <1>3, <1>4, <1>5, <1>6 DEF IsMapping, n

\* A new address leaves a mapping in agreement with itself.
LEMMA MapAddressAgrees ==
  ASSUME NEW A, NEW L, NEW m, IsMapping(m, A, L), Agrees(m),
         NEW line \in L, NEW addr \in A, addr \notin DOMAIN m.addrToLine
  PROVE  Agrees(MapAddress(m, line, addr))
<1> DEFINE n == MapAddress(m, line, addr)
           w == AddressesOf(m, line)
           v == Append(w, addr)
           isNew == line \notin DOMAIN m.lineToAddr
<1>1. /\ n.addrToLine = Put(m.addrToLine, addr, line)
      /\ n.lineToAddr = Put(m.lineToAddr, line, v)
      /\ n.mappedAddrs = Append(m.mappedAddrs, addr)
      /\ isNew => /\ n.mappedFirstAddrs = Append(m.mappedFirstAddrs, addr)
                  /\ n.mappedLines = Append(m.mappedLines, line)
      /\ ~isNew => /\ n.mappedFirstAddrs = m.mappedFirstAddrs
                   /\ n.mappedLines = m.mappedLines
  BY DEF MapAddress
<1>2. /\ w \in Seq(A) /\ IsInjective(w)
      /\ Range(w) = {a \in DOMAIN m.addrToLine : m.addrToLine[a] = line}
      /\ isNew => w = <<>>
      /\ ~isNew => w = m.lineToAddr[line]
  BY AddressesOfFacts DEF AddressesOf
<1> HIDE DEF n, w
<1>3. /\ v \in Seq(A) /\ IsInjective(v)
      /\ Range(v) = Range(w) \cup {addr}
  BY <1>2, AppendNew
<1>4. /\ isNew => v[1] = addr
      /\ w # <<>> => v[1] = w[1]
  BY <1>2
<1> HIDE DEF v
<1>4a. /\ DOMAIN n.addrToLine = DOMAIN m.addrToLine \cup {addr}
       /\ n.addrToLine[addr] = line
       /\ \A a \in DOMAIN m.addrToLine \ {addr} :
            n.addrToLine[a] = m.addrToLine[a]
       /\ n.addrToLine = [a \in DOMAIN n.addrToLine |-> n.addrToLine[a]]
  BY <1>1 DEF Put
<1>4b. /\ DOMAIN n.lineToAddr = DOMAIN m.lineToAddr \cup {line}
       /\ n.lineToAddr[line] = v
       /\ \A l \in DOMAIN m.lineToAddr \ {line} :
            n.lineToAddr[l] = m.lineToAddr[l]
  BY <1>1 DEF Put
<1>5. IsInjective(n.mappedAddrs) /\ Range(n.mappedAddrs) = DOMAIN n.addrToLine
  <2>1. addr \notin Range(m.mappedAddrs)
    BY DEF Agrees
  <2>2. QED
    BY <2>1, <1>1, AppendNew, <1>4a, <1>4b DEF Agrees, IsMapping
<1>6. IsInjective(n.mappedLines) /\ Range(n.mappedLines) = DOMAIN n.lineToAddr
  <2>1. CASE isNew
    <3>1. line \notin Range(m.mappedLines)
      BY <2>1 DEF Agrees
    <3>2. /\ m.mappedLines \in Seq(L) /\ IsInjective(m.mappedLines)
          /\ Range(m.mappedLines) = DOMAIN m.lineToAddr
      BY DEF Agrees, IsMapping
    <3>3. /\ IsInjective(Append(m.mappedLines, line))
          /\ Range(Append(m.mappedLines, line))
               = Range(m.mappedLines) \cup {line}
      BY <3>1, <3>2, AppendNew
    <3>4. QED
      BY <3>2, <3>3, <2>1, <1>1, <1>4b
  <2>2. CASE ~isNew
    BY <2>2, <1>1, <1>4a, <1>4b DEF Agrees
  <2>3. QED
    BY <2>1, <2>2
<1>7. Range(n.addrToLine) = DOMAIN n.lineToAddr
  <2>1. \A a \in DOMAIN m.addrToLine : n.addrToLine[a] = m.addrToLine[a]
    BY <1>1, <1>4a, <1>4b
  <2>2. /\ DOMAIN n.addrToLine = DOMAIN m.addrToLine \cup {addr}
        /\ n.addrToLine[addr] = line
        /\ DOMAIN n.lineToAddr = DOMAIN m.lineToAddr \cup {line}
    BY <1>1, <1>4a, <1>4b
  <2>3. Range(n.addrToLine) = Range(m.addrToLine) \cup {line}
    BY <2>1, <2>2 DEF Range
  <2>4. QED
    BY <2>2, <2>3 DEF Agrees
<1>8. ASSUME NEW l \in DOMAIN n.lineToAddr
      PROVE  /\ IsInjective(n.lineToAddr[l])
             /\ Range(n.lineToAddr[l])
                  = {a \in DOMAIN n.addrToLine : n.addrToLine[a] = l}
  <2>1. CASE l = line
    <3>1. n.lineToAddr[l] = v
      BY <2>1, <1>1, <1>4a, <1>4b
    <3>2. {a \in DOMAIN n.addrToLine : n.addrToLine[a] = l}
            = {a \in DOMAIN m.addrToLine : m.addrToLine[a] = line} \cup {addr}
      <4>1. \A a \in DOMAIN m.addrToLine : n.addrToLine[a] = m.addrToLine[a]
        BY <1>4a
      <4>2. DOMAIN n.addrToLine = DOMAIN m.addrToLine \cup {addr}
            /\ n.addrToLine[addr] = line
        BY <1>4a
      <4>3. QED
        BY <2>1, <4>1, <4>2
    <3>3. QED
      BY <3>1, <3>2, <1>2, <1>3
  <2>2. CASE l # line
    <3>1. l \in DOMAIN m.lineToAddr /\ n.lineToAddr[l] = m.lineToAddr[l]
      BY <2>2, <1>1, <1>4a, <1>4b
    <3>2. {a \in DOMAIN n.addrToLine : n.addrToLine[a] = l}
            = {a \in DOMAIN m.addrToLine : m.addrToLine[a] = l}
      BY <2>2, <1>1, <1>4a, <1>4b
    <3>3. QED
      BY <3>1, <3>2 DEF Agrees
  <2>3. QED
    BY <2>1, <2>2
<1>9. n.mappedFirstAddrs
        = [i \in DOMAIN n.mappedLines |-> n.lineToAddr[n.mappedLines[i]][1]]
  <2>1. ASSUME NEW l \in DOMAIN m.lineToAddr
        PROVE  n.lineToAddr[l][1] = m.lineToAddr[l][1]
    <3>1. CASE l # line
      BY <3>1, <1>1, <1>4a, <1>4b
    <3>2. CASE l = line
      <4>1. w # <<>>
        <5>1. PICK a \in DOMAIN m.addrToLine : m.addrToLine[a] = line
          BY <3>2 DEF Agrees, Range
        <5>2. a \in Range(w)
          BY <5>1, <1>2
        <5>3. QED
          BY <5>2 DEF Range
      <4>2. n.lineToAddr[l] = v /\ w = m.lineToAddr[l]
        BY <3>2, <1>1, <1>2, <1>4a, <1>4b
      <4>3. QED
        BY <4>1, <4>2, <1>4
    <3>3. QED
      BY <3>1, <3>2
  <2>2. \A i \in DOMAIN m.mappedLines : m.mappedLines[i] \in DOMAIN m.lineToAddr
    BY DEF Agrees, Range
  <2>3. CASE ~isNew
    <3>1. /\ n.mappedFirstAddrs = m.mappedFirstAddrs
          /\ n.mappedLines = m.mappedLines
      BY <2>3, <1>1
    <3>2. m.mappedFirstAddrs
            = [i \in DOMAIN m.mappedLines |-> m.lineToAddr[m.mappedLines[i]][1]]
      BY DEF Agrees
    <3>3. QED
      BY <3>1, <3>2, <2>1, <2>2
  <2>4. CASE isNew
    <3> DEFINE k == Len(m.mappedLines)
               e == [i \in DOMAIN n.mappedLines |->
                       n.lineToAddr[n.mappedLines[i]][1]]
    <3>1. /\ m.mappedLines \in Seq(L) /\ m.mappedFirstAddrs \in Seq(A)
      BY DEF IsMapping
    <3>2. /\ m.mappedFirstAddrs
               = [i \in DOMAIN m.mappedLines |->
                    m.lineToAddr[m.mappedLines[i]][1]]
          /\ DOMAIN m.mappedFirstAddrs = DOMAIN m.mappedLines
      BY DEF Agrees
    <3>3. k \in Nat /\ DOMAIN m.mappedLines = 1 .. k
          /\ Len(m.mappedFirstAddrs) = k
      BY <3>1, <3>2
    <3>4. /\ n.mappedFirstAddrs = Append(m.mappedFirstAddrs, addr)
          /\ n.mappedLines = Append(m.mappedLines, line)
      BY <2>4, <1>1
    <3>5. /\ DOMAIN n.mappedLines = 1 .. k + 1
          /\ \A i \in 1 .. k : n.mappedLines[i] = m.mappedLines[i]
          /\ n.mappedLines[k + 1] = line
      BY <3>1, <3>3, <3>4
    <3>6. /\ DOMAIN n.mappedFirstAddrs = 1 .. k + 1
          /\ \A i \in 1 .. k : n.mappedFirstAddrs[i] = m.mappedFirstAddrs[i]
          /\ n.mappedFirstAddrs[k + 1] = addr
          /\ n.mappedFirstAddrs = [i \in 1 .. k + 1 |-> n.mappedFirstAddrs[i]]
      BY <3>1, <3>3, <3>4
    <3> HIDE DEF k
    <3>7. \A i \in 1 .. k : n.mappedFirstAddrs[i] = e[i]
      <4> SUFFICES ASSUME NEW i \in 1 .. k
                   PROVE  n.mappedFirstAddrs[i] = e[i]
        OBVIOUS
      <4>1. i \in DOMAIN n.mappedLines
        BY <3>3, <3>5
      <4>2. e[i] = n.lineToAddr[m.mappedLines[i]][1]
        BY <4>1, <3>5
      <4>3. n.mappedFirstAddrs[i] = m.lineToAddr[m.mappedLines[i]][1]
        BY <3>2, <3>3, <3>6
      <4>4. QED
        BY <4>2, <4>3, <2>1, <2>2, <3>3
    <3>8. n.mappedFirstAddrs[k + 1] = e[k + 1]
      <4>1. k + 1 \in DOMAIN n.mappedLines
        BY <3>3, <3>5
      <4>2. n.lineToAddr[line] = v
        BY <1>1, <1>4a, <1>4b
      <4>3. QED
        BY <4>1, <4>2, <3>5, <3>6, <2>4, <1>4
    <3>9. \A i \in 1 .. k + 1 : n.mappedFirstAddrs[i] = e[i]
      BY <3>7, <3>8, <3>3
    <3>10. e = [i \in 1 .. k + 1 |-> e[i]]
      BY <3>5
    <3>11. QED
      BY <3>6, <3>9, <3>10
  <2>5. QED
    BY <2>3, <2>4
<1>10. QED
  BY <1>5, <1>6, <1>7, <1>8, <1>9 DEF Agrees, n

\* The same of any row.
LEMMA AddLineMappingFacts ==
  ASSUME NEW A, NEW L, NEW m, IsMapping(m, A, L), Agrees(m),
         NEW line \in L, NEW addr \in A
  PROVE  /\ IsMapping(AddLineMapping(m, line, addr), A, L)
         /\ Agrees(AddLineMapping(m, line, addr))
BY MapAddressTypes, MapAddressAgrees DEF AddLineMapping

LEMMA EmptyMappingFacts ==
  ASSUME NEW A, NEW L
  PROVE  IsMapping(EmptyMapping, A, L) /\ Agrees(EmptyMapping)
BY DEF EmptyMapping, IsMapping, Agrees, IsInjective, Range

(***************************************************************************)
(* The searches.                                                           *)
(***************************************************************************)

\* A set of numbers has a least.
LEMMA MinOfNats ==
  ASSUME NEW S \in SUBSET Nat, S # {}
  PROVE  Min(S) \in S /\ \A y \in S : Min(S) <= y
<1>1. PICK x \in S : \A y \in S : ~(<<y, x>> \in OpToRel(<, Nat))
  BY NatLessThanWellFounded, WFMin
<1>2. \A y \in S : x <= y
  <2> SUFFICES ASSUME NEW y \in S, ~(x <= y) PROVE FALSE
    OBVIOUS
  <2>1. x \in Nat /\ y \in Nat /\ y < x
    OBVIOUS
  <2>2. <<y, x>> \in OpToRel(<, Nat)
    BY <2>1 DEF OpToRel
  <2>3. QED
    BY <2>2, <1>1
<1>3. QED
  BY <1>2 DEF Min

\* The least of a set of numbers with a known least.
LEMMA MinIs ==
  ASSUME NEW S \in SUBSET Nat, NEW x \in S, \A y \in S : x <= y
  PROVE  Min(S) = x
<1>1. Min(S) \in S /\ \A y \in S : Min(S) <= y
  BY MinOfNats
<1>2. Min(S) \in Nat /\ x \in Nat /\ Min(S) <= x /\ x <= Min(S)
  BY <1>1
<1>3. QED
  BY <1>2

\* The domain of a window, and what it begins with.
LEMMA WindowFacts ==
  ASSUME NEW x \in Nat, NEW ahead \in Nat \ {0}, NEW back \in Nat
  PROVE  /\ DOMAIN Window(x, ahead, back) \subseteq Nat \ {0}
         /\ 1 \in DOMAIN Window(x, ahead, back)
         /\ Window(x, ahead, back)[1] = x
<1> DEFINE a == [i \in 1 .. ahead |-> x + i - 1]
           b == [i \in 1 .. back - 1 |-> IF x > i THEN x - i ELSE 0]
           n == IF back = 0 THEN 0 ELSE back - 1
<1>1. a \in Seq(Nat) /\ Len(a) = ahead /\ a[1] = x
  OBVIOUS
<1>2. n \in Nat /\ 1 .. back - 1 = 1 .. n
  OBVIOUS
<1>3. \A i \in 1 .. n : b[i] \in Nat
  BY <1>2
<1>4. b \in Seq(Nat)
  <2>1. b = [i \in 1 .. n |-> IF x > i THEN x - i ELSE 0]
    BY <1>2
  <2>2. QED
    BY <2>1, <1>2
<1> HIDE DEF a, b, n
<1>5. /\ a \o b \in Seq(Nat) /\ Len(a \o b) = ahead + Len(b)
      /\ (a \o b)[1] = x
  BY <1>1, <1>4
<1>6. DOMAIN (a \o b) = 1 .. ahead + Len(b) /\ Len(b) \in Nat
  BY <1>4, <1>5
<1>7. Window(x, ahead, back) = a \o b
  BY DEF Window, a, b
<1>8. QED
  BY <1>5, <1>6, <1>7

\* The first place of a window that begins with a mapped one is that one; and
\* what is found is mapped.
LEMMA FirstMappedFacts ==
  ASSUME NEW x \in Nat, NEW ahead \in Nat \ {0}, NEW back \in Nat, NEW mapped
  PROVE  LET found == FirstMapped(Window(x, ahead, back), mapped)
         IN /\ x \in mapped => found = x
            /\ found = NotFound \/ found \in mapped
<1> DEFINE w == Window(x, ahead, back)
           hits == {i \in DOMAIN w : w[i] \in mapped}
<1>1. DOMAIN w \subseteq Nat \ {0} /\ 1 \in DOMAIN w /\ w[1] = x
  BY WindowFacts
<1>2. FirstMapped(w, mapped) = IF hits = {} THEN NotFound ELSE w[Min(hits)]
  BY DEF FirstMapped
<1> HIDE DEF w
<1>3. ASSUME x \in mapped PROVE FirstMapped(w, mapped) = x
  <2>1. hits \in SUBSET Nat /\ 1 \in hits /\ \A i \in hits : 1 <= i
    BY <1>1, <1>3
  <2>2. Min(hits) = 1
    BY <2>1, MinIs
  <2>3. QED
    BY <2>1, <2>2, <1>1, <1>2
<1>4. FirstMapped(w, mapped) = NotFound \/ FirstMapped(w, mapped) \in mapped
  <2>1. CASE hits = {}
    BY <2>1, <1>2
  <2>2. CASE hits # {}
    <3>1. hits \in SUBSET Nat
      BY <1>1
    <3>2. Min(hits) \in hits
      BY <3>1, <2>2, MinOfNats
    <3>3. QED
      BY <3>2, <2>2, <1>2
  <2>3. QED
    BY <2>1, <2>2
<1>5. QED
  BY <1>3, <1>4 DEF w

\* A mapped address is reported at its own line.
LEMMA LineOfMapped ==
  ASSUME NEW L, NEW m, NEW addr \in DOMAIN m.addrToLine, addr \in Nat
  PROVE  GetLineFromAddress(m, addr) = m.addrToLine[addr]
<1>1. GetNearestMappedAddress(m, addr) = addr
  BY FirstMappedFacts, WindowAssumption DEF GetNearestMappedAddress
<1>2. addr # NotFound
  BY DEF NotFound
<1>3. QED
  BY <1>1, <1>2 DEF GetLineFromAddress, Resolved

\* A mapped line has its own addresses.
LEMMA AddressesOfMapped ==
  ASSUME NEW m, NEW line \in DOMAIN m.lineToAddr, line \in Nat
  PROVE  GetAddressesFromLine(m, line) = m.lineToAddr[line]
<1>1. GetNearestMappedLine(m, line) = line
  BY FirstMappedFacts, WindowAssumption DEF GetNearestMappedLine
<1>2. QED
  BY <1>1 DEF GetAddressesFromLine, Resolved, AddressesOf

\* The concatenation of two.
LEMMA ConcatFacts ==
  ASSUME NEW A, NEW a \in Seq(A), NEW b \in Seq(A)
  PROVE  /\ a \o b \in Seq(A)
         /\ Range(a \o b) = Range(a) \cup Range(b)
         /\ IsInjective(a) /\ IsInjective(b) /\ Range(a) \cap Range(b) = {}
              => IsInjective(a \o b)
<1> DEFINE c == a \o b
           m == Len(a)
           n == Len(b)
<1>1. /\ c \in Seq(A) /\ DOMAIN c = 1 .. m + n
      /\ DOMAIN a = 1 .. m /\ DOMAIN b = 1 .. n
      /\ m \in Nat /\ n \in Nat
      /\ \A i \in 1 .. m + n : c[i] = IF i <= m THEN a[i] ELSE b[i - m]
  OBVIOUS
<1> HIDE DEF c, m, n
<1>2. /\ \A i \in DOMAIN a : i \in DOMAIN c /\ c[i] = a[i]
      /\ \A i \in DOMAIN b : i + m \in DOMAIN c /\ c[i + m] = b[i]
      /\ \A i \in DOMAIN c : \/ i \in DOMAIN a
                             \/ i - m \in DOMAIN b /\ c[i] = b[i - m]
  BY <1>1
<1>3. Range(c) = Range(a) \cup Range(b)
  <2>1. \A x \in Range(c) : x \in Range(a) \cup Range(b)
    BY <1>2 DEF Range
  <2>2. \A x \in Range(a) : x \in Range(c)
    BY <1>2 DEF Range
  <2>3. \A x \in Range(b) : x \in Range(c)
    BY <1>2 DEF Range
  <2>4. QED
    BY <2>1, <2>2, <2>3
<1>4. ASSUME IsInjective(a), IsInjective(b), Range(a) \cap Range(b) = {}
      PROVE  IsInjective(c)
  <2> SUFFICES ASSUME NEW i \in DOMAIN c, NEW j \in DOMAIN c, c[i] = c[j]
               PROVE  i = j
    BY DEF IsInjective
  <2>0. i \in Int /\ j \in Int /\ m \in Int
    BY <1>1
  <2>1. CASE i \in DOMAIN a /\ j \in DOMAIN a
    BY <2>1, <1>2, <1>4 DEF IsInjective
  <2>2. CASE /\ i - m \in DOMAIN b /\ c[i] = b[i - m]
             /\ j - m \in DOMAIN b /\ c[j] = b[j - m]
    <3>1. i - m = j - m
      BY <2>2, <1>4, Zenon DEF IsInjective
    <3>2. QED
      BY <3>1, <2>0
  <2>3. ASSUME NEW x \in DOMAIN a, NEW y \in DOMAIN b, a[x] = b[y]
        PROVE  FALSE
    BY <1>4, <2>3 DEF Range
  <2>4. QED
    BY <2>1, <2>2, <2>3, <1>2
<1>5. QED
  BY <1>1, <1>3, <1>4 DEF c

(***************************************************************************)
(* What the recursive definitions compute.  Each is a function that solves *)
(* an equation; a solution for one more argument is the equation applied   *)
(* to a solution for the arguments before it.                              *)
(***************************************************************************)

\* f is what FlattenSeq builds for the first k sequences.
Flattens(f, seqs, k) ==
  f = [i \in 1 .. k |-> IF i = 1 THEN seqs[i] ELSE f[i - 1] \o seqs[i]]

LEMMA FlattenIsDefined ==
  ASSUME NEW seqs, NEW n \in Nat
  PROVE  \E f : Flattens(f, seqs, n)
<1> DEFINE Bad == {k \in Nat : ~\E f : Flattens(f, seqs, k)}
<1> SUFFICES ASSUME Bad # {} PROVE FALSE
  OBVIOUS
<1>1. PICK k \in Bad : \A j \in Bad : k <= j
  BY MinOfNats
<1>2. k # 0
  <2>1. Flattens([i \in 1 .. 0 |-> 0], seqs, 0)
    BY DEF Flattens
  <2>2. QED
    BY <2>1
<1>3. k \in Nat /\ k - 1 \in Nat /\ k - 1 \notin Bad
  BY <1>1, <1>2
<1>4. PICK f : Flattens(f, seqs, k - 1)
  BY <1>3
<1> DEFINE g == [i \in 1 .. k |-> IF i = 1 THEN seqs[i]
                                  ELSE f[i - 1] \o seqs[i]]
<1>5. \A i \in 1 .. k - 1 : g[i] = f[i]
  <2>1. \A i \in 1 .. k - 1 :
          f[i] = IF i = 1 THEN seqs[i] ELSE f[i - 1] \o seqs[i]
    BY <1>4, Zenon DEF Flattens
  <2>2. QED
    BY <2>1, <1>3
<1>6. Flattens(g, seqs, k)
  <2>1. \A i \in 1 .. k : i # 1 => i - 1 \in 1 .. k - 1
    BY <1>3
  <2>2. \A i \in 1 .. k :
          g[i] = IF i = 1 THEN seqs[i] ELSE g[i - 1] \o seqs[i]
    BY <2>1, <1>5
  <2>3. QED
    BY <2>2, Zenon DEF Flattens
<1>7. QED
  BY <1>1, <1>6

\* The concatenation of some sequences has the members of all of them, each
\* once if it is once in one of them and in no other.
LEMMA FlattenFacts ==
  ASSUME NEW A, NEW seqs \in Seq(Seq(A))
  PROVE  /\ FlattenSeq(seqs) \in Seq(A)
         /\ \A x : x \in Range(FlattenSeq(seqs))
                     <=> \E i \in DOMAIN seqs : x \in Range(seqs[i])
         /\ (/\ \A i \in DOMAIN seqs : IsInjective(seqs[i])
             /\ \A i, j \in DOMAIN seqs :
                  i # j => Range(seqs[i]) \cap Range(seqs[j]) = {})
              => IsInjective(FlattenSeq(seqs))
<1> DEFINE n == Len(seqs)
<1>0. n \in Nat /\ DOMAIN seqs = 1 .. n
  OBVIOUS
<1>1. CASE n = 0
  <2>1. FlattenSeq(seqs) = seqs /\ seqs = <<>>
    BY <1>1 DEF FlattenSeq
  <2>2. QED
    BY <2>1 DEF Range, IsInjective
<1>2. CASE n # 0
  <2> DEFINE f == CHOOSE g : Flattens(g, seqs, n)
             Disjoint(k) == /\ \A i \in 1 .. k : IsInjective(seqs[i])
                         /\ \A i, j \in 1 .. k :
                              i # j => Range(seqs[i]) \cap Range(seqs[j]) = {}
             Good(k) == /\ f[k] \in Seq(A)
                        /\ \A x : x \in Range(f[k])
                                    <=> \E i \in 1 .. k : x \in Range(seqs[i])
                        /\ Disjoint(k) => IsInjective(f[k])
             Bad == {k \in 1 .. n : ~Good(k)}
  <2>1. FlattenSeq(seqs) = f[n]
    BY <1>2 DEF FlattenSeq, Flattens
  <2>2. Flattens(f, seqs, n)
    BY FlattenIsDefined, <1>0
  <2>3. \A i \in 1 .. n :
          f[i] = IF i = 1 THEN seqs[i] ELSE f[i - 1] \o seqs[i]
    <3> HIDE DEF f
    <3>1. QED
      BY <2>2, Zenon DEF Flattens
  <2> HIDE DEF f
  <2>4. Bad = {}
    <3> SUFFICES ASSUME Bad # {} PROVE FALSE
      OBVIOUS
    <3>1. PICK k \in Bad : \A j \in Bad : k <= j
      <4>1. Bad \in SUBSET Nat
        BY <1>0
      <4> HIDE DEF Bad
      <4>2. Min(Bad) \in Bad /\ \A j \in Bad : Min(Bad) <= j
        BY <4>1, MinOfNats
      <4>3. QED
        BY <4>2
    <3>2. k \in 1 .. n /\ k \in Nat /\ k >= 1 /\ ~Good(k) /\ seqs[k] \in Seq(A)
      <4>1. k \in 1 .. n /\ ~Good(k)
        OBVIOUS
      <4>2. seqs[k] \in Seq(A)
        BY <4>1, <1>0
      <4> HIDE DEF Good
      <4>3. QED
        BY <4>1, <4>2, <1>0
    <3>3. k # 1
      <4> SUFFICES ASSUME k = 1 PROVE Good(k)
        BY <3>2
      <4>1. f[1] = seqs[1] /\ 1 .. 1 = {1} /\ 1 \in 1 .. n
        BY <2>3, <3>2
      <4>2. QED
        BY <4>1, <3>2
    <3>4. k - 1 \in 1 .. n /\ Good(k - 1)
      <4> HIDE DEF Good
      <4>1. k - 1 \in 1 .. n /\ ~(k <= k - 1)
        BY <3>2, <3>3, <1>0
      <4>2. k - 1 \notin Bad
        BY <3>1, <4>1
      <4>3. QED
        BY <4>1, <4>2
    <3>5. f[k] = f[k - 1] \o seqs[k]
      BY <2>3, <3>2, <3>3
    <3>6. 1 .. k = 1 .. (k - 1) \cup {k} /\ k \notin 1 .. (k - 1)
      BY <3>2, <3>3
    <3> DEFINE a == f[k - 1]
               b == seqs[k]
    <3>7. a \in Seq(A) /\ b \in Seq(A) /\ f[k] = a \o b
      BY <3>2, <3>4, <3>5
    <3>8. Disjoint(k) => /\ IsInjective(a) /\ IsInjective(b)
                         /\ Range(a) \cap Range(b) = {}
      <4> SUFFICES ASSUME Disjoint(k)
                   PROVE  IsInjective(a) /\ IsInjective(b)
                            /\ Range(a) \cap Range(b) = {}
        OBVIOUS
      <4>1. Disjoint(k - 1)
        BY <3>6
      <4>2. IsInjective(a) /\ IsInjective(b)
        BY <3>4, <4>1, <3>6
      <4>3. ASSUME NEW x \in Range(a) \cap Range(b) PROVE FALSE
        <5>1. PICK i \in 1 .. k - 1 : x \in Range(seqs[i])
          BY <3>4
        <5>2. i # k /\ i \in 1 .. k /\ k \in 1 .. k
          BY <3>6
        <5>3. QED
          BY <5>1, <5>2
      <4>4. QED
        BY <4>2, <4>3
    <3>9. \A x : x \in Range(a) <=> \E i \in 1 .. k - 1 : x \in Range(seqs[i])
      BY <3>4
    <3> HIDE DEF a, b
    <3>10. f[k] \in Seq(A) /\ Range(f[k]) = Range(a) \cup Range(b)
      BY <3>7, ConcatFacts
    <3>11. Disjoint(k) => IsInjective(f[k])
      <4> HIDE DEF Disjoint
      <4>1. QED
        BY <3>7, <3>8, ConcatFacts
    <3>12. \A x : x \in Range(f[k])
                    <=> \E i \in 1 .. k : x \in Range(seqs[i])
      BY <3>6, <3>9, <3>10, Zenon DEF b
    <3>13. QED
      BY <3>2, <3>10, <3>11, <3>12
  <2>5. Good(n)
    <3> HIDE DEF Good
    <3>1. n \in 1 .. n
      BY <1>0, <1>2
    <3>2. QED
      BY <2>4, <3>1
  <2>6. QED
    BY <2>1, <2>5, <1>0, Zenon
<1>3. QED
  BY <1>1, <1>2

\* The members of a set of numbers in ascending order, each once.
LEMMA AscendingFacts ==
  ASSUME NEW S \in SUBSET Nat, IsFiniteSet(S)
  PROVE  /\ Ascending(S) \in Seq(S)
         /\ IsInjective(Ascending(S))
         /\ Range(Ascending(S)) = S
<1> DEFINE Ordered(s) == \A i, j \in DOMAIN s : i < j => s[i] < s[j]
           Can(T) == \E s \in [1 .. Cardinality(T) -> T] : Ordered(s)
           Small(k) == {T \in SUBSET Nat : IsFiniteSet(T) /\ Cardinality(T) = k}
           Bad == {k \in Nat : \E T \in Small(k) : ~Can(T)}
<1>1. Bad = {}
  <2> SUFFICES ASSUME Bad # {} PROVE FALSE
    OBVIOUS
  <2>1. PICK k \in Bad : \A j \in Bad : k <= j
    <3> HIDE DEF Can
    <3>1. Bad \in SUBSET Nat
      OBVIOUS
    <3>2. QED
      BY <3>1, MinOfNats
  <2>2. PICK T \in Small(k) : ~Can(T)
    BY <2>1
  <2>3. /\ T \in SUBSET Nat /\ IsFiniteSet(T) /\ Cardinality(T) = k /\ k \in Nat
    <3> HIDE DEF Can
    <3>1. QED
      BY <2>2
  <2>4. k # 0
    <3> SUFFICES ASSUME k = 0 PROVE Can(T)
      BY <2>2
    <3>1. T = {}
      BY <2>3, FS_EmptySet
    <3>2. <<>> \in [1 .. 0 -> T] /\ Ordered(<<>>)
      OBVIOUS
    <3>3. QED
      BY <2>3, <3>2
  <2>5. T # {}
    BY <2>3, <2>4, FS_EmptySet
  <2> DEFINE m == Min(T)
             U == T \ {m}
  <2>6. m \in T /\ \A x \in T : m <= x
    BY <2>3, <2>5, MinOfNats
  <2>7. IsFiniteSet(U) /\ Cardinality(U) = k - 1 /\ U \in SUBSET Nat
    BY <2>3, <2>6, FS_RemoveElement
  <2> HIDE DEF m, U
  <2>8. k - 1 \in Nat /\ k - 1 \notin Bad
    <3> HIDE DEF Bad
    <3>1. k - 1 \in Nat /\ ~(k <= k - 1)
      BY <2>3, <2>4
    <3>2. QED
      BY <2>1, <3>1
  <2>9. Can(U)
    <3>1. U \in Small(k - 1)
      BY <2>7
    <3> HIDE DEF Can, Small
    <3>2. QED
      BY <2>8, <3>1
  <2>10. PICK u \in [1 .. k - 1 -> U] : Ordered(u)
    BY <2>7, <2>9
  <2> DEFINE s == [i \in 1 .. k |-> IF i = 1 THEN m ELSE u[i - 1]]
  <2>11. \A i \in 1 .. k : i # 1 => i - 1 \in 1 .. k - 1
    BY <2>3
  <2>12. \A i \in 1 .. k : i # 1 => s[i] \in U
    BY <2>10, <2>11
  <2>13. s[1] = m /\ \A x \in U : m < x
    <3>1. s[1] = m
      BY <2>3, <2>4
    <3>2. \A x \in U : m <= x /\ x # m /\ x \in Nat /\ m \in Nat
      BY <2>6, <2>3 DEF U
    <3>3. QED
      BY <3>1, <3>2
  <2>14. s \in [1 .. k -> T]
    BY <2>6, <2>12 DEF U
  <2>15. ASSUME NEW i \in 1 .. k, NEW j \in 1 .. k, i < j
         PROVE  s[i] < s[j]
    <3>1. j # 1
      BY <2>15, <2>3
    <3>2. CASE i = 1
      BY <3>1, <3>2, <2>12, <2>13
    <3>3. CASE i # 1
      <4>1. i - 1 \in 1 .. k - 1 /\ j - 1 \in 1 .. k - 1 /\ i - 1 < j - 1
        BY <3>1, <3>3, <2>11, <2>15, <2>3
      <4>2. u[i - 1] < u[j - 1]
        BY <4>1, <2>10
      <4>3. QED
        BY <4>2, <3>1, <3>3
    <3>4. QED
      BY <3>2, <3>3
  <2>16. Can(T)
    <3>1. DOMAIN s = 1 .. k
      OBVIOUS
    <3> HIDE DEF s
    <3>2. Ordered(s)
      BY <2>15, <3>1
    <3>3. QED
      BY <2>3, <2>14, <3>2
  <2>17. QED
    BY <2>2, <2>16
<1>2. Can(S)
  <2>1. Cardinality(S) \in Nat /\ S \in Small(Cardinality(S))
    BY FS_CardinalityType
  <2> HIDE DEF Can, Small
  <2>2. QED
    BY <1>1, <2>1
<1> DEFINE s == Ascending(S)
           n == Cardinality(S)
<1>3. s \in [1 .. n -> S] /\ Ordered(s)
  BY <1>2 DEF Ascending
<1>4. n \in Nat
  BY FS_CardinalityType
<1> HIDE DEF s, n
<1>5. s \in Seq(S)
  <2>1. s = [i \in 1 .. n |-> s[i]] /\ \A i \in 1 .. n : s[i] \in S
    BY <1>3
  <2>2. [i \in 1 .. n |-> s[i]] \in Seq(S)
    BY <2>1, <1>4
  <2>3. QED
    BY <2>1, <2>2
<1>6. IsInjective(s)
  <2> SUFFICES ASSUME NEW i \in 1 .. n, NEW j \in 1 .. n, s[i] = s[j], i # j
               PROVE  FALSE
    BY <1>3 DEF IsInjective
  <2>1. i \in Int /\ j \in Int /\ s[i] \in Nat /\ s[j] \in Nat
    <3>1. s[i] \in S /\ s[j] \in S
      BY <1>3
    <3>2. i \in Int /\ j \in Int
      BY <1>4
    <3>3. QED
      BY <3>1, <3>2
  <2>2. i < j \/ j < i
    BY <2>1
  <2>3. s[i] < s[j] \/ s[j] < s[i]
    BY <2>2, <1>3
  <2>4. QED
    BY <2>1, <2>3
<1>7. Range(s) = S
  <2>1. IsFiniteSet(1 .. n) /\ Cardinality(1 .. n) = n
    BY <1>4, FS_Interval
  <2>2. s \in Surjection(1 .. n, S)
    BY <1>3, <1>6, <2>1, FS_Injection DEF Injection, n
  <2>3. QED
    BY <1>3, <2>2 DEF Surjection, Range
<1>8. QED
  BY <1>5, <1>6, <1>7 DEF s

\* What TreesAssumption says of each member of Trees.
IsTree(t) ==
  /\ t \in Seq(Scope)
  /\ Len(t) > 0
  /\ t[1].parent = 0
  /\ \A s \in 2 .. Len(t) : t[s].parent \in 1 .. s - 1

LEMMA TreesAreTrees ==
  ASSUME NEW t \in Trees
  PROVE  IsTree(t)
BY TreesAssumption DEF IsTree

\* The parent of a scope comes before it, and only the first has none.
LEMMA TreeFacts ==
  ASSUME NEW t, IsTree(t)
  PROVE  /\ Len(t) \in Nat \ {0} /\ DOMAIN t = 1 .. Len(t)
         /\ \A s \in 1 .. Len(t) :
              /\ t[s] \in Scope
              /\ t[s].parent \in 0 .. s - 1
              /\ t[s].parent \in 0 .. Len(t)
              /\ t[s].parent = 0 <=> s = 1
<1>1. Len(t) \in Nat \ {0} /\ DOMAIN t = 1 .. Len(t)
  BY DEF IsTree
<1>2. ASSUME NEW s \in 1 .. Len(t)
      PROVE  /\ t[s] \in Scope
             /\ t[s].parent \in 0 .. s - 1
             /\ t[s].parent \in 0 .. Len(t)
             /\ t[s].parent = 0 <=> s = 1
  <2>1. t[s] \in Scope
    BY DEF IsTree
  <2>2. CASE s = 1
    BY <2>1, <2>2, <1>1 DEF IsTree
  <2>3. CASE s # 1
    <3>1. s \in 2 .. Len(t)
      BY <2>3, <1>1
    <3>2. t[s].parent \in 1 .. s - 1
      BY <3>1 DEF IsTree
    <3>3. QED
      BY <2>1, <3>1, <3>2, <1>1
  <2>4. QED
    BY <2>2, <2>3
<1>3. QED
  BY <1>1, <1>2

\* f is what EnclosingFunctions builds for the scopes up to k.
Encloses(f, t, k) ==
  f = [s \in 0 .. k |->
         IF s = 0 THEN <<>>
         ELSE (IF IsFunction(t[s]) THEN <<s>> ELSE <<>>) \o f[t[s].parent]]

LEMMA EnclosingIsDefined ==
  ASSUME NEW t, IsTree(t), NEW n \in 0 .. Len(t)
  PROVE  \E f : Encloses(f, t, n)
<1> DEFINE Step(f, s) ==
             IF s = 0 THEN <<>>
             ELSE (IF IsFunction(t[s]) THEN <<s>> ELSE <<>>) \o f[t[s].parent]
           Bad == {k \in 0 .. Len(t) : ~\E f : Encloses(f, t, k)}
<1> SUFFICES ASSUME Bad # {} PROVE FALSE
  OBVIOUS
<1>0. Len(t) \in Nat
  BY TreeFacts
<1>1. PICK k \in Bad : \A j \in Bad : k <= j
  <2>1. Bad \in SUBSET Nat
    BY <1>0
  <2>2. QED
    BY <2>1, MinOfNats
<1>2. k # 0
  <2>1. Encloses([s \in 0 .. 0 |-> <<>>], t, 0)
    BY DEF Encloses
  <2>2. QED
    BY <2>1
<1>3. k \in 1 .. Len(t) /\ k - 1 \in 0 .. Len(t) /\ k - 1 \notin Bad
  <2>1. k \in 0 .. Len(t)
    OBVIOUS
  <2>2. k \in 1 .. Len(t) /\ k - 1 \in 0 .. Len(t) /\ ~(k <= k - 1)
    BY <2>1, <1>0, <1>2
  <2> HIDE DEF Bad
  <2>3. QED
    BY <2>2, <1>1
<1>4. PICK f : Encloses(f, t, k - 1)
  BY <1>3
<1> DEFINE g == [s \in 0 .. k |-> Step(f, s)]
<1>5. ASSUME NEW s \in 0 .. k - 1 PROVE g[s] = f[s]
  <2>1. s \in 0 .. k
    BY <1>3
  <2>2. f[s] = Step(f, s)
    BY <1>4, Zenon DEF Encloses
  <2>3. QED
    BY <2>1, <2>2
<1>6. ASSUME NEW s \in 0 .. k PROVE g[s] = Step(g, s)
  <2>1. s # 0 => s \in 1 .. Len(t) /\ 0 .. s - 1 \subseteq 0 .. k - 1
    BY <1>0, <1>3
  <2>2. s = 0 \/ t[s].parent \in 0 .. k - 1
    BY <2>1, TreeFacts
  <2>3. s = 0 \/ g[t[s].parent] = f[t[s].parent]
    <3> HIDE DEF g
    <3>1. QED
      BY <2>2, <1>5
  <2>4. Step(g, s) = Step(f, s)
    <3> HIDE DEF g
    <3>1. QED
      BY <2>3, Zenon
  <2>5. QED
    BY <2>4
<1>7. Encloses(g, t, k)
  BY <1>6, Zenon DEF Encloses
<1>8. QED
  BY <1>1, <1>7

\* The functions around a scope are those around its parent, and the scope.
LEMMA EnclosingStep ==
  ASSUME NEW t, IsTree(t), NEW s \in 0 .. Len(t)
  PROVE  EnclosingFunctions(t, s)
           = IF s = 0 THEN <<>>
             ELSE (IF IsFunction(t[s]) THEN <<s>> ELSE <<>>)
                    \o EnclosingFunctions(t, t[s].parent)
<1> DEFINE up == CHOOSE f : Encloses(f, t, Len(t))
<1>1. \A r : EnclosingFunctions(t, r) = up[r]
  BY DEF EnclosingFunctions, Encloses
<1>2. Len(t) \in 0 .. Len(t)
  BY TreeFacts
<1>3. Encloses(up, t, Len(t))
  BY <1>2, EnclosingIsDefined
<1> HIDE DEF up
<1>4. up[s] = IF s = 0 THEN <<>>
              ELSE (IF IsFunction(t[s]) THEN <<s>> ELSE <<>>) \o up[t[s].parent]
  BY <1>3, Zenon DEF Encloses
<1>5. QED
  BY <1>1, <1>4

\* They are functions, each once, none of them after the scope.
LEMMA EnclosingFacts ==
  ASSUME NEW t, IsTree(t), NEW n \in 0 .. Len(t)
  PROVE  /\ EnclosingFunctions(t, n) \in Seq(1 .. Len(t))
         /\ IsInjective(EnclosingFunctions(t, n))
         /\ \A x \in Range(EnclosingFunctions(t, n)) :
              x \in 1 .. n /\ IsFunction(t[x])
<1> DEFINE Good(k) ==
             /\ EnclosingFunctions(t, k) \in Seq(1 .. Len(t))
             /\ IsInjective(EnclosingFunctions(t, k))
             /\ \A x \in Range(EnclosingFunctions(t, k)) :
                  x \in 1 .. k /\ IsFunction(t[x])
           Bad == {k \in 0 .. Len(t) : ~Good(k)}
<1> SUFFICES ASSUME Bad # {} PROVE FALSE
  OBVIOUS
<1>0. Len(t) \in Nat
  BY TreeFacts
<1> HIDE DEF Good
<1>1. PICK k \in Bad : \A j \in Bad : k <= j
  <2>1. Bad \in SUBSET Nat
    BY <1>0
  <2>2. QED
    BY <2>1, MinOfNats
<1>2. k \in 0 .. Len(t) /\ ~Good(k)
  OBVIOUS
<1> HIDE DEF Bad
<1>3. k # 0
  <2> SUFFICES ASSUME k = 0 PROVE Good(k)
    BY <1>2
  <2>1. EnclosingFunctions(t, k) = <<>>
    BY <1>2, EnclosingStep
  <2>2. <<>> \in Seq(1 .. Len(t)) /\ DOMAIN <<>> = {}
    OBVIOUS
  <2>3. Range(<<>>) = {} /\ IsInjective(<<>>)
    BY <2>2 DEF Range, IsInjective
  <2>4. QED
    BY <2>1, <2>2, <2>3 DEF Good
<1> DEFINE p == t[k].parent
           rest == EnclosingFunctions(t, p)
           own == IF IsFunction(t[k]) THEN <<k>> ELSE <<>>
<1>4. k \in 1 .. Len(t) /\ p \in 0 .. k - 1 /\ p \in 0 .. Len(t)
  BY <1>0, <1>2, <1>3, TreeFacts
<1>5. Good(p)
  <2>1. ~(k <= p)
    BY <1>4, <1>0
  <2>2. p \notin Bad
    BY <1>1, <2>1
  <2>3. QED
    BY <1>4, <2>2 DEF Bad
<1>6. EnclosingFunctions(t, k) = own \o rest
  BY <1>2, <1>3, EnclosingStep
<1>7. /\ rest \in Seq(1 .. Len(t)) /\ IsInjective(rest)
      /\ \A x \in Range(rest) : x \in 1 .. p /\ IsFunction(t[x])
  BY <1>5 DEF Good
<1>8. /\ own \in Seq(1 .. Len(t)) /\ IsInjective(own)
      /\ \A x \in Range(own) : x = k /\ IsFunction(t[x])
  <2>1. CASE IsFunction(t[k])
    BY <2>1, <1>4 DEF IsInjective, Range
  <2>2. CASE ~IsFunction(t[k])
    BY <2>2 DEF IsInjective, Range
  <2>3. QED
    BY <2>1, <2>2
<1> HIDE DEF own, rest, p
<1>9. Range(own) \cap Range(rest) = {}
  <2>1. k \notin 1 .. p
    BY <1>4, <1>0
  <2>2. QED
    BY <1>7, <1>8, <2>1
<1>10. /\ own \o rest \in Seq(1 .. Len(t)) /\ IsInjective(own \o rest)
       /\ Range(own \o rest) = Range(own) \cup Range(rest)
  BY <1>7, <1>8, <1>9, ConcatFacts
<1>11. \A x \in Range(own \o rest) : x \in 1 .. k /\ IsFunction(t[x])
  <2>1. 1 .. p \subseteq 1 .. k /\ k \in 1 .. k
    BY <1>4, <1>0
  <2>2. QED
    BY <1>7, <1>8, <1>10, <2>1
<1>12. QED
  BY <1>2, <1>6, <1>10, <1>11 DEF Good

\* What FindSmallestScopeContainingAddress finds below scope s, given what it
\* finds below the children.
FoundAt(f, t, addr, s) ==
  IF ~IsAddressInCodeScope(t[s], addr) THEN 0
  ELSE LET hits == {c \in DOMAIN t : t[c].parent = s /\ f[c] # 0}
       IN IF hits = {} THEN s ELSE f[FirstChild(t, hits)]

Finds(f, t, addr, S) == f = [s \in S |-> FoundAt(f, t, addr, s)]

\* What it finds below each scope of the tree.
Found(t, addr) == CHOOSE f : Finds(f, t, addr, DOMAIN t)

\* Only the children of a scope count, and one of them is searched.
LEMMA FoundAtFacts ==
  ASSUME NEW t, IsTree(t), NEW addr, NEW s \in DOMAIN t, NEW f
  PROVE  LET hits == {c \in DOMAIN t : t[c].parent = s /\ f[c] # 0}
         IN /\ \A c \in hits : c \in s + 1 .. Len(t)
            /\ hits # {} => FirstChild(t, hits) \in hits
<1> DEFINE hits == {c \in DOMAIN t : t[c].parent = s /\ f[c] # 0}
           ranged == {c \in hits : t[c].nonTrivial}
<1>1. DOMAIN t = 1 .. Len(t) /\ Len(t) \in Nat
  BY TreeFacts
<1>2. ASSUME NEW c \in hits PROVE c \in s + 1 .. Len(t)
  <2>1. c \in 1 .. Len(t) /\ t[c].parent = s /\ s \in 1 .. Len(t)
    BY <1>1
  <2>2. s \in 0 .. c - 1
    BY <2>1, TreeFacts
  <2>3. QED
    BY <2>1, <2>2, <1>1
<1>3. ASSUME hits # {} PROVE FirstChild(t, hits) \in hits
  <2>1. ranged \in SUBSET Nat /\ hits \in SUBSET Nat
    BY <1>1
  <2> HIDE DEF hits
  <2>2. CASE ranged # {}
    <3>1. FirstChild(t, hits) = Min(ranged)
      BY <2>2 DEF FirstChild
    <3>2. Min(ranged) \in ranged
      BY <2>1, <2>2, MinOfNats
    <3>3. QED
      BY <3>1, <3>2
  <2>3. CASE ranged = {}
    <3>1. FirstChild(t, hits) = Min(hits)
      BY <2>3 DEF FirstChild
    <3>2. QED
      BY <3>1, <2>1, <1>3, MinOfNats
  <2>4. QED
    BY <2>2, <2>3
<1>4. QED
  BY <1>2, <1>3

\* What is found below a scope depends on the scopes after it only.
LEMMA FoundAtDepends ==
  ASSUME NEW t, IsTree(t), NEW addr, NEW s \in DOMAIN t, NEW f, NEW g,
         \A c \in s + 1 .. Len(t) : g[c] = f[c]
  PROVE  FoundAt(g, t, addr, s) = FoundAt(f, t, addr, s)
<1> DEFINE hits == {c \in DOMAIN t : t[c].parent = s /\ f[c] # 0}
<1>1. \A c \in DOMAIN t : t[c].parent = s => c \in s + 1 .. Len(t)
  <2> SUFFICES ASSUME NEW c \in DOMAIN t, t[c].parent = s
               PROVE  c \in s + 1 .. Len(t)
    OBVIOUS
  <2>1. /\ c \in 1 .. Len(t) /\ s \in 1 .. Len(t) /\ Len(t) \in Nat
        /\ s \in 0 .. c - 1
    BY TreeFacts
  <2>2. QED
    BY <2>1
<1>2. hits = {c \in DOMAIN t : t[c].parent = s /\ g[c] # 0}
  BY <1>1
<1>3. hits # {} => FirstChild(t, hits) \in s + 1 .. Len(t)
  BY FoundAtFacts
<1>4. hits # {} => g[FirstChild(t, hits)] = f[FirstChild(t, hits)]
  BY <1>3
<1> HIDE DEF hits
<1>5. /\ FoundAt(f, t, addr, s)
           = IF ~IsAddressInCodeScope(t[s], addr) THEN 0
             ELSE IF hits = {} THEN s ELSE f[FirstChild(t, hits)]
      /\ FoundAt(g, t, addr, s)
           = IF ~IsAddressInCodeScope(t[s], addr) THEN 0
             ELSE IF hits = {} THEN s ELSE g[FirstChild(t, hits)]
  BY <1>2, Zenon DEF FoundAt, hits
<1>6. QED
  BY <1>4, <1>5

LEMMA FindIsDefined ==
  ASSUME NEW t, IsTree(t), NEW addr
  PROVE  \E f : Finds(f, t, addr, DOMAIN t)
<1> DEFINE n == Len(t)
           Bad == {k \in 0 .. n : ~\E f : Finds(f, t, addr, n - k + 1 .. n)}
<1>0. n \in Nat /\ DOMAIN t = 1 .. n
  BY TreeFacts
<1> HIDE DEF n
<1>1. Bad = {}
  <2> SUFFICES ASSUME Bad # {} PROVE FALSE
    OBVIOUS
  <2>1. PICK k \in Bad : \A j \in Bad : k <= j
    <3>1. Bad \in SUBSET Nat
      BY <1>0
    <3>2. QED
      BY <3>1, MinOfNats
  <2>2. k \in 0 .. n /\ ~\E f : Finds(f, t, addr, n - k + 1 .. n)
    OBVIOUS
  <2>3. k # 0
    <3> SUFFICES ASSUME k = 0 PROVE FALSE
      OBVIOUS
    <3>1. n - k + 1 .. n = {}
      BY <1>0
    <3>2. Finds([s \in {} |-> 0], t, addr, {})
      BY DEF Finds
    <3>3. QED
      BY <2>2, <3>1, <3>2
  <2>4. k - 1 \in 0 .. n /\ ~(k <= k - 1) /\ n - (k - 1) + 1 = n - k + 2
    BY <2>2, <2>3, <1>0
  <2>5. PICK f : Finds(f, t, addr, n - k + 2 .. n)
    <3> HIDE DEF Bad
    <3>1. k - 1 \notin Bad
      BY <2>1, <2>4
    <3>2. QED
      BY <2>4, <3>1 DEF Bad
  <2> HIDE DEF Bad
  <2> DEFINE g == [s \in n - k + 1 .. n |-> FoundAt(f, t, addr, s)]
  <2>6. ASSUME NEW s \in n - k + 1 .. n
        PROVE  g[s] = FoundAt(g, t, addr, s)
    <3>1. s \in DOMAIN t
      BY <1>0, <2>2
    <3>2. ASSUME NEW c \in s + 1 .. n PROVE g[c] = f[c]
      <4>1. c \in n - k + 1 .. n /\ c \in n - k + 2 .. n
        BY <1>0, <2>2
      <4>2. f[c] = FoundAt(f, t, addr, c)
        BY <2>5, <4>1, Zenon DEF Finds
      <4>3. QED
        BY <4>1, <4>2
    <3>3. g[s] = FoundAt(f, t, addr, s)
      OBVIOUS
    <3> HIDE DEF g
    <3>4. FoundAt(g, t, addr, s) = FoundAt(f, t, addr, s)
      BY <3>1, <3>2, FoundAtDepends DEF n
    <3>5. QED
      BY <3>3, <3>4
  <2>7. Finds(g, t, addr, n - k + 1 .. n)
    BY <2>6, Zenon DEF Finds
  <2>8. QED
    BY <2>2, <2>7
<1>2. n \in 0 .. n /\ n - n + 1 = 1
  BY <1>0
<1>3. \E f : Finds(f, t, addr, n - n + 1 .. n)
  BY <1>1, <1>2
<1>4. QED
  BY <1>0, <1>2, <1>3

\* What is found below the first scope, and what below the others.
LEMMA FoundFacts ==
  ASSUME NEW t, IsTree(t), NEW addr
  PROVE  /\ FindSmallestScopeContainingAddress(t, addr) = Found(t, addr)[1]
         /\ \A s \in DOMAIN t :
              Found(t, addr)[s] = FoundAt(Found(t, addr), t, addr, s)
<1>1. FindSmallestScopeContainingAddress(t, addr) = Found(t, addr)[1]
  BY DEF FindSmallestScopeContainingAddress, Found, Finds, FoundAt
<1>2. Finds(Found(t, addr), t, addr, DOMAIN t)
  BY FindIsDefined DEF Found
<1>3. QED
  BY <1>1, <1>2, Zenon DEF Finds

\* A scope has an address if and only if the search below it finds a scope:
\* itself or one after it.
LEMMA FoundTypes ==
  ASSUME NEW t, IsTree(t), NEW addr, NEW r \in DOMAIN t
  PROVE  /\ Found(t, addr)[r] \in {0} \cup r .. Len(t)
         /\ Found(t, addr)[r] # 0 <=> IsAddressInCodeScope(t[r], addr)
<1> DEFINE n == Len(t)
           f == Found(t, addr)
           Good(s) == /\ f[s] \in {0} \cup s .. n
                      /\ f[s] # 0 <=> IsAddressInCodeScope(t[s], addr)
           Bad == {k \in 0 .. n : k # n /\ ~Good(n - k)}
<1>0. n \in Nat /\ DOMAIN t = 1 .. n
  BY TreeFacts
<1>1. \A s \in DOMAIN t : f[s] = FoundAt(f, t, addr, s)
  BY FoundFacts
<1> HIDE DEF f, n, Good
<1>2. Bad = {}
  <2> SUFFICES ASSUME Bad # {} PROVE FALSE
    OBVIOUS
  <2>1. PICK k \in Bad : \A j \in Bad : k <= j
    <3>1. Bad \in SUBSET Nat
      BY <1>0
    <3>2. QED
      BY <3>1, MinOfNats
  <2> DEFINE s == n - k
  <2>2. k \in 0 .. n /\ k # n /\ ~Good(s)
    OBVIOUS
  <2> HIDE DEF Bad
  <2>3. s \in 1 .. n /\ s \in DOMAIN t /\ n - s = k
    BY <2>2, <1>0
  <2> HIDE DEF s
  <2>4. ASSUME NEW c \in s + 1 .. n PROVE Good(c)
    <3>1. n - c \in 0 .. n /\ n - c # n /\ ~(k <= n - c) /\ n - (n - c) = c
      BY <2>3, <1>0
    <3>2. n - c \notin Bad
      BY <2>1, <3>1
    <3>3. QED
      BY <3>1, <3>2 DEF Bad
  <2> DEFINE hits == {c \in DOMAIN t : t[c].parent = s /\ f[c] # 0}
             first == FirstChild(t, hits)
  <2>5. hits # {} => first \in hits /\ first \in s + 1 .. n
    BY <2>3, FoundAtFacts DEF n
  <2>6. f[s] = IF ~IsAddressInCodeScope(t[s], addr) THEN 0
               ELSE IF hits = {} THEN s ELSE f[first]
    BY <1>1, <2>3, Zenon DEF FoundAt
  <2>7. hits # {} => f[first] # 0 /\ f[first] \in first .. n
    <3>1. hits # {} => f[first] # 0
      BY <2>5
    <3>2. QED
      BY <2>4, <2>5, <3>1 DEF Good
  <2> HIDE DEF hits, first
  <2>8. Good(s)
    <3>1. CASE ~IsAddressInCodeScope(t[s], addr)
      BY <2>6, <3>1 DEF Good
    <3>2. CASE IsAddressInCodeScope(t[s], addr) /\ hits = {}
      <4>1. f[s] = s
        BY <2>6, <3>2
      <4>2. s \in s .. n /\ s # 0
        BY <2>3, <1>0
      <4>3. QED
        BY <3>2, <4>1, <4>2 DEF Good
    <3>3. CASE IsAddressInCodeScope(t[s], addr) /\ hits # {}
      <4>1. f[s] = f[first] /\ f[s] # 0 /\ f[s] \in first .. n
        BY <2>6, <2>7, <3>3
      <4>2. first .. n \subseteq s .. n
        BY <2>3, <2>5, <3>3, <1>0
      <4>3. QED
        BY <3>3, <4>1, <4>2 DEF Good
    <3>4. QED
      BY <3>1, <3>2, <3>3
  <2>9. QED
    BY <2>2, <2>8
<1>3. r \in 1 .. n /\ n - r \in 0 .. n /\ n - r # n /\ n - (n - r) = r
  BY <1>0
<1>4. Good(r)
  BY <1>2, <1>3
<1>5. QED
  BY <1>4 DEF Good, f, n

(***************************************************************************)
(* The addresses of a step.                                                *)
(***************************************************************************)

\* A vector without its first member.
LEMMA TailFacts ==
  ASSUME NEW S, NEW s \in Seq(S), s # <<>>, IsInjective(s)
  PROVE  /\ Tail(s) \in Seq(S)
         /\ IsInjective(Tail(s))
         /\ Range(Tail(s)) = Range(s) \ {s[1]}
<1> DEFINE t == Tail(s)
           n == Len(s)
<1>1. /\ n \in Nat \ {0} /\ DOMAIN s = 1 .. n
      /\ t \in Seq(S) /\ DOMAIN t = 1 .. n - 1
      /\ \A i \in 1 .. n - 1 : t[i] = s[i + 1]
  OBVIOUS
<1> HIDE DEF t, n
<1>2. /\ \A i \in DOMAIN t : i \in Int /\ i + 1 \in DOMAIN s /\ i + 1 # 1
                             /\ t[i] = s[i + 1]
      /\ \A i \in DOMAIN s : i # 1 => i - 1 \in DOMAIN t /\ t[i - 1] = s[i]
      /\ 1 \in DOMAIN s
  <2>1. ASSUME NEW i \in DOMAIN t
        PROVE  i \in Int /\ i + 1 \in DOMAIN s /\ i + 1 # 1 /\ t[i] = s[i + 1]
    BY <1>1
  <2>2. ASSUME NEW i \in DOMAIN s, i # 1
        PROVE  i - 1 \in DOMAIN t /\ t[i - 1] = s[i]
    <3>1. i \in Int /\ i - 1 \in 1 .. n - 1 /\ i - 1 + 1 = i
      BY <1>1, <2>2
    <3>2. QED
      BY <1>1, <3>1
  <2>3. 1 \in DOMAIN s
    BY <1>1
  <2>4. QED
    BY <2>1, <2>2, <2>3
<1>3. IsInjective(t)
  <2> SUFFICES ASSUME NEW i \in DOMAIN t, NEW j \in DOMAIN t, t[i] = t[j]
               PROVE  i = j
    BY DEF IsInjective
  <2>1. i + 1 = j + 1
    <3>1. s[i + 1] = s[j + 1] /\ i + 1 \in DOMAIN s /\ j + 1 \in DOMAIN s
      BY <1>2
    <3>2. QED
      BY <3>1 DEF IsInjective
  <2>2. QED
    BY <2>1, <1>2
<1>4. Range(t) = Range(s) \ {s[1]}
  <2>1. \A x \in Range(t) : x \in Range(s) /\ x # s[1]
    BY <1>2 DEF Range, IsInjective
  <2>2. ASSUME NEW x \in Range(s), x # s[1] PROVE x \in Range(t)
    <3>1. PICK i \in DOMAIN s : x = s[i]
      BY DEF Range
    <3>2. i - 1 \in DOMAIN t /\ t[i - 1] = x
      BY <1>2, <2>2, <3>1
    <3>3. QED
      BY <3>2 DEF Range
  <2>3. QED
    BY <2>1, <2>2
<1>5. QED
  BY <1>1, <1>3, <1>4 DEF t

\* The functions whose caches are taken: all of them, or all but the innermost.
LEMMA FunctionsToTakeFacts ==
  ASSUME NEW t, IsTree(t), NEW s \in 0 .. Len(t), NEW all \in BOOLEAN
  PROVE  LET functions == FunctionsToTake(all, EnclosingFunctions(t, s))
         IN functions \in Seq(1 .. Len(t)) /\ IsInjective(functions)
<1>1. /\ EnclosingFunctions(t, s) \in Seq(1 .. Len(t))
      /\ IsInjective(EnclosingFunctions(t, s))
  BY EnclosingFacts
<1>2. QED
  BY <1>1, TailFacts DEF FunctionsToTake

\* The caches of some scopes hold each instruction once, as an instruction is in
\* one cache only.
LEMMA CachedFacts ==
  ASSUME IsTree(hl_sc), DOMAIN cache \subseteq HAddrs,
         NEW h, NEW all \in BOOLEAN
  PROVE  LET smallest == FindSmallestScopeContainingAddress(hl_sc, h)
             functions ==
               FunctionsToTake(all, EnclosingFunctions(hl_sc, smallest))
         IN /\ CachedHAddresses(h, all) \in Seq(HAddrs)
            /\ IsInjective(CachedHAddresses(h, all))
            /\ \A a : a \in Range(CachedHAddresses(h, all))
                        <=> a \in DOMAIN cache /\ cache[a] \in Range(functions)
<1> DEFINE smallest == FindSmallestScopeContainingAddress(hl_sc, h)
           functions ==
             FunctionsToTake(all, EnclosingFunctions(hl_sc, smallest))
           Of(s) == {a \in DOMAIN cache : cache[a] = s}
           caches == [i \in DOMAIN functions |-> AddressCache(functions[i])]
<1>1. smallest \in 0 .. Len(hl_sc)
  <2>1. 1 \in DOMAIN hl_sc /\ 1 .. Len(hl_sc) \subseteq 0 .. Len(hl_sc)
        /\ 0 \in 0 .. Len(hl_sc)
    BY TreeFacts
  <2>2. smallest = Found(hl_sc, h)[1]
    BY FoundFacts
  <2>3. Found(hl_sc, h)[1] \in {0} \cup 1 .. Len(hl_sc)
    BY <2>1, FoundTypes
  <2>4. QED
    BY <2>1, <2>2, <2>3
<1>2. functions \in Seq(1 .. Len(hl_sc)) /\ IsInjective(functions)
  BY <1>1, FunctionsToTakeFacts
<1>3. CachedHAddresses(h, all) = FlattenSeq(caches)
  BY DEF CachedHAddresses
<1> HIDE DEF functions
<1>4. ASSUME NEW s
      PROVE  /\ AddressCache(s) \in Seq(HAddrs)
             /\ IsInjective(AddressCache(s))
             /\ Range(AddressCache(s)) = Of(s)
  <2>1. Of(s) \in SUBSET HAddrs /\ HAddrs \subseteq Nat
    BY DEF HAddrs
  <2>2. IsFiniteSet(HAddrs)
    BY FS_Interval, BoundsAssumption DEF HAddrs
  <2>3. IsFiniteSet(Of(s)) /\ Of(s) \in SUBSET Nat
    BY <2>1, <2>2, FS_Subset
  <2>4. AddressCache(s) = Ascending(Of(s))
    BY DEF AddressCache
  <2> HIDE DEF Of
  <2>5. /\ AddressCache(s) \in Seq(Of(s))
        /\ IsInjective(AddressCache(s))
        /\ Range(AddressCache(s)) = Of(s)
    BY <2>3, <2>4, AscendingFacts
  <2>6. AddressCache(s) \in Seq(HAddrs)
    BY <2>1, <2>5
  <2>7. QED
    BY <2>5, <2>6
<1>5. caches \in Seq(Seq(HAddrs)) /\ DOMAIN caches = DOMAIN functions
  <2>1. Len(functions) \in Nat /\ DOMAIN functions = 1 .. Len(functions)
    BY <1>2
  <2>2. QED
    BY <2>1, <1>4
<1>6. \A i \in DOMAIN caches : /\ IsInjective(caches[i])
                               /\ Range(caches[i]) = Of(functions[i])
  BY <1>4
<1> HIDE DEF caches, Of
<1>7. \A i, j \in DOMAIN caches :
        i # j => Range(caches[i]) \cap Range(caches[j]) = {}
  <2> SUFFICES ASSUME NEW i \in DOMAIN caches, NEW j \in DOMAIN caches, i # j
               PROVE  Of(functions[i]) \cap Of(functions[j]) = {}
    BY <1>6
  <2>1. functions[i] # functions[j]
    BY <1>2, <1>5 DEF IsInjective
  <2>2. QED
    BY <2>1 DEF Of
<1>8. /\ CachedHAddresses(h, all) \in Seq(HAddrs)
      /\ IsInjective(CachedHAddresses(h, all))
      /\ \A a : a \in Range(CachedHAddresses(h, all))
                  <=> \E i \in DOMAIN functions : a \in Of(functions[i])
  BY <1>3, <1>5, <1>6, <1>7, FlattenFacts
<1>9. \A a : (\E i \in DOMAIN functions : a \in Of(functions[i]))
               <=> a \in DOMAIN cache /\ cache[a] \in Range(functions)
  BY DEF Of, Range
<1>10. QED
  BY <1>8, <1>9 DEF functions

\* The ISA addresses of some instructions: those the search of each leads to.
LEMMA LowAddressesFacts ==
  ASSUME IsMapping(ll_lm, LAddrs, HAddrs), Agrees(ll_lm),
         NEW hs \in Seq(HAddrs)
  PROVE  /\ LowAddresses(hs) \in Seq(LAddrs)
         /\ \A x : x \in Range(LowAddresses(hs))
                     <=> \E i \in DOMAIN hs :
                           x \in Range(GetAddressesFromLine(ll_lm, hs[i]))
         /\ IsInjective(hs) /\ Range(hs) \subseteq DOMAIN ll_lm.lineToAddr
              => IsInjective(LowAddresses(hs))
<1> DEFINE own == [i \in DOMAIN hs |-> GetAddressesFromLine(ll_lm, hs[i])]
<1>1. LowAddresses(hs) = FlattenSeq(own)
  BY DEF LowAddresses
<1>2. \A h : GetAddressesFromLine(ll_lm, h) \in Seq(LAddrs)
  BY AddressesOfFacts DEF GetAddressesFromLine
<1>3. own \in Seq(Seq(LAddrs)) /\ DOMAIN own = DOMAIN hs
      /\ \A i \in DOMAIN hs : own[i] = GetAddressesFromLine(ll_lm, hs[i])
  <2>1. Len(hs) \in Nat /\ DOMAIN hs = 1 .. Len(hs)
    OBVIOUS
  <2>2. QED
    BY <2>1, <1>2
<1> HIDE DEF own
<1>4. ASSUME IsInjective(hs), Range(hs) \subseteq DOMAIN ll_lm.lineToAddr
      PROVE  /\ \A i \in DOMAIN own : IsInjective(own[i])
             /\ \A i, j \in DOMAIN own :
                  i # j => Range(own[i]) \cap Range(own[j]) = {}
  <2>1. ASSUME NEW i \in DOMAIN hs
        PROVE  /\ IsInjective(own[i])
               /\ Range(own[i])
                    = {a \in DOMAIN ll_lm.addrToLine :
                         ll_lm.addrToLine[a] = hs[i]}
    <3>1. hs[i] \in DOMAIN ll_lm.lineToAddr
      BY <1>4 DEF Range
    <3>2. hs[i] \in Nat
      <4>1. hs[i] \in HAddrs
        OBVIOUS
      <4>2. QED
        BY <4>1 DEF HAddrs
    <3>3. own[i] = ll_lm.lineToAddr[hs[i]]
      BY <3>1, <3>2, <1>3, AddressesOfMapped
    <3>4. QED
      BY <3>1, <3>3 DEF Agrees
  <2>2. ASSUME NEW i \in DOMAIN hs, NEW j \in DOMAIN hs, i # j
        PROVE  Range(own[i]) \cap Range(own[j]) = {}
    <3>1. hs[i] # hs[j]
      BY <1>4, <2>2 DEF IsInjective
    <3>2. QED
      BY <3>1, <2>1
  <2>3. QED
    BY <2>1, <2>2, <1>3
<1>5. QED
  BY <1>1, <1>3, <1>4, FlattenFacts

(***************************************************************************)
(* The system.                                                             *)
(***************************************************************************)

\* The mappings, which are typed and agree with themselves.
MappingInv ==
  /\ IsMapping(hl_lm, HAddrs, Lines) /\ Agrees(hl_lm)
  /\ IsMapping(ll_lm, LAddrs, HAddrs) /\ Agrees(ll_lm)

\* MappingInv is inductive: only rows change a mapping, and a mapping made anew
\* is empty.
LEMMA MappingInvHolds == Spec => []MappingInv
<1>1. Init => MappingInv
  BY EmptyMappingFacts DEF Init, MappingInv
<1>2. MappingInv /\ [Next]_vars => MappingInv'
  <2> SUFFICES ASSUME MappingInv, [Next]_vars
               PROVE  MappingInv'
    OBVIOUS
  <2>1. ASSUME hl_lm' = EmptyMapping, ll_lm' = EmptyMapping
        PROVE  MappingInv'
    BY <2>1, EmptyMappingFacts DEF MappingInv
  <2>2. ASSUME UNCHANGED <<hl_lm, ll_lm>>
        PROVE  MappingInv'
    BY <2>2 DEF MappingInv
  <2>3. ASSUME NEW t \in Trees, NewBinary(t)
        PROVE  MappingInv'
    BY <2>1, <2>3 DEF NewBinary, NoObject
  <2>4. ASSUME NEW line \in Lines, NEW addr \in HAddrs, HighRow(line, addr)
        PROVE  MappingInv'
    BY <2>4, AddLineMappingFacts DEF HighRow, MappingInv
  <2>5. CASE EndOfHigh
    BY <2>2, <2>5 DEF EndOfHigh
  <2>6. ASSUME NEW line \in HAddrs, NEW addr \in LAddrs, LowRow(line, addr)
        PROVE  MappingInv'
    BY <2>6, AddLineMappingFacts DEF LowRow, MappingInv
  <2>7. CASE EndOfLow
    BY <2>2, <2>7 DEF EndOfLow
  <2>8. CASE Free
    BY <2>1, <2>8 DEF Free, NoObject
  <2>9. ASSUME NEW line \in Lines, ResolveBreakpoint(line)
        PROVE  MappingInv'
    BY <2>2, <2>9 DEF ResolveBreakpoint
  <2>10. CASE StepIn
    BY <2>2, <2>10 DEF StepIn, WriteStep
  <2>11. ASSUME NEW pc \in DOMAIN ll_lm.addrToLine, StepOut(pc)
         PROVE  MappingInv'
    BY <2>2, <2>11 DEF StepOut, WriteStep
  <2>12. CASE UNCHANGED vars
    BY <2>2, <2>12 DEF vars
  <2>13. QED
    BY <2>3, <2>4, <2>5, <2>6, <2>7, <2>8, <2>9, <2>10, <2>11, <2>12 DEF Next
<1>3. QED
  BY <1>1, <1>2, PTL DEF Spec

\* AddLineMapping never loses the agreement: whatever rows come, the two
\* directions of both mappings and their vectors tell the same.
THEOREM MappingsAlwaysAgree == Spec => []MappingsAgree
<1>1. MappingInv => MappingsAgree
  BY DEF MappingInv, MappingsAgree
<1>2. QED
  BY <1>1, MappingInvHolds, PTL

\* The last breakpoint resolved is at an address of an instruction of its line;
\* there is none before an object is loaded.
BreakpointInv ==
  /\ phase \in {"high", "low"} => bkpt = NoBreakpoint
  /\ bkpt # NoBreakpoint =>
       /\ bkpt.line \in DOMAIN hl_lm.lineToAddr
       /\ \E h \in Range(hl_lm.lineToAddr[bkpt.line]) :
            bkpt.pc \in Range(GetAddressesFromLine(ll_lm, h))

\* hsail_breakpoint_from_line_resolve establishes it: the nearest line is a
\* mapped one, so its addresses are its own.
LEMMA ResolveEstablishes ==
  ASSUME MappingInv, NEW line \in Lines, ResolveBreakpoint(line)
  PROVE  BreakpointInv'
<1> DEFINE near == NearestMappedLine(line)
           hAddrs == GetAddressesFromLine(hl_lm, near)
           hits == {i \in DOMAIN hAddrs :
                      GetAddressesFromLine(ll_lm, hAddrs[i]) # <<>>}
           h == hAddrs[Min(hits)]
<1>1. /\ near # NotFound /\ FirstAddrOfLine(near) # NotFound
      /\ bkpt' = [asked |-> line, line |-> near, pc |-> FirstAddrOfLine(near)]
      /\ UNCHANGED <<hl_lm, ll_lm>> /\ phase' = "loaded"
  BY DEF ResolveBreakpoint
<1>2. near \in DOMAIN hl_lm.lineToAddr
  <2>1. GetNearestMappedLine(hl_lm, line)
          \in DOMAIN hl_lm.lineToAddr \cup {NotFound}
    BY FirstMappedFacts, WindowAssumption DEF GetNearestMappedLine, Lines
  <2>2. near \in {GetNearestMappedLine(hl_lm, line), NotFound}
    BY DEF NearestMappedLine
  <2>3. QED
    BY <2>1, <2>2, <1>1
<1>3. near \in Nat
  BY <1>2 DEF MappingInv, IsMapping, Lines
<1>4. hAddrs = hl_lm.lineToAddr[near]
  BY <1>2, <1>3, AddressesOfMapped
<1>5. hAddrs \in Seq(HAddrs)
  BY <1>2, <1>4 DEF MappingInv, IsMapping
<1>6. /\ hits # {}
      /\ FirstAddrOfLine(near) = GetAddressesFromLine(ll_lm, h)[1]
  BY <1>1 DEF FirstAddrOfLine
<1>7. Min(hits) \in hits
  <2>1. hits \in SUBSET Nat
    BY <1>5
  <2> HIDE DEF hits
  <2>2. QED
    BY <2>1, <1>6, MinOfNats
<1>8. h \in Range(hAddrs) /\ GetAddressesFromLine(ll_lm, h) # <<>>
  BY <1>7 DEF Range
<1>9. GetAddressesFromLine(ll_lm, h) \in Seq(LAddrs)
  BY AddressesOfFacts DEF GetAddressesFromLine, MappingInv
<1>10. FirstAddrOfLine(near) \in Range(GetAddressesFromLine(ll_lm, h))
  <2> DEFINE v == GetAddressesFromLine(ll_lm, h)
  <2>1. v \in Seq(LAddrs) /\ v # <<>> /\ FirstAddrOfLine(near) = v[1]
    BY <1>6, <1>8, <1>9
  <2> HIDE DEF v
  <2>2. 1 \in DOMAIN v
    BY <2>1
  <2>3. v[1] \in Range(v)
    BY <2>2 DEF Range
  <2>4. QED
    BY <2>1, <2>3 DEF v
<1>11. /\ near \in DOMAIN hl_lm'.lineToAddr
       /\ h \in Range(hl_lm'.lineToAddr[near])
       /\ FirstAddrOfLine(near) \in Range(GetAddressesFromLine(ll_lm', h))
  BY <1>1, <1>2, <1>4, <1>8, <1>10
<1> HIDE DEF near, h
<1>12. bkpt'.line = near /\ bkpt'.pc = FirstAddrOfLine(near)
  BY <1>1
<1>13. QED
  BY <1>1, <1>11, <1>12 DEF BreakpointInv

\* The last breakpoint resolved stays as it is until the mappings go.
LEMMA BreakpointInvHolds == Spec => []BreakpointInv
<1>1. Init => BreakpointInv
  BY DEF Init, BreakpointInv
<1>2. MappingInv /\ BreakpointInv /\ [Next]_vars => BreakpointInv'
  <2> SUFFICES ASSUME MappingInv, BreakpointInv, [Next]_vars
               PROVE  BreakpointInv'
    OBVIOUS
  <2>1. ASSUME bkpt' = NoBreakpoint
        PROVE  BreakpointInv'
    BY <2>1 DEF BreakpointInv
  <2>2. ASSUME UNCHANGED <<hl_lm, ll_lm, bkpt>>,
               phase' \in {"high", "low"} => phase' = phase
        PROVE  BreakpointInv'
    BY <2>2 DEF BreakpointInv
  <2>3. ASSUME NEW t \in Trees, NewBinary(t)
        PROVE  BreakpointInv'
    BY <2>1, <2>3 DEF NewBinary, NoObject
  <2>4. ASSUME NEW line \in Lines, NEW addr \in HAddrs, HighRow(line, addr)
        PROVE  BreakpointInv'
    BY <2>1, <2>4 DEF HighRow, BreakpointInv
  <2>5. CASE EndOfHigh
    BY <2>1, <2>5 DEF EndOfHigh, BreakpointInv
  <2>6. ASSUME NEW line \in HAddrs, NEW addr \in LAddrs, LowRow(line, addr)
        PROVE  BreakpointInv'
    BY <2>1, <2>6 DEF LowRow, BreakpointInv
  <2>7. CASE EndOfLow
    BY <2>1, <2>7 DEF EndOfLow, BreakpointInv
  <2>8. CASE Free
    BY <2>1, <2>8 DEF Free, NoObject
  <2>9. ASSUME NEW line \in Lines, ResolveBreakpoint(line)
        PROVE  BreakpointInv'
    BY <2>9, ResolveEstablishes
  <2>10. CASE StepIn
    BY <2>2, <2>10 DEF StepIn, WriteStep
  <2>11. ASSUME NEW pc \in DOMAIN ll_lm.addrToLine, StepOut(pc)
         PROVE  BreakpointInv'
    BY <2>2, <2>11 DEF StepOut, WriteStep
  <2>12. CASE UNCHANGED vars
    BY <2>2, <2>12 DEF vars
  <2>13. QED
    BY <2>3, <2>4, <2>5, <2>6, <2>7, <2>8, <2>9, <2>10, <2>11, <2>12 DEF Next
<1>3. QED
  BY <1>1, <1>2, MappingInvHolds, PTL DEF Spec

\* Where the finalizer made code for each instruction that has a line, the
\* address of a breakpoint is reported at the line the breakpoint was moved to:
\* the line's instruction has addresses of its own, and each search that looks
\* ahead finds first what it was asked for.
THEOREM BreakpointsMapBack == Spec => []BreakpointMapsBack
<1>1. MappingInv /\ BreakpointInv => BreakpointMapsBack
  <2> SUFFICES ASSUME MappingInv, BreakpointInv, bkpt # NoBreakpoint, Complete
               PROVE  AddrToLine(bkpt.pc) = bkpt.line
    BY DEF BreakpointMapsBack
  <2>1. PICK h \in Range(hl_lm.lineToAddr[bkpt.line]) :
               bkpt.pc \in Range(GetAddressesFromLine(ll_lm, h))
    BY DEF BreakpointInv
  <2>2. bkpt.line \in DOMAIN hl_lm.lineToAddr
    BY DEF BreakpointInv
  <2>3. h \in DOMAIN hl_lm.addrToLine /\ hl_lm.addrToLine[h] = bkpt.line
    BY <2>1, <2>2 DEF MappingInv, Agrees
  <2>4. h \in DOMAIN ll_lm.lineToAddr /\ h \in Nat
    BY <2>3 DEF Complete, MappingInv, IsMapping, HAddrs
  <2>5. bkpt.pc \in Range(ll_lm.lineToAddr[h])
    BY <2>1, <2>4, AddressesOfMapped
  <2>6. bkpt.pc \in DOMAIN ll_lm.addrToLine /\ ll_lm.addrToLine[bkpt.pc] = h
    BY <2>4, <2>5 DEF MappingInv, Agrees
  <2>7. bkpt.pc \in Nat
    BY <2>6 DEF MappingInv, IsMapping, LAddrs
  <2>8. GetLineFromAddress(ll_lm, bkpt.pc) = h
    BY <2>6, <2>7, LineOfMapped
  <2>9. GetLineFromAddress(hl_lm, h) = bkpt.line
    BY <2>3, <2>4, LineOfMapped
  <2>10. h # NotFound
    BY <2>4 DEF NotFound
  <2>11. QED
    BY <2>8, <2>9, <2>10 DEF AddrToLine
<1>2. QED
  BY <1>1, MappingInvHolds, BreakpointInvHolds, PTL

\* The object and the last step: the caches are those of the instructions of
\* the high level, the last step is one with this object, and an assertion
\* failed because there were no addresses or too many.
ObjectInv ==
  /\ phase \in {"none", "high", "low", "loaded", "failed"}
  /\ hl_sc \in Trees \cup {<<>>}
  /\ phase # "none" => hl_sc \in Trees
  /\ cache = IF phase \in {"none", "high"} THEN <<>>
             ELSE MapAddressesToCodeScopes(hl_sc, hl_lm)
  /\ bkpt \in [asked : Lines \cup {0}, line : Lines \cup {0},
               pc : LAddrs \cup {0}]
  /\ phase \in {"none", "high", "low"} => step = NoStep
  /\ \/ step = NoStep
     \/ step = [kind |-> "in", from |-> 0, targets |-> AllMappedAddrs]
     \/ \E pc \in DOMAIN ll_lm.addrToLine :
          step = [kind |-> "out", from |-> pc,
                  targets |-> StepAddresses(pc, TRUE)]
  /\ phase = "failed" => step.targets = <<>> \/ ~Fit(step.targets)

\* A breakpoint that is resolved is typed.
LEMMA ResolveTypes ==
  ASSUME MappingInv, NEW line \in Lines, ResolveBreakpoint(line)
  PROVE  bkpt' \in [asked : Lines \cup {0}, line : Lines \cup {0},
                    pc : LAddrs \cup {0}]
<1>1. BreakpointInv'
  BY ResolveEstablishes
<1>2. /\ \E l, pc : bkpt' = [asked |-> line, line |-> l, pc |-> pc]
      /\ bkpt'.line # NotFound
      /\ UNCHANGED <<hl_lm, ll_lm>>
  BY DEF ResolveBreakpoint
<1>3. bkpt' # NoBreakpoint
  <2>1. bkpt'.asked = line /\ line # 0
    BY <1>2 DEF Lines
  <2>2. QED
    BY <2>1 DEF NoBreakpoint
<1>4. /\ bkpt'.line \in DOMAIN hl_lm.lineToAddr
      /\ \E h : bkpt'.pc \in Range(GetAddressesFromLine(ll_lm, h))
  BY <1>1, <1>2, <1>3 DEF BreakpointInv
<1>5. bkpt'.line \in Lines
  BY <1>4 DEF MappingInv, IsMapping
<1>6. bkpt'.pc \in LAddrs
  <2>1. PICK h : bkpt'.pc \in Range(GetAddressesFromLine(ll_lm, h))
    BY <1>4
  <2>2. GetAddressesFromLine(ll_lm, h) \in Seq(LAddrs)
    BY AddressesOfFacts DEF GetAddressesFromLine, MappingInv
  <2>3. QED
    BY <2>1, <2>2 DEF Range
<1>7. QED
  BY <1>2, <1>5, <1>6

\* What is asked of an object stays as long as the object does.
LEMMA SameObject ==
  ASSUME UNCHANGED <<hl_lm, ll_lm, hl_sc, cache>>
  PROVE  /\ AllMappedAddrs' = AllMappedAddrs
         /\ \A pc, out : StepAddresses(pc, out)' = StepAddresses(pc, out)
BY DEF AllMappedAddrs, LowAddresses, StepAddresses, CachedHAddresses,
       AddressCache

\* ObjectInv is inductive.
LEMMA ObjectInvHolds == Spec => []ObjectInv
<1>1. Init => ObjectInv
  BY DEF Init, ObjectInv, NoBreakpoint, NoStep
<1>2. MappingInv /\ ObjectInv /\ [Next]_vars => ObjectInv'
  <2> SUFFICES ASSUME MappingInv, ObjectInv, [Next]_vars
               PROVE  ObjectInv'
    OBVIOUS
  <2>1. ASSUME NEW t \in Trees, NewBinary(t)
        PROVE  ObjectInv'
    BY <2>1 DEF NewBinary, NoObject, ObjectInv, NoBreakpoint, NoStep
  <2>2. ASSUME NEW line \in Lines, NEW addr \in HAddrs, HighRow(line, addr)
        PROVE  ObjectInv'
    BY <2>2 DEF HighRow, ObjectInv, NoStep
  <2>3. CASE EndOfHigh
    BY <2>3 DEF EndOfHigh, ObjectInv, NoStep
  <2>4. ASSUME NEW line \in HAddrs, NEW addr \in LAddrs, LowRow(line, addr)
        PROVE  ObjectInv'
    BY <2>4 DEF LowRow, ObjectInv, NoStep
  <2>5. CASE EndOfLow
    BY <2>5 DEF EndOfLow, ObjectInv, NoStep
  <2>6. CASE Free
    BY <2>6 DEF Free, NoObject, ObjectInv, NoBreakpoint, NoStep
  <2>7. ASSUME UNCHANGED <<phase, hl_lm, ll_lm, hl_sc, cache, step>>,
               bkpt' \in [asked : Lines \cup {0}, line : Lines \cup {0},
                          pc : LAddrs \cup {0}]
        PROVE  ObjectInv'
    BY <2>7, SameObject DEF ObjectInv
  <2>8. ASSUME NEW line \in Lines, ResolveBreakpoint(line)
        PROVE  ObjectInv'
    BY <2>7, <2>8, ResolveTypes DEF ResolveBreakpoint
  <2>9. ASSUME NEW kind, NEW pc, NEW targets, phase = "loaded",
               WriteStep(kind, pc, targets),
               \/ kind = "in" /\ pc = 0 /\ targets = AllMappedAddrs
               \/ /\ kind = "out" /\ pc \in DOMAIN ll_lm.addrToLine
                  /\ targets = StepAddresses(pc, TRUE)
        PROVE  ObjectInv'
    <3>1. /\ UNCHANGED <<hl_lm, ll_lm, hl_sc, cache, bkpt>>
          /\ phase' \in {"loaded", "failed"}
          /\ phase' = "failed" => targets = <<>> \/ ~Fit(targets)
          /\ step' = [kind |-> kind, from |-> pc, targets |-> targets]
          /\ step'.targets = targets
      BY <2>9 DEF WriteStep
    <3>2. /\ hl_sc' \in Trees
          /\ cache' = MapAddressesToCodeScopes(hl_sc, hl_lm)'
          /\ bkpt' \in [asked : Lines \cup {0}, line : Lines \cup {0},
                        pc : LAddrs \cup {0}]
      BY <2>9, <3>1 DEF ObjectInv
    <3>3. \/ step' = [kind |-> "in", from |-> 0, targets |-> AllMappedAddrs']
          \/ \E x \in DOMAIN ll_lm'.addrToLine :
               step' = [kind |-> "out", from |-> x,
                        targets |-> StepAddresses(x, TRUE)']
      BY <2>9, <3>1, SameObject
    <3>4. QED
      BY <3>1, <3>2, <3>3 DEF ObjectInv, Fit
  <2>10. CASE StepIn
    BY <2>9, <2>10 DEF StepIn
  <2>11. ASSUME NEW pc \in DOMAIN ll_lm.addrToLine, StepOut(pc)
         PROVE  ObjectInv'
    BY <2>9, <2>11 DEF StepOut
  <2>12. CASE UNCHANGED vars
    BY <2>7, <2>12 DEF vars, ObjectInv
  <2>13. QED
    BY <2>1, <2>2, <2>3, <2>4, <2>5, <2>6, <2>8, <2>10, <2>11, <2>12 DEF Next
<1>3. QED
  BY <1>1, <1>2, MappingInvHolds, PTL DEF Spec

\* The caches are of scopes of a tree and hold mapped instructions.
LEMMA CachesOfObject ==
  ASSUME MappingInv, ObjectInv
  PROVE  /\ DOMAIN cache \subseteq DOMAIN hl_lm.addrToLine
         /\ DOMAIN cache \subseteq HAddrs
         /\ phase # "none" => IsTree(hl_sc)
<1>1. DOMAIN cache \subseteq DOMAIN hl_lm.addrToLine
  <2>1. CASE cache = <<>>
    BY <2>1
  <2>2. CASE cache = MapAddressesToCodeScopes(hl_sc, hl_lm)
    BY <2>2 DEF MapAddressesToCodeScopes
  <2>3. QED
    BY <2>1, <2>2 DEF ObjectInv
<1>2. QED
  BY <1>1, TreesAreTrees DEF ObjectInv, MappingInv, IsMapping

\* The addresses of a step are mapped ones; each comes once where the finalizer
\* made code for each instruction that has a line.
LEMMA StepTargets ==
  ASSUME MappingInv, ObjectInv
  PROVE  /\ step.targets \in Seq(LAddrs)
         /\ Range(step.targets) \subseteq DOMAIN ll_lm.addrToLine
         /\ Complete => IsInjective(step.targets)
<1>1. ASSUME NEW hs \in Seq(HAddrs), IsInjective(hs),
             Range(hs) \subseteq DOMAIN hl_lm.addrToLine
      PROVE  /\ LowAddresses(hs) \in Seq(LAddrs)
             /\ Range(LowAddresses(hs)) \subseteq DOMAIN ll_lm.addrToLine
             /\ Complete => IsInjective(LowAddresses(hs))
  <2>1. IsMapping(ll_lm, LAddrs, HAddrs) /\ Agrees(ll_lm)
    BY DEF MappingInv
  <2>2. ASSUME NEW h
        PROVE  Range(GetAddressesFromLine(ll_lm, h))
                 \subseteq DOMAIN ll_lm.addrToLine
    BY <2>1, AddressesOfFacts DEF GetAddressesFromLine
  <2>3. QED
    BY <1>1, <2>1, <2>2, LowAddressesFacts DEF Complete
<1>2. CASE step = NoStep
  <2>1. step.targets = <<>> /\ DOMAIN <<>> = {}
    BY <1>2 DEF NoStep
  <2>2. QED
    BY <2>1 DEF Range, IsInjective
<1>3. CASE step = [kind |-> "in", from |-> 0, targets |-> AllMappedAddrs]
  <2>1. /\ hl_lm.mappedAddrs \in Seq(HAddrs) /\ IsInjective(hl_lm.mappedAddrs)
        /\ Range(hl_lm.mappedAddrs) = DOMAIN hl_lm.addrToLine
    BY DEF MappingInv, IsMapping, Agrees
  <2>2. step.targets = LowAddresses(hl_lm.mappedAddrs)
    BY <1>3 DEF AllMappedAddrs
  <2>3. QED
    BY <1>1, <2>1, <2>2
<1>4. ASSUME NEW pc \in DOMAIN ll_lm.addrToLine,
             step = [kind |-> "out", from |-> pc,
                     targets |-> StepAddresses(pc, TRUE)]
      PROVE  /\ step.targets \in Seq(LAddrs)
             /\ Range(step.targets) \subseteq DOMAIN ll_lm.addrToLine
             /\ Complete => IsInjective(step.targets)
  <2> DEFINE h == GetLineFromAddress(ll_lm, pc)
             hs == CachedHAddresses(h, FALSE)
  <2>1. h = ll_lm.addrToLine[pc] /\ h # NotFound
    <3>1. pc \in Nat /\ ll_lm.addrToLine[pc] \in HAddrs
      BY DEF MappingInv, IsMapping, LAddrs
    <3>2. h = ll_lm.addrToLine[pc]
      BY <3>1, LineOfMapped
    <3>3. QED
      BY <3>1, <3>2 DEF HAddrs, NotFound
  <2>2. step.targets = LowAddresses(hs)
    BY <1>4, <2>1 DEF StepAddresses
  <2>3. phase # "none"
    BY <1>4 DEF ObjectInv, NoStep
  <2>4. IsTree(hl_sc) /\ DOMAIN cache \subseteq HAddrs
        /\ DOMAIN cache \subseteq DOMAIN hl_lm.addrToLine
    BY <2>3, CachesOfObject
  <2> HIDE DEF h
  <2>5. /\ hs \in Seq(HAddrs) /\ IsInjective(hs)
        /\ \A a \in Range(hs) : a \in DOMAIN cache
    BY <2>4, CachedFacts
  <2>6. Range(hs) \subseteq DOMAIN hl_lm.addrToLine
    BY <2>4, <2>5
  <2> HIDE DEF hs
  <2>7. QED
    BY <1>1, <2>2, <2>5, <2>6
<1>5. QED
  BY <1>2, <1>3, <1>4 DEF ObjectInv

\* The types of the object, of the breakpoint and of the step.
THEOREM TypesHold == Spec => []TypeOK
<1>1. MappingInv /\ ObjectInv => TypeOK
  <2> SUFFICES ASSUME MappingInv, ObjectInv PROVE TypeOK
    OBVIOUS
  <2>1. step \in [kind : {"none", "in", "out"}, from : LAddrs \cup {0},
                  targets : Seq(LAddrs)]
    <3>1. step.targets \in Seq(LAddrs)
      BY StepTargets
    <3>2. DOMAIN ll_lm.addrToLine \subseteq LAddrs
      BY DEF MappingInv, IsMapping
    <3>3. \E kind \in {"none", "in", "out"}, from \in LAddrs \cup {0} :
            step = [kind |-> kind, from |-> from, targets |-> step.targets]
      <4>1. CASE step = NoStep
        BY <4>1 DEF NoStep
      <4>2. CASE step = [kind |-> "in", from |-> 0, targets |-> AllMappedAddrs]
        BY <4>2
      <4>3. ASSUME NEW pc \in DOMAIN ll_lm.addrToLine,
                   step = [kind |-> "out", from |-> pc,
                           targets |-> StepAddresses(pc, TRUE)]
            PROVE  step = [kind |-> "out", from |-> pc,
                           targets |-> step.targets]
        BY <4>3
      <4>4. QED
        BY <4>1, <4>2, <4>3, <3>2 DEF ObjectInv
    <3>4. QED
      BY <3>1, <3>3
  <2>2. QED
    BY <2>1 DEF TypeOK, MappingInv, ObjectInv
<1>2. QED
  BY <1>1, MappingInvHolds, ObjectInvHolds, PTL

\* A step that does not fit in the shared memory is one of a kernel with as
\* many addresses: those of two instructions differ, and an instruction is in
\* the cache of one scope, so that none is asked for twice.
THEOREM OverflowsAreGenuine == Spec => []OverflowIsGenuine
<1>1. MappingInv /\ ObjectInv => OverflowIsGenuine
  <2> SUFFICES ASSUME MappingInv, ObjectInv, phase = "failed",
                      step.targets # <<>>, Complete
               PROVE  Cardinality(DOMAIN ll_lm.addrToLine) >= MomentarySize
    BY DEF OverflowIsGenuine
  <2> DEFINE s == step.targets
             D == DOMAIN ll_lm.addrToLine
             n == Len(s)
  <2>1. s \in Seq(LAddrs) /\ Range(s) \subseteq D /\ IsInjective(s)
    BY StepTargets
  <2>2. n \in Nat /\ DOMAIN s = 1 .. n /\ ~(n < MomentarySize)
    BY <2>1 DEF ObjectInv, Fit
  <2>3. IsFiniteSet(D)
    <3>1. IsFiniteSet(LAddrs)
      BY FS_Interval, BoundsAssumption DEF LAddrs
    <3>2. D \subseteq LAddrs
      BY DEF MappingInv, IsMapping
    <3>3. QED
      BY <3>1, <3>2, FS_Subset
  <2> HIDE DEF s, D, n
  <2>4. s \in Injection(1 .. n, D)
    BY <2>1, <2>2 DEF Injection, Range
  <2>5. Cardinality(1 .. n) <= Cardinality(D) /\ Cardinality(1 .. n) = n
    BY <2>2, <2>3, <2>4, FS_Injection, FS_Interval
  <2>6. Cardinality(D) \in Nat
    BY <2>3, FS_CardinalityType
  <2>7. QED
    BY <2>2, <2>5, <2>6, BoundsAssumption DEF D
<1>2. QED
  BY <1>1, MappingInvHolds, ObjectInvHolds, PTL

\* A step stops wherever a source breakpoint may have been set, also where the
\* low level leaves instructions out: the instruction a breakpoint was resolved
\* with is a mapped one, and the step asks for the addresses of all of these
\* with the same search.
THEOREM StepsReachBreakpoints == Spec => []StepInReachesBreakpoints
<1>1. MappingInv /\ BreakpointInv /\ ObjectInv => StepInReachesBreakpoints
  <2> SUFFICES ASSUME MappingInv, BreakpointInv, ObjectInv,
                      bkpt # NoBreakpoint, step.kind = "in"
               PROVE  bkpt.pc \in Range(step.targets)
    BY DEF StepInReachesBreakpoints
  <2>1. PICK h \in Range(hl_lm.lineToAddr[bkpt.line]) :
               bkpt.pc \in Range(GetAddressesFromLine(ll_lm, h))
    BY DEF BreakpointInv
  <2>2. bkpt.line \in DOMAIN hl_lm.lineToAddr
    BY DEF BreakpointInv
  <2>3. h \in Range(hl_lm.mappedAddrs)
    BY <2>1, <2>2 DEF MappingInv, Agrees
  <2>4. PICK i \in DOMAIN hl_lm.mappedAddrs : hl_lm.mappedAddrs[i] = h
    BY <2>3 DEF Range
  <2>5. step.targets = LowAddresses(hl_lm.mappedAddrs)
    <3>1. step = [kind |-> "in", from |-> 0, targets |-> AllMappedAddrs]
      <4>1. step # NoStep
        BY DEF NoStep
      <4>2. ASSUME NEW pc, step = [kind |-> "out", from |-> pc,
                                   targets |-> StepAddresses(pc, TRUE)]
            PROVE  FALSE
        BY <4>2
      <4>3. QED
        BY <4>1, <4>2 DEF ObjectInv
    <3>2. step.targets = AllMappedAddrs
      BY <3>1
    <3>3. QED
      BY <3>2 DEF AllMappedAddrs
  <2>6. /\ hl_lm.mappedAddrs \in Seq(HAddrs)
        /\ IsMapping(ll_lm, LAddrs, HAddrs) /\ Agrees(ll_lm)
    BY DEF MappingInv, IsMapping
  <2>7. bkpt.pc \in Range(LowAddresses(hl_lm.mappedAddrs))
    BY <2>1, <2>4, <2>6, LowAddressesFacts
  <2>8. QED
    BY <2>5, <2>7
<1>2. QED
  BY <1>1, MappingInvHolds, BreakpointInvHolds, ObjectInvHolds, PTL

(***************************************************************************)
(* Stepping out.                                                           *)
(***************************************************************************)

\* A set of scopes has a last.
LEMMA MaxOfScopes ==
  ASSUME NEW n \in Nat, NEW S \in SUBSET (1 .. n), S # {}
  PROVE  Max(S) \in S /\ \A y \in S : y <= Max(S)
<1> DEFINE T == {k \in 0 .. n : n - k \in S}
<1>1. T # {}
  <2>1. PICK x \in S : TRUE
    OBVIOUS
  <2>2. x \in 1 .. n /\ n - x \in 0 .. n /\ n - (n - x) = x
    OBVIOUS
  <2>3. n - x \in T
    BY <2>1, <2>2
  <2>4. QED
    BY <2>3
<1>2. T \in SUBSET Nat
  OBVIOUS
<1> HIDE DEF T
<1>3. PICK k \in T : \A j \in T : k <= j
  BY <1>1, <1>2, MinOfNats
<1>4. n - k \in S /\ k \in 0 .. n
  BY <1>3 DEF T
<1>5. ASSUME NEW y \in S PROVE y <= n - k
  <2>1. y \in 1 .. n /\ n - y \in 0 .. n /\ n - (n - y) = y
    OBVIOUS
  <2>2. k <= n - y
    BY <1>3, <2>1 DEF T
  <2>3. QED
    BY <1>4, <2>1, <2>2
<1>6. n - k >= n - k /\ \A y \in S : n - k >= y
  <2>1. \A y \in S : y \in Int /\ n - k \in Int
    BY <1>4
  <2>2. QED
    BY <1>4, <1>5, <2>1
<1>7. Max(S) \in S /\ \A y \in S : Max(S) >= y
  BY <1>4, <1>6 DEF Max
<1>8. QED
  <2>1. \A y \in S : y \in 1 .. n
    OBVIOUS
  <2>2. Max(S) \in 1 .. n
    BY <1>7, <2>1
  <2>3. \A y \in S : Max(S) >= y /\ y \in Int /\ Max(S) \in Int
    BY <1>7, <2>1, <2>2
  <2> DEFINE m == Max(S)
  <2> HIDE DEF m
  <2>4. \A y \in S : y <= m
    BY <2>3 DEF m
  <2>5. QED
    BY <1>7, <2>4 DEF m

\* The parent of a scope has the addresses of the scope.
LEMMA ParentHasIt ==
  ASSUME NEW t, IsTree(t), Nested(t), NEW addr \in Nat,
         NEW s \in 2 .. Len(t), IsAddressInCodeScope(t[s], addr)
  PROVE  /\ t[s].parent \in 1 .. Len(t) /\ t[s].parent < s
         /\ IsAddressInCodeScope(t[t[s].parent], addr)
<1> DEFINE p == t[s].parent
<1>1. s \in 1 .. Len(t) /\ s # 1 /\ Len(t) \in Nat
  BY TreeFacts
<1>2. p \in 0 .. s - 1 /\ p # 0 /\ t[s] \in Scope
  BY <1>1, TreeFacts
<1>3. p \in 1 .. Len(t) /\ p < s
  BY <1>1, <1>2
<1>4. t[p] \in Scope
  BY <1>3, TreeFacts
<1>5. t[p].minAddr <= t[s].minAddr /\ t[s].maxAddr <= t[p].maxAddr
  BY DEF Nested
<1>6. t[s].minAddr <= addr /\ addr <= t[s].maxAddr
  BY DEF IsAddressInCodeScope
<1>7. /\ t[p].minAddr \in Nat /\ t[p].maxAddr \in Nat
      /\ t[s].minAddr \in Nat /\ t[s].maxAddr \in Nat
  BY <1>2, <1>4 DEF Scope
<1>8. t[p].minAddr <= addr /\ addr <= t[p].maxAddr
  BY <1>5, <1>6, <1>7
<1>9. QED
  BY <1>3, <1>8 DEF IsAddressInCodeScope

\* So has each function around the scope, and the unit.
LEMMA EnclosingHaveIt ==
  ASSUME NEW t, IsTree(t), Nested(t), NEW addr \in Nat,
         NEW r \in 1 .. Len(t), IsAddressInCodeScope(t[r], addr)
  PROVE  /\ IsAddressInCodeScope(t[1], addr)
         /\ \A x \in Range(EnclosingFunctions(t, r)) :
              IsAddressInCodeScope(t[x], addr)
<1> DEFINE Good(s) == /\ IsAddressInCodeScope(t[1], addr)
                      /\ \A x \in Range(EnclosingFunctions(t, s)) :
                           IsAddressInCodeScope(t[x], addr)
           Bad == {s \in 1 .. Len(t) :
                     IsAddressInCodeScope(t[s], addr) /\ ~Good(s)}
<1> SUFFICES ASSUME Bad # {} PROVE FALSE
  OBVIOUS
<1> HIDE DEF Good
<1>0. Len(t) \in Nat
  BY TreeFacts
<1>1. PICK s \in Bad : \A j \in Bad : s <= j
  <2>1. Bad \in SUBSET Nat
    BY <1>0
  <2>2. QED
    BY <2>1, MinOfNats
<1>2. s \in 1 .. Len(t) /\ IsAddressInCodeScope(t[s], addr) /\ ~Good(s)
  OBVIOUS
<1> HIDE DEF Bad
<1> DEFINE p == t[s].parent
           own == IF IsFunction(t[s]) THEN <<s>> ELSE <<>>
           rest == EnclosingFunctions(t, p)
<1>3. s \in 0 .. Len(t) /\ s # 0 /\ p \in 0 .. Len(t)
  BY <1>0, <1>2, TreeFacts
<1>4. EnclosingFunctions(t, s) = own \o rest
  BY <1>3, EnclosingStep
<1>5. /\ own \in Seq(1 .. Len(t)) /\ \A x \in Range(own) : x = s
  <2>1. CASE IsFunction(t[s])
    BY <2>1, <1>2 DEF Range
  <2>2. CASE ~IsFunction(t[s])
    BY <2>2 DEF Range
  <2>3. QED
    BY <2>1, <2>2
<1>6. rest \in Seq(1 .. Len(t))
  BY <1>3, EnclosingFacts
<1> HIDE DEF own, rest, p
<1>7. \A x \in Range(EnclosingFunctions(t, s)) : x = s \/ x \in Range(rest)
  BY <1>4, <1>5, <1>6, ConcatFacts
<1>8. CASE s = 1
  <2>1. p = 0
    BY <1>2, <1>8, TreeFacts DEF p
  <2>2. rest = <<>>
    BY <2>1, <1>3, EnclosingStep DEF rest
  <2>3. Range(rest) = {}
    <3>1. DOMAIN <<>> = {}
      OBVIOUS
    <3>2. QED
      BY <2>2, <3>1 DEF Range
  <2>4. QED
    BY <1>2, <1>7, <1>8, <2>3 DEF Good
<1>9. CASE s # 1
  <2>1. s \in 2 .. Len(t)
    BY <1>0, <1>2, <1>9
  <2>2. p \in 1 .. Len(t) /\ p < s /\ IsAddressInCodeScope(t[p], addr)
    BY <1>2, <2>1, ParentHasIt DEF p
  <2>3. Good(p)
    <3>1. ~(s <= p)
      BY <1>0, <1>2, <2>2
    <3>2. QED
      BY <1>1, <2>2, <3>1 DEF Bad
  <2>4. QED
    BY <1>2, <1>7, <2>3 DEF Good, rest
<1>10. QED
  BY <1>8, <1>9

\* The search from the unit passes through each scope that has the address, but
\* for the bare ones: of its siblings none is searched.
LEMMA SearchPasses ==
  ASSUME NEW t, IsTree(t), Nested(t), NEW addr \in Nat,
         \A s \in DOMAIN t : t[s].nonTrivial => t[s].maxAddr # addr,
         NEW r \in 1 .. Len(t), t[r].nonTrivial,
         IsAddressInCodeScope(t[r], addr)
  PROVE  FindSmallestScopeContainingAddress(t, addr) = Found(t, addr)[r]
<1> DEFINE f == Found(t, addr)
           n == Len(t)
<1>0. n \in Nat /\ DOMAIN t = 1 .. n
  BY TreeFacts
<1>1. PICK bare \in SUBSET (2 .. n) :
        /\ \A s \in bare : ~t[s].nonTrivial
        /\ \A s \in 2 .. n : t[s].parent \in bare => s \in bare
        /\ \A c, d \in 2 .. n :
             c # d /\ t[c].parent = t[d].parent
               => \/ /\ t[c].nonTrivial /\ t[d].nonTrivial
                     /\ \/ t[c].maxAddr <= t[d].minAddr
                        \/ t[d].maxAddr <= t[c].minAddr
                  \/ /\ c \in bare \/ d \in bare
                     /\ c \in bare \/ t[c].nonTrivial
                     /\ d \in bare \/ t[d].nonTrivial
  BY Zenon DEF Nested
<1>2. /\ FindSmallestScopeContainingAddress(t, addr) = f[1]
      /\ \A s \in DOMAIN t : f[s] = FoundAt(f, t, addr, s)
      /\ \A s \in DOMAIN t : f[s] # 0 <=> IsAddressInCodeScope(t[s], addr)
  BY FoundFacts, FoundTypes
<1> HIDE DEF f, n
<1> DEFINE Bad == {s \in 1 .. n : /\ s \notin bare
                                  /\ IsAddressInCodeScope(t[s], addr)
                                  /\ f[s] # f[1]}
<1>3. Bad = {}
  <2> SUFFICES ASSUME Bad # {} PROVE FALSE
    OBVIOUS
  <2>1. PICK s \in Bad : \A j \in Bad : s <= j
    <3>1. Bad \in SUBSET Nat
      BY <1>0
    <3>2. QED
      BY <3>1, MinOfNats
  <2>2. /\ s \in 1 .. n /\ s \notin bare /\ IsAddressInCodeScope(t[s], addr)
        /\ f[s] # f[1]
    OBVIOUS
  <2> HIDE DEF Bad
  <2> DEFINE p == t[s].parent
  <2>3. s \in 2 .. n
    BY <1>0, <2>2
  <2>4. p \in 1 .. n /\ p < s /\ IsAddressInCodeScope(t[p], addr)
    BY <2>2, <2>3, ParentHasIt DEF n
  <2>5. p \notin bare
    BY <1>1, <2>2, <2>3
  <2>6. f[p] = f[1]
    <3>1. ~(s <= p)
      BY <1>0, <2>2, <2>4
    <3>2. QED
      BY <2>1, <2>4, <2>5, <3>1 DEF Bad
  <2> DEFINE hits == {c \in DOMAIN t : t[c].parent = p /\ f[c] # 0}
             first == FirstChild(t, hits)
  <2>7. s \in hits
    BY <1>0, <1>2, <2>2
  <2>8. first \in hits
    <3>1. p \in DOMAIN t /\ hits # {}
      BY <1>0, <2>4, <2>7
    <3> HIDE DEF p
    <3>2. QED
      BY <3>1, FoundAtFacts
  <2>9. f[p] = f[first]
    BY <1>0, <1>2, <2>4, <2>7, Zenon DEF FoundAt
  <2>10. first = s
    <3> SUFFICES ASSUME first # s PROVE FALSE
      OBVIOUS
    <3>1. /\ first \in 1 .. n /\ t[first].parent = p
          /\ IsAddressInCodeScope(t[first], addr)
      BY <1>0, <1>2, <2>8
    <3>2. first \in 2 .. n
      <4>1. first # 1
        BY <1>0, <2>4, <3>1, TreeFacts
      <4>2. QED
        BY <1>0, <3>1, <4>1
    <3>3. \/ /\ t[first].nonTrivial /\ t[s].nonTrivial
             /\ \/ t[first].maxAddr <= t[s].minAddr
                \/ t[s].maxAddr <= t[first].minAddr
          \/ /\ first \in bare \/ s \in bare
             /\ first \in bare \/ t[first].nonTrivial
             /\ s \in bare \/ t[s].nonTrivial
      BY <1>1, <2>3, <3>1, <3>2
    <3>4. CASE /\ t[first].nonTrivial /\ t[s].nonTrivial
               /\ \/ t[first].maxAddr <= t[s].minAddr
                  \/ t[s].maxAddr <= t[first].minAddr
      <4>1. /\ t[first].minAddr <= addr /\ addr <= t[first].maxAddr
            /\ t[s].minAddr <= addr /\ addr <= t[s].maxAddr
        BY <2>2, <3>1 DEF IsAddressInCodeScope
      <4>2. /\ t[first].minAddr \in Nat /\ t[first].maxAddr \in Nat
            /\ t[s].minAddr \in Nat /\ t[s].maxAddr \in Nat
        BY <2>2, <3>1, TreeFacts DEF Scope, n
      <4>3. t[first].maxAddr = addr \/ t[s].maxAddr = addr
        BY <3>4, <4>1, <4>2
      <4>4. QED
        BY <4>3, <3>4, <1>0, <2>2, <3>1
    <3>5. CASE /\ first \in bare \/ s \in bare
               /\ first \in bare \/ t[first].nonTrivial
               /\ s \in bare \/ t[s].nonTrivial
      <4>1. first \in bare /\ t[s].nonTrivial
        BY <2>2, <3>5
      <4> DEFINE ranged == {c \in hits : t[c].nonTrivial}
      <4>2. s \in ranged
        BY <2>7, <4>1
      <4>3. ranged \in SUBSET Nat
        BY <1>0
      <4>4. first = Min(ranged)
        BY <4>2 DEF FirstChild
      <4> HIDE DEF first
      <4>5. first \in ranged
        BY <4>2, <4>3, <4>4, MinOfNats
      <4>6. QED
        BY <1>1, <4>1, <4>5
    <3>6. QED
      BY <3>3, <3>4, <3>5
  <2>11. QED
    BY <2>2, <2>6, <2>9, <2>10
<1>4. r \notin bare
  BY <1>1
<1>5. f[r] = f[1]
  BY <1>3, <1>4 DEF n
<1>6. QED
  BY <1>2, <1>5 DEF f

\* Below the last function that has the address the search stays in it: a scope
\* found there is in the same functions.
LEMMA SearchStays ==
  ASSUME NEW t, IsTree(t), Nested(t), NEW addr \in Nat,
         NEW g \in 2 .. Len(t), IsFunction(t[g]),
         IsAddressInCodeScope(t[g], addr),
         \A s \in DOMAIN t :
           IsFunction(t[s]) /\ t[s].nonTrivial
             /\ IsAddressInCodeScope(t[s], addr) => s <= g
  PROVE  EnclosingFunctions(t, Found(t, addr)[g]) = EnclosingFunctions(t, g)
<1> DEFINE f == Found(t, addr)
           n == Len(t)
           Same(x) == EnclosingFunctions(t, x) = EnclosingFunctions(t, g)
           Bad == {k \in 0 .. n : /\ n - k \in g .. n
                                  /\ IsAddressInCodeScope(t[n - k], addr)
                                  /\ Same(n - k) /\ ~Same(f[n - k])}
<1>0. n \in Nat /\ DOMAIN t = 1 .. n /\ g \in 2 .. n
  BY TreeFacts
<1>1. /\ \A s \in DOMAIN t : f[s] = FoundAt(f, t, addr, s)
      /\ \A s \in DOMAIN t : f[s] # 0 <=> IsAddressInCodeScope(t[s], addr)
  BY FoundFacts, FoundTypes
<1> HIDE DEF f, n, Same
<1>2. Bad = {}
  <2> SUFFICES ASSUME Bad # {} PROVE FALSE
    OBVIOUS
  <2>1. PICK k \in Bad : \A j \in Bad : k <= j
    <3>1. Bad \in SUBSET Nat
      BY <1>0
    <3>2. QED
      BY <3>1, MinOfNats
  <2> DEFINE x == n - k
  <2>2. /\ k \in 0 .. n /\ x \in g .. n /\ IsAddressInCodeScope(t[x], addr)
        /\ Same(x) /\ ~Same(f[x])
    OBVIOUS
  <2> HIDE DEF Bad
  <2>3. x \in 2 .. n /\ x \in DOMAIN t /\ n - x = k
    BY <1>0, <2>2
  <2> HIDE DEF x
  <2> DEFINE hits == {c \in DOMAIN t : t[c].parent = x /\ f[c] # 0}
             first == FirstChild(t, hits)
  <2>4. f[x] = IF hits = {} THEN x ELSE f[first]
    BY <1>1, <2>2, <2>3, Zenon DEF FoundAt
  <2>5. hits # {}
    BY <2>2, <2>4
  <2>6. first \in hits /\ first \in x + 1 .. n
    <3>1. hits # {} => first \in hits /\ first \in x + 1 .. n
      BY <2>3, FoundAtFacts DEF n
    <3> HIDE DEF first, hits
    <3>2. QED
      BY <3>1, <2>5
  <2>7. /\ first \in DOMAIN t /\ first \in 2 .. n /\ t[first].parent = x
        /\ IsAddressInCodeScope(t[first], addr)
        /\ f[x] = f[first]
    BY <1>0, <1>1, <2>3, <2>4, <2>5, <2>6
  <2> HIDE DEF first, hits
  <2>8. ~IsFunction(t[first])
    <3> SUFFICES ASSUME IsFunction(t[first]) PROVE FALSE
      OBVIOUS
    <3>1. CASE t[first].nonTrivial
      <4>1. first <= g
        BY <2>7, <3>1
      <4>2. QED
        BY <4>1, <1>0, <2>2, <2>6
    <3>2. CASE ~t[first].nonTrivial
      <4>1. t[first].parent = 1
        BY <2>7, <3>2 DEF Nested, n
      <4>2. QED
        BY <4>1, <2>3, <2>7
    <3>3. QED
      BY <3>1, <3>2
  <2>9. Same(first)
    <3>1. first \in 0 .. Len(t) /\ first # 0 /\ x \in 0 .. Len(t)
      BY <1>0, <2>3, <2>7 DEF n
    <3>2. EnclosingFunctions(t, first) = <<>> \o EnclosingFunctions(t, x)
      BY <3>1, <2>7, <2>8, EnclosingStep
    <3>3. EnclosingFunctions(t, x) \in Seq(1 .. Len(t))
      BY <3>1, EnclosingFacts
    <3>4. EnclosingFunctions(t, first) = EnclosingFunctions(t, x)
      BY <3>2, <3>3
    <3>5. QED
      BY <3>4, <2>2 DEF Same
  <2>10. Same(f[first])
    <3>1. /\ n - first \in 0 .. n /\ ~(k <= n - first)
          /\ n - (n - first) = first /\ first \in g .. n
      BY <1>0, <2>2, <2>3, <2>6, <2>7
    <3>2. n - first \notin Bad
      BY <2>1, <3>1
    <3>3. QED
      BY <3>1, <3>2, <2>7, <2>9 DEF Bad
  <2>11. QED
    BY <2>2, <2>7, <2>10
<1>3. n - g \in 0 .. n /\ n - (n - g) = g /\ g \in g .. n
  BY <1>0
<1>4. Same(g)
  BY DEF Same
<1>5. Same(f[g])
  BY <1>2, <1>3, <1>4
<1>6. QED
  BY <1>5 DEF Same, f

\* The cache that has an instruction is that of its innermost function; if it is
\* in none, no function's.
LEMMA HomeIsFrame ==
  ASSUME IsTree(hl_sc), Nested(hl_sc), NEW addr \in Nat,
         \A s \in DOMAIN hl_sc : hl_sc[s].nonTrivial => hl_sc[s].maxAddr # addr
  PROVE  /\ Frame(addr) # 0 =>
              /\ Frame(addr) \in 2 .. Len(hl_sc)
              /\ IsFunction(hl_sc[Frame(addr)])
              /\ hl_sc[Frame(addr)].nonTrivial
              /\ IsAddressInCodeScope(hl_sc[Frame(addr)], addr)
              /\ HomeScope(hl_sc, addr) = Frame(addr)
         /\ Frame(addr) = 0 => HomeScope(hl_sc, addr) \in {0, 1}
         /\ \A s \in DOMAIN hl_sc :
              IsFunction(hl_sc[s]) /\ hl_sc[s].nonTrivial
                /\ IsAddressInCodeScope(hl_sc[s], addr)
                => Frame(addr) # 0 /\ s <= Frame(addr)
<1> DEFINE t == hl_sc
           n == Len(t)
           functions == {s \in DOMAIN t : /\ IsFunction(t[s]) /\ t[s].nonTrivial
                                          /\ t[s].minAddr <= addr
                                          /\ addr < t[s].maxAddr}
           takers == {s \in DOMAIN t : /\ s = 1 \/ IsFunction(t[s])
                                       /\ IsAddressInCodeScope(t[s], addr)}
           ranged == {s \in takers : t[s].nonTrivial}
<1>0. n \in Nat \ {0} /\ DOMAIN t = 1 .. n
  BY TreeFacts
<1>1. /\ Frame(addr) = IF functions = {} THEN 0 ELSE Max(functions)
      /\ HomeScope(t, addr) = IF ranged # {} THEN Max(ranged)
                              ELSE IF takers # {} THEN Min(takers) ELSE 0
  BY DEF Frame, HomeScope
<1>2. ASSUME NEW s \in DOMAIN t, t[s].nonTrivial
      PROVE  IsAddressInCodeScope(t[s], addr)
               <=> t[s].minAddr <= addr /\ addr < t[s].maxAddr
  <2>1. t[s].minAddr \in Nat /\ t[s].maxAddr \in Nat
    BY <1>0, TreeFacts DEF Scope
  <2>2. t[s].maxAddr # addr
    BY <1>2
  <2>3. QED
    BY <2>1, <2>2 DEF IsAddressInCodeScope
<1>3. functions = {s \in DOMAIN t : /\ IsFunction(t[s]) /\ t[s].nonTrivial
                                    /\ IsAddressInCodeScope(t[s], addr)}
  BY <1>2
<1>4. ~IsFunction(t[1])
  BY DEF Nested
<1>5. functions \subseteq ranged /\ ranged \subseteq functions \cup {1}
      /\ ranged \subseteq takers
  BY <1>3
<1>6. /\ functions \in SUBSET (1 .. n) /\ takers \in SUBSET (1 .. n)
      /\ 1 \notin functions
      /\ \A s \in takers : IsAddressInCodeScope(t[s], addr)
      /\ IsAddressInCodeScope(t[1], addr) => 1 \in takers
  BY <1>0, <1>3, <1>4
<1>7. takers # {} => 1 \in takers
  BY <1>0, <1>6, EnclosingHaveIt
<1>8. CASE functions # {}
  <2>1. /\ Frame(addr) = Max(functions) /\ Frame(addr) \in functions
        /\ \A s \in functions : s <= Frame(addr)
    <3> HIDE DEF functions
    <3>1. QED
      BY <1>0, <1>1, <1>6, <1>8, MaxOfScopes
  <2>2. ranged # {} /\ ranged \in SUBSET (1 .. n)
    BY <1>5, <1>6, <1>8
  <2>3. Max(ranged) \in ranged /\ \A s \in ranged : s <= Max(ranged)
    <3> HIDE DEF ranged
    <3>1. QED
      BY <1>0, <2>2, MaxOfScopes
  <2>4. HomeScope(t, addr) = Max(ranged)
    BY <1>1, <2>2
  <2> DEFINE m == Max(ranged)
             g == Frame(addr)
  <2>5. g \in 2 .. n
    BY <1>0, <1>6, <2>1
  <2>6. m = g
    <3>1. g \in ranged /\ g <= m
      BY <1>5, <2>1, <2>3
    <3>2. m \in functions \/ m = 1
      BY <1>5, <2>3
    <3>3. m \in functions => m <= g
      BY <2>1
    <3>4. m \in Int /\ g \in Int /\ g > 1
      BY <2>2, <2>3, <2>5, <1>0
    <3> HIDE DEF m, g
    <3>5. QED
      BY <3>1, <3>2, <3>3, <3>4
  <2> HIDE DEF m
  <2>7. /\ IsFunction(t[g]) /\ t[g].nonTrivial
        /\ IsAddressInCodeScope(t[g], addr)
    BY <1>3, <2>1
  <2>8. \A s \in DOMAIN t :
          IsFunction(t[s]) /\ t[s].nonTrivial
            /\ IsAddressInCodeScope(t[s], addr) => s <= g
    <3> SUFFICES ASSUME NEW s \in DOMAIN t, IsFunction(t[s]),
                        t[s].nonTrivial, IsAddressInCodeScope(t[s], addr)
                 PROVE  s <= Frame(addr)
      OBVIOUS
    <3>1. s \in functions
      BY <1>3
    <3> HIDE DEF functions
    <3>2. QED
      BY <3>1, <2>1
  <2> HIDE DEF g
  <2>9. g # 0
    BY <1>0, <2>5
  <2>10. QED
    BY <2>4, <2>5, <2>6, <2>7, <2>8, <2>9 DEF m, g
<1>9. CASE functions = {}
  <2>1. Frame(addr) = 0
    BY <1>1, <1>9
  <2>2. HomeScope(t, addr) \in {0, 1}
    <3>1. CASE ranged # {}
      <4>1. ranged = {1}
        BY <1>5, <1>9, <3>1
      <4>2. Max({1}) = 1
        BY <1>0, MaxOfScopes
      <4>3. QED
        BY <1>1, <4>1, <4>2
    <3>2. CASE ranged = {} /\ takers # {}
      <4>1. takers \in SUBSET Nat /\ 1 \in takers /\ \A s \in takers : 1 <= s
        BY <1>0, <1>6, <1>7, <3>2
      <4> HIDE DEF takers
      <4>2. Min(takers) = 1
        BY <4>1, MinIs
      <4>3. QED
        BY <1>1, <3>2, <4>2
    <3>3. CASE ranged = {} /\ takers = {}
      BY <1>1, <3>3
    <3>4. QED
      BY <3>1, <3>2, <3>3
  <2>3. \A s \in DOMAIN t : ~(IsFunction(t[s]) /\ t[s].nonTrivial
                                /\ IsAddressInCodeScope(t[s], addr))
    BY <1>3, <1>9
  <2>4. QED
    BY <2>1, <2>2, <2>3
<1>10. QED
  BY <1>8, <1>9

\* The scope that is found has the address.
LEMMA FoundHasIt ==
  ASSUME NEW t, IsTree(t), NEW addr,
         FindSmallestScopeContainingAddress(t, addr) # 0
  PROVE  IsAddressInCodeScope(
           t[FindSmallestScopeContainingAddress(t, addr)], addr)
<1> DEFINE f == Found(t, addr)
           n == Len(t)
           Good(x) == IsAddressInCodeScope(t[f[x]], addr)
           Bad == {k \in 0 .. n : /\ n - k \in 1 .. n /\ f[n - k] # 0
                                  /\ ~Good(n - k)}
<1>0. n \in Nat \ {0} /\ DOMAIN t = 1 .. n
  BY TreeFacts
<1>1. /\ FindSmallestScopeContainingAddress(t, addr) = f[1]
      /\ \A s \in DOMAIN t : f[s] = FoundAt(f, t, addr, s)
      /\ \A s \in DOMAIN t : f[s] # 0 <=> IsAddressInCodeScope(t[s], addr)
  BY FoundFacts, FoundTypes
<1> HIDE DEF f, n, Good
<1>2. Bad = {}
  <2> SUFFICES ASSUME Bad # {} PROVE FALSE
    OBVIOUS
  <2>1. PICK k \in Bad : \A j \in Bad : k <= j
    <3>1. Bad \in SUBSET Nat
      BY <1>0
    <3>2. QED
      BY <3>1, MinOfNats
  <2> DEFINE x == n - k
  <2>2. k \in 0 .. n /\ x \in 1 .. n /\ f[x] # 0 /\ ~Good(x)
    OBVIOUS
  <2> HIDE DEF Bad
  <2>3. x \in DOMAIN t /\ n - x = k
    BY <1>0, <2>2
  <2> HIDE DEF x
  <2> DEFINE hits == {c \in DOMAIN t : t[c].parent = x /\ f[c] # 0}
             first == FirstChild(t, hits)
  <2>4. IsAddressInCodeScope(t[x], addr)
    BY <1>1, <2>2, <2>3
  <2>5. f[x] = IF hits = {} THEN x ELSE f[first]
    BY <1>1, <2>3, <2>4, Zenon DEF FoundAt
  <2>6. hits # {}
    BY <2>2, <2>4, <2>5 DEF Good
  <2>7. hits # {} => first \in hits /\ first \in x + 1 .. n
    BY <2>3, FoundAtFacts DEF n
  <2>8. first \in x + 1 .. n /\ f[x] = f[first]
    BY <2>5, <2>6, <2>7
  <2> HIDE DEF first, hits
  <2>9. /\ n - first \in 0 .. n /\ ~(k <= n - first)
        /\ n - (n - first) = first /\ first \in 1 .. n
    BY <1>0, <2>2, <2>3, <2>8
  <2>10. n - first \notin Bad
    BY <2>1, <2>9
  <2>11. Good(first)
    BY <2>2, <2>8, <2>9, <2>10 DEF Bad
  <2>12. QED
    BY <2>2, <2>8, <2>11 DEF Good
<1>3. n - 1 \in 0 .. n /\ n - (n - 1) = 1 /\ 1 \in 1 .. n
  BY <1>0
<1>4. Good(1)
  BY <1>1, <1>2, <1>3
<1>5. QED
  BY <1>1, <1>4 DEF Good

\* What StepOut asks for, of an address that has an instruction.
LEMMA StepOutAsksFor ==
  ASSUME MappingInv, ObjectInv, phase # "none", Complete,
         NEW pc \in DOMAIN ll_lm.addrToLine
  PROVE  LET h == ll_lm.addrToLine[pc]
             smallest == FindSmallestScopeContainingAddress(hl_sc, h)
             functions ==
               FunctionsToTake(FALSE, EnclosingFunctions(hl_sc, smallest))
         IN \A x : x \in Range(StepAddresses(pc, TRUE))
                     <=> /\ x \in DOMAIN ll_lm.addrToLine
                         /\ ll_lm.addrToLine[x] \in DOMAIN cache
                         /\ cache[ll_lm.addrToLine[x]] \in Range(functions)
<1> DEFINE h == ll_lm.addrToLine[pc]
           smallest == FindSmallestScopeContainingAddress(hl_sc, h)
           functions ==
             FunctionsToTake(FALSE, EnclosingFunctions(hl_sc, smallest))
           hs == CachedHAddresses(h, FALSE)
<1>1. GetLineFromAddress(ll_lm, pc) = h /\ h # NotFound
  <2>1. pc \in Nat /\ ll_lm.addrToLine[pc] \in HAddrs
    BY DEF MappingInv, IsMapping, LAddrs
  <2>2. GetLineFromAddress(ll_lm, pc) = h
    BY <2>1, LineOfMapped
  <2>3. QED
    BY <2>1, <2>2 DEF HAddrs, NotFound
<1>2. StepAddresses(pc, TRUE) = LowAddresses(hs)
  BY <1>1 DEF StepAddresses
<1>3. IsTree(hl_sc) /\ DOMAIN cache \subseteq HAddrs
      /\ DOMAIN cache \subseteq DOMAIN hl_lm.addrToLine
  BY CachesOfObject
<1> HIDE DEF h
<1>4. /\ hs \in Seq(HAddrs)
      /\ \A a : a \in Range(hs)
                  <=> a \in DOMAIN cache /\ cache[a] \in Range(functions)
  BY <1>3, CachedFacts
<1>5. \A x : x \in Range(LowAddresses(hs))
               <=> \E i \in DOMAIN hs :
                     x \in Range(GetAddressesFromLine(ll_lm, hs[i]))
  BY <1>4, LowAddressesFacts DEF MappingInv
<1> HIDE DEF hs, functions
<1>6. ASSUME NEW i \in DOMAIN hs
      PROVE  Range(GetAddressesFromLine(ll_lm, hs[i]))
               = {a \in DOMAIN ll_lm.addrToLine : ll_lm.addrToLine[a] = hs[i]}
  <2>1. hs[i] \in Range(hs) /\ hs[i] \in HAddrs
    BY <1>4 DEF Range
  <2>2. hs[i] \in DOMAIN ll_lm.lineToAddr
    BY <1>3, <1>4, <2>1 DEF Complete
  <2>3. hs[i] \in Nat
    BY <2>1 DEF HAddrs
  <2>4. GetAddressesFromLine(ll_lm, hs[i]) = ll_lm.lineToAddr[hs[i]]
    BY <2>2, <2>3, AddressesOfMapped
  <2>5. QED
    BY <2>2, <2>4 DEF MappingInv, Agrees
<1>7. \A x : x \in Range(LowAddresses(hs))
               <=> /\ x \in DOMAIN ll_lm.addrToLine
                   /\ ll_lm.addrToLine[x] \in Range(hs)
  <2>1. \A a : a \in Range(hs) <=> \E i \in DOMAIN hs : hs[i] = a
    BY DEF Range
  <2>2. \A i \in DOMAIN hs :
          \A x : x \in Range(GetAddressesFromLine(ll_lm, hs[i]))
                  <=> /\ x \in DOMAIN ll_lm.addrToLine
                      /\ ll_lm.addrToLine[x] = hs[i]
    BY <1>6
  <2>3. ASSUME NEW x \in Range(LowAddresses(hs))
        PROVE  /\ x \in DOMAIN ll_lm.addrToLine
               /\ ll_lm.addrToLine[x] \in Range(hs)
    <3>1. PICK i \in DOMAIN hs :
                 x \in Range(GetAddressesFromLine(ll_lm, hs[i]))
      BY <1>5
    <3>2. QED
      BY <2>1, <2>2, <3>1
  <2>4. ASSUME NEW x \in DOMAIN ll_lm.addrToLine,
               ll_lm.addrToLine[x] \in Range(hs)
        PROVE  x \in Range(LowAddresses(hs))
    <3>1. PICK i \in DOMAIN hs : hs[i] = ll_lm.addrToLine[x]
      BY <2>1, <2>4
    <3>2. x \in Range(GetAddressesFromLine(ll_lm, hs[i]))
      BY <2>2, <3>1
    <3>3. QED
      BY <1>5, <3>2
  <2>5. QED
    BY <2>3, <2>4
<1>8. QED
  BY <1>2, <1>4, <1>7 DEF h, functions

\* finish stops at the addresses of the callers, all of them and no others,
\* whatever the scopes, if they are nested as DWARF nests them: the search from
\* the unit cannot miss the innermost function that has the instruction, the
\* caches of the functions around it hold what they hold in DWARF, and the
\* function left out is the innermost one.
THEOREM StepsOutReachCallers ==
  ASSUME \A t \in Trees : Nested(t)
  PROVE  Spec => []StepOutTargets
<1>1. MappingInv /\ ObjectInv => StepOutTargets
  <2> SUFFICES ASSUME MappingInv, ObjectInv, step.kind = "out",
                      Complete, Apart
               PROVE  Range(step.targets) = CallersAddresses(step.from)
    BY DEF StepOutTargets
  <2>1. PICK pc \in DOMAIN ll_lm.addrToLine :
               step = [kind |-> "out", from |-> pc,
                       targets |-> StepAddresses(pc, TRUE)]
    <3>1. step # NoStep
      BY DEF NoStep
    <3>2. step # [kind |-> "in", from |-> 0, targets |-> AllMappedAddrs]
      <4> SUFFICES ASSUME step = [kind |-> "in", from |-> 0,
                                  targets |-> AllMappedAddrs]
                   PROVE  FALSE
        OBVIOUS
      <4>1. QED
        OBVIOUS
    <3>3. QED
      BY <3>1, <3>2 DEF ObjectInv
  <2>2. step.from = pc /\ step.targets = StepAddresses(pc, TRUE)
    BY <2>1
  <2>3. phase \in {"loaded", "failed"}
    <3>1. step # NoStep
      BY DEF NoStep
    <3>2. QED
      BY <3>1 DEF ObjectInv
  <2> DEFINE t == hl_sc
             h == ll_lm.addrToLine[pc]
             g == Frame(h)
             smallest == FindSmallestScopeContainingAddress(t, h)
             functions ==
               FunctionsToTake(FALSE, EnclosingFunctions(t, smallest))
  <2>4. /\ IsTree(t) /\ Nested(t)
        /\ cache = MapAddressesToCodeScopes(t, hl_lm)
    BY <2>3, TreesAreTrees DEF ObjectInv
  <2>5. /\ h \in DOMAIN ll_lm.lineToAddr
        /\ \A a \in DOMAIN ll_lm.lineToAddr : a \in Nat
        /\ \A a \in DOMAIN hl_lm.addrToLine : a \in Nat
    BY DEF MappingInv, IsMapping, Agrees, Range, HAddrs
  <2>6. ASSUME NEW a, \/ a \in DOMAIN hl_lm.addrToLine
                      \/ a \in DOMAIN ll_lm.lineToAddr
        PROVE  \A s \in DOMAIN t : t[s].nonTrivial => t[s].maxAddr # a
    BY <2>6 DEF Apart
  <2>7. ASSUME NEW a \in DOMAIN hl_lm.addrToLine, NEW f,
               f # 0, f # 1
        PROVE  /\ Frame(a) = f => /\ a \in DOMAIN cache /\ cache[a] = f
                                  /\ IsFunction(t[f]) /\ t[f].nonTrivial
               /\ a \in DOMAIN cache /\ cache[a] = f => Frame(a) = f
    <3>1. a \in Nat /\ \A s \in DOMAIN t : t[s].nonTrivial => t[s].maxAddr # a
      BY <2>5, <2>6
    <3>2. /\ Frame(a) # 0 => /\ HomeScope(t, a) = Frame(a)
                             /\ IsFunction(t[Frame(a)])
                             /\ t[Frame(a)].nonTrivial
          /\ Frame(a) = 0 => HomeScope(t, a) \in {0, 1}
      BY <2>4, <3>1, HomeIsFrame
    <3>3. /\ a \in DOMAIN cache <=> HomeScope(t, a) # 0
          /\ a \in DOMAIN cache => cache[a] = HomeScope(t, a)
      BY <2>4 DEF MapAddressesToCodeScopes
    <3>4. QED
      BY <2>7, <3>2, <3>3
  <2>8. DOMAIN cache \subseteq DOMAIN hl_lm.addrToLine
    BY CachesOfObject
  <2>9. \A x : x \in Range(step.targets)
                 <=> /\ x \in DOMAIN ll_lm.addrToLine
                     /\ ll_lm.addrToLine[x] \in DOMAIN cache
                     /\ cache[ll_lm.addrToLine[x]] \in Range(functions)
    BY <2>2, <2>3, StepOutAsksFor
  <2>10. h \in Nat /\ \A s \in DOMAIN t : t[s].nonTrivial => t[s].maxAddr # h
    BY <2>5, <2>6
  <2>11. \A s \in 0 .. Len(t) :
           /\ EnclosingFunctions(t, s) \in Seq(1 .. Len(t))
           /\ IsInjective(EnclosingFunctions(t, s))
           /\ \A f \in Range(EnclosingFunctions(t, s)) :
                f \in 1 .. Len(t) /\ IsFunction(t[f]) /\ f # 0 /\ f # 1
    <3> SUFFICES ASSUME NEW s \in 0 .. Len(t),
                        NEW f \in Range(EnclosingFunctions(t, s))
                 PROVE  f \in 1 .. Len(t) /\ IsFunction(t[f]) /\ f # 0 /\ f # 1
      BY <2>4, EnclosingFacts
    <3>1. f \in 1 .. s /\ IsFunction(t[f])
      BY <2>4, EnclosingFacts
    <3>2. f # 1
      BY <2>4, <3>1 DEF Nested
    <3>3. QED
      BY <2>4, <3>1, <3>2, TreeFacts
  <2>12. smallest \in 0 .. Len(t)
         /\ (smallest # 0 => IsAddressInCodeScope(t[1], h))
    <3>1. 1 \in DOMAIN t /\ Len(t) \in Nat
      BY <2>4, TreeFacts
    <3>2. /\ Found(t, h)[1] \in {0} \cup 1 .. Len(t)
          /\ Found(t, h)[1] # 0 <=> IsAddressInCodeScope(t[1], h)
      BY <2>4, <3>1, FoundTypes
    <3>3. smallest = Found(t, h)[1]
      BY <2>4, FoundFacts
    <3> HIDE DEF smallest, h
    <3>4. QED
      BY <3>1, <3>2, <3>3
  <2>13. CallersAddresses(step.from)
           = IF EnclosingFunctions(t, g) = <<>> THEN {}
             ELSE {x \in DOMAIN ll_lm.addrToLine :
                     /\ ll_lm.addrToLine[x] \in DOMAIN hl_lm.addrToLine
                     /\ Frame(ll_lm.addrToLine[x])
                          \in Range(Tail(EnclosingFunctions(t, g)))}
    BY <2>2 DEF CallersAddresses
  <2>14. CASE g # 0
    <3>1. /\ g \in 2 .. Len(t) /\ IsFunction(t[g]) /\ t[g].nonTrivial
          /\ IsAddressInCodeScope(t[g], h)
          /\ \A s \in DOMAIN t :
               IsFunction(t[s]) /\ t[s].nonTrivial
                 /\ IsAddressInCodeScope(t[s], h) => s <= g
      BY <2>4, <2>10, <2>14, HomeIsFrame
    <3>2. Len(t) \in Nat /\ g \in 1 .. Len(t) /\ g \in 0 .. Len(t)
      BY <2>4, <3>1, TreeFacts
    <3> DEFINE around == EnclosingFunctions(t, g)
    <3>3. smallest = Found(t, h)[g]
      BY <2>4, <2>10, <3>1, <3>2, SearchPasses
    <3>4. EnclosingFunctions(t, smallest) = around
      BY <2>4, <2>10, <3>1, <3>3, SearchStays
    <3>5. around # <<>>
      <4> DEFINE rest == EnclosingFunctions(t, t[g].parent)
      <4>1. t[g].parent \in 0 .. Len(t)
        BY <2>4, <3>2, TreeFacts
      <4>2. rest \in Seq(1 .. Len(t))
        BY <2>11, <4>1
      <4>3. around = <<g>> \o rest
        BY <2>4, <2>14, <3>1, <3>2, EnclosingStep
      <4> HIDE DEF rest, around, g
      <4>4. QED
        BY <4>2, <4>3
    <3>6. functions = Tail(around)
      BY <3>4, <3>5 DEF FunctionsToTake
    <3>7. around \in Seq(1 .. Len(t)) /\ IsInjective(around)
      BY <2>11, <3>2
    <3>8. \A f \in Range(Tail(around)) : f # 0 /\ f # 1
      <4>1. Range(Tail(around)) \subseteq Range(around)
        BY <3>5, <3>7, TailFacts
      <4>2. QED
        BY <2>11, <3>2, <4>1
    <3>9. CallersAddresses(step.from)
            = {x \in DOMAIN ll_lm.addrToLine :
                 /\ ll_lm.addrToLine[x] \in DOMAIN hl_lm.addrToLine
                 /\ Frame(ll_lm.addrToLine[x]) \in Range(Tail(around))}
      BY <2>13, <3>5
    <3> HIDE DEF around, functions, t
    <3>10. ASSUME NEW a \in DOMAIN hl_lm.addrToLine
           PROVE  Frame(a) \in Range(Tail(around))
                    <=> a \in DOMAIN cache /\ cache[a] \in Range(Tail(around))
      BY <2>7, <3>8
    <3>11. ASSUME NEW x
           PROVE  x \in Range(step.targets)
                    <=> x \in CallersAddresses(step.from)
      <4>1. x \in Range(step.targets)
              <=> /\ x \in DOMAIN ll_lm.addrToLine
                  /\ ll_lm.addrToLine[x] \in DOMAIN cache
                  /\ cache[ll_lm.addrToLine[x]] \in Range(Tail(around))
        BY <2>9, <3>6
      <4>2. QED
        BY <4>1, <2>8, <3>9, <3>10
    <3>12. QED
      BY <3>11
  <2>15. CASE g = 0
    <3>1. Len(t) \in Nat
      BY <2>4, TreeFacts
    <3>2. CallersAddresses(step.from) = {}
      <4>1. EnclosingFunctions(t, 0) = <<>>
        <5>1. 0 \in 0 .. Len(t)
          BY <3>1
        <5>2. QED
          BY <2>4, <5>1, EnclosingStep
      <4>2. QED
        BY <2>13, <2>15, <4>1
    <3>3. ASSUME NEW x \in Range(step.targets) PROVE FALSE
      <4> DEFINE a == ll_lm.addrToLine[x]
                 f == cache[a]
      <4>1. a \in DOMAIN cache /\ f \in Range(functions)
        BY <2>9
      <4>2. /\ EnclosingFunctions(t, smallest) \in Seq(1 .. Len(t))
            /\ IsInjective(EnclosingFunctions(t, smallest))
        BY <2>11, <2>12
      <4>3. f \in Range(EnclosingFunctions(t, smallest))
        BY <4>1, <4>2, TailFacts DEF FunctionsToTake
      <4>4. f \in 1 .. Len(t) /\ IsFunction(t[f]) /\ f # 0 /\ f # 1
        BY <2>11, <2>12, <4>3
      <4>5. t[f].nonTrivial
        BY <2>7, <2>8, <4>1, <4>4
      <4>6. smallest # 0
        <5> SUFFICES ASSUME smallest = 0 PROVE FALSE
          OBVIOUS
        <5>1. EnclosingFunctions(t, smallest) = <<>>
          BY <2>4, <2>12, EnclosingStep
        <5>2. DOMAIN <<>> = {}
          OBVIOUS
        <5>3. QED
          BY <4>3, <5>1, <5>2 DEF Range
      <4>7. smallest \in 1 .. Len(t)
        BY <2>12, <3>1, <4>6
      <4>8. IsAddressInCodeScope(t[smallest], h)
        BY <2>4, <4>6, FoundHasIt
      <4>9. IsAddressInCodeScope(t[f], h)
        BY <2>4, <2>10, <4>3, <4>7, <4>8, EnclosingHaveIt
      <4>10. f \in DOMAIN t
        BY <2>4, <4>4, TreeFacts
      <4>11. QED
        BY <2>4, <2>10, <2>15, <4>4, <4>5, <4>9, <4>10, HomeIsFrame
    <3>4. QED
      BY <3>2, <3>3
  <2>16. QED
    BY <2>14, <2>15
<1>2. QED
  BY <1>1, MappingInvHolds, ObjectInvHolds, PTL
=============================================================================
