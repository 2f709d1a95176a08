------------------------- MODULE LineNumberMapping -------------------------
(***************************************************************************)
(* The template LineNumberMapping of DbgInfoLines.h, which both levels of  *)
(* the debug information of a kernel are instances of: an address belongs  *)
(* to one line, a line has its addresses in the order they were added, and *)
(* what is not mapped is looked for nearby.  The file of a line is left    *)
(* out: gdb asks for the lines of the first file only.  Lines and          *)
(* addresses are natural numbers, 0 the value that has no predecessor.     *)
(***************************************************************************)
EXTENDS Integers, Sequences, Functions, FiniteSetsExt

CONSTANTS
  AddrReadAhead,   \* DIL_DEFAULT_ADDR_READAHEAD, 20
  AddrReadBack,    \* DIL_DEFAULT_ADDR_READBACK, 0
  LineReadAhead,   \* DIL_DEFAULT_LINE_READAHEAD, 10
  LineReadBack     \* DIL_DEFAULT_LINE_READBACK, 3

\* A search looks at the place itself first.
ASSUME WindowAssumption ==
  /\ AddrReadAhead \in Nat \ {0} /\ AddrReadBack \in Nat
  /\ LineReadAhead \in Nat \ {0} /\ LineReadBack \in Nat

\* What a query that returns false leaves.
NotFound == -1

\* A mapping of addresses of A to lines of L.
IsMapping(m, A, L) ==
  /\ DOMAIN m.addrToLine \subseteq A
  /\ m.addrToLine \in [DOMAIN m.addrToLine -> L]
  /\ DOMAIN m.lineToAddr \subseteq L
  /\ \A line \in DOMAIN m.lineToAddr : m.lineToAddr[line] \in Seq(A)
  /\ m.mappedAddrs \in Seq(A)
  /\ m.mappedFirstAddrs \in Seq(A)
  /\ m.mappedLines \in Seq(L)

\* m_map[key] = value of a std::map.
Put(f, key, value) ==
  [x \in DOMAIN f \cup {key} |-> IF x = key THEN value ELSE f[x]]

\* ClearMap, and a mapping just made.
EmptyMapping ==
  [addrToLine |-> [x \in {} |-> 0], lineToAddr |-> [x \in {} |-> <<>>],
   mappedAddrs |-> <<>>, mappedFirstAddrs |-> <<>>, mappedLines |-> <<>>]

\* A slip: the vector of a line is made anew for each row.
NoAddresses(m, line) == <<>>

\* The vector of a line, made when the line is new.
AddressesOf(m, line) ==
  IF line \in DOMAIN m.lineToAddr THEN m.lineToAddr[line] ELSE <<>>

\* The mapping with one more address; a line that is new has it as its first.
MapAddress(m, line, addr) ==
  LET isNewLine == line \notin DOMAIN m.lineToAddr
  IN [addrToLine |-> Put(m.addrToLine, addr, line),
      lineToAddr |-> Put(m.lineToAddr, line,
                         Append(AddressesOf(m, line), addr)),
      mappedAddrs |-> Append(m.mappedAddrs, addr),
      mappedFirstAddrs |-> IF isNewLine THEN Append(m.mappedFirstAddrs, addr)
                                        ELSE m.mappedFirstAddrs,
      mappedLines |-> IF isNewLine THEN Append(m.mappedLines, line)
                                   ELSE m.mappedLines]

\* A slip: the last row of an address decides.
LastRowDecides(m, line, addr) == MapAddress(m, line, addr)

\* The first row of an address decides.
AddLineMapping(m, line, addr) ==
  IF addr \in DOMAIN m.addrToLine THEN m ELSE MapAddress(m, line, addr)

\* The places a search looks at: x and the ahead - 1 after it, then the
\* back - 1 before it; 0 is its own predecessor.
Window(x, ahead, back) ==
  [i \in 1 .. ahead |-> x + i - 1]
    \o [i \in 1 .. back - 1 |-> IF x > i THEN x - i ELSE 0]

\* The first place of the window that is mapped.
FirstMapped(window, mapped) ==
  LET hits == {i \in DOMAIN window : window[i] \in mapped}
  IN IF hits = {} THEN NotFound ELSE window[Min(hits)]

GetNearestMappedLine(m, line) ==
  FirstMapped(Window(line, LineReadAhead, LineReadBack), DOMAIN m.lineToAddr)

GetNearestMappedAddress(m, addr) ==
  FirstMapped(Window(addr, AddrReadAhead, AddrReadBack), DOMAIN m.addrToLine)

\* DbgInfoConsumerImpl: the nearest, or what was asked if there is none near.
Resolved(nearest, asked) == IF nearest = NotFound THEN asked ELSE nearest

GetLineFromAddress(m, addr) ==
  LET mappedAddr == Resolved(GetNearestMappedAddress(m, addr), addr)
  IN IF mappedAddr \in DOMAIN m.addrToLine THEN m.addrToLine[mappedAddr]
                                           ELSE NotFound

GetAddressesFromLine(m, line) ==
  AddressesOf(m, Resolved(GetNearestMappedLine(m, line), line))

\* The two directions of a mapping and its three vectors tell the same: each
\* address is once in the vector of its line and in no other, and the first
\* addresses are those the vectors begin with.
Agrees(m) ==
  /\ IsInjective(m.mappedAddrs) /\ Range(m.mappedAddrs) = DOMAIN m.addrToLine
  /\ IsInjective(m.mappedLines) /\ Range(m.mappedLines) = DOMAIN m.lineToAddr
  /\ Range(m.addrToLine) = DOMAIN m.lineToAddr
  /\ \A line \in DOMAIN m.lineToAddr :
       /\ IsInjective(m.lineToAddr[line])
       /\ Range(m.lineToAddr[line])
            = {a \in DOMAIN m.addrToLine : m.addrToLine[a] = line}
  /\ m.mappedFirstAddrs
       = [i \in DOMAIN m.mappedLines |-> m.lineToAddr[m.mappedLines[i]][1]]

=============================================================================
