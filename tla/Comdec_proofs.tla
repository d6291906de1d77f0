---------------------------- MODULE Comdec_proofs ----------------------------
(***************************************************************************)
(* Theorems about compress and decompress of hw1 (Digrams, Sequitur, Codec *)
(* and Comdec), for every set of letters, size of the blocks, number of    *)
(* symbols and size of the table:                                          *)
(*   - what is written for a value below 2^16 is read as that value;       *)
(*   - memory safety: one lemma for each function, which says that it      *)
(*     leaves memory well formed and takes back no symbol (After);         *)
(*   - the rules arrive: what is under way, mark by mark and value by      *)
(*     value, takes decompress from where it is to where compress is.      *)
(* Bounds are inequalities in the statements: the prover takes a range of  *)
(* literals element by element.                                            *)
(***************************************************************************)
EXTENDS Comdec, FiniteSetTheorems, WellFoundedInduction, TLAPS

-----------------------------------------------------------------------------
(* Bytes and values                                                        *)

\* The values as inequalities.
LEMMA ValueBounds ==
    ASSUME NEW x \in Value
    PROVE  x \in Int /\ 0 <= x /\ x <= MaxValue /\ x < 65536
<1>1. MaxValue \in Int /\ MaxValue < 65536
    BY DEF MaxValue
<1>. QED BY <1>1 DEF Value

\* A value of one byte.
LEMMA OneByteValue ==
    ASSUME NEW x \in Int, 0 <= x, x < 128
    PROVE  Encode(x) = <<x>> /\ Lead(x) = 1 /\ Decode(Encode(x)) = x
<1>1. Encode(x) = <<x>>
    BY DEF Encode
<1>2. Lead(x) = 1
    BY DEF Lead
<1>3. Decode(<<x>>) = x
    BY <1>2 DEF Decode
<1>. QED BY <1>1, <1>2, <1>3

-----------------------------------------------------------------------------
(* Two bytes *)

\* What two bytes with these groups of bits stand for: their word reaches the
\* bound of the two-byte branch.
LEMMA CombinedTwo ==
    ASSUME NEW k \in Int, 2 <= k, k < 32, NEW l \in Int, 0 <= l, l < 64
    PROVE  /\ Lead(192 + k) = 2
           /\ Decode(<<192 + k, 128 + l>>) = k * 64 + l
<1>. DEFINE a == 192 + k
            b == 128 + l
<1>1. a \in Int /\ 194 <= a /\ a < 224 /\ b \in Int /\ 128 <= b /\ b < 192
    OBVIOUS
<1>2. a % 32 = k /\ b % 64 = l
    OBVIOUS
<1>. HIDE DEF a, b
<1>3. Lead(a) = 2
    BY <1>1 DEF Lead
<1>4. a * 256 + b >= 49792
    BY <1>1
<1>5. Decode(<<a, b>>) = TwoBytes(a, b)
    BY <1>1, <1>3, <1>4 DEF Decode
<1>6. TwoBytes(a, b) = k * 64 + l
    BY <1>2 DEF TwoBytes
<1>. QED BY <1>3, <1>5, <1>6 DEF a, b

\* How a value of two bytes is taken apart.
LEMMA TwoByteValue ==
    ASSUME NEW x \in Int, 128 <= x, x < 2048
    PROVE  \E k, l \in Int :
              /\ 2 <= k /\ k < 32 /\ 0 <= l /\ l < 64
              /\ Encode(x) = <<192 + k, 128 + l>>
              /\ x = k * 64 + l
<1>1. ~(x < 128) /\ x <= 2047
    OBVIOUS
<1>. DEFINE k == x \div 64
            l == x % 64
<1>2. Encode(x) = <<192 + k, 128 + l>>
    BY <1>1 DEF Encode
<1>3. k \in Int /\ l \in Int /\ 0 <= l /\ l < 64 /\ x = k * 64 + l
    OBVIOUS
<1>. HIDE DEF k, l
<1>4. 2 <= k /\ k < 32
    BY <1>3
<1>. QED BY <1>2, <1>3, <1>4

-----------------------------------------------------------------------------
(* Three bytes *)

\* Three bytes that begin with 1110, 10 and 10 are combined to their 4, 6 and 6 bits.
LEMMA CombinedThree ==
    ASSUME NEW h \in Int, 0 <= h, h < 16, NEW k \in Int, 0 <= k, k < 64,
           NEW l \in Int, 0 <= l, l < 64, h * 64 + k >= 32
    PROVE  /\ Lead(224 + h) = 3
           /\ Decode(<<224 + h, 128 + k, 128 + l>>) = h * 4096 + k * 64 + l
<1>. DEFINE a == 224 + h
            b == 128 + k
            c == 128 + l
<1>1. /\ a \in Int /\ 224 <= a /\ a < 240
      /\ b \in Int /\ 128 <= b /\ b < 192
      /\ c \in Int /\ 128 <= c /\ c < 192
    OBVIOUS
<1>2. a % 16 = h /\ b % 64 = k /\ c % 64 = l
    OBVIOUS
\* With the least first byte the second has its bound.
<1>3. a * 65536 + b * 256 + c >= 14721152
    OBVIOUS
<1>. HIDE DEF a, b, c
<1>4. Lead(a) = 3
    BY <1>1 DEF Lead
<1>5. Decode(<<a, b, c>>) = ThreeBytes(a, b, c)
    BY <1>1, <1>3, <1>4 DEF Decode
<1>6. ThreeBytes(a, b, c) = h * 4096 + k * 64 + l
    BY <1>2 DEF ThreeBytes
<1>. QED BY <1>4, <1>5, <1>6 DEF a, b, c

\* How a value of three bytes is taken apart.
LEMMA ThreeByteValue ==
    ASSUME NEW x \in Int, 2048 <= x, x < 65536
    PROVE  \E h, k, l \in Int :
              /\ 0 <= h /\ h < 16 /\ 0 <= k /\ k < 64 /\ 0 <= l /\ l < 64
              /\ Encode(x) = <<224 + h, 128 + k, 128 + l>>
              /\ x = h * 4096 + k * 64 + l
<1>. DEFINE h == x \div 4096
            q == x \div 64
            k == q % 64
            l == x % 64
<1>1. ~(x < 128) /\ ~(x <= 2047) /\ x <= MaxValue
    BY DEF MaxValue
<1>2. Encode(x) = <<224 + h, 128 + k, 128 + l>>
    BY <1>1 DEF Encode
<1>3. l \in Int /\ 0 <= l /\ l < 64 /\ q \in Int /\ x = q * 64 + l
    OBVIOUS
<1>4. h \in Int /\ h * 4096 <= x /\ x < h * 4096 + 4096
    OBVIOUS
<1>5. q \in Int => k \in Int /\ 0 <= k /\ k < 64 /\ q = (q \div 64) * 64 + k /\ q \div 64 \in Int
    <2>. HIDE DEF q
    <2>. QED OBVIOUS
<1>. DEFINE g == q \div 64
<1>6. g \in Int /\ k \in Int /\ 0 <= k /\ k < 64 /\ q = g * 64 + k
    BY <1>3, <1>5
<1>. HIDE DEF h, q, k, l, g
<1>7. x = g * 4096 + k * 64 + l
    BY <1>3, <1>6
<1>8. h = g
    BY <1>3, <1>4, <1>6, <1>7
<1>9. 0 <= h /\ h < 16
    BY <1>4
<1>. QED BY <1>2, <1>3, <1>4, <1>6, <1>7, <1>8, <1>9

-----------------------------------------------------------------------------
\* What is read is what was written, and the first byte, which is no mark, says how
\* many bytes there are.
LEMMA AllOfValue ==
    ASSUME NEW x \in Value
    PROVE  /\ Decode(Encode(x)) = x
           /\ Encode(x)[1] \notin Marks
           /\ Width(Encode(x)[1]) = Len(Encode(x))
<1>1. x \in Int /\ 0 <= x /\ x < 65536
    BY ValueBounds
<1>2. CASE x < 128
    <2>1. Encode(x) = <<x>> /\ Lead(x) = 1 /\ Decode(Encode(x)) = x
        BY <1>1, <1>2, OneByteValue
    <2>2. x \notin Marks
        BY <1>1, <1>2 DEF Marks, SOT, EOT, SOB, EOB, RD
    <2>. QED BY <2>1, <2>2 DEF Width
<1>3. CASE 128 <= x /\ x < 2048
    <2>1. PICK k, l \in Int : /\ 2 <= k /\ k < 32 /\ 0 <= l /\ l < 64
                              /\ Encode(x) = <<192 + k, 128 + l>>
                              /\ x = k * 64 + l
        BY <1>1, <1>3, TwoByteValue
    <2>2. Lead(192 + k) = 2 /\ Decode(<<192 + k, 128 + l>>) = k * 64 + l
        BY <2>1, CombinedTwo
    <2>3. 192 + k \notin Marks
        BY <2>1 DEF Marks, SOT, EOT, SOB, EOB, RD
    <2>. QED BY <2>1, <2>2, <2>3 DEF Width
<1>4. CASE 2048 <= x
    <2>1. PICK h, k, l \in Int :
                /\ 0 <= h /\ h < 16 /\ 0 <= k /\ k < 64 /\ 0 <= l /\ l < 64
                /\ Encode(x) = <<224 + h, 128 + k, 128 + l>>
                /\ x = h * 4096 + k * 64 + l
        BY <1>1, <1>4, ThreeByteValue
    <2>2. h * 64 + k >= 32
        BY <1>4, <2>1
    <2>3. Lead(224 + h) = 3 /\ Decode(<<224 + h, 128 + k, 128 + l>>) = h * 4096 + k * 64 + l
        BY <2>1, <2>2, CombinedThree
    <2>4. 224 + h \notin Marks
        BY <2>1 DEF Marks, SOT, EOT, SOB, EOB, RD
    <2>. QED BY <2>1, <2>3, <2>4 DEF Width
<1>. QED BY <1>1, <1>2, <1>3, <1>4

\* Each value is read back as it was written, whatever bound of the encoding it is
\* next to (comdec.c:77-126 against comdec.c:184-262).
THEOREM DecodeEncode == \A x \in Value : Decode(Encode(x)) = x
BY AllOfValue

\* The first byte of a value is no mark, so decompress reads it as a value, and
\* it tells how many bytes are to be read, so the next one begins where the next
\* value was written (comdec.c:19-37, 129-164).
THEOREM FirstByteTells ==
    \A x \in Value : /\ Encode(x)[1] \notin Marks
                     /\ Width(Encode(x)[1]) = Len(Encode(x))
BY AllOfValue

\* A value that needs four bytes (sequitur.h:83 allows values up to 2^21) is written
\* as one byte, which is no first byte of a value: the decoder refuses it, unless
\* it is a mark (comdec.c:228-229).
THEOREM LargeValuesRefused ==
    \A x \in Int : x > MaxValue => /\ Len(Encode(x)) = 1
                                   /\ Decode(Encode(x)) = -1
<1>. SUFFICES ASSUME NEW x \in Int, x > MaxValue
              PROVE  Len(Encode(x)) = 1 /\ Decode(Encode(x)) = -1
    OBVIOUS
<1>. DEFINE b == 128 + (x % 64)
<1>1. b \in Int /\ 128 <= b /\ b < 192
    OBVIOUS
<1>2. ~(x < 128) /\ ~(x <= 2047) /\ ~(x <= MaxValue)
    BY DEF MaxValue
<1>3. Encode(x) = <<b>>
    BY <1>2 DEF Encode
<1>. HIDE DEF b
<1>4. Lead(b) = 0
    BY <1>1 DEF Lead
<1>5. Decode(<<b>>) = -1
    BY <1>4 DEF Decode
<1>. QED BY <1>3, <1>5

-----------------------------------------------------------------------------
(* The table of digrams                                                    *)

Taken(mem) == 1 .. Len(mem.sym)
Pointer(mem) == {NULL} \cup Taken(mem)

\* A step on memory keeps its type and takes back no symbol.
After(mem, n) == MemoryOK(n) /\ Len(mem.sym) <= Len(n.sym)

\* What is known of the table and of the symbols that it names.
TableOK(sym, table) ==
    /\ sym \in Seq(SymbolType({NULL} \cup 1 .. Len(sym)))
    /\ table \in [DOMAIN table -> {TOMBSTONE} \cup 1 .. Len(sym)]
    /\ DOMAIN table \subseteq 0 .. MaxDigrams - 1

\* A set of numbers has a least one.
LEMMA Least ==
    ASSUME NEW K, K \subseteq Nat, K # {}
    PROVE  \E x \in K : \A y \in K : x <= y
<1>. DEFINE R == OpToRel(<, Nat)
<1>1. IsWellFoundedOn(R, Nat)
    BY NatLessThanWellFounded
<1>2. \A x, y \in Nat : y < x => <<y, x>> \in R
    BY DEF OpToRel
<1>. HIDE DEF R
<1>3. PICK x \in K : \A y \in K : ~(<<y, x>> \in R)
    BY <1>1, WFMin
<1>4. \A y \in K : ~(y < x)
    BY <1>2, <1>3
<1>. QED BY <1>3, <1>4

\* The first of some steps is one of them.
LEMMA FirstStepIsOne ==
    ASSUME NEW K, K \subseteq Nat, K # {}
    PROVE  FirstStep(K) \in K /\ \A k \in K : FirstStep(K) <= k
BY Least DEF FirstStep, Min

\* The steps at which a search of the table may end.
LEMMA StepsAreNumbers ==
    ASSUME NEW table, DOMAIN table \subseteq 0 .. MaxDigrams - 1
    PROVE  Steps(table) \subseteq Nat
<1>. QED BY DEF Steps

\* The slots of a search are slots of the table.
LEMMA SlotsOfSearch ==
    ASSUME NEW v1 \in Nat, NEW v2 \in Nat, NEW k \in Nat
    PROVE  /\ DigramHash(v1, v2) \in 0 .. MaxDigrams - 1
           /\ Slot(DigramHash(v1, v2), k) \in 0 .. MaxDigrams - 1
<1>1. v1 * 37 + v2 \in Nat /\ MaxDigrams \in Nat \ {0}
    BY DigramsAssumption
<1>2. \A n \in Nat : n % MaxDigrams \in 0 .. MaxDigrams - 1
    BY <1>1
<1>3. DigramHash(v1, v2) \in 0 .. MaxDigrams - 1
    BY <1>1, <1>2 DEF DigramHash
<1>. QED BY <1>2, <1>3 DEF Slot

\* The fields of a symbol.
LEMMA SymbolFields ==
    ASSUME NEW sym, NEW table, TableOK(sym, table), NEW s \in 1 .. Len(sym)
    PROVE  /\ sym[s].value \in Nat
           /\ sym[s].head \in BOOLEAN
           /\ sym[s].next \in {NULL} \cup 1 .. Len(sym)
           /\ sym[s].prev \in {NULL} \cup 1 .. Len(sym)
           /\ sym[s].nextr \in {NULL} \cup 1 .. Len(sym)
           /\ sym[s].prevr \in {NULL} \cup 1 .. Len(sym)
<1>1. sym[s] \in SymbolType({NULL} \cup 1 .. Len(sym))
    BY DEF TableOK
<1>. QED BY <1>1 DEF SymbolType

\* digram_get: whatever the table has kept, it follows no pointer but to a symbol.
LEMMA GetFindsSymbol ==
    ASSUME NEW sym, NEW table, TableOK(sym, table), NEW beyond \in {NULL, WILD},
           NEW v1, NEW v2
    PROVE  DigramGet(sym, table, beyond, v1, v2) \in {NULL, WILD} \cup 1 .. Len(sym)
<1>. DEFINE start == DigramHash(v1, v2)
            word(k) == Read(table, beyond, start, k)
            passes(k) == /\ word(k) # NULL
                         /\ \/ Entry(table, Slot(start, k)) = TOMBSTONE
                            \/ /\ word(k) # WILD
                               /\ \/ sym[word(k)].value # v1
                                  \/ /\ sym[word(k)].next # NULL
                                     /\ sym[sym[word(k)].next].value # v2
            stops == {k \in Steps(table) : ~passes(k)}
            p == word(FirstStep(stops))
<1>1. DigramGet(sym, table, beyond, v1, v2) =
         IF stops = {} THEN NULL
         ELSE IF p \in {NULL, WILD} THEN p
         ELSE IF sym[p].next = NULL THEN WILD ELSE p
    BY DEF DigramGet
<1>2. ASSUME stops # {} PROVE FirstStep(stops) \in stops
    BY <1>2, StepsAreNumbers, FirstStepIsOne DEF TableOK
<1>3. \A k : word(k) \in {beyond, NULL, TOMBSTONE} \cup 1 .. Len(sym)
    BY DEF TableOK, Read, Entry
<1>4. \A k : word(k) = TOMBSTONE => Entry(table, Slot(start, k)) = TOMBSTONE
    BY DEF Read, NULL, WILD, TOMBSTONE
<1>5. \A k : ~passes(k) => word(k) # TOMBSTONE
    BY <1>4 DEF NULL, TOMBSTONE
<1>6. stops # {} => p \in {NULL, WILD} \cup 1 .. Len(sym)
    <2>. HIDE DEF word, passes
    <2>. QED BY <1>2, <1>3, <1>5
<1>. HIDE DEF stops, p
<1>. QED BY <1>1, <1>6

\* digram_put writes a slot of the table, and a symbol into it.
LEMMA PutKeepsTable ==
    ASSUME NEW sym, NEW table, TableOK(sym, table), NEW beyond, NEW s \in 1 .. Len(sym)
    PROVE  TableOK(sym, DigramPut(sym, table, beyond, s))
<1>. DEFINE start == DigramHash(sym[s].value, sym[sym[s].next].value)
            stops == {k \in Steps(table) :
                        \/ Read(table, beyond, start, k) = s
                        \/ Entry(table, Slot(start, k)) \in {NULL, TOMBSTONE}}
            i == Slot(start, FirstStep(stops))
            new == [t \in DOMAIN table \cup {i} |-> IF t = i THEN s ELSE table[t]]
<1>1. DigramPut(sym, table, beyond, s) \in {table, new}
    BY DEF DigramPut
<1>2. CASE sym[s].next = NULL \/ stops = {}
    BY <1>2 DEF DigramPut
<1>3. CASE sym[s].next # NULL /\ stops # {}
    <2>1. sym[s].value \in Nat /\ sym[sym[s].next].value \in Nat
        BY <1>3, SymbolFields
    <2>2. FirstStep(stops) \in Nat
        BY <1>3, StepsAreNumbers, FirstStepIsOne DEF TableOK
    <2>3. i \in 0 .. MaxDigrams - 1
        BY <2>1, <2>2, SlotsOfSearch
    <2>. HIDE DEF i
    <2>4. TableOK(sym, new)
        BY <2>3 DEF TableOK
    <2>. QED BY <1>1, <2>4
<1>. QED BY <1>2, <1>3

\* digram_delete leaves a tombstone or nothing.
LEMMA DeleteKeepsTable ==
    ASSUME NEW sym, NEW table, TableOK(sym, table), NEW s
    PROVE  TableOK(sym, DigramDelete(sym, table, s))
BY DEF TableOK, DigramDelete

-----------------------------------------------------------------------------
(* The memory of compress                                                  *)

\* What MemoryOK says, part by part.
LEMMA MemoryParts ==
    ASSUME NEW mem, MemoryOK(mem)
    PROVE  /\ mem \in [sym : Seq(SymbolType(Pointer(mem))), recycled : Pointer(mem),
                       main : Taken(mem),
                       table : [DOMAIN mem.table -> {TOMBSTONE} \cup Taken(mem)],
                       nonterminal : Nat, beyond : {NULL, WILD},
                       calls : Seq(CallType(Taken(mem))), fate : Fate]
           /\ mem.sym \in Seq(SymbolType(Pointer(mem)))
           /\ Len(mem.sym) \in Nat /\ Len(mem.sym) <= MaxSymbols
           /\ DOMAIN mem.sym = Taken(mem)
           /\ DOMAIN mem.table \subseteq 0 .. MaxDigrams - 1
           /\ TableOK(mem.sym, mem.table)
           /\ mem.recycled \in Pointer(mem) /\ mem.main \in Taken(mem)
           /\ mem.nonterminal \in Nat /\ mem.beyond \in {NULL, WILD}
           /\ mem.calls \in Seq(CallType(Taken(mem))) /\ mem.fate \in Fate
BY DEF MemoryOK, TableOK, Taken, Pointer

\* Memory with the symbols of a set is well formed.
LEMMA MemoryOf ==
    ASSUME NEW n, NEW T, Len(n.sym) <= MaxSymbols, T = Taken(n),
           n \in [sym : Seq(SymbolType({NULL} \cup T)), recycled : {NULL} \cup T, main : T,
                  table : [DOMAIN n.table -> {TOMBSTONE} \cup T],
                  nonterminal : Nat, beyond : {NULL, WILD},
                  calls : Seq(CallType(T)), fate : Fate],
           DOMAIN n.table \subseteq 0 .. MaxDigrams - 1
    PROVE  MemoryOK(n)
BY DEF MemoryOK, Taken

\* Memory that stays as it is.
LEMMA MemoryIs ==
    ASSUME NEW mem, MemoryOK(mem)
    PROVE  After(mem, mem)
BY MemoryParts DEF After

\* One step on memory after another.
LEMMA AfterAfter ==
    ASSUME NEW mem, NEW mem2, NEW mem3, MemoryOK(mem), After(mem, mem2), After(mem2, mem3)
    PROVE  After(mem, mem3)
BY MemoryParts DEF After

\* What was a pointer to a symbol is one after the step.
LEMMA PointersStay ==
    ASSUME NEW mem, NEW mem2, MemoryOK(mem), After(mem, mem2)
    PROVE  Taken(mem) \subseteq Taken(mem2) /\ Pointer(mem) \subseteq Pointer(mem2)
BY MemoryParts DEF After, Taken, Pointer

\* The fields of a symbol of memory.
LEMMA SymbolParts ==
    ASSUME NEW mem, MemoryOK(mem), NEW s \in Taken(mem)
    PROVE  /\ mem.sym[s] \in SymbolType(Pointer(mem))
           /\ mem.sym[s].value \in Nat
           /\ mem.sym[s].head \in BOOLEAN
           /\ mem.sym[s].next \in Pointer(mem)
           /\ mem.sym[s].prev \in Pointer(mem)
           /\ mem.sym[s].nextr \in Pointer(mem)
           /\ mem.sym[s].prevr \in Pointer(mem)
<1>1. mem.sym[s] \in SymbolType(Pointer(mem))
    BY MemoryParts DEF Taken
<1>. QED BY <1>1 DEF SymbolType

\* A pointer that is not NULL points to a symbol.
LEMMA NullIsNone ==
    ASSUME NEW mem, NEW p \in Pointer(mem), p # NULL
    PROVE  p \in Taken(mem)
BY DEF Pointer

\* Memory with other symbols.
LEMMA SymbolsChange ==
    ASSUME NEW mem, MemoryOK(mem), NEW sym \in Seq(SymbolType(Pointer(mem))),
           Len(sym) = Len(mem.sym)
    PROVE  After(mem, [mem EXCEPT !.sym = sym])
<1>. DEFINE n == [mem EXCEPT !.sym = sym]
<1>1. /\ n.sym = sym /\ n.recycled = mem.recycled /\ n.main = mem.main /\ n.table = mem.table
      /\ n.nonterminal = mem.nonterminal /\ n.beyond = mem.beyond /\ n.calls = mem.calls
      /\ n.fate = mem.fate
    BY MemoryParts
<1>2. n \in [sym : Seq(SymbolType(Pointer(mem))), recycled : Pointer(mem),
             main : Taken(mem), table : [DOMAIN mem.table -> {TOMBSTONE} \cup Taken(mem)],
             nonterminal : Nat, beyond : {NULL, WILD},
             calls : Seq(CallType(Taken(mem))), fate : Fate]
    BY MemoryParts
<1>3. Taken(n) = Taken(mem) /\ Pointer(n) = Pointer(mem)
    BY <1>1 DEF Taken, Pointer
<1>. HIDE DEF n
<1>4. MemoryOK(n)
    BY <1>1, <1>2, <1>3, MemoryParts DEF MemoryOK, Taken, Pointer
<1>. QED BY <1>1, <1>4, MemoryParts DEF After, n

\* The program stops.
LEMMA FateChange ==
    ASSUME NEW mem, MemoryOK(mem), NEW how \in Fate
    PROVE  After(mem, Stopped(mem, how))
<1>. DEFINE n == [mem EXCEPT !.fate = how]
<1>1. /\ n.sym = mem.sym /\ n.table = mem.table
    BY MemoryParts
<1>2. n \in [sym : Seq(SymbolType(Pointer(mem))), recycled : Pointer(mem),
             main : Taken(mem), table : [DOMAIN mem.table -> {TOMBSTONE} \cup Taken(mem)],
             nonterminal : Nat, beyond : {NULL, WILD},
             calls : Seq(CallType(Taken(mem))), fate : Fate]
    BY MemoryParts
<1>. HIDE DEF n
<1>4. MemoryOK(n)
    BY <1>1, <1>2, MemoryParts DEF MemoryOK, Taken, Pointer
<1>. QED BY <1>1, <1>4, MemoryParts DEF After, n, Stopped

\* Memory with another table.
LEMMA TableChange ==
    ASSUME NEW mem, MemoryOK(mem), NEW table, TableOK(mem.sym, table)
    PROVE  After(mem, [mem EXCEPT !.table = table])
<1>. DEFINE n == [mem EXCEPT !.table = table]
<1>1. /\ n.sym = mem.sym /\ n.table = table
    BY MemoryParts
<1>2. n \in [sym : Seq(SymbolType(Pointer(mem))), recycled : Pointer(mem),
             main : Taken(mem), table : [DOMAIN table -> {TOMBSTONE} \cup Taken(mem)],
             nonterminal : Nat, beyond : {NULL, WILD},
             calls : Seq(CallType(Taken(mem))), fate : Fate]
    BY MemoryParts DEF TableOK, Taken
<1>. HIDE DEF n
<1>4. MemoryOK(n)
    BY <1>1, <1>2, MemoryParts DEF MemoryOK, Taken, Pointer, TableOK
<1>. QED BY <1>1, <1>4, MemoryParts DEF After, n

\* Memory with other calls to be made.
LEMMA CallsChange ==
    ASSUME NEW mem, MemoryOK(mem), NEW calls \in Seq(CallType(Taken(mem)))
    PROVE  After(mem, [mem EXCEPT !.calls = calls])
<1>. DEFINE n == [mem EXCEPT !.calls = calls]
<1>1. /\ n.sym = mem.sym /\ n.table = mem.table
    BY MemoryParts
<1>2. n \in [sym : Seq(SymbolType(Pointer(mem))), recycled : Pointer(mem),
             main : Taken(mem), table : [DOMAIN mem.table -> {TOMBSTONE} \cup Taken(mem)],
             nonterminal : Nat, beyond : {NULL, WILD},
             calls : Seq(CallType(Taken(mem))), fate : Fate]
    BY MemoryParts
<1>. HIDE DEF n
<1>4. MemoryOK(n)
    BY <1>1, <1>2, MemoryParts DEF MemoryOK, Taken, Pointer
<1>. QED BY <1>1, <1>4, MemoryParts DEF After, n

\* Memory with another next nonterminal.
LEMMA NonterminalChange ==
    ASSUME NEW mem, MemoryOK(mem), NEW v \in Nat
    PROVE  After(mem, [mem EXCEPT !.nonterminal = v])
<1>. DEFINE n == [mem EXCEPT !.nonterminal = v]
<1>1. /\ n.sym = mem.sym /\ n.table = mem.table
    BY MemoryParts
<1>2. n \in [sym : Seq(SymbolType(Pointer(mem))), recycled : Pointer(mem),
             main : Taken(mem), table : [DOMAIN mem.table -> {TOMBSTONE} \cup Taken(mem)],
             nonterminal : Nat, beyond : {NULL, WILD},
             calls : Seq(CallType(Taken(mem))), fate : Fate]
    BY MemoryParts
<1>. HIDE DEF n
<1>4. MemoryOK(n)
    BY <1>1, <1>2, MemoryParts DEF MemoryOK, Taken, Pointer
<1>. QED BY <1>1, <1>4, MemoryParts DEF After, n

\* Then: the rest is done if the program still runs.
LEMMA ThenAfter ==
    ASSUME NEW mem, NEW n, NEW result, After(mem, n), n.fate = "runs" => After(mem, result)
    PROVE  After(mem, Then(n, result))
BY DEF Then

\* Follow: the rest is done if the pointers that it goes through are not NULL.
LEMMA FollowAfter ==
    ASSUME NEW mem, NEW n, NEW pointers, NEW result, MemoryOK(mem), After(mem, n),
           n.fate = "runs" /\ NULL \notin pointers => After(mem, result)
    PROVE  After(mem, Follow(n, pointers, result))
<1>1. MemoryOK(n) /\ After(n, Stopped(n, "fault"))
    BY FateChange DEF After, Fate
<1>2. After(mem, Stopped(n, "fault"))
    BY <1>1, AfterAfter
<1>. QED BY <1>2 DEF Follow, Then

\* A sequence over a set is one over a larger set.
LEMMA SeqOfMore ==
    ASSUME NEW S, NEW T, S \subseteq T, NEW f \in Seq(S)
    PROVE  f \in Seq(T)
OBVIOUS

\* A sequence with one element replaced.
LEMMA SeqOther ==
    ASSUME NEW S, NEW f \in Seq(S), NEW i \in 1 .. Len(f), NEW x \in S
    PROVE  [f EXCEPT ![i] = x] \in Seq(S) /\ Len([f EXCEPT ![i] = x]) = Len(f)
OBVIOUS

\* A recycled symbol is taken for the new one, or one more than there were.
LEMMA NewSymbolSafe ==
    ASSUME NEW mem, MemoryOK(mem), NEW v \in Nat
    PROVE  /\ After(mem, NewSymbol(mem, v))
           /\ NewSymbol(mem, v).fate = "runs" =>
                Fresh(mem) \in Taken(NewSymbol(mem, v)) /\ Fresh(mem) # NULL
           /\ NewSymbol(mem, v).main = mem.main
<1>. DEFINE p == Pointer(mem)
            under == At(mem, mem.recycled).prev
            again == [q \in DOMAIN mem.sym |->
                        IF q = mem.recycled THEN Symbol(v)
                        ELSE IF q = under THEN [mem.sym[q] EXCEPT !.next = NULL]
                        ELSE mem.sym[q]]
<1>1. Symbol(v) \in SymbolType(p)
    BY DEF Symbol, SymbolType, Pointer
<1>2. CASE mem.fate # "runs"
    <2>1. NewSymbol(mem, v) = mem
        BY <1>2 DEF NewSymbol
    <2>. QED BY <1>2, <2>1, MemoryIs
<1>3. CASE mem.fate = "runs" /\ mem.recycled # NULL
    <2>1. NewSymbol(mem, v) = [mem EXCEPT !.recycled = under, !.sym = again]
        BY <1>3 DEF NewSymbol
    <2>2. mem.recycled \in Taken(mem) /\ under = mem.sym[mem.recycled].prev /\ under \in p
        BY <1>3, MemoryParts, NullIsNone, SymbolParts DEF At
    <2>3. ASSUME NEW q \in Taken(mem)
          PROVE  again[q] \in SymbolType(p)
        <3>1. mem.sym[q] \in SymbolType(p)
            BY SymbolParts
        <3>2. [mem.sym[q] EXCEPT !.next = NULL] \in SymbolType(p)
            BY <3>1 DEF SymbolType, Pointer
        <3>3. q \in DOMAIN mem.sym
            BY MemoryParts
        <3>. QED BY <1>1, <3>1, <3>2, <3>3
    <2>4. DOMAIN again = 1 .. Len(mem.sym) /\ Len(mem.sym) \in Nat
        BY MemoryParts DEF Taken
    <2>. HIDE DEF again, under, p
    <2>5. again \in Seq(SymbolType(p)) /\ Len(again) = Len(mem.sym)
        <3>1. again = [q \in 1 .. Len(mem.sym) |-> again[q]]
            BY <2>4 DEF again
        <3>2. \A q \in 1 .. Len(mem.sym) : again[q] \in SymbolType(p)
            BY <2>3 DEF Taken
        <3>. QED BY <2>4, <3>1, <3>2
    <2>. DEFINE n == [mem EXCEPT !.recycled = under, !.sym = again]
    <2>6. /\ n.sym = again /\ n.table = mem.table /\ n.main = mem.main
        BY MemoryParts
    <2>7. n \in [sym : Seq(SymbolType(Pointer(mem))), recycled : Pointer(mem),
                 main : Taken(mem), table : [DOMAIN mem.table -> {TOMBSTONE} \cup Taken(mem)],
                 nonterminal : Nat, beyond : {NULL, WILD},
                 calls : Seq(CallType(Taken(mem))), fate : Fate]
        BY <2>2, <2>5, MemoryParts DEF p
    <2>. HIDE DEF n
    <2>8. MemoryOK(n) /\ Len(n.sym) = Len(mem.sym)
        BY <2>5, <2>6, <2>7, MemoryParts DEF MemoryOK, Taken, Pointer
    <2>9. NewSymbol(mem, v) = n
        BY <2>1 DEF n
    <2>10. Fresh(mem) = mem.recycled
        BY <1>3 DEF Fresh
    <2>. QED BY <1>3, <2>2, <2>6, <2>8, <2>9, <2>10, MemoryParts DEF After, Taken
<1>4. CASE mem.fate = "runs" /\ mem.recycled = NULL /\ Len(mem.sym) = MaxSymbols
    <2>1. NewSymbol(mem, v) = Stopped(mem, "abort")
        BY <1>4 DEF NewSymbol
    <2>2. Stopped(mem, "abort").fate = "abort" /\ Stopped(mem, "abort").main = mem.main
        BY MemoryParts DEF Stopped
    <2>. QED BY <2>1, <2>2, FateChange DEF Fate
<1>5. CASE mem.fate = "runs" /\ mem.recycled = NULL /\ Len(mem.sym) # MaxSymbols
    <2>. DEFINE n == [mem EXCEPT !.sym = Append(mem.sym, Symbol(v))]
                more == Append(mem.sym, Symbol(v))
                l == Len(mem.sym)
                P2 == {NULL} \cup 1 .. l + 1
    <2>1. NewSymbol(mem, v) = n
        BY <1>5 DEF NewSymbol
    <2>2. /\ n.sym = more /\ n.table = mem.table /\ n.main = mem.main
        BY MemoryParts
    <2>3. l \in Nat /\ l + 1 <= MaxSymbols
        BY <1>5, MemoryParts, SequiturAssumption
    <2>4. Pointer(mem) \subseteq P2 /\ Taken(mem) \subseteq 1 .. l + 1
        BY <2>3 DEF Pointer, Taken
    <2>5. SymbolType(Pointer(mem)) \subseteq SymbolType(P2)
        BY <2>4 DEF SymbolType
    <2>6. CallType(Taken(mem)) \subseteq CallType(1 .. l + 1)
        BY <2>4 DEF CallType
    <2>7. more \in Seq(SymbolType(P2)) /\ Len(more) = l + 1
        <3>1. Symbol(v) \in SymbolType(P2) /\ mem.sym \in Seq(SymbolType(P2))
            <4>. HIDE DEF P2, p
            <4>1. mem.sym \in Seq(SymbolType(Pointer(mem))) /\ Symbol(v) \in SymbolType(Pointer(mem))
                BY <1>1, MemoryParts DEF p
            <4>. QED BY <2>5, <4>1, SeqOfMore
        <3>. QED BY <3>1
    <2>8. mem.calls \in Seq(CallType(1 .. l + 1))
        BY <2>6, MemoryParts
    <2>9. n \in [sym : Seq(SymbolType(P2)), recycled : P2, main : 1 .. l + 1,
                 table : [DOMAIN mem.table -> {TOMBSTONE} \cup 1 .. l + 1],
                 nonterminal : Nat, beyond : {NULL, WILD},
                 calls : Seq(CallType(1 .. l + 1)), fate : Fate]
        <3>. HIDE DEF more, P2, l
        <3>1. mem.table \in [DOMAIN mem.table -> {TOMBSTONE} \cup 1 .. l + 1]
            BY <2>4, MemoryParts
        <3>. QED BY <2>4, <2>7, <2>8, <3>1, MemoryParts DEF more
    <2>10. Fresh(mem) = l + 1
        BY <1>5 DEF Fresh
    <2>. HIDE DEF n
    <2>11. MemoryOK(n)
        BY <2>2, <2>3, <2>7, <2>9, MemoryParts DEF MemoryOK
    <2>. QED BY <2>1, <2>2, <2>3, <2>7, <2>10, <2>11 DEF After, Taken, NULL
<1>. QED BY <1>2, <1>3, <1>4, <1>5

\* recycle_symbol.
LEMMA RecycleSafe ==
    ASSUME NEW mem, MemoryOK(mem), NEW s \in Taken(mem)
    PROVE  After(mem, RecycleSymbol(mem, s))
<1>. DEFINE p == Pointer(mem)
            new == [q \in DOMAIN mem.sym |->
                       IF q = s THEN [mem.sym[q] EXCEPT !.next = NULL, !.prev = mem.recycled]
                       ELSE IF q = mem.recycled THEN [mem.sym[q] EXCEPT !.next = s]
                       ELSE mem.sym[q]]
            n == [mem EXCEPT !.recycled = s, !.sym = new]
<1>1. RecycleSymbol(mem, s) \in {mem, n}
    BY DEF RecycleSymbol
<1>2. ASSUME NEW q \in Taken(mem)
      PROVE  new[q] \in SymbolType(p)
    <2>1. mem.sym[q] \in SymbolType(p) /\ mem.recycled \in p /\ s \in p /\ NULL \in p
        BY SymbolParts, MemoryParts DEF Pointer
    <2>2. [mem.sym[q] EXCEPT !.next = NULL, !.prev = mem.recycled] \in SymbolType(p)
        BY <2>1 DEF SymbolType
    <2>3. [mem.sym[q] EXCEPT !.next = s] \in SymbolType(p)
        BY <2>1 DEF SymbolType
    <2>4. q \in DOMAIN mem.sym
        BY MemoryParts
    <2>. QED BY <2>1, <2>2, <2>3, <2>4
<1>3. DOMAIN new = 1 .. Len(mem.sym) /\ Len(mem.sym) \in Nat
    BY MemoryParts DEF Taken
<1>4. n.sym = new /\ n.table = mem.table /\ n.recycled = s
    BY MemoryParts
<1>. HIDE DEF new, p
<1>5. new \in Seq(SymbolType(p)) /\ Len(new) = Len(mem.sym)
    <2>1. new = [q \in 1 .. Len(mem.sym) |-> new[q]]
        BY <1>3 DEF new
    <2>2. \A q \in 1 .. Len(mem.sym) : new[q] \in SymbolType(p)
        BY <1>2 DEF Taken
    <2>. QED BY <1>3, <2>1, <2>2
<1>6. n \in [sym : Seq(SymbolType(Pointer(mem))), recycled : Pointer(mem),
             main : Taken(mem), table : [DOMAIN mem.table -> {TOMBSTONE} \cup Taken(mem)],
             nonterminal : Nat, beyond : {NULL, WILD},
             calls : Seq(CallType(Taken(mem))), fate : Fate]
    BY <1>5, MemoryParts DEF p, Pointer
<1>. HIDE DEF n
<1>7. MemoryOK(n) /\ Len(n.sym) = Len(mem.sym)
    BY <1>4, <1>5, <1>6, MemoryParts DEF MemoryOK, Taken, Pointer
<1>8. After(mem, n)
    BY <1>7, MemoryParts DEF After
<1>. QED BY <1>1, <1>8, MemoryIs

\* One symbol, or two, get other neighbours.
LEMMA SymbolChange ==
    ASSUME NEW mem, MemoryOK(mem), NEW s \in Taken(mem), NEW x \in SymbolType(Pointer(mem))
    PROVE  After(mem, [mem EXCEPT !.sym[s] = x])
<1>. DEFINE sym == [mem.sym EXCEPT ![s] = x]
<1>1. sym \in Seq(SymbolType(Pointer(mem))) /\ Len(sym) = Len(mem.sym)
    <2>1. mem.sym \in Seq(SymbolType(Pointer(mem)))
        BY MemoryParts
    <2>. QED BY <2>1, SeqOther DEF Taken
<1>2. [mem EXCEPT !.sym[s] = x] = [mem EXCEPT !.sym = sym]
    BY MemoryParts
<1>. HIDE DEF sym
<1>. QED BY <1>1, <1>2, SymbolsChange

\* Memory with one field of one symbol set.
LEMMA FieldChange ==
    ASSUME NEW mem, MemoryOK(mem), NEW s \in Taken(mem), NEW q \in Pointer(mem)
    PROVE  /\ After(mem, [mem EXCEPT !.sym[s].next = q])
           /\ After(mem, [mem EXCEPT !.sym[s].prev = q])
           /\ After(mem, [mem EXCEPT !.sym[s].nextr = q])
           /\ After(mem, [mem EXCEPT !.sym[s].prevr = q])
           /\ After(mem, [mem EXCEPT !.sym[s].head = TRUE])
<1>1. mem.sym[s] \in SymbolType(Pointer(mem))
    BY SymbolParts
<1>2. /\ [mem.sym[s] EXCEPT !.next = q] \in SymbolType(Pointer(mem))
      /\ [mem.sym[s] EXCEPT !.prev = q] \in SymbolType(Pointer(mem))
      /\ [mem.sym[s] EXCEPT !.nextr = q] \in SymbolType(Pointer(mem))
      /\ [mem.sym[s] EXCEPT !.prevr = q] \in SymbolType(Pointer(mem))
      /\ [mem.sym[s] EXCEPT !.head = TRUE] \in SymbolType(Pointer(mem))
    BY <1>1 DEF SymbolType
<1>3. /\ [mem EXCEPT !.sym[s].next = q] = [mem EXCEPT !.sym[s] = [mem.sym[s] EXCEPT !.next = q]]
      /\ [mem EXCEPT !.sym[s].prev = q] = [mem EXCEPT !.sym[s] = [mem.sym[s] EXCEPT !.prev = q]]
      /\ [mem EXCEPT !.sym[s].nextr = q] = [mem EXCEPT !.sym[s] = [mem.sym[s] EXCEPT !.nextr = q]]
      /\ [mem EXCEPT !.sym[s].prevr = q] = [mem EXCEPT !.sym[s] = [mem.sym[s] EXCEPT !.prevr = q]]
      /\ [mem EXCEPT !.sym[s].head = TRUE] = [mem EXCEPT !.sym[s] = [mem.sym[s] EXCEPT !.head = TRUE]]
    OBVIOUS
<1>. QED BY <1>2, <1>3, SymbolChange

-----------------------------------------------------------------------------
(* The functions of Sequitur: each leaves memory that is well formed       *)

\* add_rule; it is done with NULL pointers only in so far as it stops the program.
LEMMA AddRuleSafe ==
    ASSUME NEW mem, MemoryOK(mem), NEW rule \in Taken(mem)
    PROVE  After(mem, AddRule(mem, rule))
<1>. DEFINE last == mem.sym[mem.main].prevr
            m1 == [mem EXCEPT !.sym[rule].prevr = last]
            m2 == [m1 EXCEPT !.sym[last].nextr = rule]
            m3 == [m2 EXCEPT !.sym[mem.main].prevr = rule]
            m4 == [m3 EXCEPT !.sym[rule].nextr = mem.main]
            result == [mem EXCEPT !.sym[rule].prevr = last,
                                  !.sym[last].nextr = rule,
                                  !.sym[mem.main].prevr = rule,
                                  !.sym[rule].nextr = mem.main]
<1>1. mem.main \in Taken(mem) /\ last \in Pointer(mem) /\ mem.main # NULL
    BY MemoryParts, SymbolParts DEF Taken, NULL
<1>2. AddRule(mem, rule) \in {mem, Follow(mem, {last}, result)}
    BY <1>1 DEF AddRule
<1>3. ASSUME last # NULL
      PROVE  After(mem, result)
    <2>1. last \in Taken(mem)
        BY <1>1, <1>3, NullIsNone
    <2>2. result = m4
        OBVIOUS
    <2>. HIDE DEF last
    <2>3. After(mem, m1)
        BY <1>1, FieldChange
    <2>. HIDE DEF m1, result
    <2>4. /\ MemoryOK(m1) /\ rule \in Taken(m1) /\ last \in Taken(m1) /\ rule \in Pointer(m1)
          /\ mem.main \in Taken(m1) /\ mem.main \in Pointer(m1)
        BY <1>1, <2>1, <2>3, PointersStay DEF After, Pointer
    <2>5. After(m1, m2)
        BY <2>4, FieldChange
    <2>. HIDE DEF m2
    <2>6. /\ MemoryOK(m2) /\ rule \in Taken(m2) /\ rule \in Pointer(m2)
          /\ mem.main \in Taken(m2) /\ mem.main \in Pointer(m2)
        BY <2>4, <2>5, PointersStay DEF After
    <2>7. After(m2, m3)
        BY <2>6, FieldChange
    <2>. HIDE DEF m3
    <2>8. /\ MemoryOK(m3) /\ rule \in Taken(m3) /\ mem.main \in Pointer(m3)
        BY <2>6, <2>7, PointersStay DEF After
    <2>9. After(m3, m4)
        BY <2>8, FieldChange
    <2>. HIDE DEF m4
    <2>10. After(mem, m4)
        BY <2>3, <2>4, <2>5, <2>6, <2>7, <2>8, <2>9, AfterAfter
    <2>. QED BY <2>2, <2>10
<1>. HIDE DEF result, last
<1>4. After(mem, Follow(mem, {last}, result))
    BY <1>3, FollowAfter, MemoryIs
<1>. QED BY <1>2, <1>4, MemoryIs

\* new_rule.
LEMMA NewRuleSafe ==
    ASSUME NEW mem, MemoryOK(mem), NEW v \in Nat
    PROVE  /\ After(mem, NewRule(mem, v))
           /\ NewRule(mem, v).fate = "runs" => Fresh(mem) \in Taken(NewRule(mem, v))
<1>. DEFINE h == Fresh(mem)
            n == NewSymbol(mem, v)
            n1 == [n EXCEPT !.sym[h].next = h]
            n2 == [n1 EXCEPT !.sym[h].prev = h]
            n3 == [n2 EXCEPT !.sym[h].head = TRUE]
            ring == [n EXCEPT !.sym[h].next = h, !.sym[h].prev = h, !.sym[h].head = TRUE]
<1>1. NewRule(mem, v) = Then(n, AddRule(ring, h))
    BY DEF NewRule
<1>2. After(mem, n) /\ MemoryOK(n)
    BY NewSymbolSafe DEF After
<1>3. ASSUME n.fate = "runs"
      PROVE  After(mem, AddRule(ring, h)) /\ h \in Taken(AddRule(ring, h))
    <2>1. h \in Taken(n)
        BY <1>3, NewSymbolSafe
    <2>2. ring = n3
        OBVIOUS
    <2>. HIDE DEF n, h, ring
    <2>3. After(n, n1)
        BY <1>2, <2>1, FieldChange DEF Pointer
    <2>. HIDE DEF n1
    <2>4. MemoryOK(n1) /\ h \in Taken(n1) /\ h \in Pointer(n1)
        BY <1>2, <2>1, <2>3, PointersStay DEF After, Pointer
    <2>5. After(n1, n2)
        BY <2>4, FieldChange
    <2>. HIDE DEF n2
    <2>6. MemoryOK(n2) /\ h \in Taken(n2) /\ h \in Pointer(n2)
        BY <2>4, <2>5, PointersStay DEF After
    <2>7. After(n2, n3)
        BY <2>6, FieldChange
    <2>. HIDE DEF n3
    <2>8. MemoryOK(ring) /\ h \in Taken(ring) /\ After(n2, ring)
        BY <2>2, <2>6, <2>7, PointersStay DEF After
    <2>9. After(ring, AddRule(ring, h))
        BY <2>8, AddRuleSafe
    <2>10. h \in Taken(AddRule(ring, h))
        BY <2>8, <2>9, PointersStay
    <2>. QED BY <1>2, <2>3, <2>4, <2>5, <2>6, <2>8, <2>9, <2>10, AfterAfter
<1>. HIDE DEF n, h, ring
<1>4. After(mem, Then(n, AddRule(ring, h)))
    BY <1>2, <1>3, ThenAfter
<1>5. Then(n, AddRule(ring, h)).fate = "runs" => h \in Taken(Then(n, AddRule(ring, h)))
    BY <1>3 DEF Then
<1>. QED BY <1>1, <1>4, <1>5 DEF h

\* digram_put on memory.
LEMMA PutSafe ==
    ASSUME NEW mem, MemoryOK(mem), NEW s \in Taken(mem)
    PROVE  After(mem, Put(mem, s))
<1>. DEFINE t == DigramPut(mem.sym, mem.table, mem.beyond, s)
<1>1. TableOK(mem.sym, t)
    BY MemoryParts, PutKeepsTable DEF Taken
<1>2. Put(mem, s) \in {mem, [mem EXCEPT !.table = t]}
    BY DEF Put
<1>. HIDE DEF t
<1>. QED BY <1>1, <1>2, TableChange, MemoryIs

\* digram_delete on memory.
LEMMA DeleteSafe ==
    ASSUME NEW mem, MemoryOK(mem), NEW s
    PROVE  After(mem, Delete(mem, s))
<1>. DEFINE t == DigramDelete(mem.sym, mem.table, s)
<1>1. TableOK(mem.sym, t)
    BY MemoryParts, DeleteKeepsTable
<1>2. Delete(mem, s) \in {mem, Stopped(mem, "hang"), [mem EXCEPT !.table = t]}
    BY DEF Delete
<1>. HIDE DEF t
<1>. QED BY <1>1, <1>2, TableChange, FateChange, MemoryIs DEF Fate

\* disjoin: what join_symbols does of the digram that is broken.
LEMMA DisjoinSafe ==
    ASSUME NEW mem, MemoryOK(mem), NEW s \in Taken(mem), NEW next \in Taken(mem)
    PROVE  After(mem, Disjoin(mem, s, next))
<1>. DEFINE m1 == Delete(mem, s)
            m2 == PutIf(m1, Triple(mem, next), next)
            m3 == PutIf(m2, Triple(mem, s), s)
<1>1. Disjoin(mem, s, next) = m3
    BY DEF Disjoin
<1>2. After(mem, m1)
    BY DeleteSafe
<1>. HIDE DEF m1
<1>3. MemoryOK(m1) /\ next \in Taken(m1) /\ s \in Taken(m1)
    BY <1>2, PointersStay DEF After
<1>4. After(m1, m2)
    BY <1>3, PutSafe, MemoryIs DEF PutIf
<1>. HIDE DEF m2
<1>5. MemoryOK(m2) /\ s \in Taken(m2)
    BY <1>3, <1>4, PointersStay DEF After
<1>6. After(m2, m3)
    BY <1>5, PutSafe, MemoryIs DEF PutIf
<1>. HIDE DEF m3
<1>. QED BY <1>1, <1>2, <1>3, <1>4, <1>5, <1>6, AfterAfter

\* join_symbols.
LEMMA JoinSafe ==
    ASSUME NEW mem, MemoryOK(mem), NEW s \in Pointer(mem), NEW next \in Pointer(mem)
    PROVE  After(mem, JoinSymbols(mem, s, next))
<1>. DEFINE n == IF mem.sym[s].next # NULL THEN Disjoin(mem, s, next) ELSE mem
            n1 == [n EXCEPT !.sym[s].next = next]
            n2 == [n1 EXCEPT !.sym[next].prev = s]
            joined == [n EXCEPT !.sym[s].next = next, !.sym[next].prev = s]
<1>1. JoinSymbols(mem, s, next) = Follow(mem, {s, next}, Then(n, joined))
    BY DEF JoinSymbols
<1>2. ASSUME NULL \notin {s, next}
      PROVE  After(mem, Then(n, joined))
    <2>1. s \in Taken(mem) /\ next \in Taken(mem)
        BY <1>2, NullIsNone
    <2>2. After(mem, n)
        BY <2>1, DisjoinSafe, MemoryIs
    <2>3. joined = n2
        OBVIOUS
    <2>. HIDE DEF n, joined
    <2>4. MemoryOK(n) /\ s \in Taken(n) /\ next \in Pointer(n) /\ next \in Taken(n)
        BY <2>1, <2>2, PointersStay DEF After
    <2>5. After(n, n1)
        BY <2>4, FieldChange
    <2>. HIDE DEF n1
    <2>6. MemoryOK(n1) /\ next \in Taken(n1) /\ s \in Pointer(n1)
        BY <2>4, <2>5, PointersStay DEF After, Pointer
    <2>7. After(n1, n2)
        BY <2>6, FieldChange
    <2>. HIDE DEF n2
    <2>8. After(mem, joined)
        BY <2>2, <2>3, <2>4, <2>5, <2>6, <2>7, AfterAfter
    <2>. QED BY <2>2, <2>8, ThenAfter
<1>. HIDE DEF n, joined
<1>. QED BY <1>1, <1>2, FollowAfter, MemoryIs

\* insert_after.
LEMMA InsertSafe ==
    ASSUME NEW mem, MemoryOK(mem), NEW s \in Pointer(mem), NEW next \in Pointer(mem)
    PROVE  After(mem, InsertAfter(mem, s, next))
<1>. DEFINE m1 == JoinSymbols(mem, next, mem.sym[s].next)
            m2 == JoinSymbols(m1, s, next)
<1>1. InsertAfter(mem, s, next) = Follow(mem, {s}, m2)
    BY DEF InsertAfter
<1>2. ASSUME s # NULL
      PROVE  After(mem, m2)
    <2>1. mem.sym[s].next \in Pointer(mem)
        BY <1>2, NullIsNone, SymbolParts
    <2>2. After(mem, m1)
        BY <2>1, JoinSafe
    <2>. HIDE DEF m1
    <2>3. MemoryOK(m1) /\ s \in Pointer(m1) /\ next \in Pointer(m1)
        BY <2>2, PointersStay DEF After
    <2>. QED BY <2>2, <2>3, JoinSafe, AfterAfter
<1>. HIDE DEF m2
<1>. QED BY <1>1, <1>2, FollowAfter, MemoryIs

\* insert_after of a new symbol.
LEMMA InsertNewSafe ==
    ASSUME NEW mem, MemoryOK(mem), NEW s \in Pointer(mem), NEW v \in Nat
    PROVE  After(mem, InsertNew(mem, s, v))
<1>. DEFINE n == NewSymbol(mem, v)
            new == InsertAfter(n, s, Fresh(mem))
<1>1. After(mem, n) /\ MemoryOK(n) /\ s \in Pointer(n)
    BY NewSymbolSafe, PointersStay DEF After
<1>2. n.fate = "runs" => Fresh(mem) \in Pointer(n)
    BY NewSymbolSafe DEF Pointer
<1>3. InsertNew(mem, s, v) = new
    BY DEF InsertNew
<1>. HIDE DEF n
<1>4. CASE n.fate = "runs"
    BY <1>1, <1>2, <1>3, <1>4, InsertSafe, AfterAfter
<1>5. CASE n.fate # "runs"
    <2>1. new = n
        BY <1>5 DEF InsertAfter, Follow, Then
    <2>. QED BY <1>1, <1>3, <2>1
<1>. QED BY <1>4, <1>5

\* delete_symbol.
LEMMA DeleteSymbolSafe ==
    ASSUME NEW mem, MemoryOK(mem), NEW s \in Pointer(mem)
    PROVE  After(mem, DeleteSymbol(mem, s))
<1>. DEFINE m1 == JoinSymbols(mem, mem.sym[s].prev, mem.sym[s].next)
            m2 == Delete(m1, s)
            m3 == RecycleSymbol(m2, s)
            result == IF mem.sym[s].head THEN Stopped(mem, "abort") ELSE m3
<1>1. DeleteSymbol(mem, s) = Follow(mem, {s}, result)
    BY DEF DeleteSymbol
<1>2. ASSUME s # NULL
      PROVE  After(mem, result)
    <2>1. s \in Taken(mem)
        BY <1>2, NullIsNone
    <2>2. After(mem, m1)
        BY <2>1, SymbolParts, JoinSafe
    <2>. HIDE DEF m1
    <2>3. MemoryOK(m1) /\ s \in Taken(m1)
        BY <2>1, <2>2, PointersStay DEF After
    <2>4. After(m1, m2)
        BY <2>3, DeleteSafe
    <2>. HIDE DEF m2
    <2>5. MemoryOK(m2) /\ s \in Taken(m2)
        BY <2>3, <2>4, PointersStay DEF After
    <2>6. After(m2, m3)
        BY <2>5, RecycleSafe
    <2>. HIDE DEF m3
    <2>7. After(mem, m3)
        BY <2>2, <2>3, <2>4, <2>5, <2>6, AfterAfter
    <2>. QED BY <2>7, FateChange DEF Fate
<1>. HIDE DEF result
<1>. QED BY <1>1, <1>2, FollowAfter, MemoryIs

\* The calls that a function makes last are put on the stack.
LEMMA CallsSafe ==
    ASSUME NEW mem, MemoryOK(mem), NEW calls \in Seq(CallType(Taken(mem)))
    PROVE  After(mem, Calls(mem, calls))
<1>1. calls \o mem.calls \in Seq(CallType(Taken(mem)))
    <2>. DEFINE C == CallType(Taken(mem))
    <2>1. calls \in Seq(C) /\ mem.calls \in Seq(C)
        BY MemoryParts
    <2>. HIDE DEF C
    <2>2. calls \o mem.calls \in Seq(C)
        BY <2>1
    <2>. QED BY <2>2 DEF C
<1>2. Calls(mem, calls) \in {mem, [mem EXCEPT !.calls = calls \o mem.calls]}
    BY DEF Calls
<1>. QED BY <1>1, <1>2, CallsChange, MemoryIs

\* What may be put on it.
LEMMA CallOf ==
    ASSUME NEW mem, MemoryOK(mem)
    PROVE  /\ \A at \in Pointer(mem) : /\ Call("check", at, NULL) \in CallType(Taken(mem))
                                       /\ Call("check both", at, NULL) \in CallType(Taken(mem))
           /\ \A at \in Pointer(mem), rule \in Taken(mem) :
                Call("replace", at, rule) \in CallType(Taken(mem))
           /\ \A rule \in Taken(mem) : /\ Call("put body", NULL, rule) \in CallType(Taken(mem))
                                       /\ Call("utility", NULL, rule) \in CallType(Taken(mem))
BY DEF Call, CallType, Pointer

\* replace_digram.
LEMMA ReplaceSafe ==
    ASSUME NEW mem, MemoryOK(mem), NEW s \in Pointer(mem), NEW rule \in Taken(mem)
    PROVE  After(mem, ReplaceDigram(mem, s, rule))
<1>. DEFINE prev == At(mem, s).prev
            m1 == DeleteSymbol(mem, mem.sym[prev].next)
            m2 == DeleteSymbol(m1, m1.sym[prev].next)
            m3 == InsertNew(m2, prev, m2.sym[rule].value)
            a == Call("check both", prev, NULL)
            m4 == Calls(m3, <<a>>)
            result == Then(m1, Then(m2, m4))
<1>1. ReplaceDigram(mem, s, rule) = Follow(mem, {s, prev}, result)
    BY DEF ReplaceDigram
<1>2. ASSUME NULL \notin {s, prev}
      PROVE  After(mem, result)
    <2>1. s \in Taken(mem)
        BY <1>2, NullIsNone
    <2>2. prev \in Pointer(mem)
        BY <1>2, <2>1, SymbolParts DEF At
    <2>. HIDE DEF prev
    <2>3. prev \in Taken(mem) /\ mem.sym[prev].next \in Pointer(mem)
        BY <1>2, <2>2, NullIsNone, SymbolParts
    <2>4. After(mem, m1)
        BY <2>3, DeleteSymbolSafe
    <2>. HIDE DEF m1
    <2>5. MemoryOK(m1) /\ prev \in Taken(m1) /\ rule \in Taken(m1)
        BY <2>3, <2>4, PointersStay DEF After
    <2>6. m1.sym[prev].next \in Pointer(m1)
        BY <2>5, SymbolParts
    <2>7. After(m1, m2)
        BY <2>5, <2>6, DeleteSymbolSafe
    <2>. HIDE DEF m2
    <2>8. MemoryOK(m2) /\ prev \in Taken(m2) /\ rule \in Taken(m2)
        BY <2>5, <2>7, PointersStay DEF After
    <2>9. prev \in Pointer(m2) /\ m2.sym[rule].value \in Nat
        BY <2>8, SymbolParts DEF Pointer
    <2>10. After(m2, m3)
        BY <2>8, <2>9, InsertNewSafe
    <2>. HIDE DEF m3
    <2>11. MemoryOK(m3) /\ prev \in Pointer(m3)
        BY <2>8, <2>9, <2>10, PointersStay DEF After
    <2>12. <<a>> \in Seq(CallType(Taken(m3)))
        <3>1. a \in CallType(Taken(m3))
            BY <2>11, CallOf
        <3>. HIDE DEF a
        <3>. QED BY <3>1
    <2>13. After(m3, m4)
        BY <2>11, <2>12, CallsSafe
    <2>. HIDE DEF m4
    <2>14. After(mem, m2) /\ After(mem, m4)
        BY <2>4, <2>5, <2>7, <2>8, <2>10, <2>11, <2>13, AfterAfter
    <2>. QED BY <2>4, <2>14 DEF Then
<1>. HIDE DEF result, prev
<1>. QED BY <1>1, <1>2, FollowAfter, MemoryIs

\* The part of replace_digram that keeps every rule used twice.
LEMMA UtilitySafe ==
    ASSUME NEW mem, MemoryOK(mem), NEW rule \in Taken(mem)
    PROVE  After(mem, RuleUtility(mem, rule))
<1>1. After(mem, mem) /\ After(mem, Stopped(mem, "abort"))
    BY MemoryIs, FateChange DEF Fate
<1>. QED BY <1>1, FollowAfter DEF RuleUtility

\* process_match, when the match is the whole of a rule.
LEMMA UseRuleSafe ==
    ASSUME NEW mem, MemoryOK(mem), NEW s \in Pointer(mem), NEW rule \in Taken(mem)
    PROVE  After(mem, UseRule(mem, s, rule))
<1>. DEFINE a == Call("replace", s, rule)
            b == Call("utility", NULL, rule)
<1>1. a \in CallType(Taken(mem)) /\ b \in CallType(Taken(mem))
    BY CallOf
<1>2. UseRule(mem, s, rule) = Calls(mem, <<a, b>>)
    BY DEF UseRule
<1>. HIDE DEF a, b
<1>3. <<a, b>> \in Seq(CallType(Taken(mem)))
    BY <1>1
<1>. QED BY <1>2, <1>3, CallsSafe

\* The body of a new rule is a copy of the digram.
LEMMA NewBodySafe ==
    ASSUME NEW mem, MemoryOK(mem), NEW rule \in Taken(mem), NEW s \in Taken(mem)
    PROVE  After(mem, NewBody(mem, rule, s))
<1>. DEFINE n == InsertNew(mem, mem.sym[rule].prev, mem.sym[s].value)
            next == At(n, s).next
            new == InsertNew(n, n.sym[rule].prev, n.sym[next].value)
<1>1. NewBody(mem, rule, s) = Follow(n, {next}, new)
    BY DEF NewBody
<1>2. After(mem, n)
    BY SymbolParts, InsertNewSafe
<1>. HIDE DEF n
<1>3. MemoryOK(n) /\ rule \in Taken(n) /\ s \in Taken(n)
    BY <1>2, PointersStay DEF After
<1>4. ASSUME next # NULL
      PROVE  After(mem, new)
    <2>1. next \in Pointer(n)
        BY <1>3, SymbolParts DEF At, Taken, NULL
    <2>2. n.sym[next].value \in Nat /\ n.sym[rule].prev \in Pointer(n)
        BY <1>3, <1>4, <2>1, NullIsNone, SymbolParts
    <2>3. After(n, new)
        BY <1>3, <2>2, InsertNewSafe
    <2>. QED BY <1>2, <1>3, <2>3, AfterAfter
<1>. HIDE DEF new
<1>. QED BY <1>1, <1>2, <1>4, FollowAfter

\* It is entered in the table.
LEMMA PutBodySafe ==
    ASSUME NEW mem, MemoryOK(mem), NEW rule \in Taken(mem)
    PROVE  After(mem, PutBody(mem, rule))
<1>. DEFINE next == At(mem, rule).next
<1>1. next \in Pointer(mem) /\ next = mem.sym[rule].next
    BY SymbolParts DEF At, Taken, NULL
<1>2. PutBody(mem, rule) = Follow(mem, {next}, Put(mem, next))
    BY <1>1 DEF PutBody
<1>. HIDE DEF next
<1>3. next # NULL => After(mem, Put(mem, next))
    BY <1>1, NullIsNone, PutSafe
<1>. QED BY <1>2, <1>3, FollowAfter, MemoryIs

\* process_match, when a rule is made.
LEMMA MakeRuleSafe ==
    ASSUME NEW mem, MemoryOK(mem), NEW s \in Taken(mem), NEW match \in Taken(mem)
    PROVE  After(mem, MakeRule(mem, s, match))
<1>. DEFINE rule == Fresh(mem)
            m0 == [mem EXCEPT !.nonterminal = @ + 1]
            n == NewRule(m0, mem.nonterminal)
            m1 == AddRule(n, rule)
            m2 == NewBody(m1, rule, s)
            a == Call("replace", match, rule)
            b == Call("replace", s, rule)
            c == Call("put body", NULL, rule)
            e == Call("utility", NULL, rule)
            result == Calls(m2, <<a, b, c, e>>)
<1>1. MakeRule(mem, s, match) = Then(m1, result)
    BY DEF MakeRule
<1>2. After(mem, m0) /\ Fresh(m0) = rule /\ m0.fate = mem.fate /\ mem.nonterminal \in Nat
    <2>1. mem.nonterminal \in Nat /\ mem.nonterminal + 1 \in Nat
        BY MemoryParts
    <2>2. After(mem, m0)
        BY <2>1, NonterminalChange
    <2>3. m0.sym = mem.sym /\ m0.recycled = mem.recycled /\ m0.fate = mem.fate
        BY MemoryParts
    <2>. HIDE DEF m0
    <2>. QED BY <2>1, <2>2, <2>3 DEF Fresh
<1>. HIDE DEF m0, rule
<1>3. /\ After(mem, n) /\ MemoryOK(n) /\ (n.fate = "runs" => rule \in Taken(n))
    <2>1. MemoryOK(m0) /\ After(m0, n)
        BY <1>2, NewRuleSafe DEF After
    <2>2. n.fate = "runs" => rule \in Taken(n)
        BY <1>2, <2>1, NewRuleSafe
    <2>. QED BY <1>2, <2>1, <2>2, AfterAfter DEF After
<1>. HIDE DEF n
<1>4. After(n, m1) /\ (m1.fate = "runs" => rule \in Taken(m1))
    <2>1. CASE n.fate = "runs"
        <3>1. After(n, m1)
            BY <1>3, <2>1, AddRuleSafe
        <3>2. rule \in Taken(m1)
            BY <1>3, <2>1, <3>1, PointersStay
        <3>. QED BY <3>1, <3>2
    <2>2. CASE n.fate # "runs"
        <3>1. m1 = n
            BY <2>2 DEF AddRule
        <3>. QED BY <1>3, <2>2, <3>1, MemoryIs
    <2>. QED BY <2>1, <2>2
<1>. HIDE DEF m1
<1>5. After(mem, m1) /\ MemoryOK(m1) /\ s \in Taken(m1) /\ match \in Taken(m1)
    BY <1>3, <1>4, AfterAfter, PointersStay DEF After
<1>6. ASSUME m1.fate = "runs"
      PROVE  After(mem, result)
    <2>1. After(m1, m2)
        BY <1>4, <1>5, <1>6, NewBodySafe
    <2>. HIDE DEF m2
    <2>2. MemoryOK(m2) /\ s \in Taken(m2) /\ match \in Taken(m2) /\ rule \in Taken(m2)
        BY <1>4, <1>5, <1>6, <2>1, PointersStay DEF After
    <2>3. /\ a \in CallType(Taken(m2)) /\ b \in CallType(Taken(m2))
          /\ c \in CallType(Taken(m2)) /\ e \in CallType(Taken(m2))
        BY <2>2, CallOf DEF Pointer
    <2>. HIDE DEF a, b, c, e
    <2>4. <<a, b, c, e>> \in Seq(CallType(Taken(m2)))
        BY <2>3
    <2>5. After(m2, result)
        BY <2>2, <2>4, CallsSafe
    <2>. QED BY <1>5, <2>1, <2>2, <2>5, AfterAfter
<1>. HIDE DEF result
<1>. QED BY <1>1, <1>5, <1>6, ThenAfter

\* process_match.
LEMMA ProcessMatchSafe ==
    ASSUME NEW mem, MemoryOK(mem), NEW s \in Taken(mem), NEW match \in Taken(mem)
    PROVE  After(mem, ProcessMatch(mem, s, match))
<1>. DEFINE before == At(mem, match).prev
            after == Next2(mem, match)
            whole == mem.sym[before].head /\ mem.sym[after].head
            P == IF At(mem, before).head THEN {before, after} ELSE {before}
            result == IF whole THEN UseRule(mem, s, before) ELSE MakeRule(mem, s, match)
<1>1. ProcessMatch(mem, s, match) = Follow(mem, P, result)
    BY DEF ProcessMatch
<1>2. before \in Pointer(mem)
    BY SymbolParts DEF At, Taken, NULL
<1>. HIDE DEF before, after, whole
<1>3. NULL \notin P => before \in Taken(mem)
    BY <1>2, NullIsNone
<1>4. NULL \notin P => After(mem, result)
    BY <1>3, UseRuleSafe, MakeRuleSafe DEF Pointer
<1>. HIDE DEF P, result
<1>. QED BY <1>1, <1>4, FollowAfter, MemoryIs

\* check_digram, when nothing is replaced.
LEMMA NotReplacedSafe ==
    ASSUME NEW mem, MemoryOK(mem), NEW s \in Taken(mem), NEW both
    PROVE  After(mem, NotReplaced(mem, s, both))
<1>. DEFINE a == Call("check", mem.sym[s].next, NULL)
<1>1. a \in CallType(Taken(mem))
    BY SymbolParts, CallOf
<1>2. NotReplaced(mem, s, both) \in {mem, Calls(mem, <<a>>)}
    BY DEF NotReplaced
<1>. HIDE DEF a
<1>3. <<a>> \in Seq(CallType(Taken(mem)))
    BY <1>1
<1>. QED BY <1>2, <1>3, CallsSafe, MemoryIs

\* check_digram.
LEMMA CheckSafe ==
    ASSUME NEW mem, MemoryOK(mem), NEW s \in Pointer(mem), NEW both
    PROVE  After(mem, CheckDigram(mem, s, both))
<1>. DEFINE next == At(mem, s).next
            match == DigramGet(mem.sym, mem.table, mem.beyond, mem.sym[s].value, mem.sym[next].value)
            inner == IF mem.sym[next].head THEN NotReplaced(mem, s, both)
                     ELSE IF match = WILD THEN Stopped(mem, "fault")
                     ELSE IF match = NULL THEN NotReplaced(Put(mem, s), s, both)
                     ELSE IF mem.sym[match].next = s THEN NotReplaced(mem, s, both)
                     ELSE ProcessMatch(mem, s, match)
            outer == IF mem.sym[s].head THEN NotReplaced(mem, s, both)
                     ELSE Follow(mem, {next}, inner)
<1>1. CheckDigram(mem, s, both) = Follow(mem, {s}, outer)
    BY DEF CheckDigram
<1>2. ASSUME s # NULL
      PROVE  After(mem, outer)
    <2>1. s \in Taken(mem)
        BY <1>2, NullIsNone
    <2>2. match \in {NULL, WILD} \cup Taken(mem)
        BY MemoryParts, GetFindsSymbol DEF Taken
    <2>. HIDE DEF match, next
    <2>3. After(mem, NotReplaced(Put(mem, s), s, both))
        <3>. DEFINE n == Put(mem, s)
        <3>1. After(mem, n)
            BY <2>1, PutSafe
        <3>. HIDE DEF n
        <3>2. MemoryOK(n) /\ s \in Taken(n)
            BY <2>1, <3>1, PointersStay DEF After
        <3>3. After(mem, NotReplaced(n, s, both))
            BY <3>1, <3>2, NotReplacedSafe, AfterAfter
        <3>. QED BY <3>3 DEF n
    <2>4. After(mem, NotReplaced(mem, s, both)) /\ After(mem, Stopped(mem, "fault"))
        BY <2>1, NotReplacedSafe, FateChange DEF Fate
    <2>5. match \notin {NULL, WILD} => After(mem, ProcessMatch(mem, s, match))
        BY <2>1, <2>2, ProcessMatchSafe
    <2>6. After(mem, inner)
        BY <2>3, <2>4, <2>5
    <2>. HIDE DEF inner
    <2>. QED BY <2>4, <2>6, FollowAfter, MemoryIs
<1>. HIDE DEF outer
<1>. QED BY <1>1, <1>2, FollowAfter, MemoryIs

\* The next call of the stack.
LEMMA ProceedSafe ==
    ASSUME NEW mem, MemoryOK(mem), mem.calls # <<>>
    PROVE  After(mem, Proceed(mem))
<1>. DEFINE c == Head(mem.calls)
            n == [mem EXCEPT !.calls = Tail(@)]
<1>1. c \in CallType(Taken(mem)) /\ Tail(mem.calls) \in Seq(CallType(Taken(mem)))
    <2>. DEFINE C == CallType(Taken(mem))
    <2>1. mem.calls \in Seq(C)
        BY MemoryParts
    <2>. HIDE DEF C
    <2>2. c \in C /\ Tail(mem.calls) \in Seq(C)
        BY <2>1
    <2>. QED BY <2>2 DEF C
<1>2. After(mem, n)
    BY <1>1, CallsChange
<1>3. Proceed(mem) =
        CASE c.call = "check"      -> CheckDigram(n, c.at, FALSE)
          [] c.call = "check both" -> CheckDigram(n, c.at, TRUE)
          [] c.call = "replace"    -> ReplaceDigram(n, c.at, c.rule)
          [] c.call = "put body"   -> PutBody(n, c.rule)
          [] c.call = "utility"    -> RuleUtility(n, c.rule)
    BY DEF Proceed
<1>. HIDE DEF n, c
<1>4. MemoryOK(n) /\ Taken(mem) \subseteq Taken(n) /\ Pointer(mem) \subseteq Pointer(n)
    BY <1>2, PointersStay DEF After
<1>5. \/ c.call \in {"check", "check both"} /\ c.at \in Pointer(mem)
      \/ c.call = "replace" /\ c.at \in Pointer(mem) /\ c.rule \in Taken(mem)
      \/ c.call \in {"put body", "utility"} /\ c.rule \in Taken(mem)
    BY <1>1 DEF CallType, Pointer
<1>6. After(n, Proceed(mem))
    <2>1. CASE c.call = "check" /\ c.at \in Pointer(mem)
        BY <1>3, <1>4, <2>1, CheckSafe
    <2>2. CASE c.call = "check both" /\ c.at \in Pointer(mem)
        BY <1>3, <1>4, <2>2, CheckSafe
    <2>3. CASE c.call = "replace" /\ c.at \in Pointer(mem) /\ c.rule \in Taken(mem)
        BY <1>3, <1>4, <2>3, ReplaceSafe
    <2>4. CASE c.call = "put body" /\ c.rule \in Taken(mem)
        BY <1>3, <1>4, <2>4, PutBodySafe
    <2>5. CASE c.call = "utility" /\ c.rule \in Taken(mem)
        BY <1>3, <1>4, <2>5, UtilitySafe
    <2>. QED BY <1>5, <2>1, <2>2, <2>3, <2>4, <2>5
<1>. QED BY <1>2, <1>4, <1>6, AfterAfter

\* A sequence of one, with that one replaced.
LEMMA OneOther ==
    ASSUME NEW x, NEW y
    PROVE  [<<x>> EXCEPT ![1] = y] = <<y>>
<1>1. DOMAIN [<<x>> EXCEPT ![1] = y] = 1 .. 1 /\ DOMAIN <<y>> = 1 .. 1
    OBVIOUS
<1>2. <<y>> = [i \in 1 .. 1 |-> y] /\ [<<x>> EXCEPT ![1] = y] = [i \in 1 .. 1 |-> y]
    BY <1>1
<1>. QED BY <1>2

\* The memory with which a block begins: the head of the main rule, alone.
LEMMA NewBlockIs ==
    ASSUME NEW beyond
    PROVE  NewBlock(beyond) =
             [sym |-> <<[value |-> FirstNonterminal, head |-> TRUE, next |-> 1, prev |-> 1,
                         nextr |-> 1, prevr |-> 1]>>,
              recycled |-> NULL, main |-> 1, table |-> <<>>,
              nonterminal |-> FirstNonterminal + 1, beyond |-> beyond,
              calls |-> <<>>, fate |-> "runs"]
<1>. DEFINE m0 == [sym |-> <<>>, recycled |-> NULL, main |-> NULL, table |-> <<>>,
                   nonterminal |-> FirstNonterminal + 1, beyond |-> beyond,
                   calls |-> <<>>, fate |-> "runs"]
            v == FirstNonterminal
            no == FALSE
            yes == TRUE
            none == NULL
            one == 1
            h0 == [value |-> v, head |-> no, next |-> none, prev |-> none,
                   nextr |-> none, prevr |-> none]
            h1 == [value |-> v, head |-> yes, next |-> one, prev |-> one,
                   nextr |-> none, prevr |-> none]
            h2 == [value |-> v, head |-> yes, next |-> one, prev |-> one, nextr |-> one, prevr |-> one]
            m1 == [m0 EXCEPT !.sym = <<h0>>]
            m2 == [m0 EXCEPT !.sym = <<h1>>]
            m3 == [m0 EXCEPT !.sym = <<h2>>, !.main = 1]
<1>1. NewBlock(beyond) = NewRule(m0, v)
    BY DEF NewBlock
<1>2. Fresh(m0) = 1
    BY DEF Fresh
<1>3. NewSymbol(m0, v) = m1
    <2>1. Append(<<>>, Symbol(v)) = <<h0>>
        BY DEF Symbol
    <2>2. NewSymbol(m0, v) = [m0 EXCEPT !.sym = Append(@, Symbol(v))]
        BY SequiturAssumption DEF NewSymbol
    <2>. QED BY <2>1, <2>2
<1>4. [m1 EXCEPT !.sym[1].next = 1, !.sym[1].prev = 1, !.sym[1].head = TRUE] = m2
    <2>. DEFINE g1 == [value |-> v, head |-> no, next |-> one, prev |-> none,
                       nextr |-> none, prevr |-> none]
                g2 == [value |-> v, head |-> no, next |-> one, prev |-> one,
                       nextr |-> none, prevr |-> none]
                with(x) == [m0 EXCEPT !.sym = x]
    <2>1. [h0 EXCEPT !.next = 1] = g1 /\ [g1 EXCEPT !.prev = 1] = g2 /\ [g2 EXCEPT !.head = TRUE] = h1
        <3>1. [h0 EXCEPT !.next = one] = g1
            <4>. HIDE DEF v, no, yes, none, one
            <4>. QED OBVIOUS
        <3>2. [g1 EXCEPT !.prev = one] = g2
            <4>. HIDE DEF v, no, yes, none, one
            <4>. QED OBVIOUS
        <3>3. [g2 EXCEPT !.head = yes] = h1
            <4>. HIDE DEF v, no, yes, none, one
            <4>. QED OBVIOUS
        <3>. QED BY <3>1, <3>2, <3>3
    <2>2. /\ [<<h0>> EXCEPT ![1].next = 1] = <<[h0 EXCEPT !.next = 1]>>
          /\ [<<g1>> EXCEPT ![1].prev = 1] = <<[g1 EXCEPT !.prev = 1]>>
          /\ [<<g2>> EXCEPT ![1].head = TRUE] = <<[g2 EXCEPT !.head = TRUE]>>
        <3>. HIDE DEF h0, g1, g2
        <3>. QED BY OneOther
    <2>3. /\ [with(<<h0>>) EXCEPT !.sym[1].next = 1] = with([<<h0>> EXCEPT ![1].next = 1])
          /\ [with(<<g1>>) EXCEPT !.sym[1].prev = 1] = with([<<g1>> EXCEPT ![1].prev = 1])
          /\ [with(<<g2>>) EXCEPT !.sym[1].head = TRUE] = with([<<g2>> EXCEPT ![1].head = TRUE])
        <3>. HIDE DEF h0, g1, g2
        <3>. QED OBVIOUS
    <2>4. m1 = with(<<h0>>) /\ m2 = with(<<h1>>)
        OBVIOUS
    <2>5. [m1 EXCEPT !.sym[1].next = 1, !.sym[1].prev = 1, !.sym[1].head = TRUE]
            = [[[m1 EXCEPT !.sym[1].next = 1] EXCEPT !.sym[1].prev = 1] EXCEPT !.sym[1].head = TRUE]
        <3>. HIDE DEF m1
        <3>. QED OBVIOUS
    <2>. HIDE DEF m1, m2, with, h0, h1, g1, g2
    <2>6. [m1 EXCEPT !.sym[1].next = 1] = with(<<g1>>)
        BY <2>1, <2>2, <2>3, <2>4
    <2>7. [with(<<g1>>) EXCEPT !.sym[1].prev = 1] = with(<<g2>>)
        BY <2>1, <2>2, <2>3
    <2>8. [with(<<g2>>) EXCEPT !.sym[1].head = TRUE] = m2
        BY <2>1, <2>2, <2>3, <2>4
    <2>. QED BY <2>5, <2>6, <2>7, <2>8, Zenon
<1>5. AddRule(m2, 1) = m3
    <2>. DEFINE g == [value |-> v, head |-> yes, next |-> one, prev |-> one,
                      nextr |-> one, prevr |-> none]
                with(x) == [[m0 EXCEPT !.main = 1] EXCEPT !.sym = x]
    <2>1. AddRule(m2, 1) = [m2 EXCEPT !.main = 1, !.sym[1].nextr = 1, !.sym[1].prevr = 1]
        <3>1. m2.fate = "runs" /\ m2.main = NULL
            OBVIOUS
        <3>. HIDE DEF m2
        <3>. QED BY <3>1 DEF AddRule
    <2>2. [h1 EXCEPT !.nextr = 1] = g /\ [g EXCEPT !.prevr = 1] = h2
        <3>1. [h1 EXCEPT !.nextr = one] = g
            <4>. HIDE DEF v, no, yes, none, one
            <4>. QED OBVIOUS
        <3>2. [g EXCEPT !.prevr = one] = h2
            <4>. HIDE DEF v, no, yes, none, one
            <4>. QED OBVIOUS
        <3>. QED BY <3>1, <3>2
    <2>3. /\ [<<h1>> EXCEPT ![1].nextr = 1] = <<[h1 EXCEPT !.nextr = 1]>>
          /\ [<<g>> EXCEPT ![1].prevr = 1] = <<[g EXCEPT !.prevr = 1]>>
        <3>. HIDE DEF h1, g
        <3>. QED BY OneOther
    <2>4. /\ [with(<<h1>>) EXCEPT !.sym[1].nextr = 1] = with([<<h1>> EXCEPT ![1].nextr = 1])
          /\ [with(<<g>>) EXCEPT !.sym[1].prevr = 1] = with([<<g>> EXCEPT ![1].prevr = 1])
        <3>. HIDE DEF h1, g
        <3>. QED OBVIOUS
    <2>5. [m2 EXCEPT !.main = 1] = with(<<h1>>) /\ m3 = with(<<h2>>)
        <3>. HIDE DEF h1, h2
        <3>. QED OBVIOUS
    <2>6. [m2 EXCEPT !.main = 1, !.sym[1].nextr = 1, !.sym[1].prevr = 1]
            = [[[m2 EXCEPT !.main = 1] EXCEPT !.sym[1].nextr = 1] EXCEPT !.sym[1].prevr = 1]
        <3>. HIDE DEF m2
        <3>. QED OBVIOUS
    <2>. HIDE DEF m2, m3, with, h1, h2, g
    <2>. QED BY <2>1, <2>2, <2>3, <2>4, <2>5, <2>6
<1>6. NewRule(m0, v) = m3
    <2>1. m1.fate = "runs"
        OBVIOUS
    <2>. HIDE DEF m0, m1, m2, m3
    <2>. QED BY <1>2, <1>3, <1>4, <1>5, <2>1 DEF NewRule, Then
<1>. QED BY <1>1, <1>6

\* init_symbols, init_rules, init_digram_hash and the main rule.
LEMMA NewBlockSafe ==
    ASSUME NEW beyond \in {NULL, WILD}
    PROVE  /\ MemoryOK(NewBlock(beyond))
           /\ NewBlock(beyond).calls = <<>> /\ NewBlock(beyond).fate = "runs"
           /\ NewBlock(beyond).main = 1
           /\ NewBlock(beyond).sym[1].value = FirstNonterminal
           /\ NewBlock(beyond).beyond = beyond
<1>. DEFINE n == NewBlock(beyond)
            h == [value |-> FirstNonterminal, head |-> TRUE, next |-> 1, prev |-> 1,
                  nextr |-> 1, prevr |-> 1]
            p == {NULL} \cup 1 .. 1
<1>1. /\ n.sym = <<h>> /\ n.recycled = NULL /\ n.main = 1 /\ n.table = <<>>
      /\ n.calls = <<>> /\ n.fate = "runs" /\ n.beyond = beyond
    BY NewBlockIs
<1>2. Len(n.sym) = 1 /\ n.sym[1] = h
    BY <1>1
<1>3. n.sym \in Seq(SymbolType(p))
    <2>1. h \in SymbolType(p)
        BY DEF SymbolType, FirstNonterminal
    <2>. HIDE DEF h, n, p
    <2>. QED BY <1>1, <2>1
<1>4. DOMAIN n.table = {} /\ n.table \in [DOMAIN n.table -> {TOMBSTONE} \cup 1 .. 1]
    BY <1>1
<1>5. n = [sym |-> n.sym, recycled |-> NULL, main |-> 1, table |-> n.table,
           nonterminal |-> FirstNonterminal + 1, beyond |-> beyond,
           calls |-> <<>>, fate |-> "runs"]
    BY <1>1, NewBlockIs
<1>6. FirstNonterminal + 1 \in Nat /\ <<>> \in Seq(CallType(1 .. 1)) /\ "runs" \in Fate
    BY DEF FirstNonterminal, Fate
<1>. HIDE DEF n, p
<1>7. n \in [sym : Seq(SymbolType(p)), recycled : p, main : 1 .. 1,
             table : [DOMAIN n.table -> {TOMBSTONE} \cup 1 .. 1],
             nonterminal : Nat, beyond : {NULL, WILD},
             calls : Seq(CallType(1 .. 1)), fate : Fate]
    BY <1>3, <1>4, <1>5, <1>6 DEF p
<1>8. MemoryOK(n)
    <2>. DEFINE t == 1 .. 1
    <2>1. t = Taken(n) /\ Len(n.sym) <= MaxSymbols
        BY <1>2, SequiturAssumption DEF Taken
    <2>2. DOMAIN n.table \subseteq 0 .. MaxDigrams - 1
        BY <1>4
    <2>3. n \in [sym : Seq(SymbolType({NULL} \cup t)), recycled : {NULL} \cup t, main : t,
                 table : [DOMAIN n.table -> {TOMBSTONE} \cup t],
                 nonterminal : Nat, beyond : {NULL, WILD},
                 calls : Seq(CallType(t)), fate : Fate]
        BY <1>7 DEF p
    <2>. HIDE DEF t
    <2>. QED BY <2>1, <2>2, <2>3, MemoryOf
<1>. QED BY <1>1, <1>2, <1>8 DEF n

-----------------------------------------------------------------------------
(* The types of the transmission and of decompress                         *)

\* The bytes as inequalities.
LEMMA ByteBounds ==
    \A b : b \in Byte <=> b \in Int /\ 0 <= b /\ b < 256
BY DEF Byte

\* A value is written as one, two or three bytes.
LEMMA EncodeType ==
    ASSUME NEW x \in Nat
    PROVE  Encode(x) \in Seq(Byte) /\ Len(Encode(x)) \in 1 .. 3
<1>1. CASE x < 128
    <2>1. Encode(x) = <<x>>
        BY <1>1 DEF Encode
    <2>2. x \in Byte
        BY <1>1, ByteBounds
    <2>. QED BY <2>1, <2>2
<1>2. CASE 128 <= x /\ x <= 2047
    <2>. DEFINE a == 192 + x \div 64
                b == 128 + (x % 64)
    <2>1. Encode(x) = <<a, b>>
        BY <1>2 DEF Encode
    <2>2. x \div 64 \in Int /\ 0 <= x \div 64 /\ x \div 64 < 64 /\ x % 64 \in Int /\ 0 <= x % 64 /\ x % 64 < 64
        BY <1>2
    <2>3. a \in Byte /\ b \in Byte
        BY <2>2, ByteBounds
    <2>. HIDE DEF a, b
    <2>. QED BY <2>1, <2>3
<1>3. CASE 2047 < x /\ x <= MaxValue
    <2>. DEFINE q == x \div 64
                a == 224 + x \div 4096
                b == 128 + (q % 64)
                c == 128 + (x % 64)
    <2>1. Encode(x) = <<a, b, c>>
        BY <1>3 DEF Encode
    <2>2. x < 65536
        BY <1>3 DEF MaxValue
    <2>3. /\ x \div 4096 \in Int /\ 0 <= x \div 4096 /\ x \div 4096 < 16
          /\ x % 64 \in Int /\ 0 <= x % 64 /\ x % 64 < 64 /\ q \in Int
        BY <1>3, <2>2
    <2>4. \A n \in Int : n % 64 \in Int /\ 0 <= n % 64 /\ n % 64 < 64
        OBVIOUS
    <2>5. q % 64 \in Int /\ 0 <= q % 64 /\ q % 64 < 64
        <3>. HIDE DEF q
        <3>. QED BY <2>3, <2>4
    <2>6. a \in Byte /\ b \in Byte /\ c \in Byte
        <3>. HIDE DEF q
        <3>. QED BY <2>3, <2>5, ByteBounds
    <2>. HIDE DEF a, b, c
    <2>. QED BY <2>1, <2>6
<1>4. CASE x > MaxValue
    <2>. DEFINE b == 128 + (x % 64)
    <2>1. Encode(x) = <<b>>
        BY <1>4 DEF Encode, MaxValue
    <2>2. b \in Byte
        BY ByteBounds
    <2>. HIDE DEF b
    <2>. QED BY <2>1, <2>2
<1>5. MaxValue \in Nat
    BY DEF MaxValue
<1>. QED BY <1>1, <1>2, <1>3, <1>4, <1>5

\* Whatever bytes are read, a value or -1 is made of them.
LEMMA DecodeType ==
    ASSUME NEW bytes \in Seq(Byte), Len(bytes) >= 1
    PROVE  Decode(bytes) \in Nat \cup {-1}
<1>. DEFINE a == bytes[1]
            n == Lead(a)
<1>1. \A i \in 1 .. Len(bytes) : bytes[i] \in Nat
    <2>1. \A i \in 1 .. Len(bytes) : bytes[i] \in Byte
        OBVIOUS
    <2>. QED BY <2>1, ByteBounds
<1>2. n \in {0, 1, 2, 3, 4}
    BY DEF Lead
<1>3. \A x, y \in Nat : TwoBytes(x, y) \in Nat
    BY DEF TwoBytes
<1>4. \A x, y, z \in Nat : ThreeBytes(x, y, z) \in Nat
    BY DEF ThreeBytes
<1>5. \A x, y, z, e \in Nat : FourBytes(x, y, z, e) \in Nat
    <2>. SUFFICES ASSUME NEW x \in Nat, NEW y \in Nat, NEW z \in Nat, NEW e \in Nat
                  PROVE  FourBytes(x, y, z, e) \in Nat
        OBVIOUS
    <2>. DEFINE bit(k, i) == (k \div i) % 2
                b1 == bit(x, 4)
                b2 == Either(bit(x, 2), bit(y, 32))
                b3 == Either(bit(x, 1), bit(y, 16))
    <2>1. FourBytes(x, y, z, e) =
            b1 * 262144 + b2 * 131072 + b3 * 65536 + (y % 16) * 4096 + (z % 64) * 64 + (e % 64)
        BY DEF FourBytes
    <2>2. b2 \in Nat /\ b3 \in Nat
        BY DEF Either
    <2>3. b1 \in Nat
        <3>. DEFINE q == x \div 4
        <3>1. q \in Nat
            OBVIOUS
        <3>. HIDE DEF q
        <3>2. q % 2 \in Nat
            BY <3>1
        <3>. QED BY <3>2 DEF q
    <2>4. y % 16 \in Nat /\ z % 64 \in Nat /\ e % 64 \in Nat
        OBVIOUS
    <2>. HIDE DEF b1, b2, b3
    <2>. QED BY <2>1, <2>2, <2>3, <2>4
<1>6. BeyondEnd \in Nat
    BY DEF BeyondEnd
<1>7. Len(bytes) \in Nat
    OBVIOUS
<1>8. CASE n = 0
    BY <1>8 DEF Decode
<1>9. CASE n # 0 /\ n > Len(bytes)
    BY <1>6, <1>9 DEF Decode
<1>10. CASE n = 1 /\ ~(n > Len(bytes))
    <2>1. Decode(bytes) = a /\ a \in Nat
        BY <1>1, <1>7, <1>10 DEF Decode
    <2>. QED BY <2>1
<1>11. CASE n = 2 /\ ~(n > Len(bytes))
    <2>1. a \in Nat /\ bytes[2] \in Nat
        BY <1>1, <1>7, <1>11
    <2>2. Decode(bytes) \in {a * 256 + bytes[2], TwoBytes(a, bytes[2])}
        BY <1>11 DEF Decode
    <2>3. TwoBytes(a, bytes[2]) \in Nat
        BY <1>3, <2>1
    <2>. HIDE DEF a
    <2>4. a * 256 + bytes[2] \in Nat
        BY <2>1
    <2>. QED BY <2>2, <2>3, <2>4
<1>12. CASE n = 3 /\ ~(n > Len(bytes))
    <2>1. a \in Nat /\ bytes[2] \in Nat /\ bytes[3] \in Nat
        BY <1>1, <1>7, <1>12
    <2>2. Decode(bytes) \in {TwoBytes(bytes[2], bytes[3]), ThreeBytes(a, bytes[2], bytes[3])}
        BY <1>12 DEF Decode
    <2>3. TwoBytes(bytes[2], bytes[3]) \in Nat /\ ThreeBytes(a, bytes[2], bytes[3]) \in Nat
        BY <1>3, <1>4, <2>1
    <2>. HIDE DEF a
    <2>. QED BY <2>2, <2>3
<1>13. CASE n = 4 /\ ~(n > Len(bytes))
    <2>1. a \in Nat /\ bytes[2] \in Nat /\ bytes[3] \in Nat /\ bytes[4] \in Nat
        BY <1>1, <1>7, <1>13
    <2>2. Decode(bytes) \in {ThreeBytes(bytes[2], bytes[3], bytes[4]),
                             FourBytes(a, bytes[2], bytes[3], bytes[4])}
        BY <1>13 DEF Decode
    <2>3. /\ ThreeBytes(bytes[2], bytes[3], bytes[4]) \in Nat
          /\ FourBytes(a, bytes[2], bytes[3], bytes[4]) \in Nat
        BY <1>4, <1>5, <2>1
    <2>. HIDE DEF a
    <2>. QED BY <2>2, <2>3
<1>. HIDE DEF n
<1>. QED BY <1>2, <1>8, <1>9, <1>10, <1>11, <1>12, <1>13

-----------------------------------------------------------------------------
(* Rules *)

\* What GrammarOK says, part by part.
LEMMA GrammarParts ==
    ASSUME NEW g, GrammarOK(g)
    PROVE  /\ g \in [main : Nat, last : Nat, rules : [DOMAIN g.rules -> Seq(Nat)]]
           /\ g.main \in Nat /\ g.last \in Nat
           /\ g.rules \in [DOMAIN g.rules -> Seq(Nat)] /\ DOMAIN g.rules \subseteq Nat
           /\ g = [main |-> g.main, last |-> g.last, rules |-> g.rules]
BY DEF GrammarOK

\* A block without rules.
LEMMA NoRulesOK == GrammarOK(NoRules)
<1>1. DOMAIN NoRules.rules = {}
    BY DEF NoRules
<1>2. NoRules.rules \in [DOMAIN NoRules.rules -> Seq(Nat)]
    BY <1>1 DEF NoRules
<1>. QED BY <1>1, <1>2 DEF GrammarOK, NoRules, NULL

\* A grammar that is made of its parts.
LEMMA GrammarWith ==
    ASSUME NEW main \in Nat, NEW last \in Nat, NEW rules, DOMAIN rules \subseteq Nat,
           rules \in [DOMAIN rules -> Seq(Nat)]
    PROVE  GrammarOK([main |-> main, last |-> last, rules |-> rules])
BY DEF GrammarOK

\* A head makes a grammar of a grammar.
LEMMA WithHeadOK ==
    ASSUME NEW g, GrammarOK(g), NEW v \in Nat
    PROVE  GrammarOK(WithHead(g, v))
<1>. DEFINE rules == [w \in DOMAIN g.rules \cup {v} |-> IF w = v THEN <<>> ELSE g.rules[w]]
            main == IF g.main = NULL THEN v ELSE g.main
<1>1. CASE v < FirstNonterminal
    <2>1. WithHead(g, v) = [main |-> g.main, last |-> NULL, rules |-> g.rules]
        BY <1>1, GrammarParts DEF WithHead
    <2>2. NULL \in Nat
        BY DEF NULL
    <2>. QED BY <2>1, <2>2, GrammarParts, GrammarWith
<1>2. CASE ~(v < FirstNonterminal)
    <2>1. WithHead(g, v) = [main |-> main, last |-> v, rules |-> rules]
        <3>1. WithHead(g, v) = [g EXCEPT !.last = v, !.main = main, !.rules = rules]
            BY <1>2 DEF WithHead
        <3>2. g = [main |-> g.main, last |-> g.last, rules |-> g.rules]
            BY GrammarParts
        <3>. HIDE DEF main, rules
        <3>. QED BY <3>1, <3>2
    <2>2. main \in Nat
        BY GrammarParts
    <2>3. DOMAIN rules = DOMAIN g.rules \cup {v} /\ DOMAIN rules \subseteq Nat
        BY GrammarParts
    <2>4. \A w \in DOMAIN g.rules \cup {v} : rules[w] \in Seq(Nat)
        BY GrammarParts
    <2>. HIDE DEF main
    <2>5. rules \in [DOMAIN rules -> Seq(Nat)]
        BY <2>3, <2>4
    <2>. HIDE DEF rules
    <2>. QED BY <2>1, <2>2, <2>3, <2>5, GrammarWith
<1>. QED BY <1>1, <1>2

\* A symbol makes a grammar of a grammar.
LEMMA WithSymbolOK ==
    ASSUME NEW g, GrammarOK(g), NEW v \in Nat
    PROVE  GrammarOK(WithSymbol(g, v))
<1>. DEFINE rules == [g.rules EXCEPT ![g.last] = Append(@, v)]
<1>1. WithSymbol(g, v) = [main |-> g.main, last |-> g.last, rules |-> rules]
    <2>1. WithSymbol(g, v) = [g EXCEPT !.rules = rules]
        BY DEF WithSymbol
    <2>. HIDE DEF rules
    <2>. QED BY <2>1, GrammarParts
<1>2. DOMAIN rules = DOMAIN g.rules
    OBVIOUS
<1>3. ASSUME NEW w \in DOMAIN g.rules
      PROVE  rules[w] \in Seq(Nat)
    <2>1. g.rules[w] \in Seq(Nat)
        BY GrammarParts
    <2>2. rules[w] = IF w = g.last THEN Append(g.rules[w], v) ELSE g.rules[w]
        OBVIOUS
    <2>. HIDE DEF rules
    <2>. QED BY <2>1, <2>2
<1>4. rules = [w \in DOMAIN g.rules |-> rules[w]]
    <2>. DEFINE f == g.rules
                x == Append(f[g.last], v)
    <2>1. rules = [f EXCEPT ![g.last] = x]
        OBVIOUS
    <2>. HIDE DEF f, x, rules
    <2>2. rules = [w \in DOMAIN f |-> rules[w]]
        BY <2>1
    <2>. QED BY <2>2 DEF f
<1>. HIDE DEF rules
<1>5. rules \in [DOMAIN rules -> Seq(Nat)]
    BY <1>2, <1>3, <1>4
<1>. QED BY <1>1, <1>2, <1>5, GrammarParts, GrammarWith

\* The concatenation of two sequences.
LEMMA SeqConcatenation ==
    ASSUME NEW S, NEW f \in Seq(S), NEW g \in Seq(S)
    PROVE  f \o g \in Seq(S)
OBVIOUS

\* What TypeOK says of the decoder and of the pen.
DecoderOK(dec) ==
    /\ GrammarOK(dec.grammar)
    /\ dec \in [started : BOOLEAN, inBlock : BOOLEAN, ruleStarts : BOOLEAN, occupied : BOOLEAN,
                grammar : {dec.grammar}, todo : Seq(Nat),
                result : {"none", "done", "EOF", "crash"}]

PenOK(p, mem) == p \in [rule : Taken(mem), curs : Pointer(mem)] \cup {NotWriting}

\* What TypeOK says, part by part.
LEMMA TypeParts ==
    TypeOK <=> /\ input \in Seq(Letters) /\ output \in Seq(Byte)
               /\ room \in 0 .. BlockSize
               /\ eof \in BOOLEAN /\ open \in BOOLEAN
               /\ MemoryOK(m)
               /\ PenOK(pen, m)
               /\ wire \in Seq(Byte)
               /\ DecoderOK(d)
<1>1. MemoryOK(m) => DOMAIN m.sym = Taken(m)
    BY MemoryParts
<1>. QED BY <1>1 DEF TypeOK, PenOK, DecoderOK, Pointer

\* The same of the next state.
LEMMA TypePartsNext ==
    TypeOK' <=> /\ input' \in Seq(Letters) /\ output' \in Seq(Byte)
                /\ room' \in 0 .. BlockSize
                /\ eof' \in BOOLEAN /\ open' \in BOOLEAN
                /\ MemoryOK(m')
                /\ PenOK(pen', m')
                /\ wire' \in Seq(Byte)
                /\ DecoderOK(d')
<1>1. MemoryOK(m') => DOMAIN m'.sym = Taken(m')
    BY MemoryParts
<1>. QED BY <1>1 DEF TypeOK, PenOK, DecoderOK, Pointer

\* The pen is where it was when memory has changed.
LEMMA PenStays ==
    ASSUME NEW mem, NEW n, NEW p, MemoryOK(mem), After(mem, n), PenOK(p, mem)
    PROVE  PenOK(p, n)
<1>1. Taken(mem) \subseteq Taken(n) /\ Pointer(mem) \subseteq Pointer(n)
    BY PointersStay
<1>. QED BY <1>1 DEF PenOK

\* The pen while a block is written.
LEMMA PenParts ==
    ASSUME NEW mem, NEW p, PenOK(p, mem), p # NotWriting
    PROVE  p.rule \in Taken(mem) /\ p.curs \in Pointer(mem) /\ p = [rule |-> p.rule, curs |-> p.curs]
BY DEF PenOK

\* The fields of the decoder.
LEMMA DecoderParts ==
    ASSUME NEW dec, DecoderOK(dec)
    PROVE  /\ dec.started \in BOOLEAN /\ dec.inBlock \in BOOLEAN /\ dec.ruleStarts \in BOOLEAN
           /\ dec.occupied \in BOOLEAN /\ GrammarOK(dec.grammar) /\ dec.todo \in Seq(Nat)
           /\ dec.result \in {"none", "done", "EOF", "crash"}
BY DEF DecoderOK

\* The marks are bytes.
LEMMA MarkBytes ==
    /\ SOT \in Byte /\ EOT \in Byte /\ SOB \in Byte /\ EOB \in Byte /\ RD \in Byte
BY DEF SOT, EOT, SOB, EOB, RD, Byte

\* The first state.
LEMMA TypeInit == Init => TypeOK
<1>. SUFFICES ASSUME Init PROVE TypeOK
    OBVIOUS
<1>1. MemoryOK(m)
    BY NewBlockSafe DEF Init
<1>2. wire \in Seq(Byte)
    BY MarkBytes DEF Init
<1>3. DecoderOK(d)
    <2>1. d = NewDecoder
        BY DEF Init
    <2>2. NewDecoder.grammar = NoRules
        BY DEF NewDecoder
    <2>3. DecoderOK(NewDecoder)
        BY <2>2, NoRulesOK DEF DecoderOK, NewDecoder
    <2>. QED BY <2>1, <2>3
<1>4. room \in 0 .. BlockSize
    BY ComdecAssumption DEF Init
<1>5. input \in Seq(Letters) /\ output \in Seq(Byte) /\ eof \in BOOLEAN /\ open \in BOOLEAN
    <2>1. input = <<>> /\ output = <<>>
        BY DEF Init
    <2>2. eof \in BOOLEAN /\ open \in BOOLEAN
        BY DEF Init
    <2>. QED BY <2>1, <2>2
<1>6. PenOK(pen, m)
    BY DEF Init, PenOK
<1>. QED BY <1>1, <1>2, <1>3, <1>4, <1>5, <1>6, TypeParts

\* A byte of the input is appended to the main rule.
LEMMA TypeReadByte ==
    ASSUME TypeOK, NEW c \in Letters, ReadByte(c)
    PROVE  TypeOK'
<1>. DEFINE last == m.sym[m.main].prev
            n == InsertNew(m, last, c)
            a == Call("check", last, NULL)
<1>1. MemoryOK(m) /\ c \in Nat
    BY TypeParts, ComdecAssumption DEF FirstNonterminal
<1>2. m' = Calls(n, <<a>>)
    BY DEF ReadByte, InsertNew
<1>3. last \in Pointer(m)
    BY <1>1, MemoryParts, SymbolParts
<1>. HIDE DEF last
<1>4. After(m, n)
    BY <1>1, <1>3, InsertNewSafe
<1>. HIDE DEF n
<1>5. MemoryOK(n) /\ last \in Pointer(n)
    BY <1>1, <1>3, <1>4, PointersStay DEF After
<1>6. a \in CallType(Taken(n))
    BY <1>5, CallOf
<1>. HIDE DEF a
<1>7. <<a>> \in Seq(CallType(Taken(n)))
    BY <1>6
<1>8. After(n, m')
    BY <1>2, <1>5, <1>7, CallsSafe
<1>9. After(m, m')
    BY <1>1, <1>4, <1>8, AfterAfter
<1>10. MemoryOK(m') /\ PenOK(pen, m')
    BY <1>1, <1>9, TypeParts, PenStays DEF After
<1>11. input' \in Seq(Letters) /\ room' \in 0 .. BlockSize
    BY TypeParts, ComdecAssumption DEF ReadByte
<1>. QED BY <1>10, <1>11, TypeParts, TypePartsNext DEF ReadByte

\* What the byte has set off: one function after the other.
LEMMA TypeRewrite == TypeOK /\ Rewrite => TypeOK'
<1>. SUFFICES ASSUME TypeOK, Rewrite PROVE TypeOK'
    OBVIOUS
<1>1. MemoryOK(m) /\ After(m, m')
    BY TypeParts, ProceedSafe DEF Rewrite
<1>2. MemoryOK(m') /\ PenOK(pen, m')
    BY <1>1, TypeParts, PenStays DEF After
<1>. QED BY <1>2, TypeParts, TypePartsNext DEF Rewrite

\* A head is written.
LEMMA TypeWriteHead ==
    ASSUME TypeOK, NEW mark \in Seq(Byte), NEW rule \in Taken(m), WriteHead(mark, rule)
    PROVE  wire' \in Seq(Byte) /\ PenOK(pen', m)
<1>1. m.sym[rule].value \in Nat /\ m.sym[rule].next \in Pointer(m)
    BY TypeParts, SymbolParts
<1>2. Encode(m.sym[rule].value) \in Seq(Byte) /\ wire \in Seq(Byte)
    BY <1>1, EncodeType, TypeParts
<1>. DEFINE e == Encode(m.sym[rule].value)
<1>3. wire' = wire \o mark \o e
    BY DEF WriteHead
<1>. HIDE DEF e
<1>4. wire' \in Seq(Byte)
    BY <1>2, <1>3 DEF e
<1>5. PenOK(pen', m)
    BY <1>1 DEF WriteHead, PenOK
<1>. QED BY <1>4, <1>5

\* The main rule is begun.
LEMMA TypeWriteMainRule ==
    ASSUME TypeOK, NEW end \in BOOLEAN, WriteMainRule(end)
    PROVE  TypeOK'
<1>1. m.main \in Taken(m) /\ <<>> \in Seq(Byte)
    BY TypeParts, MemoryParts
<1>2. WriteHead(<<>>, m.main)
    BY DEF WriteMainRule
<1>3. wire' \in Seq(Byte) /\ PenOK(pen', m)
    BY <1>1, <1>2, TypeWriteHead
<1>. QED BY <1>3, TypeParts, TypePartsNext DEF WriteMainRule

\* write_compression_data follows a NULL pointer.
LEMMA TypeFault ==
    ASSUME TypeOK, m' = Stopped(m, "fault")
    PROVE  MemoryOK(m') /\ PenOK(pen, m')
<1>1. After(m, m') /\ MemoryOK(m)
    BY TypeParts, FateChange DEF Fate
<1>. QED BY <1>1, TypeParts, PenStays DEF After

\* A symbol of a rule is written.
LEMMA TypeWriteSymbol == TypeOK /\ WriteSymbol => TypeOK'
<1>. SUFFICES ASSUME TypeOK, WriteSymbol PROVE TypeOK'
    OBVIOUS
<1>1. CASE pen.curs = NULL
    <2>1. m' = Stopped(m, "fault") /\ pen' = pen /\ wire' = wire
        BY <1>1 DEF WriteSymbol, Fault
    <2>2. MemoryOK(m') /\ PenOK(pen', m')
        BY <2>1, TypeFault
    <2>. QED BY <2>1, <2>2, TypeParts, TypePartsNext DEF WriteSymbol
<1>2. CASE pen.curs # NULL
    <2>. DEFINE v == m.sym[pen.curs].value
    <2>1. /\ wire' = wire \o Encode(v) /\ m' = m
          /\ pen' = [pen EXCEPT !.curs = m.sym[pen.curs].next]
        BY <1>2 DEF WriteSymbol
    <2>2. PenOK(pen, m) /\ pen # NotWriting /\ MemoryOK(m)
        BY TypeParts DEF WriteSymbol, Writing
    <2>3. pen.rule \in Taken(m) /\ pen.curs \in Taken(m) /\ pen = [rule |-> pen.rule, curs |-> pen.curs]
        BY <1>2, <2>2, PenParts, NullIsNone
    <2>4. v \in Nat /\ m.sym[pen.curs].next \in Pointer(m)
        BY <2>2, <2>3, SymbolParts
    <2>5. PenOK(pen', m)
        BY <2>1, <2>3, <2>4 DEF PenOK
    <2>6. Encode(v) \in Seq(Byte) /\ wire \in Seq(Byte)
        BY <2>4, EncodeType, TypeParts
    <2>. HIDE DEF v
    <2>7. wire' \in Seq(Byte)
        BY <2>1, <2>6
    <2>. QED BY <2>1, <2>5, <2>7, TypeParts, TypePartsNext DEF WriteSymbol
<1>. QED BY <1>1, <1>2

\* The next rule is begun.
LEMMA TypeWriteRule == TypeOK /\ WriteRule => TypeOK'
<1>. SUFFICES ASSUME TypeOK, WriteRule PROVE TypeOK'
    OBVIOUS
<1>1. CASE NextRule = NULL
    <2>1. m' = Stopped(m, "fault") /\ pen' = pen /\ wire' = wire
        BY <1>1 DEF WriteRule, Fault
    <2>2. MemoryOK(m') /\ PenOK(pen', m')
        BY <2>1, TypeFault
    <2>. QED BY <2>1, <2>2, TypeParts, TypePartsNext DEF WriteRule
<1>2. CASE NextRule # NULL
    <2>1. WriteHead(<<RD>>, NextRule) /\ m' = m
        BY <1>2 DEF WriteRule
    <2>2. PenOK(pen, m) /\ pen # NotWriting /\ MemoryOK(m)
        BY TypeParts DEF WriteRule, Writing
    <2>3. NextRule \in Taken(m)
        BY <1>2, <2>2, PenParts, SymbolParts, NullIsNone DEF NextRule
    <2>4. <<RD>> \in Seq(Byte)
        BY MarkBytes
    <2>5. wire' \in Seq(Byte) /\ PenOK(pen', m)
        BY <2>1, <2>3, <2>4, TypeWriteHead
    <2>. QED BY <2>1, <2>5, TypeParts, TypePartsNext DEF WriteRule
<1>. QED BY <1>1, <1>2

\* The block ends, or the transmission does.
LEMMA TypeEndBlock == TypeOK /\ EndBlock => TypeOK'
<1>. SUFFICES ASSUME TypeOK, EndBlock PROVE TypeOK'
    OBVIOUS
<1>1. pen' = NotWriting /\ PenOK(pen', m')
    BY DEF EndBlock, PenOK
<1>2. wire' \in Seq(Byte)
    <2>. DEFINE last == <<EOB, EOT>>
                more == <<EOB, SOB>>
    <2>1. last \in Seq(Byte) /\ more \in Seq(Byte) /\ wire \in Seq(Byte)
        BY MarkBytes, TypeParts
    <2>2. wire' = wire \o last \/ wire' = wire \o more
        BY DEF EndBlock
    <2>. HIDE DEF last, more
    <2>3. wire \o last \in Seq(Byte) /\ wire \o more \in Seq(Byte)
        BY <2>1, SeqConcatenation
    <2>. QED BY <2>2, <2>3
<1>3. MemoryOK(m') /\ room' \in 0 .. BlockSize /\ open' \in BOOLEAN
    <2>1. m.beyond \in {NULL, WILD} /\ MemoryOK(m)
        BY TypeParts, MemoryParts
    <2>2. m' = m \/ m' = NewBlock(m.beyond)
        BY DEF EndBlock
    <2>3. room' = room \/ room' = BlockSize
        BY DEF EndBlock
    <2>4. open' = FALSE \/ open' = open
        BY DEF EndBlock
    <2>5. MemoryOK(m')
        BY <2>1, <2>2, NewBlockSafe
    <2>6. room' \in 0 .. BlockSize
        BY <2>3, TypeParts, ComdecAssumption
    <2>7. open' \in BOOLEAN
        BY <2>4, TypeParts
    <2>. QED BY <2>5, <2>6, <2>7
<1>. QED BY <1>1, <1>2, <1>3, TypeParts, TypePartsNext DEF EndBlock

\* The transmission of a compressor that has stopped is cut.
LEMMA TypeBreaks == TypeOK /\ Breaks => TypeOK'
<1>. SUFFICES ASSUME TypeOK, Breaks PROVE TypeOK'
    OBVIOUS
<1>1. PICK k \in 0 .. Len(wire) : wire' = SubSeq(wire, 1, k)
    BY DEF Breaks
<1>2. wire' \in Seq(Byte)
    BY <1>1, TypeParts
<1>. QED BY <1>2, TypeParts, TypePartsNext DEF Breaks

\* A decoder that is another one but for some of its fields.
LEMMA DecoderWith ==
    ASSUME NEW dec, DecoderOK(dec)
    PROVE  /\ \A b \in BOOLEAN : /\ DecoderOK([dec EXCEPT !.started = b])
                                 /\ DecoderOK([dec EXCEPT !.inBlock = b])
                                 /\ DecoderOK([dec EXCEPT !.ruleStarts = b])
                                 /\ DecoderOK([dec EXCEPT !.occupied = b])
           /\ \A r \in {"none", "done", "EOF", "crash"} : DecoderOK([dec EXCEPT !.result = r])
           /\ \A t \in Seq(Nat) : DecoderOK([dec EXCEPT !.todo = t])
           /\ \A g : GrammarOK(g) => DecoderOK([dec EXCEPT !.grammar = g])
<1>1. ASSUME NEW b \in BOOLEAN
      PROVE  /\ DecoderOK([dec EXCEPT !.started = b])
             /\ DecoderOK([dec EXCEPT !.inBlock = b])
             /\ DecoderOK([dec EXCEPT !.ruleStarts = b])
             /\ DecoderOK([dec EXCEPT !.occupied = b])
    BY DEF DecoderOK
<1>2. ASSUME NEW r \in {"none", "done", "EOF", "crash"}
      PROVE  DecoderOK([dec EXCEPT !.result = r])
    BY DEF DecoderOK
<1>3. ASSUME NEW t \in Seq(Nat)
      PROVE  DecoderOK([dec EXCEPT !.todo = t])
    BY DEF DecoderOK
<1>4. ASSUME NEW g, GrammarOK(g)
      PROVE  DecoderOK([dec EXCEPT !.grammar = g])
    BY <1>4 DEF DecoderOK
<1>. QED BY <1>1, <1>2, <1>3, <1>4

Emptied(k, x, y) == [[k EXCEPT !.rules = y] EXCEPT !.main = x]

\* A grammar with no rules and the last one it had.
LEMMA EmptiedIs ==
    ASSUME NEW k, NEW a, NEW b, NEW c, NEW x, NEW y, k = [main |-> a, last |-> b, rules |-> c]
    PROVE  Emptied(k, x, y) = [main |-> x, last |-> b, rules |-> y]
<1>. DEFINE n == [main |-> a, last |-> b, rules |-> y]
<1>1. [k EXCEPT !.rules = y] = n
    OBVIOUS
<1>2. [n EXCEPT !.main = x] = [main |-> x, last |-> b, rules |-> y]
    OBVIOUS
<1>. QED BY <1>1, <1>2 DEF Emptied

\* init_rules in decompress.
LEMMA ClearedOK ==
    ASSUME NEW dec, DecoderOK(dec)
    PROVE  DecoderOK(Cleared(dec))
<1>. DEFINE k == dec.grammar
            none == <<>>
            l == NULL
            g == [main |-> l, last |-> k.last, rules |-> none]
<1>1. GrammarOK(k)
    BY DecoderParts
<1>2. GrammarOK(g)
    <2>1. DOMAIN none = {} /\ l \in Nat /\ none = NoRules.rules
        BY DEF NULL, NoRules
    <2>2. none \in [{} -> Seq(Nat)]
        OBVIOUS
    <2>3. k.last \in Nat
        BY <1>1, GrammarParts
    <2>. HIDE DEF none, l, k
    <2>4. none \in [DOMAIN none -> Seq(Nat)]
        BY <2>1, <2>2
    <2>. QED BY <2>1, <2>3, <2>4 DEF GrammarOK
<1>3. Cleared(dec) = [dec EXCEPT !.grammar = g]
    <2>1. k = [main |-> k.main, last |-> k.last, rules |-> k.rules]
        BY <1>1, GrammarParts
    <2>2. Cleared(dec) = [dec EXCEPT !.grammar = Emptied(k, l, none)]
        BY DEF Emptied, Cleared, DecoderOK
    <2>. HIDE DEF none, l, k
    <2>3. Emptied(k, l, none) = g
        <3>. DEFINE a == k.main
                    b == k.last
                    c == k.rules
        <3>1. k = [main |-> a, last |-> b, rules |-> c]
            BY <2>1
        <3>. HIDE DEF a, b, c
        <3>2. Emptied(k, l, none) = [main |-> l, last |-> b, rules |-> none]
            BY <3>1, EmptiedIs
        <3>. QED BY <3>2 DEF b
    <2>. QED BY <2>2, <2>3
<1>. HIDE DEF g
<1>4. DecoderOK([dec EXCEPT !.grammar = g])
    BY <1>2, DecoderWith
<1>. QED BY <1>3, <1>4

\* What the steps that only read leave as it was.
LEMMA TypeTakes ==
    ASSUME TypeOK, NEW n \in Nat, Takes(n), DecoderOK(d'), output' = output
    PROVE  TypeOK'
<1>1. wire' \in Seq(Byte)
    <2>1. wire \in Seq(Byte)
        BY TypeParts
    <2>2. wire' = SubSeq(wire, n + 1, Len(wire))
        BY DEF Takes
    <2>. QED BY <2>1, <2>2
<1>. QED BY <1>1, TypeParts, TypePartsNext DEF Takes

\* decompress ends.
LEMMA TypeEnds ==
    ASSUME TypeOK, NEW r \in {"none", "done", "EOF", "crash"}, Ends(r)
    PROVE  DecoderOK(d')
BY TypeParts, DecoderWith DEF Ends

\* SOT.
LEMMA TypeReadSOT == TypeOK /\ ReadSOT => TypeOK'
<1>. SUFFICES ASSUME TypeOK, ReadSOT PROVE TypeOK'
    OBVIOUS
<1>1. DecoderOK(d')
    <2>1. DecoderOK(Cleared(d))
        BY TypeParts, ClearedOK
    <2>2. DecoderOK([Cleared(d) EXCEPT !.started = TRUE])
        BY <2>1, DecoderWith
    <2>. QED BY <2>2, TypeEnds DEF ReadSOT
<1>. QED BY <1>1, TypeTakes DEF ReadSOT, Reads

\* EOT.
LEMMA TypeReadEOT == TypeOK /\ ReadEOT => TypeOK'
<1>. SUFFICES ASSUME TypeOK, ReadEOT PROVE TypeOK'
    OBVIOUS
<1>1. DecoderOK(d')
    BY TypeEnds DEF ReadEOT, Return
<1>. QED BY <1>1, TypeTakes DEF ReadEOT, Reads

\* SOB.
LEMMA TypeReadSOB == TypeOK /\ ReadSOB => TypeOK'
<1>. SUFFICES ASSUME TypeOK, ReadSOB PROVE TypeOK'
    OBVIOUS
<1>1. DecoderOK(d')
    <2>. DEFINE e1 == [d EXCEPT !.occupied = FALSE]
                e2 == [e1 EXCEPT !.result = "EOF"]
                f1 == [Cleared(d) EXCEPT !.occupied = FALSE]
                f2 == [f1 EXCEPT !.inBlock = TRUE]
                f3 == [f2 EXCEPT !.ruleStarts = TRUE]
    <2>1. DecoderOK(d)
        BY TypeParts
    <2>2. DecoderOK(e2)
        <3>1. DecoderOK(e1)
            BY <2>1, DecoderWith
        <3>. HIDE DEF e1
        <3>. QED BY <3>1, DecoderWith
    <2>3. DecoderOK(f3)
        <3>1. DecoderOK(f1)
            BY <2>1, ClearedOK, DecoderWith
        <3>. HIDE DEF f1
        <3>2. DecoderOK(f2)
            BY <3>1, DecoderWith
        <3>. HIDE DEF f2
        <3>. QED BY <3>2, DecoderWith
    <2>4. d' = e2 \/ d' = f3
        BY DEF ReadSOB
    <2>. HIDE DEF e2, f3
    <2>. QED BY <2>2, <2>3, <2>4
<1>. QED BY <1>1, TypeTakes DEF ReadSOB, Reads

\* EOB.
LEMMA TypeReadEOB == TypeOK /\ ReadEOB => TypeOK'
<1>. SUFFICES ASSUME TypeOK, ReadEOB PROVE TypeOK'
    OBVIOUS
<1>1. DecoderOK(d')
    <2>. DEFINE main == d.grammar.main
                r == IF main = NULL THEN "crash" ELSE d.result
                e1 == [d EXCEPT !.ruleStarts = FALSE]
                e2 == [e1 EXCEPT !.inBlock = FALSE]
                e3 == [e2 EXCEPT !.todo = <<main>>]
                e4 == [e3 EXCEPT !.result = r]
    <2>1. DecoderOK(d) /\ main \in Nat /\ r \in {"none", "done", "EOF", "crash"}
        BY TypeParts, DecoderParts, GrammarParts
    <2>2. Ends("EOF") \/ d' = e4
        BY DEF ReadEOB
    <2>. HIDE DEF main, r
    <2>3. DecoderOK(e1)
        BY <2>1, DecoderWith
    <2>. HIDE DEF e1
    <2>4. DecoderOK(e2)
        BY <2>3, DecoderWith
    <2>. HIDE DEF e2
    <2>5. DecoderOK(e3)
        <3>1. <<main>> \in Seq(Nat)
            BY <2>1
        <3>. QED BY <2>4, <3>1, DecoderWith
    <2>. HIDE DEF e3
    <2>6. DecoderOK(e4)
        BY <2>1, <2>5, DecoderWith
    <2>. HIDE DEF e4
    <2>. QED BY <2>2, <2>6, TypeEnds
<1>. QED BY <1>1, TypeTakes DEF ReadEOB, Reads

\* RD.
LEMMA TypeReadRD == TypeOK /\ ReadRD => TypeOK'
<1>. SUFFICES ASSUME TypeOK, ReadRD PROVE TypeOK'
    OBVIOUS
<1>1. DecoderOK(d')
    BY TypeParts, DecoderWith DEF ReadRD
<1>. QED BY <1>1, TypeTakes DEF ReadRD, Reads

\* A value is read as a head.
LEMMA TypeHeadRead ==
    ASSUME DecoderOK(d), NEW v \in Nat
    PROVE  DecoderOK(HeadRead(v))
<1>. DEFINE g == WithHead(d.grammar, v)
            e1 == [d EXCEPT !.occupied = TRUE]
            e2 == [e1 EXCEPT !.ruleStarts = FALSE]
            e3 == [e2 EXCEPT !.grammar = g]
<1>1. GrammarOK(g)
    BY DecoderParts, WithHeadOK
<1>2. HeadRead(v) = e3
    BY DEF HeadRead
<1>. HIDE DEF g
<1>3. DecoderOK(e1)
    BY DecoderWith
<1>. HIDE DEF e1
<1>4. DecoderOK(e2)
    BY <1>3, DecoderWith
<1>. HIDE DEF e2
<1>5. DecoderOK(e3)
    BY <1>1, <1>4, DecoderWith
<1>. HIDE DEF e3
<1>. QED BY <1>2, <1>5

\* A value is read as a symbol.
LEMMA TypeSymbolRead ==
    ASSUME DecoderOK(d), NEW v \in Nat
    PROVE  DecoderOK(SymbolRead(v))
<1>. DEFINE g == WithSymbol(d.grammar, v)
            r == IF d.grammar.last = NULL THEN "crash" ELSE d.result
            e1 == [d EXCEPT !.occupied = TRUE]
            e2 == [e1 EXCEPT !.grammar = g]
            e3 == [e2 EXCEPT !.result = r]
<1>1. GrammarOK(g) /\ r \in {"none", "done", "EOF", "crash"}
    BY DecoderParts, WithSymbolOK
<1>2. SymbolRead(v) = e3
    BY DEF SymbolRead
<1>. HIDE DEF g, r
<1>3. DecoderOK(e1)
    BY DecoderWith
<1>. HIDE DEF e1
<1>4. DecoderOK(e2)
    BY <1>1, <1>3, DecoderWith
<1>. HIDE DEF e2
<1>5. DecoderOK(e3)
    BY <1>1, <1>4, DecoderWith
<1>. HIDE DEF e3
<1>. QED BY <1>2, <1>5

\* However many bytes are left for it.
LEMMA TypeReadValue == TypeOK /\ ReadValue => TypeOK'
<1>. SUFFICES ASSUME TypeOK, ReadValue PROVE TypeOK'
    OBVIOUS
<1>. DEFINE width == Width(Head(wire))
            least == Min({width, Len(wire)})
            bytes == SubSeq(wire, 1, least)
            v == Decode(bytes)
<1>1. wire \in Seq(Byte) /\ wire # <<>> /\ Len(wire) \in Nat \ {0}
    BY TypeParts DEF ReadValue
<1>2. width \in Nat \ {0}
    BY DEF Width, Lead
<1>3. least \in {width, Len(wire)}
    <2>1. {width, Len(wire)} \subseteq Nat /\ {width, Len(wire)} # {}
        BY <1>1, <1>2
    <2>. HIDE DEF width
    <2>. QED BY <2>1, FirstStepIsOne DEF FirstStep
<1>4. least <= Len(wire)
    <2>1. {width, Len(wire)} \subseteq Nat /\ {width, Len(wire)} # {}
        BY <1>1, <1>2
    <2>. HIDE DEF width
    <2>. QED BY <2>1, FirstStepIsOne DEF FirstStep
<1>5. Takes(width) /\ d' \in {[d EXCEPT !.result = "EOF"], HeadRead(v), SymbolRead(v)}
      /\ (v = -1 => d' = [d EXCEPT !.result = "EOF"])
    BY DEF ReadValue
<1>. HIDE DEF width, least
<1>6. bytes \in Seq(Byte) /\ Len(bytes) >= 1
    BY <1>1, <1>2, <1>3, <1>4
<1>. HIDE DEF bytes
<1>7. v \in Nat \cup {-1}
    BY <1>6, DecodeType
<1>. HIDE DEF v
<1>8. DecoderOK(d')
    <2>1. DecoderOK(d)
        BY TypeParts
    <2>2. DecoderOK([d EXCEPT !.result = "EOF"])
        BY <2>1, DecoderWith
    <2>. QED BY <1>5, <1>7, <2>1, <2>2, TypeHeadRead, TypeSymbolRead
<1>. QED BY <1>2, <1>5, <1>8, TypeTakes DEF ReadValue

\* A byte is written.
LEMMA TypeExpandByte == TypeOK /\ ExpandByte => TypeOK'
<1>. SUFFICES ASSUME TypeOK, ExpandByte PROVE TypeOK'
    OBVIOUS
<1>1. d.todo \in Seq(Nat) /\ d.todo # <<>> /\ DecoderOK(d)
    BY TypeParts, DecoderParts DEF ExpandByte
<1>2. Head(d.todo) \in Nat /\ Tail(d.todo) \in Seq(Nat)
    BY <1>1
<1>3. Head(d.todo) \in Byte
    BY <1>2, ByteBounds DEF ExpandByte, FirstNonterminal
<1>4. output' \in Seq(Byte)
    BY <1>3, TypeParts DEF ExpandByte
<1>5. DecoderOK(d')
    BY <1>1, <1>2, DecoderWith DEF ExpandByte
<1>. QED BY <1>4, <1>5, TypeParts, TypePartsNext DEF ExpandByte

\* A rule is expanded.
LEMMA TypeExpandRule == TypeOK /\ ExpandRule => TypeOK'
<1>. SUFFICES ASSUME TypeOK, ExpandRule PROVE TypeOK'
    OBVIOUS
<1>1. d.todo \in Seq(Nat) /\ d.todo # <<>> /\ DecoderOK(d)
    BY TypeParts, DecoderParts DEF ExpandRule
<1>. DEFINE h == Head(d.todo)
            t == Tail(d.todo)
            rules == d.grammar.rules
<1>2. h \in Nat /\ t \in Seq(Nat)
    BY <1>1
<1>3. h \in DOMAIN rules => rules[h] \o t \in Seq(Nat)
    <2>1. rules \in [DOMAIN rules -> Seq(Nat)]
        BY <1>1, DecoderParts, GrammarParts
    <2>. HIDE DEF h, t, rules
    <2>. QED BY <1>2, <2>1
<1>4. Ends("crash") \/ (h \in DOMAIN rules /\ d' = [d EXCEPT !.todo = rules[h] \o t])
    BY DEF ExpandRule
<1>5. DecoderOK(d')
    <2>. DEFINE e == rules[h] \o t
    <2>1. Ends("crash") \/ (e \in Seq(Nat) /\ d' = [d EXCEPT !.todo = e])
        BY <1>3, <1>4
    <2>. HIDE DEF e
    <2>2. CASE Ends("crash")
        BY <2>2, TypeEnds
    <2>3. CASE e \in Seq(Nat) /\ d' = [d EXCEPT !.todo = e]
        BY <1>1, <2>3, DecoderWith
    <2>. QED BY <2>1, <2>2, <2>3
<1>. QED BY <1>5, TypeParts, TypePartsNext DEF ExpandRule

\* The end of the file is met.
LEMMA TypeReadEnd == TypeOK /\ ReadEnd => TypeOK'
<1>. SUFFICES ASSUME TypeOK, ReadEnd PROVE TypeOK'
    OBVIOUS
<1>1. DecoderOK(d')
    BY TypeEnds DEF ReadEnd, Return
<1>. QED BY <1>1, TypeParts, TypePartsNext DEF ReadEnd

\* No step.
LEMMA TypeStays == TypeOK /\ UNCHANGED vars => TypeOK'
BY TypeParts, TypePartsNext DEF vars

\* Memory safety (sequitur.c, symbol.c, rule.c, digram_hash.c and write_compression_data of
\* comdec.c): whatever bytes compress reads and whatever the table of digrams leads it to,
\* a pointer that it follows points to a symbol that it has taken, every index is within
\* its array, and what it cannot follow ends it.  What decompress makes of any
\* transmission are rules and bytes.
THEOREM TypeCorrect == Spec => []TypeOK
<1>1. TypeOK /\ [Next]_vars => TypeOK'
    <2>. SUFFICES ASSUME TypeOK, [Next]_vars PROVE TypeOK'
        OBVIOUS
    <2>1. CASE Compress
        BY <2>1, TypeReadByte, TypeRewrite, TypeWriteMainRule, TypeWriteSymbol, TypeWriteRule,
           TypeEndBlock, TypeBreaks DEF Compress
    <2>2. CASE Decompress
        BY <2>2, TypeReadSOT, TypeReadEOT, TypeReadSOB, TypeReadEOB, TypeReadRD, TypeReadValue,
           TypeReadEnd, TypeExpandByte, TypeExpandRule DEF Decompress
    <2>3. CASE UNCHANGED vars
        BY <2>3, TypeStays
    <2>. QED BY <2>1, <2>2, <2>3 DEF Next
<1>. QED BY <1>1, TypeInit, PTL DEF Spec

-----------------------------------------------------------------------------
(* Sequences *)

\* Concatenation is associative.
LEMMA SeqAssociative ==
    ASSUME NEW S, NEW f \in Seq(S), NEW g \in Seq(S), NEW h \in Seq(S)
    PROVE  (f \o g) \o h = f \o (g \o h)
OBVIOUS

\* The empty sequence.
LEMMA SeqEmpty ==
    ASSUME NEW S, NEW f \in Seq(S)
    PROVE  f \o <<>> = f /\ <<>> \o f = f /\ <<>> \in Seq(S)
OBVIOUS

\* Nothing is made of nothing only.
LEMMA SeqNonempty ==
    ASSUME NEW S, NEW f \in Seq(S), NEW g \in Seq(S), f \o g = <<>>
    PROVE  f = <<>>
<1>1. Len(f \o g) = Len(f) + Len(g) /\ Len(f) \in Nat /\ Len(g) \in Nat
    OBVIOUS
<1>2. Len(f) = 0
    BY <1>1
<1>. QED BY <1>2

\* The elements of a concatenation.
LEMMA SeqAt ==
    ASSUME NEW S, NEW f \in Seq(S), NEW g \in Seq(S)
    PROVE  /\ f \o g \in Seq(S) /\ Len(f \o g) = Len(f) + Len(g)
           /\ \A i \in 1 .. Len(f) + Len(g) :
                 (f \o g)[i] = IF i <= Len(f) THEN f[i] ELSE g[i - Len(f)]
OBVIOUS

\* Sequences with the same elements.
LEMMA SeqSame ==
    ASSUME NEW S, NEW f \in Seq(S), NEW g \in Seq(S), Len(f) = Len(g),
           \A i \in 1 .. Len(g) : f[i] = g[i]
    PROVE  f = g
OBVIOUS

\* Two bytes, one after the other.
LEMMA SeqOfTwo ==
    ASSUME NEW p, NEW q
    PROVE  /\ (<<>> \o <<p>>) \o <<q>> = <<p, q>> /\ <<p>> \o <<q>> = <<p, q>>
           /\ <<p, q>> \o <<>> = <<p, q>>
<1>. DEFINE S == {p, q}
            f == <<p>>
            g == <<q>>
            h == <<p, q>>
<1>1. f \in Seq(S) /\ g \in Seq(S) /\ h \in Seq(S)
    OBVIOUS
<1>2. Len(f) = 1 /\ Len(g) = 1 /\ Len(h) = 2 /\ f[1] = p /\ g[1] = q /\ h[1] = p /\ h[2] = q
    OBVIOUS
<1>. HIDE DEF S, f, g, h
<1>3. f \o g \in Seq(S) /\ Len(f \o g) = 2 /\ (f \o g)[1] = p /\ (f \o g)[2] = q
    BY <1>1, <1>2, SeqAt
<1>4. \A i \in 1 .. 2 : i = 1 \/ i = 2
    OBVIOUS
<1>5. f \o g = h
    BY <1>1, <1>2, <1>3, <1>4, SeqSame
<1>. QED BY <1>1, <1>5, SeqEmpty DEF f, g, h

\* A sequence cut in two.
LEMMA SeqCut ==
    ASSUME NEW S, NEW f \in Seq(S), NEW k \in 0 .. Len(f)
    PROVE  /\ SubSeq(f, 1, k) \in Seq(S) /\ SubSeq(f, k + 1, Len(f)) \in Seq(S)
           /\ SubSeq(f, 1, k) \o SubSeq(f, k + 1, Len(f)) = f
<1>. DEFINE a == SubSeq(f, 1, k)
            b == SubSeq(f, k + 1, Len(f))
<1>1. a \in Seq(S) /\ Len(a) = k /\ \A i \in 1 .. k : a[i] = f[i]
    OBVIOUS
<1>2. b \in Seq(S) /\ Len(b) = Len(f) - k /\ \A i \in 1 .. Len(f) - k : b[i] = f[k + i]
    OBVIOUS
<1>3. k \in Nat /\ Len(f) \in Nat /\ k <= Len(f)
    OBVIOUS
<1>. HIDE DEF a, b
<1>4. a \o b \in Seq(S) /\ Len(a \o b) = Len(f)
    <2>1. a \o b \in Seq(S) /\ Len(a \o b) = Len(a) + Len(b)
        BY <1>1, <1>2, SeqAt
    <2>. QED BY <1>1, <1>2, <1>3, <2>1
<1>5. ASSUME NEW i \in 1 .. Len(f)
      PROVE  (a \o b)[i] = f[i]
    <2>1. (a \o b)[i] = IF i <= k THEN a[i] ELSE b[i - k]
        BY <1>1, <1>2, <1>3, SeqAt
    <2>2. i > k => i - k \in 1 .. Len(f) - k /\ k + (i - k) = i
        BY <1>3
    <2>3. i > k => b[i - k] = f[i]
        BY <1>2, <2>2
    <2>. QED BY <1>1, <1>3, <2>1, <2>3
<1>6. a \o b = f
    BY <1>4, <1>5, SeqSame
<1>. QED BY <1>1, <1>2, <1>6 DEF a, b

\* A sequence that is written in two ways as two parts.
LEMMA SeqSplit ==
    ASSUME NEW S, NEW f \in Seq(S), NEW g \in Seq(S), NEW x \in Seq(S), NEW r \in Seq(S),
           f \o g = x \o r, Len(x) <= Len(f)
    PROVE  SubSeq(f, 1, Len(x)) = x /\ SubSeq(f, Len(x) + 1, Len(f)) \o g = r
<1>1. Len(f) + Len(g) = Len(x) + Len(r)
    <2>1. Len(f \o g) = Len(f) + Len(g) /\ Len(x \o r) = Len(x) + Len(r)
        OBVIOUS
    <2>. QED BY <2>1
<1>2. \A i \in 1 .. Len(x) : f[i] = x[i]
    <2>1. \A i \in 1 .. Len(f) : (f \o g)[i] = f[i]
        OBVIOUS
    <2>2. \A i \in 1 .. Len(x) : (x \o r)[i] = x[i]
        OBVIOUS
    <2>. QED BY <2>1, <2>2
<1>3. SubSeq(f, 1, Len(x)) = x
    BY <1>2
<1>. DEFINE k == Len(x)
            h == SubSeq(f, k + 1, Len(f))
<1>4. k \in Nat /\ k <= Len(f)
    OBVIOUS
<1>5. h \in Seq(S) /\ Len(h) = Len(f) - k /\ \A i \in 1 .. Len(h) : h[i] = f[k + i]
    OBVIOUS
<1>6. Len(f) + Len(g) = k + Len(r) /\ Len(f) \in Nat /\ Len(g) \in Nat /\ Len(r) \in Nat
    BY <1>1
<1>7. \A i \in 1 .. Len(r) : r[i] = (f \o g)[k + i]
    BY SeqAt
<1>. HIDE DEF h, k
<1>8. ASSUME NEW i \in 1 .. Len(r)
      PROVE  (h \o g)[i] = r[i]
    <2>1. i \in 1 .. Len(h) + Len(g) /\ k + i \in 1 .. Len(f) + Len(g)
        BY <1>4, <1>5, <1>6
    <2>2. (h \o g)[i] = IF i <= Len(h) THEN h[i] ELSE g[i - Len(h)]
        BY <1>5, <2>1, SeqAt
    <2>3. (f \o g)[k + i] = IF k + i <= Len(f) THEN f[k + i] ELSE g[(k + i) - Len(f)]
        BY <2>1, SeqAt
    <2>4. (i <= Len(h)) = (k + i <= Len(f)) /\ i - Len(h) = (k + i) - Len(f)
        BY <1>4, <1>5, <1>6
    <2>5. i <= Len(h) => h[i] = f[k + i]
        BY <1>5
    <2>. QED BY <1>7, <2>2, <2>3, <2>4, <2>5
<1>9. h \o g \in Seq(S) /\ Len(h \o g) = Len(r)
    <2>1. h \o g \in Seq(S) /\ Len(h \o g) = Len(h) + Len(g)
        BY <1>5, SeqAt
    <2>. QED BY <1>4, <1>5, <1>6, <2>1
<1>10. h \o g = r
    BY <1>8, <1>9, SeqSame
<1>. QED BY <1>3, <1>10 DEF h, k

-----------------------------------------------------------------------------
(* What is under way: the marks and the values of a transmission take a reader  *)
(* from a state to a state; ph is where it is, g the rules it has of the block, *)
(* b the number of the block.                                                   *)

Place(ph, g, b) == [ph |-> ph, g |-> g, b |-> b]

Step(s, x, t, blocks) ==
    \/ x = <<SOT>> /\ s.ph = "new" /\ t = Place("between", s.g, s.b)
    \/ x = <<SOB>> /\ s.ph = "between" /\ t = Place("head", NoRules, s.b)
    \/ x = <<RD>> /\ s.ph = "body" /\ t = Place("head", s.g, s.b)
    \/ /\ x = <<EOB>> /\ s.ph = "body"
       /\ s.b \in 1 .. Len(blocks) - 1 /\ s.g = blocks[s.b].grammar
       /\ t = Place("between", s.g, s.b + 1)
    \/ x = <<EOT>> /\ s.ph = "between" /\ t = Place("end", s.g, s.b)
    \/ \E v \in Value : x = Encode(v) /\ s.ph = "head" /\ t = Place("body", WithHead(s.g, v), s.b)
    \/ \E v \in Value : x = Encode(v) /\ s.ph = "body" /\ t = Place("body", WithSymbol(s.g, v), s.b)

\* rest[i] is what is left after the i-th of n marks and values, x[i].
Path(n, rest, state, x, w, s, t, blocks) ==
    /\ rest[0] = w /\ state[0] = s /\ rest[n] = <<>> /\ state[n] = t
    /\ \A i \in 0 .. n : rest[i] \in Seq(Byte)
    /\ \A i \in 1 .. n : /\ x[i] \in Seq(Byte) /\ x[i] # <<>>
                         /\ rest[i - 1] = x[i] \o rest[i]
                         /\ Step(state[i - 1], x[i], state[i], blocks)

Carries(w, s, t, blocks) ==
    \E n \in Nat : \E rest, state, x : Path(n, rest, state, x, w, s, t, blocks)

\* A mark or a value is one byte or more.
LEMMA StepBytes ==
    ASSUME NEW s, NEW x, NEW t, NEW blocks, Step(s, x, t, blocks)
    PROVE  x \in Seq(Byte) /\ x # <<>>
<1>1. CASE \E v \in Value : x = Encode(v)
    <2>1. PICK v \in Value : x = Encode(v)
        BY <1>1
    <2>2. v \in Nat
        BY DEF Value
    <2>3. x \in Seq(Byte) /\ Len(x) \in 1 .. 3
        BY <2>1, <2>2, EncodeType
    <2>. QED BY <2>3
<1>2. CASE \E b \in Byte : x = <<b>>
    BY <1>2
<1>. QED BY <1>1, <1>2, MarkBytes DEF Step

\* Nothing takes a reader nowhere.
LEMMA CarriesNothing ==
    ASSUME NEW s, NEW blocks
    PROVE  Carries(<<>>, s, s, blocks)
<1>. DEFINE rest == [i \in 0 .. 0 |-> <<>>]
            state == [i \in 0 .. 0 |-> s]
<1>1. rest[0] = <<>> /\ state[0] = s
    OBVIOUS
<1>2. \A i \in 0 .. 0 : rest[i] \in Seq(Byte)
    BY SeqEmpty
<1>3. \A i \in 1 .. 0 : FALSE
    OBVIOUS
<1>. HIDE DEF rest, state
<1>4. Path(0, rest, state, <<>>, <<>>, s, s, blocks)
    BY <1>1, <1>2, <1>3 DEF Path
<1>. QED BY <1>4 DEF Carries

\* One more mark or value takes it a step further.
LEMMA CarriesMore ==
    ASSUME NEW w, NEW s, NEW t, NEW blocks, Carries(w, s, t, blocks),
           NEW y, NEW u, Step(t, y, u, blocks)
    PROVE  Carries(w \o y, s, u, blocks)
<1>n. PICK n \in Nat : \E rest, state, x : Path(n, rest, state, x, w, s, t, blocks)
    BY DEF Carries
<1>0. PICK rest, state, x : Path(n, rest, state, x, w, s, t, blocks)
    BY <1>n
<1>1. /\ rest[0] = w /\ state[0] = s /\ rest[n] = <<>> /\ state[n] = t
      /\ \A i \in 0 .. n : rest[i] \in Seq(Byte)
      /\ \A i \in 1 .. n : /\ x[i] \in Seq(Byte) /\ x[i] # <<>>
                           /\ rest[i - 1] = x[i] \o rest[i]
                           /\ Step(state[i - 1], x[i], state[i], blocks)
    BY <1>0 DEF Path
<1>2. y \in Seq(Byte) /\ y # <<>>
    BY StepBytes
<1>. DEFINE k == n + 1
            rest2 == [i \in 0 .. k |-> IF i = k THEN <<>> ELSE rest[i] \o y]
            state2 == [i \in 0 .. k |-> IF i = k THEN u ELSE state[i]]
            x2 == [i \in 1 .. k |-> IF i = k THEN y ELSE x[i]]
<1>3. k \in Nat /\ 0 # k /\ 0 \in 0 .. n /\ n \in 0 .. n
    OBVIOUS
<1>4. rest2[0] = w \o y /\ state2[0] = s /\ rest2[k] = <<>> /\ state2[k] = u
    <2>1. 0 \in 0 .. k /\ k \in 0 .. k
        BY <1>3
    <2>2. rest2[k] = <<>> /\ state2[k] = u
        BY <2>1
    <2>3. rest2[0] = rest[0] \o y /\ state2[0] = state[0]
        BY <1>3, <2>1
    <2>. QED BY <1>1, <2>2, <2>3
<1>5. ASSUME NEW i \in 0 .. k
      PROVE  rest2[i] \in Seq(Byte)
    <2>1. CASE i = k
        BY <2>1, SeqEmpty
    <2>2. CASE i # k
        <3>1. i \in 0 .. n /\ rest2[i] = rest[i] \o y
            BY <2>2
        <3>2. rest[i] \in Seq(Byte)
            BY <1>1, <3>1
        <3>. QED BY <1>2, <3>1, <3>2, SeqConcatenation
    <2>. QED BY <2>1, <2>2
<1>6. ASSUME NEW i \in 1 .. k
      PROVE  /\ x2[i] \in Seq(Byte) /\ x2[i] # <<>>
             /\ rest2[i - 1] = x2[i] \o rest2[i]
             /\ Step(state2[i - 1], x2[i], state2[i], blocks)
    <2>1. CASE i = k
        <3>1. x2[i] = y /\ rest2[i] = <<>> /\ state2[i] = u
            BY <2>1
        <3>2. i - 1 = n /\ n # k /\ n \in 0 .. k
            BY <2>1
        <3>3. rest2[i - 1] = rest[n] \o y /\ state2[i - 1] = t
            BY <1>1, <3>2
        <3>4. rest[n] = <<>>
            BY <1>1
        <3>. HIDE DEF rest2, state2, x2
        <3>5. rest2[i - 1] = y \o <<>>
            BY <1>2, <3>3, <3>4, SeqEmpty
        <3>. QED BY <1>2, <3>1, <3>3, <3>5
    <2>2. CASE i # k
        <3>1. i \in 1 .. n /\ i - 1 \in 0 .. n /\ i \in 0 .. n /\ i - 1 # k /\ i - 1 \in 0 .. k
            BY <2>2
        <3>2. /\ x2[i] = x[i] /\ rest2[i] = rest[i] \o y /\ rest2[i - 1] = rest[i - 1] \o y
              /\ state2[i] = state[i] /\ state2[i - 1] = state[i - 1]
            BY <2>2, <3>1
        <3>3. /\ x[i] \in Seq(Byte) /\ x[i] # <<>> /\ rest[i - 1] = x[i] \o rest[i]
              /\ Step(state[i - 1], x[i], state[i], blocks) /\ rest[i] \in Seq(Byte)
            BY <1>1, <3>1
        <3>. HIDE DEF rest2, state2, x2
        <3>4. (x[i] \o rest[i]) \o y = x[i] \o (rest[i] \o y)
            <4>. DEFINE f == x[i]
                        g == rest[i]
            <4>1. f \in Seq(Byte) /\ g \in Seq(Byte)
                BY <3>3
            <4>. HIDE DEF f, g
            <4>2. (f \o g) \o y = f \o (g \o y)
                BY <1>2, <4>1, SeqAssociative
            <4>. QED BY <4>2 DEF f, g
        <3>. QED BY <3>2, <3>3, <3>4
    <2>. QED BY <2>1, <2>2
<1>. HIDE DEF rest2, state2, x2, k
<1>7. Path(k, rest2, state2, x2, w \o y, s, u, blocks)
    BY <1>4, <1>5, <1>6 DEF Path
<1>. QED BY <1>3, <1>7 DEF Carries

\* The first mark or value takes it the first step.
LEMMA CarriesFirst ==
    ASSUME NEW w, NEW s, NEW u, NEW blocks, Carries(w, s, u, blocks), w # <<>>
    PROVE  \E x, r \in Seq(Byte) : \E t :
              w = x \o r /\ x # <<>> /\ Step(s, x, t, blocks) /\ Carries(r, t, u, blocks)
<1>n. PICK n \in Nat : \E rest, state, x : Path(n, rest, state, x, w, s, u, blocks)
    BY DEF Carries
<1>0. PICK rest, state, x : Path(n, rest, state, x, w, s, u, blocks)
    BY <1>n
<1>1. /\ rest[0] = w /\ state[0] = s /\ rest[n] = <<>> /\ state[n] = u
      /\ \A i \in 0 .. n : rest[i] \in Seq(Byte)
      /\ \A i \in 1 .. n : /\ x[i] \in Seq(Byte) /\ x[i] # <<>>
                           /\ rest[i - 1] = x[i] \o rest[i]
                           /\ Step(state[i - 1], x[i], state[i], blocks)
    BY <1>0 DEF Path
<1>2. n # 0
    BY <1>1
<1>. DEFINE k == n - 1
            rest2 == [i \in 0 .. k |-> rest[i + 1]]
            state2 == [i \in 0 .. k |-> state[i + 1]]
            x2 == [i \in 1 .. k |-> x[i + 1]]
<1>3. k \in Nat /\ 1 \in 1 .. n /\ 1 - 1 = 0 /\ k + 1 = n /\ 1 \in 0 .. n
    BY <1>2
<1>4. /\ w = x[1] \o rest[1] /\ x[1] \in Seq(Byte) /\ x[1] # <<>> /\ rest[1] \in Seq(Byte)
      /\ Step(s, x[1], state[1], blocks)
    BY <1>1, <1>3
<1>5. rest2[0] = rest[1] /\ state2[0] = state[1] /\ rest2[k] = <<>> /\ state2[k] = u
    BY <1>1, <1>3
<1>6. \A i \in 0 .. k : rest2[i] \in Seq(Byte)
    BY <1>1
<1>7. ASSUME NEW i \in 1 .. k
      PROVE  /\ x2[i] \in Seq(Byte) /\ x2[i] # <<>>
             /\ rest2[i - 1] = x2[i] \o rest2[i]
             /\ Step(state2[i - 1], x2[i], state2[i], blocks)
    <2>1. i + 1 \in 1 .. n /\ (i + 1) - 1 = i /\ (i - 1) + 1 = i /\ i - 1 \in 0 .. k /\ i \in 0 .. k
        OBVIOUS
    <2>2. /\ x2[i] = x[i + 1] /\ rest2[i] = rest[i + 1] /\ rest2[i - 1] = rest[i]
          /\ state2[i] = state[i + 1] /\ state2[i - 1] = state[i]
        BY <2>1
    <2>. HIDE DEF rest2, state2, x2
    <2>3. /\ x[i + 1] \in Seq(Byte) /\ x[i + 1] # <<>> /\ rest[i] = x[i + 1] \o rest[i + 1]
          /\ Step(state[i], x[i + 1], state[i + 1], blocks)
        BY <1>1, <2>1
    <2>. QED BY <2>2, <2>3
<1>. HIDE DEF rest2, state2, x2, k
<1>8. Path(k, rest2, state2, x2, rest[1], state[1], u, blocks)
    BY <1>5, <1>6, <1>7 DEF Path
<1>9. Carries(rest[1], state[1], u, blocks)
    BY <1>3, <1>8 DEF Carries
<1>. QED BY <1>4, <1>9

\* Only nothing leaves it where it is.
LEMMA CarriesNone ==
    ASSUME NEW s, NEW u, NEW blocks, Carries(<<>>, s, u, blocks)
    PROVE  s = u
<1>n. PICK n \in Nat : \E rest, state, x : Path(n, rest, state, x, <<>>, s, u, blocks)
    BY DEF Carries
<1>0. PICK rest, state, x : Path(n, rest, state, x, <<>>, s, u, blocks)
    BY <1>n
<1>1. /\ rest[0] = <<>> /\ state[0] = s /\ rest[n] = <<>> /\ state[n] = u
      /\ \A i \in 0 .. n : rest[i] \in Seq(Byte)
      /\ \A i \in 1 .. n : /\ x[i] \in Seq(Byte) /\ x[i] # <<>>
                           /\ rest[i - 1] = x[i] \o rest[i]
                           /\ Step(state[i - 1], x[i], state[i], blocks)
    BY <1>0 DEF Path
<1>2. CASE n = 0
    BY <1>1, <1>2
<1>3. CASE n # 0
    <2>1. 1 \in 1 .. n /\ 1 - 1 = 0 /\ 1 \in 0 .. n
        BY <1>3
    <2>2. <<>> = x[1] \o rest[1] /\ x[1] \in Seq(Byte) /\ x[1] # <<>> /\ rest[1] \in Seq(Byte)
        BY <1>1, <2>1
    <2>. QED BY <2>2, SeqNonempty
<1>. QED BY <1>2, <1>3

\* The blocks under way are not the one that is being written.
Grows(blocks, more) ==
    /\ Len(blocks) <= Len(more)
    /\ \A b \in 1 .. Len(blocks) - 1 : more[b].grammar = blocks[b].grammar

\* What is under way takes it to the same state when the blocks that are written change.
LEMMA CarriesSame ==
    ASSUME NEW w, NEW s, NEW t, NEW blocks, NEW more, Carries(w, s, t, blocks),
           Grows(blocks, more), Len(blocks) \in Nat, Len(more) \in Nat
    PROVE  Carries(w, s, t, more)
<1>1. ASSUME NEW p, NEW x, NEW q, Step(p, x, q, blocks)
      PROVE  Step(p, x, q, more)
    <2>1. CASE /\ x = <<EOB>> /\ p.ph = "body"
               /\ p.b \in 1 .. Len(blocks) - 1 /\ p.g = blocks[p.b].grammar
               /\ q = Place("between", p.g, p.b + 1)
        <3>. DEFINE b == p.b
                    l == Len(blocks)
        <3>1. b \in 1 .. l - 1 /\ p.g = blocks[b].grammar
            BY <2>1
        <3>2. l <= Len(more) /\ \A c \in 1 .. l - 1 : more[c].grammar = blocks[c].grammar
            BY DEF Grows
        <3>. HIDE DEF b, l
        <3>3. b \in 1 .. Len(more) - 1 /\ more[b].grammar = p.g
            BY <3>1, <3>2 DEF l
        <3>4. p.b \in 1 .. Len(more) - 1 /\ p.g = more[p.b].grammar
            BY <3>3 DEF b
        <3>. QED BY <2>1, <3>4 DEF Step
    <2>2. CASE ~(/\ x = <<EOB>> /\ p.ph = "body"
                 /\ p.b \in 1 .. Len(blocks) - 1 /\ p.g = blocks[p.b].grammar
                 /\ q = Place("between", p.g, p.b + 1))
        BY <1>1, <2>2 DEF Step
    <2>. QED BY <2>1, <2>2
<1>n. PICK n \in Nat : \E rest, state, x : Path(n, rest, state, x, w, s, t, blocks)
    BY DEF Carries
<1>2. PICK rest, state, x : Path(n, rest, state, x, w, s, t, blocks)
    BY <1>n
<1>3. Path(n, rest, state, x, w, s, t, more)
    BY <1>1, <1>2 DEF Path
<1>. QED BY <1>3 DEF Carries

-----------------------------------------------------------------------------
(* The invariant of the transmission                                       *)

Grammars == [main : Nat, last : Nat, rules : UNION {[w -> Seq(Nat)] : w \in SUBSET Nat}]
Blocks == [plain : BOOLEAN, grammar : Grammars]

\* GrammarOK as membership in a set.
LEMMA GrammarType ==
    ASSUME NEW g
    PROVE  GrammarOK(g) <=> g \in Grammars
<1>1. ASSUME GrammarOK(g) PROVE g \in Grammars
    <2>1. /\ g = [main |-> g.main, last |-> g.last, rules |-> g.rules]
          /\ g.main \in Nat /\ g.last \in Nat
          /\ g.rules \in [DOMAIN g.rules -> Seq(Nat)] /\ DOMAIN g.rules \in SUBSET Nat
        BY <1>1, GrammarParts
    <2>2. g.rules \in UNION {[w -> Seq(Nat)] : w \in SUBSET Nat}
        BY <2>1
    <2>. QED BY <2>1, <2>2 DEF Grammars
<1>2. ASSUME g \in Grammars PROVE GrammarOK(g)
    <2>1. /\ g = [main |-> g.main, last |-> g.last, rules |-> g.rules]
          /\ g.main \in Nat /\ g.last \in Nat
          /\ g.rules \in UNION {[w -> Seq(Nat)] : w \in SUBSET Nat}
        BY <1>2 DEF Grammars
    <2>2. PICK w \in SUBSET Nat : g.rules \in [w -> Seq(Nat)]
        BY <2>1
    <2>3. DOMAIN g.rules = w
        BY <2>2
    <2>. QED BY <2>1, <2>2, <2>3, GrammarWith
<1>. QED BY <1>1, <1>2

\* Where a reader that has taken k blocks is between two marks or values.
Match(dec, k, s) ==
    /\ s.b = k + 1
    /\ \/ s.ph = "new" /\ ~dec.started /\ ~dec.inBlock
       \/ s.ph = "between" /\ dec.started /\ ~dec.inBlock
       \/ /\ s.ph = "head" /\ dec.started /\ dec.inBlock /\ dec.ruleStarts
          /\ \A v \in Nat : WithHead(dec.grammar, v) = WithHead(s.g, v)
       \/ /\ s.ph = "body" /\ dec.started /\ dec.inBlock /\ ~dec.ruleStarts /\ dec.occupied
          /\ dec.grammar = s.g

\* Where the writer is.
Writer(p, blocks) ==
    Place(IF p = NotWriting THEN "head" ELSE "body", blocks[Len(blocks)].grammar, Len(blocks))

AllPlain(blocks) == \A b \in DOMAIN blocks : blocks[b].plain

Kept == \A b \in DOMAIN taken : b < Len(sent) /\ taken[b] = sent[b].grammar

Complete == open \/ m.fate = "runs"

Ended == m.fate = "runs" => /\ d.result # "EOF"
                            /\ d.result = "done" => Len(taken) = Len(sent) - 1 /\ ~open

Target(t) == /\ open => t = Writer(pen, sent)
             /\ ~open /\ m.fate = "runs" => t.ph = "end" /\ t.b = Len(sent)

\* What compress has written and decompress has not yet read takes decompress from where
\* it is to where compress is.  Of a transmission that broke something may be lost, and the
\* last value may be read in part.
Flight(s, t, lost) ==
    /\ lost \in Seq(Byte) /\ (Complete => lost = <<>>)
    /\ Carries(wire \o lost, s, t, sent)
    /\ Match(d, Len(taken), s) /\ Target(t)

Reading == \/ wire = <<>> /\ ~Complete
           \/ \E s, t, lost : Flight(s, t, lost)

Arriving ==
    /\ sent \in Seq(Blocks) /\ sent # <<>> /\ taken \in Seq(Grammars)
    /\ AllPlain(sent) => Kept /\ Ended /\ (d.result = "none" => Reading)

\* The invariant is stronger than the property.
LEMMA ArrivingImplies == Arriving => GrammarsArrive
BY DEF Arriving, AllPlain, Kept, Ended, GrammarsArrive

\* A block of which nothing is written.
LEMMA NothingSentType == NothingSent \in Blocks
BY NoRulesOK, GrammarType DEF NothingSent, Blocks

\* SOT and SOB are under way when compress starts.
LEMMA ArrivingInit == Init => Arriving
<1>. SUFFICES ASSUME Init PROVE Arriving
    OBVIOUS
<1>1. sent = <<NothingSent>> /\ taken = <<>> /\ wire = <<SOT, SOB>> /\ d = NewDecoder /\ open
      /\ pen = NotWriting
    BY DEF Init
<1>2. sent \in Seq(Blocks) /\ sent # <<>> /\ taken \in Seq(Grammars) /\ Len(sent) = 1 /\ Len(taken) = 0
    <2>. DEFINE n == NothingSent
    <2>1. n \in Blocks
        BY NothingSentType
    <2>. HIDE DEF n
    <2>2. <<n>> \in Seq(Blocks) /\ <<n>> # <<>> /\ Len(<<n>>) = 1
        BY <2>1
    <2>3. taken \in Seq(Grammars) /\ Len(taken) = 0
        BY <1>1, SeqEmpty
    <2>. QED BY <1>1, <2>2, <2>3 DEF n
<1>3. sent[Len(sent)].grammar = NoRules
    BY <1>1, <1>2 DEF NothingSent
<1>4. d.result = "none" /\ ~d.started /\ ~d.inBlock
    BY <1>1 DEF NewDecoder
<1>5. Kept /\ Ended
    BY <1>1, <1>4 DEF Kept, Ended
<1>. DEFINE a == Place("new", NoRules, 1)
            b == Place("between", NoRules, 1)
            c == Place("head", NoRules, 1)
<1>6. Step(a, <<SOT>>, b, sent) /\ Step(b, <<SOB>>, c, sent)
    BY DEF Step, Place
<1>7. Target(c) /\ Match(d, Len(taken), a)
    BY <1>1, <1>2, <1>3, <1>4 DEF Target, Match, Place, Writer
<1>. HIDE DEF a, b, c
<1>8. Carries((<<>> \o <<SOT>>) \o <<SOB>>, a, c, sent)
    BY <1>6, CarriesNothing, CarriesMore
<1>9. (<<>> \o <<SOT>>) \o <<SOB>> = wire \o <<>>
    BY <1>1, SeqOfTwo
<1>10. Flight(a, c, <<>>)
    <2>. DEFINE e == <<>>
    <2>1. e \in Seq(Byte)
        OBVIOUS
    <2>4. Carries(wire \o e, a, c, sent)
        BY <1>8, <1>9
    <2>2. Complete => e = <<>>
        OBVIOUS
    <2>. HIDE DEF e
    <2>3. Flight(a, c, e)
        BY <1>7, <2>1, <2>2, <2>4 DEF Flight
    <2>. QED BY <2>3 DEF e
<1>. QED BY <1>2, <1>5, <1>10 DEF Arriving, Reading

-----------------------------------------------------------------------------
(* compress *)

\* A step that leaves the transmission as it was.
LEMMA ArrivingStays ==
    ASSUME Arriving, UNCHANGED <<pen, wire, open, sent, d, taken>>, open,
           m'.fate = "runs" => m.fate = "runs"
    PROVE  Arriving'
<1>1. Kept => Kept'
    BY DEF Kept
<1>2. Ended => Ended'
    BY DEF Ended
<1>3. Complete /\ Complete'
    BY DEF Complete
<1>4. ASSUME NEW s, NEW t, NEW lost, Flight(s, t, lost)
      PROVE  Flight(s, t, lost)'
    BY <1>3, <1>4 DEF Flight, Target
<1>5. Reading => Reading'
    BY <1>3, <1>4 DEF Reading
<1>. QED BY <1>1, <1>2, <1>5 DEF Arriving

\* A step that appends y to it.
LEMMA ArrivingExtends ==
    ASSUME Arriving, TypeOK, NEW y \in Seq(Byte), open, UNCHANGED <<d, taken>>,
           m'.fate = "runs" => m.fate = "runs",
           wire' = wire \o y,
           sent' \in Seq(Blocks), sent' # <<>>,
           AllPlain(sent') => AllPlain(sent), Grows(sent, sent'),
           ASSUME NEW w \in Seq(Byte), NEW s, AllPlain(sent'), Carries(w, s, Writer(pen, sent), sent')
           PROVE  \E t : /\ Carries(w \o y, s, t, sent')
                         /\ open' => t = Writer(pen', sent')
                         /\ ~open' /\ m'.fate = "runs" => t.ph = "end" /\ t.b = Len(sent')
    PROVE  Arriving'
<1>. SUFFICES ASSUME AllPlain(sent')
              PROVE  Kept' /\ Ended' /\ (d'.result = "none" => Reading')
    BY DEF Arriving
<1>1. Kept /\ Ended /\ (d.result = "none" => Reading) /\ wire \in Seq(Byte)
    BY TypeParts DEF Arriving
<1>2. Len(sent) \in Nat /\ Len(sent') \in Nat /\ taken \in Seq(Grammars)
    BY DEF Arriving
<1>3. Kept'
    <2>1. \A b \in DOMAIN taken : b \in 1 .. Len(sent) - 1 /\ taken[b] = sent[b].grammar
        BY <1>1, <1>2 DEF Kept
    <2>2. \A b \in 1 .. Len(sent) - 1 : b < Len(sent') /\ sent'[b].grammar = sent[b].grammar
        BY <1>2 DEF Grows
    <2>. QED BY <2>1, <2>2 DEF Kept
<1>4. Ended'
    BY <1>1 DEF Ended
<1>5. ASSUME d.result = "none" PROVE Reading'
    <2>1. PICK s, t, lost : Flight(s, t, lost)
        BY <1>1, <1>5 DEF Reading, Complete
    <2>2. lost = <<>> /\ t = Writer(pen, sent) /\ Carries(wire \o lost, s, t, sent) /\ Match(d, Len(taken), s)
        BY <2>1 DEF Flight, Complete, Target
    <2>3. wire \o lost = wire
        BY <1>1, <2>2, SeqEmpty
    <2>4. Carries(wire, s, Writer(pen, sent), sent')
        BY <1>2, <2>2, <2>3, CarriesSame
    <2>5. PICK u : /\ Carries(wire \o y, s, u, sent')
                   /\ open' => u = Writer(pen', sent')
                   /\ ~open' /\ m'.fate = "runs" => u.ph = "end" /\ u.b = Len(sent')
        BY <1>1, <2>4
    <2>8. Target(u)'
        BY <2>5 DEF Target
    <2>6. wire' \o <<>> = wire \o y /\ <<>> \in Seq(Byte)
        <3>1. wire \o y \in Seq(Byte)
            BY <1>1, SeqConcatenation
        <3>. QED BY <3>1, SeqEmpty
    <2>7. Flight(s, u, <<>>)'
        BY <2>2, <2>5, <2>6, <2>8 DEF Flight
    <2>. QED BY <2>7 DEF Reading
<1>. QED BY <1>3, <1>4, <1>5

\* One more value of the block that is being written.
LEMMA SentAlsoIs ==
    ASSUME sent \in Seq(Blocks), sent # <<>>, NEW v \in Nat, NEW g \in Grammars,
           sent' = SentAlso(v, g)
    PROVE  /\ sent' \in Seq(Blocks) /\ sent' # <<>> /\ Len(sent') = Len(sent)
           /\ sent'[Len(sent')].grammar = g
           /\ Grows(sent, sent')
           /\ AllPlain(sent') => AllPlain(sent) /\ v \in Value
<1>. DEFINE n == Len(sent)
            e == [plain |-> sent[n].plain /\ v \in Value, grammar |-> g]
<1>1. n \in Nat \ {0} /\ n \in 1 .. n /\ DOMAIN sent = 1 .. n
    OBVIOUS
<1>2. e \in Blocks
    BY DEF Blocks
<1>3. sent' = [sent EXCEPT ![n] = e]
    BY DEF SentAlso
<1>4. e.grammar = g /\ (e.plain <=> sent[n].plain /\ v \in Value)
    OBVIOUS
<1>. HIDE DEF e, n
<1>5. sent' \in Seq(Blocks) /\ Len(sent') = n /\ DOMAIN sent' = 1 .. n
    BY <1>1, <1>2, <1>3 DEF n
<1>6. sent'[n] = e /\ \A b \in 1 .. n : b # n => sent'[b] = sent[b]
    BY <1>1, <1>3
<1>7. sent' # <<>>
    BY <1>1, <1>5
<1>8. Grows(sent, sent')
    <2>1. Len(sent) = n
        BY DEF n
    <2>2. \A b \in 1 .. n - 1 : sent'[b].grammar = sent[b].grammar
        <3>1. \A b \in 1 .. n - 1 : b \in 1 .. n /\ b # n
            BY <1>1
        <3>. QED BY <1>6, <3>1
    <2>3. n <= n
        BY <1>1
    <2>. QED BY <1>5, <2>1, <2>2, <2>3 DEF Grows
<1>9. ASSUME AllPlain(sent') PROVE AllPlain(sent) /\ v \in Value
    <2>1. e.plain /\ \A b \in 1 .. n : b # n => sent[b].plain
        BY <1>1, <1>5, <1>6, <1>9 DEF AllPlain
    <2>. QED BY <1>1, <1>4, <2>1 DEF AllPlain
<1>. QED BY <1>1, <1>4, <1>5, <1>6, <1>7, <1>8, <1>9 DEF n

\* The rules of the block that is being written.
LEMMA SendingType ==
    ASSUME sent \in Seq(Blocks), sent # <<>>
    PROVE  Sending \in Grammars /\ GrammarOK(Sending)
<1>1. sent[Len(sent)] \in Blocks
    OBVIOUS
<1>. QED BY <1>1, GrammarType DEF Sending, Blocks

\* A byte of the input is read: the transmission is as it was.
LEMMA ArrivingReadByte == TypeOK /\ Arriving /\ (\E c \in Letters : ReadByte(c)) => Arriving'
BY ArrivingStays DEF ReadByte, Idle, Running

\* So it is while the rules are rewritten.
LEMMA ArrivingRewrite == TypeOK /\ Arriving /\ Rewrite => Arriving'
BY ArrivingStays DEF Rewrite, Running

\* A value is appended.
LEMMA ArrivingWriteMainRule ==
    ASSUME TypeOK, Arriving, NEW end \in BOOLEAN, WriteMainRule(end)
    PROVE  Arriving'
<1>. DEFINE v == m.sym[m.main].value
            y == Encode(v)
            g == WithHead(Sending, v)
<1>1. v \in Nat
    BY TypeParts, MemoryParts, SymbolParts
<1>2. y \in Seq(Byte) /\ wire \in Seq(Byte)
    BY <1>1, EncodeType, TypeParts
<1>3. g \in Grammars
    BY <1>1, SendingType, WithHeadOK, GrammarType DEF Arriving
<1>4. /\ wire' = wire \o <<>> \o y /\ sent' = SentAlso(v, g)
      /\ pen = NotWriting /\ pen' = [rule |-> m.main, curs |-> m.sym[m.main].next]
      /\ open /\ open' = open /\ m' = m /\ d' = d /\ taken' = taken
    BY DEF WriteMainRule, WriteHead, Idle, Running
<1>5. pen' # NotWriting
    <2>1. m.main # NULL
        BY TypeParts, MemoryParts DEF Taken, NULL
    <2>2. pen'.rule # NotWriting.rule
        BY <1>4, <2>1 DEF NotWriting
    <2>. QED BY <2>2
<1>. HIDE DEF y, g
<1>6. wire' = wire \o y
    BY <1>2, <1>4, SeqEmpty
<1>7. /\ sent' \in Seq(Blocks) /\ sent' # <<>> /\ Len(sent') = Len(sent)
      /\ sent'[Len(sent')].grammar = g
      /\ Grows(sent, sent')
      /\ AllPlain(sent') => AllPlain(sent) /\ v \in Value
    BY <1>1, <1>3, <1>4, SentAlsoIs DEF Arriving
<1>. HIDE DEF v
<1>8. ASSUME NEW w \in Seq(Byte), NEW s, AllPlain(sent'), Carries(w, s, Writer(pen, sent), sent')
      PROVE  Carries(w \o y, s, Writer(pen', sent'), sent')
    <2>. DEFINE t == Writer(pen, sent)
                u == Writer(pen', sent')
    <2>1. t.ph = "head" /\ t.g = Sending /\ t.b = Len(sent)
        BY <1>4 DEF Writer, Place, Sending
    <2>2. u = Place("body", g, Len(sent))
        BY <1>5, <1>7 DEF Writer
    <2>3. v \in Value /\ u = Place("body", WithHead(t.g, v), t.b)
        BY <1>7, <1>8, <2>1, <2>2 DEF g
    <2>. HIDE DEF t, u
    <2>4. Step(t, y, u, sent')
        BY <2>1, <2>3 DEF Step, y
    <2>. QED BY <1>8, <2>4, CarriesMore DEF t, u
<1>. QED BY <1>2, <1>4, <1>6, <1>7, <1>8, ArrivingExtends

\* The pen of a rule is not the one that writes nothing.
LEMMA PenIsWriting ==
    ASSUME NEW mem, MemoryOK(mem), NEW r \in Taken(mem), NEW c
    PROVE  [rule |-> r, curs |-> c] # NotWriting
<1>1. r # NULL
    BY MemoryParts DEF Taken, NULL
<1>2. [rule |-> r, curs |-> c].rule = r /\ NotWriting.rule = NULL
    BY DEF NotWriting
<1>. QED BY <1>1, <1>2

\* A value is appended, or NULL is followed.
LEMMA ArrivingWriteSymbol == TypeOK /\ Arriving /\ WriteSymbol => Arriving'
<1>. SUFFICES ASSUME TypeOK, Arriving, WriteSymbol PROVE Arriving'
    OBVIOUS
<1>a. open /\ open' = open /\ d' = d /\ taken' = taken /\ m.fate = "runs" /\ pen # NotWriting
    BY DEF WriteSymbol, Writing, Running
<1>b. CASE pen.curs = NULL
    <2>1. pen' = pen /\ wire' = wire /\ sent' = sent
        BY <1>b DEF WriteSymbol, Fault
    <2>. QED BY <1>a, <2>1, ArrivingStays
<1>c. CASE pen.curs # NULL
    <2>. DEFINE v == m.sym[pen.curs].value
                y == Encode(v)
                g == WithSymbol(Sending, v)
                next == m.sym[pen.curs].next
    <2>1. /\ pen.rule \in Taken(m) /\ pen.curs \in Taken(m) /\ pen = [rule |-> pen.rule, curs |-> pen.curs]
          /\ MemoryOK(m)
        BY <1>a, <1>c, TypeParts, PenParts, NullIsNone
    <2>2. v \in Nat
        BY <2>1, SymbolParts
    <2>3. y \in Seq(Byte) /\ wire \in Seq(Byte)
        BY <2>2, EncodeType, TypeParts
    <2>4. g \in Grammars
        BY <2>2, SendingType, WithSymbolOK, GrammarType DEF Arriving
    <2>5. wire' = wire \o y /\ sent' = SentAlso(v, g) /\ pen' = [pen EXCEPT !.curs = next] /\ m' = m
        BY <1>c DEF WriteSymbol
    <2>. HIDE DEF y, g, next, v
    <2>6. pen' # NotWriting
        <3>1. pen' = [rule |-> pen.rule, curs |-> next]
            BY <2>1, <2>5
        <3>. QED BY <2>1, <3>1, PenIsWriting
    <2>7. /\ sent' \in Seq(Blocks) /\ sent' # <<>> /\ Len(sent') = Len(sent)
          /\ sent'[Len(sent')].grammar = g
          /\ Grows(sent, sent')
          /\ AllPlain(sent') => AllPlain(sent) /\ v \in Value
        BY <2>2, <2>4, <2>5, SentAlsoIs DEF Arriving
    <2>8. ASSUME NEW w \in Seq(Byte), NEW s, AllPlain(sent'), Carries(w, s, Writer(pen, sent), sent')
          PROVE  Carries(w \o y, s, Writer(pen', sent'), sent')
        <3>. DEFINE t == Writer(pen, sent)
                    u == Writer(pen', sent')
        <3>1. t.ph = "body" /\ t.g = Sending /\ t.b = Len(sent)
            BY <1>a DEF Writer, Place, Sending
        <3>2. u = Place("body", g, Len(sent))
            BY <2>6, <2>7 DEF Writer
        <3>3. v \in Value /\ u = Place("body", WithSymbol(t.g, v), t.b)
            BY <2>7, <2>8, <3>1, <3>2 DEF g
        <3>. HIDE DEF t, u
        <3>4. Step(t, y, u, sent')
            BY <3>1, <3>3 DEF Step, y
        <3>. QED BY <2>8, <3>4, CarriesMore DEF t, u
    <2>. QED BY <1>a, <2>3, <2>5, <2>7, <2>8, ArrivingExtends
<1>. QED BY <1>b, <1>c

\* A mark and a value are appended, or NULL is followed.
LEMMA ArrivingWriteRule == TypeOK /\ Arriving /\ WriteRule => Arriving'
<1>. SUFFICES ASSUME TypeOK, Arriving, WriteRule PROVE Arriving'
    OBVIOUS
<1>a. open /\ open' = open /\ d' = d /\ taken' = taken /\ m.fate = "runs" /\ pen # NotWriting
    BY DEF WriteRule, Writing, Running
<1>b. CASE NextRule = NULL
    <2>1. pen' = pen /\ wire' = wire /\ sent' = sent
        BY <1>b DEF WriteRule, Fault
    <2>. QED BY <1>a, <2>1, ArrivingStays
<1>c. CASE NextRule # NULL
    <2>. DEFINE v == m.sym[NextRule].value
                z == <<RD>>
                y == Encode(v)
                g == WithHead(Sending, v)
                next == m.sym[NextRule].next
    <2>1. NextRule \in Taken(m) /\ MemoryOK(m)
        BY <1>a, <1>c, TypeParts, PenParts, SymbolParts, NullIsNone DEF NextRule
    <2>2. v \in Nat
        BY <2>1, SymbolParts
    <2>3. y \in Seq(Byte) /\ z \in Seq(Byte) /\ wire \in Seq(Byte)
        <3>1. y \in Seq(Byte)
            BY <2>2, EncodeType
        <3>2. z \in Seq(Byte)
            BY MarkBytes
        <3>. QED BY <3>1, <3>2, TypeParts
    <2>4. g \in Grammars
        BY <2>2, SendingType, WithHeadOK, GrammarType DEF Arriving
    <2>5. /\ wire' = (wire \o z) \o y /\ sent' = SentAlso(v, g)
          /\ pen' = [rule |-> NextRule, curs |-> next] /\ m' = m
        BY <1>c DEF WriteRule, WriteHead
    <2>. HIDE DEF y, z, g, next, v
    <2>6. pen' # NotWriting
        BY <2>1, <2>5, PenIsWriting
    <2>7. /\ sent' \in Seq(Blocks) /\ sent' # <<>> /\ Len(sent') = Len(sent)
          /\ sent'[Len(sent')].grammar = g
          /\ Grows(sent, sent')
          /\ AllPlain(sent') => AllPlain(sent) /\ v \in Value
        BY <2>2, <2>4, <2>5, SentAlsoIs DEF Arriving
    <2>8. ASSUME NEW w \in Seq(Byte), NEW s, AllPlain(sent'), Carries(w, s, Writer(pen, sent), sent')
          PROVE  Carries(w \o (z \o y), s, Writer(pen', sent'), sent')
        <3>. DEFINE t == Writer(pen, sent)
                    h == Place("head", t.g, t.b)
                    u == Writer(pen', sent')
        <3>1. t.ph = "body" /\ t.g = Sending /\ t.b = Len(sent)
            BY <1>a DEF Writer, Place, Sending
        <3>2. u = Place("body", g, Len(sent))
            BY <2>6, <2>7 DEF Writer
        <3>3. v \in Value /\ u = Place("body", WithHead(t.g, v), t.b)
            BY <2>7, <2>8, <3>1, <3>2 DEF g
        <3>4. h.ph = "head" /\ h.g = t.g /\ h.b = t.b
            BY DEF Place
        <3>5. Step(t, z, h, sent')
            <4>. HIDE DEF t
            <4>. QED BY <3>1 DEF Step, z
        <3>. HIDE DEF t, u, h
        <3>6. Step(h, y, u, sent')
            BY <3>3, <3>4 DEF Step, y
        <3>7. Carries(w \o z, s, h, sent')
            BY <2>8, <3>5, CarriesMore DEF t
        <3>8. Carries((w \o z) \o y, s, u, sent')
            BY <3>6, <3>7, CarriesMore
        <3>9. (w \o z) \o y = w \o (z \o y)
            <4>1. w \in Seq(Byte) /\ z \in Seq(Byte) /\ y \in Seq(Byte)
                BY <2>3
            <4>. QED BY ONLY <4>1, SeqAssociative
        <3>. QED BY <3>8, <3>9 DEF u
    <2>9. z \o y \in Seq(Byte) /\ wire' = wire \o (z \o y)
        BY <2>3, <2>5, SeqAssociative, SeqConcatenation
    <2>. DEFINE x == z \o y
    <2>. HIDE DEF x
    <2>10. x \in Seq(Byte) /\ wire' = wire \o x
        BY <2>9 DEF x
    <2>11. ASSUME NEW w \in Seq(Byte), NEW s, AllPlain(sent'), Carries(w, s, Writer(pen, sent), sent')
           PROVE  Carries(w \o x, s, Writer(pen', sent'), sent')
        BY <2>8, <2>11 DEF x
    <2>. QED BY <1>a, <2>10, <2>7, <2>11, ArrivingExtends
<1>. QED BY <1>b, <1>c

\* Two marks are appended.
LEMMA ArrivingEndBlock == TypeOK /\ Arriving /\ EndBlock => Arriving'
<1>. SUFFICES ASSUME TypeOK, Arriving, EndBlock PROVE Arriving'
    OBVIOUS
<1>. DEFINE n == NothingSent
            x == <<EOB>>
            z == IF eof THEN <<EOT>> ELSE <<SOB>>
            k == Len(sent)
<1>1. /\ open /\ d' = d /\ taken' = taken /\ m.fate = "runs" /\ pen # NotWriting /\ pen' = NotWriting
      /\ sent' = Append(sent, n) /\ open' = ~eof
    BY TypeParts DEF EndBlock, Writing, Running
<1>2. n \in Blocks /\ n.grammar = NoRules /\ n.plain
    BY NothingSentType DEF NothingSent
<1>3. x \in Seq(Byte) /\ z \in Seq(Byte) /\ wire \in Seq(Byte)
    BY MarkBytes, TypeParts
<1>4. wire' = wire \o (x \o z)
    <2>1. wire' = wire \o (IF eof THEN <<EOB, EOT>> ELSE <<EOB, SOB>>)
        BY DEF EndBlock
    <2>2. x \o z = IF eof THEN <<EOB, EOT>> ELSE <<EOB, SOB>>
        BY SeqOfTwo
    <2>. QED BY <2>1, <2>2
<1>5. k \in Nat \ {0} /\ sent \in Seq(Blocks) /\ DOMAIN sent = 1 .. k
    BY DEF Arriving
<1>. HIDE DEF n, x, z, k
<1>6. /\ sent' \in Seq(Blocks) /\ Len(sent') = k + 1 /\ DOMAIN sent' = 1 .. k + 1
      /\ sent'[k + 1] = n /\ \A b \in 1 .. k : sent'[b] = sent[b]
    BY <1>1, <1>2, <1>5 DEF k
<1>7. sent' # <<>>
    BY <1>5, <1>6
<1>8. Grows(sent, sent') /\ (AllPlain(sent') => AllPlain(sent))
    <2>1. Len(sent) = k /\ k <= k + 1 /\ \A b \in 1 .. k - 1 : b \in 1 .. k
        BY <1>5 DEF k
    <2>2. Grows(sent, sent')
        BY <1>6, <2>1 DEF Grows
    <2>3. \A b \in 1 .. k : b \in 1 .. k + 1
        BY <1>5
    <2>4. AllPlain(sent') => AllPlain(sent)
        BY <1>5, <1>6, <2>3 DEF AllPlain
    <2>. QED BY <2>2, <2>4
<1>9. ASSUME NEW w \in Seq(Byte), NEW s, AllPlain(sent'), Carries(w, s, Writer(pen, sent), sent')
      PROVE  \E t : /\ Carries(w \o (x \o z), s, t, sent')
                    /\ open' => t = Writer(pen', sent')
                    /\ ~open' /\ m'.fate = "runs" => t.ph = "end" /\ t.b = Len(sent')
    <2>. DEFINE t == Writer(pen, sent)
                h == Place("between", t.g, t.b + 1)
                u == IF eof THEN Place("end", h.g, h.b) ELSE Place("head", NoRules, h.b)
    <2>1. t.ph = "body" /\ t.g = sent[k].grammar /\ t.b = k
        BY <1>1 DEF Writer, Place, k
    <2>2. Step(t, x, h, sent')
        <3>1. t.b \in 1 .. Len(sent') - 1 /\ t.g = sent'[t.b].grammar
            <4>1. k \in 1 .. (k + 1) - 1 /\ sent'[k] = sent[k]
                BY <1>5, <1>6
            <4>. QED BY <1>6, <2>1, <4>1
        <3>. HIDE DEF t
        <3>. QED BY <2>1, <3>1 DEF Step, x
    <2>3. h.ph = "between" /\ h.g = t.g /\ h.b = k + 1
        BY <2>1 DEF Place
    <2>. HIDE DEF t, h
    <2>4. Step(h, z, u, sent')
        BY <2>3 DEF Step, z
    <2>5. ~eof => u = Writer(pen', sent')
        BY <1>1, <1>2, <1>6, <2>3 DEF Writer
    <2>6. eof => u.ph = "end" /\ u.b = Len(sent')
        BY <1>6, <2>3 DEF Place
    <2>. HIDE DEF u
    <2>7. Carries((w \o x) \o z, s, u, sent')
        BY <1>9, <2>2, <2>4, CarriesMore DEF t
    <2>8. (w \o x) \o z = w \o (x \o z)
        <3>1. w \in Seq(Byte) /\ x \in Seq(Byte) /\ z \in Seq(Byte)
            BY <1>3
        <3>. QED BY ONLY <3>1, SeqAssociative
    <2>. QED BY <1>1, <2>5, <2>6, <2>7, <2>8
<1>. DEFINE y == x \o z
<1>10. y \in Seq(Byte)
    BY <1>3, SeqConcatenation
<1>11. wire' = wire \o y
    BY <1>4
<1>. HIDE DEF y
<1>12. ASSUME NEW w \in Seq(Byte), NEW s, AllPlain(sent'), Carries(w, s, Writer(pen, sent), sent')
       PROVE  \E t : /\ Carries(w \o y, s, t, sent')
                     /\ open' => t = Writer(pen', sent')
                     /\ ~open' /\ m'.fate = "runs" => t.ph = "end" /\ t.b = Len(sent')
    BY <1>9, <1>12 DEF y
<1>. QED BY <1>1, <1>6, <1>7, <1>8, <1>10, <1>11, <1>12, ArrivingExtends

\* What is left of the transmission is a part of it, from its beginning.
LEMMA ArrivingBreaks == TypeOK /\ Arriving /\ Breaks => Arriving'
<1>. SUFFICES ASSUME TypeOK, Arriving, Breaks PROVE Arriving'
    OBVIOUS
<1>1. open /\ ~open' /\ m.fate # "runs" /\ UNCHANGED <<m, pen, sent, d, taken>>
    BY DEF Breaks
<1>2. PICK k \in 0 .. Len(wire) : wire' = SubSeq(wire, 1, k)
    BY DEF Breaks
<1>3. Kept => Kept'
    BY <1>1 DEF Kept
<1>4. Ended'
    BY <1>1 DEF Ended
<1>5. ASSUME Reading, d.result = "none" PROVE Reading'
    <2>1. PICK s, t, lost : Flight(s, t, lost)
        BY <1>1, <1>5 DEF Reading, Complete
    <2>2. lost = <<>> /\ Carries(wire \o lost, s, t, sent) /\ Match(d, Len(taken), s)
        BY <1>1, <2>1 DEF Flight, Complete
    <2>3. wire \in Seq(Byte) /\ wire \o lost = wire
        BY <2>2, TypeParts, SeqEmpty
    <2>4. PICK rest \in Seq(Byte) : wire' \o rest = wire
        <3>1. /\ SubSeq(wire, k + 1, Len(wire)) \in Seq(Byte)
              /\ SubSeq(wire, 1, k) \o SubSeq(wire, k + 1, Len(wire)) = wire
            BY <2>3, SeqCut
        <3>. QED BY <1>2, <3>1
    <2>5. Flight(s, t, rest)'
        <3>1. ~Complete' /\ Target(t)'
            BY <1>1 DEF Complete, Target
        <3>2. wire' \o rest = wire \o lost
            BY <2>3, <2>4
        <3>3. Carries(wire' \o rest, s, t, sent') /\ Match(d', Len(taken'), s)
            BY <1>1, <2>2, <3>2
        <3>. QED BY <2>4, <3>1, <3>3 DEF Flight
    <2>. QED BY <2>5 DEF Reading
<1>. QED BY <1>1, <1>3, <1>4, <1>5 DEF Arriving

-----------------------------------------------------------------------------
(* decompress                                                              *)

\* The marks are five.
LEMMA MarksDiffer ==
    /\ SOT # SOB /\ SOT # RD /\ SOT # EOB /\ SOT # EOT /\ SOB # RD /\ SOB # EOB /\ SOB # EOT
    /\ RD # EOB /\ RD # EOT /\ EOB # EOT
    /\ SOT \in Marks /\ SOB \in Marks /\ RD \in Marks /\ EOB \in Marks /\ EOT \in Marks
BY DEF SOT, EOT, SOB, EOB, RD, Marks

\* WithHead does not look at the rule that was the last one.
LEMMA WithHeadSame ==
    ASSUME NEW g, NEW k, GrammarOK(g), GrammarOK(k), g.main = k.main, g.rules = k.rules, NEW v \in Nat
    PROVE  WithHead(g, v) = WithHead(k, v)
<1>. DEFINE R(f) == [w \in DOMAIN f \cup {v} |-> IF w = v THEN <<>> ELSE f[w]]
            M(a) == IF a = NULL THEN v ELSE a
<1>1. CASE v < FirstNonterminal
    <2>1. ASSUME NEW h, GrammarOK(h)
          PROVE  WithHead(h, v) = [main |-> h.main, last |-> NULL, rules |-> h.rules]
        BY <1>1, <2>1, GrammarParts DEF WithHead
    <2>. QED BY <2>1
<1>2. CASE ~(v < FirstNonterminal)
    <2>1. ASSUME NEW h, GrammarOK(h)
          PROVE  WithHead(h, v) = [main |-> M(h.main), last |-> v, rules |-> R(h.rules)]
        <3>. DEFINE a == M(h.main)
                    c == R(h.rules)
        <3>1. WithHead(h, v) = [h EXCEPT !.last = v, !.main = a, !.rules = c]
            BY <1>2 DEF WithHead
        <3>2. h = [main |-> h.main, last |-> h.last, rules |-> h.rules]
            BY <2>1, GrammarParts
        <3>. HIDE DEF a, c
        <3>3. WithHead(h, v) = [main |-> a, last |-> v, rules |-> c]
            BY <3>1, <3>2
        <3>. QED BY <3>3 DEF a, c
    <2>. HIDE DEF M, R
    <2>. QED BY <2>1
<1>. QED BY <1>1, <1>2

\* The first head of a block, after init_rules.
LEMMA ClearedHead ==
    ASSUME NEW dec, DecoderOK(dec), NEW v \in Nat
    PROVE  WithHead(Cleared(dec).grammar, v) = WithHead(NoRules, v)
<1>1. GrammarOK(Cleared(dec).grammar) /\ GrammarOK(dec.grammar)
    BY ClearedOK, DecoderParts
<1>2. Cleared(dec).grammar.main = NoRules.main /\ Cleared(dec).grammar.rules = NoRules.rules
    <2>. DEFINE k == dec.grammar
    <2>1. k = [main |-> k.main, last |-> k.last, rules |-> k.rules]
        BY <1>1, GrammarParts
    <2>2. Cleared(dec) = [dec EXCEPT !.grammar = Emptied(k, NoRules.main, NoRules.rules)]
        BY DEF Cleared, DecoderOK, Emptied, NoRules
    <2>. DEFINE a == k.main
                b == k.last
                c == k.rules
                x == NoRules.main
                y == NoRules.rules
    <2>. HIDE DEF a, b, c, x, y, k
    <2>3. k = [main |-> a, last |-> b, rules |-> c]
        BY <2>1 DEF a, b, c
    <2>4. Emptied(k, x, y) = [main |-> x, last |-> b, rules |-> y]
        BY <2>3, EmptiedIs
    <2>5. Cleared(dec).grammar = [main |-> x, last |-> b, rules |-> y]
        BY <2>2, <2>4 DEF x, y, DecoderOK
    <2>. QED BY <2>5 DEF x, y
<1>. QED BY <1>1, <1>2, NoRulesOK, WithHeadSame

\* What a mark does.
LEMMA StepMark ==
    ASSUME NEW s, NEW b \in Marks, NEW t, NEW blocks, Step(s, <<b>>, t, blocks)
    PROVE  \/ b = SOT /\ s.ph = "new" /\ t = Place("between", s.g, s.b)
           \/ b = SOB /\ s.ph = "between" /\ t = Place("head", NoRules, s.b)
           \/ b = RD /\ s.ph = "body" /\ t = Place("head", s.g, s.b)
           \/ /\ b = EOB /\ s.ph = "body"
              /\ s.b \in 1 .. Len(blocks) - 1 /\ s.g = blocks[s.b].grammar
              /\ t = Place("between", s.g, s.b + 1)
           \/ b = EOT /\ s.ph = "between" /\ t = Place("end", s.g, s.b)
<1>1. \A c : <<b>> = <<c>> => b = c
    OBVIOUS
<1>2. ASSUME NEW v \in Value, <<b>> = Encode(v) PROVE FALSE
    <2>1. Encode(v)[1] = b
        BY <1>2
    <2>. QED BY <2>1, FirstByteTells
<1>. QED BY <1>1, <1>2 DEF Step

\* The next byte that decompress reads is the first one of what is under way.
LEMMA FirstRead ==
    ASSUME TypeOK, Arriving, AllPlain(sent), d.result = "none", wire # <<>>
    PROVE  \E s, t, u, lost, x, r :
              /\ x \in Seq(Byte) /\ r \in Seq(Byte)
              /\ lost \in Seq(Byte) /\ (Complete => lost = <<>>)
              /\ Match(d, Len(taken), s) /\ Target(u)
              /\ x # <<>> /\ Step(s, x, t, sent) /\ Carries(r, t, u, sent)
              /\ wire \o lost = x \o r /\ Head(wire) = x[1]
<1>1. PICK s, u, lost : Flight(s, u, lost)
    BY DEF Arriving, Reading
<1>2. /\ lost \in Seq(Byte) /\ (Complete => lost = <<>>)
      /\ Carries(wire \o lost, s, u, sent) /\ Match(d, Len(taken), s) /\ Target(u)
    BY <1>1 DEF Flight
<1>3. wire \in Seq(Byte)
    BY TypeParts
<1>4. wire \o lost # <<>>
    BY <1>2, <1>3, SeqNonempty
<1>a. PICK x, r \in Seq(Byte) : \E t :
         wire \o lost = x \o r /\ x # <<>> /\ Step(s, x, t, sent) /\ Carries(r, t, u, sent)
    BY <1>2, <1>4, CarriesFirst
<1>5. PICK t :
         wire \o lost = x \o r /\ x # <<>> /\ Step(s, x, t, sent) /\ Carries(r, t, u, sent)
    BY <1>a
<1>6. Head(wire) = x[1]
    <2>. DEFINE f == wire
                g == lost
    <2>1. Len(f) \in Nat \ {0} /\ Len(x) \in Nat \ {0} /\ Len(g) \in Nat /\ Len(r) \in Nat
        BY <1>2, <1>3, <1>5
    <2>2. (f \o g)[1] = f[1]
        BY <1>2, <1>3, <2>1, SeqAt
    <2>3. (x \o r)[1] = x[1]
        BY <2>1, SeqAt
    <2>4. Head(wire) = f[1]
        BY <1>3
    <2>. QED BY <1>5, <2>2, <2>3, <2>4
<1>. QED BY <1>2, <1>5, <1>6

\* decompress reads a mark: it is the first of what is under way, whole.
LEMMA MarkRead ==
    ASSUME TypeOK, Arriving, AllPlain(sent), NEW b \in Marks, Reads(b)
    PROVE  \E s, t, u, lost :
              /\ lost \in Seq(Byte) /\ (Complete => lost = <<>>)
              /\ Match(d, Len(taken), s) /\ Target(u)
              /\ Step(s, <<b>>, t, sent) /\ Carries(wire' \o lost, t, u, sent)
<1>1. d.result = "none" /\ wire # <<>> /\ Head(wire) = b /\ wire' = SubSeq(wire, 2, Len(wire))
    BY DEF Reads, Takes
<1>2. PICK s, t, u, lost, x, r :
              /\ x \in Seq(Byte) /\ r \in Seq(Byte)
              /\ lost \in Seq(Byte) /\ (Complete => lost = <<>>)
              /\ Match(d, Len(taken), s) /\ Target(u)
              /\ x # <<>> /\ Step(s, x, t, sent) /\ Carries(r, t, u, sent)
              /\ wire \o lost = x \o r /\ Head(wire) = x[1]
    BY <1>1, FirstRead
<1>3. x = <<b>>
    <2>1. CASE \E v \in Value : x = Encode(v)
        BY <1>1, <1>2, <2>1, FirstByteTells
    <2>2. CASE \E c : x = <<c>>
        BY <1>1, <1>2, <2>2
    <2>. QED BY <1>2, <2>1, <2>2 DEF Step
<1>4. Len(x) = 1 /\ wire \in Seq(Byte) /\ Len(wire) \in Nat \ {0}
    BY <1>1, <1>3, TypeParts
<1>5. SubSeq(wire, Len(x) + 1, Len(wire)) \o lost = r
    <2>1. Len(x) <= Len(wire)
        BY <1>4
    <2>. QED BY <1>2, <1>4, <2>1, SeqSplit
<1>6. wire' \o lost = r
    BY <1>1, <1>4, <1>5
<1>. QED BY <1>2, <1>3, <1>6

\* What is under way after it.
LEMMA FlightNext ==
    ASSUME NEW t, NEW u, NEW lost, lost \in Seq(Byte), Complete => lost = <<>>,
           Match(d', Len(taken'), t), Target(u), Carries(wire' \o lost, t, u, sent),
           UNCHANGED <<m, pen, open, sent>>
    PROVE  Reading'
<1>1. Flight(t, u, lost)'
    BY DEF Flight, Target, Complete
<1>. QED BY <1>1 DEF Reading

\* A step of decompress by which it takes no block and does not end.
LEMMA ArrivingGoesOn ==
    ASSUME Arriving, UNCHANGED <<m, pen, open, sent, taken>>,
           d'.result = "crash" \/ d'.result = d.result,
           AllPlain(sent) /\ d'.result = "none" => Reading'
    PROVE  Arriving'
<1>1. Kept => Kept'
    BY DEF Kept
<1>2. Ended => Ended'
    BY DEF Ended
<1>. QED BY <1>1, <1>2 DEF Arriving

\* The transmission starts.
LEMMA ArrivingReadSOT == TypeOK /\ Arriving /\ ReadSOT => Arriving'
<1>. SUFFICES ASSUME TypeOK, Arriving, ReadSOT, AllPlain(sent) \/ TRUE PROVE Arriving'
    OBVIOUS
<1>1. Reads(SOT) /\ UNCHANGED <<m, pen, open, sent, taken>>
    BY DEF ReadSOT, Reads, Takes
<1>2. DecoderOK(d) /\ sent \in Seq(Blocks)
    BY TypeParts DEF Arriving
<1>3. ASSUME AllPlain(sent)
      PROVE  d'.result = d.result /\ Reading'
    <2>1. PICK s, t, u, lost :
              /\ lost \in Seq(Byte) /\ (Complete => lost = <<>>)
              /\ Match(d, Len(taken), s) /\ Target(u)
              /\ Step(s, <<SOT>>, t, sent) /\ Carries(wire' \o lost, t, u, sent)
        BY <1>1, <1>3, MarksDiffer, MarkRead
    <2>2. s.ph = "new" /\ t = Place("between", s.g, s.b)
        BY <2>1, StepMark, MarksDiffer
    <2>3. ~d.started /\ ~d.inBlock /\ s.b = Len(taken) + 1
        BY <2>1, <2>2 DEF Match
    <2>4. d' = [Cleared(d) EXCEPT !.started = TRUE]
        BY <2>3 DEF ReadSOT
    <2>5. d'.started /\ ~d'.inBlock /\ d'.result = d.result
        BY <1>2, <2>3, <2>4 DEF Cleared, DecoderOK
    <2>6. t.ph = "between" /\ t.b = s.b
        BY <2>2 DEF Place
    <2>7. Match(d', Len(taken'), t)
        BY <1>1, <2>3, <2>5, <2>6 DEF Match
    <2>. QED BY <1>1, <2>1, <2>5, <2>7, FlightNext
<1>4. CASE AllPlain(sent)
    BY <1>1, <1>3, <1>4, ArrivingGoesOn
<1>5. CASE ~AllPlain(sent)
    BY <1>1, <1>5 DEF Arriving
<1>. QED BY <1>4, <1>5

\* A block starts.
LEMMA ArrivingReadSOB == TypeOK /\ Arriving /\ ReadSOB => Arriving'
<1>. SUFFICES ASSUME TypeOK, Arriving, ReadSOB PROVE Arriving'
    OBVIOUS
<1>1. Reads(SOB) /\ UNCHANGED <<m, pen, open, sent, taken>>
    BY DEF ReadSOB, Reads, Takes
<1>2. DecoderOK(d)
    BY TypeParts
<1>3. ASSUME AllPlain(sent)
      PROVE  d'.result = d.result /\ Reading'
    <2>1. PICK s, t, u, lost :
              /\ lost \in Seq(Byte) /\ (Complete => lost = <<>>)
              /\ Match(d, Len(taken), s) /\ Target(u)
              /\ Step(s, <<SOB>>, t, sent) /\ Carries(wire' \o lost, t, u, sent)
        BY <1>1, <1>3, MarksDiffer, MarkRead
    <2>2. s.ph = "between" /\ t = Place("head", NoRules, s.b)
        BY <2>1, StepMark, MarksDiffer
    <2>3. d.started /\ ~d.inBlock /\ s.b = Len(taken) + 1
        BY <2>1, <2>2 DEF Match
    <2>4. d' = [Cleared(d) EXCEPT !.occupied = FALSE, !.inBlock = TRUE, !.ruleStarts = TRUE]
        BY <2>3 DEF ReadSOB
    <2>. DEFINE c == Cleared(d)
    <2>5. DecoderOK(c) /\ c.started = d.started /\ c.result = d.result
        BY <1>2, ClearedOK DEF Cleared, DecoderOK
    <2>6. \A v \in Nat : WithHead(c.grammar, v) = WithHead(NoRules, v)
        BY <1>2, ClearedHead
    <2>. HIDE DEF c
    <2>7. d'.started /\ d'.inBlock /\ d'.ruleStarts /\ d'.result = d.result /\ d'.grammar = c.grammar
        BY <2>3, <2>4, <2>5 DEF DecoderOK, c
    <2>8. t.ph = "head" /\ t.b = s.b /\ t.g = NoRules
        BY <2>2 DEF Place
    <2>9. Match(d', Len(taken'), t)
        BY <1>1, <2>3, <2>6, <2>7, <2>8 DEF Match
    <2>. QED BY <1>1, <2>1, <2>7, <2>9, FlightNext
<1>4. CASE AllPlain(sent)
    BY <1>1, <1>3, <1>4, ArrivingGoesOn
<1>5. CASE ~AllPlain(sent)
    BY <1>1, <1>5 DEF Arriving
<1>. QED BY <1>4, <1>5

\* A rule ends.
LEMMA ArrivingReadRD == TypeOK /\ Arriving /\ ReadRD => Arriving'
<1>. SUFFICES ASSUME TypeOK, Arriving, ReadRD PROVE Arriving'
    OBVIOUS
<1>1. Reads(RD) /\ UNCHANGED <<m, pen, open, sent, taken>> /\ d' = [d EXCEPT !.ruleStarts = TRUE]
    BY DEF ReadRD, Reads, Takes
<1>2. /\ d'.started = d.started /\ d'.inBlock = d.inBlock /\ d'.ruleStarts
      /\ d'.result = d.result /\ d'.grammar = d.grammar
    <2>1. DecoderOK(d)
        BY TypeParts
    <2>. QED BY <1>1, <2>1 DEF DecoderOK
<1>3. ASSUME AllPlain(sent)
      PROVE  Reading'
    <2>1. PICK s, t, u, lost :
              /\ lost \in Seq(Byte) /\ (Complete => lost = <<>>)
              /\ Match(d, Len(taken), s) /\ Target(u)
              /\ Step(s, <<RD>>, t, sent) /\ Carries(wire' \o lost, t, u, sent)
        BY <1>1, <1>3, MarksDiffer, MarkRead
    <2>2. s.ph = "body" /\ t = Place("head", s.g, s.b)
        BY <2>1, StepMark, MarksDiffer
    <2>3. d.started /\ d.inBlock /\ d.grammar = s.g /\ s.b = Len(taken) + 1
        BY <2>1, <2>2 DEF Match
    <2>4. t.ph = "head" /\ t.b = s.b /\ t.g = s.g
        BY <2>2 DEF Place
    <2>5. Match(d', Len(taken'), t)
        BY <1>1, <1>2, <2>3, <2>4 DEF Match
    <2>. QED BY <1>1, <2>1, <2>5, FlightNext
<1>. QED BY <1>1, <1>2, <1>3, ArrivingGoesOn

\* A block ends: decompress has the rules that compress wrote in it.
LEMMA ArrivingReadEOB == TypeOK /\ Arriving /\ ReadEOB => Arriving'
<1>. SUFFICES ASSUME TypeOK, Arriving, ReadEOB PROVE Arriving'
    OBVIOUS
<1>1. Reads(EOB) /\ UNCHANGED <<m, pen, open, sent>> /\ d.result = "none"
    BY DEF ReadEOB, Reads, Takes
<1>2. DecoderOK(d) /\ d.grammar \in Grammars /\ taken \in Seq(Grammars) /\ Len(taken) \in Nat
    BY TypeParts, DecoderParts, GrammarType DEF Arriving
<1>3. taken' \in Seq(Grammars)
    BY <1>2 DEF ReadEOB
<1>4. CASE ~AllPlain(sent)
    BY <1>1, <1>3, <1>4 DEF Arriving
<1>5. CASE AllPlain(sent)
    <2>1. PICK s, t, u, lost :
              /\ lost \in Seq(Byte) /\ (Complete => lost = <<>>)
              /\ Match(d, Len(taken), s) /\ Target(u)
              /\ Step(s, <<EOB>>, t, sent) /\ Carries(wire' \o lost, t, u, sent)
        BY <1>1, <1>5, MarksDiffer, MarkRead
    <2>2. /\ s.ph = "body" /\ s.b \in 1 .. Len(sent) - 1 /\ s.g = sent[s.b].grammar
          /\ t = Place("between", s.g, s.b + 1)
        BY <2>1, StepMark, MarksDiffer
    <2>3. /\ s.b = Len(taken) + 1 /\ d.started /\ d.inBlock /\ d.occupied /\ d.grammar = s.g
        BY <2>1, <2>2 DEF Match
    <2>. DEFINE r == IF d.grammar.main = NULL THEN "crash" ELSE d.result
    <2>4. /\ d' = [d EXCEPT !.ruleStarts = FALSE, !.inBlock = FALSE,
                            !.todo = <<d.grammar.main>>, !.result = r]
          /\ taken' = Append(taken, d.grammar)
        BY <2>3 DEF ReadEOB
    <2>5. r = "crash" \/ r = "none"
        BY <1>1
    <2>. HIDE DEF r
    <2>6. d'.started /\ ~d'.inBlock /\ d'.result = r
        BY <1>2, <2>3, <2>4 DEF DecoderOK
    <2>7. /\ Len(taken') = Len(taken) + 1 /\ DOMAIN taken' = 1 .. Len(taken) + 1
          /\ taken'[Len(taken) + 1] = d.grammar /\ \A b \in 1 .. Len(taken) : taken'[b] = taken[b]
        BY <1>2, <2>4
    <2>8. t.ph = "between" /\ t.b = s.b + 1
        BY <2>2 DEF Place
    <2>9. Kept'
        <3>1. \A b \in 1 .. Len(taken) : b < Len(sent) /\ taken[b] = sent[b].grammar
            BY <1>2, <1>5 DEF Arriving, Kept
        <3>2. Len(sent) \in Nat
            BY DEF Arriving
        <3>3. Len(taken) + 1 < Len(sent) /\ d.grammar = sent[Len(taken) + 1].grammar
            BY <2>2, <2>3, <3>2
        <3>4. \A b \in 1 .. Len(taken) + 1 : b \in 1 .. Len(taken) \/ b = Len(taken) + 1
            BY <1>2
        <3>. QED BY <1>1, <2>7, <3>1, <3>3, <3>4 DEF Kept
    <2>10. Ended'
        BY <2>5, <2>6 DEF Ended
    <2>11. Match(d', Len(taken'), t)
        BY <2>3, <2>6, <2>7, <2>8 DEF Match
    <2>12. Reading'
        BY <1>1, <2>1, <2>11, FlightNext
    <2>. QED BY <1>1, <1>3, <2>9, <2>10, <2>12 DEF Arriving
<1>. QED BY <1>4, <1>5

\* The transmission ends: nothing is under way any more, and all blocks were taken.
LEMMA ArrivingReadEOT == TypeOK /\ Arriving /\ ReadEOT => Arriving'
<1>. SUFFICES ASSUME TypeOK, Arriving, ReadEOT PROVE Arriving'
    OBVIOUS
<1>1. /\ Reads(EOT) /\ UNCHANGED <<m, pen, open, sent, taken>> /\ d.result = "none"
      /\ d' = [d EXCEPT !.result = Return(d)]
    BY DEF ReadEOT, Reads, Takes, Ends
<1>2. d'.result = Return(d) /\ Return(d) \in {"done", "EOF"}
    <2>1. DecoderOK(d)
        BY TypeParts
    <2>2. Return(d) \in {"done", "EOF"}
        BY DEF Return
    <2>3. d'.result = Return(d)
        BY <1>1, <2>1 DEF DecoderOK
    <2>. QED BY <2>2, <2>3
<1>3. CASE ~AllPlain(sent)
    BY <1>1, <1>3 DEF Arriving
<1>4. CASE AllPlain(sent)
    <2>1. PICK s, t, u, lost :
              /\ lost \in Seq(Byte) /\ (Complete => lost = <<>>)
              /\ Match(d, Len(taken), s) /\ Target(u)
              /\ Step(s, <<EOT>>, t, sent) /\ Carries(wire' \o lost, t, u, sent)
        BY <1>1, <1>4, MarksDiffer, MarkRead
    <2>2. s.ph = "between" /\ t = Place("end", s.g, s.b)
        BY <2>1, StepMark, MarksDiffer
    <2>3. t.ph = "end" /\ t.b = s.b
        BY <2>2 DEF Place
    <2>4. s.b = Len(taken) + 1 /\ d.started
        BY <2>1, <2>2 DEF Match
    <2>5. d'.result = "done"
        BY <1>2, <2>4 DEF Return
    <2>6. t = u
        <3>1. CASE wire' \o lost = <<>>
            BY <2>1, <3>1, CarriesNone
        <3>2. CASE wire' \o lost # <<>>
            <4>1. PICK x, q : Step(t, x, q, sent)
                BY <2>1, <3>2, CarriesFirst
            <4>. QED BY <2>3, <4>1 DEF Step
        <3>. QED BY <3>1, <3>2
    <2>7. ~open
        <3>1. Writer(pen, sent).ph # "end"
            BY DEF Writer, Place
        <3>. QED BY <2>1, <2>3, <2>6, <3>1 DEF Target
    <2>8. m.fate = "runs" => Len(taken) = Len(sent) - 1
        <3>1. m.fate = "runs" => Len(sent) = Len(taken) + 1
            BY <2>1, <2>3, <2>4, <2>6, <2>7 DEF Target
        <3>2. Len(taken) \in Nat
            BY DEF Arriving
        <3>. QED BY <3>1, <3>2
    <2>9. Kept' /\ Ended'
        <3>1. Kept
            BY <1>4 DEF Arriving
        <3>. QED BY <1>1, <2>5, <2>7, <2>8, <3>1 DEF Kept, Ended
    <2>. QED BY <1>1, <2>5, <2>9 DEF Arriving
<1>. QED BY <1>3, <1>4

\* The file ends, which it does only for a transmission that was cut.
LEMMA ArrivingReadEnd == TypeOK /\ Arriving /\ ReadEnd => Arriving'
<1>. SUFFICES ASSUME TypeOK, Arriving, ReadEnd PROVE Arriving'
    OBVIOUS
<1>1. /\ UNCHANGED <<m, pen, open, sent, taken, wire>> /\ d.result = "none"
      /\ wire = <<>> /\ ~open /\ d' = [d EXCEPT !.result = Return(d)]
    BY DEF ReadEnd, Ends
<1>2. d'.result = Return(d) /\ Return(d) \in {"done", "EOF"}
    <2>1. DecoderOK(d)
        BY TypeParts
    <2>2. Return(d) \in {"done", "EOF"}
        BY DEF Return
    <2>3. d'.result = Return(d)
        BY <1>1, <2>1 DEF DecoderOK
    <2>. QED BY <2>2, <2>3
<1>3. CASE ~AllPlain(sent)
    BY <1>1, <1>3 DEF Arriving
<1>4. CASE AllPlain(sent)
    <2>1. Kept /\ Reading
        BY <1>1, <1>4 DEF Arriving
    <2>2. m.fate # "runs"
        <3>. SUFFICES ASSUME m.fate = "runs" PROVE FALSE
            OBVIOUS
        <3>1. PICK s, t, lost : Flight(s, t, lost)
            BY <2>1 DEF Reading, Complete
        <3>2. lost = <<>> /\ Carries(wire \o lost, s, t, sent) /\ Match(d, Len(taken), s) /\ t.ph = "end"
            BY <1>1, <3>1 DEF Flight, Complete, Target
        <3>3. <<>> \o <<>> = <<>>
            BY SeqEmpty
        <3>4. s = t
            BY <1>1, <3>2, <3>3, CarriesNone
        <3>. QED BY <3>2, <3>4 DEF Match
    <2>3. Kept' /\ Ended'
        BY <1>1, <2>1, <2>2 DEF Kept, Ended
    <2>4. d'.result # "none"
        BY <1>2
    <2>. QED BY <1>1, <2>3, <2>4 DEF Arriving
<1>. QED BY <1>3, <1>4

\* A step of the expansion.
LEMMA ArrivingExpands ==
    ASSUME Arriving, UNCHANGED <<m, pen, open, sent, taken, wire>>,
           \/ d'.result = "crash"
           \/ /\ d'.result = d.result /\ d'.started = d.started /\ d'.inBlock = d.inBlock
              /\ d'.ruleStarts = d.ruleStarts /\ d'.occupied = d.occupied /\ d'.grammar = d.grammar
    PROVE  Arriving'
<1>1. ASSUME NEW s, NEW k, Match(d, k, s), d'.result # "crash"
      PROVE  Match(d', k, s)
    BY <1>1 DEF Match
<1>2. ASSUME AllPlain(sent), d'.result = "none"
      PROVE  Reading'
    <2>1. Reading
        BY <1>2 DEF Arriving
    <2>2. CASE wire = <<>> /\ ~Complete
        BY <2>2 DEF Reading, Complete
    <2>3. ASSUME NEW s, NEW t, NEW lost, Flight(s, t, lost)
          PROVE  Reading'
        <3>1. Match(d', Len(taken'), s)
            BY <1>1, <1>2, <2>3 DEF Flight
        <3>. QED BY <2>3, <3>1, FlightNext DEF Flight
    <2>. QED BY <2>1, <2>2, <2>3 DEF Reading
<1>. QED BY <1>2, ArrivingGoesOn

\* The expansion writes bytes and reads none.
LEMMA ArrivingExpand == TypeOK /\ Arriving /\ (ExpandByte \/ ExpandRule) => Arriving'
<1>. SUFFICES ASSUME TypeOK, Arriving, ExpandByte \/ ExpandRule PROVE Arriving'
    OBVIOUS
<1>1. DecoderOK(d)
    BY TypeParts
<1>2. UNCHANGED <<m, pen, open, sent, taken, wire>>
    BY DEF ExpandByte, ExpandRule
<1>3. d' = [d EXCEPT !.result = "crash"] \/ \E e : d' = [d EXCEPT !.todo = e]
    BY DEF ExpandByte, ExpandRule, Ends
<1>4. \/ d'.result = "crash"
      \/ /\ d'.result = d.result /\ d'.started = d.started /\ d'.inBlock = d.inBlock
         /\ d'.ruleStarts = d.ruleStarts /\ d'.occupied = d.occupied /\ d'.grammar = d.grammar
    <2>1. CASE d' = [d EXCEPT !.result = "crash"]
        BY <1>1, <2>1 DEF DecoderOK
    <2>2. ASSUME NEW e, d' = [d EXCEPT !.todo = e]
          PROVE  /\ d'.result = d.result /\ d'.started = d.started /\ d'.inBlock = d.inBlock
                 /\ d'.ruleStarts = d.ruleStarts /\ d'.occupied = d.occupied /\ d'.grammar = d.grammar
        BY <1>1, <2>2 DEF DecoderOK
    <2>. QED BY <1>3, <2>1, <2>2
<1>. QED BY <1>2, <1>4, ArrivingExpands

\* The lesser of two numbers.
LEMMA LeastOfTwo ==
    ASSUME NEW a \in Nat, NEW b \in Nat, b >= a
    PROVE  Min({a, b}) = a
<1>1. {a, b} \subseteq Nat /\ {a, b} # {}
    OBVIOUS
<1>2. Min({a, b}) \in {a, b} /\ \A k \in {a, b} : Min({a, b}) <= k
    BY <1>1, FirstStepIsOne DEF FirstStep
<1>. QED BY <1>2

\* The fields after a head.
LEMMA HeadReadIs ==
    ASSUME DecoderOK(d), NEW v \in Nat
    PROVE  LET e == HeadRead(v)
           IN  /\ e.started = d.started /\ e.inBlock = d.inBlock /\ ~e.ruleStarts /\ e.occupied
               /\ e.result = d.result /\ e.grammar = WithHead(d.grammar, v)
<1>. DEFINE g == WithHead(d.grammar, v)
<1>1. HeadRead(v) = [d EXCEPT !.occupied = TRUE, !.ruleStarts = FALSE, !.grammar = g]
    BY DEF HeadRead
<1>. HIDE DEF g
<1>2. LET e == HeadRead(v)
      IN  /\ e.started = d.started /\ e.inBlock = d.inBlock /\ ~e.ruleStarts /\ e.occupied
          /\ e.result = d.result /\ e.grammar = g
    BY <1>1 DEF DecoderOK
<1>. QED BY <1>2 DEF g

\* The fields after a symbol.
LEMMA SymbolReadIs ==
    ASSUME DecoderOK(d), NEW v \in Nat
    PROVE  LET e == SymbolRead(v)
           IN  /\ e.started = d.started /\ e.inBlock = d.inBlock /\ e.ruleStarts = d.ruleStarts
               /\ e.occupied /\ e.result \in {"crash", d.result}
               /\ e.grammar = WithSymbol(d.grammar, v)
<1>. DEFINE g == WithSymbol(d.grammar, v)
            r == IF d.grammar.last = NULL THEN "crash" ELSE d.result
<1>1. SymbolRead(v) = [d EXCEPT !.occupied = TRUE, !.grammar = g, !.result = r]
    BY DEF SymbolRead
<1>2. r \in {"crash", d.result}
    OBVIOUS
<1>. HIDE DEF g, r
<1>3. LET e == SymbolRead(v)
      IN  /\ e.started = d.started /\ e.inBlock = d.inBlock /\ e.ruleStarts = d.ruleStarts
          /\ e.occupied /\ e.result = r /\ e.grammar = g
    BY <1>1 DEF DecoderOK
<1>. QED BY <1>2, <1>3 DEF g

\* decompress reads a value: all of its bytes, or, of a transmission that was cut, what
\* is left.
LEMMA ArrivingReadValue == TypeOK /\ Arriving /\ ReadValue => Arriving'
<1>. SUFFICES ASSUME TypeOK, Arriving, ReadValue PROVE Arriving'
    OBVIOUS
<1>. DEFINE width == Width(Head(wire))
            least == Min({width, Len(wire)})
            v == Decode(SubSeq(wire, 1, least))
<1>1. /\ UNCHANGED <<m, pen, open, sent, taken>> /\ d.result = "none" /\ wire # <<>>
      /\ Head(wire) \notin Marks /\ wire' = SubSeq(wire, width + 1, Len(wire))
      /\ Len(wire) >= width \/ ~open
      /\ d' = IF v = -1 THEN [d EXCEPT !.result = "EOF"]
              ELSE IF d.ruleStarts THEN HeadRead(v) ELSE SymbolRead(v)
    BY DEF ReadValue, Takes
<1>2. DecoderOK(d) /\ wire \in Seq(Byte) /\ Len(wire) \in Nat \ {0}
    BY <1>1, TypeParts
<1>3. CASE ~AllPlain(sent)
    BY <1>1, <1>3 DEF Arriving
<1>4. CASE AllPlain(sent)
    <2>1. PICK s, t, u, lost, x, r :
              /\ x \in Seq(Byte) /\ r \in Seq(Byte)
              /\ lost \in Seq(Byte) /\ (Complete => lost = <<>>)
              /\ Match(d, Len(taken), s) /\ Target(u)
              /\ x # <<>> /\ Step(s, x, t, sent) /\ Carries(r, t, u, sent)
              /\ wire \o lost = x \o r /\ Head(wire) = x[1]
        BY <1>1, <1>4, FirstRead
    <2>2. PICK c \in Value : /\ x = Encode(c)
                             /\ \/ s.ph = "head" /\ t = Place("body", WithHead(s.g, c), s.b)
                                \/ s.ph = "body" /\ t = Place("body", WithSymbol(s.g, c), s.b)
        <3>1. \A k \in Marks : x # <<k>>
            BY <1>1, <2>1
        <3>. QED BY <2>1, <3>1, MarksDiffer DEF Step
    <2>3. width = Len(x) /\ Decode(x) = c /\ c \in Nat /\ Len(x) \in Nat \ {0}
        BY <2>1, <2>2, FirstByteTells, DecodeEncode DEF Value
    <2>. HIDE DEF width
    <2>4. CASE Len(wire) >= width
        <3>1. SubSeq(wire, 1, Len(x)) = x /\ SubSeq(wire, Len(x) + 1, Len(wire)) \o lost = r
            <4>1. Len(x) <= Len(wire)
                BY <1>2, <2>3, <2>4
            <4>. QED BY <1>2, <2>1, <4>1, SeqSplit
        <3>2. least = Len(x)
            BY <1>2, <2>3, <2>4, LeastOfTwo
        <3>3. v = c
            BY <2>3, <3>1, <3>2
        <3>4. wire' \o lost = r
            BY <1>1, <2>3, <3>1
        <3>. HIDE DEF v, least
        <3>5. CASE s.ph = "head" /\ t = Place("body", WithHead(s.g, c), s.b)
            <4>1. /\ d.started /\ d.inBlock /\ d.ruleStarts /\ s.b = Len(taken) + 1
                  /\ WithHead(d.grammar, c) = WithHead(s.g, c)
                BY <2>1, <2>3, <3>5 DEF Match
            <4>2. d' = HeadRead(c)
                BY <1>1, <2>3, <3>3, <4>1
            <4>3. /\ d'.started /\ d'.inBlock /\ ~d'.ruleStarts /\ d'.occupied
                  /\ d'.result = d.result /\ d'.grammar = WithHead(s.g, c)
                BY <1>2, <2>3, <4>1, <4>2, HeadReadIs
            <4>4. t.ph = "body" /\ t.g = WithHead(s.g, c) /\ t.b = s.b
                BY <3>5 DEF Place
            <4>5. Match(d', Len(taken'), t)
                BY <1>1, <4>1, <4>3, <4>4 DEF Match
            <4>6. Reading'
                BY <1>1, <2>1, <3>4, <4>5, FlightNext
            <4>. QED BY <1>1, <4>3, <4>6, ArrivingGoesOn
        <3>6. CASE s.ph = "body" /\ t = Place("body", WithSymbol(s.g, c), s.b)
            <4>1. /\ d.started /\ d.inBlock /\ ~d.ruleStarts /\ s.b = Len(taken) + 1
                  /\ d.grammar = s.g
                BY <2>1, <2>3, <3>6 DEF Match
            <4>2. d' = SymbolRead(c)
                BY <1>1, <2>3, <3>3, <4>1
            <4>3. /\ d'.started /\ d'.inBlock /\ ~d'.ruleStarts /\ d'.occupied
                  /\ d'.result \in {"crash", d.result} /\ d'.grammar = WithSymbol(s.g, c)
                BY <1>2, <2>3, <4>1, <4>2, SymbolReadIs
            <4>4. t.ph = "body" /\ t.g = WithSymbol(s.g, c) /\ t.b = s.b
                BY <3>6 DEF Place
            <4>5. Match(d', Len(taken'), t)
                BY <1>1, <4>1, <4>3, <4>4 DEF Match
            <4>6. Reading'
                BY <1>1, <2>1, <3>4, <4>5, FlightNext
            <4>. QED BY <1>1, <4>3, <4>6, ArrivingGoesOn
        <3>. QED BY <2>2, <3>5, <3>6
    <2>5. CASE ~(Len(wire) >= width)
        <3>1. lost # <<>>
            <4>. SUFFICES ASSUME lost = <<>> PROVE FALSE
                OBVIOUS
            <4>1. wire \o lost = wire
                BY <1>2, SeqEmpty
            <4>2. Len(x \o r) = Len(x) + Len(r) /\ Len(r) \in Nat
                BY <2>1
            <4>. QED BY <1>2, <2>1, <2>3, <2>5, <4>1, <4>2
        <3>2. ~Complete
            BY <2>1, <3>1
        <3>3. wire' = <<>>
            BY <1>1, <1>2, <2>3, <2>5
        <3>4. Reading' /\ Ended' /\ Kept'
            <4>1. Reading' /\ Ended'
                BY <1>1, <3>2, <3>3 DEF Reading, Complete, Ended
            <4>2. Kept'
                BY <1>1, <1>4 DEF Arriving, Kept
            <4>. QED BY <4>1, <4>2
        <3>. QED BY <1>1, <3>4 DEF Arriving
    <2>. QED BY <2>4, <2>5
<1>. QED BY <1>3, <1>4

\* No step.
LEMMA ArrivingUnchanged == Arriving /\ UNCHANGED vars => Arriving'
<1>. SUFFICES ASSUME Arriving, UNCHANGED vars PROVE Arriving'
    OBVIOUS
<1>1. UNCHANGED <<m, pen, open, sent, taken, wire, d>>
    BY DEF vars
<1>. QED BY <1>1, ArrivingExpands

\* Whatever rules compress writes (comdec.c:295-376), decompress (comdec.c:166-293) expands
\* blocks that have the same rules, in the same order; of a transmission that is complete it
\* takes all of them and refuses none, and of one that was cut it takes the first few.
THEOREM Arrives == Spec => []GrammarsArrive
<1>1. TypeOK /\ Arriving /\ [Next]_vars => Arriving'
    <2>. SUFFICES ASSUME TypeOK, Arriving, [Next]_vars PROVE Arriving'
        OBVIOUS
    <2>1. CASE Compress
        BY <2>1, ArrivingReadByte, ArrivingRewrite, ArrivingWriteMainRule, ArrivingWriteSymbol,
           ArrivingWriteRule, ArrivingEndBlock, ArrivingBreaks DEF Compress
    <2>2. CASE Decompress
        BY <2>2, ArrivingReadSOT, ArrivingReadEOT, ArrivingReadSOB, ArrivingReadEOB, ArrivingReadRD,
           ArrivingReadValue, ArrivingReadEnd, ArrivingExpand DEF Decompress
    <2>3. CASE UNCHANGED vars
        BY <2>3, ArrivingUnchanged
    <2>. QED BY <2>1, <2>2, <2>3 DEF Next
<1>. QED BY <1>1, ArrivingInit, ArrivingImplies, TypeCorrect, PTL DEF Spec
=============================================================================
