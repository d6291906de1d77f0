----------------------------- MODULE Sfmm_proofs -----------------------------
(***************************************************************************)
(* Proofs about the allocator for every number of pages, every set of      *)
(* sizes and alignments, and every number of blocks held.  A heap is sound *)
(* when its blocks, the program's, the free ones and those being freed,    *)
(* tile it and their headers say so.  Each operator of Sfmm is proved to   *)
(* lead from a sound heap to one, in the order in which the calls use      *)
(* them; a call then keeps the invariant Inv.                              *)
(***************************************************************************)
EXTENDS Sfmm, FiniteSetTheorems, WellFoundedInduction, TLAPS

-----------------------------------------------------------------------------
(* Words. *)

Bit == {0, 1}

\* The size of a header is no multiple of a unit: the block is refused by every call.
Odd(w) == Bytes(w) % M # 0

\* The multiples of a unit are multiples of 4 as well.
LEMMA Multiples ==
  ASSUME NEW n \in Int
  PROVE  /\ M * n \in Int /\ (M * n) \div M = n /\ (M * n) % M = 0
         /\ \E q \in Int : M * n = 4 * q
         /\ n >= 0 => M * n >= 0
         /\ n >= 1 => M * n >= M
<1>1. PICK k \in Nat : M = 4 * k
  BY SfmmAssumption
<1>2. k * n \in Int /\ M * n = 4 * (k * n)
  BY <1>1
<1>3. (M * n) \div M = n
  BY SfmmAssumption
<1>4. (M * n) % M = 0
  BY SfmmAssumption
<1>5. (n >= 0 => M * n >= 0) /\ (n >= 1 => M * n >= M)
  BY SfmmAssumption
<1>6. M * n \in Int /\ \E q \in Int : M * n = 4 * q
  BY <1>2
<1> QED BY <1>3, <1>4, <1>5, <1>6

\* The two low bits of a word.
LEMMA Quarter ==
  ASSUME NEW q \in Int, NEW p \in Bit, NEW a \in Bit
  PROVE  LET w == 4 * q + 2 * p + a
         IN  w - (w % 4) = 4 * q /\ (w \div 2) % 2 = p /\ w % 2 = a
BY DEF Bit

\* What a word stores is read from it.
LEMMA WordParts ==
  ASSUME NEW n \in Nat, NEW p \in Bit, NEW a \in Bit
  PROVE  LET w == Word(n, p, a)
         IN  /\ w \in Nat /\ Bytes(w) = M * n /\ Size(w) = n /\ PrevBit(w) = p /\ AllocBit(w) = a
             /\ ~Odd(w)
<1>1. PICK q \in Int : M * n = 4 * q
  BY Multiples
<1>2. M * n >= 0 /\ M * n \in Int
  BY Multiples
<1> DEFINE w == 4 * q + 2 * p + a
<1>3. Word(n, p, a) = w /\ w \in Nat
  BY <1>1, <1>2 DEF Word, Bit
<1>4. Bytes(w) = M * n /\ PrevBit(w) = p /\ AllocBit(w) = a
  BY <1>1, Quarter DEF Bytes, PrevBit, AllocBit
<1> HIDE DEF w
<1>5. Size(w) = n /\ ~Odd(w)
  BY <1>4, Multiples DEF Size, Odd
<1> QED BY <1>3, <1>4, <1>5

\* Every word is its size part and its two bits.
LEMMA Reassembled ==
  ASSUME NEW w \in Nat
  PROVE  /\ Bytes(w) \in Nat /\ Bytes(w) % 4 = 0 /\ PrevBit(w) \in Bit /\ AllocBit(w) \in Bit
         /\ w = Bytes(w) + 2 * PrevBit(w) + AllocBit(w)
         /\ Size(w) \in Nat
<1>1. /\ Bytes(w) \in Nat /\ Bytes(w) % 4 = 0 /\ PrevBit(w) \in Bit /\ AllocBit(w) \in Bit
      /\ w = Bytes(w) + 2 * PrevBit(w) + AllocBit(w)
  BY DEF Bytes, PrevBit, AllocBit, Bit
<1>2. Size(w) \in Nat
  BY <1>1, SfmmAssumption DEF Size
<1> QED BY <1>1, <1>2

\* The header of an allocated block of n units, or one that has been borrowed from.
Measures(w, n) == M * (n - 1) < Bytes(w) /\ Bytes(w) <= M * n

\* A header that no call refuses is exact.
LEMMA Exact ==
  ASSUME NEW w \in Nat, NEW n \in Nat \ {0}, Measures(w, n), ~Odd(w)
  PROVE  Bytes(w) = M * n /\ Size(w) = n /\ w = Word(n, PrevBit(w), AllocBit(w))
<1>1. Bytes(w) \in Nat /\ w = Bytes(w) + 2 * PrevBit(w) + AllocBit(w)
  BY Reassembled
<1> DEFINE b == Bytes(w)
<1> HIDE DEF b
<1>2. PICK q \in Int : b = M * q
  <2>1. b \in Nat /\ b % M = 0
    BY <1>1 DEF b, Odd
  <2> QED BY <2>1, SfmmAssumption
<1>3. q = n
  <2>1. M * (n - 1) < M * q /\ M * q <= M * n
    BY <1>2 DEF Measures, b
  <2> QED BY <2>1, SfmmAssumption
<1>4. Bytes(w) = M * n
  BY <1>2, <1>3 DEF b
<1> QED BY <1>1, <1>4, Multiples DEF Size, Word

\* Taking 2 from a header of a block: its other bit stays, and unless the prev-allocated bit
\* was there, 4 bytes are taken from the size.
LEMMA Borrowed ==
  ASSUME NEW w \in Nat, NEW n \in Nat \ {0}, Measures(w, n)
  PROVE  /\ w - 2 \in Nat /\ AllocBit(w - 2) = AllocBit(w)
         /\ PrevBit(w) = 1 => Bytes(w - 2) = Bytes(w) /\ PrevBit(w - 2) = 0
         /\ PrevBit(w) = 0 => Bytes(w - 2) = Bytes(w) - 4
         /\ Bytes(w - 2) = Bytes(w) \/ Odd(w - 2) => Measures(w - 2, n)
<1>1. /\ Bytes(w) \in Nat /\ Bytes(w) % 4 = 0 /\ PrevBit(w) \in Bit /\ AllocBit(w) \in Bit
      /\ w = Bytes(w) + 2 * PrevBit(w) + AllocBit(w)
  BY Reassembled
<1>2. PICK q \in Nat : Bytes(w) = 4 * q
  BY <1>1
<1>3. PICK r \in Int : M * (n - 1) = 4 * r
  BY Multiples
<1>4. M * (n - 1) >= 0 /\ (M * (n - 1)) % M = 0 /\ M * (n - 1) < Bytes(w) /\ Bytes(w) <= M * n
  BY Multiples DEF Measures
<1>5. r < q /\ 0 <= r
  BY <1>2, <1>3, <1>4
<1>6. w - 2 \in Nat
  BY <1>1, <1>2, <1>5 DEF Bit
<1>7. CASE PrevBit(w) = 1
  <2>1. w - 2 = 4 * q + 2 * 0 + AllocBit(w)
    BY <1>1, <1>2, <1>7 DEF Bit
  <2>2. Bytes(w - 2) = 4 * q /\ PrevBit(w - 2) = 0 /\ AllocBit(w - 2) = AllocBit(w)
    BY <1>1, <2>1, Quarter DEF Bytes, PrevBit, AllocBit, Bit
  <2> QED BY <1>2, <1>6, <1>7, <2>2 DEF Measures
<1>8. CASE PrevBit(w) = 0
  <2>1. w - 2 = 4 * (q - 1) + 2 * 1 + AllocBit(w)
    BY <1>1, <1>2, <1>8 DEF Bit
  <2>2. Bytes(w - 2) = 4 * (q - 1) /\ AllocBit(w - 2) = AllocBit(w)
    BY <1>1, <2>1, Quarter DEF Bytes, PrevBit, AllocBit, Bit
  <2>3. Bytes(w - 2) = Bytes(w) - 4
    BY <1>2, <2>2
  <2>4. ASSUME Odd(w - 2)
        PROVE  Measures(w - 2, n)
    <3>1. Bytes(w - 2) >= M * (n - 1)
      BY <1>2, <1>3, <1>5, <2>2
    <3>2. Bytes(w - 2) # M * (n - 1)
      BY <1>4, <2>4 DEF Odd
    <3>3. M * n \in Int /\ M * (n - 1) \in Int
      BY Multiples
    <3> QED BY <1>2, <1>4, <2>3, <3>1, <3>2, <3>3, <2>2 DEF Measures
  <2> QED BY <1>2, <1>6, <1>8, <2>2, <2>3, <2>4
<1> QED BY <1>1, <1>7, <1>8 DEF Bit

-----------------------------------------------------------------------------
(* Lists. *)

Faults == {"none", "abort", "nomem", "wild", "damaged"}

HeapType == [pages : Nat, header : [Cells -> Nat \cup {Data}], footer : [Cells -> Nat \cup {Data}],
             lists : [0 .. 9 -> Seq(Cells)], fault : Faults]

\* What insertion at the head of a list does.
LEMMA Prepended ==
  ASSUME NEW S, NEW list \in Seq(S), NEW b \in S
  PROVE  /\ <<b>> \o list \in Seq(S)
         /\ Range(<<b>> \o list) = Range(list) \cup {b}
         /\ IsInjective(list) /\ b \notin Range(list) => IsInjective(<<b>> \o list)
<1> DEFINE new == <<b>> \o list
<1>1. new \in Seq(S) /\ Len(new) = Len(list) + 1 /\ new[1] = b /\ DOMAIN new = 1 .. Len(list) + 1
      /\ Len(list) \in Nat /\ DOMAIN list = 1 .. Len(list)
  OBVIOUS
<1>2. \A k \in 2 .. Len(list) + 1 : new[k] = list[k - 1]
  OBVIOUS
<1> HIDE DEF new
<1>3. ASSUME NEW x
      PROVE  x \in Range(new) <=> x \in Range(list) \cup {b}
  <2>1. ASSUME x \in Range(new)
        PROVE  x \in Range(list) \cup {b}
    <3>1. PICK k \in 1 .. Len(list) + 1 : x = new[k]
      BY <1>1, <2>1 DEF Range
    <3>2. k = 1 \/ (k \in 2 .. Len(list) + 1 /\ k - 1 \in 1 .. Len(list))
      BY <1>1
    <3> QED BY <1>1, <1>2, <3>1, <3>2 DEF Range
  <2>2. ASSUME x \in Range(list)
        PROVE  x \in Range(new)
    <3>1. PICK k \in 1 .. Len(list) : x = list[k]
      BY <1>1, <2>2 DEF Range
    <3>2. k + 1 \in 2 .. Len(list) + 1 /\ k + 1 \in 1 .. Len(list) + 1 /\ (k + 1) - 1 = k
      BY <1>1
    <3>3. new[k + 1] = x
      BY <1>2, <3>1, <3>2
    <3> QED BY <1>1, <3>2, <3>3 DEF Range
  <2>3. b \in Range(new)
    BY <1>1 DEF Range
  <2> QED BY <2>1, <2>2, <2>3
<1>4. ASSUME IsInjective(list), b \notin Range(list), NEW k \in DOMAIN new, NEW l \in DOMAIN new,
             new[k] = new[l]
      PROVE  k = l
  <2>1. ASSUME NEW i \in 2 .. Len(list) + 1
        PROVE  i - 1 \in DOMAIN list /\ new[i] = list[i - 1] /\ new[i] # b
    BY <1>1, <1>2, <1>4 DEF Range
  <2>2. /\ k = 1 \/ k \in 2 .. Len(list) + 1
        /\ l = 1 \/ l \in 2 .. Len(list) + 1
    BY <1>1
  <2>3. k # 1 /\ l # 1 => k - 1 = l - 1
    BY <1>4, <2>1, <2>2 DEF IsInjective
  <2> QED BY <1>1, <1>4, <2>1, <2>2, <2>3
<1> QED BY <1>1, <1>3, <1>4 DEF new, IsInjective

\* What is left of a list without one of its blocks.
LEMMA Removed ==
  ASSUME NEW S, NEW list \in Seq(S), NEW b, IsInjective(list)
  PROVE  /\ Without(list, b) \in Seq(S) /\ IsInjective(Without(list, b))
         /\ Range(Without(list, b)) = Range(list) \ {b}
<1>1. CASE \A k \in DOMAIN list : list[k] # b
  BY <1>1 DEF Without, Range
<1>2. CASE \E k \in DOMAIN list : list[k] = b
  <2> DEFINE at == CHOOSE k \in DOMAIN list : list[k] = b
             n == Len(list)
             new == [k \in 1 .. n - 1 |-> IF k < at THEN list[k] ELSE list[k + 1]]
  <2>1. at \in 1 .. n /\ list[at] = b /\ n \in Nat /\ DOMAIN list = 1 .. n /\ \A k \in 1 .. n : list[k] \in S
    BY <1>2
  <2>2. Without(list, b) = new
    BY <1>2 DEF Without
  <2>3. n - 1 \in Nat /\ DOMAIN new = 1 .. n - 1
    BY <2>1
  <2> HIDE DEF at, n
  <2>4. ASSUME NEW k \in 1 .. n - 1
        PROVE  \E j \in 1 .. n : new[k] = list[j] /\ j # at /\ j = (IF k < at THEN k ELSE k + 1)
    BY <2>1
  <2>5. ASSUME NEW j \in 1 .. n, j # at
        PROVE  \E k \in 1 .. n - 1 : new[k] = list[j]
    <3>1. CASE j < at
      BY <2>1, <3>1
    <3>2. CASE j > at
      <4>1. j - 1 \in 1 .. n - 1 /\ ~(j - 1 < at) /\ (j - 1) + 1 = j
        BY <2>1, <3>2
      <4> QED BY <4>1
    <3> QED BY <2>1, <2>5, <3>1, <3>2
  <2> HIDE DEF new
  <2>6. new \in Seq(S)
    <3>1. \A k \in 1 .. n - 1 : new[k] \in S
      BY <2>1, <2>4
    <3> QED BY <2>3, <3>1 DEF new
  <2>7. IsInjective(new)
    <3>1. SUFFICES ASSUME NEW k \in 1 .. n - 1, NEW l \in 1 .. n - 1, new[k] = new[l]
                   PROVE  k = l
      BY <2>3 DEF IsInjective
    <3>2. PICK i \in 1 .. n : new[k] = list[i] /\ i = (IF k < at THEN k ELSE k + 1)
      BY <2>4
    <3>3. PICK j \in 1 .. n : new[l] = list[j] /\ j = (IF l < at THEN l ELSE l + 1)
      BY <2>4
    <3>4. i = j
      BY <2>1, <3>1, <3>2, <3>3 DEF IsInjective
    <3> QED BY <2>1, <3>2, <3>3, <3>4
  <2>8. ASSUME NEW x
        PROVE  x \in Range(new) <=> x \in Range(list) /\ x # b
    <3>1. ASSUME x \in Range(new)
          PROVE  x \in Range(list) /\ x # b
      <4>1. PICK k \in 1 .. n - 1 : x = new[k]
        BY <2>3, <3>1 DEF Range
      <4>2. PICK j \in 1 .. n : new[k] = list[j] /\ j # at
        BY <2>4
      <4> QED BY <2>1, <4>1, <4>2 DEF Range, IsInjective
    <3>2. ASSUME x \in Range(list), x # b
          PROVE  x \in Range(new)
      <4>1. PICK j \in 1 .. n : x = list[j]
        BY <2>1, <3>2 DEF Range
      <4>2. PICK k \in 1 .. n - 1 : new[k] = list[j]
        BY <2>1, <2>5, <3>2, <4>1
      <4> QED BY <2>3, <4>1, <4>2 DEF Range
    <3> QED BY <3>1, <3>2
  <2> QED BY <2>2, <2>6, <2>7, <2>8
<1> QED BY <1>1, <1>2

Once(h) == \A i \in 0 .. 9 : IsInjective(h.lists[i])

\* remove_block_from_free_lists takes a block from the lists and changes nothing else.
LEMMA Unlisted ==
  ASSUME NEW h \in HeapType, NEW b, Once(h)
  PROVE  LET g == Unlist(h, b)
         IN  /\ g \in HeapType /\ Once(g)
             /\ g.pages = h.pages /\ g.header = h.header /\ g.footer = h.footer /\ g.fault = h.fault
             /\ \A i \in 0 .. 9 : Range(g.lists[i]) = Range(h.lists[i]) \ {b}
             /\ Listed(g) = Listed(h) \ {b}
<1> DEFINE g == Unlist(h, b)
           lists == [i \in 0 .. 9 |-> Without(h.lists[i], b)]
<1>1. g = [h EXCEPT !.lists = lists]
  BY DEF Unlist
<1>2. \A i \in 0 .. 9 : h.lists[i] \in Seq(Cells)
  BY DEF HeapType
<1>3. \A i \in 0 .. 9 : lists[i] \in Seq(Cells) /\ IsInjective(lists[i])
                        /\ Range(lists[i]) = Range(h.lists[i]) \ {b}
  BY <1>2, Removed DEF Once
<1>4. lists \in [0 .. 9 -> Seq(Cells)]
  BY <1>3
<1> HIDE DEF lists
<1>5. /\ g \in HeapType /\ g.lists = lists
      /\ g.pages = h.pages /\ g.header = h.header /\ g.footer = h.footer /\ g.fault = h.fault
  BY <1>1, <1>4 DEF HeapType
<1> HIDE DEF g
<1>6. ASSUME NEW i \in 0 .. 9
      PROVE  Range(g.lists[i]) = Range(h.lists[i]) \ {b}
  <2>1. g.lists[i] = lists[i]
    BY <1>5
  <2> QED BY <1>3, <2>1
<1>7. Listed(g) = Listed(h) \ {b}
  BY <1>6 DEF Listed
<1>8. Once(g)
  BY <1>3, <1>5 DEF Once
<1> QED BY <1>5, <1>6, <1>7, <1>8 DEF g

\* The heap g is h with the block b in list i as well.
Added(h, g, i, b) ==
    /\ g \in HeapType /\ Once(g)
    /\ g.pages = h.pages /\ g.header = h.header /\ g.footer = h.footer /\ g.fault = h.fault
    /\ \A j \in 0 .. 9 : Range(g.lists[j]) = Range(h.lists[j]) \cup (IF j = i THEN {b} ELSE {})
    /\ Listed(g) = Listed(h) \cup {b}

\* Insertion adds a block to one list and changes nothing else.
LEMMA Inserted ==
  ASSUME NEW h \in HeapType, NEW i \in 0 .. 9, NEW b \in Cells, Once(h), b \notin Listed(h)
  PROVE  Added(h, Insert(h, i, b), i, b)
<1> DEFINE g == Insert(h, i, b)
           list == <<b>> \o h.lists[i]
<1>1. h.lists \in [0 .. 9 -> Seq(Cells)] /\ h.lists[i] \in Seq(Cells)
  BY DEF HeapType
<1>2. b \notin Range(h.lists[i])
  BY DEF Listed, Range
<1>3. list \in Seq(Cells) /\ IsInjective(list) /\ Range(list) = Range(h.lists[i]) \cup {b}
  <2>1. IsInjective(h.lists[i])
    BY DEF Once
  <2>2. list \in Seq(Cells)
    BY <1>1
  <2>3. Range(list) = Range(h.lists[i]) \cup {b}
    BY <1>1, Prepended
  <2>4. IsInjective(list)
    BY <1>1, <1>2, <2>1, Prepended
  <2> QED BY <2>2, <2>3, <2>4
<1>4. g = [h EXCEPT !.lists[i] = list]
  BY DEF Insert
<1> HIDE DEF list
<1>5. /\ g \in HeapType /\ g.lists = [h.lists EXCEPT ![i] = list]
      /\ g.pages = h.pages /\ g.header = h.header /\ g.footer = h.footer /\ g.fault = h.fault
  <2>1. [h.lists EXCEPT ![i] = list] \in [0 .. 9 -> Seq(Cells)]
    BY <1>1, <1>3
  <2>2. g = [h EXCEPT !.lists = [h.lists EXCEPT ![i] = list]]
    BY <1>4 DEF HeapType
  <2> HIDE DEF g
  <2> QED BY <2>1, <2>2 DEF HeapType
<1> HIDE DEF g
<1>6. ASSUME NEW j \in 0 .. 9
      PROVE  /\ Range(g.lists[j]) = Range(h.lists[j]) \cup (IF j = i THEN {b} ELSE {})
             /\ IsInjective(g.lists[j])
  <2>1. g.lists[j] = IF j = i THEN list ELSE h.lists[j]
    BY <1>1, <1>5
  <2> QED BY <1>3, <2>1 DEF Range, Once
<1>7. Listed(g) = Listed(h) \cup {b}
  BY <1>6 DEF Listed
<1> QED BY <1>5, <1>6, <1>7 DEF g, Once, Added

\* The listed blocks are those of the ten lists, all inside the heap.
LEMMA ListedCells ==
  ASSUME NEW h \in HeapType
  PROVE  /\ Listed(h) \subseteq Cells
         /\ \A i \in 0 .. 9 : \A k \in DOMAIN h.lists[i] : h.lists[i][k] \in Range(h.lists[i])
         /\ \A i \in 0 .. 9 : Range(h.lists[i]) \subseteq Listed(h)
         /\ \A b \in Listed(h) : \E i \in 0 .. 9 : b \in Range(h.lists[i])
<1>1. \A i \in 0 .. 9 : h.lists[i] \in Seq(Cells)
  BY DEF HeapType
<1>2. ASSUME NEW i \in 0 .. 9
      PROVE  Range(h.lists[i]) \subseteq Cells
  <2>1. PICK list \in Seq(Cells) : list = h.lists[i]
    BY <1>1
  <2>2. \A k \in DOMAIN list : list[k] \in Cells
    OBVIOUS
  <2> QED BY <2>1, <2>2 DEF Range
<1>3. \A i \in 0 .. 9 : \A k \in DOMAIN h.lists[i] : h.lists[i][k] \in Range(h.lists[i])
  BY DEF Range
<1> QED BY <1>2, <1>3 DEF Listed

\* The lists of the sizes.
LEMMA ClassOf ==
  ASSUME NEW size \in Nat \ {0}, size <= 34
  PROVE  \E i \in 0 .. 7 : size <= Fibonacci[i + 1] /\ (i = 0 \/ size > Fibonacci[i])
<1>1. Fibonacci[1] = 1 /\ Fibonacci[2] = 2 /\ Fibonacci[3] = 3 /\ Fibonacci[4] = 5 /\ Fibonacci[5] = 8
      /\ Fibonacci[6] = 13 /\ Fibonacci[7] = 21 /\ Fibonacci[8] = 34
  BY DEF Fibonacci
<1> DEFINE P(i) == size <= Fibonacci[i + 1] /\ (i = 0 \/ size > Fibonacci[i])
<1>2. /\ size <= 1 => P(0)
      /\ size > 1 /\ size <= 2 => P(1)
      /\ size > 2 /\ size <= 3 => P(2)
      /\ size > 3 /\ size <= 5 => P(3)
      /\ size > 5 /\ size <= 8 => P(4)
      /\ size > 8 /\ size <= 13 => P(5)
      /\ size > 13 /\ size <= 21 => P(6)
      /\ size > 21 /\ size <= 34 => P(7)
  BY <1>1
<1> HIDE DEF P
<1>3. P(0) \/ P(1) \/ P(2) \/ P(3) \/ P(4) \/ P(5) \/ P(6) \/ P(7)
  BY <1>2
<1>4. \E i \in 0 .. 7 : P(i)
  BY <1>3
<1> QED BY <1>4 DEF P

\* Every size has a class.
LEMMA Classes ==
  ASSUME NEW size \in Nat \ {0}
  PROVE  Class(size) \in 0 .. 8
<1>1. Fibonacci[8] = 34
  BY DEF Fibonacci
<1> QED BY <1>1, ClassOf DEF Class

-----------------------------------------------------------------------------
(* Tilings. *)

BlockType == [at : Nat, size : Nat \ {0}]
End(x) == x.at + x.size

\* The blocks of T cover n units and do not overlap.
Tiles(T, n) ==
    /\ T \subseteq BlockType
    /\ \A x \in T : End(x) <= n
    /\ \A u \in 0 .. n - 1 : \E x \in T : x.at <= u /\ u < End(x)
    /\ \A x, y \in T : x = y \/ End(x) <= y.at \/ End(y) <= x.at

\* The parts of a block.
LEMMA BlockFields ==
  ASSUME NEW b \in Nat, NEW n \in Nat \ {0}
  PROVE  Block(b, n) \in BlockType /\ Block(b, n).at = b /\ Block(b, n).size = n /\ End(Block(b, n)) = b + n
BY DEF Block, BlockType, End

\* A block is its parts.
LEMMA BlockIs ==
  ASSUME NEW x \in BlockType
  PROVE  x = Block(x.at, x.size) /\ x.at \in Nat /\ x.size \in Nat \ {0} /\ End(x) \in Nat /\ x.at < End(x)
BY DEF Block, BlockType, End

\* What begins or ends where a block does is that block.
LEMMA OneBlock ==
  ASSUME NEW n \in Nat, NEW T, Tiles(T, n), NEW x \in T, NEW y \in T, x.at = y.at \/ End(x) = End(y)
  PROVE  x = y
<1>1. x \in BlockType /\ y \in BlockType /\ (x = y \/ End(x) <= y.at \/ End(y) <= x.at)
  BY DEF Tiles
<1> QED BY <1>1, BlockIs

\* After a block comes another one, or the end.
LEMMA NextBlock ==
  ASSUME NEW n \in Nat, NEW T, Tiles(T, n), NEW x \in T, End(x) # n
  PROVE  \E y \in T : y.at = End(x)
<1>1. x \in BlockType /\ End(x) <= n
  BY DEF Tiles
<1>2. End(x) \in 0 .. n - 1
  BY <1>1, BlockIs
<1>3. PICK y \in T : y.at <= End(x) /\ End(x) < End(y)
  BY <1>2 DEF Tiles
<1>4. y \in BlockType /\ (x = y \/ End(x) <= y.at \/ End(y) <= x.at)
  BY DEF Tiles
<1> QED BY <1>1, <1>3, <1>4, BlockIs

\* Two neighbours can be taken for one block.
LEMMA JoinTiles ==
  ASSUME NEW n \in Nat, NEW T, Tiles(T, n), NEW a \in Nat, NEW s \in Nat \ {0}, NEW r \in Nat \ {0},
         Block(a, s) \in T, Block(a + s, r) \in T
  PROVE  Tiles((T \ {Block(a, s), Block(a + s, r)}) \cup {Block(a, s + r)}, n)
<1> DEFINE x == Block(a, s)
           y == Block(a + s, r)
           z == Block(a, s + r)
<1>1. /\ x \in T /\ x \in BlockType /\ x.at = a /\ End(x) = a + s
      /\ y \in T /\ y \in BlockType /\ y.at = a + s /\ End(y) = a + s + r
      /\ z \in BlockType /\ z.at = a /\ End(z) = a + s + r
  <2>1. a + s \in Nat /\ s + r \in Nat \ {0} /\ a + (s + r) = a + s + r
    OBVIOUS
  <2>2. x \in BlockType /\ x.at = a /\ End(x) = a + s
    BY BlockFields
  <2>3. y \in BlockType /\ y.at = a + s /\ End(y) = a + s + r
    BY <2>1, BlockFields
  <2>4. z \in BlockType /\ z.at = a /\ End(z) = a + s + r
    BY <2>1, BlockFields
  <2> QED BY <2>2, <2>3, <2>4
<1> HIDE DEF x, y, z
<1>2. T \subseteq BlockType /\ \A v \in T : v.at \in Nat /\ End(v) \in Nat /\ v.at < End(v) /\ End(v) <= n
  BY BlockIs DEF Tiles
<1> DEFINE U == (T \ {x, y}) \cup {z}
<1>3. U \subseteq BlockType /\ \A v \in U : End(v) <= n
  BY <1>1, <1>2
<1>4. ASSUME NEW u \in 0 .. n - 1
      PROVE  \E v \in U : v.at <= u /\ u < End(v)
  <2>1. PICK v \in T : v.at <= u /\ u < End(v)
    BY DEF Tiles
  <2>2. v \in {x, y} => z.at <= u /\ u < End(z)
    BY <1>1, <2>1
  <2> QED BY <2>1, <2>2
<1>5. ASSUME NEW v \in T \ {x, y}
      PROVE  End(v) <= z.at \/ End(z) <= v.at
  <2>1. (End(v) <= x.at \/ End(x) <= v.at) /\ (End(v) <= y.at \/ End(y) <= v.at)
    BY <1>1 DEF Tiles
  <2> QED BY <1>1, <1>2, <2>1
<1>6. \A v, w \in U : v = w \/ End(v) <= w.at \/ End(w) <= v.at
  BY <1>5 DEF Tiles
<1> QED BY <1>3, <1>4, <1>6 DEF Tiles, x, y, z

\* A block can be taken for two.
LEMMA SplitTile ==
  ASSUME NEW n \in Nat, NEW T, Tiles(T, n), NEW a \in Nat, NEW s \in Nat \ {0}, NEW r \in Nat \ {0},
         Block(a, s + r) \in T
  PROVE  Tiles((T \ {Block(a, s + r)}) \cup {Block(a, s), Block(a + s, r)}, n)
<1> DEFINE x == Block(a, s)
           y == Block(a + s, r)
           z == Block(a, s + r)
<1>1. /\ x \in BlockType /\ x.at = a /\ End(x) = a + s
      /\ y \in BlockType /\ y.at = a + s /\ End(y) = a + s + r
      /\ z \in T /\ z \in BlockType /\ z.at = a /\ End(z) = a + s + r
  <2>1. a + s \in Nat /\ s + r \in Nat \ {0} /\ a + (s + r) = a + s + r
    OBVIOUS
  <2>2. x \in BlockType /\ x.at = a /\ End(x) = a + s
    BY BlockFields
  <2>3. y \in BlockType /\ y.at = a + s /\ End(y) = a + s + r
    BY <2>1, BlockFields
  <2>4. z \in BlockType /\ z.at = a /\ End(z) = a + s + r
    BY <2>1, BlockFields
  <2> QED BY <2>2, <2>3, <2>4
<1> HIDE DEF x, y, z
<1>2. T \subseteq BlockType /\ \A v \in T : v.at \in Nat /\ End(v) \in Nat /\ v.at < End(v) /\ End(v) <= n
  BY BlockIs DEF Tiles
<1> DEFINE U == (T \ {z}) \cup {x, y}
<1>3. U \subseteq BlockType /\ \A v \in U : End(v) <= n
  BY <1>1, <1>2
<1>4. ASSUME NEW u \in 0 .. n - 1
      PROVE  \E v \in U : v.at <= u /\ u < End(v)
  <2>1. PICK v \in T : v.at <= u /\ u < End(v)
    BY DEF Tiles
  <2>2. v = z => (x.at <= u /\ u < End(x)) \/ (y.at <= u /\ u < End(y))
    BY <1>1, <2>1
  <2> QED BY <2>1, <2>2
<1>5. ASSUME NEW v \in T \ {z}
      PROVE  (End(v) <= x.at \/ End(x) <= v.at) /\ (End(v) <= y.at \/ End(y) <= v.at)
  <2>1. End(v) <= z.at \/ End(z) <= v.at
    BY <1>1 DEF Tiles
  <2> QED BY <1>1, <1>2, <2>1
<1>6. End(x) <= y.at
  BY <1>1
<1>7. \A v, w \in U : v = w \/ End(v) <= w.at \/ End(w) <= v.at
  BY <1>5, <1>6 DEF Tiles
<1> QED BY <1>3, <1>4, <1>7 DEF Tiles, x, y, z

\* A block can be added at the end.
LEMMA AddTile ==
  ASSUME NEW n \in Nat, NEW T, Tiles(T, n), NEW k \in Nat \ {0}
  PROVE  Tiles(T \cup {Block(n, k)}, n + k)
<1> DEFINE z == Block(n, k)
<1>1. z \in BlockType /\ z.at = n /\ End(z) = n + k
  BY BlockFields
<1> HIDE DEF z
<1>2. T \subseteq BlockType /\ \A v \in T : v.at \in Nat /\ End(v) \in Nat /\ v.at < End(v) /\ End(v) <= n
  BY BlockIs DEF Tiles
<1>3. ASSUME NEW u \in 0 .. n + k - 1
      PROVE  \E v \in T \cup {z} : v.at <= u /\ u < End(v)
  <2>1. CASE u < n
    <3>1. u \in 0 .. n - 1
      BY <2>1
    <3> QED BY <3>1 DEF Tiles
  <2>2. CASE u >= n
    BY <1>1, <2>2
  <2> QED BY <2>1, <2>2
<1>4. \A v \in T \cup {z} : End(v) <= n + k
  BY <1>1, <1>2
<1>5. \A v, w \in T \cup {z} : v = w \/ End(v) <= w.at \/ End(w) <= v.at
  BY <1>1, <1>2 DEF Tiles
<1> QED BY <1>1, <1>2, <1>3, <1>4, <1>5 DEF Tiles, z

-----------------------------------------------------------------------------
(* Heaps. *)

FreeIn(h) == {Block(b, Size(h.header[b])) : b \in Listed(h)}

Own(h, b) == IF IsWilderness(h, b) THEN Wilderness ELSE Class(Size(h.header[b]))

Shaped(h) == h \in HeapType /\ h.pages \in 1 .. MaxPages /\ h.footer[0] = Word(1, 1, 1)
Filed(h) == Once(h) /\ \A i \in 0 .. 9 : \A b \in Range(h.lists[i]) : i = Own(h, b)

\* The header and the footer of a free block.
Headed(h, x) ==
    /\ \E p \in Bit : h.header[x.at] = Word(x.size, p, 0)
    /\ h.footer[End(x)] = h.header[x.at]

Allocated(h, x) == h.header[x.at] \in Nat /\ AllocBit(h.header[x.at]) = 1

\* The header of the epilogue tells whether the last block is free.
LastBit(h, F) ==
    h.header[Epilogue(h)] = Word(0, IF \E x \in F : End(x) = Epilogue(h) THEN 0 ELSE 1, 1)

\* A block after a free one has not got the prev-allocated bit.
NextBit(h, F, B) ==
    \A x \in F, y \in B :
        End(x) = y.at => Odd(h.header[y.at]) \/ PrevBit(h.header[y.at]) = 0

Apart(F) == \A x, y \in F : End(x) # y.at

\* The heap h when the program has the blocks B, and the blocks L are free and not yet filed.
Sound(h, B, L) ==
    /\ Shaped(h) /\ Filed(h)
    /\ Tiles(B \cup L \cup FreeIn(h), Epilogue(h))
    /\ \A x \in L : x.at \notin Listed(h)
    /\ \A x \in L \cup FreeIn(h) : Headed(h, x)
    /\ \A x \in B : Allocated(h, x)
    /\ LastBit(h, L \cup FreeIn(h))
    /\ NextBit(h, L \cup FreeIn(h), B)
    /\ Apart(FreeIn(h))
    /\ \A x \in FreeIn(h), y \in L : End(x) = y.at => PrevBit(h.header[y.at]) = 0

\* The epilogue is inside the heap and not its first word.
LEMMA Ends ==
  ASSUME NEW h, Shaped(h)
  PROVE  Epilogue(h) \in Cells /\ Epilogue(h) \in Nat \ {0} /\ 0 \in Cells
<1>1. PICK p \in Nat : p = h.pages /\ 1 <= p /\ p <= MaxPages
  BY SfmmAssumption DEF Shaped
<1>2. PageUnits \in Nat /\ PageUnits > 2 /\ MaxPages \in Nat
  BY SfmmAssumption
<1>3. p * PageUnits <= MaxPages * PageUnits /\ p * PageUnits >= PageUnits
  BY <1>1, <1>2
<1>4. p * PageUnits \in Nat /\ MaxPages * PageUnits \in Nat
  BY <1>1, <1>2
<1> QED BY <1>1, <1>2, <1>3, <1>4 DEF Epilogue, Cells

\* A free block and its place in the lists.
LEMMA FreeBlocksOf ==
  ASSUME NEW h
  PROVE  /\ \A b \in Listed(h) : Block(b, Size(h.header[b])) \in FreeIn(h)
         /\ \A x \in FreeIn(h) : x.at \in Listed(h) /\ x.size = Size(h.header[x.at])
                                 /\ x = Block(x.at, x.size)
         /\ \A b \in Listed(h) : \E x \in FreeIn(h) : x.at = b
<1>1. /\ \A b \in Listed(h) : Block(b, Size(h.header[b])) \in FreeIn(h)
      /\ \A x \in FreeIn(h) : x.at \in Listed(h) /\ x.size = Size(h.header[x.at])
                              /\ x = Block(x.at, x.size)
  BY DEF FreeIn, Block
<1>2. ASSUME NEW b \in Listed(h)
      PROVE  \E x \in FreeIn(h) : x.at = b
  <2>1. Block(b, Size(h.header[b])).at = b
    BY DEF Block
  <2> QED BY <1>1, <2>1
<1> QED BY <1>1, <1>2

\* Where the blocks are, and that no block is two of free, loose and the program's.
LEMMA Places ==
  ASSUME NEW h, NEW B, NEW L, Sound(h, B, L)
  PROVE  /\ \A x \in B \cup L \cup FreeIn(h) :
              /\ x \in BlockType /\ x = Block(x.at, x.size) /\ x.at \in Cells /\ End(x) \in Cells
              /\ x.at < End(x) /\ End(x) <= Epilogue(h) /\ x.at # Epilogue(h)
         /\ \A x \in L \cup FreeIn(h) :
              /\ h.header[x.at] \in Nat /\ AllocBit(h.header[x.at]) = 0 /\ Size(h.header[x.at]) = x.size
         /\ \A x \in B, y \in L \cup FreeIn(h) : x.at # y.at
         /\ \A x \in L, y \in FreeIn(h) : x.at # y.at
         /\ h.header[Epilogue(h)] \in Nat /\ AllocBit(h.header[Epilogue(h)]) = 1
<1>1. Epilogue(h) \in Cells /\ Epilogue(h) \in Nat \ {0}
  BY Ends DEF Sound
<1>2. ASSUME NEW x \in B \cup L \cup FreeIn(h)
      PROVE  /\ x \in BlockType /\ x = Block(x.at, x.size) /\ x.at \in Cells /\ End(x) \in Cells
             /\ x.at < End(x) /\ End(x) <= Epilogue(h) /\ x.at # Epilogue(h)
  <2>1. x \in BlockType /\ End(x) <= Epilogue(h)
    BY DEF Sound, Tiles
  <2>2. x.at \in Nat /\ End(x) \in Nat /\ x.at < End(x) /\ x = Block(x.at, x.size)
    BY <2>1, BlockIs
  <2>3. Cells = 0 .. MaxPages * PageUnits - 2 /\ MaxPages * PageUnits \in Int
    BY SfmmAssumption DEF Cells
  <2> QED BY <1>1, <2>1, <2>2, <2>3
<1>3. ASSUME NEW x \in L \cup FreeIn(h)
      PROVE  h.header[x.at] \in Nat /\ AllocBit(h.header[x.at]) = 0 /\ Size(h.header[x.at]) = x.size
  <2>1. x.size \in Nat
    BY <1>2 DEF BlockType
  <2>2. PICK p \in Bit : h.header[x.at] = Word(x.size, p, 0)
    BY DEF Sound, Headed
  <2> QED BY <2>1, <2>2, WordParts DEF Bit
<1>4. \A x \in B : AllocBit(h.header[x.at]) = 1
  BY DEF Sound, Allocated
<1>5. \A x \in L, y \in FreeIn(h) : x.at # y.at
  BY FreeBlocksOf DEF Sound
<1>6. h.header[Epilogue(h)] \in Nat /\ AllocBit(h.header[Epilogue(h)]) = 1
  BY WordParts DEF Sound, LastBit, Bit
<1> QED BY <1>2, <1>3, <1>4, <1>5, <1>6

\* What files a block.
LEMMA FileSound ==
  ASSUME NEW h, NEW B, NEW x, Sound(h, B, {x}),
         \A y \in FreeIn(h) : End(y) # x.at /\ y.at # End(x)
  PROVE  LET g == File(h, x.at)
         IN  /\ Sound(g, B, {}) /\ FreeIn(g) = FreeIn(h) \cup {x}
             /\ g.pages = h.pages /\ g.header = h.header /\ g.footer = h.footer /\ g.fault = h.fault
<1> DEFINE b == x.at
           own == Own(h, b)
           g == File(h, b)
<1>1. /\ x \in BlockType /\ x = Block(b, x.size) /\ b \in Cells /\ x.at < End(x) /\ Size(h.header[b]) = x.size
      /\ b \notin Listed(h) /\ h \in HeapType /\ Once(h)
  <2>1. x \in {x}
    OBVIOUS
  <2>2. b \notin Listed(h) /\ h \in HeapType /\ Once(h)
    BY <2>1 DEF Sound, Shaped, Filed
  <2> QED BY <2>1, <2>2, Places
<1>2. own \in 0 .. 9
  <2>1. Class(x.size) \in 0 .. 8
    BY <1>1, Classes DEF BlockType
  <2> QED BY <1>1, <2>1 DEF Own, Wilderness
<1>3. g = Insert(h, own, b)
  BY DEF File, Own
<1> HIDE DEF own, g, b
<1>4. /\ g \in HeapType /\ Once(g)
      /\ g.pages = h.pages /\ g.header = h.header /\ g.footer = h.footer /\ g.fault = h.fault
      /\ \A j \in 0 .. 9 : Range(g.lists[j]) = Range(h.lists[j]) \cup (IF j = own THEN {b} ELSE {})
      /\ Listed(g) = Listed(h) \cup {b}
  <2>1. Added(h, Insert(h, own, b), own, b)
    BY <1>1, <1>2, Inserted
  <2> QED BY <1>3, <2>1 DEF Added
<1>5. FreeIn(g) = FreeIn(h) \cup {x}
  BY <1>1, <1>4 DEF FreeIn
<1>6. Epilogue(g) = Epilogue(h) /\ \A c : Own(g, c) = Own(h, c)
  BY <1>4 DEF Epilogue, Own, IsWilderness
<1>7. Shaped(g) /\ Filed(g)
  <2>1. \A i \in 0 .. 9 : \A c \in Range(g.lists[i]) : i = Own(g, c)
    BY <1>4, <1>6 DEF Sound, Filed, own
  <2> QED BY <1>4, <2>1 DEF Sound, Shaped, Filed
<1>8. B \cup {} \cup FreeIn(g) = B \cup {x} \cup FreeIn(h) /\ {} \cup FreeIn(g) = {x} \cup FreeIn(h)
  BY <1>5
<1>9. Tiles(B \cup {} \cup FreeIn(g), Epilogue(g))
  BY <1>6, <1>8 DEF Sound
<1>10. (\A y \in {} \cup FreeIn(g) : Headed(g, y)) /\ \A y \in B : Allocated(g, y)
  BY <1>4, <1>8 DEF Sound, Headed, Allocated
<1>11. LastBit(g, {} \cup FreeIn(g)) /\ NextBit(g, {} \cup FreeIn(g), B)
  BY <1>4, <1>6, <1>8 DEF Sound, LastBit, NextBit
<1>12. Apart(FreeIn(g))
  <2>1. End(x) # x.at
    BY <1>1, BlockIs
  <2> QED BY <1>5, <2>1 DEF Sound, Apart, b
<1>13. Sound(g, B, {})
  BY <1>7, <1>9, <1>10, <1>11, <1>12 DEF Sound
<1> QED BY <1>4, <1>5, <1>13 DEF g, b

\* A free block and its loose neighbour become one loose block, unless a free block before it
\* would not be found.
Joined(h, c, z, word) ==
    [Unlist(h, c) EXCEPT !.header[z.at] = word, !.footer[End(z)] = word]

\* Joining keeps a heap sound.
LEMMA JoinSound ==
  ASSUME NEW h, NEW B, NEW x, Sound(h, B, {x}), NEW y \in FreeIn(h), NEW z \in BlockType, NEW p \in Bit,
         \/ End(x) = y.at /\ z.at = x.at /\ End(z) = End(y)
         \/ End(y) = x.at /\ z.at = y.at /\ End(z) = End(x),
         z.size = x.size + y.size,
         p = 0 \/ \A w \in FreeIn(h) \ {y} : End(w) # z.at
  PROVE  LET g == Joined(h, y.at, z, Word(z.size, p, 0))
         IN  /\ Sound(g, B, {z}) /\ FreeIn(g) = FreeIn(h) \ {y}
             /\ g.pages = h.pages /\ g.fault = h.fault
             /\ g.header = [h.header EXCEPT ![z.at] = Word(z.size, p, 0)]
             /\ g.footer = [h.footer EXCEPT ![End(z)] = Word(z.size, p, 0)]
<1> DEFINE word == Word(z.size, p, 0)
           u == Unlist(h, y.at)
           g == Joined(h, y.at, z, word)
           T == B \cup {x} \cup FreeIn(h)
<1>a. /\ h \in HeapType /\ Once(h)
      /\ \A v \in T : /\ v \in BlockType /\ v.at \in Cells /\ End(v) \in Cells
                      /\ v.at < End(v) /\ v.at # Epilogue(h) /\ End(v) <= Epilogue(h)
      /\ \A v \in B : v.at # x.at /\ \A w \in FreeIn(h) : v.at # w.at
      /\ \A w \in FreeIn(h) : x.at # w.at
      /\ x.at \notin Listed(h)
  <2>1. x \in {x} /\ x \in T
    OBVIOUS
  <2>2. x.at \notin Listed(h) /\ h \in HeapType /\ Once(h)
    BY <2>1 DEF Sound, Shaped, Filed
  <2>3. \A v \in T : /\ v \in BlockType /\ v.at \in Cells /\ End(v) \in Cells
                     /\ v.at < End(v) /\ v.at # Epilogue(h) /\ End(v) <= Epilogue(h)
    BY Places
  <2>4. /\ \A v \in B : v.at # x.at /\ \A w \in FreeIn(h) : v.at # w.at
        /\ \A w \in FreeIn(h) : x.at # w.at
    BY <2>1, Places
  <2> QED BY <2>2, <2>3, <2>4
<1>b. Epilogue(h) \in Nat \ {0} /\ Epilogue(h) \in Cells /\ 0 \in Cells
  BY Ends DEF Sound
<1>c. Tiles(T, Epilogue(h)) /\ x \in T /\ y \in T /\ x # y
  BY <1>a DEF Sound
<1>d. \A v, w \in T : v.at = w.at \/ End(v) = End(w) => v = w
  BY <1>b, <1>c, OneBlock
<1>e. z.at \in Cells /\ End(z) \in Cells /\ z.size \in Nat /\ z.at # Epilogue(h) /\ End(z) # 0
      /\ (\E v \in {x, y} : z.at = v.at) /\ (\E v \in {x, y} : End(z) = End(v))
  BY <1>a, <1>c DEF BlockType, Cells
<1>f. word \in Nat /\ PrevBit(word) = p /\ AllocBit(word) = 0 /\ Size(word) = z.size
  BY <1>e, WordParts DEF Bit
<1> HIDE DEF T, word, g
<1>1. /\ u \in HeapType /\ Once(u)
      /\ u.pages = h.pages /\ u.header = h.header /\ u.footer = h.footer /\ u.fault = h.fault
      /\ \A i \in 0 .. 9 : Range(u.lists[i]) = Range(h.lists[i]) \ {y.at}
      /\ Listed(u) = Listed(h) \ {y.at}
  BY <1>a, Unlisted
<1>2. g = [u EXCEPT !.header[z.at] = word, !.footer[End(z)] = word]
  BY DEF g, Joined
<1> HIDE DEF u
<1>3. /\ g \in HeapType /\ g.pages = h.pages /\ g.fault = h.fault /\ g.lists = u.lists
      /\ g.header = [h.header EXCEPT ![z.at] = word]
      /\ g.footer = [h.footer EXCEPT ![End(z)] = word]
  BY <1>1, <1>2, <1>e, <1>f DEF HeapType
<1>4. Once(g) /\ Listed(g) = Listed(h) \ {y.at} /\ Epilogue(g) = Epilogue(h)
  BY <1>1, <1>3 DEF Once, Listed, Epilogue
<1>5. /\ \A c \in Cells : c # z.at => g.header[c] = h.header[c]
      /\ \A c \in Cells : c # End(z) => g.footer[c] = h.footer[c]
      /\ g.header[z.at] = word /\ g.footer[End(z)] = word
  BY <1>3, <1>a, <1>e DEF HeapType
<1>6. \A c \in Listed(g) : c \in Cells /\ c # z.at /\ g.header[c] = h.header[c]
  <2>1. \A c \in Listed(h) : c \in Cells
    BY <1>a, ListedCells
  <2> QED BY <1>4, <1>5, <1>a, <2>1, <1>e
<1>7. FreeIn(g) = FreeIn(h) \ {y}
  <2>1. ASSUME NEW v \in FreeIn(g)
        PROVE  v \in FreeIn(h) \ {y}
    <3>1. PICK c \in Listed(g) : v = Block(c, Size(g.header[c]))
      BY DEF FreeIn
    <3>2. c \in Listed(h) /\ c # y.at /\ v = Block(c, Size(h.header[c])) /\ v.at = c
      BY <1>4, <1>6, <3>1 DEF Block
    <3> QED BY <3>2 DEF FreeIn
  <2>2. ASSUME NEW v \in FreeIn(h) \ {y}
        PROVE  v \in FreeIn(g)
    <3>1. PICK c \in Listed(h) : v = Block(c, Size(h.header[c]))
      BY DEF FreeIn
    <3>2. v.at = c /\ v \in T
      BY <3>1 DEF Block, T
    <3>3. c # y.at
      BY <1>c, <1>d, <3>2
    <3> QED BY <1>4, <1>6, <3>1, <3>3 DEF FreeIn
  <2> QED BY <2>1, <2>2
<1>8. Shaped(g)
  BY <1>3, <1>5, <1>b, <1>e DEF Sound, Shaped
<1>9. Filed(g)
  <2>1. ASSUME NEW i \in 0 .. 9, NEW c \in Range(g.lists[i])
        PROVE  i = Own(g, c)
    <3>1. c \in Range(h.lists[i]) /\ c \in Listed(g)
      BY <1>1, <1>3, ListedCells
    <3>2. i = Own(h, c) /\ g.header[c] = h.header[c]
      BY <1>6, <3>1 DEF Sound, Filed
    <3> QED BY <1>4, <3>2 DEF Own, IsWilderness
  <2> QED BY <1>4, <2>1 DEF Filed
<1>10. Tiles(B \cup {z} \cup FreeIn(g), Epilogue(g))
  <2>1. B \cup {z} \cup FreeIn(g) = (T \ {x, y}) \cup {z}
    BY <1>a, <1>7 DEF T
  <2>2. x = Block(x.at, x.size) /\ y = Block(y.at, y.size) /\ z = Block(z.at, z.size)
        /\ x.at \in Nat /\ x.size \in Nat \ {0} /\ y.at \in Nat /\ y.size \in Nat \ {0}
    BY <1>a, <1>c, BlockIs
  <2>3. CASE End(x) = y.at /\ z.at = x.at
    <3>1. y = Block(x.at + x.size, y.size) /\ z = Block(x.at, x.size + y.size)
      BY <2>2, <2>3 DEF End
    <3> QED BY <1>4, <1>b, <1>c, <2>1, <2>2, <3>1, JoinTiles
  <2>4. CASE End(y) = x.at /\ z.at = y.at
    <3>1. x = Block(y.at + y.size, x.size) /\ z = Block(y.at, y.size + x.size)
      BY <2>2, <2>4 DEF End
    <3>2. {x, y} = {y, x}
      OBVIOUS
    <3> QED BY <1>4, <1>b, <1>c, <2>1, <2>2, <3>1, <3>2, JoinTiles
  <2> QED BY <2>3, <2>4
<1>11. z.at \notin Listed(g)
  BY <1>6
<1>12. \A v \in {z} \cup FreeIn(g) : Headed(g, v)
  <2>1. Headed(g, z)
    BY <1>5 DEF Headed, word
  <2>2. ASSUME NEW v \in FreeIn(g)
        PROVE  Headed(g, v)
    <3>1. v \in T /\ v \in FreeIn(h) /\ v # x /\ v # y
      BY <1>7, <1>a DEF T
    <3>2. v.at # z.at /\ End(v) # End(z)
      BY <1>c, <1>d, <1>e, <3>1
    <3>3. Headed(h, v)
      BY <3>1 DEF Sound
    <3> QED BY <1>5, <1>a, <3>1, <3>2, <3>3 DEF Headed
  <2> QED BY <2>1, <2>2
<1>13. \A v \in B : Allocated(g, v) /\ g.header[v.at] = h.header[v.at]
  <2>1. ASSUME NEW v \in B
        PROVE  v.at \in Cells /\ v.at # z.at
    BY <1>a, <1>e DEF T
  <2> QED BY <1>5, <2>1 DEF Sound, Allocated
<1>14. \A c : (\E v \in {z} \cup FreeIn(g) : End(v) = c)
              => \E v \in {x} \cup FreeIn(h) : End(v) = c
  BY <1>7, <1>e
<1>15. LastBit(g, {z} \cup FreeIn(g))
  <2>1. ASSUME NEW v \in {x} \cup FreeIn(h), End(v) = Epilogue(h)
        PROVE  \E w \in {z} \cup FreeIn(g) : End(w) = Epilogue(h)
    <3>1. v \in {x, y} => End(z) = End(v)
      <4>1. /\ x.at < End(x) /\ y.at < End(y) /\ x.at # Epilogue(h) /\ y.at # Epilogue(h)
        BY <1>a, <1>c
      <4> QED BY <2>1, <4>1
    <3> QED BY <1>7, <2>1, <3>1
  <2>2. g.header[Epilogue(g)] = h.header[Epilogue(h)]
    BY <1>4, <1>5, <1>b, <1>e
  <2> QED BY <1>4, <1>14, <2>1, <2>2 DEF Sound, LastBit
<1>16. NextBit(g, {z} \cup FreeIn(g), B)
  BY <1>13, <1>14 DEF Sound, NextBit
<1>17. Apart(FreeIn(g))
  BY <1>7 DEF Sound, Apart
<1>18. \A v \in FreeIn(g), w \in {z} : End(v) = w.at => PrevBit(g.header[w.at]) = 0
  BY <1>5, <1>7, <1>f
<1>19. Sound(g, B, {z})
  <2>1. \A v \in {z} : v.at \notin Listed(g)
    BY <1>11
  <2> QED BY <1>8, <1>9, <1>10, <2>1, <1>12, <1>13, <1>15, <1>16, <1>17, <1>18 DEF Sound
<1> QED BY <1>3, <1>7, <1>19 DEF g, word

-----------------------------------------------------------------------------
(* Coalescing. *)

Before(F, c) == {y \in F : End(y) = c}
After(F, c) == {y \in F : y.at = c}

\* What changes from h to r when the block z takes the place of x.
Frame(h, r, x, z) ==
    /\ r.pages = h.pages /\ r.fault = h.fault
    /\ \A c \in Cells : c \notin {x.at, z.at} => r.header[c] = h.header[c]
    /\ \A c \in Cells : c # End(z) => r.footer[c] = h.footer[c]

\* The sizes of a joined block.
LEMMA Sum ==
  ASSUME NEW x \in BlockType, NEW y \in BlockType, End(x) = y.at
  PROVE  LET z == Block(x.at, x.size + y.size)
         IN  z \in BlockType /\ z.at = x.at /\ End(z) = End(y) /\ z.size = x.size + y.size
<1>1. x.at \in Nat /\ x.size \in Nat \ {0} /\ y.size \in Nat \ {0} /\ y.at = x.at + x.size
  BY DEF BlockType, End
<1>2. x.size + y.size \in Nat \ {0} /\ x.at + (x.size + y.size) = y.at + y.size
  BY <1>1
<1> QED BY <1>1, <1>2, BlockFields DEF End

\* The loose block x has become z by taking in the free block after it.
NextMerged(h, g, B, x, z) ==
    /\ Sound(g, B, {z}) /\ Frame(h, g, x, z)
    /\ z.at = x.at
    /\ FreeIn(g) = FreeIn(h) \ After(FreeIn(h), End(x))
    /\ After(FreeIn(g), End(z)) = {}
    /\ \/ After(FreeIn(h), End(x)) = {} /\ End(z) = End(x)
       \/ \E y \in After(FreeIn(h), End(x)) : End(z) = End(y)

\* The first half of merge_adjacent_free_blocks.
LEMMA MergeNextSound ==
  ASSUME NEW h, NEW B, NEW x, Sound(h, B, {x})
  PROVE  \E z \in BlockType : NextMerged(h, MergeNext(h, x.at), B, x, z)
<1> DEFINE g == MergeNext(h, x.at)
           F == FreeIn(h)
           T == B \cup {x} \cup F
<1>1. /\ x \in {x} /\ x \in T
      /\ x \in BlockType /\ Size(h.header[x.at]) = x.size /\ x.at + x.size = End(x) /\ x.at < End(x)
  <2>1. x \in {x} /\ x \in T
    OBVIOUS
  <2> QED BY <2>1, Places DEF End
<1>2. \A y \in F : h.header[y.at] \in Nat /\ AllocBit(h.header[y.at]) = 0 /\ Size(h.header[y.at]) = y.size
                   /\ y \in BlockType /\ y.at \in Cells
  BY Places
<1>3. CASE AllocBit(h.header[End(x)]) = 1
  <2>1. g = h
    BY <1>1, <1>3 DEF MergeNext
  <2>2. After(F, End(x)) = {}
    BY <1>2, <1>3 DEF After
  <2>3. Frame(h, h, x, x)
    BY DEF Frame
  <2> QED BY <1>1, <2>1, <2>2, <2>3 DEF NextMerged
<1>4. CASE AllocBit(h.header[End(x)]) # 1
  <2>1. End(x) # Epilogue(h)
    BY <1>4, Places
  <2>2. PICK y \in T : y.at = End(x)
    <3>1. Tiles(T, Epilogue(h)) /\ Epilogue(h) \in Nat
      BY Ends DEF Sound
    <3> QED BY <1>1, <2>1, <3>1, NextBlock
  <2>3. y \in F
    <3>1. y \notin B
      BY <1>4, <2>2 DEF Sound, Allocated
    <3>2. y # x
      BY <1>1, <2>2, BlockIs
    <3> QED BY <2>2, <3>1, <3>2
  <2> DEFINE z == Block(x.at, x.size + y.size)
  <2>4. /\ z \in BlockType /\ z.at = x.at /\ End(z) = End(y) /\ z.size = x.size + y.size
    BY <1>1, <1>2, <2>2, <2>3, Sum
  <2>5. y.at + y.size = End(y)
    BY DEF End
  <2>6. g = Joined(h, y.at, z, Word(z.size, 0, 0))
    BY <1>1, <1>2, <1>4, <2>2, <2>3, <2>4, <2>5 DEF MergeNext, Joined
  <2>7. /\ Sound(g, B, {z}) /\ FreeIn(g) = F \ {y}
        /\ g.pages = h.pages /\ g.fault = h.fault
        /\ g.header = [h.header EXCEPT ![z.at] = Word(z.size, 0, 0)]
        /\ g.footer = [h.footer EXCEPT ![End(z)] = Word(z.size, 0, 0)]
    <3> HIDE DEF z
    <3>1. 0 \in Bit
      BY DEF Bit
    <3> QED BY <2>2, <2>3, <2>4, <2>6, <3>1, JoinSound
  <2>8. After(F, End(x)) = {y}
    <3>1. Tiles(T, Epilogue(h)) /\ Epilogue(h) \in Nat
      BY Ends DEF Sound
    <3>2. \A v \in F : v.at = y.at => v = y
      BY <2>3, <3>1, OneBlock
    <3> QED BY <2>2, <2>3, <3>2 DEF After
  <2>9. After(FreeIn(g), End(z)) = {}
    BY <2>3, <2>4, <2>7 DEF After, Sound, Apart
  <2>10. Frame(h, g, x, z)
    <3>1. h \in HeapType
      BY DEF Sound, Shaped
    <3> HIDE DEF z, g
    <3> QED BY <2>7, <3>1 DEF Frame, HeapType
  <2> QED BY <2>4, <2>7, <2>8, <2>9, <2>10 DEF NextMerged
<1> QED BY <1>3, <1>4

\* The block before c, if its bit says that it is free, can be found.
Found(h, c) == c = 0 \/ h.footer[c] = Data \/ Before(FreeIn(h), c) # {}

\* It has become z by taking in the free block before it, and is filed.
PrevMerged(h, r, B, x, z) ==
    /\ Sound(r, B, {}) /\ Frame(h, r, x, z)
    /\ FreeIn(r) = (FreeIn(h) \ Before(FreeIn(h), x.at)) \cup {z}
    /\ End(z) = End(x)
    /\ \/ Before(FreeIn(h), x.at) = {} /\ z.at = x.at
       \/ \E y \in Before(FreeIn(h), x.at) : z.at = y.at

\* Its second half, when the bit it is given is true and the block before can be found.
LEMMA MergePrevSound ==
  ASSUME NEW h, NEW B, NEW x, Sound(h, B, {x}), After(FreeIn(h), End(x)) = {},
         NEW bit \in Bit, bit = 1 => Before(FreeIn(h), x.at) = {}, bit = 0 => Found(h, x.at)
  PROVE  LET r == MergePrev(h, x.at, bit)
         IN  \/ r.fault = "wild"
             \/ \E z \in BlockType : PrevMerged(h, r, B, x, z)
<1> DEFINE r == MergePrev(h, x.at, bit)
           F == FreeIn(h)
           T == B \cup {x} \cup F
           prev == PrevBlock(h, x.at)
<1>1. /\ x \in {x} /\ x \in T
      /\ x \in BlockType /\ Size(h.header[x.at]) = x.size /\ x.at + x.size = End(x) /\ x.at < End(x)
  <2>1. x \in {x} /\ x \in T
    OBVIOUS
  <2> QED BY <2>1, Places DEF End
<1>2. Tiles(T, Epilogue(h)) /\ Epilogue(h) \in Nat /\ h \in HeapType
  BY Ends DEF Sound, Shaped
<1>3. CASE bit = 1
  <2>1. r = File(h, x.at) /\ Before(F, x.at) = {}
    BY <1>3 DEF MergePrev
  <2>2. \A y \in F : End(y) # x.at /\ y.at # End(x)
    BY <2>1 DEF Before, After
  <2>3. /\ Sound(r, B, {}) /\ FreeIn(r) = F \cup {x}
        /\ r.pages = h.pages /\ r.header = h.header /\ r.footer = h.footer /\ r.fault = h.fault
    BY <2>1, <2>2, FileSound
  <2>4. Frame(h, r, x, x)
    BY <2>3 DEF Frame
  <2> QED BY <1>1, <2>1, <2>3, <2>4 DEF PrevMerged
<1>4. CASE bit = 0 /\ prev \notin Listed(h)
  <2>1. r = [h EXCEPT !.fault = "wild"]
    BY <1>4 DEF MergePrev
  <2> QED BY <1>2, <2>1 DEF HeapType
<1>5. CASE bit = 0 /\ prev \in Listed(h)
  <2>1. prev \in Cells /\ prev # Data /\ h.footer[x.at] # Data
    BY <1>2, <1>5, ListedCells DEF Data, PrevBlock, Cells
  <2>2. x.at # 0
    <3>1. SUFFICES ASSUME x.at = 0
                   PROVE  FALSE
      OBVIOUS
    <3>2. h.footer[x.at] = Word(1, 1, 1)
      BY <3>1 DEF Sound, Shaped
    <3>3. Size(Word(1, 1, 1)) = 1
      BY WordParts DEF Bit
    <3>4. prev = -1
      BY <2>1, <3>1, <3>2, <3>3 DEF PrevBlock
    <3> QED BY <2>1, <3>4 DEF Data
  <2>3. PICK y \in F : End(y) = x.at
    BY <1>5, <2>1, <2>2 DEF Found, Before
  <2>4. y \in T /\ y \in BlockType /\ y.size = Size(h.header[y.at]) /\ h.footer[x.at] = h.header[y.at]
    <3>1. Headed(h, y)
      BY <2>3 DEF Sound
    <3>2. y \in BlockType /\ y.size = Size(h.header[y.at])
      BY <2>3, Places
    <3> QED BY <2>3, <3>1, <3>2 DEF Headed
  <2>5. prev = y.at
    <3>1. y.at \in Nat /\ y.size \in Nat /\ x.at = y.at + y.size
      BY <2>3, <2>4 DEF BlockType, End
    <3> QED BY <2>1, <2>4, <3>1 DEF PrevBlock
  <2>6. PICK p \in Bit : h.header[y.at] = Word(y.size, p, 0)
    BY <2>3 DEF Sound, Headed
  <2> DEFINE z == Block(y.at, y.size + x.size)
             g == Joined(h, y.at, z, Word(z.size, p, 0))
  <2>7. /\ z \in BlockType /\ z.at = y.at /\ End(z) = End(x) /\ z.size = y.size + x.size
    BY <1>1, <2>3, <2>4, Sum
  <2>8. h.header[prev] + M * Size(h.header[x.at]) = Word(z.size, p, 0)
    <3>1. M * y.size + M * x.size = M * (y.size + x.size) /\ M * y.size \in Int /\ M * x.size \in Int
      BY <1>1, <2>4, SfmmAssumption DEF BlockType
    <3> QED BY <1>1, <2>5, <2>6, <2>7, <3>1 DEF Word, Bit
  <2>9. r = File(g, z.at)
    <3> DEFINE s == h.header[prev] + M * Size(h.header[x.at])
               e == x.at + Size(h.header[x.at])
    <3>1. r = File([Unlist(h, prev) EXCEPT !.header[prev] = s, !.footer[e] = s], prev)
      BY <1>5 DEF MergePrev
    <3>2. s = Word(z.size, p, 0) /\ e = End(z) /\ prev = z.at /\ prev = y.at
      BY <1>1, <2>5, <2>7, <2>8
    <3> HIDE DEF s, e, z, prev, r
    <3> QED BY <3>1, <3>2 DEF Joined
  <2>10. \A w \in F : End(w) = x.at => w = y
    BY <1>2, <2>3, OneBlock
  <2>11. \A w \in F \ {y} : End(w) # z.at
    BY <2>3, <2>7 DEF Sound, Apart
  <2>12. /\ Sound(g, B, {z}) /\ FreeIn(g) = F \ {y}
         /\ g.pages = h.pages /\ g.fault = h.fault
         /\ g.header = [h.header EXCEPT ![z.at] = Word(z.size, p, 0)]
         /\ g.footer = [h.footer EXCEPT ![End(z)] = Word(z.size, p, 0)]
    <3> HIDE DEF z
    <3>1. z.size = x.size + y.size
      BY <1>1, <2>4, <2>7 DEF BlockType
    <3> QED BY <2>3, <2>6, <2>7, <2>11, <3>1, JoinSound
  <2> HIDE DEF z, g
  <2>13. \A w \in FreeIn(g) : End(w) # z.at /\ w.at # End(z)
    BY <2>7, <2>11, <2>12 DEF After
  <2>14. /\ Sound(r, B, {}) /\ FreeIn(r) = FreeIn(g) \cup {z}
         /\ r.pages = g.pages /\ r.header = g.header /\ r.footer = g.footer /\ r.fault = g.fault
    BY <2>9, <2>12, <2>13, FileSound
  <2>15. Frame(h, r, x, z)
    <3> HIDE DEF r
    <3> QED BY <1>2, <2>12, <2>14 DEF Frame, HeapType
  <2>16. Before(F, x.at) = {y}
    BY <2>3, <2>10 DEF Before
  <2> QED BY <2>7, <2>12, <2>14, <2>15, <2>16 DEF PrevMerged
<1> QED BY <1>3, <1>4, <1>5 DEF Bit

\* What merge_adjacent_free_blocks makes of a loose block x: the block z.
Merged(h, r, B, x, z) ==
    /\ Sound(r, B, {}) /\ Frame(h, r, x, z)
    /\ FreeIn(r) = (FreeIn(h) \ (Before(FreeIn(h), x.at) \cup After(FreeIn(h), End(x)))) \cup {z}
    /\ \/ Before(FreeIn(h), x.at) = {} /\ z.at = x.at
       \/ \E y \in Before(FreeIn(h), x.at) : z.at = y.at
    /\ \/ After(FreeIn(h), End(x)) = {} /\ End(z) = End(x)
       \/ \E y \in After(FreeIn(h), End(x)) : End(z) = End(y)

\* merge_adjacent_free_blocks.
LEMMA MergeSound ==
  ASSUME NEW h, NEW B, NEW x, Sound(h, B, {x}),
         PrevBit(h.header[x.at]) = 0 => Found(h, x.at)
  PROVE  LET r == Merge(h, x.at)
         IN  r.fault = "wild" \/ \E z \in BlockType : Merged(h, r, B, x, z)
<1> DEFINE g == MergeNext(h, x.at)
           bit == PrevBit(h.header[x.at])
           r == MergePrev(g, x.at, bit)
           F == FreeIn(h)
<1>1. x \in {x} /\ x \in BlockType /\ h.header[x.at] \in Nat /\ x.at \in Cells /\ x.at < End(x)
      /\ \A y \in F : y.at < End(y)
  <2>1. x \in {x}
    OBVIOUS
  <2> QED BY <2>1, Places
<1>2. bit \in Bit
  BY <1>1, Reassembled
<1>a. PICK y \in BlockType : NextMerged(h, g, B, x, y)
  BY MergeNextSound
<1>3. /\ Sound(g, B, {y}) /\ Frame(h, g, x, y)
      /\ y.at = x.at
      /\ FreeIn(g) = F \ After(F, End(x))
      /\ After(FreeIn(g), End(y)) = {}
      /\ \/ After(F, End(x)) = {} /\ End(y) = End(x)
         \/ \E v \in After(F, End(x)) : End(y) = End(v)
  BY <1>a DEF NextMerged
<1> HIDE DEF g, bit
<1>4. Before(FreeIn(g), x.at) = Before(F, x.at)
  <2>1. ASSUME NEW v \in F, End(v) = x.at
        PROVE  v.at # End(x)
    <3>1. v \in BlockType
      BY <2>1, Places
    <3> QED BY <1>1, <2>1, <3>1, BlockIs
  <2> QED BY <1>3, <2>1 DEF Before, After
<1>5. bit = 1 => Before(FreeIn(g), y.at) = {}
  <2>1. \A v \in F : End(v) = x.at => bit = 0
    BY <1>1 DEF Sound, bit
  <2> QED BY <1>3, <1>4, <2>1 DEF Before
<1>6. bit = 0 => Found(g, y.at)
  <2>1. End(y) # x.at
    BY <1>3, BlockIs
  <2> QED BY <1>1, <1>3, <1>4, <2>1 DEF Found, Frame, bit
<1>7. \/ r.fault = "wild"
      \/ \E z \in BlockType : PrevMerged(g, r, B, y, z)
  <2> HIDE DEF r
  <2>1. r = MergePrev(g, y.at, bit)
    BY <1>3 DEF r
  <2> QED BY <1>2, <1>3, <1>5, <1>6, <2>1, MergePrevSound
<1> HIDE DEF r
<1>8. ASSUME NEW z \in BlockType, PrevMerged(g, r, B, y, z)
      PROVE  Merged(h, r, B, x, z)
  <2>1. Frame(h, r, x, z)
    BY <1>3, <1>8 DEF Frame, PrevMerged
  <2>2. FreeIn(r) = (F \ (Before(F, x.at) \cup After(F, End(x)))) \cup {z}
    BY <1>3, <1>4, <1>8 DEF PrevMerged
  <2> QED BY <1>3, <1>4, <1>8, <2>1, <2>2 DEF Merged, PrevMerged
<1>9. Merge(h, x.at) = r
  BY DEF Merge, g, r, bit
<1> QED BY <1>7, <1>8, <1>9

-----------------------------------------------------------------------------
(* A block that changes hands. *)

\* The heap h when the program has the blocks B, and the block x is neither its nor free.
Hole(h, B, x) ==
    /\ Shaped(h) /\ Filed(h)
    /\ Tiles(B \cup {x} \cup FreeIn(h), Epilogue(h))
    /\ x \notin B \cup FreeIn(h)
    /\ \A y \in FreeIn(h) : Headed(h, y)
    /\ \A y \in B : Allocated(h, y)
    /\ h.header[Epilogue(h)] \in {Word(0, 0, 1), Word(0, 1, 1)}
    /\ End(x) # Epilogue(h) => LastBit(h, FreeIn(h))
    /\ NextBit(h, FreeIn(h), B)
    /\ Apart(FreeIn(h))

\* Where the blocks around a hole are.
LEMMA HolePlaces ==
  ASSUME NEW h, NEW B, NEW x, Hole(h, B, x)
  PROVE  /\ Epilogue(h) \in Cells /\ Epilogue(h) \in Nat \ {0} /\ 0 \in Cells /\ h \in HeapType
         /\ \A y \in B \cup {x} \cup FreeIn(h) :
              /\ y \in BlockType /\ y = Block(y.at, y.size) /\ y.at \in Cells /\ End(y) \in Cells
              /\ y.at < End(y) /\ End(y) <= Epilogue(h) /\ y.at # Epilogue(h)
         /\ \A y \in FreeIn(h) :
              h.header[y.at] \in Nat /\ AllocBit(h.header[y.at]) = 0 /\ Size(h.header[y.at]) = y.size
         /\ \A y \in B, v \in FreeIn(h) : y.at # v.at
         /\ \A y \in B \cup FreeIn(h) : y.at # x.at
         /\ \A y, v \in B \cup {x} \cup FreeIn(h) : y.at = v.at \/ End(y) = End(v) => y = v
<1> DEFINE T == B \cup {x} \cup FreeIn(h)
<1>1. Epilogue(h) \in Cells /\ Epilogue(h) \in Nat \ {0} /\ 0 \in Cells /\ h \in HeapType
  BY Ends DEF Hole, Shaped
<1>2. ASSUME NEW y \in T
      PROVE  /\ y \in BlockType /\ y = Block(y.at, y.size) /\ y.at \in Cells /\ End(y) \in Cells
             /\ y.at < End(y) /\ End(y) <= Epilogue(h) /\ y.at # Epilogue(h)
  <2>1. y \in BlockType /\ End(y) <= Epilogue(h)
    BY DEF Hole, Tiles
  <2>2. y.at \in Nat /\ End(y) \in Nat /\ y.at < End(y) /\ y = Block(y.at, y.size)
    BY <2>1, BlockIs
  <2>3. Cells = 0 .. MaxPages * PageUnits - 2 /\ MaxPages * PageUnits \in Int
    BY SfmmAssumption DEF Cells
  <2> QED BY <1>1, <2>1, <2>2, <2>3
<1>3. ASSUME NEW y \in FreeIn(h)
      PROVE  h.header[y.at] \in Nat /\ AllocBit(h.header[y.at]) = 0 /\ Size(h.header[y.at]) = y.size
  <2>1. y.size \in Nat
    BY <1>2 DEF BlockType
  <2>2. PICK p \in Bit : h.header[y.at] = Word(y.size, p, 0)
    BY DEF Hole, Headed
  <2> QED BY <2>1, <2>2, WordParts DEF Bit
<1>4. \A y \in B : AllocBit(h.header[y.at]) = 1
  BY DEF Hole, Allocated
<1>5. \A y, v \in T : y.at = v.at \/ End(y) = End(v) => y = v
  BY <1>1, OneBlock DEF Hole
<1>6. \A y \in B \cup FreeIn(h) : y.at # x.at
  BY <1>5 DEF Hole
<1> QED BY <1>1, <1>2, <1>3, <1>4, <1>5, <1>6

\* The header after a block that becomes free.
Follows(h, B, x, word) ==
    /\ End(x) = Epilogue(h) => word = Word(0, 0, 1)
    /\ \A y \in B : y.at = End(x) => /\ word \in Nat /\ AllocBit(word) = 1
                                     /\ Odd(word) \/ PrevBit(word) = 0
    /\ \A y \in FreeIn(h) : y.at = End(x) => word = Word(y.size, 0, 0)

\* The heap h with x made free and the header after it set to word.
Loosened(h, x, p, word) ==
    LET own  == Word(x.size, p, 0)
        done == [h EXCEPT !.header[x.at] = own, !.header[End(x)] = word, !.footer[End(x)] = own]
    IN  IF AllocBit(word) = 1 THEN done
        ELSE [done EXCEPT !.footer[End(x) + Size(word)] = word]

\* What it keeps and what it changes.
Loose(h, g, B, x, p, word) ==
    /\ Sound(g, B, {x}) /\ FreeIn(g) = FreeIn(h) /\ g.pages = h.pages /\ g.fault = h.fault
    /\ g.header = [h.header EXCEPT ![x.at] = Word(x.size, p, 0), ![End(x)] = word]
    /\ \A c \in Cells : (c # End(x) /\ \A y \in FreeIn(h) : y.at = End(x) => c # End(y))
                       => g.footer[c] = h.footer[c]

\* A hole becomes a loose block.
LEMMA LooseSound ==
  ASSUME NEW h, NEW B, NEW x, Hole(h, B, x), NEW p \in Bit, NEW word \in Nat, Follows(h, B, x, word),
         p = 0 \/ Before(FreeIn(h), x.at) = {}
  PROVE  Loose(h, Loosened(h, x, p, word), B, x, p, word)
<1> DEFINE T == B \cup {x} \cup FreeIn(h)
           own == Word(x.size, p, 0)
           e == End(x)
           g == Loosened(h, x, p, word)
<1>1. /\ Epilogue(h) \in Cells /\ Epilogue(h) \in Nat \ {0} /\ 0 \in Cells /\ h \in HeapType
      /\ \A y \in T : /\ y \in BlockType /\ y = Block(y.at, y.size) /\ y.at \in Cells /\ End(y) \in Cells
                      /\ y.at < End(y) /\ End(y) <= Epilogue(h) /\ y.at # Epilogue(h)
      /\ \A y \in FreeIn(h) :
           h.header[y.at] \in Nat /\ AllocBit(h.header[y.at]) = 0 /\ Size(h.header[y.at]) = y.size
      /\ \A y \in B, v \in FreeIn(h) : y.at # v.at
      /\ \A y \in B \cup FreeIn(h) : y.at # x.at
      /\ \A y, v \in T : y.at = v.at \/ End(y) = End(v) => y = v
  BY HolePlaces
<1>2. x \in T /\ x.size \in Nat \ {0} /\ x.at \in Nat /\ e \in Nat /\ x.at \in Cells /\ e \in Cells /\ x.at < e
      /\ x \in {x}
  BY <1>1, BlockIs
<1>3. own \in Nat /\ PrevBit(own) = p /\ AllocBit(own) = 0 /\ Size(own) = x.size
  BY <1>2, WordParts DEF Bit
<1>4. Tiles(T, Epilogue(h))
  BY DEF Hole
<1>g. \A y \in B : y.at = e => AllocBit(word) = 1
  BY DEF Follows
<1>h. \A y \in B : y.at = e => Odd(word) \/ PrevBit(word) = 0
  BY DEF Follows
<1>f. /\ \A y \in FreeIn(h) : y.at = e => word = Word(y.size, 0, 0)
      /\ e = Epilogue(h) => word = Word(0, 0, 1)
  BY DEF Follows
<1> HIDE DEF T, own, g, e
\* What follows x is the epilogue, a block of the program, or a free block.
<1>5. \/ e = Epilogue(h) /\ word = Word(0, 0, 1) /\ AllocBit(word) = 1 /\ \A y \in T : y.at # e
      \/ \E y \in B : y.at = e /\ AllocBit(word) = 1
      \/ \E y \in FreeIn(h) : y.at = e /\ word = Word(y.size, 0, 0) /\ AllocBit(word) = 0
                              /\ Size(word) = y.size /\ PrevBit(word) = 0
  <2>1. CASE e = Epilogue(h)
    <3>1. word = Word(0, 0, 1) /\ AllocBit(word) = 1
      BY <2>1, WordParts DEF Follows, e, Bit
    <3> QED BY <1>1, <2>1, <3>1
  <2>2. CASE e # Epilogue(h)
    <3>1. PICK y \in T : y.at = e
      BY <1>1, <1>2, <1>4, <2>2, NextBlock DEF e
    <3>2. y # x
      BY <1>2, <3>1
    <3>3. y \in B => AllocBit(word) = 1
      BY <1>g, <3>1
    <3>4. ASSUME y \in FreeIn(h)
          PROVE  /\ word = Word(y.size, 0, 0) /\ AllocBit(word) = 0
                 /\ Size(word) = y.size /\ PrevBit(word) = 0
      <4>1. word = Word(y.size, 0, 0) /\ y.size \in Nat
        BY <1>1, <1>f, <3>1, <3>4 DEF T, BlockType
      <4> QED BY <4>1, WordParts DEF Bit
    <3> QED BY <3>1, <3>2, <3>3, <3>4 DEF T
  <2> QED BY <2>1, <2>2
<1> DEFINE header == [h.header EXCEPT ![x.at] = own, ![e] = word]
<1>6. PICK footer \in [Cells -> Nat \cup {Data}] :
        /\ g = [h EXCEPT !.header = header, !.footer = footer]
        /\ footer[e] = own
        /\ \A y \in FreeIn(h) : y.at = e => footer[End(y)] = word
        /\ \A c \in Cells : (c # e /\ \A y \in FreeIn(h) : y.at = e => c # End(y))
                            => footer[c] = h.footer[c]
  <2> DEFINE f1 == [h.footer EXCEPT ![e] = own]
             done == [h EXCEPT !.header[x.at] = own, !.header[e] = word, !.footer[e] = own]
  <2>0. h.header \in [Cells -> Nat \cup {Data}] /\ h.footer \in [Cells -> Nat \cup {Data}]
    BY <1>1 DEF HeapType
  <2>1. done = [h EXCEPT !.header = header, !.footer = f1] /\ f1 \in [Cells -> Nat \cup {Data}]
    BY <1>1, <1>2, <1>3, <2>0 DEF HeapType
  <2>2. g = IF AllocBit(word) = 1 THEN done ELSE [done EXCEPT !.footer[e + Size(word)] = word]
    BY DEF g, Loosened, own, e
  <2>3. CASE AllocBit(word) = 1
    <3>1. \A y \in FreeIn(h) : y.at # e
      BY <1>1, <1>5, <2>3 DEF T
    <3> HIDE DEF done, header
    <3>2. /\ g = [h EXCEPT !.header = header, !.footer = f1] /\ f1[e] = own
          /\ \A c \in Cells : c # e => f1[c] = h.footer[c]
      BY <1>2, <2>0, <2>1, <2>2, <2>3
    <3> HIDE DEF f1
    <3> QED BY <2>1, <3>1, <3>2
  <2>4. CASE AllocBit(word) # 1
    <3>1. PICK y \in FreeIn(h) : y.at = e /\ Size(word) = y.size
      BY <1>5, <2>4
    <3>2. e + Size(word) = End(y) /\ End(y) \in Cells /\ End(y) # e
      BY <1>1, <3>1 DEF End, T, BlockType
    <3>3. \A v \in FreeIn(h) : v.at = e => v = y
      BY <1>1, <3>1 DEF T
    <3> DEFINE f2 == [f1 EXCEPT ![End(y)] = word]
    <3>4. g = [h EXCEPT !.header = header, !.footer = f2] /\ f2 \in [Cells -> Nat \cup {Data}]
      <4> HIDE DEF header
      <4>1. g = [done EXCEPT !.footer[End(y)] = word]
        BY <2>2, <2>4, <3>2
      <4> HIDE DEF done, f1
      <4>2. done.footer = f1
        BY <1>1, <2>1 DEF HeapType
      <4> QED BY <1>1, <2>1, <3>2, <4>1, <4>2 DEF HeapType
    <3>5. /\ f2[e] = own /\ f2[End(y)] = word
          /\ \A c \in Cells : c # e /\ c # End(y) => f2[c] = h.footer[c]
      BY <1>2, <2>0, <2>1, <3>2
    <3> HIDE DEF f2, header
    <3> QED BY <3>1, <3>3, <3>4, <3>5
  <2> QED BY <2>3, <2>4
<1>7. /\ header \in [Cells -> Nat \cup {Data}] /\ header[x.at] = own /\ header[e] = word
      /\ \A c \in Cells : c # x.at /\ c # e => header[c] = h.header[c]
  <2>1. h.header \in [Cells -> Nat \cup {Data}]
    BY <1>1 DEF HeapType
  <2> QED BY <1>2, <1>3, <2>1
<1> HIDE DEF header
<1>8. /\ g \in HeapType /\ g.header = header /\ g.footer = footer /\ g.lists = h.lists
      /\ g.pages = h.pages /\ g.fault = h.fault
  BY <1>1, <1>6, <1>7 DEF HeapType
<1>9. Listed(g) = Listed(h) /\ Epilogue(g) = Epilogue(h) /\ Once(g)
  BY <1>8 DEF Listed, Epilogue, Hole, Filed, Once
<1>10. \A y \in FreeIn(h) : Size(header[y.at]) = y.size
  BY <1>1, <1>5, <1>7 DEF T
<1>11. \A c \in Listed(h) : c \in Cells /\ Size(header[c]) = Size(h.header[c])
  <2>1. ASSUME NEW c \in Listed(h)
        PROVE  c \in Cells /\ Size(header[c]) = Size(h.header[c])
    <3>1. PICK y \in FreeIn(h) : y.at = c
      BY FreeBlocksOf
    <3> QED BY <1>1, <1>10, <3>1 DEF T
  <2> QED BY <2>1
<1>12. FreeIn(g) = FreeIn(h)
  BY <1>8, <1>9, <1>11 DEF FreeIn
<1>13. Shaped(g)
  <2>1. e # 0 /\ \A y \in FreeIn(h) : End(y) # 0
    BY <1>1, <1>2 DEF T, Cells
  <2>2. footer[0] = h.footer[0]
    BY <1>1, <1>6, <2>1
  <2> QED BY <1>8, <2>2 DEF Hole, Shaped
<1>14. Filed(g)
  <2>1. ASSUME NEW i \in 0 .. 9, NEW c \in Range(h.lists[i])
        PROVE  i = Own(g, c)
    <3>1. c \in Listed(h)
      BY <1>1, ListedCells
    <3>2. i = Own(h, c)
      BY DEF Hole, Filed
    <3> QED BY <1>8, <1>9, <1>11, <3>1, <3>2 DEF Own, IsWilderness
  <2> QED BY <1>8, <1>9, <2>1 DEF Filed
<1>15. \A v \in {x} : v.at \notin Listed(g)
  <2>1. x.at \notin Listed(h)
    BY <1>1, FreeBlocksOf
  <2> QED BY <1>9, <2>1
<1>16. \A v \in {x} \cup FreeIn(g) : Headed(g, v)
  <2>1. Headed(g, x)
    BY <1>6, <1>7, <1>8 DEF Headed, own, e
  <2>2. ASSUME NEW v \in FreeIn(h)
        PROVE  Headed(g, v)
    <3>1. v \in T /\ x \in T /\ v.at # x.at /\ End(v) # e
      BY <1>1, <1>2 DEF T, e
    <3>2. CASE v.at = e
      <4>1. word = Word(v.size, 0, 0) /\ footer[End(v)] = word /\ header[v.at] = word
        BY <1>6, <1>7, <1>f, <3>2
      <4> QED BY <1>8, <4>1 DEF Headed, Bit
    <3>3. CASE v.at # e
      <4>1. \A y \in FreeIn(h) : y.at = e => End(v) # End(y)
        BY <1>1, <3>3 DEF T
      <4>2. footer[End(v)] = h.footer[End(v)] /\ header[v.at] = h.header[v.at]
        BY <1>1, <1>6, <1>7, <3>1, <3>3, <4>1
      <4> QED BY <1>8, <4>2 DEF Headed, Hole
    <3> QED BY <3>2, <3>3
  <2> QED BY <1>12, <2>1, <2>2
<1>17. ASSUME NEW v \in B
       PROVE  Allocated(g, v) /\ (v.at # e => g.header[v.at] = h.header[v.at])
  <2>1. v.at # x.at /\ v.at \in Cells
    BY <1>1 DEF T
  <2>2. v.at = e => header[v.at] \in Nat /\ AllocBit(header[v.at]) = 1
    BY <1>7, <1>g
  <2> QED BY <1>7, <1>8, <2>1, <2>2 DEF Hole, Allocated
<1>18. LastBit(g, {x} \cup FreeIn(g))
  <2>1. CASE e = Epilogue(h)
    BY <1>2, <1>5, <1>7, <1>8, <1>9, <2>1 DEF LastBit, e, T, Follows
  <2>2. CASE e # Epilogue(h)
    <3>1. header[Epilogue(h)] = h.header[Epilogue(h)]
      BY <1>1, <1>2, <1>7, <2>2
    <3>2. (\E y \in {x} \cup FreeIn(h) : End(y) = Epilogue(h)) <=> \E y \in FreeIn(h) : End(y) = Epilogue(h)
      BY <2>2 DEF e
    <3> QED BY <1>8, <1>9, <1>12, <2>2, <3>1, <3>2 DEF LastBit, Hole, e
  <2> QED BY <2>1, <2>2
<1>19. NextBit(g, {x} \cup FreeIn(g), B)
  <2>1. ASSUME NEW v \in FreeIn(h), NEW y \in B, End(v) = y.at
        PROVE  Odd(g.header[y.at]) \/ PrevBit(g.header[y.at]) = 0
    <3>1. y.at # e
      BY <1>1, <1>2, <2>1 DEF T, e
    <3> QED BY <1>17, <2>1, <3>1 DEF Hole, NextBit
  <2>2. ASSUME NEW y \in B, e = y.at
        PROVE  Odd(g.header[y.at]) \/ PrevBit(g.header[y.at]) = 0
    BY <1>7, <1>8, <1>h, <2>2
  <2> QED BY <1>12, <2>1, <2>2 DEF NextBit, e
<1>20. \A v \in FreeIn(g), y \in {x} : End(v) = y.at => PrevBit(g.header[y.at]) = 0
  BY <1>3, <1>7, <1>8, <1>12 DEF Before
<1>21. Tiles(B \cup {x} \cup FreeIn(g), Epilogue(g)) /\ Apart(FreeIn(g))
  BY <1>9, <1>12 DEF Hole
<1>22. Sound(g, B, {x})
  BY <1>13, <1>14, <1>15, <1>16, <1>17, <1>18, <1>19, <1>20, <1>21 DEF Sound
<1> QED BY <1>6, <1>8, <1>12, <1>22 DEF g, header, own, e, Loose

Marked(h, c) == PrevBit(h.header[c]) = 0 => Found(h, c)

\* What the blocks of the program keep from h to r.
Keeps(h, r, B) ==
    \A y \in B :
        /\ \A n \in Nat \ {0} : Measures(h.header[y.at], n) => Measures(r.header[y.at], n)
        /\ Marked(h, y.at) => Marked(r, y.at)

\* The heap r in which the block x of h has been made free.
Freed(h, r, B, x) ==
    /\ Sound(r, B, {}) /\ Keeps(h, r, B) /\ r.pages = h.pages /\ r.fault = h.fault
    /\ \A y \in B : IF y.at = End(x) THEN Marked(r, y.at) ELSE r.header[y.at] = h.header[y.at]
    /\ Before(FreeIn(h), x.at) = {} /\ After(FreeIn(h), End(x)) = {} => FreeIn(r) = FreeIn(h) \cup {x}

\* A hole that is made free, coalesced and filed.
LEMMA FreedSound ==
  ASSUME NEW h, NEW B, NEW x, Hole(h, B, x), NEW p \in Bit, NEW word \in Nat, Follows(h, B, x, word),
         p = 0 \/ Before(FreeIn(h), x.at) = {},
         p = 0 => Found(h, x.at),
         \A y \in B : \A n \in Nat \ {0} :
             y.at = End(x) /\ Measures(h.header[End(x)], n) => Measures(word, n)
  PROVE  LET r == Merge(Loosened(h, x, p, word), x.at)
         IN  r.fault = "wild" \/ Freed(h, r, B, x)
<1> DEFINE g == Loosened(h, x, p, word)
           r == Merge(g, x.at)
           F == FreeIn(h)
           T == B \cup {x} \cup F
<1>1. /\ h \in HeapType
      /\ \A y \in T : /\ y \in BlockType /\ y = Block(y.at, y.size) /\ y.at \in Cells /\ End(y) \in Cells
                      /\ y.at < End(y)
      /\ \A y \in B, v \in F : y.at # v.at
      /\ \A y \in B : y.at # x.at
      /\ \A y, v \in T : y.at = v.at \/ End(y) = End(v) => y = v
  BY HolePlaces
<1>2. x \in T /\ x \in BlockType /\ x.at \in Nat /\ End(x) \in Nat /\ x.at < End(x) /\ x.at \in Cells
      /\ End(x) \in Cells /\ x.size \in Nat
  BY <1>1, BlockIs
<1>3. /\ Sound(g, B, {x}) /\ FreeIn(g) = F /\ g.pages = h.pages /\ g.fault = h.fault
      /\ g.header = [h.header EXCEPT ![x.at] = Word(x.size, p, 0), ![End(x)] = word]
      /\ \A c \in Cells : (c # End(x) /\ \A y \in F : y.at = End(x) => c # End(y))
                          => g.footer[c] = h.footer[c]
  <2>1. Loose(h, g, B, x, p, word)
    BY LooseSound
  <2> QED BY <2>1 DEF Loose
<1> HIDE DEF g, F, T
<1>4. /\ g.header[x.at] = Word(x.size, p, 0) /\ g.header[End(x)] = word
      /\ \A c \in Cells : c # x.at /\ c # End(x) => g.header[c] = h.header[c]
  <2>1. h.header \in [Cells -> Nat \cup {Data}]
    BY <1>1 DEF HeapType
  <2>2. x.at # End(x)
    BY <1>2
  <2> QED BY <1>2, <1>3, <2>1, <2>2
<1>5. PrevBit(g.header[x.at]) = 0 => Found(g, x.at)
  <2>1. PrevBit(g.header[x.at]) = p
    BY <1>2, <1>4, WordParts DEF Bit
  <2>2. \A y \in F : y.at = End(x) => x.at # End(y)
    BY <1>1, <1>2, BlockIs DEF T
  <2>3. g.footer[x.at] = h.footer[x.at]
    BY <1>2, <1>3, <2>2
  <2> QED BY <1>3, <2>1, <2>3 DEF Found, F
<1>6. r.fault = "wild" \/ \E z \in BlockType : Merged(g, r, B, x, z)
  BY <1>3, <1>5, MergeSound
<1> HIDE DEF r
<1>7. ASSUME NEW z \in BlockType, Merged(g, r, B, x, z)
      PROVE  Freed(h, r, B, x)
  <2>1. /\ Sound(r, B, {})
        /\ r.pages = g.pages /\ r.fault = g.fault
        /\ \A c \in Cells : c \notin {x.at, z.at} => r.header[c] = g.header[c]
        /\ \A c \in Cells : c # End(z) => r.footer[c] = g.footer[c]
        /\ FreeIn(r) = (F \ (Before(F, x.at) \cup After(F, End(x)))) \cup {z}
        /\ \/ Before(F, x.at) = {} /\ z.at = x.at
           \/ \E y \in Before(F, x.at) : z.at = y.at
        /\ \/ After(F, End(x)) = {} /\ End(z) = End(x)
           \/ \E y \in After(F, End(x)) : End(z) = End(y)
    BY <1>3, <1>7 DEF Merged, Frame
  <2>2. ASSUME NEW y \in B
        PROVE  /\ y.at \in Cells /\ y.at # x.at /\ y.at # z.at
               /\ r.header[y.at] = g.header[y.at]
               /\ y.at # End(x) => r.header[y.at] = h.header[y.at]
               /\ y.at = End(x) => r.header[y.at] = word
    <3>1. y.at \in Cells /\ y.at # x.at /\ y.at # z.at
      BY <1>1, <2>1 DEF T, Before
    <3> QED BY <1>4, <2>1, <3>1
  <2>3. ASSUME NEW y \in B, Marked(h, y.at) \/ y.at = End(x)
        PROVE  Marked(r, y.at)
    <3>1. z \in FreeIn(r)
      BY <2>1
    <3>2. CASE y.at = End(z)
      BY <3>1, <3>2 DEF Marked, Found, Before
    <3>3. CASE y.at # End(z)
      <4>1. \A v \in F : v.at = End(x) => After(F, End(x)) = {v}
        BY <1>1 DEF After, T
      <4>2. y.at # End(x)
        BY <1>1, <2>1, <3>3 DEF After
      <4>3. \A v \in F : v.at = End(x) => y.at # End(v)
        BY <2>1, <3>3, <4>1
      <4>4. r.footer[y.at] = h.footer[y.at] /\ r.header[y.at] = h.header[y.at]
        BY <1>3, <2>1, <2>2, <3>3, <4>2, <4>3
      <4>5. ASSUME NEW v \in F, End(v) = y.at
            PROVE  v \in FreeIn(r)
        BY <2>1, <2>2, <4>3, <4>5 DEF Before, After
      <4>6. Marked(h, y.at)
        BY <2>3, <4>2
      <4> QED BY <4>4, <4>5, <4>6 DEF Marked, Found, Before, F
    <3> QED BY <3>2, <3>3
  <2>4. Keeps(h, r, B)
    BY <2>2, <2>3 DEF Keeps
  <2>5. Before(F, x.at) = {} /\ After(F, End(x)) = {} => FreeIn(r) = F \cup {x}
    <3>1. ASSUME z.at = x.at, End(z) = End(x)
          PROVE  z = x
      BY <1>2, <3>1 DEF BlockType, End
    <3> QED BY <2>1, <3>1
  <2> QED BY <1>3, <2>1, <2>2, <2>3, <2>4, <2>5 DEF Freed, F
<1> QED BY <1>6, <1>7 DEF r, g

\* Another prev-allocated bit in a header.
LEMMA Rebit ==
  ASSUME NEW w \in Nat, NEW q \in Bit
  PROVE  LET v == Bytes(w) + 2 * q + AllocBit(w)
         IN  /\ v \in Nat /\ Bytes(v) = Bytes(w) /\ PrevBit(v) = q /\ AllocBit(v) = AllocBit(w)
             /\ Size(v) = Size(w) /\ (Odd(v) <=> Odd(w))
             /\ Word(0, q, AllocBit(w)) + Bytes(w) = v /\ Word(0, q, 0) + Bytes(w) + AllocBit(w) = v
<1> DEFINE v == Bytes(w) + 2 * q + AllocBit(w)
<1>1. /\ Bytes(w) \in Nat /\ Bytes(w) % 4 = 0 /\ PrevBit(w) \in Bit /\ AllocBit(w) \in Bit
  BY Reassembled
<1>2. PICK r \in Nat : Bytes(w) = 4 * r
  BY <1>1
<1>3. v = 4 * r + 2 * q + AllocBit(w) /\ v \in Nat
  BY <1>1, <1>2 DEF Bit
<1>4. v - (v % 4) = 4 * r /\ (v \div 2) % 2 = q /\ v % 2 = AllocBit(w)
  BY <1>1, <1>3, Quarter
<1> HIDE DEF v
<1>5. Bytes(v) = Bytes(w) /\ PrevBit(v) = q /\ AllocBit(v) = AllocBit(w)
  <2>1. Bytes(v) = 4 * r /\ PrevBit(v) = q
    BY <1>4 DEF Bytes, PrevBit
  <2>2. AllocBit(v) = AllocBit(w)
    BY <1>4 DEF AllocBit
  <2> QED BY <1>2, <2>1, <2>2
<1>6. Size(v) = Size(w) /\ (Odd(v) <=> Odd(w))
  BY <1>5 DEF Size, Odd
<1>7. M * 0 = 0
  BY SfmmAssumption
<1>8. Word(0, q, AllocBit(w)) + Bytes(w) = v /\ Word(0, q, 0) + Bytes(w) + AllocBit(w) = v
  BY <1>1, <1>7 DEF Word, v, Bit
<1> QED BY <1>3, <1>5, <1>6, <1>8 DEF v

\* The last header.
LEMMA EndWord ==
  ASSUME NEW w, w \in {Word(0, 0, 1), Word(0, 1, 1)}, NEW q \in Bit
  PROVE  w \in Nat /\ AllocBit(w) = 1 /\ Bytes(w) + 2 * q + AllocBit(w) = Word(0, q, 1)
<1>1. PICK p \in Bit : w = Word(0, p, 1)
  BY DEF Bit
<1>2. w \in Nat /\ Bytes(w) = M * 0 /\ AllocBit(w) = 1
  BY <1>1, WordParts DEF Bit
<1>3. M * 0 = 0
  BY SfmmAssumption
<1> QED BY <1>2, <1>3 DEF Word, Bit

\* What a header of a block that is not free means to the lists.
LEMMA Stamped ==
  ASSUME NEW h \in HeapType, NEW H \in [Cells -> Nat \cup {Data}],
         \A c \in Listed(h) : H[c] = h.header[c]
  PROVE  LET g == [h EXCEPT !.header = H]
         IN  /\ g \in HeapType /\ g.header = H /\ g.footer = h.footer /\ g.lists = h.lists
             /\ g.pages = h.pages /\ g.fault = h.fault
             /\ Epilogue(g) = Epilogue(h) /\ Listed(g) = Listed(h) /\ FreeIn(g) = FreeIn(h)
             /\ (Shaped(h) => Shaped(g)) /\ (Filed(h) => Filed(g))
<1> DEFINE g == [h EXCEPT !.header = H]
<1>1. /\ g \in HeapType /\ g.header = H /\ g.footer = h.footer /\ g.lists = h.lists
      /\ g.pages = h.pages /\ g.fault = h.fault
  BY DEF HeapType
<1> HIDE DEF g
<1>2. Epilogue(g) = Epilogue(h) /\ Listed(g) = Listed(h)
  BY <1>1 DEF Epilogue, Listed
<1>3. FreeIn(g) = FreeIn(h)
  BY <1>1, <1>2 DEF FreeIn
<1>4. Shaped(h) => Shaped(g)
  BY <1>1 DEF Shaped
<1>5. Filed(h) => Filed(g)
  <2>1. ASSUME Filed(h), NEW i \in 0 .. 9, NEW c \in Range(h.lists[i])
        PROVE  i = Own(g, c)
    <3>1. c \in Listed(h)
      BY ListedCells
    <3> QED BY <1>1, <1>2, <2>1, <3>1 DEF Filed, Own, IsWilderness
  <2> QED BY <1>1, <2>1 DEF Filed, Once
<1> QED BY <1>1, <1>2, <1>3, <1>4, <1>5 DEF g

\* A free block that is taken from its list.
Unfiled(h, u, B, x) ==
    /\ Hole(u, B, x) /\ FreeIn(u) = FreeIn(h) \ {x}
    /\ u.header = h.header /\ u.footer = h.footer /\ u.pages = h.pages /\ u.fault = h.fault
    /\ Before(FreeIn(u), x.at) = {} /\ After(FreeIn(u), End(x)) = {}

\* A free block leaves a hole when it is taken from its list.
LEMMA HoleOfFree ==
  ASSUME NEW h, NEW B, Sound(h, B, {}), NEW x \in FreeIn(h)
  PROVE  Unfiled(h, Unlist(h, x.at), B, x)
<1> DEFINE u == Unlist(h, x.at)
           F == FreeIn(h)
<1>0. {} \cup F = F /\ B \cup {} \cup F = B \cup F
  OBVIOUS
<1>1. /\ h \in HeapType /\ Once(h) /\ Shaped(h) /\ Filed(h) /\ Tiles(B \cup F, Epilogue(h))
      /\ (\A y \in F : Headed(h, y)) /\ (\A y \in B : Allocated(h, y))
      /\ LastBit(h, F) /\ NextBit(h, F, B) /\ Apart(F)
  BY <1>0 DEF Sound, Shaped, Filed
<1>2. /\ u \in HeapType /\ Once(u)
      /\ u.pages = h.pages /\ u.header = h.header /\ u.footer = h.footer /\ u.fault = h.fault
      /\ \A i \in 0 .. 9 : Range(u.lists[i]) = Range(h.lists[i]) \ {x.at}
      /\ Listed(u) = Listed(h) \ {x.at}
  BY <1>1, Unlisted
<1> HIDE DEF u
<1>3. FreeIn(u) = F \ {x}
  <2>1. ASSUME NEW y \in F
        PROVE  y \in FreeIn(u) <=> y # x
    <3>1. y.at \in Listed(h) /\ y = Block(y.at, Size(h.header[y.at]))
          /\ x = Block(x.at, Size(h.header[x.at]))
      BY FreeBlocksOf
    <3>2. y # x => y \in FreeIn(u)
      BY <1>2, <3>1 DEF FreeIn
    <3>3. y \in FreeIn(u) => y.at \in Listed(u)
      BY FreeBlocksOf
    <3> QED BY <1>2, <3>2, <3>3
  <2>2. FreeIn(u) \subseteq F
    BY <1>2 DEF FreeIn
  <2> QED BY <2>1, <2>2
<1> HIDE DEF F
<1>4. Epilogue(u) = Epilogue(h)
  BY <1>2 DEF Epilogue
<1>5. Shaped(u) /\ Filed(u)
  <2>1. ASSUME NEW i \in 0 .. 9, NEW c \in Range(u.lists[i])
        PROVE  i = Own(u, c)
    BY <1>1, <1>2, <1>4 DEF Filed, Own, IsWilderness
  <2> QED BY <1>1, <1>2, <2>1 DEF Filed, Shaped
<1>6. Tiles(B \cup {x} \cup FreeIn(u), Epilogue(u))
  <2>1. B \cup {x} \cup FreeIn(u) = B \cup F
    BY <1>3 DEF F
  <2> QED BY <1>1, <1>4, <2>1
<1>7. x \notin B \cup FreeIn(u)
  <2>1. \A y \in B : y.at # x.at
    BY Places
  <2> QED BY <1>3, <2>1
<1>8. (\A y \in FreeIn(u) : Headed(u, y)) /\ (\A y \in B : Allocated(u, y))
  BY <1>1, <1>2, <1>3 DEF Headed, Allocated
<1>9. h.header[Epilogue(h)] \in {Word(0, 0, 1), Word(0, 1, 1)}
  BY <1>1 DEF LastBit
<1>10. End(x) # Epilogue(u) => LastBit(u, FreeIn(u))
  BY <1>1, <1>2, <1>3, <1>4 DEF LastBit
<1>11. NextBit(u, FreeIn(u), B) /\ Apart(FreeIn(u))
  BY <1>1, <1>2, <1>3 DEF NextBit, Apart
<1>12. Hole(u, B, x)
  BY <1>2, <1>4, <1>5, <1>6, <1>7, <1>8, <1>9, <1>10, <1>11 DEF Hole
<1>13. Before(FreeIn(u), x.at) = {} /\ After(FreeIn(u), End(x)) = {}
  BY <1>1, <1>3 DEF Before, After, Apart, F
<1> QED BY <1>2, <1>3, <1>12, <1>13 DEF Unfiled, u, F

\* A block that the program gives up leaves one.
LEMMA HoleOfHeld ==
  ASSUME NEW h, NEW B, NEW x, x \notin B, Sound(h, B \cup {x}, {})
  PROVE  Hole(h, B, x)
<1> DEFINE F == FreeIn(h)
<1>1. {} \cup F = F /\ B \cup {x} \cup {} \cup F = B \cup {x} \cup F
  OBVIOUS
<1>2. /\ Shaped(h) /\ Filed(h) /\ Tiles(B \cup {x} \cup F, Epilogue(h))
      /\ (\A y \in F : Headed(h, y)) /\ (\A y \in B : Allocated(h, y))
      /\ LastBit(h, F) /\ NextBit(h, F, B) /\ Apart(F)
  BY <1>1 DEF Sound, NextBit
<1>3. x \notin F
  BY Places
<1>4. h.header[Epilogue(h)] \in {Word(0, 0, 1), Word(0, 1, 1)}
  BY <1>2 DEF LastBit
<1> QED BY <1>2, <1>3, <1>4 DEF Hole

-----------------------------------------------------------------------------
(* A block of the program, cut from a hole. *)

\* The header of the part x of a hole is made that of a block of the program.
Cut(u, h, B, x, y, p) ==
    /\ Hole(h, B \cup {x}, y) /\ x \notin B /\ FreeIn(h) = FreeIn(u) /\ Epilogue(h) = Epilogue(u)
    /\ h.header[x.at] = Word(x.size, p, 1) /\ h.footer = u.footer
    /\ h.pages = u.pages /\ h.fault = u.fault
    /\ \A c \in Cells : c # x.at => h.header[c] = u.header[c]
    /\ \A v \in B : v.at \in Cells /\ v.at # x.at

\* A hole is cut in two, the first part for the program.
LEMMA SplitHole ==
  ASSUME NEW u, NEW B, NEW b \in Nat, NEW s \in Nat \ {0}, NEW r \in Nat \ {0},
         Hole(u, B, Block(b, s + r)), NEW p \in Bit, p = 0 \/ Before(FreeIn(u), b) = {}
  PROVE  Cut(u, [u EXCEPT !.header[b] = Word(s, p, 1)], B, Block(b, s), Block(b + s, r), p)
<1> DEFINE w == Block(b, s + r)
           x == Block(b, s)
           y == Block(b + s, r)
           H == [u.header EXCEPT ![b] = Word(s, p, 1)]
           h == [u EXCEPT !.header = H]
           F == FreeIn(u)
<1>1. /\ x \in BlockType /\ x.at = b /\ x.size = s /\ End(x) = b + s
      /\ y \in BlockType /\ y.at = b + s /\ End(y) = b + s + r
      /\ w \in BlockType /\ w.at = b /\ End(w) = b + s + r
      /\ b < b + s /\ b + s < b + s + r /\ b + s \in Nat
  <2>1. b + s \in Nat /\ s + r \in Nat \ {0} /\ b + (s + r) = b + s + r
    OBVIOUS
  <2>2. x \in BlockType /\ x.at = b /\ x.size = s /\ End(x) = b + s
    BY BlockFields
  <2>3. y \in BlockType /\ y.at = b + s /\ End(y) = b + s + r
    BY <2>1, BlockFields
  <2>4. w \in BlockType /\ w.at = b /\ End(w) = b + s + r
    BY <2>1, BlockFields
  <2> QED BY <2>1, <2>2, <2>3, <2>4
<1>2. Hole(u, B, w) /\ h = [u EXCEPT !.header[b] = Word(s, p, 1)]
  OBVIOUS
<1> HIDE DEF w, x, y
<1>3. /\ Epilogue(u) \in Cells /\ Epilogue(u) \in Nat \ {0} /\ 0 \in Cells /\ u \in HeapType
      /\ b \in Cells /\ b # Epilogue(u)
      /\ \A v \in B : v.at \in Cells /\ v.at # b /\ v \in BlockType
      /\ \A v \in F : v.at # b /\ End(v) # End(w) /\ v \in BlockType
      /\ w \notin B \cup F
  <2>1. /\ Epilogue(u) \in Cells /\ Epilogue(u) \in Nat \ {0} /\ 0 \in Cells /\ u \in HeapType
        /\ \A v \in B \cup {w} \cup F : v \in BlockType /\ v.at \in Cells /\ v.at # Epilogue(u)
        /\ \A v \in B \cup F : v.at # w.at
        /\ \A v, z \in B \cup {w} \cup F : v.at = z.at \/ End(v) = End(z) => v = z
    BY <1>2, HolePlaces
  <2>2. w \notin B \cup F
    BY <1>2 DEF Hole
  <2>3. \A v \in F : End(v) # End(w)
    BY <2>1, <2>2
  <2> QED BY <1>1, <2>1, <2>2, <2>3
<1>4. Tiles(B \cup {x} \cup {y} \cup F, Epilogue(u))
  <2>1. Tiles(B \cup {w} \cup F, Epilogue(u)) /\ w \in B \cup {w} \cup F
    BY <1>2 DEF Hole
  <2>2. Tiles(((B \cup {w} \cup F) \ {w}) \cup {x, y}, Epilogue(u))
    BY <1>3, <2>1, SplitTile DEF w, x, y
  <2>3. ((B \cup {w} \cup F) \ {w}) \cup {x, y} = B \cup {x} \cup {y} \cup F
    BY <1>3
  <2> QED BY <2>2, <2>3
<1>5. /\ H \in [Cells -> Nat \cup {Data}] /\ H[b] = Word(s, p, 1)
      /\ \A c \in Cells : c # b => H[c] = u.header[c]
  <2>1. u.header \in [Cells -> Nat \cup {Data}]
    BY <1>3 DEF HeapType
  <2>2. Word(s, p, 1) \in Nat
    BY WordParts DEF Bit
  <2> QED BY <1>3, <2>1, <2>2
<1>6. \A c \in Listed(u) : H[c] = u.header[c]
  <2>1. b \notin Listed(u)
    BY <1>3, FreeBlocksOf
  <2> QED BY <1>3, <1>5, <2>1, ListedCells
<1> HIDE DEF H
<1>7. /\ h \in HeapType /\ h.header = H /\ h.footer = u.footer /\ h.lists = u.lists
      /\ h.pages = u.pages /\ h.fault = u.fault
      /\ Epilogue(h) = Epilogue(u) /\ Listed(h) = Listed(u) /\ FreeIn(h) = F
      /\ (Shaped(u) => Shaped(h)) /\ (Filed(u) => Filed(h))
  BY <1>3, <1>5, <1>6, Stamped
<1> HIDE DEF h, F
<1>8. Shaped(h) /\ Filed(h)
  BY <1>2, <1>7 DEF Hole
<1>9. Tiles((B \cup {x}) \cup {y} \cup FreeIn(h), Epilogue(h))
  BY <1>4, <1>7
<1>10. y \notin (B \cup {x}) \cup FreeIn(h)
  <2>1. \A v \in B \cup F : v # y
    <3>1. ASSUME y \in B \cup F
          PROVE  FALSE
      <4>1. Tiles(B \cup {w} \cup F, Epilogue(u)) /\ y \in B \cup {w} \cup F /\ w \in B \cup {w} \cup F
        BY <1>2, <3>1 DEF Hole, F
      <4>2. y = w
        BY <1>1, <1>3, <4>1, OneBlock
      <4> QED BY <1>1, <4>2
    <3> QED BY <3>1
  <2> QED BY <1>1, <1>7, <2>1
<1>11. \A v \in FreeIn(h) : Headed(h, v)
  <2>1. ASSUME NEW v \in F
        PROVE  h.header[v.at] = u.header[v.at] /\ h.footer[End(v)] = u.footer[End(v)]
    <3>1. v.at \in Cells
      BY <1>2, HolePlaces DEF F
    <3> QED BY <1>3, <1>5, <1>7, <3>1
  <2> QED BY <1>2, <1>7, <2>1 DEF Hole, Headed, F
<1>12. \A v \in B \cup {x} : Allocated(h, v)
  <2>1. Allocated(h, x)
    <3>1. x.size \in Nat /\ 1 \in Bit
      BY <1>1 DEF Bit
    <3>2. Word(x.size, p, 1) \in Nat /\ AllocBit(Word(x.size, p, 1)) = 1
      BY <3>1, WordParts
    <3> QED BY <1>1, <1>5, <1>7, <3>2 DEF Allocated
  <2>2. \A v \in B : Allocated(h, v)
    BY <1>2, <1>3, <1>5, <1>7 DEF Hole, Allocated
  <2> QED BY <2>1, <2>2
<1>13. h.header[Epilogue(h)] = u.header[Epilogue(u)]
  BY <1>3, <1>5, <1>7
<1>14. End(y) # Epilogue(h) => LastBit(h, FreeIn(h))
  BY <1>1, <1>2, <1>7, <1>13 DEF Hole, LastBit, F
<1>15. NextBit(h, FreeIn(h), B \cup {x})
  <2>1. ASSUME NEW v \in F, End(v) = x.at
        PROVE  PrevBit(h.header[x.at]) = 0
    <3>1. p = 0
      BY <1>1, <2>1 DEF Before, F
    <3> QED BY <1>1, <1>5, <1>7, <3>1, WordParts DEF Bit
  <2>2. \A v \in B : h.header[v.at] = u.header[v.at]
    BY <1>3, <1>5, <1>7
  <2> QED BY <1>2, <1>7, <2>1, <2>2 DEF Hole, NextBit, F
<1>16. h.header[Epilogue(h)] \in {Word(0, 0, 1), Word(0, 1, 1)} /\ Apart(FreeIn(h))
  BY <1>2, <1>7, <1>13 DEF Hole, F
<1>17. Hole(h, B \cup {x}, y)
  BY <1>8, <1>9, <1>10, <1>11, <1>12, <1>14, <1>15, <1>16 DEF Hole
<1>18. x \notin B
  BY <1>1, <1>3
<1> QED BY <1>1, <1>2, <1>3, <1>5, <1>7, <1>17, <1>18 DEF Cut, F, x, y

\* The heap r in which the program has been given the block x.
Given(u, r, B, x, p) ==
    /\ Sound(r, B \cup {x}, {}) /\ x \notin B /\ Keeps(u, r, B) /\ r.pages = u.pages /\ r.fault = u.fault
    /\ r.header[x.at] = Word(x.size, p, 1)
    /\ (p = 0 => Found(u, x.at)) => Marked(r, x.at)

\* A hole that becomes a block of the program, and a prev-allocated bit after it.
Filled(u, x, p) ==
    [u EXCEPT !.header[x.at] = Word(x.size, p, 1),
              !.header[End(x)] = Word(0, 1, 0) + Bytes(@) + AllocBit(@)]

\* The whole of a hole is given to the program.
LEMMA FillSound ==
  ASSUME NEW u, NEW B, NEW x, Hole(u, B, x), NEW p \in Bit, p = 0 \/ Before(FreeIn(u), x.at) = {},
         After(FreeIn(u), End(x)) = {}
  PROVE  /\ Given(u, Filled(u, x, p), B, x, p) /\ FreeIn(Filled(u, x, p)) = FreeIn(u)
         /\ \A y \in B : y.at = End(x) => Marked(Filled(u, x, p), y.at)
<1> DEFINE e == End(x)
           own == Word(x.size, p, 1)
           v0 == u.header[e]
           nw == Bytes(v0) + 2 * 1 + AllocBit(v0)
           H == [u.header EXCEPT ![x.at] = own, ![e] = nw]
           h == [u EXCEPT !.header = H]
           F == FreeIn(u)
           T == B \cup {x} \cup F
<1>1. /\ Epilogue(u) \in Cells /\ Epilogue(u) \in Nat \ {0} /\ 0 \in Cells /\ u \in HeapType
      /\ \A y \in T : /\ y \in BlockType /\ y = Block(y.at, y.size) /\ y.at \in Cells /\ End(y) \in Cells
                      /\ y.at < End(y) /\ End(y) <= Epilogue(u) /\ y.at # Epilogue(u)
      /\ \A y \in B, v \in F : y.at # v.at
      /\ \A y \in B \cup F : y.at # x.at
      /\ \A y, v \in T : y.at = v.at \/ End(y) = End(v) => y = v
  BY HolePlaces
<1>2. /\ Tiles(T, Epilogue(u)) /\ x \notin B \cup F /\ Shaped(u) /\ Filed(u)
      /\ (\A y \in F : Headed(u, y)) /\ (\A y \in B : Allocated(u, y))
      /\ u.header[Epilogue(u)] \in {Word(0, 0, 1), Word(0, 1, 1)}
      /\ (e # Epilogue(u) => LastBit(u, F))
      /\ NextBit(u, F, B) /\ Apart(F)
  BY DEF Hole
<1>3. x \in T /\ x.size \in Nat \ {0} /\ x.at \in Nat /\ e \in Nat /\ x.at \in Cells /\ e \in Cells /\ x.at < e
      /\ \A y \in F : y.at # e
  <2>1. x \in T /\ x.size \in Nat \ {0} /\ x.at \in Nat /\ e \in Nat /\ x.at \in Cells /\ e \in Cells /\ x.at < e
    BY <1>1, BlockIs
  <2> QED BY <2>1 DEF After
<1> HIDE DEF T, e, own, v0, nw, F
\* What follows x is the epilogue or a block of the program.
<1>4. v0 \in Nat /\ AllocBit(v0) = 1 /\ (e = Epilogue(u) \/ \E y \in B : y.at = e)
  <2>1. CASE e = Epilogue(u)
    <3>1. u.header[Epilogue(u)] \in Nat /\ AllocBit(u.header[Epilogue(u)]) = 1
      BY <1>2, EndWord DEF Bit
    <3> QED BY <2>1, <3>1 DEF v0
  <2>2. CASE e # Epilogue(u)
    <3>1. PICK y \in T : y.at = e
      BY <1>1, <1>2, <1>3, <2>2, NextBlock DEF e
    <3>2. y \in B
      BY <1>3, <3>1 DEF T
    <3> QED BY <1>2, <3>1, <3>2 DEF Allocated, v0
  <2> QED BY <2>1, <2>2
<1>5. /\ nw \in Nat /\ Bytes(nw) = Bytes(v0) /\ PrevBit(nw) = 1 /\ AllocBit(nw) = 1
      /\ Word(0, 1, 0) + Bytes(v0) + AllocBit(v0) = nw
  BY <1>4, Rebit DEF Bit, nw
<1>6. own \in Nat /\ PrevBit(own) = p /\ AllocBit(own) = 1
  BY <1>3, WordParts DEF own, Bit
<1>7. /\ H \in [Cells -> Nat \cup {Data}] /\ H[x.at] = own /\ H[e] = nw
      /\ \A c \in Cells : c # x.at /\ c # e => H[c] = u.header[c]
  <2>1. u.header \in [Cells -> Nat \cup {Data}]
    BY <1>1 DEF HeapType
  <2> QED BY <1>3, <1>5, <1>6, <2>1
<1>8. h = Filled(u, x, p)
  <2> DEFINE H1 == [u.header EXCEPT ![x.at] = own]
             g == [u EXCEPT !.header[x.at] = own]
  <2>a. x.at # e
    BY <1>3
  <2>b. u.header \in [Cells -> Nat \cup {Data}]
    BY <1>1 DEF HeapType
  <2>2. H1[e] = v0
    BY <1>3, <2>a, <2>b DEF v0
  <2>3. g = [u EXCEPT !.header = H1] /\ g.header = H1
    BY <1>1 DEF HeapType
  <2>5. Filled(u, x, p) = [g EXCEPT !.header[e] = nw]
    <3>1. Filled(u, x, p) = [u EXCEPT !.header[x.at] = own, !.header[e] = nw]
      BY <1>5, <1>1, <2>a DEF Filled, own, e, v0, HeapType
    <3> QED BY <3>1
  <2> HIDE DEF H1
  <2>6. [g EXCEPT !.header[e] = nw] = [u EXCEPT !.header = [H1 EXCEPT ![e] = nw]]
    BY <1>1, <2>3 DEF HeapType
  <2> QED BY <2>5, <2>6 DEF H1
<1> HIDE DEF H
<1>9. \A c \in Listed(u) : H[c] = u.header[c]
  <2>1. ASSUME NEW c \in Listed(u)
        PROVE  c \in Cells /\ c # x.at /\ c # e
    <3>1. PICK y \in F : y.at = c
      BY FreeBlocksOf DEF F
    <3> QED BY <1>1, <1>3, <3>1 DEF T
  <2> QED BY <1>7, <2>1
<1>10. /\ h \in HeapType /\ h.header = H /\ h.footer = u.footer /\ h.lists = u.lists
       /\ h.pages = u.pages /\ h.fault = u.fault
       /\ Epilogue(h) = Epilogue(u) /\ Listed(h) = Listed(u) /\ FreeIn(h) = F
       /\ (Shaped(u) => Shaped(h)) /\ (Filed(u) => Filed(h))
  BY <1>1, <1>7, <1>9, Stamped DEF F
<1> HIDE DEF h
<1>11. \A y \in B : /\ y.at \in Cells /\ y.at # x.at
                    /\ y.at # e => h.header[y.at] = u.header[y.at]
                    /\ y.at = e => h.header[y.at] = nw
  BY <1>1, <1>7, <1>10 DEF T
<1>12. \A y \in F : Headed(h, y)
  <2>1. \A y \in F : h.header[y.at] = u.header[y.at] /\ h.footer[End(y)] = u.footer[End(y)]
    BY <1>1, <1>3, <1>7, <1>10 DEF T
  <2> QED BY <1>2, <2>1 DEF Headed
<1>13. \A y \in B \cup {x} : Allocated(h, y)
  <2>1. Allocated(h, x)
    BY <1>6, <1>7, <1>10 DEF Allocated
  <2>2. \A y \in B : Allocated(h, y)
    BY <1>2, <1>5, <1>11 DEF Allocated
  <2> QED BY <2>1, <2>2
<1>14. LastBit(h, F)
  <2>1. CASE e = Epilogue(u)
    <3>1. \A y \in F : End(y) # Epilogue(u)
      BY <1>1, <1>2, <2>1 DEF T, e
    <3>2. nw = Word(0, 1, 1)
      BY <1>2, <2>1, EndWord DEF nw, v0, Bit
    <3> QED BY <1>7, <1>10, <2>1, <3>1, <3>2 DEF LastBit
  <2>2. CASE e # Epilogue(u)
    BY <1>1, <1>2, <1>3, <1>7, <1>10, <2>2 DEF LastBit
  <2> QED BY <2>1, <2>2
<1>15. NextBit(h, F, B \cup {x})
  <2>1. ASSUME NEW y \in F, End(y) = x.at
        PROVE  PrevBit(h.header[x.at]) = 0
    BY <1>6, <1>7, <1>10, <2>1 DEF Before, F
  <2>2. ASSUME NEW y \in F, NEW v \in B, End(y) = v.at
        PROVE  Odd(h.header[v.at]) \/ PrevBit(h.header[v.at]) = 0
    <3>1. v.at # e
      BY <1>1, <1>2, <2>2 DEF T, e
    <3> QED BY <1>2, <1>11, <2>2, <3>1 DEF NextBit
  <2> QED BY <2>1, <2>2 DEF NextBit
<1>16. Sound(h, B \cup {x}, {})
  <2>1. {} \cup FreeIn(h) = F /\ B \cup {x} \cup {} \cup FreeIn(h) = T
    BY <1>10 DEF T
  <2>2. Tiles(B \cup {x} \cup {} \cup FreeIn(h), Epilogue(h)) /\ Apart(FreeIn(h))
    BY <1>2, <1>10, <2>1
  <2> QED BY <1>2, <1>10, <1>12, <1>13, <1>14, <1>15, <2>1, <2>2 DEF Sound
<1>17. \A c : Found(u, c) <=> Found(h, c)
  BY <1>10 DEF Found, F
<1>18. Keeps(u, h, B)
  <2>1. ASSUME NEW y \in B, NEW n \in Nat \ {0}, Measures(u.header[y.at], n)
        PROVE  Measures(h.header[y.at], n)
    BY <1>5, <1>11, <2>1 DEF Measures, v0
  <2>2. ASSUME NEW y \in B, Marked(u, y.at)
        PROVE  Marked(h, y.at)
    BY <1>5, <1>11, <1>17, <2>2 DEF Marked
  <2> QED BY <2>1, <2>2 DEF Keeps
<1>19. (p = 0 => Found(u, x.at)) => Marked(h, x.at)
  BY <1>6, <1>7, <1>10, <1>17 DEF Marked
<1>20. \A y \in B : y.at = e => Marked(h, y.at)
  BY <1>5, <1>11 DEF Marked
<1> QED BY <1>2, <1>7, <1>8, <1>10, <1>16, <1>18, <1>19, <1>20 DEF Given, F, own, e

-----------------------------------------------------------------------------
(* Splitting. *)

Broken == {"abort", "nomem", "wild", "damaged"}

\* The headers of the blocks of the program can be taken from.
Lendable(h, B) == \A y \in B : \E n \in Nat \ {0} : Measures(h.header[y.at], n)

\* Four bytes less than a size is none.
LEMMA Uneven ==
  ASSUME NEW n \in Nat \ {0}
  PROVE  (M * n - 4) % M # 0
<1>1. SUFFICES ASSUME (M * n - 4) % M = 0
               PROVE  FALSE
  OBVIOUS
<1>2. M * n \in Int /\ M * n >= M
  BY Multiples
<1> DEFINE b == M * n - 4
<1>3. b \in Nat /\ b % M = 0
  BY <1>1, <1>2, SfmmAssumption
<1> HIDE DEF b
<1>4. PICK q \in Int : b = M * q
  BY <1>3, SfmmAssumption
<1>5. M * n - M * q = 4 /\ M * q \in Int
  BY <1>2, <1>4, Multiples DEF b
<1>6. M * (n - q) = 4
  BY <1>5, SfmmAssumption
<1>7. n - q \in Int
  OBVIOUS
<1>8. n - q >= 1
  <2>1. CASE n - q <= 0
    <3>1. M * (0 - (n - q)) >= 0
      BY <1>7, <2>1, Multiples
    <3>2. M * (0 - (n - q)) = -4
      BY <1>6, <1>7, SfmmAssumption
    <3> QED BY <3>1, <3>2
  <2> QED BY <1>7, <2>1
<1> QED BY <1>6, <1>7, <1>8, Multiples, SfmmAssumption

\* Taking 2 from the header of a free block: the prev-allocated bit goes, or the size.
LEMMA BorrowedFree ==
  ASSUME NEW n \in Nat \ {0}, NEW p \in Bit
  PROVE  LET w == Word(n, p, 0) - 2
         IN  w \in Nat /\ AllocBit(w) = 0 /\ (w = Word(n, 0, 0) \/ Odd(w))
<1> DEFINE v == Word(n, p, 0)
<1>1. v \in Nat /\ Bytes(v) = M * n /\ PrevBit(v) = p /\ AllocBit(v) = 0
  BY WordParts DEF Bit
<1>2. Measures(v, n)
  <2>1. M * (n - 1) < M * n /\ M * n <= M * n
    BY SfmmAssumption
  <2> QED BY <1>1, <2>1 DEF Measures
<1> HIDE DEF v
<1>3. v - 2 \in Nat /\ AllocBit(v - 2) = 0 /\ (p = 0 => Bytes(v - 2) = M * n - 4)
  BY <1>1, <1>2, Borrowed
<1>4. p = 0 => Odd(v - 2)
  BY <1>3, Uneven DEF Odd
<1>5. p = 1 => v - 2 = Word(n, 0, 0)
  <2>1. M * n \in Int
    BY Multiples
  <2> QED BY <2>1 DEF v, Word
<1> QED BY <1>3, <1>4, <1>5 DEF v, Bit

\* free_block_split.
LEMMA SplitOffSound ==
  ASSUME NEW h, NEW B, NEW y, Hole(h, B, y), Lendable(h, B), Before(FreeIn(h), y.at) = {}
  PROVE  LET r == SplitOff(h, y.at, y.size)
         IN  r.fault \in Broken \/ Freed(h, r, B, y)
<1> DEFINE s == y.at
           rest == y.size
           next == End(y)
           own == Word(rest, 1, 0)
           v0 == h.header[next]
           word == IF next = Epilogue(h) THEN 1 ELSE v0 - 2
           cut == [h EXCEPT !.header[s] = own, !.footer[next] = own, !.header[next] = word]
           r == SplitOff(h, s, rest)
           F == FreeIn(h)
           T == B \cup {y} \cup F
<1>1. /\ Epilogue(h) \in Cells /\ Epilogue(h) \in Nat \ {0} /\ h \in HeapType
      /\ \A v \in T : v \in BlockType /\ v.at \in Cells /\ End(v) \in Cells /\ v.at # Epilogue(h)
      /\ \A v \in F : h.header[v.at] \in Nat /\ AllocBit(h.header[v.at]) = 0
      /\ \A v, z \in T : v.at = z.at \/ End(v) = End(z) => v = z
  BY HolePlaces
<1>2. /\ y \in T /\ y \in BlockType /\ s \in Nat /\ rest \in Nat \ {0} /\ next \in Nat /\ s < next
      /\ s \in Cells /\ next \in Cells /\ next = s + rest
  BY <1>1, BlockIs DEF End
<1>3. Tiles(T, Epilogue(h)) /\ (\A v \in F : Headed(h, v)) /\ (\A v \in B : Allocated(h, v))
  BY DEF Hole
<1>4. own \in Nat /\ AllocBit(own) = 0 /\ PrevBit(own) = 1
  BY <1>2, WordParts DEF Bit
<1>5. 1 = Word(0, 0, 1) /\ AllocBit(1) = 1
  <2>1. M * 0 = 0
    BY SfmmAssumption
  <2> QED BY <2>1 DEF Word, AllocBit
<1> HIDE DEF T, F, own, next
<1>6. ASSUME NEW v \in B, v.at = next
      PROVE  /\ word = v0 - 2 /\ word \in Nat /\ AllocBit(word) = 1
             /\ Bytes(word) # Bytes(v0) \/ PrevBit(word) = 0
             /\ Bytes(word) = Bytes(v0) \/ Odd(word) =>
                  \A n \in Nat \ {0} : Measures(v0, n) => Measures(word, n)
  <2>1. v0 \in Nat /\ AllocBit(v0) = 1 /\ word = v0 - 2
    BY <1>1, <1>3, <1>6 DEF Allocated, T
  <2>2. PICK n \in Nat \ {0} : Measures(v0, n)
    BY <1>6 DEF Lendable
  <2> HIDE DEF v0, word
  <2>3. /\ v0 - 2 \in Nat /\ AllocBit(v0 - 2) = AllocBit(v0)
        /\ PrevBit(v0) = 1 => Bytes(v0 - 2) = Bytes(v0) /\ PrevBit(v0 - 2) = 0
        /\ PrevBit(v0) = 0 => Bytes(v0 - 2) = Bytes(v0) - 4
    BY <2>1, <2>2, Borrowed
  <2>4. PrevBit(v0) \in {0, 1} /\ Bytes(v0) \in Nat
    BY <2>1, Reassembled DEF Bit
  <2>5. Bytes(v0 - 2) # Bytes(v0) \/ PrevBit(v0 - 2) = 0
    BY <2>3, <2>4
  <2>6. ASSUME Bytes(v0 - 2) = Bytes(v0) \/ Odd(v0 - 2), NEW m \in Nat \ {0}, Measures(v0, m)
        PROVE  Measures(v0 - 2, m)
    BY <2>1, <2>6, Borrowed
  <2> QED BY <2>1, <2>3, <2>5, <2>6
<1>7. ASSUME NEW v \in F, v.at = next
      PROVE  word \in Nat /\ AllocBit(word) = 0 /\ (word = Word(v.size, 0, 0) \/ Odd(word))
  <2>1. PICK p \in Bit : v0 = Word(v.size, p, 0)
    BY <1>3, <1>7 DEF Headed
  <2>2. word = v0 - 2 /\ v.size \in Nat \ {0}
    BY <1>1, <1>7 DEF T, BlockType
  <2> QED BY <2>1, <2>2, BorrowedFree
<1>8. \/ next = Epilogue(h) /\ \A v \in T : v.at # next
      \/ next # Epilogue(h) /\ \E v \in B : v.at = next
      \/ next # Epilogue(h) /\ \E v \in F : v.at = next
  <2>1. CASE next = Epilogue(h)
    BY <1>1, <2>1
  <2>2. CASE next # Epilogue(h)
    <3>1. PICK v \in T : v.at = next
      BY <1>1, <1>2, <1>3, <2>2, NextBlock DEF next
    <3>2. v # y
      BY <1>2, <3>1
    <3> QED BY <2>2, <3>1, <3>2 DEF T
  <2> QED BY <2>1, <2>2
<1>9. word \in Nat /\ (AllocBit(word) = 1 \/ AllocBit(word) = 0)
  BY <1>5, <1>6, <1>7, <1>8
<1> HIDE DEF v0, word
<1>10. cut.header[next] = word
  <2>1. s # next
    BY <1>2
  <2> QED BY <1>1, <1>2, <2>1 DEF HeapType
<1>11. Loosened(h, y, 1, word) = IF AllocBit(word) = 1 THEN cut
                                 ELSE [cut EXCEPT !.footer[next + Size(word)] = word]
  <2> DEFINE done == [h EXCEPT !.header[s] = own, !.header[next] = word, !.footer[next] = own]
  <2>1. done = cut
    BY <1>1 DEF HeapType
  <2>2. Loosened(h, y, 1, word) = IF AllocBit(word) = 1 THEN done
                                  ELSE [done EXCEPT !.footer[next + Size(word)] = word]
    BY DEF Loosened, own, next
  <2> HIDE DEF done, cut
  <2> QED BY <2>1, <2>2
<1> DEFINE odd == Bytes(word) % M # 0
<1>12. r = IF next = Epilogue(h) THEN Merge(cut, s)
           ELSE IF AllocBit(word) = 1
           THEN IF Bytes(word) # Bytes(v0) /\ ~odd
                THEN [cut EXCEPT !.fault = "damaged"] ELSE Merge(cut, s)
           ELSE IF odd THEN [cut EXCEPT !.fault = "damaged"]
           ELSE Merge([cut EXCEPT !.footer[next + Size(word)] = word], s)
  <2> DEFINE R(w) == IF next = Epilogue(h) THEN Merge(cut, s)
                     ELSE IF AllocBit(w) = 1
                     THEN IF Bytes(w) # Bytes(v0) /\ ~(Bytes(w) % M # 0)
                          THEN [cut EXCEPT !.fault = "damaged"] ELSE Merge(cut, s)
                     ELSE IF Bytes(w) % M # 0 THEN [cut EXCEPT !.fault = "damaged"]
                     ELSE Merge([cut EXCEPT !.footer[next + Size(w)] = w], s)
  <2>1. r = R(cut.header[next])
    BY <1>2 DEF SplitOff, v0, word, own
  <2>2. R(cut.header[next]) = R(word)
    <3> HIDE DEF cut, R
    <3> QED BY <1>10
  <2> HIDE DEF cut, r
  <2> QED BY <2>1, <2>2
<1> HIDE DEF r
<1>13. [cut EXCEPT !.fault = "damaged"].fault \in Broken
  BY <1>1 DEF HeapType, Broken
<1> HIDE DEF cut
<1>14. CASE next # Epilogue(h) /\ IF AllocBit(word) = 1 THEN Bytes(word) # Bytes(v0) /\ ~odd ELSE odd
  <2>1. AllocBit(word) = 1 \/ AllocBit(word) # 1
    OBVIOUS
  <2>2. r = [cut EXCEPT !.fault = "damaged"]
    BY <1>12, <1>14, <2>1
  <2> QED BY <1>13, <2>2 DEF r
<1>15. CASE next = Epilogue(h) \/ ~(IF AllocBit(word) = 1 THEN Bytes(word) # Bytes(v0) /\ ~odd ELSE odd)
  <2>1. next = Epilogue(h) => word = Word(0, 0, 1) /\ AllocBit(word) = 1
    BY <1>5 DEF word
  <2>2. r = Merge(Loosened(h, y, 1, word), s)
    BY <1>11, <1>12, <1>15, <2>1
  <2>3. \A v \in B : v.at = next => /\ word \in Nat /\ AllocBit(word) = 1
                                    /\ Odd(word) \/ PrevBit(word) = 0
    <3>1. ASSUME NEW v \in B, v.at = next
          PROVE  word \in Nat /\ AllocBit(word) = 1 /\ (Odd(word) \/ PrevBit(word) = 0)
      <4>1. next # Epilogue(h)
        BY <1>1, <3>1 DEF T
      <4> QED BY <1>6, <1>15, <3>1, <4>1 DEF Odd
    <3> QED BY <3>1
  <2>4. \A v \in F : v.at = next => word = Word(v.size, 0, 0)
    <3>1. ASSUME NEW v \in F, v.at = next
          PROVE  word = Word(v.size, 0, 0)
      <4>1. next # Epilogue(h)
        BY <1>1, <3>1 DEF T
      <4> QED BY <1>7, <1>15, <3>1, <4>1 DEF Odd
    <3> QED BY <3>1
  <2>5. Follows(h, B, y, word)
    BY <2>1, <2>3, <2>4 DEF Follows, next, F
  <2>6. ASSUME NEW v \in B, NEW n \in Nat \ {0}, v.at = next, Measures(h.header[next], n)
        PROVE  Measures(word, n)
    <3>1. next # Epilogue(h)
      BY <1>1, <2>6 DEF T
    <3> QED BY <1>6, <1>15, <2>6, <3>1 DEF Odd, v0
  <2>7. Merge(Loosened(h, y, 1, word), y.at).fault = "wild"
        \/ Freed(h, Merge(Loosened(h, y, 1, word), y.at), B, y)
    <3>1. 1 \in Bit /\ ~(1 = 0)
      BY DEF Bit
    <3>2. \A v \in B : \A n \in Nat \ {0} :
              v.at = End(y) /\ Measures(h.header[End(y)], n) => Measures(word, n)
      BY <2>6 DEF next
    <3>3. word \in Nat
      BY <1>9
    <3> HIDE DEF odd
    <3> QED BY <2>5, <3>1, <3>2, <3>3, FreedSound
  <2> QED BY <2>2, <2>7 DEF Broken, r
<1> QED BY <1>14, <1>15 DEF r

\* The heap r after size units of the hole w have been given to the program.
Portion(u, r, B, w, size, p) ==
    /\ Given(u, r, B, Block(w.at, size), p)
    /\ \A y \in B : y.at = End(w) => Marked(r, y.at)
    /\ After(FreeIn(u), End(w)) = {} =>
          FreeIn(r) = FreeIn(u) \cup (IF size = w.size THEN {} ELSE {Block(w.at + size, w.size - size)})

\* free_block_allocate.
LEMMA AllocateSound ==
  ASSUME NEW u, NEW B, NEW w, Hole(u, B, w), Lendable(u, B), NEW p \in Bit, NEW a \in Bit,
         u.header[w.at] = Word(w.size, p, a), p = 0 \/ Before(FreeIn(u), w.at) = {},
         NEW size \in Nat \ {0}, size <= w.size,
         size = w.size => After(FreeIn(u), End(w)) = {}
  PROVE  LET r == AllocateFrom(u, w.at, size)
         IN  r.fault \in Broken \/ Portion(u, r, B, w, size, p)
<1> DEFINE b == w.at
           rest == w.size - size
           r == AllocateFrom(u, b, size)
           F == FreeIn(u)
<1>1. w \in BlockType /\ w = Block(b, w.size) /\ b \in Nat /\ w.size \in Nat \ {0}
  <2>1. w \in BlockType
    BY HolePlaces
  <2> QED BY <2>1, BlockIs
<1>2. Size(u.header[b]) = w.size /\ PrevBit(u.header[b]) = p
  BY <1>1, WordParts
<1>3. r = IF rest = 0
          THEN [u EXCEPT !.header[b] = Word(size, p, 1),
                         !.header[b + size] = Word(0, 1, 0) + Bytes(@) + AllocBit(@)]
          ELSE SplitOff([u EXCEPT !.header[b] = Word(size, p, 1)], b + size, rest)
  BY <1>2 DEF AllocateFrom
<1>4. CASE size = w.size
  <2>1. r = Filled(u, w, p) /\ Block(w.at, size) = w
    BY <1>1, <1>3, <1>4 DEF Filled, End
  <2>2. /\ Given(u, Filled(u, w, p), B, w, p) /\ FreeIn(Filled(u, w, p)) = FreeIn(u)
        /\ \A y \in B : y.at = End(w) => Marked(Filled(u, w, p), y.at)
    BY <1>4, FillSound
  <2> HIDE DEF r
  <2>3. /\ Given(u, r, B, Block(w.at, size), p) /\ FreeIn(r) = FreeIn(u)
        /\ \A y \in B : y.at = End(w) => Marked(r, y.at)
    BY <2>1, <2>2
  <2>4. Portion(u, r, B, w, size, p)
    BY <1>4, <2>3 DEF Portion
  <2> QED BY <2>4 DEF r
<1>5. CASE size # w.size
  <2> DEFINE x == Block(b, size)
             y == Block(b + size, rest)
             h == [u EXCEPT !.header[b] = Word(size, p, 1)]
  <2>1. rest \in Nat \ {0} /\ size + rest = w.size /\ w = Block(b, size + rest)
    BY <1>1, <1>5
  <2>2. /\ x \in BlockType /\ x.at = b /\ x.size = size /\ End(x) = b + size
        /\ y \in BlockType /\ y.at = b + size /\ y.size = rest /\ End(y) = End(w)
    <3>1. b + size \in Nat /\ (b + size) + rest = b + w.size
      BY <1>1, <2>1
    <3>2. x \in BlockType /\ x.at = b /\ x.size = size /\ End(x) = b + size
      BY <1>1, BlockFields
    <3>3. y \in BlockType /\ y.at = b + size /\ y.size = rest /\ End(y) = (b + size) + rest
      BY <2>1, <3>1, BlockFields
    <3> QED BY <3>1, <3>2, <3>3 DEF End
  <2>3. r = SplitOff(h, y.at, y.size)
    BY <1>3, <2>1, <2>2
  <2> HIDE DEF r
  <2>4. Cut(u, h, B, x, y, p)
    <3>1. Hole(u, B, Block(b, size + rest))
      BY <2>1
    <3> QED BY <1>1, <2>1, <3>1, SplitHole
  <2> HIDE DEF x, y, h, F
  <2>5. /\ Hole(h, B \cup {x}, y) /\ x \notin B /\ FreeIn(h) = F
        /\ h.header[b] = Word(size, p, 1) /\ h.footer = u.footer
        /\ h.pages = u.pages /\ h.fault = u.fault
        /\ \A v \in B : h.header[v.at] = u.header[v.at] /\ v.at # b
    BY <2>2, <2>4 DEF Cut, F
  <2>6. Lendable(h, B \cup {x})
    <3>1. Measures(Word(size, p, 1), size)
      <4>1. Bytes(Word(size, p, 1)) = M * size
        BY WordParts DEF Bit
      <4>2. M * (size - 1) < M * size /\ M * size <= M * size
        BY SfmmAssumption
      <4> QED BY <4>1, <4>2 DEF Measures
    <3> QED BY <2>2, <2>5, <3>1 DEF Lendable
  <2>7. Before(FreeIn(h), y.at) = {}
    <3>1. \A v, z \in (B \cup {x}) \cup {y} \cup FreeIn(h) : End(v) = End(z) => v = z
      BY <2>5, HolePlaces
    <3>2. \A v \in FreeIn(h) : v.at # x.at
      BY <2>5, HolePlaces
    <3> QED BY <2>2, <3>1, <3>2 DEF Before
  <2>8. r.fault \in Broken \/ Freed(h, r, B \cup {x}, y)
    BY <2>3, <2>5, <2>6, <2>7, SplitOffSound
  <2>9. ASSUME Freed(h, r, B \cup {x}, y)
        PROVE  Portion(u, r, B, w, size, p)
    <3>1. /\ Sound(r, B \cup {x}, {}) /\ Keeps(h, r, B \cup {x}) /\ r.pages = h.pages /\ r.fault = h.fault
          /\ \A v \in B \cup {x} : IF v.at = End(y) THEN Marked(r, v.at) ELSE r.header[v.at] = h.header[v.at]
          /\ Before(FreeIn(h), y.at) = {} /\ After(FreeIn(h), End(y)) = {} => FreeIn(r) = FreeIn(h) \cup {y}
      BY <2>9 DEF Freed
    <3>2. \A c : Found(h, c) <=> Found(u, c)
      BY <2>5 DEF Found, F
    <3>3. Keeps(u, r, B)
      BY <2>5, <3>1, <3>2 DEF Keeps, Marked
    <3>4. r.header[b] = Word(size, p, 1)
      <4>1. b # End(y)
        BY <1>1, <2>2, BlockIs DEF End
      <4> QED BY <2>2, <2>5, <3>1, <4>1
    <3>5. ASSUME p = 0 => Found(u, b)
          PROVE  Marked(r, b)
      <4>1. PrevBit(Word(size, p, 1)) = p
        BY WordParts DEF Bit
      <4>2. Marked(h, b)
        BY <2>5, <3>2, <3>5, <4>1 DEF Marked
      <4>3. x \in B \cup {x} /\ x.at = b
        BY <2>2
      <4> QED BY <3>1, <4>2, <4>3 DEF Keeps
    <3>6. Given(u, r, B, x, p)
      BY <2>2, <2>5, <3>1, <3>3, <3>4, <3>5 DEF Given
    <3>7. After(F, End(w)) = {} => FreeIn(r) = F \cup {y}
      BY <2>2, <2>5, <2>7, <3>1
    <3>8. \A v \in B : v.at = End(w) => Marked(r, v.at)
      BY <2>2, <3>1
    <3> QED BY <1>5, <3>6, <3>7, <3>8 DEF Portion, F, x, y
  <2> QED BY <2>8, <2>9 DEF r
<1> QED BY <1>4, <1>5

\* The heap r after size units of the free block x have been taken from g.
Taken(g, r, B, x, size) ==
    \E p \in Bit :
        /\ g.header[x.at] = Word(x.size, p, 0)
        /\ Sound(r, B \cup {Block(x.at, size)}, {}) /\ Block(x.at, size) \notin B
        /\ Keeps(g, r, B) /\ r.pages = g.pages /\ r.fault = g.fault
        /\ r.header[x.at] = Word(size, p, 1) /\ Marked(r, x.at)
        /\ FreeIn(r) = (FreeIn(g) \ {x})
                       \cup (IF size = x.size THEN {} ELSE {Block(x.at + size, x.size - size)})

\* A free block that fits is taken from its list and cut.
LEMMA TakeSound ==
  ASSUME NEW g, NEW B, Sound(g, B, {}), Lendable(g, B), NEW x \in FreeIn(g),
         NEW size \in Nat \ {0}, size <= x.size, Found(g, x.at)
  PROVE  LET r == AllocateFrom(Unlist(g, x.at), x.at, size)
         IN  r.fault \in Broken \/ Taken(g, r, B, x, size)
<1> DEFINE u == Unlist(g, x.at)
           r == AllocateFrom(u, x.at, size)
<1>1. /\ Hole(u, B, x) /\ FreeIn(u) = FreeIn(g) \ {x}
      /\ u.header = g.header /\ u.footer = g.footer /\ u.pages = g.pages /\ u.fault = g.fault
      /\ Before(FreeIn(u), x.at) = {} /\ After(FreeIn(u), End(x)) = {}
  BY HoleOfFree DEF Unfiled
<1>2. PICK p \in Bit : g.header[x.at] = Word(x.size, p, 0)
  BY DEF Sound, Headed
<1> HIDE DEF u
<1>3. Lendable(u, B)
  BY <1>1 DEF Lendable
<1>4. r.fault \in Broken \/ Portion(u, r, B, x, size, p)
  <2>1. 0 \in Bit /\ u.header[x.at] = Word(x.size, p, 0)
    BY <1>1, <1>2 DEF Bit
  <2>2. LET k == AllocateFrom(u, x.at, size)
        IN  k.fault \in Broken \/ Portion(u, k, B, x, size, p)
    BY <1>1, <1>3, <2>1, AllocateSound
  <2> QED BY <2>2
<1> HIDE DEF r
<1>5. ASSUME Portion(u, r, B, x, size, p)
      PROVE  Taken(g, r, B, x, size)
  <2> DEFINE y == Block(x.at, size)
  <2>1. y.at = x.at /\ y.size = size
    BY DEF Block
  <2> HIDE DEF y
  <2>2. /\ Sound(r, B \cup {y}, {}) /\ y \notin B /\ Keeps(u, r, B) /\ r.pages = u.pages /\ r.fault = u.fault
        /\ r.header[x.at] = Word(size, p, 1)
        /\ (p = 0 => Found(u, x.at)) => Marked(r, x.at)
        /\ \A v \in B : v.at = End(x) => Marked(r, v.at)
        /\ FreeIn(r) = FreeIn(u) \cup (IF size = x.size THEN {} ELSE {Block(x.at + size, x.size - size)})
    BY <1>1, <1>5, <2>1 DEF Portion, Given, y
  <2>3. ASSUME NEW c, Found(g, c), c # End(x)
        PROVE  Found(u, c)
    BY <1>1, <2>3 DEF Found, Before
  <2>4. Keeps(g, r, B)
    <3>1. ASSUME NEW v \in B, Marked(g, v.at)
          PROVE  Marked(r, v.at)
      <4>1. v.at # End(x) => Marked(u, v.at)
        BY <1>1, <2>3, <3>1 DEF Marked
      <4> QED BY <2>2, <4>1 DEF Keeps
    <3> QED BY <1>1, <2>2, <3>1 DEF Keeps
  <2>5. Marked(r, x.at)
    <3>1. x.at # End(x)
      <4>1. x \in BlockType
        BY Places
      <4> QED BY <4>1, BlockIs
    <3> QED BY <2>2, <2>3, <3>1
  <2> QED BY <1>1, <1>2, <2>2, <2>4, <2>5 DEF Taken, y
<1> QED BY <1>4, <1>5 DEF r, u

-----------------------------------------------------------------------------
(* sf_free. *)

\* The part of sf_free after its tests.
LEMMA ReleaseSound ==
  ASSUME NEW h, NEW B, NEW x, x \notin B, Sound(h, B \cup {x}, {}), NEW p \in Bit,
         h.header[x.at] = Word(x.size, p, 1), Marked(h, x.at)
  PROVE  LET r == Release(h, x.at)
         IN  r.fault = "wild" \/ Freed(h, r, B, x)
<1> DEFINE b == x.at
           word == Word(x.size, p, 0)
           next == End(x)
           v0 == h.header[next]
           nw == Bytes(v0) + 2 * 0 + AllocBit(v0)
           r == Release(h, b)
           F == FreeIn(h)
           T == B \cup {x} \cup F
<1>1. Hole(h, B, x)
  BY HoleOfHeld
<1>2. /\ Epilogue(h) \in Cells /\ Epilogue(h) \in Nat \ {0} /\ h \in HeapType
      /\ \A v \in T : v \in BlockType /\ v.at \in Cells /\ End(v) \in Cells /\ v.at # Epilogue(h)
      /\ \A v \in F : h.header[v.at] \in Nat
      /\ \A v, z \in T : v.at = z.at \/ End(v) = End(z) => v = z
  BY <1>1, HolePlaces
<1>3. /\ x \in T /\ x \in BlockType /\ b \in Nat /\ x.size \in Nat /\ next \in Nat /\ b < next
      /\ b \in Cells /\ next \in Cells /\ next = b + x.size
  BY <1>2, BlockIs DEF End
<1>4. /\ Tiles(T, Epilogue(h)) /\ (\A v \in F : Headed(h, v)) /\ (\A v \in B : Allocated(h, v))
      /\ h.header[Epilogue(h)] \in {Word(0, 0, 1), Word(0, 1, 1)}
  BY <1>1 DEF Hole
<1>5. h.header[b] - 1 = word /\ Size(word) = x.size
  <2>1. M * x.size \in Int
    BY <1>3, Multiples
  <2>2. h.header[b] - 1 = word
    BY <2>1 DEF Word, Bit
  <2>3. Size(word) = x.size
    BY <1>3, WordParts DEF Bit
  <2> QED BY <2>2, <2>3
<1> HIDE DEF T, F, word, next
<1>6. \/ next = Epilogue(h) /\ \A v \in T : v.at # next
      \/ next # Epilogue(h) /\ \E v \in B \cup F : v.at = next
  <2>1. CASE next = Epilogue(h)
    BY <1>2, <2>1
  <2>2. CASE next # Epilogue(h)
    <3>1. PICK v \in T : v.at = next
      BY <1>2, <1>3, <1>4, <2>2, NextBlock DEF next
    <3>2. v # x
      BY <1>3, <3>1
    <3> QED BY <2>2, <3>1, <3>2 DEF T
  <2> QED BY <2>1, <2>2
<1>7. v0 \in Nat
  <2>1. next = Epilogue(h) => v0 \in Nat
    BY <1>4, EndWord DEF Bit
  <2>2. \A v \in B : h.header[v.at] \in Nat
    BY <1>4 DEF Allocated
  <2> QED BY <1>2, <1>6, <2>1, <2>2
<1>8. /\ nw \in Nat /\ Bytes(nw) = Bytes(v0) /\ PrevBit(nw) = 0 /\ AllocBit(nw) = AllocBit(v0)
      /\ Word(0, 0, AllocBit(v0)) + Bytes(v0) = nw
  BY <1>7, Rebit DEF Bit
<1>9. Follows(h, B, x, nw)
  <2>1. next = Epilogue(h) => nw = Word(0, 0, 1)
    BY <1>4, EndWord DEF Bit
  <2>2. \A v \in B : v.at = next => nw \in Nat /\ AllocBit(nw) = 1 /\ PrevBit(nw) = 0
    BY <1>4, <1>8 DEF Allocated
  <2>3. ASSUME NEW v \in F, v.at = next
        PROVE  nw = Word(v.size, 0, 0)
    <3>1. PICK q \in Bit : v0 = Word(v.size, q, 0)
      BY <1>4, <2>3 DEF Headed
    <3>2. Bytes(v0) = M * v.size /\ AllocBit(v0) = 0
      BY <1>2, <3>1, WordParts DEF T, BlockType, Bit
    <3> QED BY <3>2 DEF Word
  <2> HIDE DEF nw
  <2> QED BY <2>1, <2>2, <2>3 DEF Follows, next, F
<1>10. r = Merge(Loosened(h, x, p, nw), b)
  <2> DEFINE done(n) == [h EXCEPT !.header[b] = word, !.header[next] = n, !.footer[next] = word]
             R(n) == Merge(IF AllocBit(n) = 1 THEN done(n)
                           ELSE [done(n) EXCEPT !.footer[next + Size(n)] = n], b)
  <2>1. r = R(Word(0, 0, AllocBit(v0)) + Bytes(v0))
    BY <1>3, <1>5 DEF Release
  <2>2. R(nw) = Merge(Loosened(h, x, p, nw), b)
    BY DEF Loosened, word, next
  <2>3. R(Word(0, 0, AllocBit(v0)) + Bytes(v0)) = R(nw)
    <3> HIDE DEF R, nw
    <3> QED BY <1>8
  <2> HIDE DEF R, r
  <2> QED BY <2>1, <2>2, <2>3
<1>11. p = 0 \/ Before(F, b) = {}
  <2>1. PrevBit(h.header[b]) = p /\ ~Odd(h.header[b])
    BY <1>3, WordParts DEF Bit
  <2>2. \A v \in F : End(v) = b => Odd(h.header[b]) \/ PrevBit(h.header[b]) = 0
    BY DEF Sound, NextBit, F
  <2> QED BY <2>1, <2>2 DEF Before
<1>12. p = 0 => Found(h, b)
  BY <1>3, WordParts DEF Marked, Bit
<1>13. \A y \in B : \A n \in Nat \ {0} : y.at = next /\ Measures(h.header[next], n) => Measures(nw, n)
  BY <1>8 DEF Measures
<1>14. LET k == Merge(Loosened(h, x, p, nw), x.at)
       IN  k.fault = "wild" \/ Freed(h, k, B, x)
  <2> HIDE DEF nw
  <2>1. \A y \in B : \A n \in Nat \ {0} :
            y.at = End(x) /\ Measures(h.header[End(x)], n) => Measures(nw, n)
    BY <1>13 DEF next
  <2>2. p = 0 \/ Before(FreeIn(h), x.at) = {}
    BY <1>11 DEF F
  <2>3. p = 0 => Found(h, x.at)
    BY <1>12
  <2>4. nw \in Nat
    BY <1>8
  <2> QED BY <1>1, <1>9, <2>1, <2>2, <2>3, <2>4, FreedSound
<1> QED BY <1>10, <1>14

\* sf_free.
LEMMA SfFreeSound ==
  ASSUME NEW h, NEW B, NEW x, x \notin B, Sound(h, B \cup {x}, {}), NEW told \in Reject, h.fault = "none",
         Measures(h.header[x.at], x.size), Marked(h, x.at)
  PROVE  LET r == SfFree(h, x.at, told)
         IN  r.fault \in Broken \/ Freed(h, r, B, x)
<1> DEFINE r == SfFree(h, x.at, told)
           valid == Valid(h, x.at, told)
<1>1. h \in HeapType
  BY DEF Sound, Shaped
<1>2. CASE valid = "no"
  BY <1>1, <1>2 DEF SfFree, HeapType, Broken
<1>3. CASE valid = "wild"
  BY <1>1, <1>3 DEF SfFree, HeapType, Broken
<1>4. CASE valid # "no" /\ valid # "wild"
  <2>1. r = Release(h, x.at)
    BY <1>4 DEF SfFree
  <2>2. ~Odd(h.header[x.at])
    BY <1>4 DEF Valid, Odd
  <2>3. h.header[x.at] \in Nat /\ AllocBit(h.header[x.at]) = 1 /\ x.size \in Nat \ {0}
    <3>1. x \in B \cup {x}
      OBVIOUS
    <3>2. x \in BlockType
      BY <3>1, Places
    <3> QED BY <3>1, <3>2 DEF Sound, Allocated, BlockType
  <2>4. PrevBit(h.header[x.at]) \in Bit
    BY <2>3, Reassembled
  <2>5. h.header[x.at] = Word(x.size, PrevBit(h.header[x.at]), 1)
    BY <2>2, <2>3, Exact
  <2>6. LET k == Release(h, x.at)
        IN  k.fault = "wild" \/ Freed(h, k, B, x)
    BY <2>4, <2>5, ReleaseSound
  <2> QED BY <2>1, <2>6 DEF Broken
<1> QED BY <1>2, <1>3, <1>4

-----------------------------------------------------------------------------
(* Fits. *)

\* A set of numbers has a least one.
LEMMA Least ==
  ASSUME NEW S, S \subseteq Nat, S # {}
  PROVE  \E x \in S : \A y \in S : x <= y
<1> DEFINE R == OpToRel(<, Nat)
<1>1. IsWellFoundedOn(R, Nat)
  BY NatLessThanWellFounded
<1>2. \A x, y \in Nat : y < x => <<y, x>> \in R
  BY DEF OpToRel
<1> HIDE DEF R
<1>3. PICK x \in S : \A y \in S : ~(<<y, x>> \in R)
  BY <1>1, WFMin
<1>4. \A y \in S : ~(y < x)
  BY <1>2, <1>3
<1> QED BY <1>3, <1>4

\* A free block that fits is found.
LEMMA FitSound ==
  ASSUME NEW h \in HeapType, NEW size \in Nat \ {0}, FittingLists(h, size) # {}
  PROVE  \E x \in FreeIn(h) : x.at = Fit(h, size) /\ size <= x.size
<1> DEFINE I == FittingLists(h, size)
           i == CHOOSE l \in I : \A j \in I : l <= j
           K == Fits(h, i, size)
           k == CHOOSE l \in K : \A m \in K : l <= m
<1>1. I \subseteq 0 .. 9 /\ I \subseteq Nat
  BY Classes DEF FittingLists
<1>2. i \in I
  BY <1>1, Least
<1> HIDE DEF I, i
<1>3. K # {} /\ i \in 0 .. 9
  BY <1>1, <1>2 DEF I, FittingLists
<1>4. K \subseteq Nat
  <2>1. h.lists[i] \in Seq(Cells)
    BY <1>3 DEF HeapType
  <2> QED BY <2>1 DEF Fits
<1> HIDE DEF K
<1>5. k \in K
  BY <1>3, <1>4, Least
<1> HIDE DEF k
<1>6. k \in DOMAIN h.lists[i] /\ Size(h.header[h.lists[i][k]]) >= size
  BY <1>5 DEF K, Fits
<1>7. Fit(h, size) = h.lists[i][k]
  BY DEF Fit, FitIn, I, i, K, k
<1>8. h.lists[i][k] \in Listed(h)
  BY <1>3, <1>6, ListedCells
<1> DEFINE x == Block(h.lists[i][k], Size(h.header[h.lists[i][k]]))
<1>9. x \in FreeIn(h) /\ x.at = h.lists[i][k] /\ x.size = Size(h.header[h.lists[i][k]])
  BY <1>8, FreeBlocksOf DEF Block
<1> HIDE DEF x
<1> QED BY <1>6, <1>7, <1>9

\* The classes are in the order of the sizes.
LEMMA ClassOrder ==
  ASSUME NEW a \in Nat \ {0}, NEW b \in Nat \ {0}, a <= b
  PROVE  Class(a) <= Class(b)
<1>1. Fibonacci[1] = 1 /\ Fibonacci[2] = 2 /\ Fibonacci[3] = 3 /\ Fibonacci[4] = 5 /\ Fibonacci[5] = 8
      /\ Fibonacci[6] = 13 /\ Fibonacci[7] = 21 /\ Fibonacci[8] = 34
  BY DEF Fibonacci
<1>2. ASSUME NEW n \in Nat \ {0}, n <= 34
      PROVE  Class(n) \in 0 .. 7 /\ n <= Fibonacci[Class(n) + 1] /\ (Class(n) = 0 \/ n > Fibonacci[Class(n)])
  <2>1. \E i \in 0 .. 7 : n <= Fibonacci[i + 1] /\ (i = 0 \/ n > Fibonacci[i])
    BY <1>2, ClassOf
  <2> DEFINE P(i) == n <= Fibonacci[i + 1] /\ (i = 0 \/ n > Fibonacci[i])
  <2>2. Class(n) = CHOOSE i \in 0 .. 7 : P(i)
    <3>1. ~(n > Fibonacci[8])
      BY <1>1, <1>2
    <3> QED BY <3>1 DEF Class
  <2>3. \E i \in 0 .. 7 : P(i)
    BY <2>1
  <2> HIDE DEF P
  <2>4. Class(n) \in 0 .. 7 /\ P(Class(n))
    BY <2>2, <2>3
  <2> QED BY <2>4 DEF P
<1>3. \A n \in Nat : n > 34 => Class(n) = 8
  BY <1>1 DEF Class
<1>4. \A i, j \in 1 .. 8 : i <= j => Fibonacci[i] <= Fibonacci[j]
  BY <1>1
<1>5. CASE b > 34
  <2>1. Class(a) \in 0 .. 8
    BY Classes
  <2> QED BY <1>3, <1>5, <2>1
<1>6. CASE b <= 34
  <2> DEFINE c == Class(a)
             d == Class(b)
  <2>1. c \in 0 .. 7 /\ (c = 0 \/ a > Fibonacci[c]) /\ d \in 0 .. 7 /\ b <= Fibonacci[d + 1]
    BY <1>2, <1>6
  <2> HIDE DEF c, d
  <2>2. ASSUME c > d
        PROVE  FALSE
    <3>1. Fibonacci[d + 1] <= Fibonacci[c] /\ c # 0
      BY <1>4, <2>1, <2>2
    <3>2. Fibonacci[d + 1] \in Nat /\ Fibonacci[c] \in Nat
      <4>1. \A i \in 1 .. 8 : Fibonacci[i] \in Nat
        BY <1>1
      <4> QED BY <2>1, <3>1, <4>1
    <3> QED BY <2>1, <3>1, <3>2
  <2>3. c <= d
    BY <2>1, <2>2
  <2> QED BY <2>3 DEF c, d
<1> QED BY <1>5, <1>6

\* When no block fits, all the free ones are smaller.
LEMMA NoFit ==
  ASSUME NEW h, NEW B, Sound(h, B, {}), NEW size \in Nat \ {0}, NEW x \in FreeIn(h), size <= x.size
  PROVE  FittingLists(h, size) # {}
<1>1. h \in HeapType /\ x.at \in Listed(h) /\ x.size = Size(h.header[x.at]) /\ x.size \in Nat \ {0}
  <2>1. x \in BlockType
    BY Places
  <2> QED BY <2>1, FreeBlocksOf DEF Sound, Shaped, BlockType
<1>2. PICK i \in 0 .. 9 : x.at \in Range(h.lists[i])
  BY <1>1, ListedCells
<1>3. i = Wilderness \/ i = Class(x.size)
  BY <1>1, <1>2 DEF Sound, Filed, Own
<1>4. i \in Class(size) .. 9
  BY <1>1, <1>2, <1>3, Classes, ClassOrder DEF Wilderness
<1>5. PICK k \in DOMAIN h.lists[i] : h.lists[i][k] = x.at
  BY <1>2 DEF Range
<1>6. k \in Fits(h, i, size)
  BY <1>1, <1>5 DEF Fits
<1> QED BY <1>4, <1>6 DEF FittingLists

-----------------------------------------------------------------------------
(* More pages. *)

\* The heap u with k more pages, where they have been made part of the free block z.
Longer(u, k, z, j, p) ==
    LET last == Epilogue(u) + k * PageUnits
        own  == Word(z.size, p, 0)
    IN  [u EXCEPT !.pages = @ + k,
                  !.header = [@ EXCEPT ![Epilogue(u)] = j, ![z.at] = own, ![last] = 1],
                  !.footer[last] = own]

\* A heap whose last part z is being made.
Begun(u, B, z, k) ==
    /\ Shaped(u) /\ Filed(u) /\ k \in Nat \ {0} /\ u.pages + k <= MaxPages
    /\ z \in BlockType /\ z.at <= Epilogue(u) /\ End(z) = Epilogue(u) + k * PageUnits
    /\ Tiles(B \cup {z} \cup FreeIn(u), End(z)) /\ z \notin B \cup FreeIn(u)
    /\ \A y \in FreeIn(u) : Headed(u, y)
    /\ \A y \in B : Allocated(u, y)
    /\ NextBit(u, FreeIn(u), B) /\ Apart(FreeIn(u)) /\ Before(FreeIn(u), z.at) = {}

\* What is then the case.
Ready(u, g, B, z, k, p) ==
    /\ g.header[z.at] = Word(z.size, p, 0)
    /\ Sound(g, B, {z}) /\ FreeIn(g) = FreeIn(u) /\ Epilogue(g) = End(z)
    /\ g.pages = u.pages + k /\ g.fault = u.fault
    /\ \A y \in B \cup FreeIn(u) : g.header[y.at] = u.header[y.at] /\ y.at < z.at /\ End(y) <= z.at
    /\ \A c \in Cells : c # End(z) => g.footer[c] = u.footer[c]

\* Where the epilogue is after k more pages.
LEMMA PagesMore ==
  ASSUME NEW u, Shaped(u), NEW k \in Nat \ {0}, u.pages + k <= MaxPages
  PROVE  LET last == Epilogue(u) + k * PageUnits
         IN  /\ last = (u.pages + k) * PageUnits - 2 /\ last \in Cells /\ last \in Nat \ {0}
             /\ Epilogue(u) < last /\ k * PageUnits \in Nat \ {0}
<1>1. PICK p \in Nat : p = u.pages /\ 1 <= p /\ p + k <= MaxPages
  BY SfmmAssumption DEF Shaped
<1>2. PageUnits \in Nat /\ PageUnits > 2 /\ MaxPages \in Nat
  BY SfmmAssumption
<1>3. (p + k) * PageUnits = p * PageUnits + k * PageUnits /\ p * PageUnits \in Nat /\ k * PageUnits \in Nat
  BY <1>1, <1>2
<1>4. (p + k) * PageUnits <= MaxPages * PageUnits /\ MaxPages * PageUnits \in Nat
  <2>1. PICK d \in Nat : MaxPages = p + k + d
    <3>1. MaxPages - (p + k) \in Nat /\ MaxPages = p + k + (MaxPages - (p + k))
      BY <1>1, <1>2
    <3> QED BY <3>1
  <2>2. MaxPages * PageUnits = (p + k) * PageUnits + d * PageUnits /\ d * PageUnits \in Nat
    BY <1>1, <1>2, <2>1
  <2> QED BY <1>1, <1>2, <1>3, <2>2
<1>5. k * PageUnits >= PageUnits /\ p * PageUnits >= PageUnits
  <2>1. \A n \in Nat \ {0} : n * PageUnits >= PageUnits
    BY <1>2
  <2> QED BY <1>1, <2>1
<1> QED BY <1>1, <1>2, <1>3, <1>4, <1>5 DEF Epilogue, Cells

\* A heap with more pages, before its last part is filed.
LEMMA LongerSound ==
  ASSUME NEW u, NEW B, NEW z, NEW k, Begun(u, B, z, k), NEW j \in Nat, NEW p \in Bit
  PROVE  Ready(u, Longer(u, k, z, j, p), B, z, k, p)
<1> DEFINE last == Epilogue(u) + k * PageUnits
           own == Word(z.size, p, 0)
           H == [u.header EXCEPT ![Epilogue(u)] = j, ![z.at] = own, ![last] = 1]
           G == [u.footer EXCEPT ![last] = own]
           g == Longer(u, k, z, j, p)
           F == FreeIn(u)
           T == B \cup {z} \cup F
<1>1. /\ Shaped(u) /\ Filed(u) /\ k \in Nat \ {0} /\ u.pages + k <= MaxPages
      /\ z \in BlockType /\ z.at <= Epilogue(u) /\ End(z) = last
      /\ Tiles(T, last) /\ z \notin B \cup F
      /\ (\A y \in F : Headed(u, y)) /\ (\A y \in B : Allocated(u, y))
      /\ NextBit(u, F, B) /\ Apart(F) /\ Before(F, z.at) = {}
  BY DEF Begun
<1>2. /\ last = (u.pages + k) * PageUnits - 2 /\ last \in Cells /\ last \in Nat \ {0}
      /\ Epilogue(u) < last
  BY <1>1, PagesMore
<1>3. u \in HeapType /\ Epilogue(u) \in Cells /\ Epilogue(u) \in Nat \ {0} /\ 0 \in Cells
  BY <1>1, Ends DEF Shaped
<1> HIDE DEF last, T
<1>4. ASSUME NEW y \in T
      PROVE  /\ y \in BlockType /\ y.at \in Nat /\ End(y) \in Nat /\ y.at < End(y) /\ End(y) <= last
             /\ y.at \in Cells /\ End(y) \in Cells
             /\ y # z => End(y) <= z.at
  <2>1. y \in BlockType /\ End(y) <= last /\ (y = z \/ End(y) <= z.at \/ End(z) <= y.at)
    BY <1>1 DEF Tiles, T
  <2>2. y.at \in Nat /\ End(y) \in Nat /\ y.at < End(y)
    BY <2>1, BlockIs
  <2>3. \A c \in Nat : c <= last => c \in Cells
    BY <1>2, SfmmAssumption DEF Cells
  <2> QED BY <1>1, <1>2, <2>1, <2>2, <2>3
<1>5. /\ z \in T /\ z.at \in Nat /\ z.size \in Nat /\ z.at # last
      /\ \A y \in B \cup F : y \in T /\ y # z
  <2>1. z \in T /\ z.size \in Nat
    BY <1>1 DEF T, BlockType
  <2> QED BY <1>1, <1>4, <2>1 DEF T
<1>6. \A y \in B \cup F : End(y) <= z.at /\ y.at < z.at
  BY <1>4, <1>5
<1>7. own \in Nat /\ PrevBit(own) = p /\ AllocBit(own) = 0
  BY <1>5, WordParts DEF Bit
<1> HIDE DEF own
<1>8. /\ H \in [Cells -> Nat \cup {Data}] /\ H[z.at] = own /\ H[last] = 1
      /\ \A c \in Cells : c # Epilogue(u) /\ c # z.at /\ c # last => H[c] = u.header[c]
  <2>1. u.header \in [Cells -> Nat \cup {Data}] /\ z.at \in Cells
    BY <1>3, <1>4, <1>5 DEF HeapType
  <2> QED BY <1>2, <1>3, <1>5, <1>7, <2>1
<1>9. /\ G \in [Cells -> Nat \cup {Data}] /\ G[last] = own
      /\ \A c \in Cells : c # last => G[c] = u.footer[c]
  <2>1. u.footer \in [Cells -> Nat \cup {Data}]
    BY <1>3 DEF HeapType
  <2> QED BY <1>2, <1>7, <2>1
<1>10. g = [u EXCEPT !.pages = @ + k, !.header = H, !.footer = G]
  BY <1>3 DEF Longer, own, last, HeapType
<1> HIDE DEF H, G
<1>a. u.pages \in Nat /\ u.pages + k \in Nat /\ u.pages + k \in 1 .. MaxPages
  <2>1. u.pages \in 1 .. MaxPages /\ k \in Nat \ {0} /\ u.pages + k <= MaxPages /\ MaxPages \in Nat
    BY <1>1, SfmmAssumption DEF Shaped
  <2> QED BY <2>1
<1>11. /\ g \in HeapType /\ g.pages = u.pages + k /\ g.header = H /\ g.footer = G
       /\ g.lists = u.lists /\ g.fault = u.fault
  BY <1>a, <1>3, <1>8, <1>9, <1>10 DEF HeapType
<1> HIDE DEF g
<1>12. Epilogue(g) = last /\ Listed(g) = Listed(u)
  BY <1>2, <1>11 DEF Epilogue, Listed
<1>13. \A y \in B \cup F : g.header[y.at] = u.header[y.at]
  BY <1>1, <1>2, <1>3, <1>4, <1>5, <1>6, <1>8, <1>11
<1>14. \A c \in Listed(u) : g.header[c] = u.header[c]
  <2>1. ASSUME NEW c \in Listed(u)
        PROVE  g.header[c] = u.header[c]
    <3>1. PICK y \in F : y.at = c
      BY FreeBlocksOf
    <3> QED BY <1>13, <3>1
  <2> QED BY <2>1
<1>15. FreeIn(g) = F
  BY <1>12, <1>14 DEF FreeIn
<1>16. Shaped(g)
  <2>1. g.footer[0] = u.footer[0]
    BY <1>2, <1>3, <1>9, <1>11
  <2>2. g.pages \in 1 .. MaxPages
    BY <1>a, <1>11
  <2> QED BY <1>1, <1>11, <2>1, <2>2 DEF Shaped
<1>17. Filed(g)
  <2>1. ASSUME NEW i \in 0 .. 9, NEW c \in Range(u.lists[i])
        PROVE  i = Own(g, c)
    <3>1. c \in Listed(u)
      BY <1>3, ListedCells
    <3> DEFINE y == Block(c, Size(u.header[c]))
    <3>2. y \in F /\ c + Size(u.header[c]) = End(y)
      BY <3>1, FreeBlocksOf DEF Block, End
    <3> HIDE DEF y
    <3>3. End(y) # Epilogue(u)
      <4>1. End(y) # z.at /\ End(y) <= z.at
        BY <1>1, <1>6, <3>2 DEF Before
      <4> QED BY <1>1, <1>3, <1>4, <1>5, <3>2, <4>1
    <3>4. End(y) # last
      <4>1. End(y) <= z.at /\ z.at < last
        BY <1>1, <1>4, <1>5, <1>6, <3>2
      <4> QED BY <1>2, <1>4, <1>5, <3>2, <4>1
    <3>5. i = Own(u, c) /\ ~IsWilderness(u, c)
      BY <1>1, <3>2, <3>3 DEF Filed, IsWilderness
    <3>6. ~IsWilderness(g, c) /\ g.header[c] = u.header[c]
      BY <1>12, <1>14, <3>1, <3>2, <3>4 DEF IsWilderness
    <3> QED BY <3>5, <3>6 DEF Own
  <2> QED BY <1>1, <1>11, <2>1 DEF Filed, Once
<1>18. Tiles(B \cup {z} \cup FreeIn(g), Epilogue(g))
  BY <1>1, <1>12, <1>15 DEF T
<1>19. \A y \in {z} : y.at \notin Listed(g)
  <2>1. \A y \in F : y.at # z.at
    BY <1>4, <1>5, <1>6
  <2> QED BY <1>12, <2>1, FreeBlocksOf
<1>20. \A y \in {z} \cup FreeIn(g) : Headed(g, y)
  <2>1. Headed(g, z)
    BY <1>1, <1>8, <1>9, <1>11 DEF Headed, own
  <2>2. ASSUME NEW y \in F
        PROVE  Headed(g, y)
    <3>1. g.footer[End(y)] = u.footer[End(y)]
      <4>1. End(y) # last
        BY <1>1, <1>2, <1>4, <1>5, <1>6
      <4> QED BY <1>4, <1>5, <1>9, <1>11, <4>1
    <3> QED BY <1>1, <1>13, <3>1 DEF Headed
  <2> QED BY <1>15, <2>1, <2>2
<1>21. \A y \in B : Allocated(g, y)
  BY <1>1, <1>13 DEF Allocated
<1>22. LastBit(g, {z} \cup FreeIn(g))
  <2>1. M * 0 = 0
    BY SfmmAssumption
  <2>2. Word(0, 0, 1) = 1
    BY <2>1 DEF Word
  <2> QED BY <1>1, <1>8, <1>11, <1>12, <2>2 DEF LastBit
<1>23. NextBit(g, {z} \cup FreeIn(g), B)
  <2>1. \A y \in B : End(z) # y.at
    BY <1>1, <1>4, <1>5, <1>6
  <2> QED BY <1>1, <1>13, <1>15, <2>1 DEF NextBit
<1>24. \A x \in FreeIn(g), y \in {z} : End(x) = y.at => PrevBit(g.header[y.at]) = 0
  BY <1>1, <1>15 DEF Before
<1>25. Sound(g, B, {z})
  BY <1>1, <1>15, <1>16, <1>17, <1>18, <1>19, <1>20, <1>21, <1>22, <1>23, <1>24 DEF Sound
<1> QED BY <1>1, <1>6, <1>8, <1>9, <1>11, <1>12, <1>13, <1>15, <1>25 DEF Ready, g, F, own

\* The heap g is h with k more pages.
Extended(h, g, B, k) ==
    \E z \in BlockType :
        /\ Sound(g, B, {}) /\ g.pages = h.pages + k /\ g.fault = h.fault /\ End(z) = Epilogue(g)
        /\ FreeIn(g) = (FreeIn(h) \ Before(FreeIn(h), Epilogue(h))) \cup {z}
        /\ \/ Before(FreeIn(h), Epilogue(h)) = {} /\ z.size = k * PageUnits
           \/ \E y \in Before(FreeIn(h), Epilogue(h)) : z.size = y.size + k * PageUnits
        /\ \A y \in B : g.header[y.at] = h.header[y.at]
        /\ \A y \in B \cup FreeIn(g) : Found(g, y.at)

\* From the filing of the last part on, both ways go the same.
LEMMA ExtendFiled ==
  ASSUME NEW h, NEW B, Sound(h, B, {}), \A c \in Cells : Found(h, c), NEW k,
         NEW u, NEW z, NEW g, NEW p, Begun(u, B, z, k), Ready(u, g, B, z, k, p),
         FreeIn(u) = FreeIn(h) \ Before(FreeIn(h), Epilogue(h)),
         \/ Before(FreeIn(h), Epilogue(h)) = {} /\ z.size = k * PageUnits /\ z.at = Epilogue(h)
         \/ \E y \in Before(FreeIn(h), Epilogue(h)) : z.size = y.size + k * PageUnits /\ z.at = y.at,
         u.header = h.header, u.footer = h.footer, u.pages = h.pages, u.fault = h.fault
  PROVE  Extended(h, File(g, z.at), B, k)
<1> DEFINE r == File(g, z.at)
           F == FreeIn(h)
           e == Epilogue(h)
<1>1. /\ Sound(g, B, {z}) /\ FreeIn(g) = FreeIn(u) /\ Epilogue(g) = End(z)
      /\ g.pages = u.pages + k /\ g.fault = u.fault
      /\ \A y \in B \cup FreeIn(u) : g.header[y.at] = u.header[y.at] /\ y.at < z.at /\ End(y) <= z.at
      /\ \A c \in Cells : c # End(z) => g.footer[c] = u.footer[c]
  BY DEF Ready
<1>2. /\ z \in BlockType /\ z.at <= e /\ End(z) = e + k * PageUnits /\ Before(FreeIn(u), z.at) = {}
      /\ Shaped(u) /\ k \in Nat \ {0} /\ u.pages + k <= MaxPages
  BY DEF Begun, Epilogue
<1>3. e \in Nat \ {0} /\ End(z) \in Nat /\ e < End(z) /\ z.at \in Nat /\ z.at < End(z)
  <2>1. e = Epilogue(u)
    BY DEF Epilogue
  <2> QED BY <1>2, <2>1, PagesMore, BlockIs, Ends
<1>4. \A y \in B \cup {z} \cup FreeIn(u) : y.at \in Cells /\ y.at \in Nat /\ y.at # End(z) /\ (y.at < e \/ y = z)
  <2>1. \A y \in B \cup {z} \cup FreeIn(g) : y \in BlockType /\ y.at \in Cells /\ y.at # Epilogue(g)
    BY <1>1, Places
  <2>2. \A y \in B \cup FreeIn(u) : y.at \in Nat /\ y.at < e
    BY <1>1, <1>2, <1>3, <2>1, BlockIs
  <2> QED BY <1>1, <1>3, <2>1, <2>2
<1>5. \A y \in FreeIn(g) : End(y) # z.at /\ y.at # End(z)
  BY <1>1, <1>2, <1>4 DEF Before
<1>6. /\ Sound(r, B, {}) /\ FreeIn(r) = FreeIn(g) \cup {z}
      /\ r.pages = g.pages /\ r.header = g.header /\ r.footer = g.footer /\ r.fault = g.fault
  BY <1>1, <1>5, FileSound
<1> HIDE DEF r, e
<1>7. FreeIn(r) = (F \ Before(F, e)) \cup {z}
  BY <1>1, <1>6 DEF e
<1>8. ASSUME NEW y \in B \cup FreeIn(r)
      PROVE  Found(r, y.at)
  <2>1. y \in B \cup {z} \cup FreeIn(u)
    BY <1>1, <1>6
  <2>2. r.footer[y.at] = h.footer[y.at] /\ Found(h, y.at)
    BY <1>1, <1>4, <1>6, <2>1
  <2>3. CASE y.at < e
    <3>1. y.at # e
      BY <1>3, <1>4, <2>1, <2>3
    <3>2. Before(F, y.at) # {} => Before(FreeIn(r), y.at) # {}
      BY <1>7, <3>1 DEF Before
    <3> QED BY <2>2, <3>2 DEF Found, F
  <2>4. CASE y = z
    <3>1. CASE z.at = e /\ Before(F, e) = {}
      BY <2>2, <2>4, <3>1 DEF Found, F
    <3>2. CASE z.at # e
      <4>2. Before(F, y.at) # {} => Before(FreeIn(r), y.at) # {}
        BY <1>7, <2>4, <3>2 DEF Before
      <4> QED BY <2>2, <4>2 DEF Found, F
    <3>3. z.at = e => Before(F, e) = {}
      <4>1. \A v \in F : v.at < End(v) /\ v.at # e
        BY Places DEF e
      <4> QED BY <4>1 DEF Before, e, F
    <3> QED BY <3>1, <3>2, <3>3
  <2> QED BY <1>4, <2>1, <2>3, <2>4
<1>9. \A y \in B : r.header[y.at] = h.header[y.at]
  BY <1>1, <1>6
<1>10. End(z) = Epilogue(r)
  BY <1>1, <1>6 DEF Epilogue
<1> QED BY <1>1, <1>2, <1>6, <1>7, <1>8, <1>9, <1>10 DEF Extended, r, e

\* extend_wilderness_block.
LEMMA ExtendSound ==
  ASSUME NEW h, NEW B, Sound(h, B, {}), \A c \in Cells : Found(h, c), NEW k \in Nat \ {0},
         h.pages + k <= MaxPages
  PROVE  Extended(h, Extend(h, k), B, k)
<1> DEFINE F == FreeIn(h)
           b == Epilogue(h)
           n == k * PageUnits
           last == b + n
           bit == PrevBit(h.header[b])
           word == Word(n, bit, 0)
           new == [h EXCEPT !.pages = @ + k]
           H1 == [h.header EXCEPT ![b] = word, ![last] = 1]
           K1 == [h.footer EXCEPT ![last] = word]
           g == [h EXCEPT !.pages = h.pages + k, !.header = H1, !.footer = K1]
           T == B \cup F
<1>1. {} \cup F = F /\ B \cup {} \cup F = T
  OBVIOUS
<1>2. /\ Shaped(h) /\ Filed(h) /\ Tiles(T, b)
      /\ (\A y \in F : Headed(h, y)) /\ (\A y \in B : Allocated(h, y))
      /\ LastBit(h, F) /\ NextBit(h, F, B) /\ Apart(F)
  BY <1>1 DEF Sound
<1>3. /\ h \in HeapType /\ b \in Cells /\ b \in Nat \ {0} /\ last \in Cells /\ last \in Nat \ {0}
      /\ b < last /\ n \in Nat \ {0} /\ last = (h.pages + k) * PageUnits - 2
  BY <1>2, Ends, PagesMore DEF Shaped
<1>4. bit = (IF Before(F, b) = {} THEN 1 ELSE 0)
  BY <1>2, WordParts DEF LastBit, Before, Bit
<1>5. bit \in Bit
  BY <1>4 DEF Bit
<1>6. word \in Nat /\ Size(word) = n /\ PrevBit(word) = bit
  BY <1>3, <1>5, WordParts DEF Bit
<1>7. AllocBit(1) = 1
  BY DEF AllocBit
<1> HIDE DEF F, b, n, last, bit, word
<1>8. Extend(h, k) = Merge(g, b)
  <2>1. Epilogue(new) = last
    BY <1>3 DEF Epilogue, HeapType
  <2>2. [new EXCEPT !.header[b] = word, !.header[last] = 1, !.footer[last] = word] = g
    <3>1. [new EXCEPT !.header[b] = word, !.header[last] = 1, !.footer[last] = word]
          = [new EXCEPT !.header = [new.header EXCEPT ![b] = word, ![last] = 1],
                        !.footer = [new.footer EXCEPT ![last] = word]]
      BY <1>3 DEF HeapType
    <3> QED BY <1>3, <3>1 DEF HeapType
  <2>3. Extend(h, k) = Merge([new EXCEPT !.header[b] = word, !.header[Epilogue(new)] = 1,
                                         !.footer[Epilogue(new)] = word], b)
    BY DEF Extend, b, word, n, bit
  <2> HIDE DEF new, g
  <2> QED BY <2>1, <2>2, <2>3
<1>9. /\ g.pages = h.pages + k /\ g.lists = h.lists /\ g.fault = h.fault
      /\ g.header = H1 /\ g.footer = K1
  BY <1>3 DEF HeapType
<1>10. /\ g.header[b] = word /\ g.header[last] = 1
       /\ \A c \in Cells : c # b /\ c # last => g.header[c] = h.header[c]
       /\ \A c \in Cells : c # last => g.footer[c] = h.footer[c]
  <2>1. h.header \in [Cells -> Nat \cup {Data}] /\ h.footer \in [Cells -> Nat \cup {Data}]
    BY <1>3 DEF HeapType
  <2>2. b # last
    BY <1>3
  <2> QED BY <1>3, <1>9, <2>1, <2>2
<1> HIDE DEF g
<1>11. MergeNext(g, b) = g
  BY <1>6, <1>7, <1>10 DEF MergeNext, last
<1>12. Merge(g, b) = MergePrev(g, b, bit)
  BY <1>6, <1>10, <1>11 DEF Merge
<1>13. CASE Before(F, b) = {}
  <2> DEFINE z == Block(b, n)
             l == Longer(h, k, z, word, 1)
  <2>1. z \in BlockType /\ z.at = b /\ z.size = n /\ End(z) = last
    BY <1>3, BlockFields DEF last
  <2>2. Tiles(T \cup {z}, last)
    BY <1>2, <1>3, AddTile DEF last
  <2>3. \A y \in T : y.at # b
    <3>1. \A y \in B \cup {} \cup F : y.at # Epilogue(h)
      BY Places DEF F
    <3> QED BY <3>1 DEF b
  <2> HIDE DEF z
  <2>4. Begun(h, B, z, k)
    <3>1. B \cup {z} \cup FreeIn(h) = T \cup {z}
      BY DEF F
    <3>2. z \notin B \cup FreeIn(h)
      BY <2>1, <2>3 DEF F
    <3>3. z.at <= Epilogue(h) /\ End(z) = Epilogue(h) + k * PageUnits
      BY <1>3, <2>1 DEF b, last, n
    <3> QED BY <1>2, <1>13, <2>1, <2>2, <3>1, <3>2, <3>3 DEF Begun, F, b
  <2>5. Ready(h, l, B, z, k, 1)
    BY <1>6, <2>4, LongerSound DEF Bit
  <2>6. l = g
    <3>1. word = Word(z.size, 1, 0)
      BY <1>4, <1>13, <2>1 DEF word
    <3>2. [h.header EXCEPT ![b] = word, ![b] = word, ![last] = 1] = [h.header EXCEPT ![b] = word, ![last] = 1]
      <4>1. h.header \in [Cells -> Nat \cup {Data}]
        BY <1>3 DEF HeapType
      <4> QED BY <4>1
    <3>3. l = [h EXCEPT !.pages = @ + k, !.header = [@ EXCEPT ![b] = word, ![b] = word, ![last] = 1], !.footer[last] = word]
      BY <2>1, <3>1 DEF Longer, b, last, n
    <3> QED BY <1>3, <3>2, <3>3 DEF HeapType, g
  <2> HIDE DEF l
  <2>7. Merge(g, b) = File(g, z.at)
    BY <1>4, <1>12, <1>13, <2>1 DEF MergePrev
  <2>8. Extended(h, File(g, z.at), B, k)
    <3>1. FreeIn(h) = FreeIn(h) \ Before(FreeIn(h), Epilogue(h))
      BY <1>13 DEF F, b
    <3>2. Before(FreeIn(h), Epilogue(h)) = {} /\ z.size = k * PageUnits /\ z.at = Epilogue(h)
      BY <1>13, <2>1 DEF F, b, n
    <3> QED BY <2>4, <2>5, <2>6, <3>1, <3>2, ExtendFiled
  <2> QED BY <1>8, <2>7, <2>8
<1>14. CASE Before(F, b) # {}
  <2>1. PICK y \in F : End(y) = b
    BY <1>14 DEF Before
  <2>2. /\ y \in BlockType /\ y = Block(y.at, y.size) /\ y.at \in Cells /\ y.at \in Nat /\ y.size \in Nat \ {0}
        /\ y.at < b /\ b = y.at + y.size /\ y.at # last
    <3>1. y \in BlockType /\ y = Block(y.at, y.size) /\ y.at \in Cells
      BY Places DEF F
    <3> QED BY <1>3, <2>1, <3>1, BlockIs DEF End
  <2>3. Before(F, b) = {y}
    BY <1>2, <1>3, <2>1, OneBlock DEF Before
  <2>4. PICK p \in Bit : h.header[y.at] = Word(y.size, p, 0)
    BY <1>2 DEF Headed
  <2>5. h.footer[b] = Word(y.size, p, 0) /\ Size(h.footer[b]) = y.size /\ h.footer[b] # Data
    <3>1. h.footer[b] = h.header[y.at]
      BY <1>2, <2>1 DEF Headed
    <3> QED BY <2>2, <2>4, <3>1, WordParts DEF Bit, Data
  <2> DEFINE u == Unlist(h, y.at)
             z == Block(y.at, y.size + n)
             own == Word(z.size, p, 0)
             l == Longer(u, k, z, word, p)
             L == [i \in 0 .. 9 |-> Without(h.lists[i], y.at)]
  <2>6. /\ Hole(u, B, y) /\ FreeIn(u) = F \ {y}
        /\ u.header = h.header /\ u.footer = h.footer /\ u.pages = h.pages /\ u.fault = h.fault
        /\ Before(FreeIn(u), y.at) = {}
    BY HoleOfFree DEF Unfiled, F
  <2>7. u = [h EXCEPT !.lists = L]
    BY DEF Unlist
  <2>8. z \in BlockType /\ z.at = y.at /\ z.size = y.size + n /\ End(z) = last
    <3>1. y.size + n \in Nat \ {0} /\ y.at + (y.size + n) = last
      BY <1>3, <2>2 DEF last
    <3> QED BY <2>2, <3>1, BlockFields
  <2> HIDE DEF u, L, z
  <2>9. Begun(u, B, z, k)
    <3>1. Epilogue(u) = b
      BY <2>6 DEF Epilogue, b
    <3>2. Tiles(B \cup {y} \cup FreeIn(u), b) /\ y \notin B \cup FreeIn(u)
      BY <2>6, <3>1 DEF Hole
    <3> DEFINE U == B \cup {y} \cup FreeIn(u)
               x == Block(b, n)
    <3>3. Tiles(U \cup {x}, last) /\ x \in BlockType /\ x.at = b
      BY <1>3, <3>2, AddTile, BlockFields DEF last
    <3>4. x = Block(y.at + y.size, n) /\ y = Block(y.at, y.size)
      BY <2>2
    <3>5. \A v \in U : v.at # b
      BY <2>6, <3>1, HolePlaces
    <3> HIDE DEF x
    <3>6. Tiles(((U \cup {x}) \ {y, x}) \cup {z}, last)
      BY <1>3, <2>2, <3>3, <3>4, JoinTiles DEF z
    <3>7. ((U \cup {x}) \ {y, x}) \cup {z} = B \cup {z} \cup FreeIn(u)
      BY <3>2, <3>3, <3>5
    <3>8. z \notin B \cup FreeIn(u)
      <4>1. \A v \in B \cup FreeIn(u) : v.at # y.at
        BY <2>6, HolePlaces
      <4> QED BY <2>8, <4>1
    <3>9. z.at <= Epilogue(u) /\ End(z) = Epilogue(u) + k * PageUnits
      BY <1>3, <2>2, <2>8, <3>1 DEF last, n
    <3>10. /\ Shaped(u) /\ Filed(u) /\ (\A v \in FreeIn(u) : Headed(u, v)) /\ (\A v \in B : Allocated(u, v))
           /\ NextBit(u, FreeIn(u), B) /\ Apart(FreeIn(u)) /\ Before(FreeIn(u), z.at) = {}
      BY <2>6, <2>8 DEF Hole
    <3>11. Tiles(B \cup {z} \cup FreeIn(u), End(z))
      BY <2>8, <3>6, <3>7
    <3> QED BY <2>6, <2>8, <3>8, <3>9, <3>10, <3>11 DEF Begun
  <2>10. Ready(u, l, B, z, k, p)
    BY <1>6, <2>9, LongerSound
  <2>11. l = [Unlist(g, y.at) EXCEPT !.header[y.at] = own, !.footer[last] = own]
    <3> DEFINE H == [h.header EXCEPT ![b] = word, ![y.at] = own, ![last] = 1]
               K == [h.footer EXCEPT ![last] = own]
               R == [h EXCEPT !.pages = h.pages + k, !.header = H, !.footer = K, !.lists = L]
    <3>1. h.header \in [Cells -> Nat \cup {Data}] /\ h.footer \in [Cells -> Nat \cup {Data}]
      BY <1>3 DEF HeapType
    <3>2. H = [H1 EXCEPT ![y.at] = own]
      BY <1>3, <2>2, <3>1
    <3>3. K = [K1 EXCEPT ![last] = own]
      BY <1>3, <3>1
    <3>4. Epilogue(u) = b
      BY <2>6 DEF Epilogue, b
    <3>5. l = R
      <4>1. l = [u EXCEPT !.pages = @ + k,
                          !.header = [@ EXCEPT ![b] = word, ![y.at] = own, ![last] = 1],
                          !.footer[last] = own]
        BY <2>8, <3>4 DEF Longer, last, n
      <4> QED BY <1>3, <2>7, <4>1 DEF HeapType
    <3> HIDE DEF H, K, H1, K1
    <3>6. Unlist(g, y.at) = [h EXCEPT !.pages = h.pages + k, !.header = H1, !.footer = K1, !.lists = L]
      <4>1. Unlist(g, y.at) = [g EXCEPT !.lists = L]
        BY <1>9 DEF Unlist, L
      <4> QED BY <1>3, <4>1 DEF HeapType, g
    <3>7. [Unlist(g, y.at) EXCEPT !.header[y.at] = own, !.footer[last] = own] = R
      BY <1>3, <3>2, <3>3, <3>6 DEF HeapType
    <3> QED BY <3>5, <3>7
  <2>12. Merge(g, b) = File(l, z.at)
    <3>1. PrevBlock(g, b) = y.at
      <4>1. g.footer[b] = h.footer[b]
        BY <1>3, <1>10
      <4> QED BY <2>2, <2>5, <4>1 DEF PrevBlock
    <3>2. y.at \in Listed(g)
      <4>1. y.at \in Listed(h)
        BY FreeBlocksOf DEF F
      <4> QED BY <1>9, <4>1 DEF Listed
    <3>3. g.header[y.at] + M * Size(g.header[b]) = own
      <4>1. g.header[y.at] = Word(y.size, p, 0)
        BY <1>10, <2>2, <2>4
      <4>2. M * y.size + M * n = M * (y.size + n) /\ M * y.size \in Int /\ M * n \in Int
        BY <1>3, <2>2, SfmmAssumption
      <4> QED BY <1>6, <1>10, <2>8, <4>1, <4>2 DEF Word, Bit
    <3>4. b + Size(g.header[b]) = last
      BY <1>6, <1>10 DEF last
    <3>5. bit = 0
      BY <1>4, <1>14
    <3> HIDE DEF own, l
    <3>6. MergePrev(g, b, bit) = File([Unlist(g, y.at) EXCEPT !.header[y.at] = own, !.footer[last] = own], y.at)
      <4> DEFINE prev == PrevBlock(g, b)
                 s == g.header[prev] + M * Size(g.header[b])
                 c == b + Size(g.header[b])
      <4>1. MergePrev(g, b, bit) = File([Unlist(g, prev) EXCEPT !.header[prev] = s, !.footer[c] = s], prev)
        BY <3>1, <3>2, <3>5 DEF MergePrev
      <4>2. prev = y.at /\ s = own /\ c = last
        BY <3>1, <3>3, <3>4
      <4> HIDE DEF prev, s, c
      <4> QED BY <4>1, <4>2
    <3> QED BY <1>12, <2>8, <2>11, <3>6
  <2> HIDE DEF l
  <2>13. Extended(h, File(l, z.at), B, k)
    <3>1. FreeIn(u) = FreeIn(h) \ Before(FreeIn(h), Epilogue(h))
      BY <2>3, <2>6 DEF F, b
    <3>2. \E v \in Before(FreeIn(h), Epilogue(h)) : z.size = v.size + k * PageUnits /\ z.at = v.at
      <4>1. y \in Before(FreeIn(h), Epilogue(h))
        BY <2>3 DEF F, b
      <4> QED BY <2>8, <4>1 DEF n
    <3> QED BY <2>6, <2>9, <2>10, <3>1, <3>2, ExtendFiled
  <2> QED BY <1>8, <2>12, <2>13
<1> QED BY <1>13, <1>14

\* The pages for some units are enough, and none of them is too many.
LEMMA PagesEnough ==
  ASSUME NEW u \in Nat \ {0}
  PROVE  /\ PagesFor(u) \in Nat \ {0} /\ u <= PagesFor(u) * PageUnits
         /\ PagesFor(u) * PageUnits < u + PageUnits
<1>1. PageUnits \in Nat /\ PageUnits > 2
  BY SfmmAssumption
<1> DEFINE a == u + PageUnits - 1
           k == a \div PageUnits
<1>2. a \in Nat /\ a >= PageUnits
  BY <1>1
<1> HIDE DEF a
<1>3. /\ k \in Int /\ a = PageUnits * k + (a % PageUnits) /\ a % PageUnits \in 0 .. PageUnits - 1
  BY <1>1, <1>2
<1> HIDE DEF k
<1>4. k >= 1
  <2>1. k <= 0 => PageUnits * k <= 0
    BY <1>1, <1>3
  <2> QED BY <1>1, <1>2, <1>3, <2>1
<1>5. PageUnits * k = k * PageUnits /\ PageUnits * k \in Int
  BY <1>1, <1>3
<1>6. u <= k * PageUnits /\ k * PageUnits < u + PageUnits
  BY <1>1, <1>3, <1>5 DEF a
<1> QED BY <1>3, <1>4, <1>6 DEF PagesFor, a, k

\* A heap that has got its first pages.
Begins(g, n) ==
    /\ Sound(g, {}, {}) /\ FreeIn(g) = {Block(0, n)} /\ g.fault = "none" /\ Found(g, 0) /\ Epilogue(g) = n
    /\ g.pages > 0

\* The first call sets up one free block.
LEMMA StartSound ==
  ASSUME NEW h \in HeapType, h.pages = 0, \A i \in 0 .. 9 : h.lists[i] = << >>, NEW size \in Nat \ {0},
         PagesFor(size + 2) <= MaxPages
  PROVE  \E n \in Nat \ {0} : Begins(Start(h, size), n) /\ size <= n /\ n < size + PageUnits
<1> DEFINE p == PagesFor(size + 2)
           n == p * PageUnits - 2
           word == Word(n, 1, 0)
           one == Word(1, 1, 1)
           H == [h.header EXCEPT ![0] = word, ![n] = 1]
           G == [h.footer EXCEPT ![0] = one, ![n] = word]
           L == [h.lists EXCEPT ![Wilderness] = <<0>>]
           g == Start(h, size)
           x == Block(0, n)
<1>1. p \in Nat \ {0} /\ p <= MaxPages /\ n \in Nat \ {0} /\ size <= n /\ n < size + PageUnits
  <2>1. PageUnits \in Nat /\ PageUnits > 2 /\ size + 2 \in Nat \ {0}
    BY SfmmAssumption
  <2>2. /\ p \in Nat \ {0} /\ size + 2 <= p * PageUnits /\ p * PageUnits < (size + 2) + PageUnits
    BY <2>1, PagesEnough
  <2> DEFINE pu == p * PageUnits
  <2>3. pu \in Nat
    <3> HIDE DEF p
    <3> QED BY <2>1, <2>2
  <2>4. size + 2 <= pu /\ pu < (size + 2) + PageUnits /\ n = pu - 2
    BY <2>2
  <2> HIDE DEF p, n, pu
  <2>5. n \in Nat \ {0} /\ size <= n /\ n < size + PageUnits
    BY <2>1, <2>3, <2>4
  <2>6. p <= MaxPages
    BY DEF p
  <2> QED BY <2>2, <2>5, <2>6
<1>2. n \in Cells /\ 0 \in Cells /\ n # 0
  <2>1. p * PageUnits <= MaxPages * PageUnits /\ p * PageUnits \in Nat /\ MaxPages * PageUnits \in Nat
    <3> HIDE DEF p, n
    <3>1. PageUnits \in Nat /\ PageUnits > 2 /\ MaxPages \in Nat
      BY SfmmAssumption
    <3>2. PICK d \in Nat : MaxPages = p + d
      <4>1. MaxPages - p \in Nat /\ MaxPages = p + (MaxPages - p)
        BY <1>1, <3>1
      <4> QED BY <4>1
    <3>3. MaxPages * PageUnits = p * PageUnits + d * PageUnits /\ d * PageUnits \in Nat /\ p * PageUnits \in Nat
      BY <1>1, <3>1, <3>2
    <3> QED BY <3>1, <3>3
  <2> QED BY <1>1, <2>1 DEF Cells
<1> HIDE DEF p, n
<1>3. word \in Nat /\ Size(word) = n /\ AllocBit(word) = 0 /\ one \in Nat /\ word = Word(n, 1, 0)
  <2>1. n \in Nat /\ 1 \in Nat /\ 0 \in Bit /\ 1 \in Bit
    BY <1>1 DEF Bit
  <2>2. \A k \in Nat : \A q, a \in Bit :
           Word(k, q, a) \in Nat /\ Size(Word(k, q, a)) = k /\ AllocBit(Word(k, q, a)) = a
    BY WordParts
  <2> HIDE DEF one, word
  <2>3. word \in Nat /\ Size(word) = n /\ AllocBit(word) = 0
    <3>1. word \in Nat
      BY <2>1, <2>2 DEF word
    <3>2. Size(word) = n
      BY <2>1, <2>2 DEF word
    <3>3. AllocBit(word) = 0
      BY <2>1, <2>2 DEF word
    <3> QED BY <3>1, <3>2, <3>3
  <2>4. Word(1, 1, 1) \in Nat
    BY <2>1, <2>2
  <2> QED BY <2>3, <2>4 DEF word, one
<1>4. x \in BlockType /\ x.at = 0 /\ x.size = n /\ End(x) = n
  <2>1. 0 \in Nat /\ n \in Nat \ {0} /\ 0 + n = n
    BY <1>1
  <2> QED BY <2>1, BlockFields
<1> HIDE DEF word, one, x
<1>5. g = [h EXCEPT !.pages = p, !.header = H, !.footer = G, !.lists = L, !.fault = "none"]
  BY <1>1 DEF Start, p, n, word, one, HeapType
<1>6. /\ H \in [Cells -> Nat \cup {Data}] /\ H[0] = word /\ H[n] = 1
      /\ G \in [Cells -> Nat \cup {Data}] /\ G[0] = one /\ G[n] = word
  <2>1. h.header \in [Cells -> Nat \cup {Data}] /\ h.footer \in [Cells -> Nat \cup {Data}]
    BY DEF HeapType
  <2>2. n # 0 /\ 1 \in Nat \cup {Data} /\ one \in Nat \cup {Data} /\ word \in Nat \cup {Data}
    BY <1>2, <1>3
  <2>3. H \in [Cells -> Nat \cup {Data}] /\ H[0] = word /\ H[n] = 1
    BY <1>2, <2>1, <2>2
  <2>4. G \in [Cells -> Nat \cup {Data}] /\ G[0] = one /\ G[n] = word
    BY <1>2, <2>1, <2>2
  <2> QED BY <2>3, <2>4
<1>7. /\ L \in [0 .. 9 -> Seq(Cells)] /\ L[9] = <<0>> /\ \A i \in 0 .. 8 : L[i] = << >>
  <2>1. h.lists \in [0 .. 9 -> Seq(Cells)] /\ 9 \in 0 .. 9 /\ <<0>> \in Seq(Cells)
    BY <1>2 DEF HeapType
  <2>2. \A i \in 0 .. 8 : i \in 0 .. 9 /\ i # 9
    OBVIOUS
  <2> QED BY <2>1, <2>2 DEF Wilderness
<1> HIDE DEF H, G, L
<1>8. /\ g \in HeapType /\ g.pages = p /\ g.header = H /\ g.footer = G /\ g.lists = L /\ g.fault = "none"
  BY <1>1, <1>5, <1>6, <1>7 DEF HeapType, Faults
<1> HIDE DEF g
<1>9. Epilogue(g) = n
  BY <1>8 DEF Epilogue, n
<1>10. Range(L[9]) = {0} /\ \A i \in 0 .. 8 : Range(L[i]) = {}
  BY <1>7 DEF Range
<1>11. Listed(g) = {0}
  <2>1. 9 \in 0 .. 9 /\ \A i \in 0 .. 9 : i = 9 \/ i \in 0 .. 8
    OBVIOUS
  <2> QED BY <1>8, <1>10, <2>1 DEF Listed
<1>12. FreeIn(g) = {x}
  <2>1. Size(g.header[0]) = n
    BY <1>3, <1>6, <1>8
  <2> QED BY <1>11, <2>1 DEF FreeIn, x
<1>13. Shaped(g)
  BY <1>1, <1>6, <1>8, SfmmAssumption DEF Shaped, one
<1>14. Filed(g)
  <2>1. Once(g)
    <3>1. ASSUME NEW i \in 0 .. 9
          PROVE  IsInjective(g.lists[i])
      <4>1. IsInjective(<<0>>) /\ IsInjective(<< >>)
        BY DEF IsInjective
      <4>2. i = 9 \/ i \in 0 .. 8
        OBVIOUS
      <4> QED BY <1>7, <1>8, <4>1, <4>2
    <3> QED BY <3>1 DEF Once
  <2>2. ASSUME NEW i \in 0 .. 9, NEW b \in Range(g.lists[i])
        PROVE  i = Own(g, b)
    <3>1. i = 9 /\ b = 0
      <4>1. i = 9 \/ i \in 0 .. 8
        OBVIOUS
      <4> QED BY <1>8, <1>10, <2>2, <4>1
    <3>2. IsWilderness(g, 0)
      BY <1>1, <1>3, <1>6, <1>8, <1>9 DEF IsWilderness
    <3> QED BY <3>1, <3>2 DEF Own, Wilderness
  <2> QED BY <2>1, <2>2 DEF Filed
<1>15. Tiles({} \cup {} \cup FreeIn(g), Epilogue(g))
  BY <1>1, <1>4, <1>9, <1>12 DEF Tiles
<1>16. \A y \in {} \cup FreeIn(g) : Headed(g, y)
  BY <1>3, <1>4, <1>6, <1>8, <1>12 DEF Headed, Bit
<1>17. LastBit(g, {} \cup FreeIn(g))
  <2>1. M * 0 = 0
    BY SfmmAssumption
  <2>2. Word(0, 0, 1) = 1
    BY <2>1 DEF Word
  <2> QED BY <1>4, <1>6, <1>8, <1>9, <1>12, <2>2 DEF LastBit
<1>18. Apart(FreeIn(g))
  BY <1>2, <1>4, <1>12 DEF Apart
<1>19. NextBit(g, {} \cup FreeIn(g), {})
  BY DEF NextBit
<1>20. Sound(g, {}, {})
  BY <1>13, <1>14, <1>15, <1>16, <1>17, <1>18, <1>19 DEF Sound
<1>21. Begins(g, n)
  BY <1>1, <1>8, <1>9, <1>12, <1>20 DEF Begins, Found, x
<1> QED BY <1>1, <1>21 DEF g

\* The sizes that the headers of the program's blocks have.
Sized(h, B) == \A y \in B : Measures(h.header[y.at], y.size)

\* The heap h between the calls, when the program has the blocks B.
HeapSound(h, B) ==
    IF h.pages = 0 THEN h \in HeapType /\ B = {} /\ \A i \in 0 .. 9 : h.lists[i] = << >>
    ELSE Sound(h, B, {}) /\ Sized(h, B) /\ \A c \in Cells : Found(h, c)

\* The heap between the calls has its type, and its blocks can be taken from.
LEMMA HeapTyped ==
  ASSUME NEW h, NEW B, HeapSound(h, B)
  PROVE  /\ h \in HeapType /\ (h.pages # 0 => h.pages \in 1 .. MaxPages)
         /\ Lendable(h, B)
<1>1. CASE h.pages = 0
  BY <1>1 DEF HeapSound, Lendable
<1>2. CASE h.pages # 0
  <2>1. Sound(h, B, {}) /\ Sized(h, B)
    BY <1>2 DEF HeapSound
  <2>2. \A y \in B : y.size \in Nat \ {0}
    BY <2>1, Places DEF BlockType
  <2> QED BY <2>1, <2>2 DEF Sound, Shaped, Sized, Lendable
<1> QED BY <1>1, <1>2

\* The heap g in which size units can be had: it has grown only if h had none.
GrownTo(h, g, B, size) ==
    /\ Sound(g, B, {}) /\ g.fault = "none" /\ FittingLists(g, size) # {}
    /\ \A y \in B : g.header[y.at] = h.header[y.at]
    /\ \A y \in B \cup FreeIn(g) : Found(g, y.at)
    /\ g.pages > h.pages =>
         /\ \A x \in FreeIn(h) : x.size < size
         /\ \E z \in FreeIn(g) : /\ End(z) = Epilogue(g) /\ size <= z.size /\ z.size < size + PageUnits
                                 /\ \A x \in FreeIn(g) \ {z} : x.size < size

\* The heap grows until a block fits, or reports that it cannot.
LEMMA GrownSound ==
  ASSUME NEW h, NEW B, HeapSound(h, B), h.fault = "none", NEW size \in Nat \ {0}
  PROVE  LET g == Grown(h, size)
         IN  \/ g.fault \in Broken /\ [g EXCEPT !.fault = "wild"].fault = "wild"
             \/ GrownTo(h, g, B, size)
<1> DEFINE g == Grown(h, size)
           F == FreeIn(h)
           made == MaxPages - h.pages
<1>1. h \in HeapType
  BY HeapTyped
<1>2. CASE h.pages = 0
  <2>1. g = Start(h, size) /\ B = {} /\ \A i \in 0 .. 9 : h.lists[i] = << >>
    BY <1>2 DEF Grown, HeapSound
  <2>2. CASE PagesFor(size + 2) <= MaxPages
    <3>1. PICK n \in Nat \ {0} : Begins(g, n) /\ size <= n /\ n < size + PageUnits
      BY <1>1, <1>2, <2>1, <2>2, StartSound
    <3> HIDE DEF g
    <3> DEFINE x == Block(0, n)
    <3>2. x.at = 0 /\ x.size = n /\ End(x) = n
      BY BlockFields
    <3> HIDE DEF x
    <3>3. /\ Sound(g, {}, {}) /\ FreeIn(g) = {x} /\ g.fault = "none" /\ Found(g, 0) /\ Epilogue(g) = n
      BY <3>1 DEF Begins, x
    <3>4. FittingLists(g, size) # {}
      BY <3>1, <3>2, <3>3, NoFit
    <3>5. F = {}
      BY <2>1 DEF FreeIn, Listed, Range
    <3>6. GrownTo(h, g, B, size)
      BY <2>1, <3>1, <3>2, <3>3, <3>4, <3>5 DEF GrownTo, F
    <3> QED BY <3>6 DEF g
  <2>3. CASE ~(PagesFor(size + 2) <= MaxPages)
    <3>1. g.fault = "nomem" /\ [g EXCEPT !.fault = "wild"].fault = "wild"
      BY <1>1, <2>1, <2>3 DEF Start, HeapType
    <3> QED BY <3>1 DEF Broken
  <2> QED BY <2>2, <2>3
<1>3. CASE h.pages # 0
  <2>1. /\ Sound(h, B, {}) /\ Sized(h, B) /\ (\A c \in Cells : Found(h, c))
        /\ h.pages \in 1 .. MaxPages /\ h.pages \in Nat /\ MaxPages \in Nat
    BY <1>3, HeapTyped, SfmmAssumption DEF HeapSound, Sound, Shaped
  <2>2. CASE FittingLists(h, size) # {}
    <3>1. g = h
      BY <1>3, <2>2 DEF Grown
    <3>2. \A y \in B \cup F : y.at \in Cells
      <4>1. \A y \in B \cup {} \cup F : y.at \in Cells
        BY <2>1, Places
      <4> QED BY <4>1
    <3>3. GrownTo(h, h, B, size)
      BY <2>1, <2>2, <3>2 DEF GrownTo, F
    <3> QED BY <3>1, <3>3
  <2>3. CASE FittingLists(h, size) = {}
    <3> DEFINE b == Epilogue(h)
               wild == IF PrevBit(h.header[b]) = 1 THEN 0 ELSE Size(h.footer[b])
               k == PagesFor(size - wild)
    <3>1. \A x \in F : x.size < size
      <4>1. ASSUME NEW x \in F
            PROVE  x.size < size
        <5>1. x \in BlockType
          BY <2>1, Places
        <5>2. ~(size <= x.size)
          BY <2>1, <2>3, NoFit
        <5> QED BY <5>1, <5>2 DEF BlockType
      <4> QED BY <4>1
    <3>2. \/ Before(F, b) = {} /\ wild = 0
          \/ \E y \in Before(F, b) : wild = y.size
      <4>1. {} \cup F = F
        OBVIOUS
      <4>2. LastBit(h, F) /\ \A x \in F : Headed(h, x)
        BY <2>1, <4>1 DEF Sound
      <4>3. CASE Before(F, b) = {}
        <5>1. PrevBit(h.header[b]) = 1
          BY <4>2, <4>3, WordParts DEF LastBit, Before, Bit
        <5> QED BY <4>3, <5>1
      <4>4. CASE Before(F, b) # {}
        <5>1. PrevBit(h.header[b]) = 0
          BY <4>2, <4>4, WordParts DEF LastBit, Before, Bit
        <5>2. PICK y \in F : End(y) = b
          BY <4>4 DEF Before
        <5>3. h.footer[b] = h.header[y.at] /\ Size(h.header[y.at]) = y.size
          BY <2>1, <4>2, <5>2, Places DEF Headed
        <5> QED BY <5>1, <5>2, <5>3 DEF Before
      <4> QED BY <4>3, <4>4
    <3>3. wild \in Nat /\ wild < size
      <4>1. \A x \in F : x.size \in Nat
        BY <2>1, Places DEF BlockType
      <4> HIDE DEF wild
      <4> QED BY <3>1, <3>2, <4>1 DEF Before
    <3>4. g = IF k <= made THEN Extend(h, k) ELSE [h EXCEPT !.fault = IF made = 0 THEN "wild" ELSE "nomem"]
      BY <1>3, <2>3 DEF Grown
    <3> HIDE DEF wild, g
    <3>5. k \in Nat \ {0} /\ size - wild <= k * PageUnits /\ k * PageUnits < (size - wild) + PageUnits
      <4>1. size - wild \in Nat \ {0}
        BY <3>3
      <4> QED BY <4>1, PagesEnough
    <3> HIDE DEF k
    <3>6. CASE k <= made
      <4>1. g = Extend(h, k) /\ h.pages + k <= MaxPages
        BY <2>1, <3>4, <3>5, <3>6
      <4>2. Extended(h, g, B, k)
        BY <2>1, <3>5, <4>1, ExtendSound
      <4>3. PICK z \in BlockType :
              /\ Sound(g, B, {}) /\ g.pages = h.pages + k /\ g.fault = h.fault
              /\ FreeIn(g) = (F \ Before(F, b)) \cup {z} /\ End(z) = Epilogue(g)
              /\ \/ Before(F, b) = {} /\ z.size = k * PageUnits
                 \/ \E y \in Before(F, b) : z.size = y.size + k * PageUnits
              /\ \A y \in B : g.header[y.at] = h.header[y.at]
              /\ \A y \in B \cup FreeIn(g) : Found(g, y.at)
        BY <4>2 DEF Extended
      <4>4. z.size = wild + k * PageUnits
        <5>1. \A x, y \in Before(F, b) : x = y
          <6>1. Tiles(B \cup {} \cup F, b) /\ b \in Nat
            BY <2>1, Ends DEF Sound
          <6> QED BY <6>1, OneBlock DEF Before
        <5>2. k * PageUnits \in Nat
          BY <3>5, SfmmAssumption
        <5> QED BY <3>2, <4>3, <5>1, <5>2
      <4>5. size <= z.size /\ z.size < size + PageUnits /\ z \in FreeIn(g)
        <5>1. k * PageUnits \in Nat /\ PageUnits \in Nat
          BY <3>5, SfmmAssumption
        <5> QED BY <3>3, <3>5, <4>3, <4>4, <5>1
      <4>6. FittingLists(g, size) # {}
        BY <4>3, <4>5, NoFit
      <4>7. \A x \in FreeIn(g) \ {z} : x.size < size
        BY <3>1, <4>3
      <4>8. GrownTo(h, g, B, size)
        BY <3>1, <4>3, <4>5, <4>6, <4>7 DEF GrownTo, F
      <4> QED BY <4>8 DEF g
    <3>7. CASE ~(k <= made)
      <4>1. g.fault \in Broken /\ [g EXCEPT !.fault = "wild"].fault = "wild"
        BY <1>1, <3>4, <3>7 DEF HeapType, Broken
      <4> QED BY <4>1 DEF g
    <3> QED BY <3>6, <3>7
  <2> QED BY <2>2, <2>3
<1> QED BY <1>2, <1>3

-----------------------------------------------------------------------------
(* The heap between the calls. *)

\* Another heap with the same lists is as sound when the words that matter are the same.
LEMMA Alike ==
  ASSUME NEW h, NEW B, Sound(h, B, {}), NEW g \in HeapType, g.pages = h.pages, g.lists = h.lists,
         g.footer[0] = h.footer[0], g.header[Epilogue(h)] = h.header[Epilogue(h)],
         \A y \in B \cup FreeIn(h) : g.header[y.at] = h.header[y.at],
         \A y \in FreeIn(h) : g.footer[End(y)] = h.footer[End(y)]
  PROVE  Sound(g, B, {}) /\ FreeIn(g) = FreeIn(h) /\ Listed(g) = Listed(h) /\ Epilogue(g) = Epilogue(h)
<1> DEFINE F == FreeIn(h)
<1>1. Listed(g) = Listed(h) /\ Epilogue(g) = Epilogue(h)
  BY DEF Listed, Epilogue
<1>2. \A b \in Listed(h) : g.header[b] = h.header[b]
  BY FreeBlocksOf
<1>3. FreeIn(g) = F
  BY <1>1, <1>2 DEF FreeIn
<1>4. Shaped(g)
  BY DEF Sound, Shaped
<1>5. Filed(g)
  <2>1. Filed(h)
    BY DEF Sound
  <2>2. ASSUME NEW i \in 0 .. 9, NEW b \in Range(g.lists[i])
        PROVE  i = Own(g, b)
    <3>1. b \in Range(h.lists[i]) /\ b \in Listed(h)
      BY <2>2 DEF Listed
    <3>2. Own(g, b) = Own(h, b)
      BY <1>1, <1>2, <3>1 DEF Own, IsWilderness
    <3> QED BY <2>1, <3>1, <3>2 DEF Filed
  <2> QED BY <2>1, <2>2 DEF Filed, Once
<1>6. Tiles(B \cup {} \cup FreeIn(g), Epilogue(g))
  BY <1>1, <1>3 DEF Sound
<1>7. \A x \in {} \cup FreeIn(g) : Headed(g, x)
  <2>1. ASSUME NEW x \in F
        PROVE  Headed(g, x)
    <3>1. Headed(h, x)
      BY <2>1 DEF Sound
    <3> QED BY <2>1, <3>1 DEF Headed
  <2> QED BY <1>3, <2>1
<1>8. \A x \in B : Allocated(g, x)
  BY DEF Sound, Allocated
<1>9. LastBit(g, {} \cup FreeIn(g))
  BY <1>1, <1>3 DEF Sound, LastBit
<1>10. NextBit(g, {} \cup FreeIn(g), B)
  <2>1. NextBit(h, {} \cup F, B)
    BY DEF Sound
  <2> QED BY <1>3, <2>1 DEF NextBit
<1>11. Apart(FreeIn(g))
  BY <1>3 DEF Sound
<1> QED BY <1>1, <1>3, <1>4, <1>5, <1>6, <1>7, <1>8, <1>9, <1>10, <1>11 DEF Sound

\* Forgetting what is inside the blocks changes nothing else.
LEMMA TidySound ==
  ASSUME NEW h, NEW B, Sound(h, B, {}), Sized(h, B)
  PROVE  LET g == Tidy(h, B)
         IN  /\ HeapSound(g, B) /\ g.pages = h.pages /\ g.lists = h.lists /\ g.fault = h.fault
             /\ FreeIn(g) = FreeIn(h) /\ \A b \in Listed(h) : g.header[b] = h.header[b]
<1> DEFINE g == Tidy(h, B)
           starts == {x.at : x \in B} \cup Listed(h) \cup {Epilogue(h)}
           ends == {b + Size(h.header[b]) : b \in Listed(h)} \cup {0}
           H == [u \in Cells |-> IF u \in starts THEN h.header[u] ELSE Data]
           G == [u \in Cells |-> IF u \in ends THEN h.footer[u] ELSE Data]
<1>1. h \in HeapType /\ h.pages \in 1 .. MaxPages /\ Epilogue(h) \in Cells /\ 0 \in Cells
  BY Ends DEF Sound, Shaped
<1>2. /\ H \in [Cells -> Nat \cup {Data}] /\ G \in [Cells -> Nat \cup {Data}]
      /\ \A u \in Cells : u \in starts => H[u] = h.header[u]
      /\ \A u \in Cells : u \in ends => G[u] = h.footer[u]
      /\ \A u \in Cells : u \notin ends => G[u] = Data
  <2>1. h.header \in [Cells -> Nat \cup {Data}] /\ h.footer \in [Cells -> Nat \cup {Data}]
    BY <1>1 DEF HeapType
  <2> HIDE DEF starts, ends
  <2> QED BY <2>1
<1>3. g = [h EXCEPT !.header = H, !.footer = G]
  BY <1>1 DEF Tidy, HeapType
<1> HIDE DEF g, H, G
<1>4. /\ g \in HeapType /\ g.header = H /\ g.footer = G
      /\ g.pages = h.pages /\ g.lists = h.lists /\ g.fault = h.fault
  BY <1>1, <1>2, <1>3 DEF HeapType
<1>5. \A y \in B \cup {} \cup FreeIn(h) : y.at \in Cells /\ End(y) \in Cells
  BY Places
<1>6. \A y \in B \cup FreeIn(h) : g.header[y.at] = h.header[y.at]
  <2>1. \A y \in B \cup FreeIn(h) : y.at \in starts
    BY FreeBlocksOf
  <2> HIDE DEF starts
  <2> QED BY <1>2, <1>4, <1>5, <2>1
<1>7. \A y \in FreeIn(h) : g.footer[End(y)] = h.footer[End(y)]
  <2>1. \A y \in FreeIn(h) : End(y) \in ends
    BY FreeBlocksOf DEF End
  <2> HIDE DEF ends
  <2> QED BY <1>2, <1>4, <1>5, <2>1
<1>8. g.footer[0] = h.footer[0] /\ g.header[Epilogue(h)] = h.header[Epilogue(h)]
  <2>1. 0 \in ends /\ Epilogue(h) \in starts
    OBVIOUS
  <2> HIDE DEF ends, starts
  <2> QED BY <1>1, <1>2, <1>4, <2>1
<1>9. Sound(g, B, {}) /\ FreeIn(g) = FreeIn(h)
  BY <1>4, <1>6, <1>7, <1>8, Alike
<1>10. ASSUME NEW c \in Cells
       PROVE  Found(g, c)
  <2>1. CASE c \in ends
    <3>1. CASE c = 0
      BY <3>1 DEF Found
    <3>2. CASE c # 0
      <4>1. PICK b \in Listed(h) : c = b + Size(h.header[b])
        BY <2>1, <3>2
      <4> DEFINE y == Block(b, Size(h.header[b]))
      <4>2. y \in FreeIn(h) /\ End(y) = c
        BY <4>1 DEF FreeIn, Block, End
      <4> HIDE DEF y
      <4>3. y \in Before(FreeIn(g), c)
        BY <1>9, <4>2 DEF Before
      <4> QED BY <4>3 DEF Found
    <3> QED BY <3>1, <3>2
  <2>2. CASE c \notin ends
    BY <1>2, <1>4, <2>2 DEF Found
  <2> QED BY <2>1, <2>2
<1>11. Sized(g, B)
  BY <1>6 DEF Sized
<1>12. HeapSound(g, B)
  BY <1>1, <1>4, <1>9, <1>10, <1>11 DEF HeapSound
<1>13. \A b \in Listed(h) : g.header[b] = h.header[b]
  BY <1>6, FreeBlocksOf
<1> QED BY <1>4, <1>9, <1>12, <1>13 DEF g

\* What the heap reports is no part of it.
LEMMA Faulted ==
  ASSUME NEW h, NEW B, HeapSound(h, B), NEW f \in Faults
  PROVE  HeapSound([h EXCEPT !.fault = f], B)
<1> DEFINE g == [h EXCEPT !.fault = f]
<1>1. h \in HeapType
  BY HeapTyped
<1>2. /\ g \in HeapType /\ g.header = h.header /\ g.footer = h.footer /\ g.pages = h.pages
      /\ g.lists = h.lists
  BY <1>1 DEF HeapType
<1> HIDE DEF g
<1>3. h.pages = 0 => HeapSound(g, B)
  BY <1>2 DEF HeapSound
<1>4. ASSUME h.pages # 0
      PROVE  HeapSound(g, B)
  <2>1. Sound(h, B, {}) /\ Sized(h, B) /\ \A c \in Cells : Found(h, c)
    BY <1>4 DEF HeapSound
  <2>2. Sound(g, B, {}) /\ FreeIn(g) = FreeIn(h)
    BY <1>2, <2>1, Alike
  <2>3. Sized(g, B) /\ \A c \in Cells : Found(g, c)
    BY <1>2, <2>1, <2>2 DEF Sized, Found
  <2>4. HeapSound(g, B)
    BY <1>2, <1>4, <2>2, <2>3 DEF HeapSound
  <2> QED BY <2>4
<1>5. HeapSound(g, B)
  BY <1>3, <1>4 DEF g
<1> QED BY <1>5 DEF g

Inv == HeapSound(heap, held) /\ heap.fault \in Faults

\* What a call leaves.
LEMMA ReturnSound ==
  ASSUME Inv, Running, NEW h, NEW blocks, Return(h, blocks),
         h.fault \in Broken \/ (h.fault = "none" /\ Sound(h, blocks, {}) /\ Sized(h, blocks))
  PROVE  Inv'
<1>1. HeapSound(heap, held) /\ heap \in HeapType
  BY HeapTyped DEF Inv
<1>2. CASE h.fault \in Broken
  <2>1. heap' = [heap EXCEPT !.fault = h.fault] /\ held' = held /\ h.fault \in Faults
    BY <1>2 DEF Return, Broken, Faults
  <2>2. HeapSound(heap', held')
    BY <1>1, <2>1, Faulted
  <2>3. heap'.fault = h.fault
    BY <1>1, <2>1 DEF HeapType
  <2> QED BY <2>1, <2>2, <2>3 DEF Inv, HeapSound
<1>3. CASE h.fault = "none" /\ Sound(h, blocks, {}) /\ Sized(h, blocks)
  <2>1. heap' = Tidy(h, blocks) /\ held' = blocks
    BY <1>3 DEF Return
  <2>2. HeapSound(heap', held') /\ heap'.fault = h.fault
    BY <1>3, <2>1, TidySound
  <2> QED BY <1>3, <2>2 DEF Inv, Faults
<1> QED BY <1>2, <1>3

-----------------------------------------------------------------------------
(* The calls. *)

\* A header that is written is exact.
LEMMA WordMeasures ==
  ASSUME NEW n \in Nat \ {0}, NEW p \in Bit, NEW a \in Bit
  PROVE  Measures(Word(n, p, a), n)
<1>1. n \in Nat /\ n - 1 \in Nat /\ M \in Nat /\ M > 4
  BY SfmmAssumption
<1>2. Bytes(Word(n, p, a)) = M * n
  BY <1>1, WordParts
<1>3. M * n = M * (n - 1) + M /\ M * (n - 1) \in Int
  BY <1>1
<1> QED BY <1>1, <1>2, <1>3 DEF Measures

\* What is kept is still of its size.
LEMMA KeptSizes ==
  ASSUME NEW h, NEW r, NEW B, NEW L, Sound(r, L, {}), B \subseteq L, Keeps(h, r, B), Sized(h, B)
  PROVE  Sized(r, B)
<1>1. \A y \in L \cup {} \cup FreeIn(r) : y \in BlockType
  BY Places
<1>2. \A y \in B : y.size \in Nat \ {0}
  BY <1>1 DEF BlockType
<1> QED BY <1>2 DEF Sized, Keeps

\* The heap r after size units have been taken from what h has grown to.
Got(r, B, x) ==
    /\ Sound(r, B \cup {x}, {}) /\ x \notin B /\ r.fault = "none" /\ Sized(r, B \cup {x})
    /\ \A y \in B \cup {x} : Marked(r, y.at)
    /\ \E p \in Bit : r.header[x.at] = Word(x.size, p, 1)

\* sf_malloc, once the heap has grown.
LEMMA GotSound ==
  ASSUME NEW h, NEW B, HeapSound(h, B), NEW size \in Nat \ {0}, NEW g, GrownTo(h, g, B, size)
  PROVE  LET r == Take(g, size)
         IN  \/ r.fault \in Broken
             \/ /\ Got(r, B, Block(Fit(g, size), size))
                /\ \E x \in FreeIn(g) : size <= x.size /\ Taken(g, r, B, x, size)
<1> DEFINE r == Take(g, size)
           new == Block(Fit(g, size), size)
<1>1. /\ Sound(g, B, {}) /\ g.fault = "none" /\ FittingLists(g, size) # {}
      /\ \A y \in B : g.header[y.at] = h.header[y.at]
      /\ \A y \in B \cup FreeIn(g) : Found(g, y.at)
  BY DEF GrownTo
<1>2. g \in HeapType
  BY <1>1 DEF Sound, Shaped
<1>3. PICK x \in FreeIn(g) : x.at = Fit(g, size) /\ size <= x.size
  BY <1>1, <1>2, FitSound
<1>4. Sized(h, B) /\ Lendable(h, B)
  BY HeapTyped DEF HeapSound, Sized
<1>5. Sized(g, B) /\ Lendable(g, B)
  BY <1>1, <1>4 DEF Sized, Lendable
<1>6. r = AllocateFrom(Unlist(g, x.at), x.at, size) /\ new = Block(x.at, size)
  BY <1>3 DEF Take
<1> HIDE DEF r, new
<1>7. r.fault \in Broken \/ Taken(g, r, B, x, size)
  BY <1>1, <1>3, <1>5, <1>6, TakeSound
<1>8. ASSUME Taken(g, r, B, x, size)
      PROVE  Got(r, B, new)
  <2>1. PICK p \in Bit :
          /\ Sound(r, B \cup {new}, {}) /\ new \notin B
          /\ Keeps(g, r, B) /\ r.fault = g.fault
          /\ r.header[x.at] = Word(size, p, 1) /\ Marked(r, x.at)
    BY <1>6, <1>8 DEF Taken
  <2>2. new.at = x.at /\ new.size = size
    BY <1>6 DEF Block
  <2>3. Sized(r, B)
    BY <1>5, <2>1, KeptSizes
  <2>4. Measures(r.header[new.at], new.size)
    <3>1. 1 \in Bit
      BY DEF Bit
    <3> QED BY <2>1, <2>2, <3>1, WordMeasures
  <2>5. Sized(r, B \cup {new})
    BY <2>3, <2>4 DEF Sized
  <2>6. \A y \in B : Marked(r, y.at)
    BY <1>1, <2>1 DEF Keeps, Marked
  <2>7. \A y \in B \cup {new} : Marked(r, y.at)
    BY <2>1, <2>2, <2>6
  <2> QED BY <1>1, <2>1, <2>2, <2>5, <2>7 DEF Got
<1>9. \/ r.fault \in Broken
      \/ Got(r, B, new) /\ \E y \in FreeIn(g) : size <= y.size /\ Taken(g, r, B, y, size)
  BY <1>3, <1>7, <1>8
<1> QED BY <1>9 DEF r, new

\* The heap when the program has a block.
LEMMA HeldSound ==
  ASSUME Inv, NEW x \in held
  PROVE  /\ Sound(heap, held, {}) /\ Sized(heap, held) /\ Lendable(heap, held)
         /\ \A y \in held : Marked(heap, y.at) /\ Found(heap, y.at)
         /\ x \in BlockType /\ x.at \in Cells /\ heap.header[x.at] \in Nat
         /\ (held \ {x}) \cup {x} = held /\ x \notin held \ {x}
<1>1. HeapSound(heap, held) /\ heap.pages # 0
  BY DEF Inv, HeapSound
<1>2. Sound(heap, held, {}) /\ Sized(heap, held) /\ \A c \in Cells : Found(heap, c)
  BY <1>1 DEF HeapSound
<1>3. \A y \in held \cup {} \cup FreeIn(heap) : y \in BlockType /\ y.at \in Cells
  BY <1>2, Places
<1>4. heap.header[x.at] \in Nat
  BY <1>2 DEF Sound, Allocated
<1> QED BY <1>1, <1>2, <1>3, <1>4, HeapTyped DEF Marked

\* sf_free is not reached with a fault.
LEMMA FreeNothing ==
  ASSUME NEW h, h.fault # "none", NEW b, NEW told
  PROVE  SfFree(h, b, told) = h
BY DEF SfFree

\* sf_malloc keeps the invariant.
LEMMA MallocSound ==
  ASSUME Inv, NEW size \in Nat \ {0}, Malloc(size)
  PROVE  Inv'
<1> DEFINE g == Grown(heap, size)
           r == Take(g, size)
           new == Block(Fit(g, size), size)
<1>1. /\ Running /\ heap.fault = "none"
      /\ g.fault = "none" => Return(r, held \cup {new})
      /\ g.fault # "none" => Return(g, held)
  BY DEF Malloc, Running
<1>2. HeapSound(heap, held)
  BY DEF Inv
<1>3. g.fault \in Broken \/ GrownTo(heap, g, held, size)
  BY <1>1, <1>2, GrownSound
<1> HIDE DEF g
<1>4. CASE g.fault \in Broken
  <2>1. Return(g, held)
    BY <1>1, <1>4 DEF Broken
  <2> QED BY <1>1, <1>4, <2>1, ReturnSound
<1>5. CASE GrownTo(heap, g, held, size)
  <2>1. g.fault = "none"
    BY <1>5 DEF GrownTo
  <2>2. Return(r, held \cup {new})
    BY <1>1, <2>1
  <2>3. r.fault \in Broken \/ Got(r, held, new)
    BY <1>2, <1>5, GotSound
  <2> HIDE DEF r, new
  <2> QED BY <1>1, <2>2, <2>3, ReturnSound DEF Got
<1> QED BY <1>3, <1>4, <1>5

\* sf_free keeps the invariant.
LEMMA FreeSound ==
  ASSUME Inv, NEW x \in held, NEW told \in Reject, Free(x, told)
  PROVE  Inv'
<1> DEFINE r == SfFree(heap, x.at, told)
           B == held \ {x}
<1>1. Running /\ heap.fault = "none" /\ Return(r, B)
  BY DEF Free, Running
<1>2. /\ Sound(heap, B \cup {x}, {}) /\ x \notin B /\ Marked(heap, x.at)
      /\ Measures(heap.header[x.at], x.size) /\ Sized(heap, B)
  BY HeldSound DEF Sized
<1>3. r.fault \in Broken \/ Freed(heap, r, B, x)
  BY <1>1, <1>2, SfFreeSound
<1> HIDE DEF r, B
<1>4. Freed(heap, r, B, x) => r.fault = "none" /\ Sound(r, B, {}) /\ Sized(r, B)
  <2>1. B \subseteq B
    OBVIOUS
  <2> QED BY <1>1, <1>2, <2>1, KeptSizes DEF Freed
<1> QED BY <1>1, <1>3, <1>4, ReturnSound

\* sf_realloc of what it refuses keeps it.
LEMMA ReallocInvalidSound ==
  ASSUME Inv, NEW x \in held, NEW told \in Reject, ReallocInvalid(x, told)
  PROVE  Inv'
<1>1. Running /\ heap.fault = "none" /\ heap \in HeapType
  BY HeapTyped DEF ReallocInvalid, Running, Inv
<1>2. Sound(heap, held, {}) /\ Sized(heap, held)
  BY HeldSound
<1>3. CASE Valid(heap, x.at, told) = "no"
  <2>1. Return(heap, held)
    BY <1>3 DEF ReallocInvalid
  <2> QED BY <1>1, <1>2, <2>1, ReturnSound
<1>4. CASE Valid(heap, x.at, told) # "no"
  <2> DEFINE r == [heap EXCEPT !.fault = "wild"]
  <2>1. Return(r, held)
    BY <1>4 DEF ReallocInvalid
  <2>2. r.fault \in Broken
    BY <1>1 DEF HeapType, Broken
  <2> HIDE DEF r
  <2> QED BY <1>1, <2>1, <2>2, ReturnSound
<1> QED BY <1>3, <1>4

\* A block that is_allocated_block accepts has its whole size in its header.
LEMMA ValidExact ==
  ASSUME Inv, NEW x \in held, NEW told \in Reject, Valid(heap, x.at, told) = "yes"
  PROVE  \E p \in Bit : /\ heap.header[x.at] = Word(x.size, p, 1) /\ Size(heap.header[x.at]) = x.size
                        /\ p = 0 \/ Before(FreeIn(heap), x.at) = {}
<1> DEFINE w == heap.header[x.at]
           p == PrevBit(w)
<1>1. ~Odd(w) /\ AllocBit(w) # 0
  BY DEF Valid, Odd
<1>2. /\ w \in Nat /\ Measures(w, x.size) /\ x.size \in Nat \ {0} /\ x.at \in Cells
      /\ Sound(heap, held, {})
  BY HeldSound DEF Sized, BlockType
<1>3. w = Word(x.size, p, AllocBit(w)) /\ Size(w) = x.size
  BY <1>1, <1>2, Exact
<1>4. p \in Bit /\ AllocBit(w) = 1
  BY <1>1, <1>2, Reassembled DEF Bit
<1>5. p = 0 \/ Before(FreeIn(heap), x.at) = {}
  <2>1. NextBit(heap, {} \cup FreeIn(heap), held)
    BY <1>2 DEF Sound
  <2>2. \A y \in FreeIn(heap) : End(y) = x.at => p = 0
    BY <1>1, <2>1 DEF NextBit
  <2> QED BY <2>2 DEF Before
<1> QED BY <1>3, <1>4, <1>5

\* sf_realloc to a smaller size, or the same, keeps it.
LEMMA ShrinkSound ==
  ASSUME Inv, NEW x \in held, NEW told \in Reject, NEW size \in Nat \ {0}, Shrink(x, size, told)
  PROVE  Inv'
<1> DEFINE B == held \ {x}
           y == Block(x.at, size)
           r == AllocateFrom(heap, x.at, size)
<1>1. /\ Running /\ heap.fault = "none" /\ Valid(heap, x.at, told) = "yes"
      /\ size <= Size(heap.header[x.at])
      /\ size = Size(heap.header[x.at]) => Return(heap, B \cup {y})
      /\ size # Size(heap.header[x.at]) => Return(r, B \cup {y})
  BY DEF Shrink, Running
<1>2. PICK p \in Bit : /\ heap.header[x.at] = Word(x.size, p, 1) /\ Size(heap.header[x.at]) = x.size
                       /\ p = 0 \/ Before(FreeIn(heap), x.at) = {}
  BY <1>1, ValidExact
<1>3. /\ Sound(heap, held, {}) /\ Sized(heap, held) /\ Lendable(heap, held)
      /\ B \cup {x} = held /\ x \notin B /\ x \in BlockType
  BY HeldSound
<1>4. CASE size = x.size
  <2>1. y = x
    BY <1>3, <1>4, BlockIs
  <2>2. Return(heap, held)
    BY <1>1, <1>2, <1>3, <1>4, <2>1
  <2> QED BY <1>1, <1>3, <2>2, ReturnSound
<1>5. CASE size # x.size
  <2>1. size <= x.size
    BY <1>1, <1>2
  <2>2. Return(r, B \cup {y})
    BY <1>1, <1>2, <1>5
  <2>3. Lendable(heap, B) /\ Sized(heap, B)
    BY <1>3 DEF Lendable, Sized
  <2>4. Hole(heap, B, x)
    BY <1>3, HoleOfHeld
  <2>5. 1 \in Bit
    BY DEF Bit
  <2> HIDE DEF B
  <2>6. r.fault \in Broken \/ Portion(heap, r, B, x, size, p)
    BY <1>2, <1>5, <2>1, <2>3, <2>4, <2>5, AllocateSound
  <2> HIDE DEF r
  <2>7. ASSUME Portion(heap, r, B, x, size, p)
        PROVE  r.fault = "none" /\ Sound(r, B \cup {y}, {}) /\ Sized(r, B \cup {y})
    <3>1. Given(heap, r, B, y, p)
      BY <2>7 DEF Portion
    <3>2. /\ Sound(r, B \cup {y}, {}) /\ Keeps(heap, r, B) /\ r.fault = "none"
          /\ r.header[y.at] = Word(y.size, p, 1)
      BY <1>1, <3>1 DEF Given
    <3>3. y.size = size
      BY DEF Block
    <3>4. Measures(r.header[y.at], y.size)
      BY <2>5, <3>2, <3>3, WordMeasures
    <3>5. Sized(r, B)
      BY <2>3, <3>2, KeptSizes
    <3> QED BY <3>2, <3>4, <3>5 DEF Sized
  <2> QED BY <1>1, <2>2, <2>6, <2>7, ReturnSound
<1> QED BY <1>4, <1>5

\* sf_realloc to a larger size keeps it.
LEMMA MoveSound ==
  ASSUME Inv, NEW x \in held, NEW told \in Reject, NEW size \in Nat \ {0}, Move(x, size, told)
  PROVE  Inv'
<1> DEFINE g == Grown(heap, size)
           t == Take(g, size)
           new == Block(Fit(g, size), size)
           B == (held \ {x}) \cup {new}
           r == SfFree(t, x.at, told)
<1>1. /\ Running /\ heap.fault = "none"
      /\ g.fault = "none" => Return(r, B)
      /\ g.fault # "none" => Return(g, held)
  BY DEF Move, Running
<1>2. HeapSound(heap, held)
  BY DEF Inv
<1>3. g.fault \in Broken \/ GrownTo(heap, g, held, size)
  BY <1>1, <1>2, GrownSound
<1> HIDE DEF g
<1>4. CASE g.fault \in Broken
  <2>1. Return(g, held)
    BY <1>1, <1>4 DEF Broken
  <2> QED BY <1>1, <1>4, <2>1, ReturnSound
<1>5. CASE GrownTo(heap, g, held, size)
  <2>1. g.fault = "none"
    BY <1>5 DEF GrownTo
  <2>2. Return(r, B)
    BY <1>1, <2>1
  <2>3. t.fault \in Broken \/ Got(t, held, new)
    BY <1>2, <1>5, GotSound
  <2> HIDE DEF t, new
  <2>4. CASE t.fault \in Broken
    <3>1. t.fault # "none"
      BY <2>4 DEF Broken
    <3>2. r = t
      BY <3>1, FreeNothing
    <3> QED BY <1>1, <2>2, <2>4, <3>2, ReturnSound
  <2>5. CASE Got(t, held, new)
    <3>1. /\ Sound(t, held \cup {new}, {}) /\ new \notin held /\ t.fault = "none"
          /\ Sized(t, held \cup {new}) /\ Marked(t, x.at)
      BY <2>5 DEF Got
    <3>2. held \cup {new} = B \cup {x} /\ x \notin B
      BY <3>1
    <3> HIDE DEF B
    <3>3. Measures(t.header[x.at], x.size) /\ Sized(t, B)
      BY <3>1, <3>2 DEF Sized
    <3>4. r.fault \in Broken \/ Freed(t, r, B, x)
      BY <3>1, <3>2, <3>3, SfFreeSound
    <3> HIDE DEF r
    <3>5. Freed(t, r, B, x) => r.fault = "none" /\ Sound(r, B, {}) /\ Sized(r, B)
      <4>1. B \subseteq B
        OBVIOUS
      <4> QED BY <3>1, <3>3, <4>1, KeptSizes DEF Freed
    <3> QED BY <1>1, <2>2, <3>4, <3>5, ReturnSound
  <2> QED BY <2>3, <2>4, <2>5
<1> QED BY <1>3, <1>4, <1>5

-----------------------------------------------------------------------------
(* sf_memalign. *)

\* Whatever else an operator changes, a heap stays one: what it reports can be read.
LEMMA FieldsStay ==
  ASSUME NEW h, NEW b, NEW size, NEW bit
  PROVE  /\ DOMAIN Unlist(h, b) = DOMAIN h
         /\ DOMAIN File(h, b) = DOMAIN h
         /\ DOMAIN MergeNext(h, b) = DOMAIN h
         /\ DOMAIN MergePrev(h, b, bit) = DOMAIN h
<1>1. DOMAIN Unlist(h, b) = DOMAIN h
  BY DEF Unlist
<1>2. \A u, c : DOMAIN File(u, c) = DOMAIN u
  BY DEF File, Insert
<1>3. DOMAIN MergeNext(h, b) = DOMAIN h
  <2>1. \A c : DOMAIN Unlist(h, c) = DOMAIN h
    BY DEF Unlist
  <2> QED BY <2>1 DEF MergeNext
<1>4. DOMAIN MergePrev(h, b, bit) = DOMAIN h
  <2>1. \A c : DOMAIN Unlist(h, c) = DOMAIN h
    BY DEF Unlist
  <2> QED BY <1>2, <2>1 DEF MergePrev
<1> QED BY <1>1, <1>2, <1>3, <1>4

\* The same of free_block_allocate.
LEMMA AllocateFields ==
  ASSUME NEW h, NEW b, NEW size
  PROVE  DOMAIN AllocateFrom(h, b, size) = DOMAIN h
<1>1. \A u, c : DOMAIN Merge(u, c) = DOMAIN u
  BY FieldsStay DEF Merge
<1>2. \A u, s, rest : DOMAIN SplitOff(u, s, rest) = DOMAIN u
  <2> TAKE u, s, rest
  <2> DEFINE next == s + rest
             word == Word(rest, 1, 0)
             cut == [u EXCEPT !.header[s] = word, !.footer[next] = word,
                              !.header[next] = IF next = Epilogue(u) THEN 1 ELSE @ - 2]
             w == cut.header[next]
             damaged == [cut EXCEPT !.fault = "damaged"]
             footed == [cut EXCEPT !.footer[next + Size(w)] = w]
  <2>1. DOMAIN cut = DOMAIN u /\ DOMAIN damaged = DOMAIN cut /\ DOMAIN footed = DOMAIN cut
    OBVIOUS
  <2>2. SplitOff(u, s, rest) \in {damaged, Merge(cut, s), Merge(footed, s)}
    BY DEF SplitOff
  <2> HIDE DEF cut, damaged, footed
  <2> QED BY <1>1, <2>1, <2>2
<1> QED BY <1>2 DEF AllocateFrom

\* The heap g is h with the block x of the program cut in two, the parts y and z.
Halved(h, g, B, y, z) ==
    /\ Sound(g, (B \cup {y}) \cup {z}, {}) /\ FreeIn(g) = FreeIn(h)
    /\ y \notin B /\ z \notin B \cup {y}
    /\ \A c \in Cells : c \notin {y.at, z.at} => g.header[c] = h.header[c]
    /\ \A c \in Cells : Found(h, c) => c = z.at \/ Found(g, c)
    /\ \A v \in B : v.at \in Cells \ {y.at, z.at}
    /\ y.at \in Cells /\ z.at \in Cells

\* Cutting a block of the program in two keeps a heap sound.
LEMMA HalvedSound ==
  ASSUME NEW h, NEW B, NEW b \in Nat, NEW s \in Nat \ {0}, NEW r \in Nat \ {0},
         Block(b, s + r) \notin B, Sound(h, B \cup {Block(b, s + r)}, {}),
         NEW v \in Nat, NEW w \in Nat, AllocBit(v) = 1, AllocBit(w) = 1,
         \/ Before(FreeIn(h), b) = {}
         \/ Odd(v)
         \/ PrevBit(v) = 0,
         NEW g \in HeapType, g.pages = h.pages, g.lists = h.lists, g.fault = h.fault,
         g.header = [h.header EXCEPT ![b] = v, ![b + s] = w],
         \A c \in Cells : c # b + s => g.footer[c] = h.footer[c]
  PROVE  Halved(h, g, B, Block(b, s), Block(b + s, r))
<1> DEFINE x == Block(b, s + r)
           y == Block(b, s)
           z == Block(b + s, r)
           F == FreeIn(h)
           n == Epilogue(h)
           T == B \cup {x} \cup {} \cup F
<1>1. /\ x \in BlockType /\ x.at = b /\ x.size = s + r /\ End(x) = b + s + r
      /\ y \in BlockType /\ y.at = b /\ y.size = s /\ End(y) = b + s
      /\ z \in BlockType /\ z.at = b + s /\ z.size = r /\ End(z) = b + s + r
      /\ s + r \in Nat \ {0} /\ b + s \in Nat /\ x \notin B
  <2>1. s + r \in Nat \ {0} /\ b + s \in Nat /\ b + (s + r) = b + s + r
    OBVIOUS
  <2>2. x \in BlockType /\ x.at = b /\ x.size = s + r /\ End(x) = b + s + r
    BY <2>1, BlockFields
  <2>3. y \in BlockType /\ y.at = b /\ y.size = s /\ End(y) = b + s
    BY BlockFields
  <2>4. z \in BlockType /\ z.at = b + s /\ z.size = r /\ End(z) = b + s + r
    BY <2>1, BlockFields
  <2> QED BY <2>1, <2>2, <2>3, <2>4
<1>2. /\ h \in HeapType /\ Shaped(h) /\ Filed(h) /\ n \in Cells /\ n \in Nat \ {0} /\ 0 \in Cells
      /\ Tiles(T, n) /\ x \in T
  BY Ends DEF Sound, Shaped
<1>3. \A u \in T : /\ u \in BlockType /\ u = Block(u.at, u.size) /\ u.at \in Cells /\ End(u) \in Cells
                   /\ u.at < End(u) /\ End(u) <= n /\ u.at # n
  BY Places
<1>4. \A u \in B \cup {x}, f \in F : u.at # f.at
  BY Places
<1> HIDE DEF x, y, z
<1>5. \A u \in T \ {x} : (u.at < b \/ b + s + r <= u.at) /\ (End(u) <= b \/ b + s + r < End(u))
  <2>1. ASSUME NEW u \in T, u # x
        PROVE  (u.at < b \/ b + s + r <= u.at) /\ (End(u) <= b \/ b + s + r < End(u))
    <3>1. End(u) <= x.at \/ End(x) <= u.at
      BY <1>2, <2>1 DEF Tiles
    <3>2. u.at \in Nat /\ End(u) \in Nat /\ u.at < End(u)
      BY <1>3, BlockIs
    <3> QED BY <1>1, <3>1, <3>2
  <2> QED BY <2>1
<1>6. b \in Cells /\ b + s \in Cells /\ b < b + s /\ b + s < n /\ b # n
  <2>1. b + s + r <= n /\ b \in Cells
    BY <1>1, <1>2, <1>3
  <2> DEFINE top == MaxPages * PageUnits - 2
  <2>2. Cells = 0 .. top /\ top \in Int
    BY SfmmAssumption DEF Cells
  <2> HIDE DEF top
  <2>3. n \in 0 .. top
    BY <1>2, <2>2
  <2>4. b < b + s /\ b + s < n /\ b + s \in 0 .. top
    BY <2>1, <2>2, <2>3
  <2> QED BY <2>1, <2>2, <2>4
<1>7. x \notin F
  BY <1>1, <1>4
<1>8. \A u \in B \cup F : u.at \in Cells /\ u.at # b /\ u.at # b + s /\ End(u) # b + s
  <2>1. ASSUME NEW u \in B \cup F
        PROVE  u.at \in Cells /\ u.at # b /\ u.at # b + s /\ End(u) # b + s
    <3>1. u \in T \ {x}
      BY <1>1, <1>7
    <3>2. u.at \in Nat /\ End(u) \in Nat /\ u.at \in Cells
      BY <1>3, <3>1, BlockIs
    <3> QED BY <1>1, <1>5, <3>1, <3>2
  <2> QED BY <2>1
<1>9. /\ \A c \in Cells : c \notin {b, b + s} => g.header[c] = h.header[c]
      /\ g.header[b] = v /\ g.header[b + s] = w
  <2>1. h.header \in [Cells -> Nat \cup {Data}] /\ b # b + s
    BY <1>2, <1>6 DEF HeapType
  <2> QED BY <1>6, <2>1
<1>10. Listed(g) = Listed(h) /\ Epilogue(g) = n
  BY DEF Listed, Epilogue
<1>11. \A c \in Listed(h) : c \in Cells /\ g.header[c] = h.header[c]
  BY <1>8, <1>9, FreeBlocksOf
<1>12. FreeIn(g) = F
  BY <1>10, <1>11 DEF FreeIn
<1>13. Shaped(g)
  <2>1. 0 # b + s
    BY <1>1
  <2> QED BY <1>2, <2>1 DEF Shaped
<1>14. Filed(g)
  <2>1. ASSUME NEW i \in 0 .. 9, NEW c \in Range(g.lists[i])
        PROVE  i = Own(g, c)
    <3>1. c \in Range(h.lists[i]) /\ c \in Listed(h)
      BY <2>1 DEF Listed
    <3>2. Own(g, c) = Own(h, c)
      BY <1>10, <1>11, <3>1 DEF Own, IsWilderness
    <3> QED BY <1>2, <3>1, <3>2 DEF Filed
  <2> QED BY <1>2, <2>1 DEF Filed, Once
<1> DEFINE L == (B \cup {y}) \cup {z}
<1>15. Tiles(L \cup {} \cup FreeIn(g), Epilogue(g))
  <2>1. Tiles((T \ {x}) \cup {y, z}, n)
    BY <1>2, SplitTile DEF x, y, z
  <2>2. (T \ {x}) \cup {y, z} = L \cup {} \cup F
    BY <1>1, <1>7
  <2> QED BY <1>10, <1>12, <2>1, <2>2
<1>16. \A u \in {} \cup FreeIn(g) : Headed(g, u)
  <2>1. ASSUME NEW u \in F
        PROVE  Headed(g, u)
    <3>1. Headed(h, u) /\ End(u) \in Cells
      BY <1>3, <2>1 DEF Sound
    <3>2. g.header[u.at] = h.header[u.at] /\ g.footer[End(u)] = h.footer[End(u)]
      BY <1>8, <1>9, <3>1
    <3> QED BY <3>1, <3>2 DEF Headed
  <2> QED BY <1>12, <2>1
<1>17. \A u \in L : Allocated(g, u)
  <2>1. \A u \in B : Allocated(g, u)
    BY <1>8, <1>9 DEF Sound, Allocated
  <2> QED BY <1>1, <1>9, <2>1 DEF Allocated
<1>18. LastBit(g, {} \cup FreeIn(g))
  <2>1. g.header[n] = h.header[n]
    BY <1>2, <1>6, <1>9
  <2>2. LastBit(h, {} \cup F)
    BY DEF Sound
  <2> QED BY <1>10, <1>12, <2>1, <2>2 DEF LastBit
<1>19. NextBit(g, {} \cup FreeIn(g), L)
  <2>1. NextBit(h, {} \cup F, B \cup {x})
    BY DEF Sound, x
  <2>2. ASSUME NEW f \in F, NEW u \in L, End(f) = u.at
        PROVE  Odd(g.header[u.at]) \/ PrevBit(g.header[u.at]) = 0
    <3>1. CASE u \in B
      BY <1>8, <1>9, <2>1, <2>2, <3>1 DEF NextBit
    <3>2. CASE u = y
      <4>1. f \in Before(F, b)
        BY <1>1, <2>2, <3>2 DEF Before
      <4> QED BY <1>1, <1>9, <3>2, <4>1
    <3>3. CASE u = z
      BY <1>1, <1>8, <2>2, <3>3
    <3> QED BY <3>1, <3>2, <3>3
  <2> QED BY <1>12, <2>2 DEF NextBit
<1>20. Apart(FreeIn(g))
  BY <1>12 DEF Sound
<1>21. Sound(g, L, {})
  BY <1>13, <1>14, <1>15, <1>16, <1>17, <1>18, <1>19, <1>20 DEF Sound
<1>22. y \notin B /\ z \notin B \cup {y}
  BY <1>1, <1>6, <1>8
<1>23. \A c \in Cells : Found(h, c) => c = z.at \/ Found(g, c)
  BY <1>1, <1>12 DEF Found
<1>24. \A c \in Cells : c \notin {y.at, z.at} => g.header[c] = h.header[c]
  BY <1>1, <1>9
<1>25. \A u \in B : u.at \in Cells \ {y.at, z.at}
  BY <1>1, <1>8
<1>26. Halved(h, g, B, y, z)
  BY <1>1, <1>6, <1>12, <1>21, <1>22, <1>23, <1>24, <1>25 DEF Halved
<1> QED BY <1>26 DEF y, z

\* A block after a free one says so.
LEMMA BitsBefore ==
  ASSUME NEW h, NEW B, Sound(h, B, {}), NEW x \in B
  PROVE  \/ Before(FreeIn(h), x.at) = {}
         \/ Odd(h.header[x.at])
         \/ PrevBit(h.header[x.at]) = 0
<1>1. NextBit(h, {} \cup FreeIn(h), B)
  BY DEF Sound
<1> QED BY <1>1 DEF NextBit, Before

\* A call has ended with the heap r and the blocks L, or with an error.
Ended(r, L) == r.fault \in Broken \/ (r.fault = "none" /\ Sound(r, L, {}) /\ Sized(r, L))

\* A heap with a block of the program that is to be cut, the word v being for its first part.
Cuttable(h, B, at, size, rest, v) ==
    /\ Block(at, size + rest) \notin B /\ Sound(h, B \cup {Block(at, size + rest)}, {})
    /\ h.fault = "none" /\ Sized(h, B)
    /\ v \in Nat /\ AllocBit(v) = 1 /\ Measures(v, size)
    /\ \/ Before(FreeIn(h), at) = {}
       \/ Odd(v)
       \/ PrevBit(v) = 0

\* The heap g with its two headers written.
Rewritten(h, g, at, size, rest, v) ==
    /\ g \in HeapType /\ g.pages = h.pages /\ g.lists = h.lists /\ g.fault = h.fault
    /\ g.header = [h.header EXCEPT ![at] = v, ![at + size] = Word(rest, 1, 1)]
    /\ \A c \in Cells : c # at + size => g.footer[c] = h.footer[c]

\* The last step of sf_memalign: what is left of the block after size units is freed.
LEMMA TailSound ==
  ASSUME NEW h, NEW B, NEW at \in Nat, NEW size \in Nat \ {0}, NEW rest \in Nat \ {0},
         NEW v, Cuttable(h, B, at, size, rest, v),
         NEW last, Rewritten(h, last, at, size, rest, v),
         NEW told \in Reject
  PROVE  Ended(SfFree(last, at + size, told), B \cup {Block(at, size)})
<1>0. /\ Block(at, size + rest) \notin B /\ Sound(h, B \cup {Block(at, size + rest)}, {})
      /\ h.fault = "none" /\ Sized(h, B)
      /\ v \in Nat /\ AllocBit(v) = 1 /\ Measures(v, size)
      /\ \/ Before(FreeIn(h), at) = {}
         \/ Odd(v)
         \/ PrevBit(v) = 0
  BY DEF Cuttable
<1> last \in HeapType /\ last.pages = h.pages /\ last.lists = h.lists /\ last.fault = h.fault
  BY DEF Rewritten
<1>3. \A c \in Cells : c # at + size => last.footer[c] = h.footer[c]
  BY DEF Rewritten
<1> DEFINE r == SfFree(last, at + size, told)
           y == Block(at, size)
           z == Block(at + size, rest)
           L == B \cup {y}
           w == Word(rest, 1, 1)
<1>1. w \in Nat /\ AllocBit(w) = 1 /\ PrevBit(w) = 1 /\ Measures(w, rest)
  <2>1. 1 \in Bit /\ rest \in Nat
    BY DEF Bit
  <2> QED BY <2>1, WordParts, WordMeasures
<1>2. h \in HeapType
  BY <1>0 DEF Sound, Shaped
<1>4. /\ y.at = at /\ y.size = size /\ z.at = at + size /\ z.size = rest /\ at # at + size
  <2>1. at # at + size
    OBVIOUS
  <2> QED BY <2>1 DEF Block
<1> HIDE DEF w
<1>5. last.header = [h.header EXCEPT ![at] = v, ![at + size] = w]
  BY DEF w, Rewritten
<1>6. Halved(h, last, B, y, z)
  <2>1. /\ w \in Nat /\ AllocBit(w) = 1
        /\ last.pages = h.pages /\ last.lists = h.lists /\ last.fault = h.fault
    BY <1>1
  <2> HIDE DEF r, L
  <2> QED BY <1>0, <1>3, <1>5, <2>1, HalvedSound
<1> HIDE DEF y, z
<1>7. /\ Sound(last, L \cup {z}, {}) /\ z \notin L
      /\ \A c \in Cells : c \notin {y.at, z.at} => last.header[c] = h.header[c]
      /\ \A u \in B : u.at \in Cells \ {y.at, z.at}
      /\ y.at \in Cells /\ z.at \in Cells
  BY <1>6 DEF Halved
<1>8. last.header[y.at] = v /\ last.header[z.at] = w
  <2>1. h.header \in [Cells -> Nat \cup {Data}] /\ y.at # z.at
    BY <1>2, <1>4 DEF HeapType
  <2> QED BY <1>4, <1>5, <1>7, <2>1
<1>9. Sized(last, L)
  <2>1. \A u \in B : last.header[u.at] = h.header[u.at]
    BY <1>7
  <2>2. \A u \in B : Measures(last.header[u.at], u.size)
    BY <1>0, <2>1 DEF Sized
  <2>3. Measures(last.header[y.at], y.size)
    BY <1>0, <1>4, <1>8
  <2> QED BY <2>2, <2>3 DEF Sized
<1>10. Marked(last, z.at) /\ Measures(last.header[z.at], z.size)
  BY <1>1, <1>4, <1>8 DEF Marked
<1>11. r = SfFree(last, z.at, told)
  BY <1>4
<1> HIDE DEF L, r
<1>12. r.fault \in Broken \/ Freed(last, r, L, z)
  BY <1>0, <1>7, <1>10, <1>11, SfFreeSound
<1>13. Freed(last, r, L, z) => r.fault = "none" /\ Sound(r, L, {}) /\ Sized(r, L)
  <2>1. L \subseteq L
    OBVIOUS
  <2> QED BY <1>0, <1>9, <2>1, KeptSizes DEF Freed
<1>14. Ended(r, L)
  BY <1>12, <1>13 DEF Ended
<1> QED BY <1>14 DEF L, r, y

\* Its first step, when the block does not begin where it should: what is before is freed.
Topped(body, B, z, size) ==
    /\ Sound(body, B \cup {z}, {}) /\ z \notin B /\ body.fault = "none" /\ Sized(body, B)
    /\ Measures(body.header[z.at], size)

\* That step ends with the rest of the block in the place of the whole.
LEMMA TopSound ==
  ASSUME NEW t, NEW B, NEW b \in Nat, NEW skip \in Nat \ {0}, NEW size \in Nat \ {0}, NEW len \in Nat \ {0},
         Got(t, B, Block(b, skip + len)), NEW p \in Bit, t.header[b] = Word(skip + len, p, 1),
         NEW told \in Reject
  PROVE  LET body == SfFree([t EXCEPT !.header[b] = Word(skip, p, 1),
                                      !.header[b + skip] = Word(size, 0, 1)], b, told)
         IN  body.fault \in Broken \/ Topped(body, B, Block(b + skip, len), size)
<1> DEFINE x == Block(b, skip + len)
           y == Block(b, skip)
           z == Block(b + skip, len)
           v == Word(skip, p, 1)
           w == Word(size, 0, 1)
           h == [t EXCEPT !.header[b] = v, !.header[b + skip] = w]
           body == SfFree(h, b, told)
           L == B \cup {z}
<1>1. /\ Sound(t, B \cup {x}, {}) /\ x \notin B /\ t.fault = "none" /\ Sized(t, B) /\ Marked(t, b)
  <2>1. x.at = b /\ x \in B \cup {x} /\ Got(t, B, x)
    BY DEF Block
  <2> HIDE DEF x
  <2> QED BY <2>1 DEF Got, Sized
<1>2. t \in HeapType
  BY <1>1 DEF Sound, Shaped
<1>3. /\ v \in Nat /\ AllocBit(v) = 1 /\ PrevBit(v) = p /\ Measures(v, skip)
      /\ w \in Nat /\ AllocBit(w) = 1 /\ Measures(w, size)
      /\ PrevBit(t.header[b]) = p /\ ~Odd(t.header[b])
  <2>1. 1 \in Bit /\ 0 \in Bit /\ skip \in Nat /\ size \in Nat /\ skip + len \in Nat
    BY DEF Bit
  <2>2. v \in Nat /\ AllocBit(v) = 1 /\ PrevBit(v) = p /\ Measures(v, skip)
    BY <2>1, WordParts, WordMeasures
  <2>3. w \in Nat /\ AllocBit(w) = 1 /\ Measures(w, size)
    BY <2>1, WordParts, WordMeasures
  <2>4. PrevBit(t.header[b]) = p /\ ~Odd(t.header[b])
    BY <2>1, WordParts
  <2> QED BY <2>2, <2>3, <2>4
<1>4. Before(FreeIn(t), b) = {} \/ PrevBit(v) = 0
  <2>1. x.at = b /\ x \in B \cup {x}
    BY DEF Block
  <2> HIDE DEF x
  <2> QED BY <1>1, <1>3, <2>1, BitsBefore
<1>5. /\ y.at = b /\ y.size = skip /\ z.at = b + skip /\ z.size = len /\ b # b + skip
  <2>1. b # b + skip
    OBVIOUS
  <2> QED BY <2>1 DEF Block
<1> HIDE DEF v, w
<1>6. /\ h \in HeapType /\ h.header = [t.header EXCEPT ![b] = v, ![b + skip] = w]
      /\ h.footer = t.footer /\ h.pages = t.pages /\ h.lists = t.lists /\ h.fault = t.fault
  <2> DEFINE H == [t.header EXCEPT ![b] = v, ![b + skip] = w]
  <2>1. H \in [Cells -> Nat \cup {Data}]
    <3>1. t.header \in [Cells -> Nat \cup {Data}]
      BY <1>2 DEF HeapType
    <3> QED BY <1>3, <3>1
  <2>2. h = [t EXCEPT !.header = H]
    BY <1>2 DEF HeapType
  <2> HIDE DEF H
  <2>3. h \in HeapType /\ h.header = H /\ h.footer = t.footer /\ h.pages = t.pages
        /\ h.lists = t.lists /\ h.fault = t.fault
    BY <1>2, <2>1, <2>2 DEF HeapType
  <2> QED BY <2>3 DEF H
<1> HIDE DEF h
<1>7. Halved(t, h, B, y, z)
  BY <1>1, <1>3, <1>4, <1>6, HalvedSound
<1> HIDE DEF x, y, z
<1>8. /\ Sound(h, (B \cup {y}) \cup {z}, {}) /\ y \notin B /\ z \notin B \cup {y}
      /\ \A c \in Cells : c \notin {y.at, z.at} => h.header[c] = t.header[c]
      /\ \A c \in Cells : Found(t, c) => c = z.at \/ Found(h, c)
      /\ \A u \in B : u.at \in Cells \ {y.at, z.at}
      /\ y.at \in Cells /\ z.at \in Cells
  BY <1>7 DEF Halved
<1>9. Sound(h, L \cup {y}, {}) /\ y \notin L
  <2>1. (B \cup {y}) \cup {z} = L \cup {y}
    OBVIOUS
  <2> QED BY <1>8, <2>1
<1>10. h.header[y.at] = v /\ h.header[z.at] = w
  <2>1. t.header \in [Cells -> Nat \cup {Data}] /\ y.at # z.at
    BY <1>2, <1>5 DEF HeapType
  <2> QED BY <1>5, <1>6, <1>8, <2>1
<1>11. Marked(h, y.at)
  BY <1>1, <1>3, <1>5, <1>8, <1>10 DEF Marked
<1>12. body = SfFree(h, y.at, told)
  BY <1>5
<1> HIDE DEF L, body
<1>13. body.fault \in Broken \/ Freed(h, body, L, y)
  BY <1>1, <1>3, <1>5, <1>6, <1>9, <1>10, <1>11, <1>12, SfFreeSound
<1>14. ASSUME Freed(h, body, L, y)
       PROVE  Topped(body, B, z, size)
  <2>1. Sound(body, L, {}) /\ Keeps(h, body, L) /\ body.fault = "none"
    BY <1>1, <1>6, <1>14 DEF Freed
  <2>2. Sized(h, B)
    <3>1. \A u \in B : h.header[u.at] = t.header[u.at]
      BY <1>8
    <3> QED BY <1>1, <3>1 DEF Sized
  <2>3. Keeps(h, body, B) /\ B \subseteq L
    BY <2>1 DEF Keeps, L
  <2>4. Sized(body, B)
    BY <2>1, <2>2, <2>3, KeptSizes
  <2>5. Measures(body.header[z.at], size)
    <3>1. z \in L
      BY DEF L
    <3> QED BY <1>3, <1>10, <2>1, <3>1 DEF Keeps
  <2> QED BY <1>8, <2>1, <2>4, <2>5 DEF Topped, L
<1>15. body.fault \in Broken \/ Topped(body, B, z, size)
  BY <1>13, <1>14
<1> QED BY <1>15 DEF body, h, z, v, w

\* How much sf_memalign leaves free.
LEMMA Slack ==
  ASSUME NEW size \in Nat \ {0}, NEW align \in Nat \ {0}, NEW u \in Nat
  PROVE  LET skip == (align - (u % align)) % align
             rest == (size + align + 1) - skip - size
         IN  skip \in Nat /\ rest \in Nat \ {0} /\ size + align + 1 = skip + (size + rest)
<1> DEFINE d == u % align
           skip == (align - d) % align
<1>1. d \in 0 .. align - 1
  OBVIOUS
<1> HIDE DEF d
<1>2. align - d \in Nat
  BY <1>1
<1>3. skip \in 0 .. align - 1
  <2> DEFINE a == align - d
  <2>1. a \in Nat
    BY <1>2
  <2> HIDE DEF a
  <2>2. a % align \in 0 .. align - 1
    BY <2>1
  <2> QED BY <2>2 DEF a
<1> HIDE DEF skip
<1>4. LET rest == (size + align + 1) - skip - size
      IN  skip \in Nat /\ rest \in Nat \ {0} /\ size + align + 1 = skip + (size + rest)
  BY <1>3
<1> QED BY <1>4 DEF skip, d

\* The last step, when the header of the block has been written before.
LEMMA TailFreed ==
  ASSUME NEW u, NEW B, NEW at \in Nat, NEW size \in Nat \ {0}, NEW rest \in Nat \ {0},
         NEW v, Cuttable(u, B, at, size, rest, v),
         NEW body \in HeapType, body.header = [u.header EXCEPT ![at] = v], body.footer = u.footer,
         body.pages = u.pages, body.lists = u.lists, body.fault = u.fault,
         NEW told \in Reject
  PROVE  LET last == [body EXCEPT !.header[at + size] = Word(rest, 1, 1), !.footer[at + size] = Data]
         IN  Ended(SfFree(last, at + size, told), B \cup {Block(at, size)})
<1> DEFINE c == at + size
           w == Word(rest, 1, 1)
           last == [body EXCEPT !.header[c] = w, !.footer[c] = Data]
           H == [body.header EXCEPT ![c] = w]
           G == [body.footer EXCEPT ![c] = Data]
<1>1. w \in Nat
  <2>1. 1 \in Bit /\ rest \in Nat
    BY DEF Bit
  <2> QED BY <2>1, WordParts
<1> HIDE DEF w
<1>2. /\ H \in [Cells -> Nat \cup {Data}] /\ G \in [Cells -> Nat \cup {Data}]
      /\ \A k \in Cells : k # c => G[k] = body.footer[k]
  <2>1. body.header \in [Cells -> Nat \cup {Data}] /\ body.footer \in [Cells -> Nat \cup {Data}]
    BY DEF HeapType
  <2>2. w \in Nat \cup {Data}
    BY <1>1
  <2> HIDE DEF c
  <2> QED BY <2>1, <2>2
<1>3. last = [body EXCEPT !.header = H, !.footer = G]
  BY DEF HeapType
<1>4. H = [u.header EXCEPT ![at] = v, ![c] = w]
  OBVIOUS
<1> HIDE DEF H, G, last
<1>5. /\ last \in HeapType /\ last.header = H /\ last.footer = G /\ last.pages = body.pages
      /\ last.lists = body.lists /\ last.fault = body.fault
  BY <1>2, <1>3 DEF HeapType
<1>6. Rewritten(u, last, at, size, rest, v)
  BY <1>2, <1>4, <1>5 DEF w, Rewritten
<1>7. Ended(SfFree(last, at + size, told), B \cup {Block(at, size)})
  BY <1>6, TailSound
<1> QED BY <1>7 DEF last, w

\* sf_memalign keeps the invariant.
LEMMA MemalignSound ==
  ASSUME Inv, NEW size \in Nat \ {0}, NEW align \in Nat \ {0}, NEW told1 \in Reject, NEW told2 \in Reject,
         Memalign(size, align, told1, told2)
  PROVE  Inv'
<1> DEFINE room == size + align + 1
           g    == Grown(heap, room)
           b    == Fit(g, room)
           skip == (align - ((Origin + b) % align)) % align
           at   == b + skip
           rest == room - skip - size
           t    == Take(g, room)
           prev == PrevBit(t.header[b])
           h    == [t EXCEPT !.header[b] = Word(skip, prev, 1), !.header[at] = Word(size, 0, 1)]
           body == IF skip = 0 THEN [t EXCEPT !.header[b] = Word(size, prev, 1)]
                   ELSE SfFree(h, b, told1)
           last == [body EXCEPT !.header[at + size] = Word(rest, 1, 1),
                                !.footer[at + size] = Data]
           r    == SfFree(last, at + size, told2)
           L    == held \cup {Block(at, size)}
<1>1. /\ Running /\ heap.fault = "none"
      /\ g.fault # "none" => Return([g EXCEPT !.fault = "wild"], held)
      /\ g.fault = "none" /\ body.fault # "none" => Return(body, held)
      /\ g.fault = "none" /\ body.fault = "none" => Return(r, L)
  BY DEF Memalign, Running
<1>2. HeapSound(heap, held) /\ room \in Nat \ {0}
  BY DEF Inv
<1> HIDE DEF room
<1>3. \/ g.fault \in Broken /\ [g EXCEPT !.fault = "wild"].fault = "wild"
      \/ GrownTo(heap, g, held, room)
  BY <1>1, <1>2, GrownSound
<1> HIDE DEF g
<1>4. CASE g.fault \in Broken /\ [g EXCEPT !.fault = "wild"].fault = "wild"
  <2> DEFINE w == [g EXCEPT !.fault = "wild"]
  <2>1. Return(w, held) /\ w.fault \in Broken
    BY <1>1, <1>4 DEF Broken
  <2> HIDE DEF w
  <2> QED BY <1>1, <2>1, ReturnSound
<1>5. CASE GrownTo(heap, g, held, room)
  <2>1. g.fault = "none" /\ g \in HeapType
    BY <1>5 DEF GrownTo, Sound, Shaped
  <2>2. t.fault \in Broken \/ Got(t, held, Block(b, room))
    BY <1>2, <1>5, GotSound
  <2>3. DOMAIN t = DOMAIN g
    <3>1. \A c : DOMAIN Unlist(g, c) = DOMAIN g
      BY FieldsStay
    <3> QED BY <3>1, AllocateFields DEF Take
  <2> HIDE DEF t, b
  <2>4. CASE t.fault \in Broken
    <3>1. "fault" \in DOMAIN t
      BY <2>1, <2>3 DEF HeapType
    <3>2. \A c, v : [t EXCEPT !.header[c] = v].fault = t.fault
      BY <3>1
    <3>3. h.fault = t.fault
      BY <3>1
    <3> HIDE DEF h
    <3>4. t.fault # "none"
      BY <2>4 DEF Broken
    <3>5. SfFree(h, b, told1) = h
      BY <3>3, <3>4, FreeNothing
    <3>6. body.fault = t.fault
      BY <3>2, <3>3, <3>5
    <3> HIDE DEF body
    <3>7. Return(body, held)
      BY <1>1, <2>1, <3>4, <3>6
    <3> QED BY <1>1, <2>4, <3>6, <3>7, ReturnSound
  <2>5. CASE Got(t, held, Block(b, room))
    <3> DEFINE x == Block(b, room)
               z == Block(at, size + rest)
    <3>1. Sound(t, held \cup {x}, {}) /\ x \notin held /\ t.fault = "none" /\ Sized(t, held)
      <4>1. Got(t, held, x)
        BY <2>5
      <4> HIDE DEF x
      <4> QED BY <4>1 DEF Got, Sized
    <3>2. b \in Nat /\ t \in HeapType
      <4>1. x \in BlockType
        <5> HIDE DEF x
        <5> QED BY <3>1, Places
      <4> QED BY <3>1, <4>1 DEF BlockType, Block, Sound, Shaped
    <3>3. skip \in Nat /\ rest \in Nat \ {0} /\ room = skip + (size + rest)
      <4>1. Origin + b \in Nat
        BY <3>2, SfmmAssumption
      <4> QED BY <4>1, Slack DEF room
    <3>4. PICK p \in Bit : t.header[b] = Word(room, p, 1)
      <4>1. x.at = b /\ x.size = room /\ Got(t, held, x)
        BY <2>5 DEF Block
      <4> HIDE DEF x
      <4> QED BY <4>1 DEF Got
    <3>5. prev = p
      BY <1>2, <3>4, WordParts DEF Bit
    <3> HIDE DEF prev, rest
    <3>6. at \in Nat /\ size + rest \in Nat \ {0}
      BY <3>2, <3>3
    <3>7. \/ body.fault \in Broken
          \/ body.fault = "none" /\ Ended(r, L)
      <4>1. CASE skip = 0
        <5>1. at = b /\ body = [t EXCEPT !.header[b] = Word(size, p, 1)]
          BY <3>2, <3>5, <4>1
        <5>2. room = size + rest
          BY <3>3, <4>1
        <5> HIDE DEF at, body
        <5> DEFINE v == Word(size, p, 1)
        <5>3. v \in Nat /\ AllocBit(v) = 1 /\ PrevBit(v) = p /\ Measures(v, size) /\ ~Odd(t.header[b])
              /\ PrevBit(t.header[b]) = p
          <6>1. 1 \in Bit /\ size \in Nat /\ room \in Nat
            BY <1>2 DEF Bit
          <6> QED BY <3>4, <6>1, WordParts, WordMeasures
        <5>4. Before(FreeIn(t), b) = {} \/ PrevBit(v) = 0
          <6>1. x.at = b /\ x \in held \cup {x}
            BY DEF Block
          <6> HIDE DEF x
          <6> QED BY <3>1, <5>3, <6>1, BitsBefore
        <5> HIDE DEF v
        <5>5. /\ body \in HeapType /\ body.header = [t.header EXCEPT ![b] = v] /\ body.footer = t.footer
              /\ body.pages = t.pages /\ body.lists = t.lists /\ body.fault = t.fault
          <6>1. [t.header EXCEPT ![b] = v] \in [Cells -> Nat \cup {Data}]
            <7>1. t.header \in [Cells -> Nat \cup {Data}]
              BY <3>2 DEF HeapType
            <7> QED BY <5>3, <7>1
          <6>2. body = [t EXCEPT !.header = [t.header EXCEPT ![b] = v]]
            BY <3>2, <5>1 DEF HeapType, v
          <6> QED BY <3>2, <6>1, <6>2 DEF HeapType
        <5>6. /\ Block(b, size + rest) \notin held /\ Sound(t, held \cup {Block(b, size + rest)}, {})
              /\ t.fault = "none" /\ Sized(t, held)
          BY <3>1, <5>2
        <5>7. Ended(r, L)
          <6>1. Cuttable(t, held, b, size, rest, v)
            BY <5>3, <5>4, <5>6 DEF Cuttable
          <6> QED BY <3>2, <3>3, <5>1, <5>5, <6>1, TailFreed
        <5> QED BY <5>5, <5>6, <5>7
      <4>2. CASE skip # 0
        <5>1. body = SfFree([t EXCEPT !.header[b] = Word(skip, p, 1), !.header[b + skip] = Word(size, 0, 1)],
                            b, told1)
          BY <3>5, <4>2
        <5>2. room = skip + (size + rest) /\ skip \in Nat \ {0}
          BY <3>3, <4>2
        <5> HIDE DEF skip, body
        <5>3. body.fault \in Broken \/ Topped(body, held, z, size)
          <6>1. Got(t, held, Block(b, skip + (size + rest))) /\ t.header[b] = Word(skip + (size + rest), p, 1)
            BY <2>5, <3>4, <5>2
          <6> QED BY <3>2, <3>6, <5>1, <5>2, <6>1, TopSound
        <5>4. ASSUME Topped(body, held, z, size)
              PROVE  Ended(r, L)
          <6> DEFINE v == body.header[at]
          <6>1. /\ z.at = at /\ z \in held \cup {z}
            BY DEF Block
          <6> HIDE DEF at
          <6>2. /\ z \notin held /\ Sound(body, held \cup {z}, {}) /\ body.fault = "none" /\ Sized(body, held)
                /\ Measures(v, size) /\ body \in HeapType
            BY <5>4, <6>1 DEF Topped, Sound, Shaped
          <6>3. v \in Nat /\ AllocBit(v) = 1
            BY <6>1, <6>2 DEF Sound, Allocated
          <6>4. \/ Before(FreeIn(body), at) = {}
                \/ Odd(v)
                \/ PrevBit(v) = 0
            BY <6>1, <6>2, BitsBefore
          <6>5. body.header = [body.header EXCEPT ![at] = v]
            <7>1. body.header \in [Cells -> Nat \cup {Data}]
              BY <6>2 DEF HeapType
            <7> QED BY <7>1
          <6> HIDE DEF v
          <6>6. Cuttable(body, held, at, size, rest, v)
            BY <6>2, <6>3, <6>4 DEF Cuttable
          <6> QED BY <3>3, <3>6, <6>2, <6>5, <6>6, TailFreed
        <5> QED BY <5>3, <5>4 DEF Topped
      <4> QED BY <4>1, <4>2
    <3> HIDE DEF body, r, L
    <3>8. CASE body.fault \in Broken
      <4>1. Return(body, held)
        BY <1>1, <2>1, <3>8 DEF Broken
      <4> QED BY <1>1, <3>8, <4>1, ReturnSound
    <3>9. CASE body.fault = "none" /\ Ended(r, L)
      BY <1>1, <2>1, <3>9, ReturnSound DEF Ended
    <3> QED BY <3>7, <3>8, <3>9
  <2> QED BY <2>2, <2>4, <2>5
<1> QED BY <1>3, <1>4, <1>5

-----------------------------------------------------------------------------
(* The invariant and the properties. *)

\* There is no heap before the first call.
LEMMA InitInv == Init => Inv
<1> SUFFICES ASSUME Init
             PROVE  Inv
  OBVIOUS
<1>1. /\ heap.pages = 0 /\ heap.lists = [i \in 0 .. 9 |-> << >>] /\ heap.fault = "none" /\ held = {}
      /\ heap.header = [u \in Cells |-> Data] /\ heap.footer = [u \in Cells |-> Data]
  BY DEF Init
<1>2. \A i \in 0 .. 9 : heap.lists[i] = << >>
  BY <1>1
<1>3. heap \in HeapType
  <2>1. << >> \in Seq(Cells)
    OBVIOUS
  <2>2. /\ [u \in Cells |-> Data] \in [Cells -> Nat \cup {Data}]
        /\ [i \in 0 .. 9 |-> << >>] \in [0 .. 9 -> Seq(Cells)]
    BY <2>1
  <2> QED BY <2>2 DEF Init, HeapType, Faults
<1> QED BY <1>1, <1>2, <1>3 DEF Inv, HeapSound, Faults

\* Every call keeps the invariant.
LEMMA NextInv == Inv /\ [Next]_vars => Inv'
<1> SUFFICES ASSUME Inv, [Next]_vars
             PROVE  Inv'
  OBVIOUS
<1>1. (\A size \in Sizes : size \in Nat \ {0}) /\ (\A align \in Alignments : align \in Nat \ {0})
  BY SfmmAssumption
<1>2. \A x : Tells(x) \subseteq Reject
  BY DEF Tells, Reject
<1>3. ASSUME NEW size \in Sizes, Malloc(size)
      PROVE  Inv'
  BY <1>1, <1>3, MallocSound
<1>4. ASSUME NEW x \in held, NEW told \in Tells(x), Free(x, told)
      PROVE  Inv'
  BY <1>2, <1>4, FreeSound
<1>5. ASSUME NEW x \in held, NEW told \in Tells(x), ReallocInvalid(x, told)
      PROVE  Inv'
  BY <1>2, <1>5, ReallocInvalidSound
<1>6. ASSUME NEW x \in held, NEW size \in Sizes, NEW told \in Tells(x), Shrink(x, size, told)
      PROVE  Inv'
  BY <1>1, <1>2, <1>6, ShrinkSound
<1>7. ASSUME NEW x \in held, NEW size \in Sizes, NEW told \in Tells(x), Move(x, size, told)
      PROVE  Inv'
  BY <1>1, <1>2, <1>7, MoveSound
<1>8. ASSUME NEW size \in Sizes, NEW align \in Alignments, NEW told1 \in Reject, NEW told2 \in Reject,
             Memalign(size, align, told1, told2)
      PROVE  Inv'
  BY <1>1, <1>8, MemalignSound
<1>9. CASE UNCHANGED vars
  BY <1>9 DEF Inv, vars
<1> QED BY <1>3, <1>4, <1>5, <1>6, <1>7, <1>8, <1>9 DEF Next

\* Between the calls the heap is sound: for every number of pages, set of sizes and
\* alignments, and whatever the program's data says of its own blocks.
THEOREM InvHolds == Spec => []Inv
BY InitInv, NextInv, PTL DEF Spec

\* Between the calls, once there is a heap.
LEMMA InvParts ==
  ASSUME Inv
  PROVE  /\ heap \in HeapType /\ heap.fault \in Faults
         /\ heap.pages = 0 => held = {} /\ FreeBlocks = {} /\ Listed(heap) = {}
         /\ heap.pages # 0 => /\ Sound(heap, held, {}) /\ heap.pages \in 1 .. MaxPages
                              /\ FreeBlocks = FreeIn(heap)
<1>1. heap \in HeapType /\ heap.fault \in Faults /\ (heap.pages # 0 => heap.pages \in 1 .. MaxPages)
  BY HeapTyped DEF Inv
<1>2. FreeBlocks = FreeIn(heap)
  BY DEF FreeBlocks, FreeBlock, FreeIn
<1>3. heap.pages = 0 => Listed(heap) = {} /\ held = {}
  BY DEF Inv, HeapSound, Listed, Range
<1>4. Listed(heap) = {} => FreeIn(heap) = {}
  BY DEF FreeIn
<1>5. heap.pages # 0 => Sound(heap, held, {})
  BY DEF Inv, HeapSound
<1> QED BY <1>1, <1>2, <1>3, <1>4, <1>5

\* Types, and the epilogue at the end of the heap, which every change of size writes anew
\* (sfmm.c:123-153, 357-387).
THEOREM Typed == Spec => []TypeOK
<1>1. Inv => TypeOK
  <2> SUFFICES ASSUME Inv
               PROVE  TypeOK
    OBVIOUS
  <2>1. heap \in HeapType /\ heap.fault \in Faults
    BY InvParts
  <2>2. heap.pages \in 0 .. MaxPages
    <3>1. heap.pages # 0 => heap.pages \in 1 .. MaxPages
      BY InvParts
    <3> QED BY <3>1, SfmmAssumption
  <2>3. heap.pages > 0 => heap.header[Epilogue(heap)] \in {Word(0, 0, 1), Word(0, 1, 1)}
    <3>1. heap.pages # 0 => LastBit(heap, {} \cup FreeIn(heap))
      BY InvParts DEF Sound
    <3> QED BY <2>2, <3>1 DEF LastBit
  <2>4. Listed(heap) \subseteq Cells
    BY <2>1, ListedCells
  <2>5. \A x \in held : x.at \in Cells /\ x.size \in Nat
    <3>1. CASE heap.pages = 0
      BY <3>1, InvParts
    <3>2. CASE heap.pages # 0
      <4>1. Sound(heap, held, {})
        BY <3>2, InvParts
      <4>2. \A x \in held \cup {} \cup FreeIn(heap) : x \in BlockType /\ x.at \in Cells
        BY <4>1, Places
      <4> QED BY <4>2 DEF BlockType
    <3> QED BY <3>1, <3>2
  <2>6. /\ heap.header \in [Cells -> Nat \cup {Data}] /\ heap.footer \in [Cells -> Nat \cup {Data}]
        /\ DOMAIN heap.lists = 0 .. 9
    BY <2>1 DEF HeapType
  <2> QED BY <2>1, <2>2, <2>3, <2>4, <2>5, <2>6 DEF TypeOK, Faults
<1> QED BY <1>1, InvHolds, PTL

\* No call loses a block, hands out memory twice, or leaves two free neighbours: coalescing
\* and splitting take exactly what they free (sfmm.c:254-296, 357-387).
THEOREM Tiled == Spec => []BlocksTile
<1>1. Inv => BlocksTile
  <2> SUFFICES ASSUME Inv, heap.pages > 0
               PROVE  /\ UNION {UnitsOf(x) : x \in held \cup FreeBlocks} = 0 .. Epilogue(heap) - 1
                      /\ \A x, y \in held \cup FreeBlocks : x # y => UnitsOf(x) \cap UnitsOf(y) = {}
                      /\ \A x, y \in FreeBlocks : x.at + x.size # y.at
    BY DEF BlocksTile
  <2> DEFINE T == held \cup FreeBlocks
             n == Epilogue(heap)
  <2>1. /\ Sound(heap, held, {}) /\ FreeBlocks = FreeIn(heap) /\ heap.pages # 0
    BY InvParts
  <2>2. n \in Nat /\ Tiles(T, n)
    <3>1. n \in Nat
      BY <2>1, Ends DEF Sound
    <3>2. held \cup {} \cup FreeIn(heap) = T
      BY <2>1
    <3> QED BY <2>1, <3>1, <3>2 DEF Sound
  <2> HIDE DEF T, n
  <2>3. \A x \in T : x.at \in Nat /\ x.size \in Nat \ {0} /\ End(x) = x.at + x.size /\ End(x) <= n
                     /\ UnitsOf(x) = x.at .. End(x) - 1
    BY <2>2 DEF Tiles, BlockType, UnitsOf, End
  <2>4. ASSUME NEW u \in 0 .. n - 1
        PROVE  \E x \in T : u \in UnitsOf(x)
    <3>1. PICK x \in T : x.at <= u /\ u < End(x)
      BY <2>2 DEF Tiles
    <3>2. u \in UnitsOf(x)
      BY <2>3, <3>1 DEF End
    <3> QED BY <3>2
  <2>5. ASSUME NEW x \in T, NEW u \in UnitsOf(x)
        PROVE  u \in 0 .. n - 1
    BY <2>2, <2>3
  <2>6. ASSUME NEW x \in T, NEW y \in T, x # y
        PROVE  UnitsOf(x) \cap UnitsOf(y) = {}
    <3>1. End(x) <= y.at \/ End(y) <= x.at
      BY <2>2, <2>6 DEF Tiles
    <3> QED BY <2>3, <3>1
  <2>7. \A x, y \in FreeBlocks : x.at + x.size # y.at
    BY <2>1 DEF Sound, Apart, End
  <2>8. UNION {UnitsOf(x) : x \in T} = 0 .. n - 1
    BY <2>4, <2>5
  <2> QED BY <2>6, <2>7, <2>8 DEF T, n
<1> QED BY <1>1, InvHolds, PTL

\* A free block is in the list of its size, or in the last one at the end of the heap, and
\* nowhere else: every path that moves or resizes a block refiles it (sfmm.h:144-159).
THEOREM FiledOnceHolds == Spec => []FiledOnce
<1>1. Inv => FiledOnce
  <2> SUFFICES ASSUME Inv, NEW b \in Listed(heap), NEW i \in 0 .. 9
               PROVE  LET own == IF b + Size(heap.header[b]) = Epilogue(heap) THEN Wilderness
                                 ELSE Class(Size(heap.header[b]))
                      IN  Cardinality({k \in DOMAIN heap.lists[i] : heap.lists[i][k] = b})
                              = IF i = own THEN 1 ELSE 0
    BY DEF FiledOnce
  <2> DEFINE list == heap.lists[i]
             S == {k \in DOMAIN list : list[k] = b}
  <2>1. Filed(heap) /\ heap \in HeapType
    <3>1. heap.pages # 0
      BY InvParts
    <3> QED BY <3>1, InvParts DEF Sound
  <2>2. \A j \in 0 .. 9 : \A c \in Range(heap.lists[j]) : j = Own(heap, c)
    BY <2>1 DEF Filed
  <2>3. IsInjective(list)
    BY <2>1 DEF Filed, Once
  <2>4. PICK j \in 0 .. 9 : b \in Range(heap.lists[j])
    BY <2>1, ListedCells
  <2>5. j = Own(heap, b)
    BY <2>2, <2>4
  <2>6. CASE i = Own(heap, b)
    <3>1. b \in Range(list)
      BY <2>4, <2>5, <2>6
    <3>2. PICK k \in DOMAIN list : list[k] = b
      BY <3>1 DEF Range
    <3>3. S = {k}
      BY <2>3, <3>2 DEF IsInjective
    <3> HIDE DEF S
    <3>4. Cardinality(S) = 1
      BY <3>3, FS_Singleton
    <3> QED BY <2>6, <3>4 DEF S, Own, IsWilderness
  <2>7. CASE i # Own(heap, b)
    <3>1. b \notin Range(list)
      BY <2>2, <2>7
    <3>2. S = {}
      BY <3>1 DEF Range
    <3> HIDE DEF S
    <3>3. Cardinality(S) = 0
      BY <3>2, FS_EmptySet
    <3> QED BY <2>7, <3>3 DEF S, Own, IsWilderness
  <2> QED BY <2>6, <2>7
<1> QED BY <1>1, InvHolds, PTL

\* The footer of a free block is its header, though headers are written in seven places
\* (sfmm.h:64).
THEOREM FootersHold == Spec => []FootersMatch
<1>1. Inv => FootersMatch
  <2> SUFFICES ASSUME Inv, NEW b \in Listed(heap)
               PROVE  heap.footer[b + Size(heap.header[b])] = heap.header[b]
    BY DEF FootersMatch
  <2>1. Sound(heap, held, {})
    <3>1. heap.pages # 0
      BY InvParts
    <3> QED BY <3>1, InvParts
  <2> DEFINE x == Block(b, Size(heap.header[b]))
  <2>2. x \in FreeIn(heap) /\ x.at = b /\ End(x) = b + Size(heap.header[b])
    BY FreeBlocksOf DEF Block, End
  <2> HIDE DEF x
  <2>3. Headed(heap, x)
    BY <2>1, <2>2 DEF Sound
  <2> QED BY <2>2, <2>3 DEF Headed
<1> QED BY <1>1, InvHolds, PTL

\* The wilderness list holds the last block of the heap, if that is free.
LEMMA InWilderness ==
  ASSUME NEW q, NEW B, Sound(q, B, {}), q.lists[Wilderness] # << >>
  PROVE  \E y \in FreeIn(q) : /\ End(y) = Epilogue(q)
                              /\ Size(q.header[q.lists[Wilderness][1]]) = y.size
<1> DEFINE list == q.lists[9]
           b == list[1]
           y == Block(b, Size(q.header[b]))
<1>1. q \in HeapType /\ Filed(q) /\ 9 \in 0 .. 9
  BY DEF Sound, Shaped
<1>2. list \in Seq(Cells) /\ list # << >>
  BY <1>1 DEF HeapType, Wilderness
<1>3. b \in Range(list)
  <2> HIDE DEF list
  <2>1. 1 \in DOMAIN list
    BY <1>2
  <2> QED BY <2>1 DEF Range
<1>4. b \in Listed(q)
  BY <1>1, <1>3, ListedCells
<1>5. y \in FreeIn(q)
  BY <1>4 DEF FreeIn
<1>6. y.at = b /\ y.size = Size(q.header[b]) /\ End(y) = b + Size(q.header[b])
  BY DEF Block, End
<1>7. Size(q.header[b]) \in Nat \ {0}
  <2>1. y \in BlockType
    <3> HIDE DEF y
    <3> QED BY <1>5, Places
  <2> QED BY <1>6, <2>1 DEF BlockType
<1>8. 9 = Own(q, b)
  BY <1>1, <1>3 DEF Filed
<1>9. IsWilderness(q, b)
  <2>1. Class(Size(q.header[b])) \in 0 .. 8
    BY <1>7, Classes
  <2> QED BY <1>8, <2>1 DEF Own
<1> HIDE DEF y
<1>10. End(y) = Epilogue(q) /\ Size(q.header[q.lists[Wilderness][1]]) = y.size
  BY <1>6, <1>9 DEF IsWilderness, Wilderness
<1> QED BY <1>5, <1>10

\* What is left of the new pages is less than a page.
LEMMA LeftOver ==
  ASSUME NEW g, NEW B, Sound(g, B, {}), NEW r, NEW x \in FreeIn(g), NEW size \in Nat \ {0}, size <= x.size,
         Taken(g, r, B, x, size),
         NEW z \in FreeIn(g), End(z) = Epilogue(g), size <= z.size, z.size < size + PageUnits,
         \A v \in FreeIn(g) \ {z} : v.size < size,
         NEW y \in FreeIn(r), End(y) = Epilogue(r)
  PROVE  y.size < PageUnits
<1>1. /\ FreeIn(r) = (FreeIn(g) \ {x})
                     \cup (IF size = x.size THEN {} ELSE {Block(x.at + size, x.size - size)})
      /\ r.pages = g.pages
  BY DEF Taken
<1>2. \A v \in B \cup {} \cup FreeIn(g) : v \in BlockType
  BY Places
<1>3. x.size \in Nat /\ z.size \in Nat /\ PageUnits \in Nat
  BY <1>2, SfmmAssumption DEF BlockType
<1>4. x = z
  <2>1. ~(x.size < size)
    BY <1>3
  <2> QED BY <2>1
<1>5. CASE y \in FreeIn(g) \ {x}
  <2>1. Tiles(B \cup {} \cup FreeIn(g), Epilogue(g)) /\ Epilogue(g) \in Nat
    BY Ends DEF Sound
  <2>2. End(y) = End(z)
    BY <1>1 DEF Epilogue
  <2>3. y = z
    BY <1>5, <2>1, <2>2, OneBlock
  <2> QED BY <1>4, <1>5, <2>3
<1>6. CASE y \notin FreeIn(g) \ {x}
  <2>1. y = Block(x.at + size, x.size - size)
    BY <1>1, <1>6
  <2>2. y.size = z.size - size
    BY <1>4, <2>1 DEF Block
  <2> QED BY <1>3, <2>2
<1> QED BY <1>5, <1>6

\* The heap grows only when nothing fits, and what is then left over is less than a page
\* (sfmm.c:123-153).
THEOREM GrowthNeeded == Spec => GrowsWhenNeeded
<1> DEFINE A == \A size \in Sizes :
                    heap'.pages > heap.pages /\ heap'.fault = "none" /\ Malloc(size) =>
                        /\ \A x \in FreeBlocks : x.size < size
                        /\ heap'.lists[Wilderness] # << >> =>
                               Size(heap'.header[heap'.lists[Wilderness][1]]) < PageUnits
<1>1. Inv => A
  <2> SUFFICES ASSUME Inv, NEW size \in Sizes, heap'.pages > heap.pages, heap'.fault = "none", Malloc(size)
               PROVE  /\ \A x \in FreeBlocks : x.size < size
                      /\ heap'.lists[Wilderness] # << >> =>
                             Size(heap'.header[heap'.lists[Wilderness][1]]) < PageUnits
    OBVIOUS
  <2> DEFINE g == Grown(heap, size)
             r == Take(g, size)
             new == Block(Fit(g, size), size)
             q == heap'
  <2>1. /\ Running /\ heap.fault = "none" /\ size \in Nat \ {0}
        /\ g.fault = "none" => Return(r, held \cup {new})
        /\ g.fault # "none" => Return(g, held)
    BY SfmmAssumption DEF Malloc, Running
  <2>2. HeapSound(heap, held) /\ heap \in HeapType /\ FreeBlocks = FreeIn(heap)
    BY InvParts DEF Inv, FreeBlocks, FreeBlock, FreeIn
  <2>3. g.fault \in Broken \/ GrownTo(heap, g, held, size)
    BY <2>1, <2>2, GrownSound
  <2> HIDE DEF g
  <2>4. \A h, L : Return(h, L) => h.fault = "none"
    <3>1. ASSUME NEW h, NEW L, Return(h, L), h.fault # "none"
          PROVE  FALSE
      <4>1. heap' = [heap EXCEPT !.fault = h.fault]
        BY <3>1 DEF Return
      <4>2. heap'.fault = h.fault
        BY <2>2, <4>1 DEF HeapType
      <4> QED BY <3>1, <4>2
    <3> QED BY <3>1
  <2>5. g.fault = "none" /\ Return(r, held \cup {new})
    BY <2>1, <2>4
  <2>6. GrownTo(heap, g, held, size)
    BY <2>3, <2>5 DEF Broken
  <2>7. \/ r.fault \in Broken
        \/ Got(r, held, new) /\ \E x \in FreeIn(g) : size <= x.size /\ Taken(g, r, held, x, size)
    BY <2>1, <2>2, <2>6, GotSound
  <2> HIDE DEF r, new
  <2>8. r.fault = "none"
    BY <2>4, <2>5
  <2>9. Got(r, held, new) /\ \E x \in FreeIn(g) : size <= x.size /\ Taken(g, r, held, x, size)
    BY <2>7, <2>8 DEF Broken
  <2>10. PICK x \in FreeIn(g) : size <= x.size /\ Taken(g, r, held, x, size)
    BY <2>9
  <2>11. Sound(r, held \cup {new}, {}) /\ Sized(r, held \cup {new})
    BY <2>9 DEF Got
  <2>12. q = Tidy(r, held \cup {new})
    BY <2>5, <2>8 DEF Return
  <2> HIDE DEF q
  <2>13. /\ HeapSound(q, held \cup {new}) /\ q.pages = r.pages /\ FreeIn(q) = FreeIn(r)
    BY <2>11, <2>12, TidySound
  <2>14. r.pages = g.pages
    BY <2>10 DEF Taken
  <2>15. g.pages > heap.pages
    BY <2>13, <2>14 DEF q
  <2>16. /\ \A f \in FreeIn(heap) : f.size < size
         /\ \E z \in FreeIn(g) : /\ End(z) = Epilogue(g) /\ size <= z.size /\ z.size < size + PageUnits
                                 /\ \A f \in FreeIn(g) \ {z} : f.size < size
    BY <2>6, <2>15 DEF GrownTo
  <2>17. PICK z \in FreeIn(g) : /\ End(z) = Epilogue(g) /\ size <= z.size /\ z.size < size + PageUnits
                                /\ \A f \in FreeIn(g) \ {z} : f.size < size
    BY <2>16
  <2>18. q.lists[Wilderness] # << >> => Size(q.header[q.lists[Wilderness][1]]) < PageUnits
    <3>1. q.pages # 0
      <4>1. heap.pages \in Nat /\ q.pages > heap.pages
        BY <2>2 DEF HeapType, q
      <4>2. q.pages \in Nat
        <5>1. q \in HeapType
          BY <2>13, HeapTyped
        <5> QED BY <5>1 DEF HeapType
      <4> QED BY <4>1, <4>2
    <3>2. Sound(q, held \cup {new}, {})
      BY <2>13, <3>1 DEF HeapSound
    <3> SUFFICES ASSUME q.lists[Wilderness] # << >>
                 PROVE  Size(q.header[q.lists[Wilderness][1]]) < PageUnits
      OBVIOUS
    <3>3. PICK y \in FreeIn(q) : /\ End(y) = Epilogue(q)
                                 /\ Size(q.header[q.lists[Wilderness][1]]) = y.size
      BY <3>2, InWilderness
    <3>4. y \in FreeIn(r) /\ End(y) = Epilogue(r)
      BY <2>13, <3>3 DEF Epilogue
    <3>5. Sound(g, held, {})
      BY <2>6 DEF GrownTo
    <3>6. y.size < PageUnits
      BY <2>1, <2>10, <2>17, <3>4, <3>5, LeftOver
    <3> QED BY <3>3, <3>6
  <2> QED BY <2>2, <2>16, <2>18 DEF q
<1>2. Inv /\ [Next]_vars => [A]_vars
  BY <1>1
<1> QED BY <1>2, InvHolds, PTL DEF Spec, GrowsWhenNeeded
==============================================================================
