------------------------------- MODULE Sfmm -------------------------------
(***************************************************************************)
(* The allocator of hw3 (sfmm.c).  Memory is counted in units of M bytes;  *)
(* block u is the block whose payload is u units after that of the first   *)
(* one.  A header or footer is the number that the code stores:            *)
(* M * size + 2 * (previous allocated) + (allocated).                      *)
(***************************************************************************)
EXTENDS Integers, Sequences, FiniteSets, Functions

CONSTANTS M,            \* the bytes of a unit (64 in the program)
          PageUnits,    \* the units of a page (64 in the program)
          MaxPages,     \* the pages that sf_mem_grow can give (16 there)
          Origin,       \* the address of block 0's payload, in units
          Sizes,        \* the block sizes that requests round up to
          Alignments,   \* the alignments asked for, in units
          MaxHeld       \* bound: blocks that the program holds at a time

ASSUME SfmmAssumption ==
    /\ M \in Nat /\ M > 4 /\ M % 4 = 0
    /\ PageUnits \in Nat /\ PageUnits > 2
    /\ MaxPages \in Nat \ {0}
    /\ Origin \in Nat
    /\ Sizes \subseteq Nat \ {0}
    /\ Alignments \subseteq Nat \ {0}
    /\ MaxHeld \in Nat

VARIABLES heap,    \* the memory and the lists, and what has gone wrong
          held     \* the blocks that the program has been given and not freed

vars == <<heap, held>>

Data == -1                  \* a word that belongs to the program, or was never written
Wilderness == 9             \* the list of the wilderness block
Cells == 0 .. MaxPages * PageUnits - 2
Reject == {"yes", "no", "wild"}   \* what a look at the program's data can tell (below)

Word(size, prev, alloc) == M * size + 2 * prev + alloc
Bytes(w) == w - (w % 4)
Size(w) == Bytes(w) \div M
PrevBit(w) == (w \div 2) % 2
AllocBit(w) == w % 2

\* The epilogue is the last header of the heap.
Epilogue(h) == h.pages * PageUnits - 2
PagesFor(units) == (units + PageUnits - 1) \div PageUnits

-----------------------------------------------------------------------------
(* The free lists. *)

Fibonacci == <<1, 2, 3, 5, 8, 13, 21, 34>>

Class(size) ==
    IF size > Fibonacci[8] THEN 8
    ELSE CHOOSE i \in 0 .. 7 : /\ size <= Fibonacci[i + 1]
                               /\ i = 0 \/ size > Fibonacci[i]

Listed(h) == UNION {Range(h.lists[i]) : i \in 0 .. 9}

Insert(h, i, b) == [h EXCEPT !.lists[i] = <<b>> \o @]

\* The list without b, which is in it once.
Without(list, b) ==
    LET at == CHOOSE k \in DOMAIN list : list[k] = b
    IN  IF \A k \in DOMAIN list : list[k] # b THEN list
        ELSE [k \in 1 .. Len(list) - 1 |-> IF k < at THEN list[k] ELSE list[k + 1]]

Unlist(h, b) == [h EXCEPT !.lists = [i \in 0 .. 9 |-> Without(h.lists[i], b)]]

IsWilderness(h, b) == b + Size(h.header[b]) = Epilogue(h)

FileBySize(h, b) == Insert(h, Class(Size(h.header[b])), b)      \* a mutation of File
File(h, b) ==
    Insert(h, IF IsWilderness(h, b) THEN Wilderness ELSE Class(Size(h.header[b])), b)

\* The blocks of list i that are large enough, and the first of them.
Fits(h, i, size) == { k \in DOMAIN h.lists[i] : Size(h.header[h.lists[i][k]]) >= size }
FitIn(h, i, size) ==
    h.lists[i][CHOOSE k \in Fits(h, i, size) : \A m \in Fits(h, i, size) : k <= m]
\* A mutation of FittingLists: blocks of the size's own class are not looked at.
FittingListsAbove(h, size) == { i \in Class(size) + 1 .. 9 : Fits(h, i, size) # {} }
FittingLists(h, size) == { i \in Class(size) .. 9 : Fits(h, i, size) # {} }
Fit(h, size) ==
    FitIn(h, CHOOSE i \in FittingLists(h, size) : \A j \in FittingLists(h, size) : i <= j, size)

-----------------------------------------------------------------------------
(* Coalescing and splitting.  A heap with a fault is left alone: the code  *)
(* goes on, but has followed a pointer that is none ("wild") or made a     *)
(* header that says another size ("damaged", below).                       *)

\* The two halves of merge_adjacent_free_blocks.
MergeNext(h, b) ==
    LET next == b + Size(h.header[b])
        word == Word(Size(h.header[b]) + Size(h.header[next]), 0, 0)
    IN  IF AllocBit(h.header[next]) = 1 THEN h
        ELSE [Unlist(h, next) EXCEPT !.header[b] = word,
                                     !.footer[next + Size(h.header[next])] = word]

\* The block before is found by its footer, which only a free block has.
PrevBlock(h, b) == IF h.footer[b] = Data THEN Data ELSE b - Size(h.footer[b])

\* A mutation of MergePrev: the footer is left as it was.
MergePrevNoFooter(h, b, prevBit) ==
    LET prev == PrevBlock(h, b)
    IN  IF prevBit = 1 THEN File(h, b)
        ELSE IF prev \notin Listed(h) THEN [h EXCEPT !.fault = "wild"]
        ELSE File([Unlist(h, prev) EXCEPT !.header[prev] = @ + M * Size(h.header[b])], prev)

MergePrev(h, b, prevBit) ==
    LET prev == PrevBlock(h, b)
        word == h.header[prev] + M * Size(h.header[b])
    IN  IF prevBit = 1 THEN File(h, b)
        ELSE IF prev \notin Listed(h) THEN [h EXCEPT !.fault = "wild"]
        ELSE File([Unlist(h, prev) EXCEPT !.header[prev] = word,
                                          !.footer[b + Size(h.header[b])] = word], prev)

MergeBack(h, b) == MergePrev(h, b, PrevBit(h.header[b]))       \* a mutation of Merge
Merge(h, b) == MergePrev(MergeNext(h, b), b, PrevBit(h.header[b]))

\* A mutation of SplitOff: the epilogue is treated like any other block.
SplitOffPlain(h, s, rest) ==
    LET word == Word(rest, 1, 0)
    IN  Merge([h EXCEPT !.header[s] = word, !.footer[s + rest] = word,
                        !.header[s + rest] = @ - 2], s)

\* free_block_split, with the coalescing that follows: s is cut off with rest units.  It
\* takes 2 from the header after s, which has the prev-allocated bit only if s was part of
\* an allocated block: else the subtraction borrows from the size.  The header of an
\* allocated block then has a size that is_allocated_block refuses, until the borrowing has
\* reached another multiple of M.
SplitOff(h, s, rest) ==
    LET next == s + rest
        word == Word(rest, 1, 0)
        cut  == [h EXCEPT !.header[s] = word, !.footer[next] = word,
                          !.header[next] = IF next = Epilogue(h) THEN 1 ELSE @ - 2]
        w    == cut.header[next]
        odd  == Bytes(w) % M # 0
    IN  IF next = Epilogue(h) THEN Merge(cut, s)
        ELSE IF AllocBit(w) = 1
        THEN IF Bytes(w) # Bytes(h.header[next]) /\ ~odd
             THEN [cut EXCEPT !.fault = "damaged"] ELSE Merge(cut, s)
        ELSE IF odd THEN [cut EXCEPT !.fault = "damaged"]
        ELSE Merge([cut EXCEPT !.footer[next + Size(w)] = w], s)

\* free_block_allocate: size units of block b become allocated.
AllocateFrom(h, b, size) ==
    LET w    == h.header[b]
        rest == Size(w) - size
    IN  IF rest = 0
        THEN [h EXCEPT !.header[b] = Word(size, PrevBit(w), 1),
                       !.header[b + size] = Word(0, 1, 0) + Bytes(@) + AllocBit(@)]
        ELSE SplitOff([h EXCEPT !.header[b] = Word(size, PrevBit(w), 1)], b + size, rest)

\* extend_wilderness_block: the old epilogue becomes the header of k new pages.
Extend(h, k) ==
    LET b    == Epilogue(h)
        word == Word(k * PageUnits, PrevBit(h.header[b]), 0)
        new  == [h EXCEPT !.pages = @ + k]
    IN  Merge([new EXCEPT !.header[b] = word,
                          !.header[Epilogue(new)] = 1,
                          !.footer[Epilogue(new)] = word], b)

-----------------------------------------------------------------------------
(* The calls.  Their intermediate heaps are not seen: the allocator is     *)
(* used by one thread.                                                     *)

\* The first call sets up the heap; here its only block is still free.  When there are not
\* enough pages, the epilogue is put 512 bytes before its place.
Start(h, size) ==
    LET need == PagesFor(size + 2)
        p    == IF need <= MaxPages THEN need ELSE MaxPages
        word == Word(p * PageUnits - 2, 1, 0)
        end  == p * PageUnits - 2
    IN  [h EXCEPT !.pages = p,
                  !.header = [@ EXCEPT ![0] = word, ![end] = 1],
                  !.footer = [@ EXCEPT ![0] = Word(1, 1, 1), ![end] = word],
                  !.lists[Wilderness] = <<0>>,
                  !.fault = IF need <= MaxPages THEN "none" ELSE "nomem"]

\* The heap grown until a free block fits.  When it cannot grow, the pages that it got (made)
\* are added to the wilderness, which merging files, and it is inserted into a second list;
\* without a page, the epilogue itself is taken for a free block and unlinked.
Grown(h, size) ==
    LET wild == IF PrevBit(h.header[Epilogue(h)]) = 1 THEN 0
                ELSE Size(h.footer[Epilogue(h)])
        k    == PagesFor(size - wild)
        made == MaxPages - h.pages
    IN  IF h.pages = 0 THEN Start(h, size)
        ELSE IF FittingLists(h, size) # {} THEN h
        ELSE IF k <= made THEN Extend(h, k)
        ELSE [h EXCEPT !.fault = IF made = 0 THEN "wild" ELSE "nomem"]

Take(g, size) == AllocateFrom(Unlist(g, Fit(g, size)), Fit(g, size), size)

\* is_allocated_block.  Its bound on the end of a block is 8 times the size of sf_block
\* (32 bytes), 4 units.  Its last test reads the footer of the previous block, which an
\* allocated block does not have: the answer is then the program's data (told), and the
\* address computed from it may be outside the heap.
Valid(h, b, told) ==
    LET w == h.header[b]
    IN  IF AllocBit(w) = 0 \/ Bytes(w) % M # 0 \/ b + Size(w) > Epilogue(h) - 4 THEN "no"
        ELSE IF PrevBit(w) = 0 \/ b = 0 THEN "yes"
        ELSE IF h.footer[b] = Data THEN told
        ELSE IF AllocBit(h.header[PrevBlock(h, b)]) = 1 THEN "yes" ELSE "no"

\* The part of sf_free after its tests.
Release(h, b) ==
    LET word == h.header[b] - 1
        next == b + Size(word)
        nw   == Word(0, 0, AllocBit(h.header[next])) + Bytes(h.header[next])
        done == [h EXCEPT !.header[b] = word, !.header[next] = nw, !.footer[next] = word]
    IN  Merge(IF AllocBit(nw) = 1 THEN done
              ELSE [done EXCEPT !.footer[next + Size(nw)] = nw], b)

SfFree(h, b, told) ==
    IF h.fault # "none" THEN h
    ELSE IF Valid(h, b, told) = "no" THEN [h EXCEPT !.fault = "abort"]
    ELSE IF Valid(h, b, told) = "wild" THEN [h EXCEPT !.fault = "wild"]
    ELSE Release(h, b)

\* What is in a block belongs to the program or is never read again.
Tidy(h, blocks) ==
    LET starts == {x.at : x \in blocks} \cup Listed(h) \cup {Epilogue(h)}
        ends   == {b + Size(h.header[b]) : b \in Listed(h)} \cup {0}
    IN  [h EXCEPT !.header = [u \in Cells |-> IF u \in starts THEN @[u] ELSE Data],
                  !.footer = [u \in Cells |-> IF u \in ends THEN @[u] ELSE Data]]

\* A call ends with heap h and the program holding the blocks.  What is left when something
\* went wrong is not followed.
Return(h, blocks) ==
    /\ heap' = IF h.fault = "none" THEN Tidy(h, blocks) ELSE [heap EXCEPT !.fault = h.fault]
    /\ held' = IF h.fault = "none" THEN blocks ELSE held

Running == heap.fault = "none"

Block(b, size) == [at |-> b, size |-> size]

Malloc(size) ==
    LET g == Grown(heap, size)
    IN  /\ Running
        /\ IF g.fault = "none"
           THEN Return(Take(g, size), held \cup {Block(Fit(g, size), size)})
           ELSE Return(g, held)

Free(x, told) ==
    /\ Running
    /\ Return(SfFree(heap, x.at, told), held \ {x})

ReallocInvalid(x, told) ==       \* EINVAL, or a wild read on the way to it
    /\ Running
    /\ Valid(heap, x.at, told) # "yes"
    /\ Return(IF Valid(heap, x.at, told) = "no" THEN heap
              ELSE [heap EXCEPT !.fault = "wild"], held)

Shrink(x, size, told) ==         \* the block is cut (or left alone)
    /\ Running
    /\ Valid(heap, x.at, told) = "yes"
    /\ size <= Size(heap.header[x.at])
    /\ Return(IF size = Size(heap.header[x.at]) THEN heap ELSE AllocateFrom(heap, x.at, size),
              (held \ {x}) \cup {Block(x.at, size)})

Move(x, size, told) ==           \* a new block, a copy of the data, and the old one freed
    LET g == Grown(heap, size)
    IN  /\ Running
        /\ Valid(heap, x.at, told) = "yes"
        /\ size > Size(heap.header[x.at])
        /\ IF g.fault = "none"
           THEN Return(SfFree(Take(g, size), x.at, told),
                       (held \ {x}) \cup {Block(Fit(g, size), size)})
           ELSE Return(g, held)

\* Room for the block anywhere in it, then the pieces before and after it are freed.  The
\* result of sf_malloc is not tested: NULL is written through.
Memalign(size, align, told1, told2) ==
    LET room == size + align + 1
        g    == Grown(heap, room)
        b    == Fit(g, room)
        skip == (align - ((Origin + b) % align)) % align
        at   == b + skip
        rest == room - skip - size
        h    == Take(g, room)
        prev == PrevBit(h.header[b])
        body == IF skip = 0 THEN [h EXCEPT !.header[b] = Word(size, prev, 1)]
                ELSE SfFree([h EXCEPT !.header[b] = Word(skip, prev, 1),
                                      !.header[at] = Word(size, 0, 1)], b, told1)
        last == [body EXCEPT !.header[at + size] = Word(rest, 1, 1),
                             !.footer[at + size] = Data]
    IN  /\ Running
        /\ IF g.fault # "none" THEN Return([g EXCEPT !.fault = "wild"], held)
           ELSE IF body.fault # "none" THEN Return(body, held)
           ELSE Return(SfFree(last, at + size, told2), held \cup {Block(at, size)})

-----------------------------------------------------------------------------

Init ==
    /\ heap = [pages |-> 0, header |-> [u \in Cells |-> Data], footer |-> [u \in Cells |-> Data],
               lists |-> [i \in 0 .. 9 |-> << >>], fault |-> "none"]
    /\ held = {}

Room == Cardinality(held) < MaxHeld

\* What the tests of x can find, where it matters.
Tells(x) == IF PrevBit(heap.header[x.at]) = 1 /\ x.at # 0 THEN Reject ELSE {"yes"}

Next ==
    \/ Room /\ \E size \in Sizes : Malloc(size)
    \/ \E x \in held : \E told \in Tells(x) : Free(x, told)
    \/ \E x \in held : \E told \in Tells(x) : ReallocInvalid(x, told)
    \/ \E x \in held, size \in Sizes : \E told \in Tells(x) : Shrink(x, size, told)
    \/ \E x \in held, size \in Sizes : \E told \in Tells(x) : Move(x, size, told)
    \/ Room /\ \E size \in Sizes, align \in Alignments, told1, told2 \in Reject :
            Memalign(size, align, told1, told2)

Spec == Init /\ [][Next]_vars

-----------------------------------------------------------------------------
(* Properties. *)

\* Types of the heap.  Once there is one, it ends with an allocated header of size 0.
TypeOK ==
    /\ heap.pages \in 0 .. MaxPages
    /\ heap.header \in [Cells -> Nat \cup {Data}]
    /\ heap.footer \in [Cells -> Nat \cup {Data}]
    /\ heap.pages > 0 => heap.header[Epilogue(heap)] \in {Word(0, 0, 1), Word(0, 1, 1)}
    /\ DOMAIN heap.lists = 0 .. 9
    /\ Listed(heap) \subseteq Cells
    /\ heap.fault \in {"none", "abort", "nomem", "wild", "damaged"}
    /\ \A x \in held : x.at \in Cells /\ x.size \in Nat

UnitsOf(x) == x.at .. x.at + x.size - 1
FreeBlock(b) == Block(b, Size(heap.header[b]))
FreeBlocks == {FreeBlock(b) : b \in Listed(heap)}

\* The blocks of the program and the free ones tile the heap: they cover it, no two overlap,
\* no two free ones are neighbours (sfmm.c:357-387).
BlocksTile ==
    Running /\ heap.pages > 0 =>
        /\ UNION {UnitsOf(x) : x \in held \cup FreeBlocks} = 0 .. Epilogue(heap) - 1
        /\ \A x, y \in held \cup FreeBlocks : x # y => UnitsOf(x) \cap UnitsOf(y) = {}
        /\ \A x, y \in FreeBlocks : x.at + x.size # y.at

\* A free block is in exactly one list, once: the last list if it is the last block of the
\* heap, the list of its size otherwise (sfmm.h:144-159).
FiledOnce ==
    Running =>
        \A b \in Listed(heap) :
            LET own == IF b + Size(heap.header[b]) = Epilogue(heap) THEN Wilderness
                       ELSE Class(Size(heap.header[b]))
            IN  \A i \in 0 .. 9 :
                    Cardinality({k \in DOMAIN heap.lists[i] : heap.lists[i][k] = b})
                        = IF i = own THEN 1 ELSE 0

\* The footer of a free block is its header (sfmm.h:64).
FootersMatch ==
    Running =>
        \A b \in Listed(heap) : heap.footer[b + Size(heap.header[b])] = heap.header[b]

\* The prev-allocated bit tells whether the block before is allocated (README.md:176).
PrevBitsAgree ==
    Running =>
        \A x, y \in held \cup FreeBlocks :
            x.at + x.size = y.at => (PrevBit(heap.header[y.at]) = 1 <=> x \in held)

\* The heap grows only if no free block is large enough, and by no more pages than the
\* request needs (sfmm.c:123-153).
GrowsWhenNeeded ==
    [][ \A size \in Sizes :
            heap'.pages > heap.pages /\ heap'.fault = "none" /\ Malloc(size) =>
                /\ \A x \in FreeBlocks : x.size < size
                /\ heap'.lists[Wilderness] # << >> =>
                       Size(heap'.header[heap'.lists[Wilderness][1]]) < PageUnits ]_vars
=============================================================================
