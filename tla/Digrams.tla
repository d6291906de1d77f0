------------------------------ MODULE Digrams ------------------------------
(***************************************************************************)
(* The table of digrams of hw1 (digram_hash.c): open addressing with       *)
(* linear probing.  A digram is named by its first symbol.  A table is a   *)
(* function on the slots that have been written; the others are NULL.      *)
(***************************************************************************)
EXTENDS Integers, FiniteSets, FiniteSetsExt

CONSTANT MaxDigrams     \* the slots of the table (999983 in the program)

ASSUME DigramsAssumption == MaxDigrams \in Nat \ {0}

NULL == 0               \* no symbol, and no next or previous one
TOMBSTONE == -1         \* the mark of a digram that was deleted
WILD == -2              \* a word that is not the address of a symbol

DigramHash(v1, v2) == (v1 * 37 + v2) % MaxDigrams

Entry(table, i) == IF i \in DOMAIN table THEN table[i] ELSE NULL

\* The slots of a search, by the number of steps.  A search that meets an
\* empty slot has met it after one step more than there are slots in use,
\* and after two when it left out slot 0.
Slot(start, k) == (start + k) % MaxDigrams
Steps(table) == 0 .. Min({MaxDigrams - 1, Cardinality(DOMAIN table) + 1})

\* digram_get and digram_put read the word after the table before they wrap,
\* and then take it for that of slot 0; what is there is up to the linker.
Read(table, beyond, start, k) ==
    IF start + k = MaxDigrams THEN beyond ELSE Entry(table, Slot(start, k))

FirstStep(ks) == Min(ks)

\* digram_get: a symbol, NULL, or WILD when it follows a bad pointer.
DigramGet(sym, table, beyond, v1, v2) ==
    LET start == DigramHash(v1, v2)
        word(k) == Read(table, beyond, start, k)
        passes(k) == /\ word(k) # NULL
                     /\ \/ Entry(table, Slot(start, k)) = TOMBSTONE
                        \/ /\ word(k) # WILD
                           /\ \/ sym[word(k)].value # v1
                              \/ /\ sym[word(k)].next # NULL
                                 /\ sym[sym[word(k)].next].value # v2
        stops == {k \in Steps(table) : ~passes(k)}
    IN IF stops = {} THEN NULL
       ELSE LET p == word(FirstStep(stops))
            IN IF p \in {NULL, WILD} THEN p
               ELSE IF sym[p].next = NULL THEN WILD ELSE p

\* digram_put: the first vacant slot, unless the digram itself is met before.
DigramPut(sym, table, beyond, digram) ==
    LET start == DigramHash(sym[digram].value, sym[sym[digram].next].value)
        stops == {k \in Steps(table) :
                     \/ Read(table, beyond, start, k) = digram
                     \/ Entry(table, Slot(start, k)) \in {NULL, TOMBSTONE}}
        i == Slot(start, FirstStep(stops))
    IN IF sym[digram].next = NULL \/ stops = {} THEN table
       ELSE IF Read(table, beyond, start, FirstStep(stops)) = digram THEN table
       ELSE [s \in DOMAIN table \cup {i} |-> IF s = i THEN digram ELSE table[s]]

\* digram_delete, which wraps in time.
Deletion(sym, table, digram) ==
    LET start == DigramHash(sym[digram].value, sym[sym[digram].next].value)
        stops == {k \in Steps(table) : Entry(table, Slot(start, k)) \in {NULL, digram}}
    IN [start |-> start, at |-> {Slot(start, FirstStep(stops)) : k \in stops}]

DigramDelete(sym, table, digram) ==
    IF sym[digram].next = NULL THEN table
    ELSE [i \in DOMAIN table |->
            IF i \in Deletion(sym, table, digram).at /\ table[i] = digram
            THEN TOMBSTONE ELSE table[i]]

\* Its search ends when it is back at the start, but an index that has reached
\* the end is compared with the start before it wraps: from slot 0 it goes on.
DeleteHangs(sym, table, digram) ==
    /\ sym[digram].next # NULL
    /\ Deletion(sym, table, digram) = [start |-> 0, at |-> {}]
=============================================================================
