------------------------------- MODULE Grammar -------------------------------
(***************************************************************************)
(* The rules that compress has, as a grammar, and the two constraints that *)
(* hw1 puts on it.  The operators walk the rings of the program and are    *)
(* recursive, so this module is for TLC only.                              *)
(***************************************************************************)
EXTENDS Comdec

\* The symbols that follow s up to the head of its rule, which is a ring.
RECURSIVE Ring(_, _)
Ring(s, head) == IF s = head THEN <<>> ELSE <<s>> \o Ring(m.sym[s].next, head)
Body(head) == Ring(m.sym[head].next, head)

RECURSIVE RulesFrom(_)
RulesFrom(rule) == IF rule = m.main THEN <<>> ELSE <<rule>> \o RulesFrom(m.sym[rule].nextr)
Rules == <<m.main>> \o RulesFrom(m.sym[m.main].nextr)

Heads == Range(Rules)
InRule(h) == Range(Body(h))
BodyValues(h) == LET body == Body(h) IN [i \in DOMAIN body |-> m.sym[body[i]].value]

Derivations ==
    LET heads == Heads
        headOf(v) == CHOOSE h \in heads : m.sym[h].value = v
    IN [v \in {m.sym[h].value : h \in heads} |-> BodyValues(headOf(v))]

RECURSIVE Expand(_, _)
Expand(rules, value) ==
    FoldLeft(LAMBDA bytes, v : bytes \o (IF v < FirstNonterminal THEN <<v>> ELSE Expand(rules, v)),
             <<>>, rules[value])

BytesOfBlock == SubSeq(input, Len(input) - (BlockSize - room) + 1, Len(input))

\* Every call that the last byte has set off has returned (and nothing is written yet;
\* writing leaves the memory as it is).
Settled == Idle

-----------------------------------------------------------------------------
(* Properties *)

\* The rule of h has its own nonterminal in its body (comdec_recursive gets such a rule
\* from an entry that the table of digrams has kept too long).
ContainsItself(h) == m.sym[h].value \in Range(BodyValues(h))

\* However the replacements that a byte sets off nest (check_digram and replace_digram
\* call each other), the rules derive exactly the bytes of the block that were read, as
\* long as none of them contains itself; one that does derives nothing.
GrammarDerivesInput ==
    Settled /\ (\A h \in Heads : ~ContainsItself(h))
        => Expand(Derivations, FirstNonterminal) = BytesOfBlock

RECURSIVE RecycledFrom(_)
RecycledFrom(s) == IF s = NULL THEN {} ELSE {s} \cup RecycledFrom(m.sym[s].prev)

\* The rings of the rules and the stack of recycled symbols share out the symbols
\* that were ever taken: none is lost, none is recycled while a rule has it, and
\* the list of rules, in which add_rule is called twice, has each rule once.
SymbolsAccounted ==
    Settled =>
        LET rules    == Rules
            live     == Range(rules) \cup UNION {InRule(h) : h \in Range(rules)}
            recycled == RecycledFrom(m.recycled)
        IN /\ live \cap recycled = {}
           /\ live \cup recycled = DOMAIN m.sym
           /\ \A s \in live : m.sym[m.sym[s].next].prev = s
           /\ Cardinality(Range(rules)) = Len(rules)
           /\ m.nonterminal = FirstNonterminal + Len(rules)

\* README.md:919: a digram is in one place only (but for the overlap of a triple).
DigramUniqueness ==
    Settled =>
        LET starts == {s \in UNION {InRule(h) : h \in Heads} : ~m.sym[m.sym[s].next].head}
        IN \A s, t \in starts :
             /\ m.sym[s].value = m.sym[t].value
             /\ m.sym[m.sym[s].next].value = m.sym[m.sym[t].next].value
             => s = t \/ m.sym[s].next = t \/ m.sym[t].next = s
=============================================================================
