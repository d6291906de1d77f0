------------------------------ MODULE Sequitur ------------------------------
(***************************************************************************)
(* The grammar of hw1 (symbol.c, rules.c, sequitur.c).  The memory is a    *)
(* record m: the symbols in use or recycled, the top of the recycled ones, *)
(* the main rule, the table of digrams, the next nonterminal, the word     *)
(* after the table, the calls that are still to be made and what has       *)
(* become of the program.  The functions of the program are operators from *)
(* memory to memory; check_digram, replace_digram and process_match, which *)
(* call each other, leave the calls that end them on the stack of calls.   *)
(***************************************************************************)
EXTENDS Digrams, Sequences

CONSTANT MaxSymbols     \* the symbols of symbol_storage (1000000 in the program)

ASSUME SequiturAssumption == MaxSymbols \in Nat \ {0}

FirstNonterminal == 256

Fate == {"runs", "fault", "abort", "hang"}

\* head says that the rule field is the symbol itself.  Every other symbol has
\* no rule: new_symbol drops the rule it is given.  Hence refcnt stays 0.
Symbol(value) == [value |-> value, head |-> FALSE,
                  next |-> NULL, prev |-> NULL, nextr |-> NULL, prevr |-> NULL]

-----------------------------------------------------------------------------
(* A step on memory.  It happens in a program that still runs, and faults  *)
(* when one of the pointers it follows is NULL.                            *)

Stopped(m, how) == [m EXCEPT !.fate = how]

Then(m, result) == IF m.fate = "runs" THEN result ELSE m

Follow(m, pointers, result) ==
    Then(m, IF NULL \in pointers THEN Stopped(m, "fault") ELSE result)

Null == Symbol(NULL)
At(m, p) == IF p = NULL THEN Null ELSE m.sym[p]
Next2(m, p) == At(m, At(m, p).next).next

-----------------------------------------------------------------------------
(* symbol.c *)

Fresh(m) == IF m.recycled # NULL THEN m.recycled ELSE Len(m.sym) + 1

NewSymbol(m, value) ==
    LET under == At(m, m.recycled).prev
    IN IF m.fate # "runs" THEN m
       ELSE IF m.recycled # NULL
            THEN [m EXCEPT !.recycled = under,
                           !.sym = [p \in DOMAIN @ |->
                               IF p = m.recycled THEN Symbol(value)
                               ELSE IF p = under THEN [@[p] EXCEPT !.next = NULL]
                               ELSE @[p]]]
       ELSE IF Len(m.sym) = MaxSymbols THEN Stopped(m, "abort")
       ELSE [m EXCEPT !.sym = Append(@, Symbol(value))]

\* Mutant: the symbol recycled before is not kept under the new one.
RecycleSymbolAlone(m, s) ==
    IF m.fate # "runs" THEN m
    ELSE [m EXCEPT !.recycled = s,
                   !.sym = [p \in DOMAIN @ |->
                       IF p = s THEN [@[p] EXCEPT !.next = NULL, !.prev = NULL] ELSE @[p]]]

RecycleSymbol(m, s) ==
    IF m.fate # "runs" THEN m
    ELSE [m EXCEPT !.recycled = s,
                   !.sym = [p \in DOMAIN @ |->
                       IF p = s THEN [@[p] EXCEPT !.next = NULL, !.prev = m.recycled]
                       ELSE IF p = m.recycled THEN [@[p] EXCEPT !.next = s]
                       ELSE @[p]]]

-----------------------------------------------------------------------------
(* rules.c *)

AddRule(m, rule) ==
    IF m.fate # "runs" THEN m
    ELSE IF m.main = NULL
    THEN [m EXCEPT !.main = rule, !.sym[rule].nextr = rule, !.sym[rule].prevr = rule]
    ELSE LET last == m.sym[m.main].prevr
         IN Follow(m, {last}, [m EXCEPT !.sym[rule].prevr = last,
                                        !.sym[last].nextr = rule,
                                        !.sym[m.main].prevr = rule,
                                        !.sym[rule].nextr = m.main])

NewRule(m, value) ==
    LET h == Fresh(m)
        n == NewSymbol(m, value)
    IN Then(n, AddRule([n EXCEPT !.sym[h].next = h, !.sym[h].prev = h, !.sym[h].head = TRUE], h))

-----------------------------------------------------------------------------
(* sequitur.c *)

Put(m, digram) ==
    IF m.fate # "runs" THEN m
    ELSE [m EXCEPT !.table = DigramPut(m.sym, @, m.beyond, digram)]

Delete(m, digram) ==
    IF m.fate # "runs" THEN m
    ELSE IF DeleteHangs(m.sym, m.table, digram) THEN Stopped(m, "hang")
    ELSE [m EXCEPT !.table = DigramDelete(m.sym, @, digram)]

\* The middle one of three equal symbols.
Triple(m, s) ==
    /\ m.sym[s].prev # NULL /\ m.sym[s].next # NULL
    /\ m.sym[s].value = m.sym[m.sym[s].prev].value
    /\ m.sym[s].value = m.sym[m.sym[s].next].value

PutIf(m, condition, digram) == IF condition THEN Put(m, digram) ELSE m

\* What a join destroys goes out of the table; a triple leaves one digram in.
Disjoin(m, this, next) ==
    PutIf(PutIf(Delete(m, this), Triple(m, next), next), Triple(m, this), this)

JoinSymbols(m, this, next) ==
    LET n == IF m.sym[this].next # NULL THEN Disjoin(m, this, next) ELSE m
    IN Follow(m, {this, next}, Then(n, [n EXCEPT !.sym[this].next = next, !.sym[next].prev = this]))

InsertAfter(m, this, next) ==
    Follow(m, {this}, JoinSymbols(JoinSymbols(m, next, m.sym[this].next), this, next))

InsertNew(m, this, value) == InsertAfter(NewSymbol(m, value), this, Fresh(m))

DeleteSymbol(m, this) ==
    Follow(m, {this},
        IF m.sym[this].head THEN Stopped(m, "abort")
        ELSE RecycleSymbol(Delete(JoinSymbols(m, m.sym[this].prev, m.sym[this].next), this), this))

-----------------------------------------------------------------------------
(* The functions that call each other.  The program's stack is m.calls,    *)
(* the next call first: what a function has yet to do is a call of its own.*)

Call(what, at, rule) == [call |-> what, at |-> at, rule |-> rule]

Calls(m, calls) == IF m.fate = "runs" THEN [m EXCEPT !.calls = calls \o @] ELSE m

\* replace_digram checks the digrams on both sides of what it has inserted, the one on
\* the right only if check_digram has replaced nothing on the left.
ReplaceDigram(m, this, rule) ==
    LET prev == At(m, this).prev
        m1   == DeleteSymbol(m, m.sym[prev].next)
        m2   == DeleteSymbol(m1, m1.sym[prev].next)
        m3   == InsertNew(m2, prev, m2.sym[rule].value)
    IN Follow(m, {this, prev},
         Then(m1, Then(m2, Calls(m3, <<Call("check both", prev, NULL)>>))))

\* The test for a rule used once looks at the rule of a symbol of a body, which
\* has none; only an empty body, whose next symbol is the head, passes it.
RuleUtility(m, rule) ==
    Follow(m, {At(m, rule).next},
        IF m.sym[m.sym[rule].next].head THEN Stopped(m, "abort") ELSE m)

UseRule(m, this, rule) == Calls(m, <<Call("replace", this, rule), Call("utility", NULL, rule)>>)

\* Mutants: the second symbol of the body is inserted after the head; the body of
\* the new rule is not entered in the table.
NewBodyBackwards(m, rule, digram) ==
    LET n    == InsertNew(m, rule, m.sym[digram].value)
        next == At(n, digram).next
    IN Follow(n, {next}, InsertNew(n, rule, n.sym[next].value))

PutBodyNot(m, rule) == m

NewBody(m, rule, digram) ==
    LET n    == InsertNew(m, m.sym[rule].prev, m.sym[digram].value)
        next == At(n, digram).next
    IN Follow(n, {next}, InsertNew(n, n.sym[rule].prev, n.sym[next].value))

PutBody(m, rule) == Follow(m, {At(m, rule).next}, Put(m, m.sym[rule].next))

\* The new rule is added to the list of rules twice.
MakeRule(m, this, match) ==
    LET rule == Fresh(m)
        m1   == AddRule(NewRule([m EXCEPT !.nonterminal = @ + 1], m.nonterminal), rule)
    IN Then(m1, Calls(NewBody(m1, rule, this),
                      <<Call("replace", match, rule), Call("replace", this, rule),
                        Call("put body", NULL, rule), Call("utility", NULL, rule)>>))

ProcessMatch(m, this, match) ==
    LET before == At(m, match).prev
        after == Next2(m, match)
        whole == m.sym[before].head /\ m.sym[after].head
    IN Follow(m, IF At(m, before).head THEN {before, after} ELSE {before},
              IF whole THEN UseRule(m, this, before) ELSE MakeRule(m, this, match))

\* check_digram has replaced nothing.
NotReplaced(m, this, both) ==
    IF both THEN Calls(m, <<Call("check", m.sym[this].next, NULL)>>) ELSE m

CheckDigram(m, this, both) ==
    LET next  == At(m, this).next
        match == DigramGet(m.sym, m.table, m.beyond, m.sym[this].value, m.sym[next].value)
    IN Follow(m, {this},
         IF m.sym[this].head THEN NotReplaced(m, this, both)
         ELSE Follow(m, {next},
           IF m.sym[next].head THEN NotReplaced(m, this, both)
           ELSE IF match = WILD THEN Stopped(m, "fault")
           ELSE IF match = NULL THEN NotReplaced(Put(m, this), this, both)
           ELSE IF m.sym[match].next = this THEN NotReplaced(m, this, both)
           ELSE ProcessMatch(m, this, match)))

\* The next call of the stack.
Proceed(m) ==
    LET c == Head(m.calls)
        n == [m EXCEPT !.calls = Tail(@)]
    IN CASE c.call = "check"      -> CheckDigram(n, c.at, FALSE)
         [] c.call = "check both" -> CheckDigram(n, c.at, TRUE)
         [] c.call = "replace"    -> ReplaceDigram(n, c.at, c.rule)
         [] c.call = "put body"   -> PutBody(n, c.rule)
         [] c.call = "utility"    -> RuleUtility(n, c.rule)

-----------------------------------------------------------------------------
(* The type of the memory: whatever the functions make of it, each of its  *)
(* pointers is NULL or a symbol that was taken.                            *)

SymbolType(p) == [value : Nat, head : BOOLEAN, next : p, prev : p, nextr : p, prevr : p]

CallType(taken) ==
    [call : {"check", "check both"}, at : {NULL} \cup taken, rule : {NULL}]
    \cup [call : {"replace"}, at : {NULL} \cup taken, rule : taken]
    \cup [call : {"put body", "utility"}, at : {NULL}, rule : taken]

MemoryOK(m) ==
    LET taken == 1 .. Len(m.sym)
        p     == {NULL} \cup taken
    IN  /\ m \in [sym : Seq(SymbolType(p)), recycled : p, main : taken,
                  table : [DOMAIN m.table -> {TOMBSTONE} \cup taken],
                  nonterminal : Nat, beyond : {NULL, WILD},
                  calls : Seq(CallType(taken)), fate : Fate]
        /\ Len(m.sym) <= MaxSymbols
        /\ DOMAIN m.table \subseteq 0 .. MaxDigrams - 1
=============================================================================
