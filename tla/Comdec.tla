------------------------------- MODULE Comdec -------------------------------
(***************************************************************************)
(* compress and decompress of hw1 (comdec.c), as the two ends of a pipe.   *)
(* A transmission is a sequence of bytes: the marks and the encodings of   *)
(* symbol values (Codec).                                                  *)
(***************************************************************************)
EXTENDS Sequitur, Codec, SequencesExt

CONSTANTS Letters,      \* the bytes that the input may have
          BlockSize,    \* bsize
          MaxInput      \* bound: the bytes of the input

ASSUME ComdecAssumption ==
    /\ Letters \subseteq 0 .. FirstNonterminal - 1
    /\ BlockSize \in Nat \ {0}
    /\ MaxInput \in Nat

VARIABLES input,    \* the bytes that compress has read
          room,     \* bsize - rule_size, while a block is being read
          eof,      \* compress has met the end of the input
          m,        \* the memory of compress
          pen,      \* where write_compression_data is: the rule and the symbol to be written
          wire,     \* what compress has written and decompress not yet read
          open,     \* compress has not ended
          sent,     \* history: the blocks that compress has written, the one under way last
          d,        \* the memory of decompress
          taken,    \* history: the grammars that decompress has expanded
          output    \* the bytes that decompress has written

vars == <<input, room, eof, m, pen, wire, open, sent, d, taken, output>>

-----------------------------------------------------------------------------
(* The rules of a block: main_rule, rule_map and the last rule made.       *)

NoRules == [main |-> NULL, last |-> NULL, rules |-> <<>>]

\* new_rule, which makes none for the value of a byte, and enters one in rule_map.
WithHead(g, v) ==
    IF v < FirstNonterminal THEN [g EXCEPT !.last = NULL]
    ELSE [g EXCEPT !.last = v,
                   !.main = IF @ = NULL THEN v ELSE @,
                   !.rules = [w \in DOMAIN @ \cup {v} |-> IF w = v THEN <<>> ELSE @[w]]]

\* Mutant: every symbol is inserted after the head.
WithSymbolFirst(g, v) == [g EXCEPT !.rules[g.last] = <<v>> \o @]

WithSymbol(g, v) == [g EXCEPT !.rules[g.last] = Append(@, v)]

-----------------------------------------------------------------------------
(* compress *)

NotWriting == [rule |-> NULL, curs |-> NULL]

\* init_symbols, init_rules and init_digram_hash, and the main rule.
NewBlock(beyond) ==
    NewRule([sym |-> <<>>, recycled |-> NULL, main |-> NULL, table |-> <<>>,
             nonterminal |-> FirstNonterminal + 1, beyond |-> beyond,
             calls |-> <<>>, fate |-> "runs"],
            FirstNonterminal)

\* plain: every value written so far has bytes of its own.
NothingSent == [plain |-> TRUE, grammar |-> NoRules]

\* What decompress has before its first byte; todo are the values it has yet to expand.
NewDecoder == [started |-> FALSE, inBlock |-> FALSE, ruleStarts |-> FALSE,
               occupied |-> FALSE, grammar |-> NoRules, todo |-> <<>>, result |-> "none"]

Init ==
    /\ input = <<>> /\ output = <<>> /\ taken = <<>>
    /\ room = BlockSize /\ eof = FALSE
    /\ \E beyond \in {NULL, WILD} : m = NewBlock(beyond)
    /\ pen = NotWriting
    /\ wire = <<SOT, SOB>>
    /\ open = TRUE
    /\ sent = <<NothingSent>>
    /\ d = NewDecoder

Running == open /\ m.fate = "runs"

\* compress is back in its loop, and not in write_compression_data.
Idle == Running /\ m.calls = <<>> /\ pen = NotWriting

\* A byte is appended to the main rule, and the digram it completes is to be checked.
ReadByte(c) ==
    /\ Idle
    /\ room > 0
    /\ Len(input) < MaxInput
    /\ LET last == m.sym[m.main].prev
       IN m' = Calls(InsertAfter(NewSymbol(m, c), last, Fresh(m)), <<Call("check", last, NULL)>>)
    /\ input' = Append(input, c)
    /\ room' = room - 1
    /\ UNCHANGED <<eof, pen, wire, open, sent, d, taken, output>>

\* What the byte has set off.
Rewrite ==
    /\ Running /\ m.calls # <<>>
    /\ m' = Proceed(m)
    /\ UNCHANGED <<input, room, eof, pen, wire, open, sent, d, taken, output>>

SentAlso(v, grammar) ==
    [sent EXCEPT ![Len(sent)] = [plain |-> @.plain /\ v \in Value, grammar |-> grammar]]

Sending == sent[Len(sent)].grammar

\* write_compression_data begins to write a rule.
WriteHead(mark, rule) ==
    LET v == m.sym[rule].value
    IN  /\ wire' = wire \o mark \o Encode(v)
        /\ pen' = [rule |-> rule, curs |-> m.sym[rule].next]
        /\ sent' = SentAlso(v, WithHead(Sending, v))

\* Mutant: a block ends one byte early.
BlockIsRead(end) == IF end THEN room > 0 ELSE room <= 1

\* A full block is written before the end of the input can be seen; or fgetc meets
\* the end of the input: the block, empty or not, is the last one.
BlockRead(end) == IF end THEN room > 0 ELSE room = 0

WriteMainRule(end) ==
    /\ Idle /\ BlockRead(end)
    /\ eof' = end
    /\ WriteHead(<<>>, m.main)
    /\ UNCHANGED <<input, room, m, open, d, taken, output>>

Writing == Running /\ pen # NotWriting

\* write_compression_data follows a pointer.
Fault == m' = Stopped(m, "fault") /\ UNCHANGED <<pen, wire, sent>>

WriteSymbol ==
    /\ Writing /\ pen.curs # pen.rule
    /\ IF pen.curs = NULL THEN Fault
       ELSE LET v == m.sym[pen.curs].value
            IN  /\ wire' = wire \o Encode(v)
                /\ pen' = [pen EXCEPT !.curs = m.sym[@].next]
                /\ sent' = SentAlso(v, WithSymbol(Sending, v))
                /\ m' = m
    /\ UNCHANGED <<input, room, eof, open, d, taken, output>>

NextRule == m.sym[pen.rule].nextr

WriteRule ==
    /\ Writing /\ pen.curs = pen.rule /\ NextRule # m.main
    /\ IF NextRule = NULL THEN Fault ELSE WriteHead(<<RD>>, NextRule) /\ m' = m
    /\ UNCHANGED <<input, room, eof, open, d, taken, output>>

\* Mutant: the table of digrams is not cleared.
EndBlockSameTable ==
    /\ Writing /\ pen.curs = pen.rule /\ NextRule = m.main
    /\ pen' = NotWriting
    /\ sent' = Append(sent, NothingSent)
    /\ IF eof THEN /\ wire' = wire \o <<EOB, EOT>> /\ open' = FALSE
                   /\ UNCHANGED <<room, m>>
       ELSE /\ wire' = wire \o <<EOB, SOB>>
            /\ m' = [NewBlock(m.beyond) EXCEPT !.table = m.table] /\ room' = BlockSize
            /\ open' = open
    /\ UNCHANGED <<input, eof, d, taken, output>>

EndBlock ==
    /\ Writing /\ pen.curs = pen.rule /\ NextRule = m.main
    /\ pen' = NotWriting
    /\ sent' = Append(sent, NothingSent)
    /\ IF eof THEN /\ wire' = wire \o <<EOB, EOT>> /\ open' = FALSE
                   /\ UNCHANGED <<room, m>>
       ELSE /\ wire' = wire \o <<EOB, SOB>>
            /\ m' = NewBlock(m.beyond) /\ room' = BlockSize
            /\ open' = open
    /\ UNCHANGED <<input, eof, d, taken, output>>

\* A compressor that was ended leaves some of what it had written.
Breaks ==
    /\ open /\ m.fate # "runs"
    /\ \E k \in 0 .. Len(wire) : wire' = SubSeq(wire, 1, k)
    /\ open' = FALSE
    /\ UNCHANGED <<input, room, eof, m, pen, sent, d, taken, output>>

-----------------------------------------------------------------------------
(* decompress: an action for each kind of byte that its loop tells apart. *)

Ends(result) == d' = [d EXCEPT !.result = result]

\* fgetc for n bytes; it waits for them, or for the end.
Takes(n) ==
    /\ d.result = "none" /\ d.todo = <<>>
    /\ Len(wire) >= n \/ ~open
    /\ wire' = SubSeq(wire, n + 1, Len(wire))
    /\ UNCHANGED <<input, room, eof, m, pen, open, sent>>

Reads(mark) == wire # <<>> /\ Head(wire) = mark /\ Takes(1)

\* init_rules and init_symbols; last_symbol is left as it is.
Cleared(dec) == [dec EXCEPT !.grammar.rules = <<>>, !.grammar.main = NULL]

ReadSOT ==
    /\ Reads(SOT)
    /\ IF d.started THEN Ends("EOF") ELSE d' = [Cleared(d) EXCEPT !.started = TRUE]
    /\ UNCHANGED <<taken, output>>

Return(dec) == IF dec.started THEN "done" ELSE "EOF"

ReadEOT == Reads(EOT) /\ Ends(Return(d)) /\ UNCHANGED <<taken, output>>

ReadSOB ==
    /\ Reads(SOB)
    /\ d' = IF d.inBlock THEN [d EXCEPT !.occupied = FALSE, !.result = "EOF"]
            ELSE [Cleared(d) EXCEPT !.occupied = FALSE, !.inBlock = TRUE, !.ruleStarts = TRUE]
    /\ UNCHANGED <<taken, output>>

\* The main rule is to be expanded, if there is one.
ReadEOB ==
    /\ Reads(EOB)
    /\ IF ~d.occupied \/ ~d.inBlock THEN Ends("EOF") /\ taken' = taken
       ELSE /\ d' = [d EXCEPT !.ruleStarts = FALSE, !.inBlock = FALSE,
                              !.todo = <<d.grammar.main>>,
                              !.result = IF d.grammar.main = NULL THEN "crash" ELSE @]
            /\ taken' = Append(taken, d.grammar)
    /\ UNCHANGED output

\* A step of decompress_expand, on the next of the values that it and the calls it was
\* made by have yet to expand; rule_map must have the rules.
ExpandByte ==
    /\ d.result = "none" /\ d.todo # <<>> /\ Head(d.todo) < FirstNonterminal
    /\ output' = Append(output, Head(d.todo))
    /\ d' = [d EXCEPT !.todo = Tail(@)]
    /\ UNCHANGED <<input, room, eof, m, pen, wire, open, sent, taken>>

ExpandRule ==
    /\ d.result = "none" /\ d.todo # <<>> /\ Head(d.todo) >= FirstNonterminal
    /\ LET rules == d.grammar.rules
       IN IF Head(d.todo) \in DOMAIN rules
          THEN d' = [d EXCEPT !.todo = rules[Head(@)] \o Tail(@)]
          ELSE Ends("crash")
    /\ UNCHANGED <<input, room, eof, m, pen, wire, open, sent, taken, output>>

ReadRD == Reads(RD) /\ d' = [d EXCEPT !.ruleStarts = TRUE] /\ UNCHANGED <<taken, output>>

HeadRead(v) ==
    [d EXCEPT !.occupied = TRUE, !.ruleStarts = FALSE, !.grammar = WithHead(@, v)]

\* A symbol is inserted before last_symbol->next, which must be there.
SymbolRead(v) ==
    [d EXCEPT !.occupied = TRUE,
              !.grammar = WithSymbol(@, v),
              !.result = IF d.grammar.last = NULL THEN "crash" ELSE @]

\* check_next_char; no value begins with what it refuses (-1).
ReadValue ==
    /\ wire # <<>> /\ Head(wire) \notin Marks
    /\ LET width == Width(Head(wire))
           v == Decode(SubSeq(wire, 1, Min({width, Len(wire)})))
       IN /\ Takes(width)
          /\ d' = IF v = -1 THEN [d EXCEPT !.result = "EOF"]
                  ELSE IF d.ruleStarts THEN HeadRead(v) ELSE SymbolRead(v)
    /\ UNCHANGED <<taken, output>>

\* fgetc meets the end of the transmission.
ReadEnd ==
    /\ d.result = "none" /\ d.todo = <<>>
    /\ wire = <<>> /\ ~open
    /\ Ends(Return(d))
    /\ UNCHANGED <<input, room, eof, m, pen, wire, open, sent, taken, output>>

Compress ==
    \/ \E c \in Letters : ReadByte(c)
    \/ Rewrite
    \/ \E end \in BOOLEAN : WriteMainRule(end)
    \/ WriteSymbol \/ WriteRule \/ EndBlock
    \/ Breaks

Decompress ==
    \/ ReadSOT \/ ReadEOT \/ ReadSOB \/ ReadEOB \/ ReadRD \/ ReadValue \/ ReadEnd
    \/ ExpandByte \/ ExpandRule

Next == Compress \/ Decompress

Spec == Init /\ [][Next]_vars
-----------------------------------------------------------------------------
(* Properties *)

Byte == 0 .. 255

\* The rules that decompress has of a block.
GrammarOK(g) ==
    /\ g \in [main : Nat, last : Nat, rules : [DOMAIN g.rules -> Seq(Nat)]]
    /\ DOMAIN g.rules \subseteq Nat

\* The types.  However the functions of Sequitur call each other and whatever the table
\* of digrams leads them to, compress follows no pointer but to a symbol that it has taken.
TypeOK ==
    /\ input \in Seq(Letters) /\ output \in Seq(Byte)
    /\ room \in 0 .. BlockSize
    /\ eof \in BOOLEAN /\ open \in BOOLEAN
    /\ MemoryOK(m)
    /\ pen \in [rule : DOMAIN m.sym, curs : {NULL} \cup DOMAIN m.sym] \cup {NotWriting}
    /\ wire \in Seq(Byte)
    /\ GrammarOK(d.grammar)
    /\ d \in [started : BOOLEAN, inBlock : BOOLEAN, ruleStarts : BOOLEAN, occupied : BOOLEAN,
              grammar : {d.grammar}, todo : Seq(Nat),
              result : {"none", "done", "EOF", "crash"}]

\* What decompress makes of a transmission that compress has completed is the
\* input, and it never takes one for malformed; even from one that stops short it
\* writes a part of the input.
RoundTrip ==
    /\ IsPrefix(output, input)
    /\ m.fate = "runs" => /\ d.result = "done" => output = input
                          /\ d.result \notin {"EOF", "crash"}

\* Whatever grammars compress writes, decompress has the same rules when it expands a
\* block, in the order of the blocks; of a transmission that is complete it has them all,
\* and refuses none.  For this every value has to have bytes of its own.
GrammarsArrive ==
    (\A b \in DOMAIN sent : sent[b].plain) =>
        /\ \A b \in DOMAIN taken : b < Len(sent) /\ taken[b] = sent[b].grammar
        /\ m.fate = "runs" => /\ d.result = "done" => Len(taken) = Len(sent) - 1
                              /\ d.result # "EOF"

\* comdec.c:342: each block but the last one stands for exactly bsize bytes.
BlocksAreFull ==
    [][d.todo # <<>> /\ d'.todo = <<>> => \/ Len(output') % BlockSize = 0
                                          \/ wire' = <<EOT>>]_vars

-----------------------------------------------------------------------------
(* What the program does not keep. *)

\* README.md:381-382: "we do not allow recursive rules, in which the nonterminal in the head
\* also appears in the body of the same rule".  An entry that a triple leaves in the table
\* is followed to a recycled symbol, and the new rule is made from its own replacement.
NoRecursiveRule ==
    \A b \in DOMAIN sent : LET rules == sent[b].grammar.rules
                           IN \A v \in DOMAIN rules : v \notin Range(rules[v])
=============================================================================
