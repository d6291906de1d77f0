----------------------------- MODULE MCComdec -----------------------------
(* Instances of Comdec for TLC: the bytes are the letter "a" and one that equals a mark; *)
(* or the letters "a", "b" and "c", in the order of one input of 35 bytes.               *)
EXTENDS Grammar

TwoLetters == {97, SOT}

ThreeLetters == {97, 98, 99}

\* bcacbcccbcbaccbcaccbcbaccbcbaccbccc
Script == LET a == 97  b == 98  c == 99
          IN <<b, c, a, c, b, c, c, c, b, c, b, a, c, c, b, c, a, c, c, b, c, b, a, c, c,
               b, c, b, a, c, c, b, c, c, c>>

Scripted == input = SubSeq(Script, 1, Len(input))
=============================================================================
