-------------------------- MODULE Vtree_count_proofs --------------------------
(***************************************************************************)
(* Theorems about what the walk of Vtree counts: nothing is lost between   *)
(* the sums of a line and the totals.                                      *)
(*                                                                         *)
(* The operators of the library for sums and sequences are recursive       *)
(* functions on sets; facts about them are proved by induction on a        *)
(* number, and that one from the least number for which they would fail.   *)
(***************************************************************************)
EXTENDS Vtree_proofs, WellFoundedInduction

(* Induction on the natural numbers *)

NatOrder == {p \in Nat \X Nat : p[1] < p[2]}

LEMMA NatOrderWF == IsWellFoundedOn(NatOrder, Nat)
BY NatLessThanWellFounded DEF OpToRel, NatOrder

LEMMA Least ==
  ASSUME NEW T, T \subseteq Nat, T # {}
  PROVE  \E n \in T : \A m \in T : n <= m
  <1>1. PICK n \in T : \A m \in T : ~(<<m, n>> \in NatOrder)
    BY WFMin, NatOrderWF
  <1>2. n \in Nat /\ \A m \in T : m \in Nat
    OBVIOUS
  <1>3. \A m \in T : <<m, n>> \in NatOrder <=> m < n
    BY <1>2 DEF NatOrder
  <1>4. ASSUME NEW m \in T PROVE n <= m
    <2>1. ~(m < n)
      BY <1>1, <1>3
    <2> QED BY <1>2, <2>1
  <1> QED BY <1>4

LEMMA Induct ==
  ASSUME NEW T, T \subseteq Nat, 0 \in T, \A n \in T : n + 1 \in T
  PROVE  \A n \in Nat : n \in T
  <1> SUFFICES ASSUME Nat \ T # {} PROVE FALSE
    OBVIOUS
  <1>1. PICK n \in Nat \ T : \A m \in Nat \ T : n <= m
    BY Least
  <1>2. n # 0 /\ n - 1 \in Nat /\ n - 1 \notin Nat \ T
    BY <1>1
  <1> QED BY <1>1, <1>2

Choice(s) == CHOOSE x \in s : TRUE

\* The value of a sum of the values of g that h gives for the set s.
Part(g, h, s) == IF s = {} THEN 0 ELSE g[Choice(s)] + h[s \ {Choice(s)}]

Adds(S, g, h) == h = [s \in SUBSET S |-> Part(g, h, s)]

LEMMA SumDef ==
  ASSUME NEW S, NEW g
  PROVE  SumOver(S, g) = (CHOOSE h : Adds(S, g, h))[S]
BY DEF SumOver, MapThenSumSet, MapThenFoldSet, Adds, Choice, Part

LEMMA Smaller ==
  ASSUME NEW S, IsFiniteSet(S), NEW n \in Nat, NEW s \in SUBSET S, s # {}, Cardinality(s) <= n + 1
  PROVE  s \ {Choice(s)} \in SUBSET S /\ Cardinality(s \ {Choice(s)}) <= n /\ Choice(s) \in s
  <1>1. Choice(s) \in s
    BY DEF Choice
  <1>2. IsFiniteSet(s)
    BY FS_Subset
  <1>3. Cardinality(s \ {Choice(s)}) = Cardinality(s) - 1 /\ Cardinality(s) \in Nat
    BY <1>1, <1>2, FS_RemoveElement, FS_CardinalityType
  <1> QED BY <1>1, <1>3

LEMMA SumExists ==
  ASSUME NEW S, IsFiniteSet(S), NEW g
  PROVE  \E h : Adds(S, g, h)
  <1> DEFINE Upto(n, h) == \A s \in SUBSET S : Cardinality(s) <= n => h[s] = Part(g, h, s)
             T == {n \in Nat : \E h : Upto(n, h)}
  <1>1. 0 \in T
    <2> DEFINE h == [s \in SUBSET S |-> 0]
    <2>1. ASSUME NEW s \in SUBSET S, Cardinality(s) <= 0
          PROVE  h[s] = Part(g, h, s)
      <3>1. IsFiniteSet(s) /\ Cardinality(s) \in Nat
        BY FS_Subset, FS_CardinalityType
      <3>2. s = {}
        BY <2>1, <3>1, FS_EmptySet
      <3> QED BY <3>2 DEF Part
    <2>2. Upto(0, h)
      BY <2>1
    <2> QED BY <2>2
  <1>2. ASSUME NEW n \in T PROVE n + 1 \in T
    <2>1. PICK h : Upto(n, h)
      BY <1>2
    <2> DEFINE k == [s \in SUBSET S |-> Part(g, h, s)]
    <2>2. ASSUME NEW s \in SUBSET S, Cardinality(s) <= n + 1
          PROVE  k[s] = Part(g, k, s)
      <3>1. CASE s = {}
        BY <3>1 DEF Part
      <3>2. CASE s # {}
        <4> DEFINE r == s \ {Choice(s)}
        <4>1. r \in SUBSET S /\ Cardinality(r) <= n
          BY <1>2, <2>2, <3>2, Smaller
        <4>2. k[r] = h[r]
          BY <2>1, <4>1
        <4> QED BY <3>2, <4>2 DEF Part
      <3> QED BY <3>1, <3>2
    <2>3. Upto(n + 1, k)
      BY <2>2
    <2>4. n + 1 \in Nat
      BY <1>2
    <2> HIDE DEF k
    <2> QED BY <2>3, <2>4
  <1> HIDE DEF T
  <1>3. Cardinality(S) \in T
    BY <1>1, <1>2, Induct, FS_CardinalityType DEF T
  <1>4. PICK h : Upto(Cardinality(S), h)
    BY <1>3 DEF T
  <1>5. \A s \in SUBSET S : h[s] = Part(g, h, s)
    BY <1>4, FS_Subset
  <1> DEFINE k == [s \in SUBSET S |-> h[s]]
  <1>6. ASSUME NEW s \in SUBSET S PROVE k[s] = Part(g, k, s)
    <2>1. CASE s = {}
      BY <1>5, <2>1 DEF Part
    <2>2. CASE s # {}
      BY <1>5, <2>2 DEF Part
    <2> QED BY <2>1, <2>2
  <1>7. k = [s \in SUBSET S |-> Part(g, k, s)]
    BY <1>6
  <1> HIDE DEF k
  <1>8. Adds(S, g, k)
    BY <1>7 DEF Adds
  <1> QED BY <1>8

\* h gives the sums of the values of g over every part of S.
Sums(S, g, h) == SumOver(S, g) = h[S] /\ \A s \in SUBSET S : h[s] = Part(g, h, s)

LEMMA SumPart ==
  ASSUME NEW S, NEW g, IsFiniteSet(S)
  PROVE  \E h : Sums(S, g, h)
  <1> DEFINE h == CHOOSE k : Adds(S, g, k)
  <1>1. Adds(S, g, h)
    BY SumExists
  <1>2. SumOver(S, g) = h[S]
    BY SumDef
  <1> HIDE DEF h
  <1>3. \A s \in SUBSET S : h[s] = Part(g, h, s)
    BY <1>1 DEF Adds
  <1> QED BY <1>2, <1>3 DEF Sums


\* A sum where the value of at most one element has changed.
LEMMA SumChange ==
  ASSUME NEW S, IsFiniteSet(S), NEW f, NEW g, NEW x, NEW d \in Nat,
         \A y \in S : f[y] \in Nat /\ g[y] = IF y = x THEN f[y] + d ELSE f[y]
  PROVE  /\ SumOver(S, f) \in Nat
         /\ SumOver(S, g) = SumOver(S, f) + IF x \in S THEN d ELSE 0
  <1>1. PICK p : Sums(S, f, p)
    BY SumPart
  <1>2. PICK q : Sums(S, g, q)
    BY SumPart
  <1> DEFINE Differ(s) == p[s] \in Nat /\ q[s] = p[s] + IF x \in s THEN d ELSE 0
             T == {n \in Nat : \A s \in SUBSET S : Cardinality(s) <= n => Differ(s)}
  <1>3. Differ({})
    <2>1. p[{}] = 0 /\ q[{}] = 0
      BY <1>1, <1>2 DEF Sums, Part
    <2> QED BY <2>1
  <1>4. 0 \in T
    <2>1. ASSUME NEW s \in SUBSET S, Cardinality(s) <= 0 PROVE s = {}
      <3>1. IsFiniteSet(s) /\ Cardinality(s) \in Nat
        BY FS_Subset, FS_CardinalityType
      <3> QED BY <2>1, <3>1, FS_EmptySet
    <2> QED BY <1>3, <2>1
  <1>5. ASSUME NEW n \in T PROVE n + 1 \in T
    <2>1. ASSUME NEW s \in SUBSET S, Cardinality(s) <= n + 1, s # {} PROVE Differ(s)
      <3> DEFINE c == Choice(s)
                 r == s \ {c}
      <3>1. r \in SUBSET S /\ Cardinality(r) <= n /\ c \in s
        BY <1>5, <2>1, Smaller
      <3>2. Differ(r)
        BY <1>5, <3>1
      <3>3. p[s] = f[c] + p[r] /\ q[s] = g[c] + q[r]
        BY <1>1, <1>2, <2>1 DEF Sums, Part
      <3>4. f[c] \in Nat /\ g[c] = f[c] + IF c = x THEN d ELSE 0
        BY <3>1
      <3>5. x \in s <=> c = x \/ x \in r
        BY <3>1
      <3>6. x \in r => c # x
        OBVIOUS
      <3> HIDE DEF c, r
      <3> QED BY <3>2, <3>3, <3>4, <3>5, <3>6
    <2>2. \A s \in SUBSET S : Cardinality(s) <= n + 1 => Differ(s)
      BY <1>3, <2>1
    <2>3. n + 1 \in Nat
      BY <1>5
    <2> HIDE DEF Differ
    <2> QED BY <2>2, <2>3
  <1> HIDE DEF T
  <1>6. Cardinality(S) \in T
    BY <1>4, <1>5, Induct, FS_CardinalityType DEF T
  <1>7. Differ(S)
    BY <1>6, FS_CardinalityType DEF T
  <1> QED BY <1>1, <1>2, <1>7 DEF Sums

\* A sum of zeros.
LEMMA SumZero ==
  ASSUME NEW S, IsFiniteSet(S), NEW f, \A y \in S : f[y] = 0
  PROVE  SumOver(S, f) = 0
  <1>1. PICK p : Sums(S, f, p)
    BY SumPart
  <1> DEFINE T == {n \in Nat : \A s \in SUBSET S : Cardinality(s) <= n => p[s] = 0}
  <1>2. p[{}] = 0
    BY <1>1 DEF Sums, Part
  <1>3. 0 \in T
    <2>1. ASSUME NEW s \in SUBSET S, Cardinality(s) <= 0 PROVE s = {}
      <3>1. IsFiniteSet(s) /\ Cardinality(s) \in Nat
        BY FS_Subset, FS_CardinalityType
      <3> QED BY <2>1, <3>1, FS_EmptySet
    <2> QED BY <1>2, <2>1
  <1>4. ASSUME NEW n \in T PROVE n + 1 \in T
    <2>1. ASSUME NEW s \in SUBSET S, Cardinality(s) <= n + 1, s # {} PROVE p[s] = 0
      <3>1. s \ {Choice(s)} \in SUBSET S /\ Cardinality(s \ {Choice(s)}) <= n /\ Choice(s) \in s
        BY <1>4, <2>1, Smaller
      <3>2. p[s] = f[Choice(s)] + p[s \ {Choice(s)}]
        BY <1>1, <2>1 DEF Sums, Part
      <3>3. p[s \ {Choice(s)}] = 0 /\ f[Choice(s)] = 0
        BY <1>4, <3>1
      <3> QED BY <3>2, <3>3
    <2>2. \A s \in SUBSET S : Cardinality(s) <= n + 1 => p[s] = 0
      BY <1>2, <2>1
    <2>3. n + 1 \in Nat
      BY <1>4
    <2> QED BY <2>2, <2>3
  <1> HIDE DEF T
  <1>5. Cardinality(S) \in T
    BY <1>3, <1>4, Induct, FS_CardinalityType DEF T
  <1> QED BY <1>1, <1>5, FS_CardinalityType DEF T, Sums

-----------------------------------------------------------------------------
(* What is counted is shown *)

Weighted == [n \in Nodes |-> counted[n] * K(n)]
Current(n) == IF pc = "walk" THEN n ELSE 0

LEMMA Shares ==
  Conserved <=> (pc # "undefined" =>
                    /\ total_sizes + Current(sizes) = SumOver(Nodes, Weighted)
                    /\ total_inodes + Current(inodes) = SumOver(Files, counted))
  BY DEF Conserved, Weighted, Current

\* One more of a node: a file is 1 inode, and K of it (4 of a directory) go into sizes.
LEMMA OneMore ==
    ASSUME Shape, counted \in [Nodes -> Nat], tree' = tree, NEW n \in Nodes, Count(n)
    PROVE  /\ SumOver(Nodes, Weighted)' = SumOver(Nodes, Weighted) + K(n)
           /\ SumOver(Files, counted)' = SumOver(Files, counted) + IF IsDirectory(n) THEN 0 ELSE 1
           /\ SumOver(Nodes, Weighted) \in Nat /\ SumOver(Files, counted) \in Nat
  <1>1. IsFiniteSet(Nodes) /\ IsFiniteSet(Files)
    BY FS_Subset DEF Shape, WellFormed, Nodes, Files
  <1>2. Nodes' = Nodes /\ Files' = Files /\ \A k \in Nodes : K(k)' = K(k)
    BY DEF Nodes, Files, K, IsDirectory, Attr
  <1>3. \A k \in Nodes : counted[k] \in Nat /\ counted'[k] = IF k = n THEN counted[k] + 1 ELSE counted[k]
    BY DEF Count
  <1>4. \A k \in Nodes : K(k) \in Nat
    BY Blocks
  <1>5. \A k \in Nodes : Weighted[k] \in Nat /\ Weighted'[k] = IF k = n THEN Weighted[k] + K(n) ELSE Weighted[k]
    <2> TAKE k \in Nodes
    <2>1. Weighted[k] = counted[k] * K(k) /\ Weighted'[k] = counted'[k] * K(k)
      BY <1>2 DEF Weighted
    <2>2. counted[k] \in Nat /\ K(k) \in Nat
      BY <1>3, <1>4
    <2>3. (counted[k] + 1) * K(k) = counted[k] * K(k) + K(k) /\ counted[k] * K(k) \in Nat
      BY <2>2
    <2> QED BY <1>3, <2>1, <2>3
  <1>6. SumOver(Nodes, Weighted) \in Nat /\ SumOver(Nodes, Weighted') = SumOver(Nodes, Weighted) + K(n)
    BY <1>1, <1>4, <1>5, SumChange
  <1>7. /\ SumOver(Files, counted) \in Nat
        /\ SumOver(Files, counted') = SumOver(Files, counted) + IF n \in Files THEN 1 ELSE 0
    <2> DEFINE f == counted
               g == counted'
    <2>1. \A y \in Files : f[y] \in Nat /\ g[y] = IF y = n THEN f[y] + 1 ELSE f[y]
      BY <1>3 DEF Files
    <2> HIDE DEF f, g
    <2>2. CASE n \in Files
      <3>1. SumOver(Files, f) \in Nat /\ SumOver(Files, g) = SumOver(Files, f) + 1
        BY <1>1, <2>1, <2>2, SumChange
      <3> QED BY <2>2, <3>1 DEF f, g
    <2>3. CASE n \notin Files
      <3>1. SumOver(Files, f) \in Nat /\ SumOver(Files, g) = SumOver(Files, f) + 0
        BY <1>1, <2>1, <2>3, SumChange
      <3> QED BY <2>3, <3>1 DEF f, g
    <2> QED BY <2>2, <2>3
  <1>8. SumOver(Nodes, Weighted)' = SumOver(Nodes, Weighted') /\ SumOver(Files, counted)' = SumOver(Files, counted')
    BY <1>2
  <1> QED BY <1>6, <1>7, <1>8 DEF Files

\* Nothing is counted.
LEMMA NoMore ==
    ASSUME tree'.node = tree.node, counted' = counted
    PROVE  /\ SumOver(Nodes, Weighted)' = SumOver(Nodes, Weighted)
           /\ SumOver(Files, counted)' = SumOver(Files, counted)
  <1>1. Nodes' = Nodes /\ Files' = Files /\ \A k \in Nodes : K(k)' = K(k)
    BY DEF Nodes, Files, K, IsDirectory, Attr
  <1>2. Weighted' = Weighted
    BY <1>1 DEF Weighted
  <1> QED BY <1>1, <1>2

LEMMA InitConserved == Init => Conserved
  <1> SUFFICES ASSUME Init PROVE Conserved
    OBVIOUS
  <1>1. WellFormed(tree)
    BY VtreeAssumption DEF Init
  <1>2. IsFiniteSet(Nodes) /\ IsFiniteSet(Files)
    BY <1>1, FS_Subset DEF WellFormed, Nodes, Files
  <1>3. \A n \in Nodes : counted[n] = 0 /\ K(n) \in Nat
    <2>1. \A n \in Nodes : Attr(n).blocks \in Nat
      BY <1>1 DEF WellFormed, Nodes, Attr
    <2> QED BY <2>1 DEF Init, Nodes, K
  <1>4. \A n \in Nodes : Weighted[n] = 0
    BY <1>3 DEF Weighted
  <1>5. SumOver(Nodes, Weighted) = 0 /\ SumOver(Files, counted) = 0
    BY <1>2, <1>3, <1>4, SumZero DEF Files
  <1> QED BY <1>5, Shares DEF Init, Current

LEMMA ConservedStep == IInv /\ Conserved /\ [Next]_vars => Conserved'
  <1> SUFFICES ASSUME IInv, Conserved, [Next]_vars, pc' # "undefined" PROVE Conserved'
    BY DEF Conserved
  <1> DEFINE a == SumOver(Nodes, Weighted)
             b == SumOver(Files, counted)
  <1>1. /\ sizes \in Nat /\ inodes \in Nat /\ total_sizes \in Nat /\ total_inodes \in Nat
        /\ counted \in [Nodes -> Nat] /\ Shape
    BY DEF IInv, TypeOK
  <1>2. pc # "undefined"
    BY DEF Next, Step, vars, Vanish, NextArgument, ArgumentDone, Return, Open, ReadAll, In,
           ReadEntry, EndOfDirectory, CountNothing, CountFile, EndOfCount, PassOver, Descend, Leave
  <1>3. total_sizes + Current(sizes) = a /\ total_inodes + Current(inodes) = b
    BY <1>2, Shares
  <1>4. ASSUME total_sizes' + Current(sizes)' = a', total_inodes' + Current(inodes)' = b'
        PROVE  Conserved'
    BY <1>4 DEF Conserved, Weighted, Current
  <1>5. stb' \in Nodes'
    BY NextIInv DEF IInv, TypeOK
  <1> HIDE DEF a, b
  <1>6. ASSUME tree' = tree, Count(stb')
        PROVE  a' = a + K(stb') /\ b' = b + IF IsDirectory(stb') THEN 0 ELSE 1
    <2>1. stb' \in Nodes
      BY <1>5, <1>6 DEF Nodes
    <2>2. ASSUME NEW n \in Nodes, Count(n)
          PROVE  a' = a + K(n) /\ b' = b + IF IsDirectory(n) THEN 0 ELSE 1
      BY <1>1, <1>6, <2>2, OneMore DEF a, b
    <2> QED BY <1>6, <2>1, <2>2
  <1>7. ASSUME tree'.node = tree.node, counted' = counted PROVE a' = a /\ b' = b
    BY <1>7, NoMore DEF a, b
  <1>8. CASE NextArgument
    <2>1. tree' = tree /\ pc = "args" /\ pc' = "walk" /\ inodes' = 0 /\ Visits(tree.top, args[arg], 0)
          /\ UNCHANGED <<total_sizes, total_inodes>>
      BY <1>8 DEF NextArgument, given
    <2>2. total_sizes = a /\ total_inodes = b
      BY <1>1, <1>3, <2>1 DEF Current
    <2>3. CASE IsDirectory(stb')
      <3>1. sizes' = 4 /\ Count(stb') /\ K(stb') = 4
        BY <2>1, <2>3 DEF Visits, K
      <3> QED BY <1>1, <1>4, <1>6, <2>1, <2>2, <2>3, <3>1 DEF Current
    <2>4. CASE ~IsDirectory(stb')
      <3>1. sizes' = 0 /\ counted' = counted
        BY <2>1, <2>4 DEF Visits
      <3> QED BY <1>1, <1>4, <1>7, <2>1, <2>2, <3>1 DEF Current
    <2> QED BY <2>3, <2>4
  <1>9. CASE ArgumentDone
    <2>1. tree' = tree /\ counted' = counted /\ AddTotals /\ pc = "walk" /\ pc' # "walk"
      BY <1>9 DEF ArgumentDone, given
    <2> QED BY <1>1, <1>3, <1>4, <1>7, <2>1 DEF AddTotals, Current
  <1>10. CASE CountFile
    <2>1. /\ tree' = tree /\ pc = "walk" /\ pc' = "walk" /\ ~IsDirectory(stb')
          /\ inodes' = inodes + 1 /\ sizes' = sizes + K(stb') /\ Count(stb')
          /\ UNCHANGED <<total_sizes, total_inodes>>
      BY <1>10 DEF CountFile, given, In
    <2>2. K(stb') \in Nat
      BY <1>1, <1>5, <2>1, Blocks DEF Nodes
    <2> QED BY <1>1, <1>3, <1>4, <1>6, <2>1, <2>2 DEF Current
  <1>11. CASE EndOfCount \/ Leave
    <2>1. /\ tree' = tree /\ counted' = counted /\ pc = "walk" /\ pc' = "walk"
          /\ Shown \/ NotShown
      BY <1>11 DEF EndOfCount, Leave, given, In
    <2> QED BY <1>1, <1>3, <1>4, <1>7, <2>1 DEF Shown, NotShown, AddTotals, Current
  <1>12. CASE Descend
    <2>1. tree' = tree /\ pc = "walk" /\ pc' = "walk" /\ inodes' = inodes /\ Visits(cwd, File, sizes)
          /\ UNCHANGED <<total_sizes, total_inodes>>
      BY <1>12 DEF Descend, given, In
    <2>3. CASE IsDirectory(stb')
      <3>1. sizes' = sizes + 4 /\ Count(stb') /\ K(stb') = 4
        BY <2>1, <2>3 DEF Visits, K
      <3> QED BY <1>1, <1>3, <1>4, <1>6, <2>1, <2>3, <3>1 DEF Current
    <2>4. CASE ~IsDirectory(stb')
      <3>1. sizes' = sizes /\ counted' = counted
        BY <2>1, <2>4 DEF Visits
      <3> QED BY <1>1, <1>3, <1>4, <1>7, <2>1, <3>1 DEF Current
    <2> QED BY <2>3, <2>4
  <1>13. CASE tree'.node = tree.node /\ UNCHANGED sums /\ (pc = "walk" <=> pc' = "walk")
    BY <1>3, <1>4, <1>7, <1>13 DEF sums, Current
  <1>14. ASSUME NEW dir \in Dirs, NEW name \in Names(dir), Vanish(dir, name)
         PROVE  Conserved'
    BY <1>1, <1>13, <1>14, Vanishes
  <1>15. CASE UNCHANGED <<tree, pc, sums>>
    BY <1>13, <1>15
  <1>16. CASE Open
    BY <1>13, <1>16 DEF Open, given
  <1>17. CASE CountNothing
    BY <1>13, <1>17 DEF CountNothing, given
  <1> QED BY <1>8, <1>9, <1>10, <1>11, <1>12, <1>14, <1>15, <1>16, <1>17
          DEF Next, Step, vars, given, Dirs, Return, ReadAll, ReadEntry, EndOfDirectory, PassOver

\* Every directory visited and every file counted is once in the sums of the lines
\* (down and vtree_main, vtree.c), whatever the depth, whatever has gone.
THEOREM NothingLost == Spec => []Conserved
  BY Invariance, InitConserved, ConservedStep, PTL DEF Spec
-----------------------------------------------------------------------------
(* What the lists of names hold, sorted or not *)

Distinct(s) == \A i, j \in DOMAIN s : i # j => s[i] # s[j]
Rises(s) == \A i, j \in DOMAIN s : i < j => s[i] < s[j]

LEMMA Arrangements ==
    ASSUME NEW S, NEW s
    PROVE  s \in SetToSeqs(S) <=> s \in [1 .. Cardinality(S) -> S] /\ Distinct(s)
  <1>1. s \in [1 .. Cardinality(S) -> S] => DOMAIN s = 1 .. Cardinality(S)
    OBVIOUS
  <1> QED BY <1>1 DEF SetToSeqs, Distinct

\* An arrangement of a set has each of its elements once.
LEMMA Arranged ==
    ASSUME NEW S, IsFiniteSet(S), NEW s \in SetToSeqs(S)
    PROVE  s \in Seq(S) /\ Len(s) = Cardinality(S) /\ Distinct(s) /\ ToSet(s) = S
  <1> DEFINE n == Cardinality(S)
  <1>1. n \in Nat
    BY FS_CardinalityType
  <1>2. s \in [1 .. n -> S] /\ Distinct(s)
    BY Arrangements
  <1>3. IsFiniteSet(1 .. n) /\ Cardinality(1 .. n) = n
    BY <1>1, FS_Interval
  <1>4. s \in Injection(1 .. n, S)
    BY <1>2 DEF Injection, IsInjective, Distinct
  <1>5. s \in Surjection(1 .. n, S)
    BY <1>3, <1>4, FS_Injection
  <1>6. ToSet(s) = S
    BY <1>2, <1>5 DEF Surjection, ToSet
  <1> HIDE DEF n
  <1>7. s \in Seq(S) /\ Len(s) = n
    BY <1>1, <1>2
  <1> QED BY <1>2, <1>6, <1>7 DEF n

\* Every finite set of numbers has an arrangement in their order.
LEMMA OrderExists ==
    ASSUME NEW S \in SUBSET Nat, IsFiniteSet(S)
    PROVE  \E s \in SetToSeqs(S) : Rises(s)
  <1> DEFINE Ordered(R) == \E s \in [1 .. Cardinality(R) -> R] : Rises(s)
             T == {n \in Nat : \A R \in SUBSET Nat :
                                  IsFiniteSet(R) /\ Cardinality(R) = n => Ordered(R)}
  <1>1. 0 \in T
    <2>1. ASSUME NEW R \in SUBSET Nat, IsFiniteSet(R), Cardinality(R) = 0 PROVE Ordered(R)
      <3>1. <<>> \in [1 .. 0 -> R] /\ Rises(<<>>)
        BY DEF Rises
      <3> QED BY <2>1, <3>1
    <2> QED BY <2>1
  <1>2. ASSUME NEW n \in T PROVE n + 1 \in T
    <2>1. ASSUME NEW R \in SUBSET Nat, IsFiniteSet(R), Cardinality(R) = n + 1 PROVE Ordered(R)
      <3>1. R # {} /\ n \in Nat
        BY <1>2, <2>1, FS_EmptySet
      <3>2. PICK m \in R : \A k \in R : m <= k
        BY <3>1, Least
      <3> DEFINE Q == R \ {m}
      <3>3. Q \in SUBSET Nat /\ IsFiniteSet(Q) /\ Cardinality(Q) = n
        BY <2>1, <3>1, FS_RemoveElement
      <3>4. PICK q \in [1 .. n -> Q] : Rises(q)
        BY <1>2, <3>3
      <3> DEFINE r == [i \in 1 .. n + 1 |-> IF i = 1 THEN m ELSE q[i - 1]]
      <3>5. \A i \in 1 .. n + 1 : i # 1 => i - 1 \in 1 .. n /\ r[i] = q[i - 1] /\ r[i] \in Q
        BY <3>1, <3>4
      <3>6. r \in [1 .. n + 1 -> R]
        BY <3>5
      <3>7. ASSUME NEW i \in 1 .. n + 1, NEW j \in 1 .. n + 1, i < j PROVE r[i] < r[j]
        <4>1. j # 1 /\ r[j] \in Q
          BY <3>1, <3>5, <3>7
        <4>2. CASE i = 1
          <5>1. r[i] = m /\ m \in Nat /\ r[j] \in Nat /\ m <= r[j] /\ r[j] # m
            BY <3>2, <3>3, <4>1, <4>2
          <5> HIDE DEF r
          <5> QED BY <5>1
        <4>3. CASE i # 1
          <5>1. i - 1 \in 1 .. n /\ j - 1 \in 1 .. n /\ i - 1 < j - 1
            BY <3>1, <3>7, <4>1, <4>3
          <5>2. q[i - 1] < q[j - 1]
            BY <3>4, <5>1 DEF Rises
          <5> QED BY <3>5, <4>1, <4>3, <5>2
        <4> QED BY <4>2, <4>3
      <3> HIDE DEF r
      <3>8. Rises(r)
        BY <3>6, <3>7 DEF Rises
      <3> QED BY <2>1, <3>6, <3>8
    <2>2. n + 1 \in Nat
      BY <1>2
    <2> HIDE DEF Ordered
    <2> QED BY <2>1, <2>2
  <1> HIDE DEF T
  <1>3. Cardinality(S) \in T
    BY <1>1, <1>2, Induct, FS_CardinalityType DEF T
  <1>4. PICK s \in [1 .. Cardinality(S) -> S] : Rises(s)
    BY <1>3 DEF T
  <1>5. Distinct(s)
    <2>1. ASSUME NEW i \in DOMAIN s, NEW j \in DOMAIN s, i # j PROVE s[i] # s[j]
      <3>1. i \in Int /\ j \in Int /\ s[i] \in Nat /\ s[j] \in Nat
        <4>1. DOMAIN s = 1 .. Cardinality(S)
          OBVIOUS
        <4>2. s[i] \in S /\ s[j] \in S
          BY <2>1
        <4>3. Cardinality(S) \in Nat
          BY FS_CardinalityType
        <4>4. i \in 1 .. Cardinality(S) /\ j \in 1 .. Cardinality(S)
          BY <2>1, <4>1
        <4>5. i \in Int /\ j \in Int
          BY <4>3, <4>4
        <4>6. s[i] \in Nat /\ s[j] \in Nat
          BY <4>2
        <4> QED BY <4>5, <4>6
      <3> QED BY <1>4, <2>1, <3>1 DEF Rises
    <2> QED BY <2>1 DEF Distinct
  <1> QED BY <1>4, <1>5, Arrangements

\* Another name at the end of a list.
LEMMA Longer ==
    ASSUME NEW S, NEW s \in Seq(S), Distinct(s), NEW x \in S, x \notin ToSet(s)
    PROVE  /\ Append(s, x) \in Seq(S) /\ Distinct(Append(s, x))
           /\ ToSet(Append(s, x)) = ToSet(s) \cup {x}
  <1>1. /\ Append(s, x) \in Seq(S) /\ Len(s) \in Nat
        /\ DOMAIN s = 1 .. Len(s) /\ DOMAIN Append(s, x) = 1 .. Len(s) + 1
        /\ \A i \in 1 .. Len(s) + 1 : Append(s, x)[i] = IF i = Len(s) + 1 THEN x ELSE s[i]
    <2>1. Append(s, x) \in Seq(S) /\ Len(s) \in Nat /\ Len(Append(s, x)) = Len(s) + 1
      OBVIOUS
    <2>2. DOMAIN s = 1 .. Len(s) /\ DOMAIN Append(s, x) = 1 .. Len(s) + 1
      BY <2>1
    <2>3. \A i \in 1 .. Len(s) + 1 : Append(s, x)[i] = IF i = Len(s) + 1 THEN x ELSE s[i]
      BY <2>1
    <2> QED BY <2>1, <2>2, <2>3
  <1>2. \A i \in 1 .. Len(s) + 1 : i = Len(s) + 1 \/ (i \in DOMAIN s /\ i # Len(s) + 1)
    <2>1. Len(s) \in Nat /\ DOMAIN s = 1 .. Len(s)
      OBVIOUS
    <2> QED BY <2>1
  <1>3. \A i \in DOMAIN s : i \in 1 .. Len(s) + 1 /\ s[i] # x
    BY <1>1 DEF ToSet
  <1>4. Len(s) + 1 \in 1 .. Len(s) + 1
    BY <1>1
  <1> DEFINE r == Append(s, x)
  <1>5. \A i \in DOMAIN s : r[i] = s[i] /\ r[i] # x
    BY <1>1, <1>3
  <1>6. r[Len(s) + 1] = x
    BY <1>1, <1>4
  <1> HIDE DEF r
  <1>7. Distinct(r)
    BY <1>1, <1>2, <1>5, <1>6 DEF Distinct, r
  <1>8. ToSet(r) = ToSet(s) \cup {x}
    <2>1. DOMAIN r = DOMAIN s \cup {Len(s) + 1}
      BY <1>1 DEF r
    <2> QED BY <1>5, <1>6, <2>1 DEF ToSet
  <1> QED BY <1>1, <1>7, <1>8 DEF r

\* Sorting keeps the names there are, each once.
LEMMA SortedList ==
    ASSUME NEW s \in Seq(Nat), Distinct(s)
    PROVE  /\ Sorted(s) \in Seq(ToSet(s)) /\ Len(Sorted(s)) = Len(s)
           /\ Distinct(Sorted(s)) /\ ToSet(Sorted(s)) = ToSet(s)
  <1>1. s \in Seq(ToSet(s)) /\ DOMAIN s = 1 .. Len(s) /\ Len(s) \in Nat
    BY DEF ToSet
  <1>2. CASE ~opts.sort
    BY <1>1, <1>2 DEF Sorted
  <1>3. CASE opts.sort
    <2>1. IsFiniteSet(1 .. Len(s)) /\ Cardinality(1 .. Len(s)) = Len(s)
      BY <1>1, FS_Interval
    <2>2. s \in Bijection(1 .. Len(s), ToSet(s))
      BY <1>1 DEF Bijection, Injection, Surjection, IsInjective, Distinct, ToSet
    <2>3. IsFiniteSet(ToSet(s)) /\ Cardinality(ToSet(s)) = Len(s)
      BY <2>1, <2>2, FS_Bijection DEF ExistsBijection
    <2>4. ToSet(s) \in SUBSET Nat
      BY <1>1 DEF ToSet
    <2>5. InOrder(ToSet(s)) \in SetToSeqs(ToSet(s))
      BY <2>3, <2>4, OrderExists DEF InOrder, Rises
    <2> QED BY <1>3, <2>3, <2>5, Arranged DEF Sorted
  <1> QED BY <1>2, <1>3
-----------------------------------------------------------------------------
(* The branches left *)

Still == opts.visual /\ vanished = 0 /\ Searchable /\ Running

\* The names in a directory of the file system t, and those of directories.
Listed(t, dir) == DOMAIN t.entries[dir]
Subdirs(t, dir) == {name \in Listed(t, dir) : t.node[t.entries[dir][name]].dir}

\* A call of down with a visual display, and what sub_dirs holds for it.
Drawn(f, left, t) ==
    /\ f.list \in Seq(Subdirs(t, f.dir)) /\ Distinct(f.list)
    /\ f.todo \in Seq(Subdirs(t, f.dir))
    /\ \/ f.phase = "read" /\ left = 0
          /\ f.unread \subseteq Listed(t, f.dir) \ ToSet(f.list)
       \/ f.phase = "descend" /\ left = Len(f.todo)

Fields(f) == DOMAIN f = {"dir", "phase", "list", "todo", "back", "unread"}

BInv ==
    /\ vanished \in Nat
    /\ Running => cur_depth < MaxVDepth
    /\ \A i \in DOMAIN stack : Fields(stack[i])
    /\ Still => \A i \in DOMAIN stack : Drawn(stack[i], sub_dirs[i], tree)

\* What a stat in the directory itself says of its names.
LEMMA Looks ==
    ASSUME Shape, NEW dir \in Dirs
    PROVE  /\ Subdirs(tree, dir) \subseteq Listed(tree, dir) /\ Listed(tree, dir) \subseteq Nat \ {Dot}
           /\ \A name \in Listed(tree, dir) :
                 IsDirectory(Stat(dir, name)) <=> name \in Subdirs(tree, dir)
  BY DEF Shape, WellFormed, Subdirs, Listed, Names, Dirs, Stat, Exists, Lookup, IsDirectory, Attr

LEMMA Stacked ==
    ASSUME Shape, TypeOK
    PROVE  /\ Len(stack) \in Nat /\ DOMAIN stack = 1 .. Len(stack) /\ cur_depth = Len(stack)
           /\ \A i \in DOMAIN stack : Frame(stack[i])
           /\ stack # <<>> => Len(stack) \in DOMAIN stack /\ Top = stack[Len(stack)]
  <1>1. PICK S : stack \in Seq(S)
    BY DEF Shape, Calls
  <1> QED BY <1>1 DEF Top, TypeOK, Shape, Calls

\* The call on top changes.
LEMMA Redrawn ==
    ASSUME Shape, TypeOK, BInv, stack # <<>>, NEW f, Update(f), Fields(f), vanished' = vanished,
           cur_depth' = cur_depth, Running' => Running, Still' => Still,
           \A i \in DOMAIN stack : i # Len(stack) => sub_dirs'[i] = sub_dirs[i],
           UNCHANGED tree,
           Still => Drawn(f, sub_dirs'[Len(stack)], tree)
    PROVE  BInv'
  <1>1. /\ Len(stack) \in Nat /\ DOMAIN stack = 1 .. Len(stack) /\ Len(stack) \in DOMAIN stack
    BY Stacked
  <1>2. DOMAIN stack' = DOMAIN stack
        /\ \A i \in DOMAIN stack : stack'[i] = IF i = Len(stack) THEN f ELSE stack[i]
    <2>1. PICK S : stack \in Seq(S)
      BY DEF Shape, Calls
    <2> QED BY <2>1 DEF Update
  <1>3. Still' => \A i \in DOMAIN stack' : Drawn(stack'[i], sub_dirs'[i], tree)
    BY <1>1, <1>2 DEF BInv
  <1> QED BY <1>1, <1>2, <1>3 DEF BInv, Fields

LEMMA BStep == IInv /\ BInv /\ [Next]_vars => BInv'
  <1> SUFFICES ASSUME IInv, BInv, [Next]_vars PROVE BInv'
    OBVIOUS
  <1> USE DEF IInv
  <1>0. /\ Len(stack) \in Nat /\ DOMAIN stack = 1 .. Len(stack) /\ cur_depth = Len(stack)
        /\ \A i \in DOMAIN stack : Frame(stack[i]) /\ Fields(stack[i])
        /\ stack # <<>> => /\ Len(stack) \in DOMAIN stack /\ Top = stack[Len(stack)]
                          /\ Frame(Top) /\ Fields(Top)
        /\ MaxVDepth \in Nat \ {0}
        /\ DOMAIN sub_dirs = 1 .. MaxVDepth - 1
    BY Stacked, VtreeAssumption DEF BInv, Shape
  <1>a. Still /\ stack # <<>> =>
           /\ Drawn(Top, sub_dirs[Len(stack)], tree) /\ cwd = Top.dir /\ Top.dir \in Dirs
           /\ Len(stack) \in DOMAIN sub_dirs
    BY <1>0 DEF Still, AtHome, Home, BInv, Frame
  <1>b. Still /\ stack # <<>> =>
           /\ Subdirs(tree, cwd) \subseteq Listed(tree, cwd) /\ Listed(tree, cwd) \subseteq Nat \ {Dot}
           /\ \A name \in Listed(tree, cwd) :
                 IsDirectory(Stat(cwd, name)) <=> name \in Subdirs(tree, cwd)
    BY <1>a, Looks
  <1>c. ASSUME UNCHANGED <<tree, opts, pc, vanished>> PROVE Still' => Still
    BY <1>c DEF Still, Running, Searchable, Nodes, IsDirectory, Attr
  <1>d. ASSUME UNCHANGED <<tree, stack, sub_dirs, cur_depth, vanished>>, Running' => Running, Still' => Still
        PROVE  BInv'
    BY <1>d DEF BInv, Fields
  <1>1. CASE NextArgument
    <2>1. UNCHANGED <<tree, opts, stack, sub_dirs, vanished>> /\ pc = "args" /\ pc' = "walk"
          /\ cur_depth' = 0 /\ stack = <<>>
      BY <1>1 DEF NextArgument, given, Shape
    <2>2. Still' => Still
      BY <2>1 DEF Still, Running, Searchable, Nodes, IsDirectory, Attr
    <2> QED BY <1>0, <1>d, <2>1, <2>2 DEF Running
  <1>2. CASE ArgumentDone
    <2>1. UNCHANGED <<tree, opts, stack, sub_dirs, cur_depth, vanished>> /\ pc = "walk"
      BY <1>2 DEF ArgumentDone, given, walk
    <2> QED BY <1>d, <2>1 DEF Still, Running, Searchable, Nodes, IsDirectory, Attr
  <1>3. CASE Return
    <2>1. UNCHANGED <<tree, opts, pc, stack, sub_dirs, cur_depth, vanished>>
      BY <1>3 DEF Return, given
    <2> QED BY <1>c, <1>d, <2>1 DEF Running
  <1>4. CASE Open
    <2> DEFINE dir == Lookup(cwd, pending)
               f == [dir |-> dir, phase |-> "read", list |-> <<>>, todo |-> <<>>, back |-> cwd,
                     unread |-> Names(dir) \cup (IF Selective THEN {} ELSE {Dot})]
    <2>1. /\ stack' = Append(stack, f)
          /\ UNCHANGED <<tree, opts, sub_dirs, vanished>> /\ cur_depth' = cur_depth + 1 /\ pc = "walk"
          /\ pc' = IF cur_depth' = MaxVDepth THEN "undefined" ELSE pc
      BY <1>4 DEF Open, given
    <2>2. Fields(f) /\ Still => Drawn(f, 0, tree)
      <3>1. Still => f.unread = Listed(tree, f.dir)
        BY DEF Still, Selective, Names, Listed
      <3>2. f.list = <<>> /\ f.todo = <<>> /\ f.phase = "read" /\ ToSet(<<>>) = {} /\ Distinct(<<>>)
        BY DEF ToSet, Distinct
      <3> QED BY <3>1, <3>2 DEF Drawn
    <2>3. Fields(f)
      BY DEF Fields
    <2> HIDE DEF f
    <2>4. PICK S : stack \in Seq(S)
      BY DEF Shape, Calls
    <2>5. /\ DOMAIN stack' = 1 .. Len(stack) + 1
          /\ \A i \in 1 .. Len(stack) + 1 : stack'[i] = IF i = Len(stack) + 1 THEN f ELSE stack[i]
      BY <1>0, <2>1, <2>4
    <2>6. Running' => Running /\ cur_depth' < MaxVDepth
      BY <1>0, <2>1 DEF Running, BInv
    <2>7. Still' => Still
      BY <2>1, <2>6 DEF Still, Searchable, Nodes, IsDirectory, Attr
    <2>8. Still' => sub_dirs[Len(stack) + 1] = 0
      <3> SUFFICES ASSUME Still' PROVE sub_dirs[Len(stack) + 1] = 0
        OBVIOUS
      <3>1. Running /\ cur_depth' < MaxVDepth
        BY <2>6 DEF Still
      <3>2. Len(stack) + 1 \in DOMAIN sub_dirs
        BY <1>0, <2>1, <3>1
      <3> QED BY <1>0, <3>1, <3>2 DEF TypeOK
    <2>9. Still' => \A i \in 1 .. Len(stack) + 1 : Drawn(stack'[i], sub_dirs'[i], tree')
      <3> SUFFICES ASSUME Still', NEW i \in 1 .. Len(stack) + 1
                   PROVE  Drawn(stack'[i], sub_dirs[i], tree)
        BY <2>1
      <3>1. CASE i = Len(stack) + 1
        BY <2>2, <2>3, <2>5, <2>7, <2>8, <3>1
      <3>2. CASE i \in 1 .. Len(stack)
        BY <1>0, <2>5, <2>7, <3>2 DEF BInv
      <3> QED BY <1>0, <3>1, <3>2
    <2>10. \A i \in 1 .. Len(stack) + 1 : Fields(stack'[i])
      <3> TAKE i \in 1 .. Len(stack) + 1
      <3>1. i = Len(stack) + 1 \/ i \in 1 .. Len(stack)
        BY <1>0
      <3> QED BY <1>0, <2>3, <2>5, <3>1
    <2> QED BY <2>1, <2>5, <2>6, <2>9, <2>10 DEF BInv, Fields
  <1>5. CASE ReadAll
    <2>1. PICK list : Update([Top EXCEPT !.phase = "count", !.unread = {},
                                          !.list = Sorted(list), !.todo = Sorted(list)])
      BY <1>5 DEF ReadAll
    <2>2. /\ UNCHANGED <<tree, opts, pc, cur_depth, sub_dirs, vanished>> /\ stack # <<>> /\ ~Selective
      BY <1>5 DEF ReadAll, given, In
    <2>3. ~Still
      BY <2>2 DEF Still, Selective
    <2> QED BY <1>0, <1>c, <2>1, <2>2, <2>3, Redrawn DEF Fields, Running
  <1>6. ASSUME NEW name \in Top.unread, stack # <<>>, ReadEntry(name)
        PROVE  BInv'
    <2> DEFINE f == [Top EXCEPT !.unread = @ \ {name},
                          !.list = IF IsDirectory(stb') THEN Append(@, name) ELSE @]
    <2>1. /\ UNCHANGED <<tree, opts, pc, cur_depth, sub_dirs, vanished>> /\ stack # <<>>
          /\ Update(f) /\ stb' = Stat(cwd, name) /\ Top.phase = "read"
      BY <1>6 DEF ReadEntry, given, In
    <2>2. /\ Fields(f) /\ f.phase = "read" /\ f.dir = Top.dir /\ f.unread = Top.unread \ {name}
          /\ f.list = (IF IsDirectory(stb') THEN Append(Top.list, name) ELSE Top.list)
          /\ f.todo = Top.todo
      BY <1>0, <2>1 DEF Fields
    <2> HIDE DEF f
    <2>3. Still => Drawn(f, sub_dirs[Len(stack)], tree)
      <3> SUFFICES ASSUME Still PROVE Drawn(f, sub_dirs[Len(stack)], tree)
        OBVIOUS
      <3>1. /\ Drawn(Top, sub_dirs[Len(stack)], tree) /\ cwd = Top.dir
            /\ Top.unread \subseteq Listed(tree, cwd) \ ToSet(Top.list)
            /\ sub_dirs[Len(stack)] = 0
        BY <1>6, <1>a, <2>1 DEF Drawn
      <3>2. IsDirectory(stb') <=> name \in Subdirs(tree, cwd)
        BY <1>6, <1>b, <2>1, <3>1 DEF IsDirectory, Attr
      <3>3. CASE ~IsDirectory(stb')
        BY <2>2, <3>1, <3>3 DEF Drawn
      <3>4. CASE IsDirectory(stb')
        <4>1. f.list = Append(Top.list, name) /\ name \in Subdirs(tree, cwd) /\ name \notin ToSet(Top.list)
          BY <1>6, <2>2, <3>1, <3>2, <3>4
        <4>2. Top.list \in Seq(Subdirs(tree, cwd)) /\ Distinct(Top.list)
          BY <3>1 DEF Drawn
        <4>3. f.list \in Seq(Subdirs(tree, cwd)) /\ Distinct(f.list) /\ ToSet(f.list) = ToSet(Top.list) \cup {name}
          BY <4>1, <4>2, Longer
        <4> QED BY <1>6, <2>2, <3>1, <4>3 DEF Drawn
      <3> QED BY <3>3, <3>4
    <2> QED BY <1>c, <2>1, <2>2, <2>3, Redrawn DEF Running
  <1>7. CASE EndOfDirectory
    <2> DEFINE f == [Top EXCEPT !.phase = "descend", !.list = Sorted(@), !.todo = Sorted(Top.list)]
    <2>1. /\ UNCHANGED <<tree, opts, pc, cur_depth, vanished>> /\ stack # <<>>
          /\ Update(f) /\ Top.phase = "read" /\ pc = "walk"
          /\ sub_dirs' = IF opts.visual THEN [sub_dirs EXCEPT ![cur_depth] = @ + Len(Top.list)]
                         ELSE sub_dirs
      BY <1>7 DEF EndOfDirectory, given, In
    <2>2. /\ Fields(f) /\ f.phase = "descend" /\ f.dir = Top.dir
          /\ f.list = Sorted(Top.list) /\ f.todo = Sorted(Top.list)
      BY <1>0, <2>1 DEF Fields
    <2> HIDE DEF f
    <2>3. Still => Drawn(f, sub_dirs'[Len(stack)], tree)
      <3> SUFFICES ASSUME Still PROVE Drawn(f, sub_dirs'[Len(stack)], tree)
        OBVIOUS
      <3>1. /\ Drawn(Top, sub_dirs[Len(stack)], tree) /\ cwd = Top.dir
            /\ sub_dirs[Len(stack)] = 0 /\ Len(stack) \in DOMAIN sub_dirs /\ opts.visual
        BY <1>a, <2>1 DEF Drawn, Still
      <3>2. Top.list \in Seq(Subdirs(tree, cwd)) /\ Distinct(Top.list)
        BY <3>1 DEF Drawn
      <3>3. Top.list \in Seq(Nat) /\ ToSet(Top.list) \subseteq Subdirs(tree, cwd) /\ Len(Top.list) \in Nat
        BY <1>b, <2>1, <3>2 DEF ToSet
      <3>4. Sorted(Top.list) \in Seq(Subdirs(tree, cwd)) /\ Distinct(Sorted(Top.list)) /\ Len(Sorted(Top.list)) = Len(Top.list)
        BY <3>2, <3>3, SortedList
      <3>5. sub_dirs'[Len(stack)] = Len(Top.list)
        BY <1>0, <2>1, <3>1, <3>3
      <3> QED BY <2>2, <3>1, <3>4, <3>5 DEF Drawn
    <2>4. \A i \in DOMAIN stack : i # Len(stack) => sub_dirs'[i] = sub_dirs[i]
      BY <1>0, <2>1
    <2> QED BY <1>c, <2>1, <2>2, <2>3, <2>4, Redrawn DEF Running
  <1>8. CASE CountNothing \/ CountFile \/ EndOfCount
    <2>1. /\ UNCHANGED <<tree, opts, cur_depth, sub_dirs, vanished>> /\ stack # <<>>
          /\ Top.phase = "count" /\ pc = "walk"
          /\ Update([Top EXCEPT !.todo = Tail(@)]) \/ Update([Top EXCEPT !.phase = "descend", !.todo = Top.list])
      BY <1>8 DEF CountNothing, CountFile, EndOfCount, given, In, Skip, NextFile
    <2>2. ~Still
      BY <1>a, <2>1 DEF Drawn
    <2>3. Running' => Running
      BY <2>1 DEF Running
    <2>4. Still' => Still
      BY <2>1, <2>3 DEF Still, Searchable, Nodes, IsDirectory, Attr
    <2> QED BY <1>0, <2>1, <2>2, <2>3, <2>4, Redrawn DEF Fields
  <1>9. CASE PassOver
    <2>1. /\ UNCHANGED <<tree, opts, pc, cur_depth, sub_dirs, vanished>> /\ stack # <<>>
          /\ Top.phase = "descend" /\ Update([Top EXCEPT !.todo = Tail(@)])
          /\ Top.todo # <<>> /\ Head(Top.todo) = Dot
      BY <1>9 DEF PassOver, given, In, NextFile, File
    <2>2. ~Still
      <3> SUFFICES ASSUME Still PROVE FALSE
        OBVIOUS
      <3>1. Top.todo \in Seq(Subdirs(tree, cwd))
        BY <1>a, <2>1 DEF Drawn
      <3>2. Head(Top.todo) \in Subdirs(tree, cwd)
        BY <2>1, <3>1
      <3> QED BY <1>b, <2>1, <3>2
    <2> QED BY <1>0, <1>c, <2>1, <2>2, Redrawn DEF Fields, Running
  <1>10. CASE Descend
    <2> DEFINE f == [Top EXCEPT !.todo = Tail(@)]
    <2>1. /\ UNCHANGED <<tree, opts, pc, cur_depth, vanished>> /\ stack # <<>>
          /\ Update(f) /\ Top.phase = "descend" /\ Top.todo # <<>>
          /\ stb' = Stat(cwd, Head(Top.todo)) /\ Branch(stb')
      BY <1>10 DEF Descend, given, In, NextFile, File, Visits
    <2>2. /\ Fields(f) /\ f.phase = "descend" /\ f.dir = Top.dir
          /\ f.list = Top.list /\ f.todo = Tail(Top.todo)
      BY <1>0, <2>1 DEF Fields
    <2> HIDE DEF f
    <2>3. Still => Drawn(f, sub_dirs'[Len(stack)], tree)
      <3> SUFFICES ASSUME Still PROVE Drawn(f, sub_dirs'[Len(stack)], tree)
        OBVIOUS
      <3>1. /\ Drawn(Top, sub_dirs[Len(stack)], tree) /\ cwd = Top.dir
            /\ Len(stack) \in DOMAIN sub_dirs
        BY <1>a, <2>1
      <3>2. Top.todo \in Seq(Subdirs(tree, cwd)) /\ sub_dirs[Len(stack)] = Len(Top.todo)
        BY <2>1, <3>1 DEF Drawn
      <3>3. /\ Head(Top.todo) \in Subdirs(tree, cwd) /\ Tail(Top.todo) \in Seq(Subdirs(tree, cwd))
            /\ Len(Tail(Top.todo)) = Len(Top.todo) - 1
        BY <2>1, <3>2
      <3>4. IsDirectory(stb')
        BY <1>b, <2>1, <3>3
      <3>5. sub_dirs'[Len(stack)] = Len(Tail(Top.todo))
        BY <1>0, <2>1, <3>1, <3>2, <3>3, <3>4 DEF Branch
      <3> QED BY <2>2, <3>1, <3>3, <3>5 DEF Drawn
    <2>4. \A i \in DOMAIN stack : i # Len(stack) => sub_dirs'[i] = sub_dirs[i]
      BY <1>0, <2>1 DEF Branch
    <2> QED BY <1>c, <2>1, <2>2, <2>3, <2>4, Redrawn DEF Running
  <1>11. CASE Leave
    <2>1. /\ stack # <<>> /\ UNCHANGED <<tree, opts, pc, vanished>> /\ stack' = Front(stack)
          /\ cur_depth' = cur_depth - 1 /\ sub_dirs' = [sub_dirs EXCEPT ![cur_depth] = 0]
      BY <1>11 DEF Leave, In, Up, given
    <2>2. PICK S : stack \in Seq(S)
      BY DEF Shape, Calls
    <2>3. DOMAIN stack' = 1 .. Len(stack) - 1 /\ \A i \in 1 .. Len(stack) - 1 : stack'[i] = stack[i]
      <3>1. stack' = SubSeq(stack, 1, Len(stack) - 1) /\ Len(stack) - 1 \in Nat
        BY <1>0, <2>1 DEF Front
      <3>2. Len(stack') = Len(stack) - 1 /\ stack' \in Seq(S)
        BY <1>0, <2>2, <3>1
      <3>3. \A i \in 1 .. Len(stack) - 1 : stack'[i] = stack[i]
        BY <1>0, <2>2, <3>1
      <3>4. DOMAIN stack' = 1 .. Len(stack')
        BY <3>2
      <3>5. DOMAIN stack' = 1 .. Len(stack) - 1
        BY ONLY <3>2, <3>4
      <3> QED BY <3>3, <3>5
    <2>4. \A i \in 1 .. Len(stack) - 1 : sub_dirs'[i] = sub_dirs[i] /\ i \in DOMAIN stack
      <3> DEFINE n == Len(stack)
      <3>1. \A i \in 1 .. n - 1 : i \in 1 .. n /\ i # n
        <4>1. n \in Nat
          BY <1>0
        <4> HIDE DEF n
        <4> QED BY <4>1
      <3>2. \A i \in DOMAIN stack : i # Len(stack) => sub_dirs'[i] = sub_dirs[i]
        BY <1>0, <2>1
      <3> QED BY <1>0, <3>1, <3>2
    <2>5. Running' => Running /\ cur_depth' < MaxVDepth
      BY <1>0, <2>1 DEF Running, BInv
    <2> QED BY <1>c, <2>1, <2>3, <2>4, <2>5 DEF BInv, Fields
  <1>12. ASSUME NEW dir \in Dirs, NEW name \in Names(dir), Vanish(dir, name)
         PROVE  BInv'
    BY <1>12, Vanishes DEF Vanish, BInv, walk, Still, Running
  <1>13. CASE UNCHANGED vars
    BY <1>c, <1>d, <1>13 DEF vars, given, walk, Running
  <1> QED BY <1>1, <1>2, <1>3, <1>4, <1>5, <1>6, <1>7, <1>8, <1>9, <1>10, <1>11, <1>12, <1>13
          DEF Next, Step, Dirs

LEMMA InitBInv == Init => BInv
  <1> SUFFICES ASSUME Init PROVE BInv
    OBVIOUS
  <1>1. stack = <<>> /\ DOMAIN stack = {} /\ vanished = 0 /\ cur_depth = 0
    BY DEF Init
  <1> QED BY <1>1, VtreeAssumption DEF BInv

\* With a visual display sub_dirs holds the branches that remain to be drawn below each
\* directory that is open (down, vtree.c), while nothing goes and chdir works.
THEOREM BranchesAreLeft == Spec => []BranchesLeft
  <1>1. BInv => BranchesLeft
    <2> SUFFICES ASSUME BInv, Still, NEW i \in DOMAIN stack
                 PROVE  sub_dirs[i] = IF stack[i].phase = "read" THEN 0 ELSE Len(stack[i].todo)
      BY DEF BranchesLeft, Still
    <2> QED BY DEF BInv, Drawn
  <1> QED BY <1>1, Invariance, InitBInv, BStep, PTL DEF Spec

-----------------------------------------------------------------------------
(* Every file that could be seen is counted *)

Whole == ~Selective /\ vanished = 0 /\ Searchable

\* down opens the directory when n calls of it are open.
Opens(dir, n) ==
    /\ IsDirectory(dir) /\ Attr(dir).read
    /\ n < tree.fds
    /\ opts.sum \/ n < opts.depth

\* The nodes that the walk owes nothing more.
Safe == {n \in Nodes : IsDirectory(n) \/ Accounted(n)}

\* R holds directories with the number of calls open above them: each that can be opened
\* has only entries that are safe, and R goes on with the directories among them.
Closed(R) ==
    \A d \in Dirs, n \in Nat :
        <<d, n>> \in R /\ Opens(d, n) =>
            \A name \in Listed(tree, d) :
                /\ tree.entries[d][name] \in Safe
                /\ IsDirectory(tree.entries[d][name]) => <<tree.entries[d][name], n + 1>> \in R

\* The directories that the walk is through with.
Covered == UNION {R \in SUBSET (Dirs \X Nat) : Closed(R)}

LEMMA CoveredClosed == Closed(Covered)
  <1>1. \A R \in SUBSET (Dirs \X Nat) : Closed(R) => R \subseteq Covered
    BY DEF Covered
  <1> SUFFICES ASSUME NEW d \in Dirs, NEW n \in Nat, <<d, n>> \in Covered, Opens(d, n),
                      NEW name \in Listed(tree, d)
               PROVE  /\ tree.entries[d][name] \in Safe
                      /\ IsDirectory(tree.entries[d][name]) => <<tree.entries[d][name], n + 1>> \in Covered
    BY DEF Closed
  <1>2. PICK R \in SUBSET (Dirs \X Nat) : Closed(R) /\ <<d, n>> \in R
    BY DEF Covered
  <1> QED BY <1>1, <1>2 DEF Closed

\* A directory is through when all that is in it is.
LEMMA CoverUp ==
    ASSUME NEW d \in Dirs, NEW n \in Nat,
           Opens(d, n) =>
               \A name \in Listed(tree, d) :
                   /\ tree.entries[d][name] \in Safe
                   /\ IsDirectory(tree.entries[d][name]) => <<tree.entries[d][name], n + 1>> \in Covered
    PROVE  <<d, n>> \in Covered
  <1> DEFINE R == Covered \cup {<<d, n>>}
  <1>1. R \in SUBSET (Dirs \X Nat)
    BY DEF Covered
  <1>2. Closed(R)
    <2> SUFFICES ASSUME NEW e \in Dirs, NEW m \in Nat, <<e, m>> \in R, Opens(e, m),
                        NEW name \in Listed(tree, e)
                 PROVE  /\ tree.entries[e][name] \in Safe
                        /\ IsDirectory(tree.entries[e][name]) => <<tree.entries[e][name], m + 1>> \in R
      BY DEF Closed
    <2>1. CASE <<e, m>> \in Covered
      BY <2>1, CoveredClosed DEF Closed
    <2>2. CASE <<e, m>> = <<d, n>>
      <3>1. e = d /\ m = n
        BY <2>2
      <3> QED BY <3>1
    <2> QED BY <2>1, <2>2
  <1>3. <<d, n>> \in R
    OBVIOUS
  <1> HIDE DEF R
  <1> QED BY <1>1, <1>2, <1>3 DEF Covered

\* What is safe or through stays so.
LEMMA Grows ==
    ASSUME UNCHANGED <<tree, opts>>, \A g \in Nodes : counted[g] > 0 => counted'[g] > 0
    PROVE  Safe \subseteq Safe' /\ Covered \subseteq Covered'
  <1>1. Nodes' = Nodes /\ Dirs' = Dirs /\ Files' = Files /\ Files \subseteq Nodes
    BY DEF Nodes, Dirs, Files, IsDirectory, Attr
  <1>2. \A f : Accounted(f) => Accounted(f)'
    BY <1>1 DEF Accounted, Device, Key, Attr
  <1>3. Safe \subseteq Safe'
    BY <1>1, <1>2 DEF Safe, IsDirectory, Attr
  <1>4. \A R : Closed(R) => Closed(R)'
    BY <1>1, <1>3 DEF Closed, Opens, Listed, IsDirectory, Attr
  <1> QED BY <1>1, <1>3, <1>4 DEF Covered

\* The node that is being gone into from level n: the directory of the next call that is
\* open, or the directory that down has been called with.
GoingTo(n) ==
    IF n < Len(stack) THEN {stack[n + 1].dir}
    ELSE IF pending # NoName /\ Exists(cwd, pending) /\ IsDirectory(Lookup(cwd, pending))
         THEN {Lookup(cwd, pending)}
    ELSE {}

\* How far the call f at level n has come in the file system t: S are the nodes that are
\* safe, C the directories that are through, going those being gone into.
Walked(f, n, t, S, C, going) ==
    LET node(name) == t.entries[f.dir][name]
    IN \/ /\ f.phase = "read"
          /\ f.unread = Listed(t, f.dir) \cup {Dot}
       \/ /\ f.phase = "count"
          /\ f.list \in Seq(Nat) /\ ToSet(f.list) = Listed(t, f.dir) \cup {Dot}
          /\ f.todo \in Seq(Listed(t, f.dir) \cup {Dot})
          /\ \A name \in Listed(t, f.dir) : name \in ToSet(f.todo) \/ node(name) \in S
       \/ /\ f.phase = "descend"
          /\ f.todo \in Seq(Listed(t, f.dir) \cup {Dot})
          /\ \A name \in Listed(t, f.dir) :
                /\ node(name) \in S
                /\ t.node[node(name)].dir =>
                      name \in ToSet(f.todo) \/ <<node(name), n>> \in C \/ node(name) \in going

ArgsWalked ==
    \A k \in 1 .. arg - 1 :
        LET node == Lookup(tree.top, args[k])
        IN Exists(tree.top, args[k]) /\ IsDirectory(node) => <<node, 0>> \in Covered \/ node \in GoingTo(0)

\* A key is in a table because a file that has it was counted.
TableMeans ==
    \A d \in DOMAIN table : \A k \in table[d] :
        \E g \in Files : counted[g] > 0 /\ Device(g) = d /\ Key(g) = k

CInv ==
    /\ pc \in {"args", "done"} => stack = <<>> /\ pending = NoName
    /\ args \in Seq(Nat) /\ arg \in Nat \ {0}
    /\ pc = "args" => arg <= Len(args)
    /\ pc = "done" => arg > Len(args)
    /\ Whole =>
         /\ TableMeans /\ ArgsWalked
         /\ \A i \in DOMAIN stack : Walked(stack[i], i, tree, Safe, Covered, GoingTo(i))

LEMMA InitCInv == Init => CInv
  <1> SUFFICES ASSUME Init PROVE CInv
    OBVIOUS
  <1>1. args \in Seq(Nat) /\ args # <<>> /\ stack = <<>> /\ DOMAIN stack = {} /\ arg = 1
        /\ pending = NoName /\ pc = "args" /\ table = <<>>
    BY VtreeAssumption DEF Init
  <1>2. DOMAIN table = {}
    BY <1>1
  <1>3. 1 <= Len(args)
    BY <1>1
  <1> QED BY <1>1, <1>2, <1>3 DEF CInv, TableMeans, ArgsWalked

LEMMA WalkedOn ==
    ASSUME NEW f, NEW n, NEW t, NEW S, NEW C, NEW going, NEW S2, NEW C2, NEW going2,
           Walked(f, n, t, S, C, going), S \subseteq S2, C \subseteq C2,
           \A e \in going : e \in going2 \/ <<e, n>> \in C2
    PROVE  Walked(f, n, t, S2, C2, going2)
  BY DEF Walked

\* A stat in the directory itself.
LEMMA Looked ==
    ASSUME Shape, NEW dir \in Dirs
    PROVE  /\ Dot \notin Listed(tree, dir) /\ Listed(tree, dir) \subseteq Nat \ {Dot}
           /\ Stat(dir, Dot) = dir /\ IsDirectory(dir) /\ dir \in Nodes
           /\ \A name \in Listed(tree, dir) :
                 /\ Exists(dir, name) /\ Lookup(dir, name) = tree.entries[dir][name]
                 /\ Stat(dir, name) = tree.entries[dir][name]
                 /\ tree.entries[dir][name] \in Nodes
  BY DEF Shape, WellFormed, Listed, Names, Dirs, Stat, Exists, Lookup, Nodes, IsDirectory, Attr, Dot

LEMMA DirNode ==
    ASSUME Shape
    PROVE  Dirs \subseteq Nodes /\ \A n \in Nodes : IsDirectory(n) <=> n \in Dirs
  BY DEF Shape, WellFormed, Dirs, Nodes, IsDirectory, Attr

\* The call on top goes on.
LEMMA Rewalked ==
    ASSUME IInv, CInv, Whole, stack # <<>>, pending = NoName,
           UNCHANGED <<tree, opts, args, arg, cwd>>, pc' \notin {"args", "done"},
           NEW f, Update(f), f.dir = Top.dir,
           \A g \in Nodes : counted[g] > 0 => counted'[g] > 0,
           TableMeans',
           Walked(f, Len(stack), tree, Safe', Covered', GoingTo(Len(stack))')
    PROVE  CInv'
  <1>1. /\ Len(stack) \in Nat /\ Len(stack) # 0 /\ DOMAIN stack = 1 .. Len(stack)
        /\ Len(stack) \in DOMAIN stack /\ Top = stack[Len(stack)]
    BY Stacked DEF IInv
  <1>2. /\ Len(stack') = Len(stack) /\ DOMAIN stack' = DOMAIN stack
        /\ \A i \in DOMAIN stack : stack'[i] = IF i = Len(stack) THEN f ELSE stack[i]
    <2>1. PICK S : stack \in Seq(S)
      BY DEF IInv, Shape, Calls
    <2> QED BY <2>1 DEF Update
  <1>3. \A i \in DOMAIN stack : stack'[i].dir = stack[i].dir
    BY <1>1, <1>2
  <1>4. \A n \in 0 .. Len(stack) - 1 : GoingTo(n)' = GoingTo(n)
    <2> TAKE n \in 0 .. Len(stack) - 1
    <2>1. n + 1 \in DOMAIN stack /\ n < Len(stack)
      <3>1. n + 1 \in 1 .. Len(stack) /\ n < Len(stack)
        <4>1. Len(stack) \in Nat
          BY <1>1
        <4> QED BY <4>1
      <3> QED BY <1>1, <3>1
    <2>2. GoingTo(n) = {stack[n + 1].dir}
      BY <2>1 DEF GoingTo
    <2>3. GoingTo(n)' = {stack'[n + 1].dir}
      BY <1>2, <2>1 DEF GoingTo
    <2> QED BY <1>3, <2>1, <2>2, <2>3
  <1>5. Safe \subseteq Safe' /\ Covered \subseteq Covered'
    BY Grows
  <1>6. ArgsWalked'
    <2>1. ArgsWalked
      BY DEF CInv
    <2>2. GoingTo(0)' = GoingTo(0)
      <3>1. 0 \in 0 .. Len(stack) - 1
        <4>1. Len(stack) \in Nat /\ Len(stack) # 0
          BY <1>1
        <4> QED BY <4>1
      <3> QED BY <1>4, <3>1
    <2> QED BY <1>5, <2>1, <2>2 DEF ArgsWalked, Lookup, Exists, IsDirectory, Attr, Names
  <1>7. ASSUME NEW i \in DOMAIN stack
        PROVE  Walked(stack'[i], i, tree, Safe', Covered', GoingTo(i)')
    <2>1. CASE i = Len(stack)
      BY <1>2, <2>1
    <2>2. CASE i # Len(stack)
      <3>1. Walked(stack[i], i, tree, Safe, Covered, GoingTo(i))
        BY DEF CInv
      <3>2. i \in 0 .. Len(stack) - 1
        <4>1. Len(stack) \in Nat /\ i \in 1 .. Len(stack)
          BY <1>1
        <4> HIDE DEF Walked
        <4> QED BY <2>2, <4>1
      <3>3. stack'[i] = stack[i] /\ GoingTo(i)' = GoingTo(i)
        BY <1>2, <1>4, <2>2, <3>2
      <3> QED BY <1>5, <3>1, <3>3, WalkedOn
    <2> QED BY <2>1, <2>2
  <1> QED BY <1>2, <1>6, <1>7 DEF CInv

\* The arguments are taken one after the other, each from nothing.
Plain ==
    /\ pc \in {"args", "done"} => stack = <<>> /\ pending = NoName
    /\ args \in Seq(Nat) /\ arg \in Nat \ {0}
    /\ pc = "args" => arg <= Len(args)
    /\ pc = "done" => arg > Len(args)

LEMMA PlainStep == IInv /\ Plain /\ [Next]_vars => Plain'
  <1> SUFFICES ASSUME IInv, Plain, [Next]_vars PROVE Plain'
    OBVIOUS
  <1>0. Len(args) \in Nat /\ arg \in Nat \ {0} /\ pc \in {"args", "walk", "done", "undefined"}
    BY DEF Plain, IInv, TypeOK
  <1>1. CASE NextArgument
    BY <1>0, <1>1 DEF NextArgument, Plain, given
  <1>2. CASE ArgumentDone
    BY <1>0, <1>2 DEF ArgumentDone, Plain, given, walk
  <1>3. CASE Return \/ Open \/ CountFile
    BY <1>3 DEF Return, Open, CountFile, In, Plain, given
  <1>4. ASSUME pc' = pc, pc = "walk", UNCHANGED <<args, arg>> PROVE Plain'
    BY <1>4 DEF Plain
  <1>5. ASSUME UNCHANGED <<args, arg, pc, stack, pending>> PROVE Plain'
    BY <1>5 DEF Plain
  <1> QED BY <1>1, <1>2, <1>3, <1>4, <1>5
          DEF Next, Step, vars, given, walk, ReadAll, ReadEntry, EndOfDirectory, CountNothing,
              EndOfCount, PassOver, Descend, Leave, In, Vanish

LEMMA Parts ==
    CInv <=> /\ Plain
             /\ Whole =>
                  /\ TableMeans /\ ArgsWalked
                  /\ \A i \in DOMAIN stack : Walked(stack[i], i, tree, Safe, Covered, GoingTo(i))
  BY DEF CInv, Plain

\* The first name of a list, and the others.
LEMMA Shorter ==
    ASSUME NEW T, NEW s \in Seq(T), s # <<>>
    PROVE  /\ Head(s) \in T /\ Head(s) \in ToSet(s) /\ Tail(s) \in Seq(T)
           /\ \A x \in ToSet(s) : x = Head(s) \/ x \in ToSet(Tail(s))
  <1>1. /\ Head(s) \in T /\ Tail(s) \in Seq(T) /\ Len(s) \in Nat \ {0} /\ Head(s) = s[1]
        /\ Len(Tail(s)) = Len(s) - 1 /\ DOMAIN s = 1 .. Len(s)
        /\ DOMAIN Tail(s) = 1 .. Len(s) - 1
    OBVIOUS
  <1>2. \A i \in 1 .. Len(s) - 1 : Tail(s)[i] = s[i + 1]
    BY <1>1
  <1>3. 1 \in DOMAIN s
    BY <1>1
  <1>4. ASSUME NEW i \in DOMAIN s, i # 1 PROVE s[i] \in ToSet(Tail(s))
    <2>1. i - 1 \in 1 .. Len(s) - 1 /\ (i - 1) + 1 = i
      BY <1>1, <1>4
    <2>2. s[i] = Tail(s)[i - 1] /\ i - 1 \in DOMAIN Tail(s)
      BY <1>1, <1>2, <2>1
    <2> QED BY <2>2 DEF ToSet
  <1> QED BY <1>1, <1>3, <1>4 DEF ToSet

LEMMA CStep == IInv /\ BInv /\ CInv /\ [Next]_vars => CInv'
  <1> SUFFICES ASSUME IInv, BInv, CInv, [Next]_vars, Whole' PROVE CInv'
    BY PlainStep DEF CInv, Plain
  <1>p. Plain /\ Plain'
    BY PlainStep, Parts
  <1>0. /\ Shape /\ TypeOK /\ AtHome /\ Entered /\ vanished \in Nat
        /\ counted \in [Nodes -> Nat] /\ stb \in Nodes /\ stb' \in Nodes'
    BY NextIInv DEF IInv, BInv, TypeOK
  <1>n. ASSUME NEW dir, NEW name, Vanish(dir, name) PROVE FALSE
    BY <1>0, <1>n DEF Vanish, Whole
  <1>t. UNCHANGED <<tree, opts, args, vanished>>
    BY <1>n DEF Next, Step, vars, given, NextArgument, ArgumentDone, Return, Open, ReadAll,
           ReadEntry, EndOfDirectory, CountNothing, CountFile, EndOfCount, PassOver, Descend, Leave
  <1>w. Whole /\ ~Selective /\ Searchable
    BY <1>t DEF Whole, Selective, Searchable, Nodes, IsDirectory, Attr
  <1>m. TableMeans /\ ArgsWalked
        /\ \A i \in DOMAIN stack : Walked(stack[i], i, tree, Safe, Covered, GoingTo(i))
    BY <1>w DEF CInv
  <1>s. /\ Len(stack) \in Nat /\ DOMAIN stack = 1 .. Len(stack) /\ cur_depth = Len(stack)
        /\ \A i \in DOMAIN stack : Frame(stack[i]) /\ Fields(stack[i])
        /\ cwd \in Dirs /\ cwd = Home(Len(stack))
    BY <1>0, <1>w, Stacked DEF BInv, AtHome, Shape
  <1>h. stack # <<>> => /\ Len(stack) \in DOMAIN stack /\ Top = stack[Len(stack)]
                       /\ Frame(Top) /\ Fields(Top) /\ Len(stack) # 0
                       /\ cwd = Top.dir
                       /\ Walked(Top, Len(stack), tree, Safe, Covered, GoingTo(Len(stack)))
    BY <1>0, <1>s, <1>m, Stacked DEF Home
  <1>l. /\ Dot \notin Listed(tree, cwd) /\ Listed(tree, cwd) \subseteq Nat \ {Dot}
        /\ Stat(cwd, Dot) = cwd /\ IsDirectory(cwd) /\ cwd \in Nodes
        /\ \A name \in Listed(tree, cwd) :
                 /\ Exists(cwd, name) /\ Lookup(cwd, name) = tree.entries[cwd][name]
                 /\ Stat(cwd, name) = tree.entries[cwd][name]
                 /\ tree.entries[cwd][name] \in Nodes
    BY <1>0, <1>s, Looked
  <1>g. ASSUME counted' = counted
        PROVE  /\ \A k \in Nodes : counted[k] > 0 => counted'[k] > 0
               /\ Safe' = Safe /\ Covered' = Covered
    BY <1>g, <1>t DEF Safe, Covered, Closed, Opens, Nodes, Dirs, Accounted, Files, Listed, IsDirectory, Attr, Device, Key
  <1>k. ASSUME table' = table, \A k \in Nodes : counted[k] > 0 => counted'[k] > 0
        PROVE  TableMeans'
    <2>1. Files' = Files /\ Files \subseteq Nodes /\ \A k : Device(k)' = Device(k) /\ Key(k)' = Key(k)
      BY <1>t DEF Files, Nodes, IsDirectory, Attr, Device, Key
    <2> QED BY <1>k, <1>m, <2>1 DEF TableMeans
  <1>c. ASSUME NEW k \in Nodes, Count(k) \/ UNCHANGED counted
        PROVE  \A n \in Nodes : counted[n] > 0 => counted'[n] > 0
    <2>1. \A n \in Nodes : counted[n] \in Nat
      BY <1>0
    <2>2. \A n \in Nodes : counted'[n] = counted[n] \/ counted'[n] = counted[n] + 1
      BY <1>0, <1>c DEF Count
    <2> QED BY <2>1, <2>2
  <1>a. ASSUME UNCHANGED arg, NEW C, C = Covered', Covered \subseteq C, \A e \in GoingTo(0) : e \in GoingTo(0)' \/ <<e, 0>> \in C
        PROVE  ArgsWalked'
    BY <1>a, <1>t, <1>m DEF ArgsWalked, Exists, Lookup, IsDirectory, Attr, Names
  <1>u. ASSUME UNCHANGED <<arg, stack, pending, cwd, table, counted>>
        PROVE  CInv'
    <2>1. \A n : GoingTo(n)' = GoingTo(n)
      BY <1>u, <1>t DEF GoingTo, Exists, Lookup, Names, IsDirectory, Attr
    <2>2. TableMeans' /\ ArgsWalked'
      BY <1>u, <1>a, <1>g, <1>k, <2>1
    <2> QED BY <1>u, <1>t, <1>m, <1>p, <1>g, <2>1, <2>2 DEF CInv, Plain
  <1>1. CASE NextArgument
    <2>1. /\ pc = "args" /\ stack' = stack /\ arg' = arg + 1 /\ table' = table /\ cwd' = tree.top
          /\ Visits(tree.top, args[arg], 0)
      BY <1>1 DEF NextArgument
    <2>2. stack = <<>> /\ pending = NoName /\ Len(stack) = 0 /\ arg \in 1 .. Len(args)
          /\ args[arg] \in Nat /\ args[arg] # NoName
      BY <1>p, <2>1 DEF Plain, NoName
    <2>3. /\ stb' = Stat(tree.top, args[arg])
          /\ Count(stb') \/ UNCHANGED counted
          /\ IsDirectory(stb') => pending' = args[arg]
      BY <2>1 DEF Visits
    <2>4. \A n \in Nodes : counted[n] > 0 => counted'[n] > 0
      BY <1>0, <1>c, <1>t, <2>3 DEF Nodes
    <2>5. Covered \subseteq Covered' /\ TableMeans'
      BY <1>k, <1>t, <2>1, <2>4, Grows
    <2>6. GoingTo(0) = {}
      BY <2>2 DEF GoingTo
    <2>7. ASSUME NEW k \in 1 .. arg, Exists(tree.top, args[k]), IsDirectory(Lookup(tree.top, args[k]))
          PROVE  <<Lookup(tree.top, args[k]), 0>> \in Covered' \/ Lookup(tree.top, args[k]) \in GoingTo(0)'
      <3>1. CASE k = arg
        <4>1. stb' = Lookup(tree.top, args[arg]) /\ pending' = args[arg] /\ IsDirectory(Lookup(tree.top, args[arg]))
          BY <2>3, <2>7, <3>1 DEF Stat
        <4>2. GoingTo(0)' = {Lookup(tree.top, args[arg])}
          <5>1. ~(0 < Len(stack))' /\ pending' # NoName
            BY <2>1, <2>2, <4>1
          <5>2. Exists(cwd, pending)' /\ Lookup(cwd, pending)' = Lookup(tree.top, args[arg])
            BY <1>t, <2>1, <2>7, <3>1, <4>1 DEF Exists, Lookup, Names
          <5>3. IsDirectory(Lookup(cwd, pending))'
            BY <1>t, <2>7, <3>1, <5>2 DEF IsDirectory, Attr
          <5> QED BY <5>1, <5>2, <5>3 DEF GoingTo
        <4> QED BY <3>1, <4>2
      <3>2. CASE k # arg
        <4>1. k \in 1 .. arg - 1
          BY <1>p, <2>7, <3>2 DEF Plain
        <4> QED BY <1>m, <2>5, <2>6, <2>7, <4>1 DEF ArgsWalked
      <3> QED BY <3>1, <3>2
    <2>8. ArgsWalked'
      <3>1. arg' - 1 = arg
        BY <1>p, <2>1 DEF Plain
      <3> QED BY <1>t, <2>7, <3>1 DEF ArgsWalked, Exists, Lookup, IsDirectory, Attr, Names
    <2>9. DOMAIN stack' = {}
      BY <2>1, <2>2
    <2> QED BY <1>p, <2>5, <2>8, <2>9 DEF CInv, Plain
  <1>2. CASE ArgumentDone
    BY <1>2, <1>u DEF ArgumentDone, walk
  <1>3. CASE Return
    <2>1. /\ UNCHANGED <<arg, stack, cwd, table, counted>> /\ pending' = NoName
          /\ Hidden \/ ~Readable(pending)
      BY <1>3 DEF Return, sums
    <2>2. Safe' = Safe /\ Covered' = Covered /\ TableMeans'
      BY <1>g, <1>k, <2>1
    <2>3. \A n : n < Len(stack) => GoingTo(n)' = GoingTo(n)
      BY <2>1 DEF GoingTo
    <2>4. ASSUME NEW e \in GoingTo(Len(stack)) PROVE <<e, Len(stack)>> \in Covered
      <3>1. /\ ~(Len(stack) < Len(stack)) /\ Len(stack) \in Nat
        BY <1>s
      <3>2. e = Lookup(cwd, pending) /\ Exists(cwd, pending) /\ IsDirectory(e)
        BY <2>4, <3>1 DEF GoingTo
      <3>3. e \in Dirs
        <4>1. e \in Nodes
          BY <1>l, <3>2 DEF Exists, Lookup, Names, Listed
        <4> QED BY <1>0, <3>2, <4>1, DirNode
      <3>4. ~Opens(e, Len(stack))
        <4>1. CASE ~Readable(pending)
          BY <3>2, <4>1 DEF Readable, Opens
        <4>2. CASE Hidden
          <5>1. ~opts.sum /\ ~(Len(stack) < opts.depth)
            BY <1>s, <4>2 DEF Hidden
          <5> QED BY <5>1 DEF Opens
        <4> QED BY <2>1, <4>1, <4>2
      <3> QED BY <3>1, <3>3, <3>4, CoverUp
    <2>5. ASSUME NEW n \in 0 .. Len(stack), NEW e \in GoingTo(n) PROVE e \in GoingTo(n)' \/ <<e, n>> \in Covered'
      <3>1. n < Len(stack) \/ n = Len(stack)
        <4>1. Len(stack) \in Nat
          BY <1>s
        <4> QED BY <4>1
      <3> QED BY <2>2, <2>3, <2>4, <2>5, <3>1
    <2>6. ArgsWalked'
      <3>1. 0 \in 0 .. Len(stack)
        BY <1>s
      <3> QED BY <1>a, <2>1, <2>2, <2>5, <3>1
    <2>7. \A i \in DOMAIN stack : Walked(stack[i], i, tree, Safe', Covered', GoingTo(i)')
      <3> TAKE i \in DOMAIN stack
      <3>1. i \in 0 .. Len(stack)
        <4>1. i \in 1 .. Len(stack) /\ Len(stack) \in Nat
          BY <1>s
        <4> QED BY <4>1
      <3>2. Walked(stack[i], i, tree, Safe, Covered, GoingTo(i))
        BY <1>m
      <3>3. \A e \in GoingTo(i) : e \in GoingTo(i)' \/ <<e, i>> \in Covered'
        BY <2>5, <3>1
      <3> QED BY <2>2, <3>2, <3>3, WalkedOn
    <2> QED BY <1>p, <1>t, <2>1, <2>2, <2>6, <2>7 DEF CInv, Plain
  <1>4. CASE Open
    <2> DEFINE dir == Lookup(cwd, pending)
               f == [dir |-> dir, phase |-> "read", list |-> <<>>, todo |-> <<>>, back |-> cwd,
                     unread |-> Names(dir) \cup (IF Selective THEN {} ELSE {Dot})]
    <2>1. /\ stack' = Append(stack, f) /\ UNCHANGED <<arg, table, counted>> /\ Readable(pending)
          /\ pending # NoName
      BY <1>4 DEF Open, sums
    <2>2. f.phase = "read" /\ f.dir = dir /\ f.unread = Listed(tree, dir) \cup {Dot}
      BY <1>w DEF Listed, Names
    <2> HIDE DEF f
    <2>3. Safe' = Safe /\ Covered' = Covered /\ TableMeans'
      BY <1>g, <1>k, <2>1
    <2>4. PICK S : stack \in Seq(S)
      BY <1>0 DEF Shape, Calls
    <2>5. /\ DOMAIN stack' = 1 .. Len(stack) + 1 /\ Len(stack') = Len(stack) + 1
          /\ \A i \in 1 .. Len(stack) + 1 : stack'[i] = IF i = Len(stack) + 1 THEN f ELSE stack[i]
      BY <1>s, <2>1, <2>4
    <2>6. \A n \in 0 .. Len(stack) : GoingTo(n)' = GoingTo(n)
      <3> TAKE n \in 0 .. Len(stack)
      <3> DEFINE l == Len(stack)
      <3>0. l \in Nat
        BY <1>s
      <3>1. n + 1 \in 1 .. l + 1 /\ n < l + 1 /\ n \in Int /\ (n + 1 = l + 1 <=> n = l)
        BY <3>0
      <3>2. GoingTo(n)' = {IF n = Len(stack) THEN dir ELSE stack[n + 1].dir}
        BY <2>2, <2>5, <3>1 DEF GoingTo
      <3>3. CASE n = Len(stack)
        <4>1. ~(n < Len(stack))
          BY <3>0, <3>3
        <4>2. Exists(cwd, pending) /\ IsDirectory(Lookup(cwd, pending))
          BY <2>1 DEF Readable
        <4> QED BY <2>1, <3>2, <3>3, <4>1, <4>2 DEF GoingTo
      <3>4. CASE n # Len(stack)
        <4>1. n < Len(stack)
          <5> HIDE DEF l
          <5>1. n # l
            BY <3>4 DEF l
          <5>2. n < l
            BY <3>0, <3>1, <5>1
          <5> QED BY <5>2 DEF l
        <4> QED BY <3>2, <3>4, <4>1 DEF GoingTo
      <3> QED BY <3>3, <3>4
    <2>7. ArgsWalked'
      <3>1. 0 \in 0 .. Len(stack)
        BY <1>s
      <3> QED BY <1>a, <2>1, <2>3, <2>6, <3>1
    <2>8. \A i \in DOMAIN stack' : Walked(stack'[i], i, tree, Safe', Covered', GoingTo(i)')
      <3> SUFFICES ASSUME NEW i \in 1 .. Len(stack) + 1
                   PROVE  Walked(stack'[i], i, tree, Safe', Covered', GoingTo(i)')
        BY <2>5
      <3>1. CASE i = Len(stack) + 1
        BY <2>2, <2>5, <3>1 DEF Walked
      <3>2. CASE i # Len(stack) + 1
        <4>1. i \in DOMAIN stack /\ i \in 0 .. Len(stack)
          <5>1. Len(stack) \in Nat
            BY <1>s
          <5>2. i \in 1 .. Len(stack)
            BY <3>2, <5>1
          <5> QED BY <1>s, <5>1, <5>2
        <4> QED BY <1>m, <2>3, <2>5, <2>6, <3>2, <4>1
      <3> QED BY <3>1, <3>2
    <2> QED BY <1>p, <1>t, <2>3, <2>7, <2>8 DEF CInv, Plain
  <1>q. ASSUME stack # <<>>, pending = NoName, Top.phase = "count" \/ Top.phase = "descend"
        PROVE  /\ Top.todo \in Seq(Listed(tree, cwd) \cup {Dot})
               /\ Top.todo # <<>> =>
                    /\ Head(Top.todo) \in Listed(tree, cwd) \cup {Dot}
                    /\ Tail(Top.todo) \in Seq(Listed(tree, cwd) \cup {Dot})
                    /\ \A x \in ToSet(Top.todo) : x = Head(Top.todo) \/ x \in ToSet(Tail(Top.todo))
               /\ GoingTo(Len(stack)) = {}
    <2>1. Top.todo \in Seq(Listed(tree, cwd) \cup {Dot})
      BY <1>h, <1>q DEF Walked
    <2>2. ~(Len(stack) < Len(stack))
      BY <1>s
    <2> QED BY <1>q, <2>1, <2>2, Shorter DEF GoingTo
  <1>5. CASE ReadAll
    <2>1. PICK list \in SetToSeqs(Top.unread) :
             Update([Top EXCEPT !.phase = "count", !.unread = {},
                                          !.list = Sorted(list), !.todo = Sorted(list)])
      BY <1>5 DEF ReadAll
    <2> DEFINE f == [Top EXCEPT !.phase = "count", !.unread = {},
                                          !.list = Sorted(list), !.todo = Sorted(list)]
    <2>2. /\ UNCHANGED <<arg, pc, cwd, table, counted>> /\ stack # <<>> /\ pending = NoName /\ pc = "walk"
          /\ Top.phase = "read"
      BY <1>5 DEF ReadAll, In, sums
    <2>3. f.phase = "count" /\ f.dir = Top.dir /\ f.list = Sorted(list) /\ f.todo = Sorted(list)
      BY <1>h, <2>2 DEF Fields
    <2>4. Top.unread = Listed(tree, cwd) \cup {Dot}
      BY <1>h, <2>2 DEF Walked
    <2>5. IsFiniteSet(Top.unread) /\ Top.unread \subseteq Nat
      <3>1. IsFiniteSet(Listed(tree, cwd))
        BY <1>0, <1>s DEF Shape, WellFormed, Listed, Dirs
      <3> QED BY <1>l, <2>4, <3>1, FS_AddElement DEF Dot
    <2>6. list \in Seq(Top.unread) /\ Distinct(list) /\ ToSet(list) = Top.unread
      BY <2>5, Arranged
    <2>7. list \in Seq(Nat)
      BY <2>5, <2>6
    <2>8. Sorted(list) \in Seq(Top.unread) /\ ToSet(Sorted(list)) = Top.unread
      BY <2>6, <2>7, SortedList
    <2>9. Sorted(list) \in Seq(Nat)
      BY <2>5, <2>8
    <2> HIDE DEF f
    <2>10. Walked(f, Len(stack), tree, Safe', Covered', GoingTo(Len(stack))')
      BY <1>h, <2>2, <2>3, <2>4, <2>8, <2>9 DEF Walked
    <2>11. Update(f)
      BY <2>1 DEF f
    <2> QED BY <1>g, <1>k, <1>t, <1>w, <2>2, <2>3, <2>10, <2>11, Rewalked
  <1>6. CASE CountNothing
    <2> DEFINE f == [Top EXCEPT !.todo = Tail(@)]
    <2>1. /\ UNCHANGED <<arg, pc, cwd, pending, table, counted>> /\ stack # <<>> /\ pending = NoName /\ pc = "walk"
          /\ Top.phase = "count" /\ Top.todo # <<>> /\ Update(f)
          /\ stb' = Stat(cwd, Head(Top.todo))
          /\ IsDirectory(stb') \/ OLD(stb')
      BY <1>6 DEF CountNothing, In, sums, File, Skip, NextFile
    <2>2. /\ f.phase = "count" /\ f.dir = Top.dir /\ f.list = Top.list /\ f.todo = Tail(Top.todo)
      BY <1>h, <2>1 DEF Fields
    <2> HIDE DEF f
    <2>3. ASSUME Head(Top.todo) \in Listed(tree, cwd)
          PROVE  tree.entries[cwd][Head(Top.todo)] \in Safe
      <3>1. stb' = tree.entries[cwd][Head(Top.todo)] /\ stb' \in Nodes
        BY <1>l, <2>1, <2>3
      <3>2. CASE IsDirectory(stb')
        BY <3>1, <3>2 DEF Safe
      <3>3. CASE OLD(stb')
        <4>1. Accounted(stb')
          BY <1>m, <3>3 DEF OLD, Known, TableMeans, Accounted
        <4> QED BY <3>1, <4>1 DEF Safe
      <3> QED BY <2>1, <3>2, <3>3
    <2>4. Safe' = Safe /\ Covered' = Covered
      BY <1>g, <2>1
    <2>5. Walked(f, Len(stack), tree, Safe', Covered', GoingTo(Len(stack))')
      BY <1>h, <1>q, <2>1, <2>2, <2>3, <2>4 DEF Walked
    <2> QED BY <1>g, <1>k, <1>t, <1>w, <2>1, <2>2, <2>5, Rewalked
  <1>7. CASE CountFile
    <2> DEFINE f == [Top EXCEPT !.todo = Tail(@)]
    <2>1. /\ UNCHANGED <<arg, cwd, pending>> /\ stack # <<>> /\ pending = NoName /\ pc = "walk"
          /\ pc' \notin {"args", "done"}
          /\ Top.phase = "count" /\ Top.todo # <<>> /\ Update(f)
          /\ stb' = Stat(cwd, Head(Top.todo)) /\ ~IsDirectory(stb') /\ Count(stb') /\ Enter(stb')
      BY <1>7 DEF CountFile, In, File, NextFile
    <2>2. /\ f.phase = "count" /\ f.dir = Top.dir /\ f.list = Top.list /\ f.todo = Tail(Top.todo)
      BY <1>h, <2>1 DEF Fields
    <2> HIDE DEF f
    <2>3. /\ stb' \in Nodes /\ stb' \in Files
      BY <1>0, <1>t, <2>1 DEF Nodes, Files
    <2>4. \A n \in Nodes : counted[n] > 0 => counted'[n] > 0
      BY <1>c, <2>1, <2>3
    <2>5. Safe \subseteq Safe' /\ Covered \subseteq Covered'
      BY <1>t, <2>4, Grows
    <2>6. counted'[stb'] > 0
      BY <1>0, <2>1, <2>3 DEF Count
    <2>7. Files' = Files /\ Files \subseteq Nodes /\ Nodes' = Nodes /\ \A k : Device(k)' = Device(k) /\ Key(k)' = Key(k)
      BY <1>t DEF Files, Nodes, IsDirectory, Attr, Device, Key
    <2>8. stb' \in Safe'
      BY <2>3, <2>6, <2>7 DEF Safe, Accounted
    <2>9. TableMeans'
      <3>1. \A d \in DOMAIN table' : \A k \in table'[d] :
               \/ d \in DOMAIN table /\ k \in table[d]
               \/ d = Device(stb') /\ k = Key(stb')
        BY <2>1 DEF Enter
      <3>2. \A d \in DOMAIN table : \A k \in table[d] :
               \E g \in Files : counted'[g] > 0 /\ Device(g) = d /\ Key(g) = k
        BY <1>m, <2>4, <2>7 DEF TableMeans
      <3>3. \A d \in DOMAIN table' : \A k \in table'[d] :
               \E g \in Files : counted'[g] > 0 /\ Device(g) = d /\ Key(g) = k
        BY <2>3, <2>6, <3>1, <3>2
      <3> QED BY <2>7, <3>3 DEF TableMeans
    <2>10. ASSUME Head(Top.todo) \in Listed(tree, cwd)
           PROVE  tree.entries[cwd][Head(Top.todo)] \in Safe'
      BY <1>l, <2>1, <2>8, <2>10
    <2>11. Walked(f, Len(stack), tree, Safe', Covered', GoingTo(Len(stack))')
      BY <1>h, <1>q, <2>1, <2>2, <2>5, <2>10 DEF Walked
    <2> QED BY <1>t, <1>w, <2>1, <2>2, <2>4, <2>9, <2>11, Rewalked
  <1>8. CASE EndOfCount
    <2> DEFINE f == [Top EXCEPT !.phase = "descend", !.todo = Top.list]
    <2>1. /\ UNCHANGED <<arg, pc, cwd, pending, table, counted>> /\ stack # <<>> /\ pending = NoName /\ pc = "walk"
          /\ Top.phase = "count" /\ Top.todo = <<>> /\ Update(f)
      BY <1>8 DEF EndOfCount, In
    <2>2. /\ f.phase = "descend" /\ f.dir = Top.dir /\ f.todo = Top.list
      BY <1>h, <2>1 DEF Fields
    <2> HIDE DEF f
    <2>3. Safe' = Safe /\ Covered' = Covered /\ ToSet(<<>>) = {}
      BY <1>g, <2>1 DEF ToSet
    <2>4. /\ Top.list \in Seq(Nat) /\ ToSet(Top.list) = Listed(tree, cwd) \cup {Dot}
          /\ \A name \in Listed(tree, cwd) : tree.entries[cwd][name] \in Safe
      BY <1>h, <2>1, <2>3 DEF Walked
    <2>5. Top.list \in Seq(ToSet(Top.list))
      BY <2>4 DEF ToSet
    <2>6. Walked(f, Len(stack), tree, Safe', Covered', GoingTo(Len(stack))')
      BY <1>h, <2>1, <2>2, <2>3, <2>4, <2>5 DEF Walked
    <2> QED BY <1>g, <1>k, <1>t, <1>w, <2>1, <2>2, <2>6, Rewalked
  <1>9. CASE PassOver
    <2> DEFINE f == [Top EXCEPT !.todo = Tail(@)]
    <2>1. /\ UNCHANGED <<arg, pc, cwd, pending, table, counted>> /\ stack # <<>> /\ pending = NoName /\ pc = "walk"
          /\ Top.phase = "descend" /\ Top.todo # <<>> /\ Update(f) /\ Head(Top.todo) = Dot
      BY <1>9 DEF PassOver, In, sums, File, NextFile
    <2>2. /\ f.phase = "descend" /\ f.dir = Top.dir /\ f.todo = Tail(Top.todo)
      BY <1>h, <2>1 DEF Fields
    <2> HIDE DEF f
    <2>3. Safe' = Safe /\ Covered' = Covered
      BY <1>g, <2>1
    <2>4. Walked(f, Len(stack), tree, Safe', Covered', GoingTo(Len(stack))')
      BY <1>h, <1>l, <1>q, <2>1, <2>2, <2>3 DEF Walked
    <2> QED BY <1>g, <1>k, <1>t, <1>w, <2>1, <2>2, <2>4, Rewalked
  <1>10. CASE Descend
    <2> DEFINE f == [Top EXCEPT !.todo = Tail(@)]
    <2>1. /\ UNCHANGED <<arg, pc, cwd, table>> /\ stack # <<>> /\ pending = NoName /\ pc = "walk"
          /\ Top.phase = "descend" /\ Top.todo # <<>> /\ Update(f) /\ Head(Top.todo) # Dot
          /\ stb' = Stat(cwd, Head(Top.todo))
          /\ Count(stb') \/ UNCHANGED counted
          /\ IsDirectory(stb') => pending' = Head(Top.todo)
      BY <1>10 DEF Descend, In, File, NextFile, Visits
    <2>2. /\ f.phase = "descend" /\ f.dir = Top.dir /\ f.todo = Tail(Top.todo)
      BY <1>h, <2>1 DEF Fields
    <2>3. \A n \in Nodes : counted[n] > 0 => counted'[n] > 0
      BY <1>0, <1>c, <1>t, <2>1 DEF Nodes
    <2>4. Safe \subseteq Safe' /\ Covered \subseteq Covered'
      BY <1>t, <2>3, Grows
    <2>5. Head(Top.todo) \in Listed(tree, cwd) /\ stb' = tree.entries[cwd][Head(Top.todo)]
      BY <1>l, <1>q, <2>1
    <2>6. Len(stack') = Len(stack)
      <3>1. PICK S : stack \in Seq(S)
        BY <1>0 DEF Shape, Calls
      <3> QED BY <2>1, <3>1 DEF Update
    <2>7. ASSUME tree.node[stb'].dir PROVE stb' \in GoingTo(Len(stack))'
      <3>1. IsDirectory(stb') /\ pending' = Head(Top.todo) /\ pending' # NoName
        BY <1>l, <2>1, <2>5, <2>7 DEF IsDirectory, Attr, NoName
      <3>2. Exists(cwd, pending)' /\ Lookup(cwd, pending)' = stb'
        BY <1>l, <1>t, <2>1, <2>5, <3>1 DEF Exists, Lookup, Names, Listed
      <3>3. IsDirectory(Lookup(cwd, pending))'
        BY <1>t, <3>1, <3>2 DEF IsDirectory, Attr
      <3>4. ~(Len(stack') < Len(stack'))
        BY <1>s, <2>6
      <3> QED BY <3>1, <3>2, <3>3, <3>4 DEF GoingTo
    <2> HIDE DEF f
    <2>8. Walked(f, Len(stack), tree, Safe', Covered', GoingTo(Len(stack))')
      BY <1>h, <1>q, <2>1, <2>2, <2>4, <2>5, <2>7 DEF Walked
    <2>9. TableMeans'
      BY <1>k, <2>1, <2>3
    <2> QED BY <1>t, <1>w, <2>1, <2>2, <2>3, <2>8, <2>9, Rewalked
  <1>11. CASE Leave
    <2>1. /\ stack # <<>> /\ pending = NoName /\ UNCHANGED <<arg, pc, pending, table, counted>> /\ stack' = Front(stack)
          /\ Top.phase = "descend" /\ Top.todo = <<>>
      BY <1>11 DEF Leave, In, Up
    <2>2. Safe' = Safe /\ Covered' = Covered /\ TableMeans' /\ ToSet(<<>>) = {}
      BY <1>g, <1>k, <2>1 DEF ToSet
    <2>3. PICK S : stack \in Seq(S)
      BY <1>0 DEF Shape, Calls
    <2>4. PICK l \in Nat : l + 1 = Len(stack) /\ l < Len(stack) /\ l = Len(stack) - 1
      <3>1. Len(stack) \in Nat /\ Len(stack) # 0
        BY <1>h, <1>s, <2>1
      <3> QED BY <3>1
    <2>5. /\ DOMAIN stack' = 1 .. l /\ Len(stack') = l /\ \A i \in 1 .. l : stack'[i] = stack[i]
      <3>1. stack' = SubSeq(stack, 1, Len(stack) - 1) /\ Len(stack) - 1 \in Nat
        BY <2>1, <2>4 DEF Front
      <3>2. Len(stack') = Len(stack) - 1 /\ stack' \in Seq(S)
        BY <1>s, <2>3, <3>1
      <3>3. \A i \in 1 .. Len(stack) - 1 : stack'[i] = stack[i]
        BY <1>s, <2>3, <3>1
      <3>4. DOMAIN stack' = 1 .. Len(stack')
        BY <3>2
      <3>5. DOMAIN stack' = 1 .. Len(stack) - 1
        BY ONLY <3>2, <3>4
      <3> QED BY <2>4, <3>2, <3>3, <3>5
    <2>6. <<Top.dir, l>> \in Covered
      <3>1. \A name \in Listed(tree, cwd) :
               /\ tree.entries[cwd][name] \in Safe
               /\ tree.node[tree.entries[cwd][name]].dir =>
                     <<tree.entries[cwd][name], l + 1>> \in Covered
        BY <1>h, <1>q, <2>1, <2>2, <2>4 DEF Walked
      <3>2. \A name \in Listed(tree, cwd) :
               IsDirectory(tree.entries[cwd][name]) =>
                     <<tree.entries[cwd][name], l + 1>> \in Covered
        BY <3>1 DEF IsDirectory, Attr
      <3> QED BY <1>h, <1>s, <2>1, <2>4, <3>1, <3>2, CoverUp
    <2>7. GoingTo(l) = {Top.dir} /\ GoingTo(l)' = {}
      <3>1. GoingTo(l) = {Top.dir}
        BY <1>h, <2>1, <2>4 DEF GoingTo
      <3>2. ~(l < Len(stack'))
        BY <2>4, <2>5
      <3> QED BY <2>1, <3>1, <3>2 DEF GoingTo
    <2>8. ASSUME NEW n \in 0 .. l, n # l PROVE GoingTo(n)' = GoingTo(n)
      <3>1. n \in 0 .. l /\ n # l /\ l \in Nat
        BY <2>8
      <3>2. n + 1 \in 1 .. l /\ n < l /\ n < l + 1
        BY <3>1
      <3>3. n < Len(stack) /\ n < Len(stack') /\ stack'[n + 1] = stack[n + 1]
        BY <2>4, <2>5, <3>2
      <3> QED BY <3>3 DEF GoingTo
    <2>9. ASSUME NEW n \in 0 .. l, NEW e \in GoingTo(n) PROVE e \in GoingTo(n)' \/ <<e, n>> \in Covered'
      <3>1. CASE n = l
        BY <2>2, <2>6, <2>7, <2>9, <3>1
      <3>2. CASE n # l
        BY <2>8, <2>9, <3>2
      <3> QED BY <3>1, <3>2
    <2>10. ArgsWalked'
      <3>1. 0 \in 0 .. l
        BY <2>4
      <3> QED BY <1>a, <2>1, <2>2, <2>9, <3>1
    <2>11. ASSUME NEW i \in 1 .. l
           PROVE  Walked(stack'[i], i, tree, Safe', Covered', GoingTo(i)')
      <3>1. i \in 0 .. l /\ i \in 1 .. l + 1
        BY <2>4
      <3>2. i \in DOMAIN stack
        BY <1>s, <2>4, <3>1
      <3>3. Walked(stack[i], i, tree, Safe, Covered, GoingTo(i))
        BY <1>m, <3>2
      <3>4. \A e \in GoingTo(i) : e \in GoingTo(i)' \/ <<e, i>> \in Covered'
        BY <2>9, <3>1
      <3> QED BY <2>2, <2>5, <3>3, <3>4, WalkedOn
    <2> QED BY <1>p, <1>t, <2>2, <2>5, <2>10, <2>11 DEF CInv, Plain
  <1>12. CASE UNCHANGED vars
    BY <1>12, <1>u DEF vars, walk, sums
  <1> QED BY <1>1, <1>2, <1>3, <1>4, <1>5, <1>6, <1>7, <1>8, <1>9, <1>10, <1>11, <1>12, <1>n, <1>w
          DEF Next, Step, ReadEntry, EndOfDirectory

-----------------------------------------------------------------------------
(* The directories that can be visited are through at the end *)

From == {Lookup(tree.top, a) : a \in {b \in ToSet(args) : Exists(tree.top, b)}}

\* The directories at level n, by those at the levels before.
Level(n, levels) == Openable(IF n = 0 THEN From ELSE UNION {Children(d) : d \in levels[n - 1]})

LEMMA LevelsDef ==
    ASSUME tree.fds \in Nat
    PROVE  \A n \in 0 .. tree.fds : Levels[n] = Level(n, Levels)
  <1> DEFINE fds == tree.fds
             Upto(n, h) == \A k \in 0 .. fds : k <= n => h[k] = Level(k, h)
             T == {n \in Nat : \E h : Upto(n, h)}
  <1>1. 0 \in T
    <2> DEFINE h == [k \in 0 .. fds |-> Openable(From)]
    <2>1. Upto(0, h)
      <3> SUFFICES ASSUME NEW k \in 0 .. fds, k <= 0 PROVE h[k] = Level(k, h)
        OBVIOUS
      <3>1. k = 0
        OBVIOUS
      <3> QED BY <3>1 DEF Level
    <2> HIDE DEF h
    <2> QED BY <2>1
  <1>2. ASSUME NEW n \in T PROVE n + 1 \in T
    <2>1. PICK h : Upto(n, h)
      BY <1>2
    <2>2. n \in Nat /\ n + 1 \in Nat
      BY <1>2
    <2> DEFINE g == [k \in 0 .. fds |-> Level(k, h)]
    <2>3. ASSUME NEW k \in 0 .. fds, k <= n + 1 PROVE g[k] = Level(k, g)
      <3>1. CASE k = 0
        BY <3>1 DEF Level
      <3>2. CASE k # 0
        <4>1. k - 1 \in 0 .. fds /\ k - 1 <= n
          BY <2>2, <2>3, <3>2
        <4>2. g[k - 1] = h[k - 1]
          BY <2>1, <4>1
        <4> QED BY <3>2, <4>2 DEF Level
      <3> QED BY <3>1, <3>2
    <2>4. Upto(n + 1, g)
      BY <2>3
    <2> HIDE DEF g, Upto
    <2> QED BY <2>2, <2>4
  <1> HIDE DEF T
  <1>3. fds \in T
    <2>1. T \subseteq Nat
      BY DEF T
    <2> QED BY <1>1, <1>2, <2>1, Induct
  <1>4. PICK h : Upto(fds, h)
    BY <1>3 DEF T
  <1> DEFINE g == [k \in 0 .. fds |-> h[k]]
  <1>5. ASSUME NEW k \in 0 .. fds PROVE g[k] = Level(k, g)
    <2>1. h[k] = Level(k, h) /\ k \in Nat
      BY <1>4
    <2>2. CASE k = 0
      BY <2>1, <2>2 DEF Level
    <2>3. CASE k # 0
      <3>1. k - 1 \in 0 .. fds
        BY <2>3
      <3> QED BY <2>1, <2>3, <3>1 DEF Level
    <2> QED BY <2>2, <2>3
  <1>6. g = [k \in 0 .. fds |-> Level(k, g)]
    BY <1>5
  <1>7. Levels = CHOOSE l : l = [k \in 0 .. fds |-> Level(k, l)]
    BY DEF Levels, Level, From
  <1> HIDE DEF g
  <1>8. Levels = [k \in 0 .. fds |-> Level(k, Levels)]
    BY <1>6, <1>7
  <1> QED BY <1>8

\* The directories of a level are through when the arguments are.
LEMMA Through ==
    ASSUME Shape, args \in Seq(Nat),
           \A a \in ToSet(args) :
              Exists(tree.top, a) /\ IsDirectory(Lookup(tree.top, a)) => <<Lookup(tree.top, a), 0>> \in Covered
    PROVE  \A n \in Nat : n < tree.fds /\ (opts.sum \/ n < opts.depth) /\ opts.depth \in Nat =>
              \A d \in Levels[n] : <<d, n>> \in Covered /\ Opens(d, n) /\ d \in Dirs
  <1> DEFINE Seen(n) == n < tree.fds /\ (opts.sum \/ n < opts.depth) /\ opts.depth \in Nat
             T == {n \in Nat : Seen(n) => \A d \in Levels[n] : <<d, n>> \in Covered}
  <1>0. tree.fds \in Nat /\ tree.top \in Dirs
    BY DEF Shape, WellFormed, Dirs
  <1>1. \A n \in Nat : n < tree.fds => Levels[n] = Level(n, Levels)
    <2>1. \A n \in Nat : n < tree.fds => n \in 0 .. tree.fds
      BY <1>0
    <2> QED BY <1>0, <2>1, LevelsDef
  <1>2. ASSUME NEW n \in Nat, n < tree.fds, opts.sum \/ n < opts.depth, NEW d \in Levels[n], <<d, n>> \in Covered
        PROVE  Opens(d, n) /\ d \in Dirs
    <2>1. IsDirectory(d) /\ Attr(d).read
      BY <1>1, <1>2 DEF Level, Openable
    <2>2. d \in Dirs
      BY <1>2 DEF Covered
    <2> QED BY <1>2, <2>1, <2>2 DEF Opens
  <1>3. 0 \in T
    <2> SUFFICES ASSUME Seen(0), NEW d \in Levels[0] PROVE <<d, 0>> \in Covered
      OBVIOUS
    <2>1. Levels[0] = Level(0, Levels)
      BY <1>1
    <2>2. d \in From /\ IsDirectory(d)
      BY <2>1 DEF Level, Openable
    <2> QED BY <2>2 DEF From
  <1>4. ASSUME NEW n \in T PROVE n + 1 \in T
    <2>0. n \in Nat /\ n + 1 \in Nat /\ n + 1 # 0 /\ (n + 1) - 1 = n
      BY <1>4
    <2>1. ASSUME Seen(n + 1), NEW e \in Levels[n + 1] PROVE <<e, n + 1>> \in Covered
      <3>1. Seen(n) /\ n + 1 < tree.fds
        BY <1>0, <2>0, <2>1
      <3>2. Levels[n + 1] = Level(n + 1, Levels)
        BY <1>1, <2>0, <3>1
      <3>3. PICK d \in Levels[n] : e \in Children(d)
        BY <2>0, <2>1, <3>2 DEF Level, Openable
      <3>4. IsDirectory(e)
        BY <2>1, <3>2 DEF Level, Openable
      <3>5. <<d, n>> \in Covered /\ Opens(d, n) /\ d \in Dirs
        BY <1>2, <1>4, <2>0, <3>1
      <3>6. PICK name \in Names(d) : e = Lookup(d, name)
        BY <3>3 DEF Children
      <3>7. name \in Listed(tree, d) /\ e = tree.entries[d][name]
        BY <3>5, <3>6, Looked DEF Names, Listed
      <3> QED BY <2>0, <3>4, <3>5, <3>7, CoveredClosed DEF Closed
    <2> HIDE DEF Seen
    <2> QED BY <2>0, <2>1
  <1> SUFFICES ASSUME NEW n \in Nat, Seen(n)
               PROVE  \A d \in Levels[n] : <<d, n>> \in Covered /\ Opens(d, n) /\ d \in Dirs
    OBVIOUS
  <1> HIDE DEF T
  <1>5. n \in T
    <2>1. T \subseteq Nat
      BY DEF T
    <2> QED BY <1>3, <1>4, <2>1, Induct
  <1>6. \A d \in Levels[n] : <<d, n>> \in Covered
    BY <1>5 DEF T
  <1> QED BY <1>2, <1>6

LEMMA AllAreCounted == IInv /\ CInv /\ opts.depth \in Nat => AllCounted
  <1> SUFFICES ASSUME IInv, CInv, opts.depth \in Nat, pc = "done", Whole, NEW d \in Visited, NEW f \in Children(d)
               PROVE  IsDirectory(f) \/ Accounted(f)
    BY DEF AllCounted, Whole
  <1>1. Shape /\ tree.fds \in Nat
    BY DEF IInv, Shape, WellFormed
  <1>2. /\ stack = <<>> /\ pending = NoName /\ args \in Seq(Nat) /\ arg \in Nat \ {0} /\ arg > Len(args)
        /\ ArgsWalked
    BY DEF CInv
  <1>3. GoingTo(0) = {}
    <2>1. Len(stack) = 0
      BY <1>2
    <2> QED BY <1>2, <2>1 DEF GoingTo
  <1>4. ASSUME NEW a \in ToSet(args), Exists(tree.top, a), IsDirectory(Lookup(tree.top, a))
        PROVE  <<Lookup(tree.top, a), 0>> \in Covered
    <2>1. PICK k \in 1 .. Len(args) : a = args[k]
      BY <1>2, <1>4 DEF ToSet
    <2>2. k \in 1 .. arg - 1
      BY <1>2
    <2> QED BY <1>2, <1>3, <1>4, <2>1, <2>2 DEF ArgsWalked
  <1>5. PICK n \in 0 .. tree.fds - 1 : (opts.sum \/ n < opts.depth) /\ d \in Levels[n]
    BY DEF Visited
  <1>6. n \in Nat /\ n < tree.fds
    BY <1>1
  <1>7. <<d, n>> \in Covered /\ Opens(d, n) /\ d \in Dirs
    BY <1>1, <1>2, <1>4, <1>5, <1>6, Through
  <1>8. PICK name \in Names(d) : f = Lookup(d, name)
    BY DEF Children
  <1>9. name \in Listed(tree, d) /\ f = tree.entries[d][name]
    BY <1>1, <1>7, <1>8, Looked DEF Names, Listed
  <1>10. f \in Safe
    BY <1>6, <1>7, <1>9, CoveredClosed DEF Closed
  <1> QED BY <1>10 DEF Safe

\* At the end every file of a directory that could be visited has been counted, it or one
\* with its key (down, vtree.c; h_enter, hash.c).
THEOREM EverythingCounted == Spec => []AllCounted
  <1>1. Init => opts.depth \in Nat
    BY VtreeAssumption DEF Init
  <1>2. opts.depth \in Nat /\ [Next]_vars => (opts.depth \in Nat)'
    BY DEF Next, Step, vars, given, NextArgument, ArgumentDone, Return, Open, ReadAll, ReadEntry,
           EndOfDirectory, CountNothing, CountFile, EndOfCount, PassOver, Descend, Leave, Vanish
  <1> QED BY <1>1, <1>2, Invariance, InitBInv, BStep, InitCInv, CStep, AllAreCounted, PTL DEF Spec
=============================================================================
