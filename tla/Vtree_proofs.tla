----------------------------- MODULE Vtree_proofs -----------------------------
(***************************************************************************)
(* Theorems about Vtree, for every file system, list of arguments, set of  *)
(* options and bound: its types, that names are looked up where they were  *)
(* read, and that no inode is counted twice.                               *)
(***************************************************************************)
EXTENDS Vtree, FiniteSetTheorems, TLAPS

Dirs == DOMAIN tree.entries

\* Where names are looked up when the first n calls of down are open.
Home(n) == IF n = 0 THEN tree.top ELSE stack[n].dir

Frame(f) ==
    /\ {"dir", "phase", "back"} \subseteq DOMAIN f
    /\ f.phase \in {"read", "count", "descend"}
    /\ f.dir \in Dirs /\ f.back \in Dirs

Calls ==
    /\ \E S : stack \in Seq(S)
    /\ \A i \in DOMAIN stack : Frame(stack[i])

Shape ==
    /\ WellFormed(tree)
    /\ Calls
    /\ cwd \in Dirs
    /\ DOMAIN sub_dirs = 1 .. MaxVDepth - 1
    /\ pc = "args" => stack = <<>>

\* A call of down will go back to the directory of the call above it.
AtHome ==
    Searchable => /\ cwd = Home(Len(stack))
                  /\ \A i \in DOMAIN stack : stack[i].back = Home(i - 1)

\* What has been counted is in the table of its device.
Entered ==
    /\ counted \in [Nodes -> Nat]
    /\ ~opts.dup => \A n \in Files :
          (Key(n) # 0 /\ counted[n] # 0) =>
             counted[n] = 1 /\ Known(n) /\ Key(n) \in table[Device(n)]

IInv == Shape /\ TypeOK /\ AtHome /\ Entered

-----------------------------------------------------------------------------
(* What the parts of an action do *)

\* A successful stat is about a node, and a failed one keeps the node it had.
LEMMA StatNode ==
    ASSUME Shape, stb \in Nodes, NEW dir \in Dirs, NEW name
    PROVE  Stat(dir, name) \in Nodes
  BY DEF Shape, WellFormed, Stat, Exists, Lookup, Names, Nodes, Dirs

LEMMA Blocks == ASSUME Shape, NEW n \in Nodes PROVE K(n) \in Nat
  <1>1. Attr(n).blocks \in Nat
    BY DEF Shape, WellFormed, Attr, Nodes
  <1> QED BY <1>1 DEF K

\* Changing the call on top changes neither where it is nor where it goes back.
LEMMA Renewed ==
    ASSUME Shape, AtHome, stack # <<>>, UNCHANGED <<tree, cwd>>,
           NEW f, Update(f), Frame(f), f.dir = Top.dir, f.back = Top.back
    PROVE  Calls' /\ AtHome' /\ Len(stack') = Len(stack) /\ stack' # <<>>
  <1>1. PICK S : stack \in Seq(S)
    BY DEF Shape, Calls
  <1>2. /\ stack' \in Seq(S \cup {f}) /\ Len(stack') = Len(stack) /\ stack' # <<>>
        /\ DOMAIN stack' = DOMAIN stack
        /\ \A i \in DOMAIN stack : stack'[i] = IF i = Len(stack) THEN f ELSE stack[i]
    BY <1>1 DEF Update
  <1>3. Calls'
    BY <1>2 DEF Shape, Calls, Frame, Dirs
  <1>4. DOMAIN stack = 1 .. Len(stack) /\ Len(stack) \in Nat \ {0}
    BY <1>1
  <1>5. \A n \in 0 .. Len(stack) : Home(n)' = Home(n)
    BY <1>2, <1>4 DEF Home, Top
  <1>6. \A i \in DOMAIN stack : stack'[i].back = stack[i].back
    BY <1>2 DEF Top
  <1>7. Searchable' <=> Searchable
    BY DEF Searchable, Nodes, IsDirectory, Attr
  <1>8. AtHome'
    BY <1>2, <1>4, <1>5, <1>6, <1>7 DEF AtHome
  <1> QED BY <1>2, <1>3, <1>8

\* The calls stay as they are.
LEMMA Unmoved ==
    ASSUME Shape, AtHome, UNCHANGED <<tree, cwd, stack>>
    PROVE  Calls' /\ AtHome'
  BY DEF Shape, Calls, Frame, Dirs, AtHome, Searchable, Nodes, IsDirectory, Attr, Home

\* An entry that goes changes nothing but the entries of its directory.
LEMMA Vanishes ==
    ASSUME Shape, NEW dir \in Dirs, NEW name \in Names(dir), Vanish(dir, name)
    PROVE  /\ WellFormed(tree)'
           /\ tree'.node = tree.node /\ tree'.top = tree.top /\ Dirs' = Dirs
           /\ UNCHANGED <<opts, pc, walk, sums>>
  <1>1. tree' = [tree EXCEPT !.entries[dir] = Restrict(@, DOMAIN @ \ {name})]
    BY DEF Vanish
  <1>2. {"top", "fds", "node", "entries"} \subseteq DOMAIN tree
    BY DEF Shape, WellFormed
  <1>3. /\ DOMAIN tree' = DOMAIN tree
        /\ tree'.node = tree.node /\ tree'.top = tree.top /\ tree'.fds = tree.fds
        /\ tree'.entries = [tree.entries EXCEPT
                              ![dir] = Restrict(@, DOMAIN @ \ {name})]
    BY <1>1, <1>2
  <1>4. /\ DOMAIN tree'.entries = DOMAIN tree.entries
        /\ \A d \in DOMAIN tree.entries :
              /\ DOMAIN tree'.entries[d] \subseteq DOMAIN tree.entries[d]
              /\ \A k \in DOMAIN tree'.entries[d] : tree'.entries[d][k] = tree.entries[d][k]
    BY <1>3 DEF Restrict, Dirs
  <1>5. \A d \in DOMAIN tree'.entries :
            /\ d \in DOMAIN tree'.node
            /\ IsFiniteSet(DOMAIN tree'.entries[d])
            /\ DOMAIN tree'.entries[d] \subseteq Nat \ {Dot}
            /\ \A k \in DOMAIN tree'.entries[d] : tree'.entries[d][k] \in DOMAIN tree'.node
    <2>1. \A d \in DOMAIN tree.entries :
            /\ d \in DOMAIN tree.node
            /\ IsFiniteSet(DOMAIN tree.entries[d])
            /\ DOMAIN tree.entries[d] \subseteq Nat \ {Dot}
            /\ \A k \in DOMAIN tree.entries[d] : tree.entries[d][k] \in DOMAIN tree.node
      BY DEF WellFormed, Shape
    <2>2. \A d \in DOMAIN tree.entries : IsFiniteSet(DOMAIN tree'.entries[d])
      BY <1>4, <2>1, FS_Subset
    <2> QED BY <1>3, <1>4, <2>1, <2>2
  <1>6. WellFormed(tree')
    <2>1. WellFormed(tree)
      BY DEF Shape
    <2>2. \A n \in DOMAIN tree'.node :
             /\ tree'.node[n].blocks \in Nat
             /\ tree'.node[n].dir <=> n \in DOMAIN tree'.entries
      BY <2>1, <1>3, <1>4 DEF WellFormed
    <2> QED BY <2>1, <2>2, <1>2, <1>3, <1>4, <1>5 DEF WellFormed
  <1> QED BY <1>3, <1>4, <1>6 DEF Vanish, Dirs

\* Another entry in a table leaves those that are there.
LEMMA EnterKeeps ==
    ASSUME NEW n, NEW k \in Nodes, tree' = tree, Enter(n)
    PROVE  /\ Known(k) => Known(k)' /\ table[Device(k)] \subseteq table'[Device(k)']
           /\ Known(n)' /\ Key(n)' \in table'[Device(n)']
  BY DEF Enter, Known, Device, Key, Attr

-----------------------------------------------------------------------------
(* The invariant holds at the start and is kept *)

LEMMA InitIInv == Init => IInv
  <1> SUFFICES ASSUME Init PROVE IInv
    OBVIOUS
  <1>1. WellFormed(tree)
    BY VtreeAssumption DEF Init
  <1>2. stack = <<>> /\ stack \in Seq({}) /\ Len(stack) = 0 /\ DOMAIN stack = {}
    BY DEF Init
  <1>3. Shape
    BY <1>1, <1>2 DEF Init, Shape, Calls, WellFormed, Dirs
  <1>4. TypeOK
    BY <1>1, <1>2 DEF Init, TypeOK, WellFormed, Nodes
  <1>5. AtHome
    BY <1>2 DEF Init, AtHome, Home
  <1>6. Entered
    BY DEF Init, Entered, Nodes, Files
  <1> QED BY <1>3, <1>4, <1>5, <1>6 DEF IInv

\* The directories open, and where their names are looked up.
LEMMA PlaceStep == IInv /\ [Next]_vars => Shape' /\ AtHome' /\ cur_depth' = Len(stack')
  <1> SUFFICES ASSUME IInv, [Next]_vars
               PROVE  Shape' /\ AtHome' /\ cur_depth' = Len(stack')
    OBVIOUS
  <1> USE DEF IInv
  <1>0. cur_depth = Len(stack) /\ stb \in Nodes
    BY DEF TypeOK
  <1>a. ASSUME UNCHANGED <<tree, cwd>>, DOMAIN sub_dirs' = DOMAIN sub_dirs, pc' # "args",
               Calls' /\ AtHome' /\ cur_depth' = Len(stack')
        PROVE  Shape' /\ AtHome' /\ cur_depth' = Len(stack')
    BY <1>a DEF Shape, Dirs
  <1>b. ASSUME stack # <<>>, UNCHANGED <<tree, cwd, cur_depth>>,
               DOMAIN sub_dirs' = DOMAIN sub_dirs, pc' # "args",
               NEW f, Update(f), Frame(f), f.dir = Top.dir, f.back = Top.back
        PROVE  Shape' /\ AtHome' /\ cur_depth' = Len(stack')
    BY <1>0, <1>a, <1>b, Renewed
  <1>c. stack # <<>> => Frame(Top)
    <2> SUFFICES ASSUME stack # <<>> PROVE Frame(Top)
      OBVIOUS
    <2>1. PICK S : stack \in Seq(S)
      BY DEF Shape, Calls
    <2>2. Len(stack) \in DOMAIN stack
      BY <2>1
    <2> QED BY <2>2 DEF Top, Shape, Calls
  <1>1. CASE NextArgument
    <2>1. /\ UNCHANGED <<tree, stack, sub_dirs>> /\ stack = <<>> /\ cur_depth' = 0
          /\ pc' = "walk" /\ cwd' = tree.top /\ tree.top \in Dirs
      BY <1>1 DEF NextArgument, given, Shape, WellFormed, Dirs
    <2>2. Len(stack) = 0 /\ DOMAIN stack = {}
      BY <2>1
    <2> QED BY <2>1, <2>2 DEF Shape, Calls, Dirs, AtHome, Home
  <1>2. CASE ArgumentDone
    <2>1. UNCHANGED <<tree, cwd, stack, sub_dirs, cur_depth>> /\ stack = <<>>
      BY <1>2 DEF ArgumentDone, given, walk
    <2> QED BY <1>0, <2>1, Unmoved DEF Shape, Dirs
  <1>3. CASE Return
    <2>1. UNCHANGED <<tree, cwd, stack, sub_dirs, cur_depth, pc>> /\ pc = "walk"
      BY <1>3 DEF Return, given
    <2> QED BY <1>0, <1>a, <2>1, Unmoved
  <1>4. CASE Open
    <2> DEFINE dir == Lookup(cwd, pending)
               f == [dir |-> dir, phase |-> "read", list |-> <<>>, todo |-> <<>>, back |-> cwd,
                     unread |-> Names(dir) \cup (IF Selective THEN {} ELSE {Dot})]
    <2>1. /\ stack' = Append(stack, f) /\ cwd' = IF Attr(dir).search THEN dir ELSE cwd
          /\ UNCHANGED <<tree, sub_dirs>> /\ cur_depth' = cur_depth + 1
          /\ pc' # "args" /\ Readable(pending)
      BY <1>4 DEF Open, given
    <2>2. dir \in Dirs /\ dir \in Nodes /\ IsDirectory(dir)
      <3>1. dir \in Nodes
        BY <2>1 DEF Readable, Exists, Lookup, Names, Shape, WellFormed, Dirs, Nodes
      <3>2. IsDirectory(dir)
        BY <2>1 DEF Readable
      <3> QED BY <3>1, <3>2 DEF Shape, WellFormed, IsDirectory, Attr, Dirs, Nodes
    <2>3. Frame(f) /\ f.dir = dir /\ f.back = cwd
      BY <2>2 DEF Frame, Shape
    <2> HIDE DEF f, dir
    <2>4. PICK S : stack \in Seq(S)
      BY DEF Shape, Calls
    <2>5. /\ stack' \in Seq(S \cup {f}) /\ Len(stack') = Len(stack) + 1
          /\ DOMAIN stack = 1 .. Len(stack) /\ DOMAIN stack' = 1 .. Len(stack) + 1
          /\ \A i \in 1 .. Len(stack) : stack'[i] = stack[i]
          /\ stack'[Len(stack) + 1] = f
          /\ Len(stack) \in Nat
      BY <2>1, <2>4
    <2>6. Calls'
      <3>1. \A i \in 1 .. Len(stack) + 1 : Frame(stack'[i])
        BY <2>3, <2>5 DEF Shape, Calls
      <3> QED BY <3>1, <2>1, <2>5 DEF Calls, Frame, Dirs
    <2>7. Shape'
      BY <2>1, <2>2, <2>6 DEF Shape, Dirs
    <2>8. AtHome'
      <3> SUFFICES ASSUME Searchable
                   PROVE  /\ cwd' = Home(Len(stack))'
                          /\ \A i \in DOMAIN stack' : stack'[i].back = Home(i - 1)'
        BY <2>1 DEF AtHome, Searchable, Nodes, IsDirectory, Attr
      <3>1. cwd' = dir
        BY <2>1, <2>2 DEF Searchable
      <3>2. Home(Len(stack))' = dir
        BY <2>3, <2>5 DEF Home
      <3>3. \A n \in 0 .. Len(stack) : Home(n)' = Home(n)
        BY <2>1, <2>5 DEF Home
      <3>4. cwd = Home(Len(stack)) /\ \A i \in DOMAIN stack : stack[i].back = Home(i - 1)
        BY DEF AtHome
      <3>5. \A i \in 1 .. Len(stack) : stack'[i].back = Home(i - 1)'
        BY <2>5, <3>3, <3>4
      <3>6. stack'[Len(stack) + 1].back = Home(Len(stack))
        BY <2>3, <2>5, <3>4
      <3>7. \A i \in 1 .. Len(stack) + 1 : stack'[i].back = Home(i - 1)'
        <4> TAKE i \in 1 .. Len(stack) + 1
        <4>1. CASE i = Len(stack) + 1
          BY <2>5, <3>3, <3>6, <4>1
        <4>2. CASE i \in 1 .. Len(stack)
          BY <3>5, <4>2
        <4> QED BY <2>5, <4>1, <4>2
      <3> QED BY <2>5, <3>1, <3>2, <3>7
    <2> QED BY <1>0, <2>1, <2>5, <2>7, <2>8
  <1>5. CASE ReadAll
    <2>1. PICK list : Update([Top EXCEPT !.phase = "count", !.unread = {},
                                          !.list = Sorted(list), !.todo = Sorted(list)])
      BY <1>5 DEF ReadAll
    <2>2. /\ UNCHANGED <<tree, cwd, cur_depth, sub_dirs, pc>> /\ pc # "args" /\ stack # <<>>
      BY <1>5 DEF ReadAll, given, In
    <2> QED BY <1>b, <1>c, <2>1, <2>2 DEF Frame
  <1>6. ASSUME NEW name, ReadEntry(name)
        PROVE  Shape' /\ AtHome' /\ cur_depth' = Len(stack')
    <2>1. /\ UNCHANGED <<tree, cwd, cur_depth, sub_dirs, pc>> /\ pc # "args" /\ stack # <<>>
          /\ Update([Top EXCEPT !.unread = @ \ {name},
                          !.list = IF IsDirectory(stb') THEN Append(@, name) ELSE @])
      BY <1>6 DEF ReadEntry, given, In
    <2> QED BY <1>b, <1>c, <2>1 DEF Frame
  <1>7. CASE EndOfDirectory
    <2>1. /\ UNCHANGED <<tree, cwd, cur_depth, pc>> /\ pc # "args" /\ stack # <<>>
          /\ Update([Top EXCEPT !.phase = "descend", !.list = Sorted(@),
                                !.todo = Sorted(Top.list)])
          /\ DOMAIN sub_dirs' = DOMAIN sub_dirs
      BY <1>7 DEF EndOfDirectory, given, In
    <2> QED BY <1>b, <1>c, <2>1 DEF Frame
  <1>8. CASE CountNothing \/ CountFile \/ PassOver
    <2>1. /\ UNCHANGED <<tree, cwd, cur_depth, sub_dirs>> /\ pc' # "args" /\ stack # <<>>
          /\ Update([Top EXCEPT !.todo = Tail(@)])
      BY <1>8 DEF CountNothing, CountFile, PassOver, given, In, Skip, NextFile
    <2> QED BY <1>b, <1>c, <2>1 DEF Frame
  <1>9. CASE EndOfCount
    <2>1. /\ UNCHANGED <<tree, cwd, cur_depth, sub_dirs, pc>> /\ pc # "args" /\ stack # <<>>
          /\ Update([Top EXCEPT !.phase = "descend", !.todo = Top.list])
      BY <1>9 DEF EndOfCount, given, In
    <2> QED BY <1>b, <1>c, <2>1 DEF Frame
  <1>10. CASE Descend
    <2>1. /\ UNCHANGED <<tree, cwd, cur_depth, pc>> /\ pc # "args" /\ stack # <<>>
          /\ Update([Top EXCEPT !.todo = Tail(@)])
          /\ DOMAIN sub_dirs' = DOMAIN sub_dirs
      BY <1>10 DEF Descend, given, In, NextFile, Branch
    <2> QED BY <1>b, <1>c, <2>1 DEF Frame
  <1>11. CASE Leave
    <2>1. /\ stack # <<>> /\ pc' # "args" /\ tree' = tree /\ stack' = Front(stack)
          /\ cur_depth' = cur_depth - 1 /\ cwd' = Top.back /\ DOMAIN sub_dirs' = DOMAIN sub_dirs
      BY <1>11 DEF Leave, In, Up, ChdirBack, given
    <2>2. PICK S : stack \in Seq(S)
      BY DEF Shape, Calls
    <2>3. /\ Len(stack) \in Nat \ {0} /\ DOMAIN stack = 1 .. Len(stack)
          /\ stack' \in Seq(S) /\ Len(stack') = Len(stack) - 1
          /\ DOMAIN stack' = 1 .. Len(stack) - 1
          /\ \A i \in 1 .. Len(stack) - 1 : stack'[i] = stack[i]
      <3>1. Len(stack) \in Nat \ {0} /\ DOMAIN stack = 1 .. Len(stack)
        BY <2>1, <2>2
      <3>2. stack' = SubSeq(stack, 1, Len(stack) - 1)
        BY <2>1 DEF Front
      <3>3. stack' \in Seq(S) /\ Len(stack') = Len(stack) - 1
        BY <2>2, <3>1, <3>2
      <3>4. \A i \in 1 .. Len(stack) - 1 : stack'[i] = stack[i]
        BY <2>2, <3>1, <3>2
      <3> QED BY <3>1, <3>3, <3>4
    <2>4. Calls'
      BY <2>1, <2>3 DEF Shape, Calls, Frame, Dirs
    <2>5. Shape'
      BY <1>c, <2>1, <2>4 DEF Shape, Dirs, Frame
    <2>6. AtHome'
      <3>1. \A n \in 0 .. Len(stack) - 1 : Home(n)' = Home(n)
        BY <2>1, <2>3 DEF Home
      <3>2. Searchable' <=> Searchable
        BY <2>1 DEF Searchable, Nodes, IsDirectory, Attr
      <3>3. Searchable => Top.back = Home(Len(stack) - 1)
        BY <2>3 DEF AtHome, Top
      <3> QED BY <2>1, <2>3, <3>1, <3>2, <3>3 DEF AtHome
    <2> QED BY <1>0, <2>1, <2>3, <2>5, <2>6
  <1>12. ASSUME NEW dir \in Dirs, NEW name \in Names(dir), Vanish(dir, name)
         PROVE  Shape' /\ AtHome' /\ cur_depth' = Len(stack')
    <2>1. /\ WellFormed(tree)' /\ tree'.node = tree.node /\ tree'.top = tree.top
          /\ Dirs' = Dirs /\ UNCHANGED <<pc, stack, cwd, cur_depth, sub_dirs>>
      BY <1>12, Vanishes DEF walk
    <2>2. Shape'
      BY <2>1 DEF Shape, Calls, Frame
    <2>3. AtHome'
      BY <2>1 DEF AtHome, Searchable, Nodes, IsDirectory, Attr, Home
    <2> QED BY <1>0, <2>1, <2>2, <2>3
  <1>13. CASE UNCHANGED vars
    <2>1. UNCHANGED <<tree, pc, stack, cwd, cur_depth, sub_dirs>>
      BY <1>13 DEF vars, given, walk
    <2> QED BY <1>0, <2>1, Unmoved DEF Shape, Dirs
  <1> QED BY <1>1, <1>2, <1>3, <1>4, <1>5, <1>6, <1>7, <1>8, <1>9, <1>10, <1>11, <1>12, <1>13
          DEF Next, Step, Dirs

LEMMA TypeStep == IInv /\ [Next]_vars => TypeOK'
  <1> SUFFICES ASSUME IInv, [Next]_vars PROVE TypeOK'
    OBVIOUS
  <1> USE DEF IInv
  <1>0. /\ Shape' /\ cur_depth' = Len(stack')
        /\ \A i \in DOMAIN stack' : stack'[i].phase \in {"read", "count", "descend"}
    BY PlaceStep DEF Shape, Calls, Frame
  <1>1. cwd' \in Nodes' /\ stb' \in Nodes' /\ Nodes' = Nodes
    <2>1. Nodes' = Nodes
      <3>1. CASE UNCHANGED tree
        BY <3>1 DEF Nodes
      <3>2. ASSUME NEW dir \in Dirs, NEW name \in Names(dir), Vanish(dir, name)
            PROVE  Nodes' = Nodes
        BY <3>2, Vanishes DEF Nodes
      <3> QED BY <3>1, <3>2 DEF Next, Step, vars, given, Dirs, NextArgument, ArgumentDone,
                  Return, Open, ReadAll, ReadEntry, EndOfDirectory, CountNothing, CountFile,
                  EndOfCount, PassOver, Descend, Leave
    <2>2. cwd' \in Nodes'
      BY <1>0 DEF Shape, WellFormed, Dirs, Nodes
    <2>3. CASE UNCHANGED stb
      BY <2>1, <2>2, <2>3 DEF TypeOK
    <2>4. ASSUME NEW dir \in Dirs, NEW name, stb' = Stat(dir, name)
          PROVE  stb' \in Nodes
      BY <2>4, StatNode DEF TypeOK
    <2>5. tree.top \in Dirs /\ cwd \in Dirs
      BY DEF Shape, WellFormed, Dirs
    <2> QED BY <2>1, <2>2, <2>3, <2>4, <2>5
            DEF Next, Step, vars, walk, Vanish, NextArgument, ArgumentDone, Return, Open, ReadAll,
                ReadEntry, EndOfDirectory, CountNothing, CountFile, EndOfCount, PassOver, Descend, Leave, Visits
  <1>2. K(stb') \in Nat
    BY <1>1, Blocks
  <1>3. /\ sizes' \in Nat /\ inodes' \in Nat /\ total_sizes' \in Nat /\ total_inodes' \in Nat
    <2>1. /\ sizes \in Nat /\ inodes \in Nat /\ total_sizes \in Nat /\ total_inodes \in Nat
      BY DEF TypeOK
    <2>2. CASE NextArgument
      BY <2>1, <2>2 DEF NextArgument, Visits
    <2>3. CASE ArgumentDone
      BY <2>1, <2>3 DEF ArgumentDone, AddTotals
    <2>4. CASE CountFile
      BY <2>1, <2>4, <1>2 DEF CountFile
    <2>5. CASE EndOfCount
      BY <2>1, <2>5 DEF EndOfCount, Shown, NotShown, AddTotals
    <2>6. CASE Descend
      BY <2>1, <2>6 DEF Descend, Visits
    <2>7. CASE Leave
      BY <2>1, <2>7 DEF Leave, Shown, NotShown, AddTotals
    <2> QED BY <2>1, <2>2, <2>3, <2>4, <2>5, <2>6, <2>7
            DEF Next, Step, vars, sums, Vanish, Return, Open, ReadAll, ReadEntry,
                EndOfDirectory, CountNothing, PassOver
  <1>4. counted' \in [Nodes -> Nat]
    <2>1. counted \in [Nodes -> Nat]
      BY DEF TypeOK
    <2>2. ASSUME NEW n, Count(n) PROVE counted' \in [Nodes -> Nat]
      <3>1. counted' = [k \in Nodes |-> IF k = n THEN counted[k] + 1 ELSE counted[k]]
        BY <2>1, <2>2 DEF Count
      <3>2. \A k \in Nodes : counted[k] \in Nat /\ counted[k] + 1 \in Nat
        BY <2>1
      <3> QED BY <3>1, <3>2
    <2>3. CASE UNCHANGED counted
      BY <2>1, <2>3
    <2>4. CASE NextArgument \/ Descend
      BY <2>2, <2>3, <2>4 DEF NextArgument, Descend, Visits
    <2>5. CASE CountFile
      BY <2>2, <2>5 DEF CountFile
    <2> QED BY <2>3, <2>4, <2>5
            DEF Next, Step, vars, sums, Vanish, ArgumentDone, Return, Open, ReadAll,
                ReadEntry, EndOfDirectory, CountNothing, EndOfCount, PassOver, Leave
  <1>5. pc' \in {"args", "walk", "done", "undefined"}
    BY DEF TypeOK, Next, Step, vars, Vanish, NextArgument, ArgumentDone, Return, Open, ReadAll,
           ReadEntry, EndOfDirectory, CountNothing, CountFile, EndOfCount, PassOver, Descend, Leave
  <1>6. Running' => \A i \in DOMAIN sub_dirs' : i > cur_depth' => sub_dirs'[i] = 0
    <2> DEFINE Rest == \A i \in DOMAIN sub_dirs : i > cur_depth => sub_dirs[i] = 0
    <2>1. DOMAIN sub_dirs \subseteq Int /\ cur_depth \in Nat
      <3>1. PICK S : stack \in Seq(S)
        BY DEF Shape, Calls
      <3> QED BY <3>1, VtreeAssumption DEF Shape, TypeOK
    <2>2. Running => Rest
      BY DEF TypeOK
    <2>3. CASE NextArgument
      <3>1. Running /\ cur_depth = 0 /\ cur_depth' = 0 /\ sub_dirs' = sub_dirs
        <4>1. stack = <<>> /\ cur_depth = Len(stack)
          BY <2>3 DEF NextArgument, Shape, TypeOK
        <4> QED BY <2>3, <4>1 DEF NextArgument, Running
      <3> QED BY <2>2, <3>1
    <2>4. CASE Open
      BY <2>1, <2>2, <2>4 DEF Open, Running
    <2>5. CASE EndOfDirectory
      BY <2>1, <2>2, <2>5 DEF EndOfDirectory, Running, In
    <2>6. CASE Descend
      BY <2>1, <2>2, <2>6 DEF Descend, Branch, Running, In
    <2>7. CASE Leave
      BY <2>1, <2>2, <2>7 DEF Leave, Up, Running, In
    <2>8. CASE UNCHANGED <<sub_dirs, cur_depth>> /\ (Running' => Running)
      BY <2>2, <2>8
    <2> QED BY <2>3, <2>4, <2>5, <2>6, <2>7, <2>8
            DEF Next, Step, vars, walk, Running, In, Vanish, ArgumentDone, Return, ReadAll, ReadEntry,
                CountNothing, CountFile, EndOfCount, PassOver
  <1> QED BY <1>0, <1>1, <1>3, <1>4, <1>5, <1>6 DEF TypeOK

\* No file is counted again while its key is in the table.
LEMMA EnteredStep == IInv /\ [Next]_vars => Entered'
  <1> SUFFICES ASSUME IInv, [Next]_vars PROVE Entered'
    OBVIOUS
  <1>1. Entered /\ counted' \in [Nodes' -> Nat]
    BY TypeStep DEF IInv, TypeOK
  <1>2. ASSUME tree'.node = tree.node, UNCHANGED <<opts, table>>,
               \A n \in Files : counted'[n] = counted[n]
        PROVE  Entered'
    <2>1. Files' = Files
      BY <1>2 DEF Files, Nodes, IsDirectory, Attr
    <2> QED BY <1>1, <1>2, <2>1 DEF Entered, Key, Known, Device, Attr
  <1>3. ASSUME tree' = tree, UNCHANGED <<opts, table>>, NEW n, IsDirectory(n), Count(n)
        PROVE  Entered'
    <2>1. \A k \in Files : counted'[k] = counted[k]
      BY <1>1, <1>3 DEF Files, Nodes, Count, Entered
    <2> QED BY <1>2, <1>3, <2>1
  <1>4. CASE CountFile
    <2>1. /\ tree' = tree /\ opts' = opts /\ ~IsDirectory(stb')
          /\ ~OLD(stb') \/ opts.dup
          /\ Enter(stb') /\ Count(stb')
      BY <1>4 DEF CountFile, given
    <2>2. Files' = Files /\ Nodes' = Nodes
      BY <2>1 DEF Files, Nodes, IsDirectory, Attr
    <2>3. ASSUME ~opts.dup, NEW k \in Files, Key(k) # 0, counted'[k] # 0
          PROVE  counted'[k] = 1 /\ Known(k)' /\ Key(k)' \in table'[Device(k)']
      <3>1. k \in Nodes /\ Key(k)' = Key(k) /\ Device(k)' = Device(k)
        BY <2>1 DEF Files, Key, Device, Attr
      <3>2. CASE k = stb'
        <4>1. counted[k] = 0
          BY <1>1, <2>1, <2>3, <3>1, <3>2 DEF Entered, OLD
        <4> QED BY <1>1, <2>1, <3>1, <3>2, <4>1, EnterKeeps DEF Count, Entered
      <3>3. CASE k # stb'
        <4>1. counted'[k] = counted[k]
          BY <1>1, <2>1, <3>1, <3>3 DEF Count, Entered
        <4>2. counted[k] = 1 /\ Known(k) /\ Key(k) \in table[Device(k)]
          BY <1>1, <2>3, <4>1 DEF Entered
        <4> QED BY <2>1, <3>1, <4>1, <4>2, EnterKeeps
      <3> QED BY <3>2, <3>3
    <2>4. \A k \in Files : Key(k)' = Key(k)
      BY <2>1 DEF Key, Attr
    <2> QED BY <1>1, <2>1, <2>2, <2>3, <2>4 DEF Entered
  <1>5. CASE NextArgument \/ Descend
    <2>1. /\ tree' = tree /\ UNCHANGED <<opts, table>>
          /\ \/ IsDirectory(stb') /\ Count(stb')
             \/ UNCHANGED counted
      BY <1>5 DEF NextArgument, Descend, Visits, given
    <2> QED BY <1>2, <1>3, <2>1
  <1>6. ASSUME NEW dir \in Dirs, NEW name \in Names(dir), Vanish(dir, name)
        PROVE  Entered'
    BY <1>2, <1>6, Vanishes DEF IInv, sums
  <1>7. CASE UNCHANGED <<tree, opts, table, counted>>
    BY <1>2, <1>7
  <1> QED BY <1>4, <1>5, <1>6, <1>7
          DEF Next, Step, vars, given, sums, Dirs, ArgumentDone, Return, Open, ReadAll, ReadEntry,
              EndOfDirectory, CountNothing, EndOfCount, PassOver, Leave

LEMMA NextIInv == IInv /\ [Next]_vars => IInv'
  BY PlaceStep, TypeStep, EnteredStep DEF IInv

-----------------------------------------------------------------------------
(* The theorems *)

LEMMA Invariance == Spec => []IInv
  BY InitIInv, NextIInv, PTL DEF Spec

\* The variables of the walk keep their types, cur_depth counts the open directories
\* (down, vtree.c), and no branch is left over above them.
THEOREM TypeCorrect == Spec => []TypeOK
  <1>1. IInv => TypeOK
    BY DEF IInv
  <1> QED BY <1>1, Invariance, PTL

\* A name is looked up in the directory it was read from, through every chdir there
\* and back (down, vtree.c).
THEOREM LooksUpAtHome == Spec => []NamesAtHome
  <1>1. IInv => NamesAtHome
    BY DEF IInv, Shape, Calls, AtHome, Searchable, Home, NamesAtHome, Top
  <1> QED BY <1>1, Invariance, PTL

\* Without the option for duplicates an inode with a number is counted at most once
\* (h_enter, hash.c), whatever its names, whatever the loops, whatever has gone.
THEOREM NoInodeTwice == Spec => []CountedOnce
  <1>1. IInv => CountedOnce
    BY DEF IInv, Entered, CountedOnce, Files
  <1> QED BY <1>1, Invariance, PTL
=============================================================================
