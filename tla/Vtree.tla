-------------------------------- MODULE Vtree --------------------------------
(***************************************************************************)
(* vtree of hw2 (vtree.c, hash.c; built as the Makefile does: LINUX,       *)
(* MEMORY_BASED, no LSTAT): the walk through the directories that the      *)
(* arguments name, with its global counters and the table of inodes seen,  *)
(* while files may disappear.                                              *)
(*                                                                         *)
(* A directory is a function from names to nodes; stat follows symbolic    *)
(* links, so a link to a directory is a second name of it, and a tree may  *)
(* have loops.  Names are numbers in the order of strcmp.                  *)
(***************************************************************************)
EXTENDS Integers, FiniteSetsExt, SequencesExt

CONSTANTS
    Trees,      \* the file systems walked
    Options,    \* depth, sum, dup, quick, visual, sort
    Arguments,  \* the lists of names on the command line
    MaxVDepth,  \* MAX_V_DEPTH, 256 in the program
    MaxTables,  \* TABLES, 50
    IntSize,    \* 2^32: h_enter is declared to take ints
    MaxVanish   \* bound: the entries that disappear during a run

Dot == 0        \* "."
NoName == -1
Nothing == "nothing"    \* stb before the first stat: all zero

\* The directories are the nodes with entries, and the entries of a directory are nodes.
\* readdir gives ".", which is no entry here, to every directory.
WellFormed(t) ==
    /\ {"top", "fds", "node", "entries"} \subseteq DOMAIN t
    /\ t.fds \in Nat /\ IsFiniteSet(DOMAIN t.node)
    /\ Nothing \in DOMAIN t.node /\ t.top \in DOMAIN t.entries
    /\ \A n \in DOMAIN t.node :
          /\ t.node[n].blocks \in Nat
          /\ t.node[n].dir <=> n \in DOMAIN t.entries
    /\ \A d \in DOMAIN t.entries :
          /\ d \in DOMAIN t.node
          /\ IsFiniteSet(DOMAIN t.entries[d]) /\ DOMAIN t.entries[d] \subseteq Nat \ {Dot}
          /\ \A name \in DOMAIN t.entries[d] : t.entries[d][name] \in DOMAIN t.node

ASSUME VtreeAssumption ==
    /\ {MaxVDepth, MaxTables, IntSize} \subseteq Nat \ {0}
    /\ MaxVanish \in Nat
    /\ \A t \in Trees : WellFormed(t)
    /\ \A o \in Options :
          o.depth \in Nat /\ {o.sum, o.dup, o.quick, o.visual, o.sort} \subseteq BOOLEAN
    /\ \A a \in Arguments : a \in Seq(Nat) /\ a # <<>>

VARIABLES
    tree,           \* the file system: its nodes, its entries, the descriptors there are
    opts,           \* the options
    args, arg,      \* the arguments, and which one is next (i in vtree_main)
    pc,             \* "args" or "walk", at last "done" or "undefined"
    stack,          \* the calls of down that have opened a directory
    pending,        \* the name that down has been called with, or NoName
    cwd,            \* the working directory
    stb,            \* the node that the last stat to succeed was about
    cur_depth, sub_dirs,
    sizes, inodes, total_sizes, total_inodes,
    table,          \* the keys in the table of each device
    counted,        \* history: how often each node went into sizes
    vanished        \* history: the entries that have disappeared

walk == <<stack, pending, cwd, stb, cur_depth, sub_dirs>>
sums == <<sizes, inodes, total_sizes, total_inodes, table, counted>>
given == <<tree, opts, args>>
vars == <<given, arg, pc, walk, sums, vanished>>

Attr(node) == tree.node[node]
Names(dir) == DOMAIN tree.entries[dir]
Exists(dir, name) == name = Dot \/ name \in Names(dir)
Lookup(dir, name) == IF name = Dot THEN dir ELSE tree.entries[dir][name]

\* is_directory: a stat that fails leaves stb as it was.
Stat(dir, name) == IF Exists(dir, name) THEN Lookup(dir, name) ELSE stb
IsDirectory(node) == Attr(node).dir

\* stat's blocks of 512 bytes in K, and what get_data adds for a directory.
K(node) == IF IsDirectory(node) THEN 4 ELSE (Attr(node).blocks + 1) \div 2

\* Only directories are kept of the entries (quick, visual), or all (and counted).
Selective == opts.quick \/ opts.visual

Top == stack[Len(stack)]
Update(frame) == stack' = [stack EXCEPT ![Len(stack)] = frame]
In(phase) == pc = "walk" /\ pending = NoName /\ stack # <<>> /\ Top.phase = phase
Count(node) == counted' = [counted EXCEPT ![node] = @ + 1]

Init ==
    /\ tree \in Trees /\ opts \in Options /\ args \in Arguments
    /\ arg = 1 /\ pc = "args" /\ stack = <<>> /\ pending = NoName
    /\ cwd = tree.top /\ stb = Nothing
    /\ cur_depth = 0 /\ sub_dirs = [i \in 1 .. MaxVDepth - 1 |-> 0]
    /\ sizes = 0 /\ inodes = 0 /\ total_sizes = 0 /\ total_inodes = 0
    /\ table = <<>>
    /\ counted = [n \in DOMAIN tree.node |-> 0]
    /\ vanished = 0

-----------------------------------------------------------------------------
(* The arguments (vtree_main) *)

\* get_data(name, TRUE) up to its call of down: a directory is 4 K.
Visits(dir, name, size) ==
    /\ stb' = Stat(dir, name)
    /\ IF IsDirectory(stb')
       THEN sizes' = size + 4 /\ Count(stb') /\ pending' = name
       ELSE sizes' = size /\ UNCHANGED <<counted, pending>>

NextArgument ==
    /\ pc = "args"
    /\ pc' = "walk" /\ arg' = arg + 1
    /\ cwd' = tree.top
    /\ cur_depth' = 0 /\ inodes' = 0
    /\ Visits(tree.top, args[arg], 0)
    /\ UNCHANGED <<given, stack, sub_dirs, total_sizes, total_inodes, table, vanished>>

\* The sums go into the totals, and start again from zero.
AddTotals ==
    /\ total_sizes' = total_sizes + sizes
    /\ total_inodes' = total_inodes + inodes

ArgumentDone ==
    /\ pc = "walk" /\ stack = <<>> /\ pending = NoName
    /\ AddTotals
    /\ pc' = IF arg > Len(args) THEN "done" ELSE "args"
    /\ UNCHANGED <<given, arg, walk, sizes, inodes, table, counted, vanished>>

-----------------------------------------------------------------------------
(* down *)

Hidden == cur_depth = opts.depth /\ ~opts.sum

Readable(name) ==
    /\ Exists(cwd, name)
    /\ IsDirectory(Lookup(cwd, name)) /\ Attr(Lookup(cwd, name)).read
    /\ Len(stack) < tree.fds

\* The directory is below the depth shown, or opendir fails.
Return ==
    /\ pc = "walk" /\ pending # NoName
    /\ Hidden \/ ~Readable(pending)
    /\ pending' = NoName
    /\ UNCHANGED <<given, arg, pc, stack, cwd, stb, cur_depth, sub_dirs, sums, vanished>>

\* chdir fails in a directory that may not be searched: names are then looked up in
\* the old one.  sub_dirs and sub_dirs_indents have no element for MAX_V_DEPTH.
Open ==
    /\ pc = "walk" /\ pending # NoName
    /\ ~Hidden /\ Readable(pending)
    /\ pending' = NoName
    /\ LET dir == Lookup(cwd, pending)
       IN /\ stack' = Append(stack,
                [dir |-> dir, phase |-> "read", list |-> <<>>, todo |-> <<>>, back |-> cwd,
                 unread |-> Names(dir) \cup (IF Selective THEN {} ELSE {Dot})])
          /\ cwd' = IF Attr(dir).search THEN dir ELSE cwd
    /\ cur_depth' = cur_depth + 1
    /\ pc' = IF cur_depth' = MaxVDepth THEN "undefined" ELSE pc
    /\ UNCHANGED <<given, arg, stb, sub_dirs, sums, vanished>>

\* The bubble sort of names, all different, with the option for it; else the order is
\* that of readdir.
InOrder(S) == CHOOSE s \in SetToSeqs(S) : \A i, j \in DOMAIN s : i < j => s[i] < s[j]
Sorted(list) == IF opts.sort THEN InOrder(ToSet(list)) ELSE list

\* All entries are kept: reading and sorting looks at nothing but the directory.
ReadAll ==
    /\ In("read") /\ ~Selective
    /\ \E list \in SetToSeqs(Top.unread) :
          Update([Top EXCEPT !.phase = "count", !.unread = {},
                             !.list = Sorted(list), !.todo = Sorted(list)])
    /\ UNCHANGED <<given, arg, pc, pending, cwd, stb, cur_depth, sub_dirs, sums, vanished>>

\* An entry is kept if chk_4_dir finds a directory.
ReadEntry(name) ==
    /\ In("read") /\ Selective
    /\ stb' = Stat(cwd, name)
    /\ Update([Top EXCEPT !.unread = @ \ {name},
                          !.list = IF IsDirectory(stb') THEN Append(@, name) ELSE @])
    /\ UNCHANGED <<given, arg, pc, pending, cwd, cur_depth, sub_dirs, sums, vanished>>

\* With a visual display the subdirectories are counted.
EndOfDirectory ==
    /\ In("read") /\ Selective /\ Top.unread = {}
    /\ Update([Top EXCEPT !.phase = "descend", !.list = Sorted(@), !.todo = Sorted(Top.list)])
    /\ sub_dirs' = IF opts.visual THEN [sub_dirs EXCEPT ![cur_depth] = @ + Len(Top.list)]
                   ELSE sub_dirs
    /\ UNCHANGED <<given, arg, pc, pending, cwd, stb, cur_depth, sums, vanished>>

-----------------------------------------------------------------------------
(* h_enter.  A key list is searched from its slot 0, which is never filled:  *)
(* key 0 is not recognised.                                                  *)

Key(node) == Attr(node).ino % IntSize
Device(node) == Attr(node).dev % IntSize
Known(node) == Device(node) \in DOMAIN table

\* Mutant: the tables of all devices are searched.
OLDAnywhere(node) == Key(node) # 0 /\ \E d \in DOMAIN table : Key(node) \in table[d]

OLD(node) == Key(node) # 0 /\ Known(node) /\ Key(node) \in table[Device(node)]

\* Mutant: the key is compared and never entered.
EnterNothing(node) ==
    table' = IF Known(node) THEN table
             ELSE [d \in DOMAIN table \cup {Device(node)} |->
                      IF d = Device(node) THEN {} ELSE table[d]]

Enter(node) ==
    table' = [d \in DOMAIN table \cup {Device(node)} |->
                 (IF d \in DOMAIN table THEN table[d] ELSE {})
                 \cup (IF d = Device(node) THEN {Key(node)} ELSE {})]

\* tables[] has no room for the device.
TablesFull(node) == ~Known(node) /\ Cardinality(DOMAIN table) = MaxTables

-----------------------------------------------------------------------------
(* The loops of down over its list: get_data(name, FALSE), then (name, TRUE) *)

File == Head(Top.todo)
NextFile == Update([Top EXCEPT !.todo = Tail(@)])

\* Mutant: an inode that was seen before does not take the loop to its next entry.
SkipDirectory == IF IsDirectory(stb') THEN NextFile ELSE UNCHANGED stack

Skip == NextFile

\* A directory is left to the second loop, an inode seen before is left out.
CountNothing ==
    /\ In("count") /\ Top.todo # <<>>
    /\ stb' = Stat(cwd, File)
    /\ IsDirectory(stb') \/ (OLD(stb') /\ ~opts.dup)
    /\ Skip
    /\ UNCHANGED <<given, arg, pc, pending, cwd, cur_depth, sub_dirs, sums, vanished>>

CountFile ==
    /\ In("count") /\ Top.todo # <<>>
    /\ stb' = Stat(cwd, File)
    /\ ~IsDirectory(stb') /\ (~OLD(stb') \/ opts.dup)
    /\ NextFile
    /\ inodes' = inodes + 1 /\ sizes' = sizes + K(stb')
    /\ Enter(stb') /\ Count(stb')
    /\ pc' = IF TablesFull(stb') THEN "undefined" ELSE pc
    /\ UNCHANGED <<given, arg, pending, cwd, cur_depth, sub_dirs,
                   total_sizes, total_inodes, vanished>>

\* Mutant: the sums are not set back to zero.
ShownNotReset == AddTotals /\ UNCHANGED <<sizes, inodes>>

Shown == AddTotals /\ sizes' = 0 /\ inodes' = 0
NotShown == UNCHANGED <<sizes, inodes, total_sizes, total_inodes>>

\* The line of the directory, if it is above the depth shown.
EndOfCount ==
    /\ In("count") /\ Top.todo = <<>>
    /\ IF cur_depth < opts.depth THEN Shown ELSE NotShown
    /\ Update([Top EXCEPT !.phase = "descend", !.todo = Top.list])
    /\ UNCHANGED <<given, arg, pc, pending, cwd, stb, cur_depth, sub_dirs,
                   table, counted, vanished>>

\* Mutant: the branch that is drawn stays among those left.
BranchStays(node) == UNCHANGED sub_dirs

Branch(node) ==
    sub_dirs' = IF IsDirectory(node) THEN [sub_dirs EXCEPT ![cur_depth] = @ - 1] ELSE sub_dirs

\* The second loop passes over ".".
PassOver ==
    /\ In("descend") /\ Top.todo # <<>> /\ File = Dot
    /\ NextFile
    /\ UNCHANGED <<given, arg, pc, pending, cwd, stb, cur_depth, sub_dirs, sums, vanished>>

\* chk_4_dir and get_data look at the entry one after the other; if it goes between
\* the two, the second stat leaves what the first one found.
Descend ==
    /\ In("descend") /\ Top.todo # <<>> /\ File # Dot
    /\ NextFile
    /\ Visits(cwd, File, sizes)
    /\ Branch(stb')
    /\ UNCHANGED <<given, arg, pc, cwd, cur_depth, inodes, total_sizes, total_inodes,
                   table, vanished>>

\* Mutants: the depth is not counted down; the working directory stays.
UpOnly == stack' = Front(stack) /\ UNCHANGED cur_depth
ChdirNot == UNCHANGED cwd

Up == stack' = Front(stack) /\ cur_depth' = cur_depth - 1
ChdirBack == cwd' = Top.back

Leave ==
    /\ In("descend") /\ Top.todo = <<>>
    /\ IF ~Selective /\ cur_depth = opts.depth THEN Shown ELSE NotShown
    /\ sub_dirs' = [sub_dirs EXCEPT ![cur_depth] = 0]
    /\ Up /\ ChdirBack
    /\ UNCHANGED <<given, arg, pc, pending, stb, table, counted, vanished>>

-----------------------------------------------------------------------------
(* Someone else removes a file, or a directory that is empty and not open. *)

Vanish(dir, name) ==
    /\ pc \in {"args", "walk"} /\ vanished < MaxVanish
    /\ LET node == Lookup(dir, name)
       IN IsDirectory(node) => Names(node) = {} /\ \A i \in DOMAIN stack : stack[i].dir # node
    /\ tree' = [tree EXCEPT !.entries[dir] = Restrict(@, DOMAIN @ \ {name})]
    /\ vanished' = vanished + 1
    /\ UNCHANGED <<opts, args, arg, pc, walk, sums>>

Step ==
    \/ NextArgument \/ ArgumentDone
    \/ Return \/ Open
    \/ ReadAll \/ EndOfDirectory
    \/ stack # <<>> /\ \E name \in Top.unread : ReadEntry(name)
    \/ CountNothing \/ CountFile \/ EndOfCount
    \/ PassOver \/ Descend \/ Leave

Next == Step \/ \E dir \in DOMAIN tree.entries : \E name \in Names(dir) : Vanish(dir, name)

\* The process runs.
Spec == Init /\ [][Next]_vars /\ WF_vars(Step)
-----------------------------------------------------------------------------
(* Properties *)

Nodes == DOMAIN tree.node
Running == pc \in {"args", "walk"}

\* The types; cur_depth counts the directories that are open, and above it no branch
\* is left over.
TypeOK ==
    /\ pc \in {"args", "walk", "done", "undefined"}
    /\ {sizes, inodes, total_sizes, total_inodes} \subseteq Nat
    /\ counted \in [Nodes -> Nat]
    /\ {cwd, stb} \subseteq Nodes
    /\ cur_depth = Len(stack)
    /\ \A i \in DOMAIN stack : stack[i].phase \in {"read", "count", "descend"}
    /\ Running => \A i \in DOMAIN sub_dirs : i > cur_depth => sub_dirs[i] = 0

SumOver(S, f) == MapThenSumSet(LAMBDA n : f[n], S)
Files == {n \in Nodes : ~IsDirectory(n)}

\* The sums are added to the totals and set back in five places, at the depth shown
\* or above it: every directory visited and every file counted is once in the sums
\* of the lines, whatever the depth, whatever cannot be opened or has gone.
Conserved ==
    LET current(n) == IF pc = "walk" THEN n ELSE 0
    IN pc # "undefined" =>
         /\ total_sizes + current(sizes) = SumOver(Nodes, [n \in Nodes |-> counted[n] * K(n)])
         /\ total_inodes + current(inodes) = SumOver(Files, counted)

\* hash.c:5-6: these routines keep the program from counting the same inode twice, be
\* it found under another name, in a loop, under another argument, or in place of
\* an entry that has gone.
CountedOnce ==
    ~opts.dup => \A n \in Files : Key(n) # 0 => counted[n] <= 1

\* Every directory may be searched: chdir into it works.
Searchable == \A n \in Nodes : IsDirectory(n) => Attr(n).search

Children(dir) == {Lookup(dir, name) : name \in Names(dir)}
Openable(S) == {d \in S : IsDirectory(d) /\ Attr(d).read}

\* The directories that can be opened n calls of down below an argument, by n.
Levels ==
    LET from == {Lookup(tree.top, a) : a \in {b \in ToSet(args) : Exists(tree.top, b)}}
        levels[n \in 0 .. tree.fds] ==
            Openable(IF n = 0 THEN from ELSE UNION {Children(d) : d \in levels[n - 1]})
    IN levels

Visited == UNION {Levels[n] : n \in {k \in 0 .. tree.fds - 1 : opts.sum \/ k < opts.depth}}

\* The file, or one with its key, has been counted.
Accounted(f) ==
    \E g \in Files : counted[g] > 0 /\ <<Device(g), Key(g)>> = <<Device(f), Key(f)>>

\* At the end every file of a directory that could be visited has been counted, it or
\* one with its key.
AllCounted ==
    pc = "done" /\ ~Selective /\ vanished = 0 /\ Searchable
    => \A d \in Visited : \A f \in Children(d) : IsDirectory(f) \/ Accounted(f)

\* With a visual display sub_dirs holds, for each directory that is open, the branches
\* that remain to be drawn below it, if nothing has gone in between and chdir works: the
\* stat of a name that is not in the working directory fails, and the two loops then
\* judge the name by what stb holds, which need not be the same.
BranchesLeft ==
    opts.visual /\ vanished = 0 /\ Searchable /\ Running =>
        \A i \in DOMAIN stack :
            sub_dirs[i] = IF stack[i].phase = "read" THEN 0 ELSE Len(stack[i].todo)

\* A name is looked up in the directory it was read from, after every return too.
NamesAtHome ==
    Searchable => cwd = IF stack = <<>> THEN tree.top ELSE Top.dir

\* The walk ends, links that lead back up and entries that go included: the descriptors
\* are its limit.
Terminates == <>(~Running)

=============================================================================
