------------------------------- MODULE MCVtree -------------------------------
(* Instances of Vtree for TLC: small file systems, each with one difficulty. *)
EXTENDS Vtree, TLC

Dir(ino) == [dir |-> TRUE, dev |-> 1, ino |-> ino, blocks |-> 8, read |-> TRUE, search |-> TRUE]
Reg(dev, ino, blocks) ==
    [dir |-> FALSE, dev |-> dev, ino |-> ino, blocks |-> blocks, read |-> TRUE, search |-> TRUE]
Zero == Nothing :> Reg(0, 0, 0)
FileSystem(fds, node, entries) ==
    [top |-> "top", fds |-> fds, node |-> node @@ Zero, entries |-> entries]
None == <<>>

\* Two names of a file, in two directories, and an inode that is the same in 32 bits.
HardLinks ==
    FileSystem(9, "top" :> Dir(1) @@ "d" :> Dir(2) @@ "f" :> Reg(1, 5, 8)
                  @@ "g" :> Reg(1, 5 + IntSize, 3),
               "top" :> (1 :> "f" @@ 2 :> "d") @@ "d" :> (1 :> "g" @@ 3 :> "f"))

\* A link to the directory above, with few descriptors and with many.
Loop(fds) ==
    FileSystem(fds, "top" :> Dir(1) @@ "d" :> Dir(2) @@ "f" :> Reg(1, 5, 1),
               "top" :> (1 :> "d") @@ "d" :> (1 :> "top" @@ 2 :> "f"))

\* A directory that cannot be read, and one that cannot be searched and has a name
\* in common with the one above.
Closed ==
    FileSystem(3, "top" :> Dir(1) @@ "u" :> [Dir(2) EXCEPT !.read = FALSE]
                  @@ "s" :> [Dir(3) EXCEPT !.search = FALSE] @@ "f" :> Reg(1, 5, 2),
               "top" :> (1 :> "u" @@ 2 :> "s") @@ "u" :> (1 :> "f") @@ "s" :> (2 :> "f" @@ 3 :> "f"))

\* A directory that cannot be read, between files, all of it searchable.
Unreadable ==
    FileSystem(9, "top" :> Dir(1) @@ "u" :> [Dir(2) EXCEPT !.read = FALSE]
                  @@ "f" :> Reg(1, 5, 2) @@ "g" :> Reg(1, 6, 1),
               "top" :> (1 :> "f" @@ 2 :> "u" @@ 3 :> "g") @@ "u" :> (1 :> "g"))

\* Inode 0 with two names, and an inode number on two devices.
Devices ==
    FileSystem(9, "top" :> Dir(1) @@ "z" :> Reg(1, 0, 4) @@ "a" :> Reg(1, 7, 2) @@ "b" :> Reg(2, 7, 6),
               "top" :> (1 :> "z" @@ 2 :> "z" @@ 3 :> "a" @@ 4 :> "b"))

\* More devices than tables.
ManyDevices ==
    FileSystem(9, "top" :> Dir(1) @@ "a" :> Reg(1, 7, 2) @@ "b" :> Reg(2, 7, 2) @@ "c" :> Reg(3, 7, 2),
               "top" :> (1 :> "a" @@ 2 :> "b" @@ 3 :> "c"))

\* Branches at two depths, and an empty directory.
Branches ==
    FileSystem(9, "top" :> Dir(1) @@ "d" :> Dir(2) @@ "e" :> Dir(3) @@ "f" :> Reg(1, 5, 3),
               "top" :> (1 :> "e" @@ 2 :> "d") @@ "d" :> (1 :> "e" @@ 2 :> "f" @@ 3 :> "e")
               @@ "e" :> None)

SmallTrees == {HardLinks, Loop(3), Loop(9), Closed, Unreadable, Devices, ManyDevices, Branches}

Plain == [depth |-> 9999, sum |-> FALSE, dup |-> FALSE, quick |-> FALSE, visual |-> FALSE, sort |-> FALSE]
SomeOptions ==
    {Plain, [Plain EXCEPT !.depth = 1], [Plain EXCEPT !.depth = 2],
     [Plain EXCEPT !.depth = 1, !.sum = TRUE], [Plain EXCEPT !.dup = TRUE],
     [Plain EXCEPT !.quick = TRUE, !.depth = 2], [Plain EXCEPT !.visual = TRUE],
     [Plain EXCEPT !.visual = TRUE, !.sort = TRUE, !.depth = 2]}

\* No argument; two that overlap; one that does not exist after one that does.
SomeArguments == {<<Dot>>, <<1, Dot>>, <<Dot, 9>>}
=============================================================================
