# Specifications of Systems-Fundamentals-II-Projects

TLA+ specifications, TLC configurations and TLAPS proofs for the five C programs of the
repository. A path such as `hw5/src/pbx.c` stands for
`src/hw5-Telephone-Multithreaded-Network/src/pbx.c`, and so on for the other four.
`PROJECT.json` gives for every definition the lines it models, and for every property a
mutation of the code's model that breaks it.

## 1. Inventory

The repository is five independent programs. They share no code and never run together.

| program | state | operations | what is hard |
| --- | --- | --- | --- |
| hw5 `pbx`, a telephone exchange server | the array of telephone units under one semaphore, a thread per connection, the sockets, the SIGHUP handler | accept, register, pickup, hangup, dial, chat, end of file, unregister, SIGHUP, exit | threads, one command changing two phones, descriptors that are reused, clients that stop reading or vanish, a handler that takes the lock |
| hw5 `tester`, its random client | the current state, the set of states expected next, the last command | read a notification, choose and send a command | commands and notifications that cross in transit |
| hw4 `polya`, a master with worker processes | a state per worker derived from wait statuses, the counters shared with the SIGCHLD handler, two pipes per worker, the current problem | start, assign, read and post a result, cancel, terminate; a worker's stop, continue, read, solve, write | signals that arrive anywhere, statuses that overwrite each other, results that come late |
| hw3 `sfmm`, a memory allocator | a heap of blocks with header bits, segregated free lists, a wilderness block | malloc, free, realloc, memalign | the bits of a block must agree with its neighbours after every split, merge and extension |
| hw1 `sequitur`, a compressor | a grammar of linked rules, a table of digrams with tombstones, the byte stream | append a symbol, replace a digram, make and remove rules; encode and decode | two invariants of the grammar kept by mutual recursion, a hash table at its limit, multi-byte bounds |
| hw2 `vtree`, a directory lister | global counters for the current line and in total, branches left at each depth, the working directory, a table of inodes per device, one `struct stat` | open a directory, count its files, descend into its directories, enter an inode | sums shown and reset in several places, a global that survives a failed `stat`, links that make loops, two `chdir` around every recursion |

### hw5, the PBX

* **Units** (`pbx.c`): `state`, `extensionNumber`, `connectedNumber` per descriptor, all
  changed between `P(&mutex)` and `V(&mutex)`. Dial, pickup, hangup and unregister change two
  units in different statements; both clients are notified from inside the lock.
  *Correct when* the two ends of every call agree, every client knows its own state, every
  path posts the mutex once, and a unit is registered exactly while its thread serves it.
* **Service threads** (`server.c`): register, read lines and dispatch, unregister at end of
  file, close. They interact with the units by calls and with each other through the lock.
  *Correct when* every connection that ends releases its phone and the other end of its call,
  and nothing meant for an old connection reaches the one that reuses its descriptor.
* **Main and SIGHUP** (`main.c`): the accept loop creates a thread for each connection; the
  handler calls `pbx_shutdown` and `exit` on whichever thread it interrupts.
  *Correct when* a SIGHUP ends the server (it does, unless it reaches a thread that holds the lock).
* **Tester** (`util/tester.c`): a table of states expected after each command.
  *Correct when* it never fails against a server that works.

### hw4, Polya

* **Master** (`master.c`): a main loop that scans for stopped workers, reads and posts their
  results, and assigns the next problem when all are idle; a SIGCHLD handler that turns wait
  statuses into worker states. They share the worker table and four counters.
* **Workers** (`worker.c`): stop, be continued, read a problem, solve it (or be cancelled),
  write a result; three signal handlers set flags.
* **Problems** (`problem.c`, solvers): the current problem, its variants, posting a result.
  *Correct when* worker states change only along the documented cycle, an idle worker is really
  stopped, a posted problem is never one that was freed, no problem is lost, and the master
  ends with its workers.

### hw3, hw1, hw2

* **hw3 `sfmm.c`**: *correct when* blocks tile the heap, the previous-allocated bits agree with
  the blocks before, free blocks are in the list of their size exactly once, and no two
  neighbours are free.
* **hw1**: *correct when* decompressing gives back the input; on the way, every digram occurs
  once, every rule is used twice, the table finds each digram that is in it.
* **hw2** (`vtree.c`, `hash.c`): a recursive walk over global state. *Correct when* every file
  within reach is counted, none twice, whatever is counted ends in the totals once, names are
  looked up where they were read, and the walk ends, also when entries disappear under it.

The hazards each of these is exposed to are listed with their lines in `PROJECT.json`.

## 2. The modules

| module | what it is |
| --- | --- |
| `Exchange` | what a telephone exchange promises, without threads, lock or sockets |
| `PBX` | `pbx.c`, `server.c`, `main.c` |
| `MCPBX` | instances of `PBX` for TLC |
| `PbxTester` | `PBX` composed with the automaton of `tester.c` as its clients |
| `MCPbxTester` | instances of `PbxTester` for TLC |
| `PBX_proofs` | theorems about `PBX`: the lock, registration, the ends of a call, and that it implements `Exchange` |
| `PBX_notes_proofs` | theorems about `PBX`: what is written to the clients |
| `PbxTester_proofs` | theorems about `PbxTester` |
| `Polya` | `master.c`, `worker.c`, `problem.c`, the outcome of the solvers |
| `MCPolya` | instances of `Polya` for TLC |
| `Polya_proofs` | theorems about `Polya` |
| `Sfmm` | `sfmm.c` |
| `MCSfmm` | instances of `Sfmm` for TLC |
| `Sfmm_proofs` | theorems about `Sfmm` |
| `Digrams` | `digram_hash.c` |
| `Sequitur` | `symbol.c`, `rules.c`, `sequitur.c` |
| `Codec` | the bytes of a transmission: its marks and the encoding of symbol values (`comdec.c`) |
| `Comdec` | `compress` and `decompress` of `comdec.c` as the two ends of a pipe, on top of `Sequitur` and `Codec` |
| `Grammar` | the rules that `compress` has, read as a grammar, and what hw1 asks of them (recursive operators, for TLC) |
| `Comdec_proofs` | theorems about these: the encoding, memory safety, that the rules arrive |
| `MCComdec` | instances of `Comdec` for TLC |
| `Vtree` | `vtree.c`, `hash.c` |
| `MCVtree` | file systems, options and arguments for TLC |
| `Vtree_proofs` | theorems about `Vtree`: places, types, the table of inodes |
| `Vtree_count_proofs` | theorems about `Vtree`: what is counted, and the branches |

### PBX

A descriptor is the index of the unit and its extension number, so one set `Ext` names the
units, the connections and the service threads.

| state | in the code |
| --- | --- |
| `state`, `extension`, `connected` | the fields of `TU`; `"NONE"` and `None` are -1 |
| `mutex` | the semaphore's value |
| `pc`, `cmd` | where a service thread is, and the call of `pbx.c` it has yet to finish |
| `link`, `wire` | the client's end of a connection (`"up"`, closed by the client, reset), and what was written to it and not read |
| `told` | the last notification written (history, for the properties) |
| `process`, `hup`, `freed` | whether the server runs or how it ended, the handler on each thread, whether the PBX was freed |

A call of `pbx.c` takes two steps: `Enter` is `P(&mutex)`; the body (`Register`, `Unregister`,
`Pickup`, `Hangup`, `Dial`, `Chat`) does what the function does up to its `V`, writes included.
Nobody reads the units in between, so this loses no behaviour, and a SIGHUP can still fall
between the two. `Write` is where sockets come in: a body that writes to a client that is up
but has `Capacity` unread messages cannot go on (`write` blocks while the lock is held); a
client that has gone takes one more write, answered by a reset; a write after the reset raises
SIGPIPE, which ends the process. A chat is written byte by byte and can meet the reset it
provokes. `Accept` takes any closed descriptor, so descriptors are reused at once. `Receive`
gives the thread any command, or a line that `server.c` does not recognise (`Skip`). `ReadEof`
is end of file or an error; lines that the thread's buffer still holds can be read before it, after a
reset too. `Sighup` delivers the signal to the main thread, or to another
thread while the main thread is in the handler (the kernel's choice); `Shutdown` and `Exit` are
the handler. A service thread that enters a body after the free is `UseAfterFree`, from where
nothing is known (`process = "undefined"`), as after `AcceptFails` (descriptor -1). `SelfDeadlock` is
a SIGHUP on a thread inside pbx.c: the handler waits for the mutex of the call it has interrupted.

`Exchange` describes phones with a tone, calls that ring and calls that talk; ringing,
answering and dropping a call are single steps for both ends. `PBX` refines it: `X` in `PBX`
gives the mapping.

### PbxTester

`NextStates` is the table `next_states`: the states expected when nothing crosses the command,
and those that can arrive late. `TReadChat`, `TReadNormal` and `TReadCrossing`
(which also fails the test on a state expected in no way) are one iteration of `test()` each, by what
the message is. The tester's
delays and random choices are a free choice of any command at any time.

### Polya

| state | in the code |
| --- | --- |
| `at`, `i`, `j` | where the main loop of the master is, and its loop indices |
| `state`, `prob`, `known` | the fields of `struct Worker`; `known` says that `pid` is stored |
| `workersStopped`, `old` | the counter, and its value as loaded by `workersStopped--` |
| `solved` | `isCurrentProblemSolved` |
| `current`, `made`, `kind` | `current_problem`, the problems generated so far, their types |
| `accepted` | the problems that a correct result has cleared (history, for the properties) |
| `pc` | where a worker is; `"stopped"` after SIGSTOP, `"waking"` after SIGCONT before it runs |
| `pending` | the signals sent to a worker and not delivered |
| `sigcont`, `sigterm`, `canceledp` | the flags of the worker's handlers |
| `job`, `answer` | the problem a worker has read, what its solver returned |
| `report` | the wait status of a worker that the master has not waited for: the kernel keeps one |
| `problemPipe`, `resultPipe` | the two pipes of a worker, a record a message |

The main loop takes a step for each worker it looks at. The SIGCHLD handler (`Reap`, a status a
step) runs between any two of them, and `workersStopped--` is a load (in `ReadFound`) and a store
(`Minus`). Elsewhere a step of the loop is atomic, because what the handler can change (the
entries of other workers, or of this one when it stops) is not read or written in the rest of the
step. `Fork` and `StorePid` are apart because the child runs before its pid reaches the table.
A read that finds no result is not enabled: the master waits in it (its handler still runs).
The counters that only debug output shows are left out.

A worker goes through `Stop`, `Wake`, `TestFlags`, `ReadProblem`, `Solve`, `WriteResult`.
`Interrupt` delivers a pending signal at any point where a worker runs; waking delivers all of them
before `raise` returns. A solver finds a solution at any time, and the miner fails only when it
has seen `canceledp`. A nonce found for one block is taken not to fit another (the difficulty is
at least 20 bits); a result of the trivial solver fits every trivial problem and the
miner's results fit trivial problems too: `trivial_check` (`trivial.c:98`) accepts whatever is not marked
failed. A late trivial result checked against a block is refused; the code reads past its end first
(`crypto_miner.c:226`), for it has no nonce.

### Sfmm

Memory is counted in units of `M` bytes (64 in the program); block `u` is the block whose payload
is `u` units after the first. A header or footer is the number the code stores, so the bits can be
wrong in the ways they are in the code.

| state | in the code |
| --- | --- |
| `heap.pages` | how often `sf_mem_grow` has succeeded; the epilogue is `Epilogue(heap)` |
| `heap.header`, `heap.footer` | `header` and `prev_footer` of the block at each unit; `Data` where the word belongs to the program |
| `heap.lists` | `sf_free_list_heads`, from the front |
| `heap.fault` | what went wrong: `"abort"`, `"nomem"`, a wild pointer, a damaged header |
| `held` | the blocks that the program has and their true sizes (for the properties) |

`Malloc`, `Free`, `Shrink`, `Move` and `ReallocInvalid` (the cases of `sf_realloc`) and `Memalign`
are whole calls, built from operators on the heap that follow the helpers of `sfmm.c` one by one.
`is_allocated_block` reads the footer of the block before, which is the program's data when that
block is allocated: its answer is then a free choice (`told`). Coalescing backwards through such a
footer is a wild pointer, after which nothing is known. A split that borrows from the size of the
next header (`SplitOff`) is followed as long as the size it leaves is no multiple of `M`: such a block
is refused by every call, and its neighbours are not affected.

### Digrams, Sequitur, Codec and Comdec

The memory of `compress` is one record `m`, and the functions of the program are operators from
memory to memory, in the order and with the aliases of the code: a symbol is an index into
`m.sym`, a field that is NULL is 0.

| state | in the code |
| --- | --- |
| `m.sym` | `symbol_storage` up to `num_symbols`; `head` says that `rule` is the symbol itself |
| `m.recycled` | `recycled_list`; the stack goes on through `prev` |
| `m.main`, `m.nonterminal` | `main_rule`, `next_nonterminal_value` |
| `m.table` | `digram_table`, a function on the slots that are not NULL |
| `m.beyond` | the word after `digram_table`, which two of its functions read before they wrap |
| `m.calls` | the calls of `check_digram`, `replace_digram` and `process_match` that are still to be made, the next one first |
| `m.fate` | whether the process runs, or has followed a NULL pointer, aborted or hung |
| `input`, `room`, `eof` | the bytes read, how many the block still takes, whether the input has ended |
| `pen` | `rule` and `curs` of `write_compression_data`, while it writes |
| `wire`, `open` | the bytes written and not yet read, and whether the writer is still there |
| `d`, `output` | the flags and rules of `decompress`, with `d.todo` the values it has yet to expand; the bytes it wrote |
| `sent`, `taken` | the rules of each block as written, and as expanded (history, for the properties) |

`ReadByte` appends a byte to the main rule; `Rewrite` makes one call of those it sets off. The three
functions call each other last, or with only a call after that, so that what a function has left to do is
put on the stack as a call of its own ("check both" is the end of `replace_digram`, which checks the
digram on the left and, if that replaced nothing, the one on the right). Everything else is an operator. Pointers into recycled
symbols are followed as the code follows them, into whatever the symbol holds now, until one is NULL: then
the fate is a fault, and `Breaks` leaves any part of what was written. `WriteMainRule`, `WriteSymbol`,
`WriteRule` and `EndBlock` are `write_compression_data`, a value at a time; they go through `next` and
`nextr` until these come back to the head and to the main rule.

`decompress` has an action for each kind of byte; a rule is the sequence of values of its body, as nothing is
ever removed from it. `ExpandByte` and `ExpandRule` are `decompress_expand`, its recursion turned into the
sequence of values that it and its callers have left; so the model has no bound on its depth, and expands
for ever where the program fills its stack. `new_symbol` drops the rule it is given, so no reference is ever
counted; the functions that depend on counts (`expand_instance`, `delete_rule`, `ref_rule`) cannot be
reached, and what is left of the utility test is `RuleUtility`.

`Codec` follows the code's arithmetic, the mistakes included: `Encode` gives the bytes that
`write_utf_value_to_file` writes, `Decode` what `check_next_char` makes of them (-1 for an error),
and `Width` the number it reads. The code packs the bytes into an `int`; the module keeps them apart.
`Codec` has no state. It was compared with the compiled functions on all values below 2^16 and on
samples of byte sequences of one to four bytes.

The compiled program and the model agree on all 2047 inputs of up to ten bytes that are each `a` or
0x81 (a mark, and a byte that takes two bytes when encoded): the program ends in a segmentation
fault on the ten on which the model faults, and round-trips the others; with blocks of five bytes
the two transmissions are equal byte for byte.

### Vtree

| state | in the code |
| --- | --- |
| `tree` | the file system: what `stat` says of each node, the entries of each directory, the descriptors left |
| `opts`, `args`, `arg` | `depth`, `sum`, `dup`, `quick`, `visual`, `sort`; the arguments, and `i` in `vtree_main` |
| `stack` | the calls of `down` that have opened a directory: `phase` is the loop it is in, `list` the entries kept, `todo` those still to visit in the loop, `back` its `cwd` |
| `pending` | the argument of a call of `down` that has not yet opened its directory |
| `cwd` | the working directory of the process |
| `stb` | the node the last successful `stat` was about; it is global and a failed `stat` keeps it |
| `cur_depth`, `sub_dirs`, `sizes`, `inodes`, `total_sizes`, `total_inodes` | the same |
| `table` | the keys in the table of each device (`tables` of `hash.c`) |
| `counted`, `vanished` | how often each node went into `sizes`, what has disappeared (history, for the properties and the bound) |

`NextArgument` and `ArgumentDone` are the loop of `vtree_main`. `Return` is `down` returning before or
at `opendir`, `Open` its start up to `chdir`; `ReadAll`, `ReadEntry` and `EndOfDirectory` are its
reading loop with the sort (only a quick or visual display looks at the entries while reading);
`CountNothing`, `CountFile` and `EndOfCount` its counting loop, with the sums shown at its end;
`Descend` an iteration of its last loop up to the recursive call, `PassOver` one that calls nothing,
and `Leave` its end with the second place where sums are shown. The list is in the order of the
names if it is sorted, and in any order otherwise (`InOrder`). A step has at most one `stat`, so `Vanish`, another process that removes an
entry, comes between any two of them; the two `stat` of an iteration of the last loop
(`chk_4_dir`, `get_data`) are one step, because the second one keeps what the first found if the
entry goes in between.

Names are numbers in the order of `strcmp`, "." is 0, and ".." (skipped everywhere) is left out.
`stat` follows symbolic links, so a link is a second name of its target and a directory can be its
own descendant. `table` keeps key sets in place of buckets: a key is found if it was entered, except
that 0 is found never (a bucket's slot 0 is not filled). Device and inode are reduced modulo `IntSize`
because `vtree.c` declares `h_enter` with `int`s. A walk deeper than `sub_dirs` (`MaxVDepth`) and
one over more devices than `tables` ends in `pc = "undefined"`. The width of the columns and
the drawing of the tree are left out, and so is `LSTAT`, which the Makefile does not define.

The totals of sizes and inodes that the model computes were compared with those of the compiled
program on 91 combinations of four directory trees, options and arguments: all are equal.

## 3. The runs

| run | instance | what it shows |
| --- | --- | --- |
| `pbx_two` | 2 phones, 1 message per socket, 2 SIGHUPs, fair | lock discipline, registration against reuse of descriptors, every notification, answers; the mutex is always released again, quiet clients are served, gone ones unplugged and SIGHUPs acted on, unless the server has ended or hangs on a SIGHUP inside pbx.c |
| `pbx_three` | 3 phones, no SIGHUP, cut by `FewPending` | both ends of every call; the refinement of `Exchange` |
| `tester_two` | 2 testers, 3 messages per socket, at most 2 commands unread | no crossing makes a tester fail |
| `pbx_sigpipe` | 2 phones | *violated*: a vanished client ends the server |
| `polya_two` | 2 workers, 2 problems, both types, fair | states, pipes and the current problem agree; no read blocks for ever; nothing is lost on the way to the end; a worker given a problem stops with a result |
| `polya_late_result` | 2 workers, 2 problems | *violated*: an old result is posted for the next problem |
| `polya_lost` | 2 workers, 2 problems, fair | *violated*: a lost increment stops the master |
| `sfmm_small` | 2 pages of 9 units, up to 3 live blocks | blocks tile the heap and are coalesced, free ones are filed once under their size, footers are headers, the heap grows only when nothing fits |
| `sfmm_prev_bit` | the same | *violated*: a merge forgets that the block before is allocated |
| `comdec_blocks` | up to 11 bytes, `a` or 0x81, in blocks of 10 | pointers are good; the grammar derives what was read unless a rule contains itself, and repeats no digram, no symbol is lost or used twice, the rules arrive, blocks are full, the output is the input, or a part of it after a fault |
| `comdec_recursive` | one input of 35 bytes of three letters | *violated*: an entry left in the table leads to a rule that contains itself |
| `vtree_walk` | 8 file systems, 8 sets of options, 3 lists of arguments, 1 entry disappears | whatever is counted is once in the sums, no inode twice, every file within reach; branches drawn; names looked up where they were read; the walk ends |

**Bounds.** Two phones are enough for a call and for the reuse of a descriptor while the other
phone acts on it; the third phone of `pbx_three` is what can dial, find busy or take over a
phone that is in a call with another. With three phones the full state space is out of reach of
a short run: `FewPending` keeps the states in which at most two of these are pending: a call of
`pbx.c` under way, a client with an unread message, a client gone. `Capacity` = 1 blocks a writer
as early as possible, so blocking is exercised in all these runs. In `tester_two` the capacity is
3 and a tester writes at most two commands ahead of the server (`MaxUnsent`): the tester can
really run ahead further, so this is a bound and not a fact (`PbxTester_proofs` does without it). `MaxHups` is the number of
SIGHUPs: the first is handled on the main thread, and the second of `pbx_two` can reach a service thread
at any place. A third would only meet a server that is about to end or hangs already. Symmetry under renaming of the phones is used in runs without liveness only.

Two workers are one that solves and one that is cancelled; two problems are one that leaves a
result or a SIGHUP behind and one that meets it. With three problems the invariants hold too (7.2
million states, too long for a run kept here), so a leftover of a leftover does no more. All
Polya runs allow deadlock: the master really stops for ever once a worker or an increment is lost.

For `Sfmm` the unit has 8 bytes and a page 9 units, of which 7 are usable in the first page and 4
at the end of the heap cannot be freed (the bound in `is_allocated_block`), so in both pages some
blocks can be freed and some cannot. The sizes are 1, 3 and the whole of two pages, which makes every
way to grow happen (no page, one, two, more than there are); the three blocks leave room for a block
between free neighbours, and sizes 1 to 16 reach the first seven lists. Alignment 2 makes
`Memalign` skip a unit or not.

`Comdec` runs with the sizes of the program's own table and storage; only the input is bounded. Ten
letters of two kinds are enough for triples, rules within rules, replacements that set off others
and symbols that are recycled and used again, and they are the fewest on which the table's fault
shows. Eleven letters in blocks of ten give an empty last block, one of a single byte,
and a full one. A search that wraps needs a block with some 27000 rules, so no run meets the word
after the table. The second letter is 0x81, SOT: a byte that must not be taken for a mark and has
two bytes of its own. The values of three bytes do not occur in a run (they need blocks with over 1700
rules); `Comdec_proofs` covers them. The run stops when both processes have ended. `Scripted` keeps
`comdec_recursive` to one input, bcacbcccbcbaccbcaccbcbaccbcbaccbccc, the shortest found on which a rule gets
its own nonterminal into its body; the compiled `compress` ends with exit status 0 on it, and `decompress`
with a full stack. GrammarDerivesInput is therefore a statement about grammars in which no rule contains
itself. In `comdec_blocks` all are such. Along the input of `comdec_recursive` it holds too, as do
SymbolsAccounted and DigramUniqueness (add them to the cfg to see it); its last byte makes the first rule
that contains itself, with which the rules derive nothing.

Each file system of `MCVtree` has one difficulty: two names of a file, and an inode that equals
another in `IntSize`; a link to the directory above, with few descriptors and with more than
`MaxVDepth`; a directory that cannot be read, alone and beside one that cannot be searched; inode 0, and one inode
number on two devices; more devices than `MaxTables`; directories that are met twice, one empty.
The options are those that steer the walk, each alone and in the pairs that interact (depth
with sum, quick and visual); the arguments overlap, or one does not exist. `MaxVDepth` is 4 for 256,
`MaxTables` 2 for 50, `IntSize` 1024 for 2^32: each is passed by some file system and
by others not. One entry that goes is enough for each of the windows between two `stat`; a
second would meet the same windows.

**Fairness.** `Vtree` has weak fairness of its one process (`Step`), never of `Vanish`. `Polya` has weak fairness of the main loop, of the handler for each worker, and of each
worker's steps and signals: the kernel schedules every process and delivers its signals, and a
solver ends (with a solution, if it is not cancelled). In `PBX`, `Fairness` gives weak fairness to every service thread's own steps (the kernel
schedules each thread that can run), to the handler, and to clients reading their connection
(a client that is up and never reads stops the server for good; this is the hazard at
`pbx.c:212` and is outside what the runs assume). The semaphore is weakly fair only: a thread
may lose the race for it for as long as others take it. Clients need not send, connect or leave.
`EveryCallServed` is therefore conditional on clients that fall quiet (`ClientsQuiet`): a stream of
other calls could starve a waiting thread, or the handler.

**Disagreements without a run of their own.** The models also have these steps, which are seen by
reading the actions named (or the theorem, or the line, for what is not in a model):

* A dial (or a chat cut short) in a call is answered CONNECTED with the own number (`Dial`;
  hw5 README: "CONNECTED #, where # is the number of the extension to which the connection exists").
* A second SIGHUP taken by a thread inside pbx.c, while the first is being handled, leaves the server
  waiting for ever (`SelfDeadlock`; `main.c:60`: "receipt of SIGHUP will perform a clean shutdown of the
  server"). `pbx_two` reaches these states. `MutexReleased` and `EveryCallServed` name them (`Over`) and so
  does the step that lets a server that is over stand still (`Ended`): with 2 SIGHUPs each of the two
  properties fails when `Over` is only that the process has ended, and TLC reports the deadlock.
* A failed allocation with pages left files the wilderness in two lists, one without takes the
  epilogue for a free block (`Grown`); `sf_memalign` does not test the result of `sf_malloc`.
* A split of a free block whose successor is allocated borrows from that block's size (`SplitOff`), and
  that block can no longer be freed.
* A line that is no command, or dials a number outside 1..1023, gets no answer (`Skip`;
  hw5 README: the response "will simply report the unchanged state").
* Between the free in `pbx_shutdown` and `exit` service threads still enter pbx.c
  (`UseAfterFree`; `pbx.h`: shutdown waits for all server threads to terminate first).
* The tester takes RINGING cancelled to ON HOOK for the answer to its last command
  (`TReadNormal`), so it can be two commands ahead of the server.
* A worker that stops before `fork` has returned in the master makes the master exit
  (`ReapUnknown`).
* SIGCONT and SIGTERM are sent in a row to end a worker: one that runs in between looks at its flag,
  waits for a problem that never comes and does not look again (`TestFlags`, `ReadProblem`;
  `polya.h`: "If a SIGTERM signal is received by a worker, it will terminate normally").
* `sf_free` aborts on a block that ends within 256 bytes of the epilogue (`Valid`).
* A rule can be left with a single use, as the first rule is for aabaab (`RuleUtility`; hw1
  README:922: "Each rule in the CFG has at least two references to it").
* `compress` can end in a segmentation fault, on aaaaaabaab for one (`Follow` of a NULL pointer, reached
  through an entry that outlived its digram; `comdec.c:351`: "The number of bytes written, in case of
  success, otherwise EOF"). `comdec_blocks` allows for it by `m.fate`.
* `digram_put` takes a vacant slot before it has seen that the digram stands in a later one
  (`DigramPut`); one of the two entries outlives the digram.
* `digram_get` and `digram_put` read the word after the table when they wrap (`Read`), and
  `digram_delete` never ends in a full table when it starts at slot 0 (`DeleteHangs`).
* The second call of `add_rule` for a rule makes its `prevr` point to itself (`MakeRule`; `rules.c`:
  a doubly linked list). Only `nextr` is ever followed.
* An input that ends with a full block, or is empty, gives a block with an empty rule (`WriteMainRule`;
  `sequitur.h`: "a sequence of three or more symbols").
* A symbol value from 2^16 on is written as one byte that the decoder refuses or takes for a mark
  (theorem LargeValuesRefused; `sequitur.h:83`: `SYMBOL_VALUE_MAX` is 2^21); decoding four bytes puts
  bits of the first on top of those of the second (`FourBytes`).
* The bytes that follow the first of a value are not checked (`Decode`; `is_byte_msb_10` is always
  true), and an end of file within a value reads as one (`BeyondEnd`).
* `compress` counts a value of several bytes as none (`utf_8_bytes_checker` is given the packed word),
  so the count it returns is too small (`comdec.c:351`: "The number of bytes written"); a block size is
  converted in an `int` that overflows, so that 4294967297 is accepted as 1 (`convert_block_size`).
* `vtree` counts files only (`CountFile`, `Visits`; hw2 README:343 asks for the directories too, and
  README:273 speaks of "inodes (files or directories)"), and a directory is 4 K whatever its blocks.
* A directory that cannot be read or is hidden by the depth adds its 4 K to the line that is printed
  next (`Return`); with `-v` the files are never counted.
* `-t -i` prints `inodes`, those since the last line, and not `total_inodes` (`vtree.c:677`).
* In a directory that cannot be searched the names are looked up in the one above (`Open`), where a
  file of the same name is counted in their place.
* No `chdir` is looked at (`vtree.c:284`, `454`). The model has the one into a directory that cannot be
  searched; the one back always succeeds in it, as `Vanish` removes no directory that is open or has entries.
* An entry that disappears is taken for the one before it (`Stat`): after a directory it adds 4 K more,
  after a file that file is counted again with `-d`.
* Inode 0 is never recognised (`OLD`), inodes equal in 32 bits are taken for one (`Key`), the 51st
  device has no table (`TablesFull`), the 256th level no element of `sub_dirs` (`Open`).
* A SIGHUP that reaches a worker after its result cancels the next problem (`Interrupt` in
  `"starting"`, `Solve`). ReadsFindAResult says that this does not stop the master.

## 4. The proofs

`PBX_proofs` proves for every set of descriptors, every capacity and any number of SIGHUPs:
`TypeCorrect`, `MutualExclusion`, `Registration` and `EndsAgree`, that is TypeOK, MutexDiscipline,
RegisteredIffServed and CallSymmetry as invariants of `Spec`. The only assumption is
`PBXAssumption` (the main thread and -1 are no descriptors; a socket holds at least a message).

None of the four is inductive alone. A body returns early when its unit is not registered and
keeps the mutex (`pbx.c:74`): that it never does needs RegisteredIffServed. That a unit may be
unregistered and its descriptor reused without leaving a connection behind needs CallSymmetry,
and dialling writes the callee's extension number where CallSymmetry needs the callee itself,
which is RegisteredIffServed again. `IInv` is their conjunction. The proof goes
by conjunct: `TypeStep`, `MutexStep`, `RegisteredStep`, `SymmetryStep`, each with a step for every
action that can disturb it; `BodyLeaves`, `BodyTypes`, `BodyRegisters` and `DisconnectSymmetry`
say once what the bodies do; `OutsideUnits` says that nothing else touches a unit.

`PBX_notes_proofs` proves `ToldTheState`, `FreshIsSilent` and `CallsAnswered`: ClientsAreTold and
FreshConnectionSilent are invariants, and every step keeps EveryCallAnswered. All three follow from what
the writes of a body have to do with the states it changes: `Announces` says that they go to registered
units and carry their new state, that every unit whose state changes gets one and no other unit does,
but for chat in a call, and that the caller of the body is always answered. `BodyAnnounces` shows this
of every body. `NetInv` adds what the life of a connection contributes: a descriptor is closed, and
so reused, only after its client has gone, when nothing can be on its wire.

The last section of `PBX_proofs` proves `Implementation`, that `Spec` implements `Exchange`. Under the mapping in `PBX` (`XTone`, `XRinging`, `XTalking`) every body is one step of the exchange or none:
hanging up is the end of a call for both ends at once because CallSymmetry says that the two statements
of the code that change the two units find them as the two halves of one call.

`PbxTester_proofs` proves `NoTestFails` and `ChatWhenConnected`: NoUnexpectedState and ChatOnlyInACall are
invariants for any number of testers and sockets of any size, with no bound on how far a tester runs
ahead (`MaxUnsent` is not used). `TestersAreClients` says that `TSpec` implies the `Spec` of `PBX`, so that
everything proved of the server holds here. The invariant is about one connection. `Tracks` says that
there are commands `q` under way, and a place for the answer to each, such that every message on the wire
is the answer to the next command or an asynchronous change that `Crossing` allows in the state before
it (`History`), that the commands after the answered ones are those the server has yet to read
(`Unanswered`), and that the tester expects what `next_states` says for the last one (`Expects`). A tester
is not always just one command ahead: when a call is cancelled while it hangs up, the ON HOOK that
crosses its command is taken for the answer. `Expects` says that then it is in ON HOOK or RINGING and
none of the earlier commands is a pickup, and `History` that such commands do not lead out of these two
states; so every late answer is one that the table expects anyhow (`Reading`). `Extended` and `Shifted`
add a message at the end of a history and take one from its front.

`Polya_proofs` proves for any number of workers and problems `TypeCorrect`, `IdleStopped`,
`LiveProblems`, `StatesInOrder` and `AllSolvedAtTheEnd`: TypeOK, IdleIsStopped, PostsLiveProblem,
StatesFollow and EndsWithAllSolved of `Spec`, from `PolyaAssumption` (there is a worker, and the
kinds are those of the two solvers). The state in the table is the master's belief, built from
statuses that overwrite each other, so IdleIsStopped says nothing about what led to it.
`Consistent` lists for each believed state where the worker can be, with its pipe, flags and pending
signals; `MasterIsRight` says so of all workers until they are terminated. `Position` relates the
table to the place of the main loop (during an assignment the workers not yet reached are idle),
`Counted` is what keeps the counter in Nat although its updates race, and `Accounted` says that the
problems made are the accepted ones and the current one. Each conjunct has its step lemma
(`RightStep`, `PositionStep`, `CountStep`, `LiveStep`, `AccountStep`, `HasJobStep`); `Unmoved`,
`OtherWorkers` and `Learned` say once what an action leaves alone.

The last section of the module proves `ResultsThere`, that ReadsFindAResult is an invariant: while the current
problem is unsolved, a worker the table shows as stopped has a result in its pipe. A worker fails
only when a SIGHUP reaches it, and one that arrives after the worker's result cancels its next problem. `Credit`
says that a worker which can fail while its problem is unsolved has a successful result of an earlier
problem unread in its pipe: late cancellations and leftovers come in pairs.

`Comdec_proofs` is about hw1, for every set of letters, block size, size of the table and storage, and length
of the input. Its assumptions are that letters are bytes and that the sizes are not 0 (`DigramsAssumption`,
`SequiturAssumption`, `ComdecAssumption`). It has three parts.

* *The encoding.* `Decode(Encode(x)) = x` below 2^16 (`DecodeEncode`), the first byte of a value is no mark and
  tells its length (`FirstByteTells`), and every value from 2^16 on is refused (`LargeValuesRefused`). The proofs
  split on the bounds of the encoding and recombine quotients and remainders by 64 and 4096. The runs reach
  only values of one and two bytes.
* *Memory safety.* `TypeCorrect`: TypeOK is an invariant. It says that every pointer in memory, in the table
  and on the stack of calls is NULL or a symbol that was taken, so that whatever stale entries the table has kept
  (and `comdec_recursive` shows that it does), no function follows a pointer but to a symbol; NULL and the word
  after the table end the program. `After(mem, n)` says that a step from `mem` to `n` keeps this and takes
  back no symbol. There is a lemma for each function (`NewRuleSafe`, `PutSafe`, `JoinSafe`, `InsertSafe`,
  `DeleteSymbolSafe`, `ReplaceSafe`, `UseRuleSafe`, `MakeRuleSafe`, `CheckSafe`, ...); `AfterAfter` and
  `PointersStay` compose them, `GetFindsSymbol` is about the search of the table. The recursion of the program
  is no induction here, because a call that is still to be made is an element of `m.calls`.
* *The rules arrive.* `Arrives`: GrammarsArrive is an invariant, for every interleaving of the two processes and
  every place where a broken transmission ends. The inductive invariant, `Arriving`, is about what is under
  way: a sequence of marks and values (`Carries`, along a `Path` of `Step`s) that takes `decompress` from where it
  is (`Match`) to where `compress` is (`Writer`), and the blocks it has taken are those that were sent
  (`Kept`). If the transmission was cut, there are bytes `lost` that would have completed it (`Flight`), and the
  last value may be read in part. Reading takes the first step off (`CarriesFirst`), writing adds one at the
  end (`CarriesMore`), which is associativity of concatenation and the two theorems on bytes. Nothing is
  assumed of the rules: those that contain themselves arrive too.

`Vtree_proofs` proves for every set of file systems, options and arguments and all bounds `TypeCorrect`,
`LooksUpAtHome` and `NoInodeTwice`, that is TypeOK, NamesAtHome and CountedOnce of `Spec`, from
`VtreeAssumption` (in each file system the directories are the nodes with entries, and entries are
nodes). NamesAtHome speaks of the call on top only; `AtHome` says of every open call that it goes back
to the directory of the call above it. CountedOnce says nothing of the table; `Entered` says
that what was counted has its key in the table of its device. `Shape` is what both need of the
stack. `PlaceStep`, `TypeStep` and `EnteredStep` show that a step keeps them; `Renewed` and
`Vanishes` say once what a change of the top call and a vanishing entry leave alone.

`Vtree_count_proofs` proves the three invariants about what is counted, `NothingLost`, `BranchesAreLeft` and
`EverythingCounted`, that is Conserved, BranchesLeft and AllCounted. The theorems on induction of the
library cannot be used here (they take an operator as a parameter), so induction over numbers is done
as a least counterexample: `Least` gives the smallest member of a set of numbers.

* Conserved compares totals with a sum over the nodes of the file system. `SumChange` says what a sum
  gains when one of its terms does, from `SumDef` and `SumPart`, which are proved over the sizes of sets.
  `OneMore` and `NoMore` then say what counting a file, and every other step, do to both sides.
* BranchesLeft says that `sub_dirs` holds what is left to draw at every depth. `BInv` says of each open call
  that its list has the subdirectories of its directory, each once (`Drawn`), and that the counter of its
  depth is the number of those still to be visited. It holds while no entry has disappeared and every
  directory can be searched: in one that cannot, `stat` fails for every name, the code judges each by
  what the last successful `stat` found, and the loop that counts subdirectories and the one that
  visits them can disagree. TLC finds this when `Searchable` is dropped from the property.
* AllCounted says that when the walk ends every file within reach has been counted. The invariant cannot say
  so of a directory when the walk leaves it, as its subdirectories may have been opened elsewhere,
  on a loop of links even above it. `Covered` is the largest set of pairs of a directory and a depth that
  are closed: the files of each are counted, and its subdirectories are in the set, or are the business of
  a call that is still open. `CInv` says that every open call has covered the part of its list it has
  passed (`Walked`), and so have the arguments (`ArgsWalked`). When nothing is open, whatever is reached
  through covered directories is covered (`Through`, by induction over the depth).

`Sfmm_proofs` proves `Typed`, `Tiled`, `FiledOnceHolds`, `FootersHold` and `GrowthNeeded`: TypeOK,
BlocksTile, FiledOnce, FootersMatch and GrowsWhenNeeded of `Spec`, for every unit, page size, number of
pages, sizes, alignments and blocks held, from `SfmmAssumption` (the unit is a multiple of 4 above 4,
so that two bits fit below a size and a size less 4 is no multiple of the unit; a page has room for a
block). None of the invariants is inductive alone: coalescing finds its neighbours by sizes
in headers and footers, and a block is taken out of the list where its size and place say it is.

* `Sound(h, B, L)` says that the program's blocks `B`, the loose blocks `L` (allocated still, but on their
  way to a list) and the free ones tile the heap, that headers, footers and lists agree with the tiles,
  and that no two free blocks touch. `Hole` says the same with one block in no hands.
* Every helper of `sfmm.c` leads from a sound heap to a sound heap, or to a fault: `FileSound`,
  `MergeSound`, `FreedSound` and `LooseSound` for freeing, `SplitOffSound`, `AllocateSound` and
  `HalvedSound` for splitting, `ExtendSound` and `GrownSound` for growing, `TailSound` for the end that
  `sf_memalign` gives back. The calls follow from them (`MallocSound`, `FreeSound`, `ShrinkSound`,
  `MoveSound`, `ReallocInvalidSound`, `MemalignSound`), and `Inv` is a sound heap between calls.
* The header of a block that was borrowed from is not its size. `Measures` allows for what may be missing,
  and `Odd` says that such a header is no multiple of the unit, so that every call refuses the block;
  `Exact` is the converse, that a header no call refuses is the size.
* The footer that backward coalescing reads may be the program's data, and then the call ends with a wild
  pointer; `Found` says that whatever else is there is the footer of a free block that ends at this place.
* The search takes the first block that fits from the first list that has one. `FitSound` and `NoFit`
  show that it finds a block exactly if there is one that is large enough, with the least member of a
  set of numbers in place of an induction over the lists; `GrowthNeeded` needs both.

`Inv` held in all states of the instance of `sfmm_small` before it was proved. The proof found one
mistake in the model: the guards of `SfFree` overlapped, so that it had no definite value for a bad
pointer given to a heap that had already failed. PrevBitsAgree is no theorem: `sfmm_prev_bit` shows how it
is violated, and `Sound` holds without it.

Model-checked only:

* GrammarDerivesInput, SymbolsAccounted, DigramUniqueness, RoundTrip and BlocksAreFull of hw1, within the
  bounds of `comdec_blocks`. Without its condition on the rules GrammarDerivesInput fails on the input of
  `comdec_recursive`, and with it the round trip of the compiled program; RoundTrip holds of the model
  there because the expansion never ends. An invariant that would carry these properties to every input
  has to say that every entry of the table names a live symbol, and that is what the code does not keep. Their operators also walk the rings of the program and are recursive, which the prover does not take.
* Liveness (MutexReleased, EveryCallServed, the ends of Polya and of the walk), which the
  prover does not handle.

Every other property of a passing run is a theorem.

## 5. Not modelled

Text of messages and lines (a line is a command, a chat or neither); option processing;
memory limits (a line allocates 10^9 bytes); failure of `pthread_create` or `malloc`; garbage in
the uninitialised `sa_flags`, taken to be 0; the rest of `csapp.c`, a textbook library of which the
server uses `P`, `V` and `open_listenfd`. In hw4: failing `pipe`, `fork`, `exec` and `malloc`, workers ended
by a signal, the capacity of pipes (a record is smaller), the contents of problems and the search
itself, and a search that exhausts its 2^64 nonces. In hw3: payloads (`sf_realloc` copies them),
requests so large that their size wraps in an `int`, pointers that were never handed out, and the
heap after a fault. In hw1: the counts of bytes returned, how deep the recursion may go, and option
processing. In hw2: the drawing of the tree (indentation, column widths, `-f`) and the text of each line,
option processing, failing `malloc`, the growth of buckets, the statistics of `hash.c`, and `direct.c`,
a replacement of `readdir` for System V that is not compiled on Linux.

## 6. Plan

In order of what matters most for a reader of the code:

1. `PBX`, `Exchange`, `PbxTester` and their three modules of proofs (done): every safety property of the
   runs is a theorem.
2. `Polya`, `Polya_proofs` (done): likewise.
3. `Vtree`, `Vtree_proofs`, `Vtree_count_proofs` (done): likewise.
4. `Sfmm`, `Sfmm_proofs` (done): every property of `sfmm_small` is a theorem.
5. `Digrams`, `Sequitur`, `Codec`, `Comdec`, `Grammar`, `Comdec_proofs` (done): memory safety and the
   transmission are theorems.

What would come next: the conditions under which the table of digrams stays right (no triple is
broken on its left), in place of the condition that no rule contains itself; and the capacity of the
pipes in `Polya`.
