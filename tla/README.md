# rank: a TLA+ verification development

`rank` is a `sort(1)` in C (`src/src`, about 8,600 lines). This directory holds TLA+ models of the
parts of it that are hard to get right and hard to test, the TLC runs that check them, and the TLAPS
proofs about them. `PROJECT.json` lists for every definition the source lines it stands for.

Checking a run: `tlc -workers 2 -config ExternalSort.cfg MCExternalSort.tla`. Checking the
proofs of a module: `tlapm ConcurrencyProofs.tla`.

## 1. The system

| Part | Source | State | Operations | What makes it hard | What makes it correct |
|---|---|---|---|---|---|
| command line | `main.c`, `options.c`, `key.c` | the options, the keys, the operands, which are collected in `argv` itself | read the words, refuse orderings that do not go together, let keys inherit `-r`, `-n`, ... | words that are options, values or operands by what came before; many combinations | every word is used as what it is; no key has two orderings |
| planner | `plan.c` and the choices in `check.c`, `merge.c` | none | choose the engine, the shortcut | each choice has conditions of its own | sort, check and merge have one order for the same options |
| line reader, key spans | `line.c`, `sys/scan.c` | the text of all operands, an array of lines, spans and transforms of keys | read, split, find fields, transform, detect sorted input | chunk ends, missing last newlines, a cache of field positions | the lines are the input; cached spans are the spans |
| comparators | `cmp.c`, `numeric.c`, `locale.c`, `md5.c` | none | compare keys, last resort | numbers of any length, versions | a total preorder |
| in-memory sort | `sort.c` | the array of lines and a scratch array | merge sort | stability | a stable sort |
| radix sorts | `radix.c` | two arrays of lines shared by threads | scatter by a byte, recurse, insert, go to the next key | threads, depth limit, shortcuts for sorted ranges | the same order as the merge sort |
| task pool | `sys/thread.c` | a counter and a context on the caller's stack | start, claim, run, join | interleavings, failing `pthread_create` | a parallel loop |
| external sort | `external.c` | a buffer, lists of temporary runs | read, write runs, reduce in passes, merge, clean up, filter through a program | every call may fail with files half made | the result of a sort in memory; no file left |
| table of temporary files | `external.c` | a growing array of paths | register, unregister, remove; the signal handler empties it | signals between any two stores | the handler reads live paths, removes all files that are registered, and does so once; not so while the table moves, see section 6 |
| merge | `merge.c` | a heap of inputs, one head each, with its parsed key | open, build the heap, emit, sift | empty files and records, ties, cached keys, output over an input | a stable merge |
| order check | `check.c` | two record buffers that change places, one kept key | read, compare neighbours | buffers that move, three ways to compare | accepts exactly what a sort leaves as it is |
| output | `output.c` | a vector of pieces to write | write lines, `-u`, reversal, `--debug` | partial writes | the lines, in order, once |

How they interact. `main` calls the planner and then one of: check (`-c`), merge (`-m`), external
sort (when `-S` is given), in-memory sort. The external sort sorts each buffer with
the in-memory sort and merges its runs with `rank_merge_all`, which is the streaming merge for plain
bytes and a merge in memory otherwise. The in-memory sort uses a radix sort or the merge sort, and the
radix sorts give their buckets to the task pool. Threads share the two line arrays; the signal handler
shares the table of temporary files with the main thread. Everything else is sequential, so what is
nondeterministic is the outside: how much each `read` returns, which call fails, when a signal comes,
how threads are scheduled.

## 2. Modules

| Module | Models | State and actions |
|---|---|---|
| `SortOrder` | comparators and reference definitions: stable sort, `-u`, stable merge, byte order. Each result lists places one after the other (`InTurn`), each once all those ahead of it are listed, without recursion | operators only |
| `SortContract` | abstract specification of a sort: deliver the stable sort of the input, once, or fail | `result`; `Deliver`, `Fail` |
| `ParallelFor` | abstract specification of `rank_run_tasks`: every task once, then return | `done`, `returned`; `CarryOut`, `Return` |
| `ExternalSort` | `external.c`: reading in chunks, run files, passes, filters, clean-up, every failing call | `pc` is the place in the code, `runs`, `next`, `prepared`, `out`, `plain` its lists and locals of paths, `temps` and `content` the file system |
| `TempRegistry` | the table of temporary files and `temp_signal_handler`, store by store | `table`, `len` and the handler's `frames`, which nest; `stale` is the freed block of a table that moves |
| `TaskPool` | `rank_run_tasks` and `rank_task_worker` | the caller's `main`, each worker's `state`, `next` is the atomic counter |
| `StreamMerge` | `merge_stream_bytes` | `head`, `eof`, `heap` as in the code; one action per round of `sift_down` and of the merge loop |
| `KeyedMerge` | the merge in memory, for keys and comparisons other than by bytes: `merge_direct_output` with its cached keys and its vector, and `merge_order_lines` | `heap`, the position of each input, the `caches` of parsed heads, `iov` and what was `written`; one action per round of a loop, per `writev` and per failing call |
| `KeyRadix` | `rank_radix_sort_key` with groups, last resort and shortcuts | `items`, `aux` are the two arrays, `pending` the ranges somebody still has to sort |
| `CheckStream` | `rank_check_stream` | `buffers` with their capacity and address, `prev_key` the kept key |
| `MemorySort` | the in-memory path of `main` from end to end: reader, planner, the engines, writer | `operand`, `data`, `items`, `monotonic` are the reader's; `views` the prepared transforms by ordinal; `pending` the ranges of the byte radix sort; `index`, `iov`, `buf` the writer's; `written` what the output received |
| `CommandLine` | `options.c`, `key.c` and the calls of `main` up to the first operand that is read | `given` is the command, `args` the array that operands overwrite, `at` and `letter` the place in it, `opts` the options; one action per word, letter or value, then one per check |
| `KeySpans` | where the key of a line is: by searching, by the cache of field positions, and by `rank_simple_key_span`; and the definition of fields they are compared with | operators only |
| `Comparators` | `numeric.c` and the comparisons of `cmp.c`, over texts of bytes | operators only |
| `LineOrder` | `CommandLine`, `KeySpans` and `Comparators` composed: from a command line to the order of the lines, and the orders that the engines of the sort, the check and the merge have under these options | `lines`, `spans` and the `cache` of field positions, which lives on from line to line |
| `SortOrderProofs`, `ConcurrencyProofs`, `ExternalSortProofs`, `StreamMergeProofs`, `KeyedMergeProofs`, `CheckStreamProofs`, `KeyRadixProofs`, `LineOrderProofs` | proofs | |
| `MC...` | instances for TLC | |

`ExternalSort`, `StreamMerge`, `KeyedMerge` and `CheckStream` instantiate `SortContract`; `TaskPool`
instantiates `ParallelFor`. `KeyRadix` and `MemorySort` take from `TaskPool` that tasks
run once each and interleave freely, and `MemorySort` takes from `KeyRadix` the result of the keyed
radix sort (`SortKeys`), apart from the case of `KeyRadix_reverse`, which needs more lines than it has.
The models of engines take an order as given; that each engine has the order of `rank_compare_lines`, and
that this is an order, is what `LineOrder` shows.

Simplifications that a reader should know of:

- A record is a key, which stands for all a comparator looks at, and its position. A comparator is a
  function from keys to numbers, so it is a total preorder; `OrderIsTotal` of `LineOrder` is about that.
  `KeyRadix` and `CheckStream` compare sequences of bytes.
- `ExternalSort` uses the result of a merge (`StableMerge`), also for runs that are not in order;
  `StreamMerge` and `KeyedMerge` show how the merges get there. In `ExternalSort` one set, `temps`, stands for
  the files and for the allocated path strings, since the code creates and ends both together;
  a second removal is therefore a second `free`.
- `TempRegistry`: table and length are plain variables, so the order of their stores is the compiler's.
  gcc -O2 lowers the length before it fills the slot of a removed path, -O0 does it the other way;
  both are modelled. Both write a new path before they raise the length; a compiler that did not would
  let the handler read a slot that was never written. When the table grows, `realloc` frees the old block
  before the pointer to the new one is stored. A handler that runs in between finds `stale`: any of
  its slots may still have their paths (all of them if the block grew in its place) or belong to the allocator;
  `unlink` of what is in those fails, by `EFAULT` or because there is no such file, and the loop goes on. If the block was
  given back to the system the access kills the process (`crashed`).
- `KeyRadix` sorts all groups of one key before those of the next, where the code goes depth first.
  Groups are disjoint (an invariant), so the order among them does not matter.
- `KeyedMerge`: a text is a number, also its place among the bytes; `Plain` and `Prepared` say what two
  comparisons make of it, so that texts may differ and compare equal, in one way or in the other. What is kept is
  which of the two the code looks at, and for which head.
- `MemorySort` has an alphabet of a delimiter and two letters, one key that is the first byte of a line,
  and one comparison other than by bytes: numbers without leading zeros, for all the modes that the
  planner sends to the merge sort. What it does not abstract is who looks at what: transforms are found
  by ordinal, keys by the line, texts by offset, as in the code. The locale compares bytes. One step of the
  byte radix sort is what a worker does to one range; ranges share no line (`RangesApart`), so finer
  steps would not see each other. The transformed radix sorts and the merge sort are sequential and are
  one step. Ordinals after the byte radix sort no longer belong to their lines; this is kept.
- `CheckStream` covers byte keys; numbers, months and versions go through the same code with another
  comparison of the same spans.
- `CommandLine`: a word is a name; `Words` says how the code reads it as an argument and as a value. A number has
  a sign, as `strtoul` accepts one: `-1` is the largest number of the width. `MaxSize` stands for the largest number of every width.
- `Comparators` and `LineOrder`: the locale compares bytes. `strtold` reads signs, digits, a dot and `nan`, no
  exponents, hexadecimals or infinities; units are K, M and G. The digest of `-R` is any function, so two texts
  may share one. The engines are the orders they establish; that they establish them is for the other modules.

## 3. Runs

| Run | Question | Bounds, and why they are enough |
|---|---|---|
| `ExternalSort` | are files, records and order right through two passes of reduction, with and without a filter program and `-u`, whatever fails? does the sort end? | five records in runs of one record and batches of two: two passes, a group of one run at the end of a pass, a final merge of two. All key patterns of two keys, so all patterns of ties. With a filter: four records for two passes, two operands, empty operands first and alone |
| `TempRegistry` | does the handler cope with a signal at any store, which paths can it read, what does it leave, does it clean up once? | three files in a table of one slot that doubles (16 in the code), so it grows twice, shrinks and is freed; two signals, so a handler is interrupted by another one |
| `TaskPool` | is it a parallel loop? does it return? | four tasks, four threads capped at three workers (64 in the code): fewer workers than tasks, a cap that matters |
| `StreamMerge` | does the heap stay right; is the output a sort; does the merge end? | five inputs make a heap of three levels; two records and two keys give ties within and between inputs; all subsets of inputs without a last newline |
| `KeyRadix` | is the result sorted, stable where asked, on every schedule? | insertion up to two lines (48 in the code) and a depth limit of three (4096): with five lines both the radix and the insertion paths, and keys beyond the limit, are taken |
| `KeyedMerge` | are heap, cached keys and vector right at every step; do both ways through the code deliver a sort; does the merge end? | three texts, of which two compare equal. All options with two operands of up to two and one lines; three operands, one without a last delimiter, one the output too; five operands of up to one line for a heap of three levels; a vector of four pieces (1024 in the code) |
| `CheckStream` | does `-c` agree with the sort? | all inputs of up to three of six records; reads of one or three bytes put chunk ends everywhere; buffers that start with two bytes grow twice |
| `MemorySort` | does every engine write the sort of the input, whatever the chunks, schedules, partial writes and failures? | all contents of one operand up to three bytes and of two up to two; reads of one or two bytes, so a record may end with a chunk, inside one or not at all; a vector of four pieces (1024 in the code) that is flushed in the middle, a buffer of three bytes (1 MiB) that lines fit in, fill and exceed; insertion up to one line (24), a depth limit of two (4096) with lines that agree beyond it, offsets up to 15 (2^32 - 1) with inputs on both sides |
| `LineOrder` | is a command read as what it is; is a key the field of the manual; do sort, check and merge agree on one order? | all pairs of 47 words, triples of 13, quadruples of 6, so every kind of word stands before and after every other; the options that order lines, alone and many in pairs, with 21 lists of keys and three separators; up to five lines chosen for the options (zeros, signs, fractions, units, months, versions, empty fields). `MaxSize` is 4095, so 3K fits and 4K does not |
| `ExternalSort_double_free`, `KeyRadix_reverse`, `StreamMerge_onto_self` | statements of the manual that the code violates, see section 6 | the smallest instance that shows it |

Deadlock is not checked where the modelled call returns or the process ends; the models then stop. It is
checked in `KeyRadix` and `LineOrder`, which end in an explicit stuttering step.

Fairness. `ExternalSort`, `StreamMerge`, `KeyedMerge` and `MemorySort` assume weak
fairness of the next step of the process: the operating system runs it, and calls return. `TaskPool` assumes it of the
caller and of each worker, as preemptive scheduling gives and task functions return. `TempRegistry`
assumes it of the handler only. `KeyRadix`, `CheckStream` and `LineOrder` are checked for safety; no strong
fairness is used.

What the properties say:

- files: `NoTempLeftAtExit`; `MergeInputsIntact` (a merge opens files that exist, each once, not compressed, none of
  them its output, no more than `--batch-size`);
- records: `RunsHoldInput` (runs and buffer together are the records read so far, ties in input order) and
  `ImplementsSort`, which is `SortContract` with its termination: the call delivers the sort once, or fails,
  and does one of them;
- signals: `LivePathsUnlessGrowing` (no freed path is read, but for the moment when the table has moved),
  `FirstSignalCleans` (a first signal that kills leaves the file in hand and what the freed block had lost, no more),
  `SignalEndsProcess`: `CleansOnce` (once a handler has begun to clean up no other begins) and `SignalKills` (the
  process dies once a handler runs);
- tasks: `TasksRunOnce` (each once, by one worker, and nobody is left to read the caller's frame when it
  returns), `ImplementsParallelFor`, `Returns`;
- merges: `HeapIsRight` (the heap holds the inputs that have a record, once each, in heap order, and its root
  is the record the output needs next; in `KeyedMerge` the cached keys are those of the heads as well), `VectorFits`;
- radix sorts: `RangesApart` (why threads may share the arrays, and why no range looks outside itself),
  `SortsByKeys` (each line comes out once, in the order asked for, ties in input order where `-s` or `-u` ask for
  it and no key is reversed), `RangesDescend` (why the recursion ends);
- reading and writing: `LinesAreRead` (chunks do not matter, and the run noticed while reading is one),
  `WritesTheSort` (the output is at every moment a beginning of the sorted lines), `Terminates`;
- the check: `KeptKeyIsPrevious`, `AgreesWithSort`;
- the command: `UnreadIntact` (no operand is written over a word that has still to be read), `ReadAsGiven` (every
  word is used as what it is; sizes and counts are those written, or for a number below zero the one that is
  larger by two to the width, and a unit does not make them wrap), `OneOrdering`;
- the order: `SpansAreFields` (keys, cached and searched, are the fields of the manual), `EnginesAgree` (so are the
  simple ones of the check and the merge, and all engines have one order), `OrderIsTotal`, `NumbersByValue` (`-n` on texts is the order of the numbers).

Each module with actions has one type invariant. Every property has a mutant of the code, listed in `PROJECT.json`,
that violates it.

## 4. Proofs

All theorems hold for every value of the constants under the assumption of the module, which is named
`ConstantsAssumption` (`CommandAssumption` for the command line, `PoolAssumption` for the task pool). Only three have a
hypothesis of their own, all three named `ImplementsContract`; what they ask for is said below. The lemmas that are
about sorting as such, and no module of the system, are in `SortOrderProofs`.

- `SortOrderProofs`: what the definitions of `SortOrder` are. `InTurn` lists the members of a finite set, each once,
  in the order that the sets of those ahead give (`InTurnIs`). So a stable sort has the records of the input and their
  order (`StableSortIs`), `-u` keeps the first of each group and nothing that repeats (`FirstOfEqualsIs`,
  `FirstOfEqualsSorted`), a merge of runs in order is in order, with the earlier run first where they tie
  (`StableMergeIs`, `StableMergeSorted`), and two sequences in order with the same records are the same one (`OrderUnique`).
  Two facts carry the refinements. `StandInsSorted`: pieces that hold a stand-in for each record, the record itself
  or with `-u` an equal one that comes no later, sort to what the records sort to. `MergedSoFar`: a merge may be done
  one head at a time; `MergeStarts`, `LeastHead`, `MergeTakes` and `MergeEnds` say that nothing written is right at
  the beginning, that the least head is the next record, that writing or dropping it keeps what was written right, and that
  the result is the sort when no head is left.
- `ConcurrencyProofs`, task pool: type correctness, `TasksRunOnce`, and that `TaskPool`
  implements `ParallelFor`. The invariant `PoolIInv` adds to the types: a task below the counter has been
  run once or is with exactly one worker, a task at or above it has not been started; a worker that was
  not spawned is absent; a worker exits only when the counter has passed the last task; what was joined
  has exited. The properties are not inductive without it: that no two workers hold a
  task follows only from the counter being ahead of all of them.
- `ConcurrencyProofs`, table of temporary files: types, `LivePathsUnlessGrowing`, `OneFileInHand` (at most one file is outside the table),
  `FirstSignalCleans` and `CleansOnce`, for any
  number of files, signals and nested handlers, and whatever the allocator does to the block of a table that
  moves. `IInv` says where a path is at each store of the code:
  in the table once, or in hand, or both for the time of one store. `SInv` adds what the
  first handler has done: no path it has found in a slot it has passed is on the disk. For `CleansOnce` it is enough
  that the handler that runs is never about to clean up when one has begun to (`OneCleaner`); handlers below it may be,
  but they do not go on, as the one above ends the process.
- `ExternalSortProofs`: `TempsAccounted` (every file is in a list the error paths go through) and, from it,
  `NoTempLeftAtExit`, for any input, buffer, batch
  size and set of failing calls. `IInv` follows each path through `runs`, `next`, `prepared`, `out` and
  `plain`; it has to know that the groups of `runs` that were merged are gone and those that were not
  are still there, because `runs` names both until the pass is over.
  `MergeInputsIntact` is proved under the same generality and on top of that invariant. That a merge
  opens existing files is decided long before it: `FilesApart` says that every path at hand exists and has one
  place among the lists and locals, so removing the inputs of one merge takes nothing from another; `PlainFiles` that
  only decompressed copies are in `prepared`, and that nothing is compressed without a filter; `MergeReady` what
  the places that lead to a merge have made sure of: the number of runs, and which locals are in use.
  What the files hold is a third layer: `DInv`, with types, `RunsHoldInput` and `ImplementsContract` on top. The pieces
  are the files that hold runs, those of the pass that is going on and those it has still to merge, and the buffer
  (`Pieces`). `PiecesHold` says that their records come from what was read, that no record of a piece comes before one of
  an earlier piece, and that every record read has a stand-in in some piece; inside a file ties are in input order
  (`Rises`), which holds under any comparator and so survives `-R`, where each run has a hash of its own.
  `FilterOK` knows what a file holds while it is on its way through the filter program, and `OperandOK` where reading
  is. `ConstantsAssumption` has comparators agree on which keys are equal: digests of `-R` that collide under one seed and not under another
  are left out. `ImplementsContract` has one comparator as its hypothesis, as all options but `-R` have: then every
  file is in order, and the final merge delivers the sort of the whole input.
- `StreamMergeProofs`: `HeapIsRight` for any number of sorted inputs of any length. `InputsOK` types what the heap
  depends on; `EndsSeen` says that the `eof` flag tells an input without a record from one whose record is empty;
  `HeapHoldsHeads` and `HeapOrder` are the heap with the one node that is still to sink. That the root is the least
  record follows from the order of parents and children by the least-number principle (lemma `RootFirst`): a least
  node that violates it would have a parent that does. `TypeCorrect` needs to know what has been read of each input
  (`ReadTo`): up to the record at the head, to the end, or nothing. `ImplementsContract` adds `MInv`: the
  inputs are still what they were, and what is written is a merge of them as far as the heads have come
  (`MergedSoFar` with `Onward`). Its hypotheses are that the inputs are sorted, as `-m` asks, and that the output
  is none of them: `StreamMerge_onto_self` shows what happens otherwise.
- `KeyedMergeProofs`: types, `HeapIsRight` and `VectorFits` for any number of operands, any options and any vector
  of more than two pieces. `IInv` says that the runs stay inside the lines that were read (`RunsAreThere`), that every
  run that has a line has the key of that line cached (`CachesFilled`), and where the heap is in order. The lemma
  `CachedComparison` says that comparing cached keys, with the shortcuts of `merge_fast_run_less`, is
  comparing the lines with the comparator; so one proof of the heap (`RootFirst` as above) serves both.
  `ImplementsContract` is for all options, with an output over an operand too, and for operands in the order of the
  options, from which `Init` starts; the texts are finitely many, so that a text has a place among them (`OrderIs`). `DInv`
  says that a run holds the lines of its operand (`IsRead`), that the lines that have left the heap, in the vector, in the output or
  in the array, are a merge as far as the runs have come (`LinesTaken`), and that `-u` compares with the last of them (`LastIs`).
  The lines of a vector of pieces are counted by the pieces that are no delimiters (`LinesGrow`). `PlacedSort` says that
  the places of texts sort as the texts do, since the contract knows only places.
- `CheckStreamProofs`: types, `KeptKeyIsPrevious` and `AgreesWithSort`. `IInv` says where the bytes of the record that is
  being collected, of the chunk and of what is unread are in the input (`WhileReading`), so that a record that is complete is record
  `number` and the one before it `number - 1` (`WhileProcessing`), also in a buffer that moved or changed places.
  That doubling a capacity reaches any length is the lemma `DoublesGrow`. For `AgreesWithSort`, `LessOrders` says that
  comparing bytes, of lines or of a key and then the lines, is an order, `DisorderIs` that each of the three ways
  to compare in the code finds what this order calls out of place, and `Compared` that all neighbours before the
  record at hand were compared; so a record that a sort would move has a neighbour that shows it.
- `KeyRadixProofs`: types, `RangesApart`, `SortsByKeys` and `RangesDescend` for any lines, keys, options, thresholds and
  schedules, so that a parallel sort of any size is right, insertion and radix ranges mixed, beyond the depth
  limit too. The blocks of `KInv` are the ranges and groups that wait: no two share a line (`BlocksApart`); by the keys
  before the current one all lines are in order, by the current one those that share no block
  (`Sorted`); the lines of a range agree as far as its depth, and those a
  range has scattered into the second array are in order there but for the children it will have (`RangeOK`);
  each line is there once (`Kept`); and as long as no key is reversed, ties are in input order (`Ties`): insertion
  goes behind what compares equal, and the shortcut that turns a group round has no ties to turn. The second array needs no
  property between ranges, because a range
  reads only places that it wrote itself. The loops of the insertion sort are recursive functions; that they find the place
  and keep the lines is proved by induction over numbers, as the well-foundedness of their order.
- `LineOrderProofs`: `TypeOK`, `UnreadIntact`, `OneOrdering`, `SpansAreFields` and `EnginesAgree` for all words,
  command lines and lines. `ArgsOK` says
  that there are fewer operands than words read, through obsolete keys that take two words and options that take the
  next one; `OptsOK` that the mode of a key or of the command is among those it was given; `OrderingsOK` that what a
  key inherits was checked with the options of the command; `PlacesOK` has the stages and the places in the arguments.
  `SInv` says that every line prepared has the spans a search of it finds, and that the arrays have a place for every
  field a key names. That they are found in the arrays too is `LookedUp`: both the search (`SearchFindsField`) and the
  arrays (`CacheFindsField`) have the field whose start has `number - 1` starts of fields before it, which is how the
  definition numbers them. Behind that is an induction over numbers, as the well-foundedness of their order: the
  positions of one pass over a line (`Positions`) meet every field of the definition, one after the other, and no
  other (`PositionsCounted`). `SpanIsKey` has the arithmetic of characters. For `EnginesAgree`, `SimpleSpanIsSpan`
  adds that `rank_simple_key_span` finds what `extract_key_span` does for a key that is one whole field.

Only model-checked, because the provers cannot do it: liveness, that is `Returns`, `SignalKills`, `Terminates` and the part of
`ImplementsSort` that says that the call ends. Only model-checked so far: `MemorySort`;
`ReadAsGiven`, `OrderIsTotal` and `NumbersByValue`, where most of what is to be shown is a recursive
function over a text, whose result for every text would need induction over data.

## 5. Not modelled, and plan

In order:

1. Between `fork` and `exec` the child of `filter_temp_file` has the parent's handlers and its table
   (`external.c:503`): a signal to the process group in that window, in `TempRegistry`.
2. Exponents and infinities of `-g`, and units above G.
3. Proofs of `MemorySort`, whose byte radix sort is that of `KeyRadixProofs` with one key.

Left out for good: locale collation and MD5 (external algorithms), diagnostics, `--debug` annotations and the
engine's statistics, help and version, `sys/cpu.c` and `sys/file.c` (empty), `bench/`, `packaging/`, `scripts/`.

## 6. What the models found

Each of these is a run that TLC finds violated, quoted in `PROJECT.json`:

- `ExternalSort_double_free`: a merge that fails in a second or later group of a pass leaves `runs`
  naming paths that were freed; `cleanup_runs` frees them again (`external.c:655`).
- `KeyRadix_reverse`: a range of more than 48 lines with equal keys is compared from the depth limit; with
  a reversed key its lines change their order, so `-s` is not stable and `-u` keeps the wrong line
  (`radix.c:724`).
- `StreamMerge_onto_self`: `-m -o F F` empties `F` before reading it (`merge.c:533`).

Observed while modelling, without a run.

Files and limits:

- Use after free: a table that is full, at 16 files, 32 and so on, is moved by `realloc`, which frees
  the old block; until the pointer is stored (`external.c:413`) a signal handler goes through that block
  (`external.c:469-471`). The allocator keeps its own data in the first slots of a freed block, so `unlink` misses those
  paths and the process dies with registered files left, where `tests/golden/run.sh:618-620` expects none. A block that
  went back to the system crashes the handler. `TempRegistry` has both; without `Overwritten`, `FirstSignalCleans` is
  violated there. With it, it says that nothing else is lost, and `LivePathsUnlessGrowing` that there is no
  other place where the handler reads what was freed.
- A signal between `mkstemp` and the registration of a path, or
  between its removal from the table and from the disk, leaves one file (`external.c` 391-403, 441-442;
  `FirstSignalCleans` states what does hold). Exhausted memory exits at once and leaves them all (`util.c:29`).
- `--batch-size=1` is accepted (`options.c:982`) and never ends with more than one run (`external.c:635`).
- `-m` opens all operands whatever `--batch-size` says (`merge.c:605`); a buffer is flushed only at a record
  boundary that is also a chunk boundary, so it grows past `-S` (`external.c:212`).

Orders:

- Under `-R` without `--random-source` every run, merge and pair of `-c` seeds its own hash (`external.c:362`,
  `line.c:1150`), so identical keys are not grouped by an external sort and `-c` compares by chance.
- `-k2` on a line `a` and two blanks is the empty text, where other implementations take the blanks.
- The manual says that combining modes is rejected; `-V` and `-R` share a slot, as in GNU, and go together (`options.c:506`).

Arguments:

- An obsolete end `-2.3` becomes the key end `2.4`, where the usual translation is `3.3`.
- `-k1.0` is accepted.
- Counts and sizes accept a sign (`options.c` 920, 972, 988): `-S -1`, `--parallel -1` and `--batch-size=-1` are the
  largest number there is, and `-S -1K` is too large. No document says otherwise; `ReadAsGiven` states what is stored.
