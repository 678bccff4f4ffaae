---------------------------- MODULE ExternalSort ----------------------------
(***************************************************************************)
(* The external sort of src/external.c: operands are read in chunks into a *)
(* buffer, full buffers are sorted and written to temporary run files, the *)
(* runs are merged in passes of at most --batch-size files, and the last   *)
(* merge writes the output.  With --compress-program every run file is     *)
(* filtered through a child process on its way in and out.                 *)
(*                                                                         *)
(* The program is a single process, so the nondeterminism is in what the   *)
(* outside does: how much each read(2) returns, and which of the calls     *)
(* that can fail does fail.  Signals are the subject of TempRegistry.      *)
(*                                                                         *)
(* A temporary path is created and later removed and freed at one place,   *)
(* so one set, temps, stands both for the files that exist and for the     *)
(* path strings that are allocated.  Removing a path that is not in temps  *)
(* is a second free of its string.                                         *)
(***************************************************************************)
EXTENDS Naturals, Sequences, FiniteSets, SortOrder

CONSTANTS
  Keys,         \* the keys of records
  Jobs,         \* what is sorted and how: [files, unique, compress]; files
                \* is the operands, each a sequence of keys
  Orders,       \* comparators (see SortContract); -R without a random
                \* source draws one afresh for every sort and every merge
  BufferSize,   \* -S, in records
  MaxRead,      \* the most records one read(2) completes
  Batch,        \* --batch-size, 0 when it is not given
  Faults,       \* the calls that may fail
  Paths,        \* names of temporary files, more than are ever in use
  NoPath

FaultKinds == {"open", "read", "mktemp", "write", "filter", "merge", "alloc"}

ASSUME ConstantsAssumption ==
  /\ BufferSize \in Nat \ {0}
  /\ MaxRead \in Nat \ {0}
  /\ Batch \in Nat
  /\ Faults \subseteq FaultKinds
  /\ NoPath \notin Paths
  /\ Jobs \subseteq [files : Seq(Seq(Keys)), unique : BOOLEAN, compress : BOOLEAN]
  /\ Orders \subseteq [Keys -> Nat]
  \* Another hash gives keys another order; it does not make other keys equal.
  /\ \A o, p \in Orders : \A k, l \in Keys : o[k] = o[l] => p[k] = p[l]

VARIABLES
  pc,        \* the place in the code, see Places
  files,     \* the operands
  unique,    \* -u
  compress,  \* --compress-program was given
  operand,   \* index of the operand that is read
  taken,     \* records completed from this operand
  buf,       \* the records of the run in memory
  partial,   \* the last chunk ended inside a record
  runs,      \* paths of the runs, runs->paths
  next,      \* paths a reduction pass has produced so far
  group,     \* how many runs the pass has merged: i in reduce_temp_runs
  prepared,  \* decompressed copies of the inputs of a merge
  out,       \* the path a run or a merged group is written to
  plain,     \* the uncompressed file on its way to or from the filter
  temps,     \* temporary files that exist
  content,   \* what each temporary file holds
  output,    \* see SortContract: what the final merge delivered
  exit       \* how the process ended

vars == <<pc, files, unique, compress, operand, taken, buf, partial, runs, next,
          group, prepared, out, plain, temps, content, output, exit>>

job_vars == <<files, unique, compress>>
input_vars == <<job_vars, operand, taken, buf, partial>>
merge_vars == <<next, group, prepared, out, plain>>

Places == {"open", "read", "flush", "flushplain", "flushwrite", "flushfilter",
           "reduce", "group", "prepare", "decompress", "groupplain", "merge",
           "groupfilter", "final", "cleanup", "ended"}

-----------------------------------------------------------------------------
(***************************************************************************)
(* Records and merges                                                      *)
(***************************************************************************)

\* The operands one after the other, each record with its position.
AllRecords(fs) ==
  LET keys == FlattenSeq(fs)
  IN  [i \in DOMAIN keys |-> [key |-> keys[i], pos |-> i]]

\* Variant: the last record of a chunk is forgotten.
OperandRecords_short(from, upto) ==
  LET before == Len(FlattenSeq(SubSeq(files, 1, operand - 1)))
  IN  SubSeq(AllRecords(files), before + from + 1, before + upto - 1)

\* The records [from + 1 .. upto] of the operand being read.
OperandRecords(from, upto) ==
  LET before == Len(FlattenSeq(SubSeq(files, 1, operand - 1)))
  IN  SubSeq(AllRecords(files), before + from + 1, before + upto)

Contract == INSTANCE SortContract WITH
  unique <- unique, input <- AllRecords(files), result <- output

\* Variant: ties go to the later run.
MergeRuns_backward(rs, ord) == StableMerge(Reverse(rs), ord)

\* rank_merge_all: a stable merge by file, with -u without the records that
\* compare equal to the last one written.
MergeRuns(rs, ord) ==
  IF unique THEN FirstOfEquals(StableMerge(rs, ord), ord)
            ELSE StableMerge(rs, ord)

\* A file holds records, as written or in the form the filter gives them.
Plainly(recs) == [compressed |-> FALSE, recs |-> recs]

-----------------------------------------------------------------------------
(***************************************************************************)
(* Temporary files                                                         *)
(***************************************************************************)

\* mkstemp finds a name that is not in use; Paths bounds how many there are.
NamesLeft == temps # Paths
FreshPath == CHOOSE p \in Paths : p \notin temps

\* The inputs of the merge at hand: the group of the pass, or all runs.
GroupSize == IF Len(runs) - group < Batch THEN Len(runs) - group ELSE Batch
GroupInputs == SubSeq(runs, group + 1, group + GroupSize)
MergeSources == IF out = NoPath THEN runs ELSE GroupInputs
MergeInputs == IF compress THEN prepared ELSE MergeSources

\* remove_temp_path and free of some paths.
RemoveTemps(paths) == temps' = temps \ paths

-----------------------------------------------------------------------------

Init ==
  /\ pc = "open"
  /\ \E j \in Jobs : files = j.files /\ unique = j.unique /\ compress = j.compress
  /\ operand = 1 /\ taken = 0
  /\ buf = <<>> /\ partial = FALSE
  /\ runs = <<>> /\ next = <<>> /\ group = 0 /\ prepared = <<>>
  /\ out = NoPath /\ plain = NoPath
  /\ temps = {}
  /\ content = [p \in Paths |-> Plainly(<<>>)]
  /\ output = Contract!NotYet
  /\ exit = "none"

-----------------------------------------------------------------------------
(***************************************************************************)
(* Reading: write_temp_runs_bounded, read_stream_runs                      *)
(***************************************************************************)

\* Any failure before the reduction leaves only complete runs to clean up.
GiveUp ==
  /\ pc' = "cleanup"
  /\ output' = Contract!Failed

\* flush_run_if_needed: only at a record boundary.
FlushNeeded(b, p) == b # <<>> /\ ~p /\ Len(b) >= BufferSize

OpenOperand ==
  /\ pc = "open" /\ operand <= Len(files)
  /\ \/ pc' = "read" /\ UNCHANGED output
     \/ "open" \in Faults /\ GiveUp
  /\ UNCHANGED <<input_vars, runs, merge_vars, temps, content, exit>>

\* read(2) returns some bytes: they complete n records and may end inside
\* the next one.
ReadChunk ==
  /\ pc = "read"
  /\ \E n \in 0 .. MaxRead, p \in BOOLEAN :
       /\ taken + n <= Len(files[operand])
       /\ p => taken + n < Len(files[operand])
       /\ n > 0 \/ (p /\ ~partial)
       /\ taken' = taken + n
       /\ partial' = p
       /\ buf' = buf \o OperandRecords(taken, taken + n)
       /\ pc' = IF FlushNeeded(buf', p) THEN "flush" ELSE "read"
  /\ UNCHANGED <<job_vars, operand, runs, merge_vars, temps, content, output, exit>>

\* read(2) returns 0: what is left is a record without a delimiter.
ReadEof ==
  /\ pc = "read"
  /\ Len(files[operand]) = taken + (IF partial THEN 1 ELSE 0)
  /\ partial' = FALSE
  /\ buf' = buf \o OperandRecords(taken, Len(files[operand]))
  /\ IF partial /\ FlushNeeded(buf', FALSE)
     THEN pc' = "flush" /\ taken' = taken + 1 /\ UNCHANGED operand
     ELSE pc' = "open" /\ taken' = 0 /\ operand' = operand + 1
  /\ UNCHANGED <<job_vars, runs, merge_vars, temps, content, output, exit>>

\* A failing read(2), or a failing close(2) once the operand is read.
ReadError ==
  /\ pc = "read" /\ "read" \in Faults
  /\ GiveUp
  /\ UNCHANGED <<input_vars, runs, merge_vars, temps, content, exit>>

\* All operands are read: the rest of the buffer is the last run.
EndOfInput ==
  /\ pc = "open" /\ operand > Len(files)
  /\ pc' = IF buf # <<>> THEN "flush" ELSE "reduce"
  /\ UNCHANGED <<input_vars, runs, merge_vars, temps, content, output, exit>>

-----------------------------------------------------------------------------
(***************************************************************************)
(* Writing one run: flush_run, write_temp_run, write_one_run               *)
(***************************************************************************)

FlushMakePath ==
  /\ pc = "flush"
  /\ \/ /\ NamesLeft /\ out' = FreshPath
        /\ temps' = temps \cup {out'}
        /\ content' = [content EXCEPT ![out'] = Plainly(<<>>)]
        /\ pc' = IF compress THEN "flushplain" ELSE "flushwrite"
        /\ UNCHANGED output
     \/ "mktemp" \in Faults /\ GiveUp /\ UNCHANGED <<out, temps, content>>
  /\ UNCHANGED <<input_vars, runs, next, group, prepared, plain, exit>>

\* Variant: the run's own file stays.
FlushFailed_leaks ==
  /\ RemoveTemps({plain})
  /\ out' = NoPath /\ plain' = NoPath
  /\ GiveUp
  /\ UNCHANGED <<buf, runs>>

\* The run could not be written: its files are removed.
FlushFailed ==
  /\ RemoveTemps({out, plain})
  /\ out' = NoPath /\ plain' = NoPath
  /\ GiveUp
  /\ UNCHANGED <<buf, runs>>

\* Variant: the wrong one of the two paths is recorded.
FlushDone_plain ==
  /\ runs' = Append(runs, plain)
  /\ out' = NoPath /\ plain' = NoPath
  /\ RemoveTemps({plain})
  /\ buf' = <<>>
  /\ pc' = IF operand <= Len(files) THEN "read" ELSE "reduce"
  /\ UNCHANGED output

\* The run is written: it joins the others and the buffer starts afresh.  The
\* reader goes on with its operand, of which nothing may be left to read.
FlushDone ==
  /\ runs' = Append(runs, out)
  /\ out' = NoPath /\ plain' = NoPath
  /\ RemoveTemps({plain})
  /\ buf' = <<>>
  /\ pc' = IF operand <= Len(files) THEN "read" ELSE "reduce"
  /\ UNCHANGED output

FlushMakePlain ==
  /\ pc = "flushplain"
  /\ \/ /\ NamesLeft /\ plain' = FreshPath
        /\ temps' = temps \cup {plain'}
        /\ content' = [content EXCEPT ![plain'] = Plainly(<<>>)]
        /\ pc' = "flushwrite"
        /\ UNCHANGED <<buf, runs, out, output>>
     \/ "mktemp" \in Faults /\ FlushFailed /\ UNCHANGED content
  /\ UNCHANGED <<job_vars, operand, taken, partial, next, group, prepared, exit>>

\* The buffer is sorted, -u does not apply yet, and written.
FlushWrite ==
  /\ pc = "flushwrite"
  /\ \/ /\ \E ord \in Orders :
             content' = [content EXCEPT ![IF compress THEN plain ELSE out] =
                           Plainly(StableSort(buf, ord))]
        /\ IF compress
           THEN /\ pc' = "flushfilter"
                /\ UNCHANGED <<buf, runs, out, plain, temps, output>>
           ELSE FlushDone
     \/ "write" \in Faults /\ FlushFailed /\ UNCHANGED content
  /\ UNCHANGED <<job_vars, operand, taken, partial, next, group, prepared, exit>>

\* filter_temp_file: PROG turns records into their compressed form.
Compressed(f) == [f EXCEPT !.compressed = TRUE]

FlushFilter ==
  /\ pc = "flushfilter"
  /\ \/ content' = [content EXCEPT ![out] = Compressed(content[plain])] /\ FlushDone
     \/ "filter" \in Faults /\ FlushFailed /\ UNCHANGED content
  /\ UNCHANGED <<job_vars, operand, taken, partial, next, group, prepared, exit>>

-----------------------------------------------------------------------------
(***************************************************************************)
(* Reduction passes: reduce_temp_runs                                      *)
(***************************************************************************)

\* Variant: one run too many for the final merge.
Reduce_off_by_one ==
  /\ pc = "reduce"
  /\ pc' = IF Batch # 0 /\ Len(runs) > Batch + 1 THEN "group" ELSE "final"
  /\ UNCHANGED <<input_vars, runs, merge_vars, temps, content, output, exit>>

\* Too many runs start a pass; otherwise the final merge comes next.
Reduce ==
  /\ pc = "reduce"
  /\ pc' = IF Batch # 0 /\ Len(runs) > Batch THEN "group" ELSE "final"
  /\ UNCHANGED <<input_vars, runs, merge_vars, temps, content, output, exit>>

\* The end of a pass: the merged groups are the runs.
PassDone ==
  /\ pc = "group" /\ group >= Len(runs)
  /\ runs' = next /\ next' = <<>> /\ group' = 0
  /\ pc' = "reduce"
  /\ UNCHANGED <<input_vars, prepared, out, plain, temps, content, output, exit>>

\* A group cannot be merged: its own files and the results of the pass are
\* removed.  runs is left as it is, with the groups that were merged.
GroupFailed ==
  /\ RemoveTemps(ToSet(prepared) \cup ToSet(next) \cup {out, plain})
  /\ prepared' = <<>> /\ next' = <<>> /\ out' = NoPath /\ plain' = NoPath
  /\ GiveUp
  /\ UNCHANGED <<runs, group>>

GroupMakePath ==
  /\ pc = "group" /\ group < Len(runs)
  /\ \/ /\ NamesLeft /\ out' = FreshPath
        /\ temps' = temps \cup {out'}
        /\ content' = [content EXCEPT ![out'] = Plainly(<<>>)]
        /\ pc' = IF compress THEN "prepare" ELSE "merge"
        /\ UNCHANGED <<runs, next, group, prepared, plain, output>>
     \/ "mktemp" \in Faults /\ GroupFailed /\ UNCHANGED content
  /\ UNCHANGED <<input_vars, exit>>

\* Variant: results are listed last group first.
GroupDone_prepends ==
  /\ next' = <<out>> \o next
  /\ RemoveTemps(ToSet(GroupInputs) \cup ToSet(prepared) \cup {plain})
  /\ group' = group + GroupSize
  /\ prepared' = <<>> /\ out' = NoPath /\ plain' = NoPath
  /\ pc' = "group"
  /\ UNCHANGED <<runs, output>>

\* The group is merged: its result is kept, its inputs are removed.
GroupDone ==
  /\ next' = Append(next, out)
  /\ RemoveTemps(ToSet(GroupInputs) \cup ToSet(prepared) \cup {plain})
  /\ group' = group + GroupSize
  /\ prepared' = <<>> /\ out' = NoPath /\ plain' = NoPath
  /\ pc' = "group"
  /\ UNCHANGED <<runs, output>>

-----------------------------------------------------------------------------
(***************************************************************************)
(* Merging a group or all runs: prepare_merge_inputs,                      *)
(* merge_run_group_to_temp, merge_temp_runs                                *)
(***************************************************************************)

\* merge_temp_runs fails: its decompressed inputs are removed.
FinalFailed ==
  /\ RemoveTemps(ToSet(prepared) \cup {plain})
  /\ prepared' = <<>> /\ plain' = NoPath
  /\ GiveUp
  /\ UNCHANGED <<runs, next, group, out>>

MergeFailed == IF out = NoPath THEN FinalFailed ELSE GroupFailed

PrepareMakePath ==
  /\ pc = "prepare" /\ Len(prepared) < Len(MergeSources)
  /\ \/ /\ NamesLeft /\ plain' = FreshPath
        /\ temps' = temps \cup {plain'}
        /\ content' = [content EXCEPT ![plain'] = Plainly(<<>>)]
        /\ pc' = "decompress"
        /\ UNCHANGED <<runs, next, group, prepared, out, output>>
     \/ "mktemp" \in Faults /\ MergeFailed /\ UNCHANGED content
  /\ UNCHANGED <<input_vars, exit>>

\* Variant: PROG is run without -d.
Decompressed_not(f) == f

\* PROG -d on the next input of the merge.
Decompressed(f) == [f EXCEPT !.compressed = FALSE]

PrepareDecompress ==
  /\ pc = "decompress"
  /\ \/ /\ content' = [content EXCEPT ![plain] =
                         Decompressed(content[MergeSources[Len(prepared) + 1]])]
        /\ prepared' = Append(prepared, plain)
        /\ plain' = NoPath
        /\ pc' = "prepare"
        /\ UNCHANGED <<runs, next, group, out, temps, output>>
     \/ "filter" \in Faults /\ MergeFailed /\ UNCHANGED content
  /\ UNCHANGED <<input_vars, exit>>

PrepareDone ==
  /\ pc = "prepare" /\ Len(prepared) = Len(MergeSources)
  /\ pc' = IF out = NoPath THEN "merge" ELSE "groupplain"
  /\ UNCHANGED <<input_vars, runs, merge_vars, temps, content, output, exit>>

GroupMakePlain ==
  /\ pc = "groupplain"
  /\ \/ /\ NamesLeft /\ plain' = FreshPath
        /\ temps' = temps \cup {plain'}
        /\ content' = [content EXCEPT ![plain'] = Plainly(<<>>)]
        /\ pc' = "merge"
        /\ UNCHANGED <<runs, next, group, prepared, out, output>>
     \/ "mktemp" \in Faults /\ MergeFailed /\ UNCHANGED content
  /\ UNCHANGED <<input_vars, exit>>

Merged(ord) ==
  MergeRuns([i \in DOMAIN MergeInputs |-> content[MergeInputs[i]].recs], ord)

\* rank_merge_all on the inputs of a group, into the group's file.
GroupMerge ==
  /\ pc = "merge" /\ out # NoPath
  /\ \/ /\ \E ord \in Orders :
             content' = [content EXCEPT ![IF compress THEN plain ELSE out] =
                           Plainly(Merged(ord))]
        /\ IF compress
           THEN pc' = "groupfilter" /\ UNCHANGED <<runs, merge_vars, temps, output>>
           ELSE GroupDone
     \/ "merge" \in Faults /\ GroupFailed /\ UNCHANGED content
  /\ UNCHANGED <<input_vars, exit>>

GroupFilter ==
  /\ pc = "groupfilter"
  /\ \/ content' = [content EXCEPT ![out] = Compressed(content[plain])] /\ GroupDone
     \/ "filter" \in Faults /\ GroupFailed /\ UNCHANGED content
  /\ UNCHANGED <<input_vars, exit>>

\* rank_merge_all on all runs, into the output.
FinalMerge ==
  /\ pc = "merge" /\ out = NoPath
  /\ \/ /\ \E ord \in Orders : output' = Contract!Delivered(Merged(ord))
        /\ RemoveTemps(ToSet(prepared))
        /\ prepared' = <<>>
        /\ pc' = "cleanup"
        /\ UNCHANGED <<runs, next, group, out, plain>>
     \/ "merge" \in Faults /\ FinalFailed
  /\ UNCHANGED <<input_vars, content, exit>>

\* rank_external_sort after the reduction: without runs the output is empty.
Final ==
  /\ pc = "final"
  /\ IF runs = <<>>
     THEN \/ /\ pc' = "cleanup"
             /\ output' = Contract!Delivered(<<>>)
          \/ "merge" \in Faults /\ GiveUp
     ELSE /\ pc' = IF compress THEN "prepare" ELSE "merge"
          /\ UNCHANGED output
  /\ UNCHANGED <<input_vars, runs, merge_vars, temps, content, exit>>

-----------------------------------------------------------------------------
(***************************************************************************)
(* The end: cleanup_runs                                                   *)
(***************************************************************************)

\* Every run left is removed and its path freed.  Freeing a path that was
\* freed before is undefined: malloc may notice and abort, or not.
CleanupRun ==
  /\ pc = "cleanup" /\ runs # <<>>
  /\ \/ /\ runs' = Tail(runs)
        /\ RemoveTemps({Head(runs)})
        /\ UNCHANGED <<pc, exit>>
     \/ /\ Head(runs) \notin temps
        /\ pc' = "ended" /\ exit' = "abort"
        /\ UNCHANGED <<runs, temps>>
  /\ UNCHANGED <<input_vars, merge_vars, content, output>>

Exit ==
  /\ pc = "cleanup" /\ runs = <<>>
  /\ pc' = "ended"
  /\ exit' = IF output.state = "delivered" THEN "success" ELSE "error"
  /\ UNCHANGED <<input_vars, runs, merge_vars, temps, content, output>>

\* rank_xmalloc and rank_xrealloc leave the process where it stands.
MemoryExhausted ==
  /\ pc \notin {"cleanup", "ended"} /\ "alloc" \in Faults
  /\ pc' = "ended" /\ exit' = "nomem"
  /\ output' = Contract!Failed
  /\ UNCHANGED <<input_vars, runs, merge_vars, temps, content>>

Next ==
  \/ OpenOperand \/ ReadChunk \/ ReadEof \/ ReadError \/ EndOfInput
  \/ FlushMakePath \/ FlushMakePlain \/ FlushWrite \/ FlushFilter
  \/ Reduce \/ PassDone \/ GroupMakePath
  \/ PrepareMakePath \/ PrepareDecompress \/ PrepareDone \/ GroupMakePlain
  \/ GroupMerge \/ GroupFilter \/ Final \/ FinalMerge
  \/ CleanupRun \/ Exit \/ MemoryExhausted

Spec == Init /\ [][Next]_vars

\* A single process that is not stopped takes its next step.
FairSpec == Spec /\ WF_vars(Next)

-----------------------------------------------------------------------------
(***************************************************************************)
(* Properties                                                              *)
(***************************************************************************)

Record == [key : Keys, pos : Nat]

\* Every variable has the type its comment says.
TypeOK ==
  /\ pc \in Places
  /\ [files |-> files, unique |-> unique, compress |-> compress] \in Jobs
  /\ operand \in Nat /\ taken \in Nat
  /\ buf \in Seq(Record) /\ partial \in BOOLEAN
  /\ runs \in Seq(Paths) /\ next \in Seq(Paths) /\ prepared \in Seq(Paths)
  /\ group \in Nat
  /\ out \in Paths \cup {NoPath} /\ plain \in Paths \cup {NoPath}
  /\ temps \subseteq Paths
  /\ content \in [Paths -> [compressed : BOOLEAN, recs : Seq(Record)]]
  /\ output \in [state : {"running", "failed", "delivered"}, recs : Seq(Record)]
  /\ exit \in {"none", "success", "error", "nomem", "abort"}

\* Whatever failed on the way, a process that returns from
\* rank_external_sort leaves no temporary file behind: every error path of
\* the run writer, of the passes and of the filter removes what it made.
NoTempLeftAtExit == exit \in {"success", "error"} => temps = {}

\* Why that is so: at every step each temporary file is in one of the lists
\* or locals the error paths go through.
TempsAccounted ==
  exit \in {"none", "success", "error"} =>
    temps \subseteq ToSet(runs) \cup ToSet(next) \cup ToSet(prepared) \cup {out, plain}

\* A merge opens files that still exist, each once, in plain form, and none
\* of them is the file it writes: no pass removes a run a later merge needs,
\* and no compressed run reaches the merger.  With --batch-size there are no
\* more of them than it allows, for the final merge neither, whatever the
\* number of runs.
MergeInputsIntact ==
  pc = "merge" =>
    /\ Batch # 0 => Len(MergeInputs) \in 1 .. Batch
    /\ IsInjective(MergeInputs)
    /\ ToSet(MergeInputs) \cap {out, plain} = {}
    /\ \A i \in DOMAIN MergeInputs :
         /\ MergeInputs[i] \in temps
         /\ ~content[MergeInputs[i]].compressed

\* The files that hold the input in the middle of a pass.
InFlight == next \o SubSeq(runs, group + 1, Len(runs))
FileRecords(p) == ToSet(content[p].recs)
Consumed ==
  {r \in ToSet(AllRecords(files)) :
     r.pos <= Len(FlattenSeq(SubSeq(files, 1, operand - 1))) + taken}

\* A record that was read is in the buffer or in exactly one of the files in
\* flight until the sort fails or cleans up; with -u at least a record that
\* compares equal and comes no later is.
NothingLost ==
  pc \notin {"cleanup", "ended"} =>
    /\ \A r \in Consumed :
         \E s \in ToSet(buf) \cup UNION {FileRecords(p) : p \in ToSet(InFlight)} :
           /\ \A ord \in Orders : ord[s.key] = ord[r.key]
           /\ s.pos <= r.pos
           /\ unique \/ s = r
    /\ \A i, j \in DOMAIN InFlight :
         i # j => FileRecords(InFlight[i]) \cap FileRecords(InFlight[j]) = {}

\* Runs stay in input order through every pass: all records of a file come
\* before all those of a later one.  The merge breaks ties by the index of
\* the file, so this is what -s and -u rest on.
InInputOrder ==
  pc \notin {"cleanup", "ended"} =>
    \A i, j \in DOMAIN InFlight : i < j =>
      \A a \in FileRecords(InFlight[i]), b \in FileRecords(InFlight[j]) :
        a.pos < b.pos

\* The files in flight hold the input, all of it and in its order, at every
\* moment of every pass.
RunsHoldInput == NothingLost /\ InInputOrder

\* The external sort delivers what a sort in memory delivers, and it comes to
\* an end: every pass lowers the number of runs.
ImplementsSort == Contract!Total

\* doc/rank.1, EXIT STATUS: "0 on success, 1 when -c/-C finds disorder, 2 on
\* error".  A sort that fails exits with 2 and is not killed by its own
\* clean-up.
ErrorsExitNormally == exit # "abort"

=============================================================================
