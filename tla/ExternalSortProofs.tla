------------------------- MODULE ExternalSortProofs -------------------------
(***************************************************************************)
(* Proofs about ExternalSort, for every input, buffer, batch size and      *)
(* filter, and whichever calls fail.                                       *)
(*                                                                         *)
(* First, a sort that returns leaves no temporary file behind.  Then, the  *)
(* files it merges: each of them exists when it is opened, is opened once, *)
(* is not the output, is not compressed, and there are no more of them     *)
(* than --batch-size allows.  Then, what the files hold: the input, all of *)
(* it and in its order, through every flush and every pass.  Last, what    *)
(* comes out of it: with one comparator, what the contract of a sort says. *)
(***************************************************************************)
EXTENDS ExternalSort, SortOrderProofs

AtRest == {"open", "read", "flush", "reduce", "final"}
Flushing == {"flushplain", "flushwrite", "flushfilter"}
Merging == {"prepare", "decompress", "groupplain", "merge", "groupfilter"}

\* The types of the variables that hold paths.
PathsOK ==
  /\ pc \in Places
  /\ runs \in Seq(Paths) /\ next \in Seq(Paths) /\ prepared \in Seq(Paths)
  /\ group \in Nat
  /\ out \in Paths \cup {NoPath} /\ plain \in Paths \cup {NoPath}
  /\ temps \subseteq Paths

\* No path is in hand but those of the runs.
OnlyRuns == next = <<>> /\ prepared = <<>> /\ out = NoPath /\ plain = NoPath

\* Which locals hold a path at which place.
LocalsOK ==
  /\ pc \in AtRest => OnlyRuns /\ group = 0
  /\ pc \in Flushing => next = <<>> /\ prepared = <<>> /\ group = 0 /\ out \in Paths
  /\ pc = "group" => prepared = <<>> /\ out = NoPath /\ plain = NoPath
  /\ pc \in Merging => IF out = NoPath THEN next = <<>> /\ group = 0
                                      ELSE group < Len(runs)
  /\ pc \in {"flushplain", "prepare", "groupplain"} => plain = NoPath
  /\ pc = "decompress" => plain \in Paths
  /\ pc \in {"groupplain", "groupfilter"} => out # NoPath
  /\ pc = "merge" /\ out = NoPath => plain = NoPath
  /\ pc = "cleanup" => OnlyRuns

\* The runs a pass has not merged yet: the files of the others are gone.
Unmerged == {runs[i] : i \in group + 1 .. Len(runs)}

\* Where the temporary files are listed.
FilesHeld ==
  /\ pc \notin {"cleanup", "ended"} =>
       temps \subseteq Unmerged \cup ToSet(next) \cup ToSet(prepared) \cup {out, plain}
  /\ pc = "cleanup" => temps \subseteq ToSet(runs)
  /\ pc = "ended" => exit \in {"nomem", "abort"} \/ temps = {}
  /\ exit = "none" => pc # "ended"
  /\ exit # "none" => pc = "ended"

IInv == PathsOK /\ LocalsOK /\ FilesHeld

-----------------------------------------------------------------------------
(***************************************************************************)
(* Sequences as sets                                                       *)
(***************************************************************************)

LEMMA ToSetEmpty == ToSet(<<>>) = {}
  BY DEF ToSet

LEMMA ToSetAppend ==
  ASSUME NEW S, NEW s \in Seq(S), NEW x \in S
  PROVE  ToSet(Append(s, x)) = ToSet(s) \cup {x}
<1> DEFINE t == Append(s, x)
<1>1. /\ Len(s) \in Nat /\ DOMAIN s = 1 .. Len(s) /\ DOMAIN t = 1 .. Len(s) + 1
      /\ t[Len(s) + 1] = x
      /\ \A i \in 1 .. Len(s) : t[i] = s[i]
  OBVIOUS
<1> HIDE DEF t
<1>2. ToSet(t) = ToSet(s) \cup {x}
  BY <1>1 DEF ToSet
<1> QED BY <1>2 DEF t

LEMMA ToSetTail ==
  ASSUME NEW S, NEW s \in Seq(S), s # <<>>
  PROVE  ToSet(s) \subseteq {Head(s)} \cup ToSet(Tail(s))
<1> SUFFICES ASSUME NEW i \in 1 .. Len(s), i # 1 PROVE s[i] \in ToSet(Tail(s))
  BY DEF ToSet
<1>1. Len(Tail(s)) = Len(s) - 1 /\ Tail(s) \in Seq(S)
  OBVIOUS
<1>2. i - 1 \in DOMAIN Tail(s) /\ Tail(s)[i - 1] = s[i]
  BY <1>1
<1> QED BY <1>2 DEF ToSet

LEMMA UnmergedInRuns == PathsOK => Unmerged \subseteq ToSet(runs)
  BY DEF PathsOK, Unmerged, ToSet

\* A name that is chosen is one, and no file has it.
LEMMA FreshPathIsFresh ==
  ASSUME PathsOK, NamesLeft
  PROVE  FreshPath \in Paths \ temps /\ FreshPath # NoPath
  BY ConstantsAssumption DEF PathsOK, NamesLeft, FreshPath

-----------------------------------------------------------------------------

LEMMA InitIInv == Init => IInv
<1> SUFFICES ASSUME Init PROVE IInv
  OBVIOUS
<1>1. PathsOK
  BY DEF Init, PathsOK, Places
<1>2. LocalsOK
  BY DEF Init, LocalsOK, OnlyRuns, AtRest, Flushing, Merging
<1>3. FilesHeld
  BY DEF Init, FilesHeld
<1> QED BY <1>1, <1>2, <1>3 DEF IInv

-----------------------------------------------------------------------------
(***************************************************************************)
(* Error paths                                                             *)
(***************************************************************************)

\* An error while nothing but runs is in hand goes straight to the clean-up.
LEMMA GiveUpIInv ==
  ASSUME IInv, pc \in AtRest, GiveUp, UNCHANGED <<runs, merge_vars, temps, exit>>
  PROVE  IInv'
<1> USE DEF IInv
<1>1. PathsOK'
  BY DEF GiveUp, merge_vars, PathsOK, Places
<1>2. LocalsOK'
  BY DEF GiveUp, merge_vars, LocalsOK, OnlyRuns, AtRest, Flushing, Merging
<1>3. temps \subseteq ToSet(runs)
  BY UnmergedInRuns, ToSetEmpty, ConstantsAssumption
     DEF AtRest, LocalsOK, OnlyRuns, FilesHeld, PathsOK
<1>4. FilesHeld'
  BY <1>3 DEF GiveUp, merge_vars, FilesHeld, AtRest
<1> QED BY <1>1, <1>2, <1>4

\* A run that cannot be written is removed with its uncompressed form.
LEMMA FlushFailedIInv ==
  ASSUME IInv, pc \in Flushing, FlushFailed, UNCHANGED <<next, group, prepared, exit>>
  PROVE  IInv'
<1> USE DEF IInv
<1>1. PathsOK'
  BY DEF FlushFailed, RemoveTemps, GiveUp, PathsOK, Places
<1>2. LocalsOK'
  BY DEF FlushFailed, GiveUp, LocalsOK, OnlyRuns, AtRest, Flushing, Merging
<1>3. temps' \subseteq ToSet(runs)
  BY UnmergedInRuns, ToSetEmpty
     DEF FlushFailed, RemoveTemps, Flushing, LocalsOK, FilesHeld
<1>4. FilesHeld'
  BY <1>3 DEF FlushFailed, GiveUp, FilesHeld, Flushing
<1> QED BY <1>1, <1>2, <1>4

\* A group that cannot be merged is removed with all the pass has produced.
LEMMA GroupFailedIInv ==
  ASSUME IInv, pc \in Merging \cup {"group"}, GroupFailed, UNCHANGED exit
  PROVE  IInv'
<1> USE DEF IInv
<1>1. PathsOK'
  BY DEF GroupFailed, RemoveTemps, GiveUp, PathsOK, Places
<1>2. LocalsOK'
  BY DEF GroupFailed, GiveUp, LocalsOK, OnlyRuns, AtRest, Flushing, Merging
<1>3. temps' \subseteq ToSet(runs)
  BY UnmergedInRuns DEF GroupFailed, RemoveTemps, Merging, FilesHeld
<1>4. FilesHeld'
  BY <1>3 DEF GroupFailed, GiveUp, FilesHeld, Merging
<1> QED BY <1>1, <1>2, <1>4

\* A final merge that fails has only its decompressed inputs to remove.
LEMMA FinalFailedIInv ==
  ASSUME IInv, pc \in Merging, out = NoPath, FinalFailed, UNCHANGED exit
  PROVE  IInv'
<1> USE DEF IInv
<1>1. PathsOK'
  BY DEF FinalFailed, RemoveTemps, GiveUp, PathsOK, Places
<1>2. LocalsOK'
  BY DEF FinalFailed, GiveUp, LocalsOK, OnlyRuns, AtRest, Flushing, Merging
<1>3. temps' \subseteq ToSet(runs)
  BY UnmergedInRuns, ToSetEmpty, ConstantsAssumption
     DEF FinalFailed, RemoveTemps, Merging, FilesHeld, LocalsOK, PathsOK
<1>4. FilesHeld'
  BY <1>3 DEF FinalFailed, GiveUp, FilesHeld, Merging
<1> QED BY <1>1, <1>2, <1>4

LEMMA MergeFailedIInv ==
  ASSUME IInv, pc \in Merging, MergeFailed, UNCHANGED exit
  PROVE  IInv'
  BY FinalFailedIInv, GroupFailedIInv DEF MergeFailed

-----------------------------------------------------------------------------
(***************************************************************************)
(* Files that are complete                                                 *)
(***************************************************************************)

LEMMA AllUnmerged == PathsOK /\ group = 0 => Unmerged = ToSet(runs)
  BY DEF PathsOK, Unmerged, ToSet

\* A run that is written becomes the last of the runs.
LEMMA FlushDoneIInv ==
  ASSUME IInv, pc \in {"flushwrite", "flushfilter"}, FlushDone,
         UNCHANGED <<next, group, prepared, exit>>
  PROVE  IInv'
<1> USE DEF IInv
<1>1. group = 0 /\ out \in Paths /\ next = <<>> /\ prepared = <<>>
  BY DEF LocalsOK, Flushing
<1>2. PathsOK'
  BY <1>1 DEF FlushDone, RemoveTemps, PathsOK, Places
<1>3. LocalsOK'
  BY <1>1 DEF FlushDone, LocalsOK, OnlyRuns, AtRest, Flushing, Merging
<1>4. temps' \subseteq ToSet(runs')
  <2>1. temps \subseteq ToSet(runs) \cup {out, plain}
    BY <1>1, AllUnmerged, ToSetEmpty DEF FilesHeld
  <2>2. ToSet(runs') = ToSet(runs) \cup {out}
    BY <1>1, ToSetAppend DEF FlushDone, PathsOK
  <2> QED BY <2>1, <2>2 DEF FlushDone, RemoveTemps
<1>5. Unmerged' = ToSet(runs')
  BY <1>1, <1>2 DEF Unmerged, ToSet, PathsOK
<1>6. FilesHeld'
  BY <1>4, <1>5 DEF FlushDone, FilesHeld
<1> QED BY <1>2, <1>3, <1>6

\* The size of a group: no group reaches past the last run.
LEMMA GroupWithinRuns ==
  ASSUME PathsOK, group < Len(runs)
  PROVE  GroupSize \in 0 .. Len(runs) - group
  BY ConstantsAssumption DEF PathsOK, GroupSize

\* A merged group leaves its result in the place of its inputs.
LEMMA GroupDoneIInv ==
  ASSUME IInv, pc \in {"merge", "groupfilter"}, out # NoPath, GroupDone, UNCHANGED exit
  PROVE  IInv'
<1> USE DEF IInv
<1>1. group < Len(runs) /\ out \in Paths
  BY DEF LocalsOK, Merging, PathsOK
<1>2. GroupSize \in 0 .. Len(runs) - group
  BY <1>1, GroupWithinRuns
<1>3. PathsOK'
  BY <1>1, <1>2 DEF GroupDone, RemoveTemps, PathsOK, Places
<1>4. LocalsOK'
  BY DEF GroupDone, LocalsOK, OnlyRuns, AtRest, Flushing, Merging
<1>5. Unmerged \subseteq ToSet(GroupInputs) \cup Unmerged'
  <2>1. ASSUME NEW i \in group + 1 .. group + GroupSize
        PROVE  runs[i] \in ToSet(GroupInputs)
    <3>1. i - group \in 1 .. GroupSize /\ GroupInputs[i - group] = runs[i]
      BY <1>1, <1>2, <2>1 DEF GroupInputs, PathsOK
    <3>2. DOMAIN GroupInputs = 1 .. GroupSize
      BY <1>1, <1>2 DEF GroupInputs, PathsOK
    <3> QED BY <3>1, <3>2 DEF ToSet
  <2>2. runs' = runs /\ group' = group + GroupSize
    BY DEF GroupDone
  <2> QED BY <1>2, <2>1, <2>2 DEF Unmerged, PathsOK
<1>6. ToSet(next') = ToSet(next) \cup {out} /\ ToSet(prepared') = {}
  BY <1>1, ToSetAppend, ToSetEmpty DEF GroupDone, PathsOK
<1>7. temps' \subseteq Unmerged' \cup ToSet(next')
  BY <1>5, <1>6 DEF GroupDone, RemoveTemps, FilesHeld
<1>8. FilesHeld'
  BY <1>7 DEF GroupDone, FilesHeld
<1> QED BY <1>3, <1>4, <1>8

\* A temporary file that is made has its path in one of the two locals.
LEMMA MadeFileHeld ==
  ASSUME IInv, pc \notin {"cleanup", "ended"}, pc' \notin {"cleanup", "ended"},
         NEW p, temps' = temps \cup {p}, p \in {out', plain'},
         out = NoPath \/ out' = out, plain = NoPath \/ plain' = plain,
         UNCHANGED <<runs, next, group, prepared, exit>>
  PROVE  FilesHeld'
<1>1. Unmerged' = Unmerged /\ ToSet(next') = ToSet(next) /\ ToSet(prepared') = ToSet(prepared)
  BY DEF Unmerged
<1>2. temps \subseteq Unmerged \cup ToSet(next) \cup ToSet(prepared) \cup {out', plain'}
  BY ConstantsAssumption DEF IInv, FilesHeld, PathsOK
<1> QED BY <1>1, <1>2 DEF IInv, FilesHeld

\* Steps that move no path.
LEMMA NoPathMoves ==
  ASSUME IInv, pc \notin {"cleanup", "ended"}, pc' \notin {"cleanup", "ended"},
         UNCHANGED <<runs, merge_vars, temps, exit>>
  PROVE  FilesHeld'
  BY DEF IInv, FilesHeld, merge_vars, Unmerged

-----------------------------------------------------------------------------
(***************************************************************************)
(* Every step                                                              *)
(***************************************************************************)

LEMMA ReadingIInv ==
  ASSUME IInv, OpenOperand \/ ReadChunk \/ ReadEof \/ ReadError \/ EndOfInput
  PROVE  IInv'
<1>1. pc \in AtRest /\ UNCHANGED <<runs, merge_vars, temps, exit>>
  BY DEF OpenOperand, ReadChunk, ReadEof, ReadError, EndOfInput, AtRest, input_vars
<1>2. GiveUp \/ pc' \in AtRest
  BY DEF OpenOperand, ReadChunk, ReadEof, ReadError, EndOfInput, AtRest
<1>3. CASE pc' \in AtRest
  <2>1. PathsOK' /\ LocalsOK'
    BY <1>1, <1>3 DEF IInv, PathsOK, Places, LocalsOK, OnlyRuns, AtRest, Flushing, Merging,
                      merge_vars
  <2>2. FilesHeld'
    BY <1>1, <1>3, NoPathMoves DEF AtRest
  <2> QED BY <2>1, <2>2 DEF IInv
<1> QED BY <1>1, <1>2, <1>3, GiveUpIInv

LEMMA FlushMakePathIInv == IInv /\ FlushMakePath => IInv'
<1> SUFFICES ASSUME IInv, FlushMakePath PROVE IInv'
  OBVIOUS
<1>1. CASE NamesLeft /\ out' = FreshPath /\ temps' = temps \cup {out'} /\ pc' \in {"flushplain", "flushwrite"}
  <2>1. FreshPath \in Paths /\ UNCHANGED <<runs, next, group, prepared, plain, exit>> /\ pc = "flush"
    BY <1>1, FreshPathIsFresh DEF IInv, FlushMakePath
  <2>2. PathsOK' /\ LocalsOK'
    BY <1>1, <2>1 DEF IInv, PathsOK, Places, LocalsOK, OnlyRuns, AtRest, Flushing, Merging
  <2>3. FilesHeld'
    BY <1>1, <2>1, MadeFileHeld DEF IInv, LocalsOK, OnlyRuns, AtRest
  <2> QED BY <2>2, <2>3 DEF IInv
<1>2. CASE GiveUp /\ UNCHANGED <<out, temps>>
  BY <1>2, GiveUpIInv DEF FlushMakePath, AtRest, merge_vars
<1> QED BY <1>1, <1>2 DEF FlushMakePath

\* A second file is made while one of the two locals is taken.
LEMMA MakePlainIInv ==
  ASSUME IInv, pc \in {"flushplain", "prepare", "groupplain"},
         NamesLeft, plain' = FreshPath, temps' = temps \cup {plain'},
         \/ pc = "flushplain" /\ pc' = "flushwrite"
         \/ pc = "prepare" /\ pc' = "decompress"
         \/ pc = "groupplain" /\ pc' = "merge",
         UNCHANGED <<runs, next, group, prepared, out, exit>>
  PROVE  IInv'
<1>1. FreshPath \in Paths
  BY FreshPathIsFresh DEF IInv
<1>2. PathsOK' /\ LocalsOK'
  BY <1>1 DEF IInv, PathsOK, Places, LocalsOK, OnlyRuns, AtRest, Flushing, Merging
<1>3. FilesHeld'
  BY MadeFileHeld DEF IInv, LocalsOK
<1> QED BY <1>2, <1>3 DEF IInv

LEMMA FlushIInv ==
  ASSUME IInv, FlushMakePlain \/ FlushWrite \/ FlushFilter
  PROVE  IInv'
<1>1. UNCHANGED <<next, group, prepared, exit>> /\ pc \in Flushing
  BY DEF FlushMakePlain, FlushWrite, FlushFilter, Flushing
<1>2. CASE FlushFailed
  BY <1>1, <1>2, FlushFailedIInv
<1>3. CASE FlushDone /\ pc \in {"flushwrite", "flushfilter"}
  BY <1>1, <1>3, FlushDoneIInv
<1>4. CASE pc = "flushwrite" /\ pc' = "flushfilter" /\ UNCHANGED <<runs, out, plain, temps>>
  <2>1. PathsOK' /\ LocalsOK'
    BY <1>1, <1>4 DEF IInv, PathsOK, Places, LocalsOK, OnlyRuns, AtRest, Flushing, Merging
  <2>2. FilesHeld'
    BY <1>1, <1>4, NoPathMoves DEF merge_vars
  <2> QED BY <2>1, <2>2 DEF IInv
<1>5. CASE /\ pc = "flushplain" /\ NamesLeft /\ plain' = FreshPath /\ temps' = temps \cup {plain'}
           /\ pc' = "flushwrite" /\ UNCHANGED <<runs, out>>
  BY <1>1, <1>5, MakePlainIInv
<1> QED BY <1>2, <1>3, <1>4, <1>5 DEF FlushMakePlain, FlushWrite, FlushFilter

LEMMA PassIInv ==
  ASSUME IInv, Reduce \/ PassDone \/ GroupMakePath
  PROVE  IInv'
<1>1. CASE Reduce
  <2>1. PathsOK' /\ LocalsOK'
    BY <1>1 DEF IInv, PathsOK, Places, LocalsOK, OnlyRuns, AtRest, Flushing, Merging, Reduce,
                merge_vars
  <2>2. FilesHeld'
    BY <1>1, NoPathMoves DEF Reduce
  <2> QED BY <2>1, <2>2 DEF IInv
<1>2. CASE PassDone
  <2>1. prepared = <<>> /\ out = NoPath /\ plain = NoPath /\ Unmerged = {}
    BY <1>2 DEF IInv, LocalsOK, PassDone, Unmerged, PathsOK
  <2>2. PathsOK' /\ LocalsOK'
    BY <1>2, <2>1 DEF IInv, PathsOK, Places, LocalsOK, OnlyRuns, AtRest, Flushing, Merging, PassDone
  <2>3. temps \subseteq ToSet(runs')
    BY <1>2, <2>1, ToSetEmpty, ConstantsAssumption DEF IInv, FilesHeld, PathsOK, PassDone
  <2>4. Unmerged' = ToSet(runs')
    BY <1>2, <2>2 DEF Unmerged, ToSet, PathsOK, PassDone
  <2>5. FilesHeld'
    BY <1>2, <2>3, <2>4 DEF IInv, FilesHeld, PassDone
  <2> QED BY <2>2, <2>5 DEF IInv
<1>3. CASE GroupMakePath
  <2>1. CASE NamesLeft /\ out' = FreshPath /\ temps' = temps \cup {out'} /\ pc' \in {"prepare", "merge"}
             /\ UNCHANGED <<runs, next, group, prepared, plain>>
    <3>1. FreshPath \in Paths /\ FreshPath # NoPath /\ pc = "group" /\ group < Len(runs) /\ exit' = exit
      BY <1>3, <2>1, FreshPathIsFresh DEF IInv, GroupMakePath
    <3>2. PathsOK' /\ LocalsOK'
      BY <2>1, <3>1 DEF IInv, PathsOK, Places, LocalsOK, OnlyRuns, AtRest, Flushing, Merging
    <3>3. FilesHeld'
      BY <2>1, <3>1, MadeFileHeld DEF IInv, LocalsOK
    <3> QED BY <3>2, <3>3 DEF IInv
  <2>2. CASE GroupFailed
    BY <1>3, <2>2, GroupFailedIInv DEF GroupMakePath
  <2> QED BY <1>3, <2>1, <2>2 DEF GroupMakePath
<1> QED BY <1>1, <1>2, <1>3

LEMMA PrepareIInv ==
  ASSUME IInv, PrepareMakePath \/ PrepareDecompress \/ PrepareDone \/ GroupMakePlain
  PROVE  IInv'
<1>1. exit' = exit /\ pc \in {"prepare", "decompress", "groupplain"}
  BY DEF PrepareMakePath, PrepareDecompress, PrepareDone, GroupMakePlain
<1>2. CASE MergeFailed
  BY <1>1, <1>2, MergeFailedIInv DEF Merging
<1>3. CASE /\ NamesLeft /\ plain' = FreshPath /\ temps' = temps \cup {plain'}
           /\ \/ pc = "prepare" /\ pc' = "decompress"
              \/ pc = "groupplain" /\ pc' = "merge"
           /\ UNCHANGED <<runs, next, group, prepared, out>>
  BY <1>1, <1>3, MakePlainIInv
<1>4. CASE /\ pc = "decompress" /\ pc' = "prepare"
           /\ prepared' = Append(prepared, plain) /\ plain' = NoPath
           /\ UNCHANGED <<runs, next, group, out, temps>>
  <2>1. plain \in Paths
    BY <1>4 DEF IInv, LocalsOK
  <2>2. PathsOK' /\ LocalsOK'
    BY <1>1, <1>4, <2>1 DEF IInv, PathsOK, Places, LocalsOK, OnlyRuns, AtRest, Flushing, Merging
  <2>3. ToSet(prepared') = ToSet(prepared) \cup {plain} /\ Unmerged' = Unmerged
    BY <1>4, <2>1, ToSetAppend DEF IInv, PathsOK, Unmerged
  <2>4. FilesHeld'
    BY <1>1, <1>4, <2>3 DEF IInv, FilesHeld
  <2> QED BY <2>2, <2>4 DEF IInv
<1>5. CASE PrepareDone
  <2>1. PathsOK' /\ LocalsOK'
    BY <1>5 DEF IInv, PathsOK, Places, LocalsOK, OnlyRuns, AtRest, Flushing, Merging, PrepareDone,
                merge_vars
  <2>2. FilesHeld'
    BY <1>5, NoPathMoves DEF PrepareDone
  <2> QED BY <2>1, <2>2 DEF IInv
<1> QED BY <1>2, <1>3, <1>4, <1>5 DEF PrepareMakePath, PrepareDecompress, GroupMakePlain

LEMMA MergeIInv ==
  ASSUME IInv, GroupMerge \/ GroupFilter \/ Final \/ FinalMerge
  PROVE  IInv'
<1>1. CASE GroupMerge
  <2>1. pc = "merge" /\ out # NoPath /\ exit' = exit
    BY <1>1 DEF GroupMerge
  <2>2. CASE pc' = "groupfilter" /\ UNCHANGED <<runs, merge_vars, temps>>
    <3>1. PathsOK' /\ LocalsOK'
      BY <2>1, <2>2 DEF IInv, PathsOK, Places, LocalsOK, OnlyRuns, AtRest, Flushing, Merging,
                        merge_vars
    <3>2. FilesHeld'
      BY <2>1, <2>2, NoPathMoves
    <3> QED BY <3>1, <3>2 DEF IInv
  <2> QED BY <1>1, <2>1, <2>2, GroupDoneIInv, GroupFailedIInv DEF GroupMerge, Merging
<1>2. CASE GroupFilter
  <2>1. pc = "groupfilter" /\ out # NoPath /\ exit' = exit
    BY <1>2 DEF GroupFilter, IInv, LocalsOK
  <2> QED BY <1>2, <2>1, GroupDoneIInv, GroupFailedIInv DEF GroupFilter, Merging
<1>3. CASE Final
  <2>1. pc = "final" /\ UNCHANGED <<runs, merge_vars, temps, exit>>
    BY <1>3 DEF Final
  <2>2. CASE pc' = "cleanup" /\ runs = <<>>
    <3>1. PathsOK' /\ LocalsOK'
      BY <2>1, <2>2 DEF IInv, PathsOK, Places, LocalsOK, OnlyRuns, AtRest, Flushing, Merging,
                        merge_vars
    <3>2. temps \subseteq ToSet(runs)
      BY <2>1, UnmergedInRuns, ToSetEmpty, ConstantsAssumption
         DEF IInv, LocalsOK, OnlyRuns, FilesHeld, PathsOK, AtRest
    <3>3. FilesHeld'
      BY <2>1, <2>2, <3>2 DEF IInv, FilesHeld
    <3> QED BY <3>1, <3>3 DEF IInv
  <2>3. CASE pc' \in {"prepare", "merge"}
    <3>1. PathsOK' /\ LocalsOK'
      BY <2>1, <2>3 DEF IInv, PathsOK, Places, LocalsOK, OnlyRuns, AtRest, Flushing, Merging,
                        merge_vars
    <3>2. FilesHeld'
      BY <2>1, <2>3, NoPathMoves
    <3> QED BY <3>1, <3>2 DEF IInv
  <2> QED BY <1>3, <2>1, <2>2, <2>3 DEF Final, GiveUp
<1>4. CASE FinalMerge
  <2>1. pc = "merge" /\ out = NoPath /\ exit' = exit
    BY <1>4 DEF FinalMerge
  <2>2. CASE /\ RemoveTemps(ToSet(prepared)) /\ prepared' = <<>> /\ pc' = "cleanup"
             /\ UNCHANGED <<runs, next, group, out, plain>>
    <3>1. PathsOK' /\ LocalsOK'
      BY <2>1, <2>2 DEF IInv, PathsOK, Places, LocalsOK, OnlyRuns, AtRest, Flushing, Merging,
                        RemoveTemps
    <3>2. temps' \subseteq ToSet(runs)
      BY <2>1, <2>2, UnmergedInRuns, ToSetEmpty, ConstantsAssumption
         DEF IInv, LocalsOK, FilesHeld, PathsOK, Merging, RemoveTemps
    <3>3. FilesHeld'
      BY <2>1, <2>2, <3>2 DEF IInv, FilesHeld
    <3> QED BY <3>1, <3>3 DEF IInv
  <2> QED BY <1>4, <2>1, <2>2, FinalFailedIInv DEF FinalMerge, Merging
<1> QED BY <1>1, <1>2, <1>3, <1>4

LEMMA EndingIInv ==
  ASSUME IInv, CleanupRun \/ Exit \/ MemoryExhausted
  PROVE  IInv'
<1>1. CASE CleanupRun
  <2>1. CASE runs' = Tail(runs) /\ RemoveTemps({Head(runs)}) /\ UNCHANGED <<pc, exit>>
    <3>1. runs # <<>> /\ pc = "cleanup" /\ UNCHANGED merge_vars
      BY <1>1 DEF CleanupRun
    <3>2. PathsOK' /\ LocalsOK'
      BY <2>1, <3>1 DEF IInv, PathsOK, LocalsOK, OnlyRuns, AtRest, Flushing, Merging,
                        RemoveTemps, merge_vars
    <3>3. temps' \subseteq ToSet(runs')
      BY <2>1, <3>1, ToSetTail DEF IInv, PathsOK, FilesHeld, RemoveTemps
    <3>4. FilesHeld'
      BY <2>1, <3>1, <3>3 DEF IInv, FilesHeld
    <3> QED BY <3>2, <3>4 DEF IInv
  <2>2. CASE pc' = "ended" /\ exit' = "abort" /\ UNCHANGED <<runs, temps>>
    BY <1>1, <2>2 DEF CleanupRun, IInv, PathsOK, Places, LocalsOK, OnlyRuns, FilesHeld, AtRest,
                      Flushing, Merging, merge_vars
  <2> QED BY <1>1, <2>1, <2>2 DEF CleanupRun
<1>2. CASE Exit
  <2>1. temps' = {}
    BY <1>2, ToSetEmpty DEF Exit, IInv, FilesHeld
  <2> QED BY <1>2, <2>1 DEF Exit, IInv, PathsOK, Places, LocalsOK, OnlyRuns, FilesHeld, AtRest,
                            Flushing, Merging, merge_vars
<1>3. CASE MemoryExhausted
  BY <1>3 DEF MemoryExhausted, IInv, PathsOK, Places, LocalsOK, OnlyRuns, FilesHeld, AtRest,
              Flushing, Merging, merge_vars
<1> QED BY <1>1, <1>2, <1>3

LEMMA NextIInv == IInv /\ [Next]_vars => IInv'
<1> SUFFICES ASSUME IInv, [Next]_vars PROVE IInv'
  OBVIOUS
<1>1. CASE UNCHANGED vars
  BY <1>1 DEF vars, IInv, PathsOK, LocalsOK, OnlyRuns, FilesHeld, Unmerged
<1>2. CASE Next
  BY <1>2, ReadingIInv, FlushMakePathIInv, FlushIInv, PassIInv, PrepareIInv, MergeIInv, EndingIInv
     DEF Next
<1> QED BY <1>1, <1>2

-----------------------------------------------------------------------------

\* IInv is an invariant, for all inputs, sizes and faults.
THEOREM Inductive == Spec => []IInv
  BY InitIInv, NextIInv, PTL DEF Spec

\* At every step each temporary file is in one of the lists the error paths
\* go through.
THEOREM TempsAccountedCorrect == Spec => []TempsAccounted
<1>1. IInv => TempsAccounted
  BY UnmergedInRuns DEF IInv, FilesHeld, TempsAccounted
<1> QED BY <1>1, Inductive, PTL

\* A process that returns from rank_external_sort, with or without an error,
\* has removed all its temporary files.
THEOREM NoTempLeftAtExitCorrect == Spec => []NoTempLeftAtExit
<1>1. IInv => NoTempLeftAtExit
  BY DEF IInv, FilesHeld, NoTempLeftAtExit
<1> QED BY <1>1, Inductive, PTL

-----------------------------------------------------------------------------
(***************************************************************************)
(* The files that are merged                                               *)
(***************************************************************************)

\* The files at hand exist and have each one place: a run that is not merged
\* yet, a result of the pass, a decompressed copy, or one of the locals.
FilesApart ==
  /\ \A i \in group + 1 .. Len(runs) : runs[i] \in temps
  /\ \A i, j \in group + 1 .. Len(runs) : runs[i] = runs[j] => i = j
  /\ \A i \in 1 .. Len(next) : next[i] \in temps
  /\ \A i, j \in 1 .. Len(next) : next[i] = next[j] => i = j
  /\ \A i \in 1 .. Len(prepared) : prepared[i] \in temps
  /\ \A i, j \in 1 .. Len(prepared) : prepared[i] = prepared[j] => i = j
  /\ \A i \in group + 1 .. Len(runs), j \in 1 .. Len(next) : runs[i] # next[j]
  /\ \A i \in group + 1 .. Len(runs), j \in 1 .. Len(prepared) : runs[i] # prepared[j]
  /\ \A i \in 1 .. Len(next), j \in 1 .. Len(prepared) : next[i] # prepared[j]
  /\ \A i \in group + 1 .. Len(runs) : runs[i] # out /\ runs[i] # plain
  /\ \A i \in 1 .. Len(next) : next[i] # out /\ next[i] # plain
  /\ \A i \in 1 .. Len(prepared) : prepared[i] # out /\ prepared[i] # plain
  /\ out # NoPath => out \in temps /\ out # plain
  /\ plain # NoPath => plain \in temps

\* What is not compressed: decompressed copies, and all without a filter.
PlainFiles ==
  /\ DOMAIN content = Paths /\ \A p \in Paths : "compressed" \in DOMAIN content[p]
  /\ \A p \in ToSet(prepared) : ~content[p].compressed
  /\ ~compress => \A p \in temps : ~content[p].compressed

\* The places where the filter has a file to work on.
Filtering == pc \in {"flushwrite", "flushfilter", "groupfilter"} \/ (pc = "merge" /\ out # NoPath)

\* What the places that lead to a merge have made sure of.
MergeReady ==
  /\ pc \in {"flushplain", "flushfilter", "prepare", "decompress", "groupplain", "groupfilter"}
       => compress
  /\ ~compress => prepared = <<>> /\ plain = NoPath
  /\ compress /\ Filtering => plain # NoPath
  /\ pc = "group" => Batch # 0
  /\ pc = "final" /\ Batch # 0 => Len(runs) <= Batch
  /\ pc \in Merging => IF out = NoPath THEN runs # <<>> /\ (Batch # 0 => Len(runs) <= Batch)
                                      ELSE Batch # 0
  /\ pc = "decompress" => Len(prepared) < Len(MergeSources)
  /\ pc \in {"merge", "groupplain"} /\ compress => Len(prepared) = Len(MergeSources)

KInv == pc \notin {"cleanup", "ended"} => FilesApart /\ PlainFiles /\ MergeReady

-----------------------------------------------------------------------------
(***************************************************************************)
(* Sequences                                                               *)
(***************************************************************************)

LEMMA Listed ==
  ASSUME NEW S, NEW s \in Seq(S)
  PROVE  /\ Len(s) \in Nat /\ DOMAIN s = 1 .. Len(s)
         /\ ToSet(s) = {s[i] : i \in 1 .. Len(s)}
         /\ \A i \in 1 .. Len(s) : s[i] \in S
  BY DEF ToSet

LEMMA Appending ==
  ASSUME NEW S, NEW s \in Seq(S), NEW x \in S
  PROVE  /\ Len(Append(s, x)) = Len(s) + 1 /\ Len(s) \in Nat
         /\ Append(s, x)[Len(s) + 1] = x
         /\ \A i \in 1 .. Len(s) : Append(s, x)[i] = s[i]
  OBVIOUS

\* The types of the lists.
LEMMA Lists ==
  ASSUME IInv
  PROVE  /\ runs \in Seq(Paths) /\ next \in Seq(Paths) /\ prepared \in Seq(Paths)
         /\ Len(runs) \in Nat /\ Len(next) \in Nat /\ Len(prepared) \in Nat /\ group \in Nat
         /\ out \in Paths \cup {NoPath} /\ plain \in Paths \cup {NoPath} /\ NoPath \notin Paths
         /\ temps \subseteq Paths
  BY ConstantsAssumption DEF IInv, PathsOK

-----------------------------------------------------------------------------
(***************************************************************************)
(* What a step does to the lists                                           *)
(***************************************************************************)

\* Steps that move no path.
LEMMA ListsStay ==
  ASSUME FilesApart, UNCHANGED <<runs, next, group, prepared, out, plain, temps>>
  PROVE  FilesApart'
  BY DEF FilesApart

\* A file is made for a run or a group.
LEMMA OutMade ==
  ASSUME IInv, FilesApart, NamesLeft, out = NoPath, out' = FreshPath, temps' = temps \cup {out'},
         UNCHANGED <<runs, next, group, prepared, plain>>
  PROVE  FilesApart'
<1>1. out' \notin temps /\ out' # NoPath
  BY FreshPathIsFresh DEF IInv
<1> QED BY <1>1 DEF FilesApart

\* A file is made for what goes to the filter or comes from it.
LEMMA PlainMade ==
  ASSUME IInv, FilesApart, NamesLeft, plain = NoPath, plain' = FreshPath,
         temps' = temps \cup {plain'},
         UNCHANGED <<runs, next, group, prepared, out>>
  PROVE  FilesApart'
<1>1. plain' \notin temps /\ plain' # NoPath
  BY FreshPathIsFresh DEF IInv
<1> QED BY <1>1 DEF FilesApart

\* A run that is written joins the others.
LEMMA RunAdded ==
  ASSUME IInv, FilesApart, pc \in Flushing, FlushDone, UNCHANGED <<next, group, prepared>>
  PROVE  FilesApart'
<1>1. next = <<>> /\ prepared = <<>> /\ group = 0 /\ out \in Paths
  BY DEF IInv, LocalsOK
<1>2. runs' = Append(runs, out) /\ out' = NoPath /\ plain' = NoPath /\ temps' = temps \ {plain}
  BY DEF FlushDone, RemoveTemps
<1>3. /\ Len(runs') = Len(runs) + 1 /\ Len(runs) \in Nat /\ runs'[Len(runs) + 1] = out
      /\ \A i \in 1 .. Len(runs) : runs'[i] = runs[i]
  BY <1>1, <1>2, Lists, Appending
<1>4. \A i \in 1 .. Len(runs) : runs[i] \in temps /\ runs[i] # out /\ runs[i] # plain
  BY <1>1, <1>3 DEF FilesApart
<1>5. \A i, j \in 1 .. Len(runs) : runs[i] = runs[j] => i = j
  BY <1>1, <1>3 DEF FilesApart
<1>6. out \in temps /\ out # plain
  <2>1. out # NoPath
    BY <1>1, ConstantsAssumption
  <2> QED BY <2>1 DEF FilesApart
<1>7. \A i \in 1 .. Len(runs') : runs'[i] \in temps' /\ runs'[i] # NoPath
  BY <1>2, <1>3, <1>4, <1>6, Lists
<1>8. \A i, j \in 1 .. Len(runs') : runs'[i] = runs'[j] => i = j
  BY <1>3, <1>4, <1>5
<1>9. Len(next') = 0 /\ Len(prepared') = 0 /\ group' = 0
  BY <1>1
<1> QED BY <1>2, <1>3, <1>7, <1>8, <1>9 DEF FilesApart

\* A group gives way to its result.
LEMMA GroupReplaced ==
  ASSUME IInv, FilesApart, pc \in {"merge", "groupfilter"}, out # NoPath, GroupDone
  PROVE  FilesApart'
<1>a. group \in Nat /\ Len(runs) \in Nat
  BY Lists
<1>1. group < Len(runs) /\ GroupSize \in 0 .. Len(runs) - group
  BY GroupWithinRuns DEF IInv, LocalsOK, Merging
<1>2. /\ next' = Append(next, out) /\ runs' = runs /\ group' = group + GroupSize
      /\ temps' = temps \ (ToSet(GroupInputs) \cup ToSet(prepared) \cup {plain})
      /\ prepared' = <<>> /\ out' = NoPath /\ plain' = NoPath
  BY DEF GroupDone, RemoveTemps
<1>3. ASSUME NEW x \in ToSet(GroupInputs)
      PROVE  \E i \in group + 1 .. group + GroupSize : i <= Len(runs) /\ x = runs[i]
  <2>1. runs \in Seq(Paths) /\ group \in Nat /\ Len(runs) \in Nat
    BY Lists
  <2>2. /\ DOMAIN GroupInputs = 1 .. GroupSize
        /\ \A i \in 1 .. GroupSize : GroupInputs[i] = runs[group + i]
    BY <1>1, <2>1 DEF GroupInputs
  <2>3. PICK i \in 1 .. GroupSize : x = GroupInputs[i]
    BY <2>2, <1>3 DEF ToSet
  <2>4. group + i \in group + 1 .. group + GroupSize /\ group + i <= Len(runs)
    BY <1>1, <2>1
  <2> QED BY <2>2, <2>3, <2>4
<1>b. \A x \in ToSet(GroupInputs) : \E i \in group + 1 .. Len(runs) : x = runs[i]
  BY <1>a, <1>1, <1>3
<1>4. \A x \in ToSet(prepared) : \E i \in 1 .. Len(prepared) : x = prepared[i]
  BY Lists, Listed
<1>5. /\ Len(next') = Len(next) + 1 /\ Len(next) \in Nat /\ next'[Len(next) + 1] = out
      /\ \A i \in 1 .. Len(next) : next'[i] = next[i]
  BY <1>2, Lists, Appending
<1>6. \A i \in 1 .. Len(next) : next[i] \in temps'
  <2> SUFFICES ASSUME NEW i \in 1 .. Len(next) PROVE next[i] \in temps'
    OBVIOUS
  <2>1. next[i] \in temps /\ next[i] # plain
    BY DEF FilesApart
  <2>2. next[i] \notin ToSet(GroupInputs)
    BY <1>b DEF FilesApart
  <2>3. next[i] \notin ToSet(prepared)
    BY <1>4 DEF FilesApart
  <2> QED BY <1>2, <2>1, <2>2, <2>3
<1>7. out \in temps'
  <2>1. out \in temps /\ out # plain
    BY DEF FilesApart
  <2>2. out \notin ToSet(GroupInputs)
    BY <1>b DEF FilesApart
  <2>3. out \notin ToSet(prepared)
    BY <1>4 DEF FilesApart
  <2> QED BY <1>2, <2>1, <2>2, <2>3
<1>8. \A i \in group' + 1 .. Len(runs) : i \in group + 1 .. Len(runs) /\ i > group + GroupSize
  BY <1>a, <1>1, <1>2
<1>9. \A i \in group' + 1 .. Len(runs) : runs[i] \in temps'
  <2> SUFFICES ASSUME NEW i \in group' + 1 .. Len(runs) PROVE runs[i] \in temps'
    OBVIOUS
  <2>1. runs[i] \in temps /\ runs[i] # plain
    BY <1>8 DEF FilesApart
  <2>2. runs[i] \notin ToSet(GroupInputs)
    <3> SUFFICES ASSUME runs[i] \in ToSet(GroupInputs) PROVE FALSE
      OBVIOUS
    <3>1. PICK j \in group + 1 .. group + GroupSize : j <= Len(runs) /\ runs[i] = runs[j]
      BY <1>3
    <3>2. j \in group + 1 .. Len(runs) /\ j <= group + GroupSize
      BY <1>a, <1>1, <3>1
    <3>3. i = j
      BY <1>8, <3>1, <3>2 DEF FilesApart
    <3> QED BY <1>a, <1>1, <1>8, <3>2, <3>3
  <2>3. runs[i] \notin ToSet(prepared)
    BY <1>4, <1>8 DEF FilesApart
  <2> QED BY <1>2, <2>1, <2>2, <2>3
<1>10. \A i \in group' + 1 .. Len(runs) :
         runs[i] # out /\ \A j \in 1 .. Len(next) : runs[i] # next[j]
  BY <1>8 DEF FilesApart
<1>11. \A i, j \in group' + 1 .. Len(runs) : runs[i] = runs[j] => i = j
  BY <1>8 DEF FilesApart
<1>12. \A i, j \in 1 .. Len(next') : next'[i] = next'[j] => i = j
  <2>1. /\ \A i \in 1 .. Len(next) : next[i] # out
        /\ \A i, j \in 1 .. Len(next) : next[i] = next[j] => i = j
    BY DEF FilesApart
  <2> QED BY <1>5, <2>1
<1>13. \A i \in 1 .. Len(next') : next'[i] \in temps'
  BY <1>5, <1>6, <1>7
<1>14. \A i \in group' + 1 .. Len(runs), j \in 1 .. Len(next') : runs[i] # next'[j]
  BY <1>5, <1>10
<1>15. NoPath \notin temps' /\ Len(prepared') = 0
  BY <1>2, Lists
<1> QED BY <1>2, <1>9, <1>11, <1>12, <1>13, <1>14, <1>15 DEF FilesApart

-----------------------------------------------------------------------------
(***************************************************************************)
(* What a step does to the contents                                        *)
(***************************************************************************)

\* A file is written that is plain, or is neither prepared nor without filter.
LEMMA ContentWritten ==
  ASSUME IInv, IInv', PlainFiles, NEW p, NEW c,
         content' = [content EXCEPT ![p] = c], "compressed" \in DOMAIN c,
         ~c.compressed \/ (compress /\ p \notin ToSet(prepared')),
         ToSet(prepared') \subseteq ToSet(prepared) \cup {p},
         temps' \subseteq temps \cup {p}, compress' = compress
  PROVE  PlainFiles'
<1>1. /\ DOMAIN content' = Paths /\ \A q \in Paths : content'[q] = IF q = p THEN c ELSE content[q]
  BY DEF PlainFiles
<1>2. ToSet(prepared') \subseteq Paths /\ temps' \subseteq Paths
  BY DEF IInv, PathsOK, ToSet
<1>3. \A q \in Paths : "compressed" \in DOMAIN content'[q]
  BY <1>1 DEF PlainFiles
<1>4. \A q \in ToSet(prepared') : ~content'[q].compressed
  BY <1>1, <1>2 DEF PlainFiles
<1>5. ASSUME ~compress, NEW q \in temps' PROVE ~content'[q].compressed
  BY <1>1, <1>2, <1>5 DEF PlainFiles
<1> QED BY <1>1, <1>3, <1>4, <1>5 DEF PlainFiles

LEMMA ContentStays ==
  ASSUME PlainFiles, UNCHANGED <<content, compress>>,
         ToSet(prepared') \subseteq ToSet(prepared), temps' \subseteq temps
  PROVE  PlainFiles'
  BY DEF PlainFiles

LEMMA PlainIsPlain ==
  ASSUME NEW recs
  PROVE  "compressed" \in DOMAIN Plainly(recs) /\ ~Plainly(recs).compressed
  BY DEF Plainly

\* out and plain are not among the decompressed copies.
LEMMA LocalsNotPrepared ==
  ASSUME IInv, FilesApart
  PROVE  out \notin ToSet(prepared) /\ plain \notin ToSet(prepared)
  BY Lists, Listed, SMTT(30) DEF FilesApart

\* A new empty file.
LEMMA EmptyMade ==
  ASSUME IInv, IInv', PlainFiles, NEW p, content' = [content EXCEPT ![p] = Plainly(<<>>)],
         temps' = temps \cup {p}, UNCHANGED <<prepared, compress>>
  PROVE  PlainFiles'
  BY ContentWritten, PlainIsPlain

-----------------------------------------------------------------------------
(***************************************************************************)
(* Every step                                                              *)
(***************************************************************************)

Alive == pc \notin {"cleanup", "ended"}
IgnoresPaths == UNCHANGED <<compress, runs, next, group, prepared, out, plain, temps, content>>

LEMMA InitKInv == Init => KInv
<1> SUFFICES ASSUME Init PROVE KInv
  OBVIOUS
<1>1. FilesApart
  BY DEF Init, FilesApart
<1>2. PlainFiles
  BY PlainIsPlain, ToSetEmpty DEF Init, PlainFiles
<1>3. MergeReady
  BY DEF Init, MergeReady, Filtering, Merging
<1> QED BY <1>1, <1>2, <1>3 DEF KInv

\* Between two places of which neither is about to merge.
LEMMA QuietKInv ==
  ASSUME IInv, IInv', KInv, Alive, IgnoresPaths, MergeReady'
  PROVE  KInv'
<1>1. FilesApart'
  BY ListsStay DEF KInv, Alive, IgnoresPaths
<1>2. PlainFiles'
  BY ContentStays DEF KInv, Alive, IgnoresPaths
<1> QED BY <1>1, <1>2 DEF KInv

LEMMA ReadingKInv ==
  ASSUME IInv, IInv', KInv, OpenOperand \/ ReadChunk \/ ReadEof \/ ReadError \/ EndOfInput
  PROVE  KInv'
<1>1. Alive /\ IgnoresPaths /\ (GiveUp \/ pc' \in {"open", "read", "flush", "reduce"})
  BY DEF OpenOperand, ReadChunk, ReadEof, ReadError, EndOfInput, Alive, IgnoresPaths, input_vars,
         job_vars, merge_vars
<1>2. CASE GiveUp
  BY <1>2 DEF GiveUp, KInv
<1>3. CASE pc' \in {"open", "read", "flush", "reduce"}
  <2>1. MergeReady'
    BY <1>1, <1>3 DEF KInv, MergeReady, Filtering, Merging, Alive, IgnoresPaths
  <2> QED BY <1>1, <2>1, QuietKInv
<1> QED BY <1>1, <1>2, <1>3

LEMMA FlushMakePathKInv == IInv /\ IInv' /\ KInv /\ FlushMakePath => KInv'
<1> SUFFICES ASSUME IInv, IInv', KInv, FlushMakePath PROVE KInv'
  OBVIOUS
<1>1. pc = "flush" /\ FilesApart /\ PlainFiles /\ MergeReady /\ compress' = compress
  BY DEF FlushMakePath, KInv, input_vars, job_vars
<1>2. CASE GiveUp
  BY <1>2 DEF GiveUp, KInv
<1>3. CASE /\ NamesLeft /\ out' = FreshPath /\ temps' = temps \cup {out'}
           /\ content' = [content EXCEPT ![out'] = Plainly(<<>>)]
           /\ pc' = IF compress THEN "flushplain" ELSE "flushwrite"
           /\ UNCHANGED <<runs, next, group, prepared, plain>>
  <2>1. FilesApart'
    BY <1>1, <1>3, OutMade DEF IInv, LocalsOK, OnlyRuns, AtRest
  <2>2. PlainFiles'
    BY <1>1, <1>3, EmptyMade
  <2>3. MergeReady'
    BY <1>1, <1>3 DEF MergeReady, Filtering, Merging
  <2> QED BY <2>1, <2>2, <2>3 DEF KInv
<1> QED BY <1>2, <1>3 DEF FlushMakePath

\* A file is made for what goes to the filter or comes from it.
LEMMA MakePlainKInv ==
  ASSUME IInv, IInv', KInv, NamesLeft, plain' = FreshPath, temps' = temps \cup {plain'},
         content' = [content EXCEPT ![plain'] = Plainly(<<>>)],
         \/ pc = "flushplain" /\ pc' = "flushwrite"
         \/ pc = "prepare" /\ pc' = "decompress" /\ Len(prepared) < Len(MergeSources)
         \/ pc = "groupplain" /\ pc' = "merge",
         UNCHANGED <<compress, runs, next, group, prepared, out>>
  PROVE  KInv'
<1>1. FilesApart /\ PlainFiles /\ MergeReady /\ plain = NoPath
  BY DEF KInv, IInv, LocalsOK
<1>2. FilesApart'
  BY <1>1, PlainMade
<1>3. PlainFiles'
  BY <1>1, EmptyMade
<1>4. MergeSources' = MergeSources
  BY DEF MergeSources, GroupInputs, GroupSize
<1>5. plain' # NoPath /\ compress
  BY <1>1, FreshPathIsFresh DEF IInv, MergeReady
<1>6. MergeReady'
  BY <1>1, <1>4, <1>5 DEF MergeReady, Filtering, Merging
<1> QED BY <1>2, <1>3, <1>6 DEF KInv

LEMMA FlushKInv ==
  ASSUME IInv, IInv', KInv, FlushMakePlain \/ FlushWrite \/ FlushFilter
  PROVE  KInv'
<1>1. /\ FilesApart /\ PlainFiles /\ MergeReady /\ UNCHANGED <<compress, next, group, prepared>>
      /\ pc \in Flushing /\ prepared = <<>> /\ prepared' = <<>> /\ out \in Paths
  BY DEF FlushMakePlain, FlushWrite, FlushFilter, Flushing, KInv, job_vars, IInv, LocalsOK
<1>2. CASE FlushFailed
  BY <1>2 DEF FlushFailed, GiveUp, KInv
<1>3. CASE FlushMakePlain /\ ~FlushFailed
  BY <1>1, <1>3, MakePlainKInv DEF FlushMakePlain
<1>4. ASSUME FlushDone, PlainFiles' PROVE KInv'
  <2>1. FilesApart'
    BY <1>1, <1>4, RunAdded
  <2>2. pc' \in {"read", "reduce"} /\ plain' = NoPath
    BY <1>4 DEF FlushDone
  <2>3. MergeReady'
    BY <1>1, <2>2 DEF MergeReady, Filtering, Merging
  <2> QED BY <1>4, <2>1, <2>3 DEF KInv
<1>5. CASE FlushWrite /\ ~FlushFailed
  <2>1. pc = "flushwrite" /\ temps' \subseteq temps
    BY <1>5 DEF FlushWrite, FlushDone, RemoveTemps
  <2>2. PICK ord \in Orders :
          content' = [content EXCEPT ![IF compress THEN plain ELSE out] = Plainly(StableSort(buf, ord))]
    BY <1>5 DEF FlushWrite
  <2>3. PlainFiles'
    BY <1>1, <2>1, <2>2, ContentWritten, PlainIsPlain
  <2>4. CASE compress
    <3>1. pc' = "flushfilter" /\ UNCHANGED <<buf, runs, out, plain, temps>>
      BY <1>5, <2>4 DEF FlushWrite
    <3>2. FilesApart'
      BY <1>1, <3>1, ListsStay
    <3>3. MergeReady'
      BY <1>1, <2>1, <2>4, <3>1 DEF MergeReady, Filtering, Merging
    <3> QED BY <2>3, <3>2, <3>3 DEF KInv
  <2>5. CASE ~compress
    BY <1>4, <1>5, <2>3, <2>5 DEF FlushWrite
  <2> QED BY <2>4, <2>5
<1>6. CASE FlushFilter /\ ~FlushFailed
  <2>1. /\ pc = "flushfilter" /\ FlushDone /\ temps' \subseteq temps
        /\ content' = [content EXCEPT ![out] = Compressed(content[plain])]
    BY <1>6 DEF FlushFilter, FlushDone, RemoveTemps
  <2>2. compress /\ plain \in Paths /\ "compressed" \in DOMAIN Compressed(content[plain])
    BY <1>1, <2>1, Lists DEF MergeReady, Filtering, PlainFiles, Compressed
  <2>3. PlainFiles'
    BY <1>1, <2>1, <2>2, ContentWritten, ToSetEmpty
  <2> QED BY <1>4, <2>1, <2>3
<1> QED BY <1>2, <1>3, <1>5, <1>6

LEMMA PassKInv ==
  ASSUME IInv, IInv', KInv, Reduce \/ PassDone \/ GroupMakePath
  PROVE  KInv'
<1>1. FilesApart /\ PlainFiles /\ MergeReady /\ compress' = compress
  BY DEF Reduce, PassDone, GroupMakePath, KInv, input_vars, job_vars
<1>2. CASE Reduce
  <2>1. Alive /\ IgnoresPaths
    BY <1>2 DEF Reduce, Alive, IgnoresPaths, input_vars, job_vars, merge_vars
  <2>2. MergeReady'
    BY <1>1, <1>2, <2>1, Lists, ConstantsAssumption
       DEF MergeReady, Filtering, Merging, IgnoresPaths, Reduce
  <2> QED BY <2>1, <2>2, QuietKInv
<1>3. CASE PassDone
  <2>1. /\ runs' = next /\ next' = <<>> /\ group' = 0 /\ pc' = "reduce"
        /\ UNCHANGED <<prepared, out, plain, temps, content>>
    BY <1>3 DEF PassDone
  <2>2. prepared = <<>> /\ out = NoPath /\ plain = NoPath
    BY <1>3 DEF PassDone, IInv, LocalsOK
  <2>3. FilesApart'
    BY <1>1, <2>1, <2>2 DEF FilesApart
  <2>4. PlainFiles'
    BY <1>1, <2>1, ContentStays
  <2>5. MergeReady'
    BY <1>1, <2>1, <2>2 DEF MergeReady, Filtering, Merging
  <2> QED BY <2>3, <2>4, <2>5 DEF KInv
<1>4. CASE GroupMakePath
  <2>1. CASE GroupFailed
    BY <2>1 DEF GroupFailed, GiveUp, KInv
  <2>2. CASE /\ NamesLeft /\ out' = FreshPath /\ temps' = temps \cup {out'}
             /\ content' = [content EXCEPT ![out'] = Plainly(<<>>)]
             /\ pc' = IF compress THEN "prepare" ELSE "merge"
             /\ UNCHANGED <<runs, next, group, prepared, plain>>
    <3>1. pc = "group" /\ prepared = <<>> /\ out = NoPath /\ plain = NoPath
      BY <1>4 DEF GroupMakePath, IInv, LocalsOK
    <3>2. out' # NoPath
      BY <2>2, FreshPathIsFresh DEF IInv
    <3>3. FilesApart'
      BY <1>1, <2>2, <3>1, OutMade
    <3>4. PlainFiles'
      BY <1>1, <2>2, EmptyMade
    <3>5. MergeReady'
      BY <1>1, <2>2, <3>1, <3>2 DEF MergeReady, Filtering, Merging
    <3> QED BY <3>3, <3>4, <3>5 DEF KInv
  <2> QED BY <1>4, <2>1, <2>2 DEF GroupMakePath
<1> QED BY <1>2, <1>3, <1>4

\* The files a merge is made of are at hand.
LEMMA SourcesAtHand ==
  ASSUME IInv, pc \in Merging
  PROVE  /\ Len(MergeSources) \in Nat
         /\ DOMAIN MergeSources = 1 .. Len(MergeSources)
         /\ Len(MergeSources) = IF out = NoPath THEN Len(runs) ELSE GroupSize
         /\ out = NoPath => group = 0
         /\ out # NoPath => group < Len(runs) /\ GroupSize \in 0 .. Len(runs) - group
         /\ \A i \in 1 .. Len(MergeSources) :
              group + i \in group + 1 .. Len(runs) /\ MergeSources[i] = runs[group + i]
<1>1. runs \in Seq(Paths) /\ group \in Nat /\ Len(runs) \in Nat
  BY Lists
<1>2. CASE out = NoPath
  <2>1. group = 0
    BY <1>2 DEF IInv, LocalsOK
  <2> QED BY <1>1, <1>2, <2>1 DEF MergeSources
<1>3. CASE out # NoPath
  <2>1. group < Len(runs) /\ GroupSize \in 0 .. Len(runs) - group
    BY <1>3, GroupWithinRuns DEF IInv, LocalsOK
  <2> QED BY <1>1, <1>3, <2>1 DEF MergeSources, GroupInputs
<1> QED BY <1>2, <1>3

LEMMA PrepareKInv ==
  ASSUME IInv, IInv', KInv, PrepareMakePath \/ PrepareDecompress \/ PrepareDone \/ GroupMakePlain
  PROVE  KInv'
<1>1. /\ FilesApart /\ PlainFiles /\ MergeReady /\ compress' = compress
      /\ pc \in {"prepare", "decompress", "groupplain"} /\ pc \in Merging
  BY DEF PrepareMakePath, PrepareDecompress, PrepareDone, GroupMakePlain, KInv, input_vars, job_vars,
         Merging
<1>2. CASE MergeFailed
  BY <1>2 DEF MergeFailed, FinalFailed, GroupFailed, GiveUp, KInv
<1>3. CASE (PrepareMakePath \/ GroupMakePlain) /\ ~MergeFailed
  BY <1>1, <1>3, MakePlainKInv DEF PrepareMakePath, GroupMakePlain
<1>4. CASE PrepareDecompress /\ ~MergeFailed
  <2> DEFINE source == MergeSources[Len(prepared) + 1]
  <2>1. /\ pc = "decompress" /\ pc' = "prepare" /\ prepared' = Append(prepared, plain)
        /\ plain' = NoPath /\ UNCHANGED <<runs, next, group, out, temps>>
        /\ content' = [content EXCEPT ![plain] = Decompressed(content[source])]
    BY <1>4 DEF PrepareDecompress
  <2>2. plain \in Paths /\ Len(prepared) < Len(MergeSources) /\ compress
    BY <1>1, <2>1 DEF IInv, LocalsOK, MergeReady
  <2>3. source \in Paths
    BY <1>1, <2>2, SourcesAtHand, Lists, SMTT(30)
  <2>4. /\ "compressed" \in DOMAIN Decompressed(content[source])
        /\ ~Decompressed(content[source]).compressed
    BY <1>1, <2>3 DEF PlainFiles, Decompressed
  <2>5. ToSet(prepared') = ToSet(prepared) \cup {plain}
    BY <2>1, <2>2, Lists, ToSetAppend
  <2>6. PlainFiles'
    BY <1>1, <2>1, <2>4, <2>5, ContentWritten
  <2>7. /\ Len(prepared') = Len(prepared) + 1 /\ Len(prepared) \in Nat
        /\ prepared'[Len(prepared) + 1] = plain
        /\ \A i \in 1 .. Len(prepared) : prepared'[i] = prepared[i]
    BY <2>1, <2>2, Lists, Appending
  <2>8. FilesApart'
    <3>1. plain # NoPath /\ plain \in temps /\ NoPath \notin temps
      BY <1>1, <2>2, Lists DEF FilesApart
    <3>2. \A i \in 1 .. Len(prepared') : prepared'[i] \in temps /\ prepared'[i] # out
      BY <1>1, <2>7, <3>1 DEF FilesApart
    <3>3. \A i, j \in 1 .. Len(prepared') : prepared'[i] = prepared'[j] => i = j
      BY <1>1, <2>7 DEF FilesApart
    <3>4. \A i \in group + 1 .. Len(runs), j \in 1 .. Len(prepared') : runs[i] # prepared'[j]
      BY <1>1, <2>7 DEF FilesApart
    <3>5. \A i \in 1 .. Len(next), j \in 1 .. Len(prepared') : next[i] # prepared'[j]
      BY <1>1, <2>7 DEF FilesApart
    <3> QED BY <1>1, <2>1, <3>1, <3>2, <3>3, <3>4, <3>5, SMTT(30) DEF FilesApart
  <2>9. MergeReady'
    BY <1>1, <2>1, <2>2 DEF MergeReady, Filtering, Merging
  <2> QED BY <2>6, <2>8, <2>9 DEF KInv
<1>5. CASE PrepareDone
  <2>1. Alive /\ IgnoresPaths
    BY <1>1, <1>5 DEF PrepareDone, Alive, IgnoresPaths, merge_vars
  <2>2. MergeSources' = MergeSources
    BY <2>1 DEF IgnoresPaths, MergeSources, GroupInputs, GroupSize
  <2>3. MergeReady'
    BY <1>1, <1>5, <2>1, <2>2 DEF MergeReady, Filtering, Merging, IgnoresPaths, PrepareDone
  <2> QED BY <2>1, <2>3, QuietKInv
<1> QED BY <1>2, <1>3, <1>4, <1>5

LEMMA MergeKInv ==
  ASSUME IInv, IInv', KInv, GroupMerge \/ GroupFilter \/ Final \/ FinalMerge
  PROVE  KInv'
<1>1. FilesApart /\ PlainFiles /\ MergeReady /\ compress' = compress
  BY DEF GroupMerge, GroupFilter, Final, FinalMerge, KInv, input_vars, job_vars
<1>2. CASE GroupFailed \/ FinalFailed \/ pc' = "cleanup"
  BY <1>2 DEF GroupFailed, FinalFailed, GiveUp, KInv
<1>3. ASSUME pc \in {"merge", "groupfilter"}, out # NoPath, GroupDone, PlainFiles' PROVE KInv'
  <2>1. FilesApart'
    BY <1>1, <1>3, GroupReplaced
  <2>2. pc' = "group" /\ prepared' = <<>> /\ plain' = NoPath /\ pc \in Merging
    BY <1>3 DEF GroupDone, Merging
  <2>3. MergeReady'
    BY <1>1, <1>3, <2>2 DEF MergeReady, Filtering, Merging
  <2> QED BY <1>3, <2>1, <2>3 DEF KInv
<1>4. CASE GroupMerge /\ ~GroupFailed
  <2>1. pc = "merge" /\ out # NoPath /\ temps' \subseteq temps
    BY <1>4 DEF GroupMerge, GroupDone, RemoveTemps
  <2>2. PICK ord \in Orders :
          content' = [content EXCEPT ![IF compress THEN plain ELSE out] = Plainly(Merged(ord))]
    BY <1>4 DEF GroupMerge
  <2>3. ToSet(prepared') \subseteq ToSet(prepared)
    BY <1>4, ToSetEmpty DEF GroupMerge, GroupDone, merge_vars
  <2>4. PlainFiles'
    BY <1>1, <2>1, <2>2, <2>3, ContentWritten, PlainIsPlain
  <2>5. CASE compress
    <3>1. pc' = "groupfilter" /\ UNCHANGED <<runs, merge_vars, temps>>
      BY <1>4, <2>5 DEF GroupMerge
    <3>2. FilesApart'
      BY <1>1, <3>1, ListsStay DEF merge_vars
    <3>3. MergeReady'
      BY <1>1, <2>1, <2>5, <3>1 DEF MergeReady, Filtering, Merging, merge_vars
    <3> QED BY <2>4, <3>2, <3>3 DEF KInv
  <2>6. CASE ~compress
    BY <1>3, <1>4, <2>1, <2>4, <2>6 DEF GroupMerge
  <2> QED BY <2>5, <2>6
<1>5. CASE GroupFilter /\ ~GroupFailed
  <2>1. /\ pc = "groupfilter" /\ out # NoPath /\ GroupDone /\ temps' \subseteq temps
        /\ content' = [content EXCEPT ![out] = Compressed(content[plain])]
    BY <1>5 DEF GroupFilter, GroupDone, RemoveTemps, IInv, LocalsOK
  <2>2. compress /\ plain \in Paths /\ "compressed" \in DOMAIN Compressed(content[plain])
    BY <1>1, <2>1, Lists DEF MergeReady, Filtering, PlainFiles, Compressed
  <2>3. ToSet(prepared') = {}
    BY <2>1, ToSetEmpty DEF GroupDone
  <2>4. PlainFiles'
    BY <1>1, <2>1, <2>2, <2>3, ContentWritten
  <2> QED BY <1>3, <2>1, <2>4
<1>6. CASE Final /\ pc' # "cleanup"
  <2>1. /\ Alive /\ IgnoresPaths /\ pc = "final" /\ runs # <<>>
        /\ pc' = IF compress THEN "prepare" ELSE "merge"
    BY <1>6 DEF Final, GiveUp, Alive, IgnoresPaths, input_vars, job_vars, merge_vars
  <2>2. out = NoPath
    BY <2>1 DEF IInv, LocalsOK, OnlyRuns, AtRest
  <2>3. MergeReady'
    BY <1>1, <2>1, <2>2 DEF MergeReady, Filtering, Merging, IgnoresPaths
  <2> QED BY <2>1, <2>3, QuietKInv
<1> QED BY <1>2, <1>4, <1>5, <1>6 DEF GroupMerge, GroupFilter, FinalMerge

LEMMA NextKInv == IInv /\ IInv' /\ KInv /\ [Next]_vars => KInv'
<1> SUFFICES ASSUME IInv, IInv', KInv, [Next]_vars PROVE KInv'
  OBVIOUS
<1>1. CASE UNCHANGED vars
  <2>1. UNCHANGED pc /\ IgnoresPaths
    BY <1>1 DEF vars, IgnoresPaths
  <2>2. MergeReady => MergeReady'
    BY <2>1 DEF IgnoresPaths, MergeReady, Filtering, MergeSources, GroupInputs, GroupSize
  <2> QED BY <2>1, <2>2, QuietKInv DEF KInv, Alive
<1>2. CASE CleanupRun \/ Exit \/ MemoryExhausted
  BY <1>2 DEF CleanupRun, Exit, MemoryExhausted, KInv
<1>3. CASE Next
  BY <1>2, <1>3, ReadingKInv, FlushMakePathKInv, FlushKInv, PassKInv, PrepareKInv, MergeKInv DEF Next
<1> QED BY <1>1, <1>3

-----------------------------------------------------------------------------

\* KInv makes every merge safe.
LEMMA KInvSuffices == IInv /\ KInv => MergeInputsIntact
<1> SUFFICES ASSUME IInv, KInv, pc = "merge" PROVE MergeInputsIntact
  BY DEF MergeInputsIntact
<1>1. FilesApart /\ PlainFiles /\ MergeReady /\ pc \in Merging
  BY DEF KInv, Merging
<1>2. /\ Len(MergeSources) \in Nat /\ DOMAIN MergeSources = 1 .. Len(MergeSources)
      /\ \A i \in 1 .. Len(MergeSources) :
           group + i \in group + 1 .. Len(runs) /\ MergeSources[i] = runs[group + i]
  BY <1>1, SourcesAtHand
<1>3. Batch # 0 => Len(MergeSources) \in 1 .. Batch
  <2>1. CASE out = NoPath
    BY <1>1, <2>1, SourcesAtHand, Lists, ConstantsAssumption DEF MergeReady
  <2>2. CASE out # NoPath
    <3>1. Len(MergeSources) = GroupSize /\ group < Len(runs)
      BY <1>1, <2>2, SourcesAtHand
    <3>2. group \in Nat /\ Len(runs) \in Nat /\ Batch \in Nat
      BY Lists, ConstantsAssumption
    <3> QED BY <3>1, <3>2 DEF GroupSize
  <2> QED BY <2>1, <2>2
<1>4. CASE compress
  <2>1. MergeInputs = prepared /\ Len(prepared) = Len(MergeSources)
    BY <1>1, <1>4 DEF MergeInputs, MergeReady
  <2>2. DOMAIN prepared = 1 .. Len(prepared) /\ \A i \in DOMAIN prepared : prepared[i] \in ToSet(prepared)
    BY Lists DEF ToSet
  <2>3. IsInjective(prepared)
    BY <1>1, <2>2 DEF FilesApart, IsInjective
  <2>4. ToSet(prepared) \cap {out, plain} = {}
    BY <1>1, LocalsNotPrepared
  <2>5. \A i \in DOMAIN prepared : prepared[i] \in temps /\ ~content[prepared[i]].compressed
    BY <1>1, <2>2 DEF FilesApart, PlainFiles
  <2> QED BY <1>3, <2>1, <2>3, <2>4, <2>5 DEF MergeInputsIntact
<1>5. CASE ~compress
  <2>1. MergeInputs = MergeSources
    BY <1>5 DEF MergeInputs
  <2>2. IsInjective(MergeSources)
    <3>1. ASSUME NEW i \in 1 .. Len(MergeSources), NEW j \in 1 .. Len(MergeSources),
                 MergeSources[i] = MergeSources[j]
          PROVE  i = j
      <4>1. group + i = group + j
        BY <1>1, <1>2, <3>1 DEF FilesApart
      <4> QED BY <1>2, <4>1, Lists
    <3> QED BY <1>2, <3>1 DEF IsInjective
  <2>3. ToSet(MergeSources) \cap {out, plain} = {}
    BY <1>1, <1>2 DEF ToSet, FilesApart
  <2>4. \A i \in DOMAIN MergeSources :
          MergeSources[i] \in temps /\ ~content[MergeSources[i]].compressed
    BY <1>1, <1>2, <1>5 DEF FilesApart, PlainFiles
  <2> QED BY <1>3, <2>1, <2>2, <2>3, <2>4 DEF MergeInputsIntact
<1> QED BY <1>4, <1>5

\* Every merge, of a group or of all runs, opens files that exist, each once,
\* none of them compressed, none of them the output, and no more than
\* --batch-size of them.
THEOREM MergeInputsIntactCorrect == Spec => []MergeInputsIntact
<1>1. Spec => []KInv
  BY InitKInv, NextKInv, Inductive, PTL DEF Spec
<1> QED BY <1>1, KInvSuffices, Inductive, PTL

-----------------------------------------------------------------------------
(***************************************************************************)
(* The records of the input                                                *)
(***************************************************************************)

\* How many records the first k operands have.
Upto(k) == Before(files, k)

LEMMA UptoIs ==
  ASSUME files \in Seq(Seq(Keys))
  PROVE  /\ Upto(0) = 0 /\ Upto(Len(files)) = Len(FlattenSeq(files))
         /\ \A k \in 0 .. Len(files) : Upto(k) \in Nat
         /\ \A k \in 1 .. Len(files) : Upto(k) = Upto(k - 1) + Len(files[k])
  BY BeforeIs DEF Upto

\* No more than there are.
LEMMA UptoBounded ==
  ASSUME files \in Seq(Seq(Keys)), NEW k \in 0 .. Len(files)
  PROVE  Upto(k) <= Len(FlattenSeq(files))
<1>1. Len(files) \in Nat
  OBVIOUS
<1>2. k <= Len(files) /\ Len(files) \in 0 .. Len(files)
  BY <1>1
<1>3. Before(files, k) <= Before(files, Len(files))
  BY <1>2, BeforeGrows
<1> QED BY <1>3, BeforeIs DEF Upto

LEMMA InputIs ==
  ASSUME files \in Seq(Seq(Keys))
  PROVE  LET all == AllRecords(files)
         IN  /\ all \in Seq(Record) /\ Len(all) = Len(FlattenSeq(files)) /\ Len(all) \in Nat
             /\ \A i \in 1 .. Len(all) : all[i].pos = i /\ all[i] \in Record /\ all[i] \in ToSet(all)
             /\ \A r \in ToSet(all) :
                  r \in Record /\ r.pos \in 1 .. Len(all) /\ r = all[r.pos]
             /\ InPosOrder(all)
<1> DEFINE keys == FlattenSeq(files)
           all == AllRecords(files)
<1>1. keys \in Seq(Keys) /\ Len(keys) \in Nat /\ DOMAIN keys = 1 .. Len(keys)
  BY FlattenSeqTyped
<1> HIDE DEF keys
<1>2. all = [i \in 1 .. Len(keys) |-> [key |-> keys[i], pos |-> i]]
  BY <1>1 DEF AllRecords, keys
<1>3. \A i \in 1 .. Len(keys) : [key |-> keys[i], pos |-> i] \in Record
  BY <1>1 DEF Record
<1> HIDE DEF all
<1>4. all \in Seq(Record) /\ Len(all) = Len(keys)
  BY <1>1, <1>2, <1>3
<1>5. \A i \in 1 .. Len(all) : all[i].pos = i /\ all[i] \in Record
  BY <1>2, <1>3, <1>4
<1>6. \A r \in ToSet(all) : \E i \in 1 .. Len(all) : all[i] = r
  BY <1>4, SeqMembers
<1>7. \A i \in 1 .. Len(all) : all[i] \in ToSet(all)
  BY <1>4, SeqMembers
<1>8. \A r \in ToSet(all) : r \in Record /\ r.pos \in 1 .. Len(all) /\ r = all[r.pos]
  BY <1>5, <1>6
<1>9. InPosOrder(all)
  BY <1>5 DEF InPosOrder
<1> QED BY <1>1, <1>4, <1>5, <1>7, <1>8, <1>9 DEF all, keys

\* What has been read.
Reached == Upto(operand - 1) + taken

\* The place in the operands.
OperandOK ==
  /\ operand \in 1 .. Len(files) + 1
  /\ operand <= Len(files) => taken <= Len(files[operand])
  /\ operand > Len(files) => taken = 0
  /\ pc = "open" => taken = 0
  /\ pc = "read" => operand <= Len(files)
  /\ partial => operand <= Len(files) /\ taken < Len(files[operand])
  /\ pc \in {"reduce", "final", "group"} \cup Merging => operand = Len(files) + 1 /\ buf = <<>>

LEMMA ReachedIs ==
  ASSUME files \in Seq(Seq(Keys)), taken \in Nat, OperandOK
  PROVE  /\ Reached \in Nat /\ Reached <= Len(AllRecords(files))
         /\ Consumed = {AllRecords(files)[i] : i \in 1 .. Reached}
         /\ operand = Len(files) + 1 => Consumed = ToSet(AllRecords(files))
<1> DEFINE all == AllRecords(files)
<1>0. Len(all) = Len(FlattenSeq(files)) /\ Len(all) \in Nat
  BY InputIs
<1>1. operand \in 1 .. Len(files) + 1 /\ Len(files) \in Nat /\ operand - 1 \in 0 .. Len(files)
  BY DEF OperandOK
<1>2. Upto(operand - 1) \in Nat
  BY <1>1, UptoIs
<1>3. Reached \in Nat
  BY <1>2 DEF Reached
<1>4. ASSUME operand <= Len(files) PROVE Reached <= Len(all)
  <2>1. operand \in 1 .. Len(files) /\ operand \in 0 .. Len(files)
    BY <1>1, <1>4
  <2>2. Upto(operand) = Upto(operand - 1) + Len(files[operand]) /\ Upto(operand) \in Nat
    BY <2>1, UptoIs
  <2>3. taken <= Len(files[operand]) /\ Len(files[operand]) \in Nat
    BY <1>4, <2>1 DEF OperandOK
  <2>4. Reached <= Upto(operand)
    BY <1>2, <2>2, <2>3 DEF Reached
  <2>5. Upto(operand) <= Len(all)
    BY <1>0, <2>1, UptoBounded
  <2>6. \A x, y, z \in Nat : x <= y /\ y <= z => x <= z
    OBVIOUS
  <2> QED BY <1>0, <1>3, <2>2, <2>4, <2>5, <2>6
<1>5. ASSUME operand > Len(files) PROVE Reached = Len(all)
  <2>1. operand - 1 = Len(files) /\ taken = 0
    BY <1>1, <1>5 DEF OperandOK
  <2>2. Reached = Upto(Len(files))
    BY <1>2, <2>1 DEF Reached
  <2> QED BY <1>0, <2>2, UptoIs
<1>6. Reached <= Len(all) /\ (operand = Len(files) + 1 => Reached = Len(all))
  <2>1. operand <= Len(files) \/ operand > Len(files)
    BY <1>1
  <2>2. operand = Len(files) + 1 => operand > Len(files)
    BY <1>1
  <2> QED BY <1>0, <1>4, <1>5, <2>1, <2>2
<1>7. Consumed = {r \in ToSet(all) : r.pos <= Reached}
  BY DEF Consumed, Reached, Upto, Before
<1> HIDE DEF all
<1>8. /\ \A i \in 1 .. Len(all) : all[i].pos = i /\ all[i] \in ToSet(all)
      /\ \A r \in ToSet(all) : r.pos \in 1 .. Len(all) /\ r = all[r.pos]
  BY InputIs DEF all
<1>9. Consumed = {all[i] : i \in 1 .. Reached}
  <2>1. ASSUME NEW r \in Consumed PROVE r \in {all[i] : i \in 1 .. Reached}
    <3>1. r.pos \in 1 .. Reached /\ r = all[r.pos]
      BY <1>0, <1>3, <1>7, <1>8
    <3> QED BY <3>1
  <2>2. ASSUME NEW i \in 1 .. Reached PROVE all[i] \in Consumed
    BY <1>0, <1>3, <1>6, <1>7, <1>8 DEF all
  <2> QED BY <2>1, <2>2
<1>10. Reached = Len(all) => Consumed = ToSet(all)
  BY <1>0, <1>7, <1>8 DEF all
<1> QED BY <1>3, <1>6, <1>9, <1>10 DEF all

\* The records that a chunk completes come next.
LEMMA ReadRecords ==
  ASSUME files \in Seq(Seq(Keys)), taken \in Nat, OperandOK, operand <= Len(files),
         NEW upto \in Nat, taken <= upto, upto <= Len(files[operand])
  PROVE  /\ OperandRecords(taken, upto) \in Seq(Record)
         /\ Len(OperandRecords(taken, upto)) = upto - taken
         /\ \A i \in 1 .. upto - taken :
              /\ Reached + i \in 1 .. Len(AllRecords(files))
              /\ OperandRecords(taken, upto)[i] = AllRecords(files)[Reached + i]
<1> DEFINE all == AllRecords(files)
           before == Upto(operand - 1)
<1>1. operand \in 1 .. Len(files) /\ operand - 1 \in 0 .. Len(files) /\ operand \in 0 .. Len(files)
  BY DEF OperandOK
<1>2. Upto(operand) = before + Len(files[operand]) /\ before \in Nat /\ Upto(operand) \in Nat
  BY <1>1, UptoIs
<1>3. all \in Seq(Record) /\ Len(all) \in Nat /\ Upto(operand) <= Len(all)
  BY <1>1, InputIs, UptoBounded
<1>4. Len(files[operand]) \in Nat
  BY <1>1
<1>5. before + upto <= Len(all)
  <2>1. before + upto <= Upto(operand)
    BY <1>2, <1>4
  <2>2. \A x, y, z \in Nat : x <= y /\ y <= z => x <= z
    OBVIOUS
  <2> QED BY <1>2, <1>3, <2>1, <2>2
<1>6. OperandRecords(taken, upto) = SubSeq(all, before + taken + 1, before + upto)
  BY DEF OperandRecords, Upto, Before
<1>7. Reached = before + taken
  BY DEF Reached
<1> HIDE DEF all, before
<1>8. /\ SubSeq(all, before + taken + 1, before + upto) \in Seq(Record)
      /\ Len(SubSeq(all, before + taken + 1, before + upto)) = upto - taken
      /\ \A i \in 1 .. upto - taken :
           SubSeq(all, before + taken + 1, before + upto)[i] = all[before + taken + i]
  BY <1>2, <1>3, <1>5
<1>9. \A i \in 1 .. upto - taken : before + taken + i \in 1 .. Len(all)
  BY <1>2, <1>3, <1>5
<1> QED BY <1>6, <1>7, <1>8, <1>9 DEF all

-----------------------------------------------------------------------------
(***************************************************************************)
(* Pieces of the input                                                     *)
(***************************************************************************)

\* A record stands for one that was read: it is that record, or with -u one
\* that compares equal and comes no later.
Stands(s, r) ==
  /\ \A ord \in Orders : ord[s.key] = ord[r.key]
  /\ s.pos <= r.pos
  /\ unique \/ s = r

\* all is a list of files and the buffer: no record of one comes before a
\* record of an earlier one, and together they stand for the records of C.
PiecesHold(all, C) ==
  /\ all \in Seq(Seq(Record))
  /\ RunsInPosOrder(all)
  /\ \A i \in 1 .. Len(all) : ToSet(all[i]) \subseteq C
  /\ \A r \in C : \E i \in 1 .. Len(all) : \E s \in ToSet(all[i]) : Stands(s, r)

\* In a file records that compare equal are in input order, whichever
\* comparator it was sorted by; if there is only one, the file is sorted.
Rises(s) == \A ord \in Orders : EqualsRise(s, ord) /\ (Orders = {ord} => InSortOrder(s, ord))

\* Every comparator numbers all records.
LEMMA OrdersRank ==
  ASSUME NEW ord \in Orders
  PROVE  /\ ord \in [Keys -> Nat] /\ Ranked(Record, ord)
         /\ \A o \in Orders : \A a, b \in Record :
              ord[a.key] = ord[b.key] => o[a.key] = o[b.key]
  BY ConstantsAssumption DEF Ranked, Record

LEMMA StandsFor ==
  ASSUME NEW a \in Record, NEW b \in Record, NEW c \in Record
  PROVE  Stands(a, a) /\ (Stands(a, b) /\ Stands(b, c) => Stands(a, c))
<1>1. a.pos \in Nat /\ b.pos \in Nat /\ c.pos \in Nat
  BY DEF Record
<1>2. Stands(a, a)
  BY <1>1 DEF Stands
<1>3. Stands(a, b) /\ Stands(b, c) => a.pos <= c.pos
  BY <1>1 DEF Stands
<1>4. Stands(a, b) /\ Stands(b, c) => \A ord \in Orders : ord[a.key] = ord[c.key]
  BY DEF Stands
<1>5. Stands(a, b) /\ Stands(b, c) => unique \/ a = c
  BY DEF Stands
<1> QED BY <1>2, <1>3, <1>4, <1>5 DEF Stands

LEMMA RunsBySet ==
  ASSUME NEW rs \in Seq(Seq(Record))
  PROVE  RunsInPosOrder(rs) <=>
           \A q, r \in 1 .. Len(rs) : q < r =>
             \A a \in ToSet(rs[q]), b \in ToSet(rs[r]) : a.pos < b.pos
<1>1. \A r \in 1 .. Len(rs) : rs[r] \in Seq(Record)
  OBVIOUS
<1>2. \A r \in 1 .. Len(rs) : /\ \A i \in 1 .. Len(rs[r]) : rs[r][i] \in ToSet(rs[r])
                              /\ \A a \in ToSet(rs[r]) : \E i \in 1 .. Len(rs[r]) : rs[r][i] = a
  BY <1>1, SeqMembers
<1>3. ASSUME RunsInPosOrder(rs), NEW q \in 1 .. Len(rs), NEW r \in 1 .. Len(rs), q < r,
             NEW a \in ToSet(rs[q]), NEW b \in ToSet(rs[r])
      PROVE  a.pos < b.pos
  <2>1. PICK i \in 1 .. Len(rs[q]) : rs[q][i] = a
    BY <1>2
  <2>2. PICK j \in 1 .. Len(rs[r]) : rs[r][j] = b
    BY <1>2
  <2>3. rs[q][i].pos < rs[r][j].pos
    BY <1>3 DEF RunsInPosOrder
  <2> QED BY <2>1, <2>2, <2>3
<1>4. ASSUME \A q, r \in 1 .. Len(rs) : q < r =>
               \A a \in ToSet(rs[q]), b \in ToSet(rs[r]) : a.pos < b.pos
      PROVE  RunsInPosOrder(rs)
  <2> SUFFICES ASSUME NEW q \in 1 .. Len(rs), NEW r \in 1 .. Len(rs), q < r,
                      NEW i \in 1 .. Len(rs[q]), NEW j \in 1 .. Len(rs[r])
               PROVE  rs[q][i].pos < rs[r][j].pos
    BY DEF RunsInPosOrder
  <2>1. rs[q][i] \in ToSet(rs[q]) /\ rs[r][j] \in ToSet(rs[r])
    BY <1>2
  <2> QED BY <1>4, <2>1
<1> QED BY <1>3, <1>4

\* Pieces are put together: each new one from some neighbours.
LEMMA Regrouped ==
  ASSUME NEW all, NEW C \in SUBSET Record, PiecesHold(all, C), NEW new \in Seq(Seq(Record)),
         NEW of \in [1 .. Len(new) -> SUBSET (1 .. Len(all))],
         \A m, n \in 1 .. Len(new) : m < n => \A i \in of[m], j \in of[n] : i < j,
         \A n \in 1 .. Len(new) : \A s \in ToSet(new[n]) : \E i \in of[n] : s \in ToSet(all[i]),
         \A i \in 1 .. Len(all) : \A r \in ToSet(all[i]) :
           \E n \in 1 .. Len(new) : \E s \in ToSet(new[n]) : Stands(s, r)
  PROVE  PiecesHold(new, C)
<1>1. all \in Seq(Seq(Record)) /\ Len(all) \in Nat
  BY DEF PiecesHold
<1>2. \A n \in 1 .. Len(new) : \A i \in of[n] : i \in 1 .. Len(all)
  OBVIOUS
<1>3. \A n \in 1 .. Len(new) : ToSet(new[n]) \subseteq C
  BY <1>2 DEF PiecesHold
<1>4. RunsInPosOrder(new)
  <2> SUFFICES ASSUME NEW q \in 1 .. Len(new), NEW r \in 1 .. Len(new), q < r,
                      NEW a \in ToSet(new[q]), NEW b \in ToSet(new[r])
               PROVE  a.pos < b.pos
    BY RunsBySet
  <2>1. PICK i \in of[q] : a \in ToSet(all[i])
    OBVIOUS
  <2>2. PICK j \in of[r] : b \in ToSet(all[j])
    OBVIOUS
  <2>3. i < j /\ i \in 1 .. Len(all) /\ j \in 1 .. Len(all)
    BY <1>2
  <2> QED BY <1>1, <2>1, <2>2, <2>3, RunsBySet DEF PiecesHold
<1>5. ASSUME NEW r \in C PROVE \E n \in 1 .. Len(new) : \E s \in ToSet(new[n]) : Stands(s, r)
  <2>1. PICK i \in 1 .. Len(all) : \E s \in ToSet(all[i]) : Stands(s, r)
    BY DEF PiecesHold
  <2>2. PICK s \in ToSet(all[i]) : Stands(s, r)
    BY <2>1
  <2>3. PICK n \in 1 .. Len(new) : \E t \in ToSet(new[n]) : Stands(t, s)
    OBVIOUS
  <2>4. PICK t \in ToSet(new[n]) : Stands(t, s)
    BY <2>3
  <2>5. t \in Record /\ s \in Record /\ r \in Record
    BY <1>3, <2>1 DEF PiecesHold
  <2>6. Stands(t, r)
    BY <2>2, <2>4, <2>5, StandsFor
  <2> QED BY <2>6
<1> QED BY <1>3, <1>4, <1>5 DEF PiecesHold

\* The last piece grows by records that come after all others.
LEMMA LastGrown ==
  ASSUME NEW all, NEW C \in SUBSET Record, PiecesHold(all, C), Len(all) > 0,
         NEW more \in Seq(Record), \A a \in C, b \in ToSet(more) : a.pos < b.pos,
         NEW new \in Seq(Seq(Record)), Len(new) = Len(all),
         \A i \in 1 .. Len(all) : i # Len(all) => new[i] = all[i],
         new[Len(all)] = all[Len(all)] \o more
  PROVE  PiecesHold(new, C \cup ToSet(more))
<1> DEFINE n == Len(all)
           D == C \cup ToSet(more)
<1>1. all \in Seq(Seq(Record)) /\ n \in Nat /\ n \in 1 .. n /\ all[n] \in Seq(Record)
      /\ \A i \in 1 .. n : ToSet(all[i]) \subseteq C
      /\ RunsInPosOrder(all)
  BY DEF PiecesHold
<1>2. ToSet(new[n]) = ToSet(all[n]) \cup ToSet(more)
  <2> DEFINE a == all[n]
             t == a \o more
  <2>1. a \in Seq(Record) /\ new[n] = t
    BY <1>1
  <2> HIDE DEF a, n
  <2>2. /\ t \in Seq(Record) /\ Len(t) = Len(a) + Len(more)
        /\ \A p \in 1 .. Len(a) : t[p] = a[p]
        /\ \A p \in 1 .. Len(more) : t[Len(a) + p] = more[p]
    BY <2>1
  <2> HIDE DEF t
  <2>3. Len(a) \in Nat /\ Len(more) \in Nat
    BY <2>1
  <2>4. ASSUME NEW x \in ToSet(t) PROVE x \in ToSet(a) \cup ToSet(more)
    <3>1. t \in Seq(Record)
      BY <2>2
    <3>2. PICK p \in 1 .. Len(t) : t[p] = x
      BY <3>1, SeqMembers
    <3>3. CASE p \in 1 .. Len(a)
      <4>1. a[p] = x /\ a[p] \in ToSet(a)
        BY <2>1, <2>2, <3>2, <3>3, SeqMembers
      <4> QED BY <4>1
    <3>4. CASE p \notin 1 .. Len(a)
      <4>1. p - Len(a) \in 1 .. Len(more) /\ Len(a) + (p - Len(a)) = p
        BY <2>2, <2>3, <3>2, <3>4
      <4>2. more[p - Len(a)] = x
        BY <2>2, <3>2, <4>1
      <4> QED BY <4>1, <4>2, SeqMembers
    <3> QED BY <3>3, <3>4
  <2>5. ASSUME NEW x \in ToSet(a) PROVE x \in ToSet(t)
    <3>1. PICK p \in 1 .. Len(a) : a[p] = x
      BY <2>1, SeqMembers
    <3>2. p \in 1 .. Len(t) /\ t[p] = x
      BY <2>2, <2>3, <3>1
    <3> QED BY <2>2, <3>2, SeqMembers
  <2>6. ASSUME NEW x \in ToSet(more) PROVE x \in ToSet(t)
    <3>1. PICK p \in 1 .. Len(more) : more[p] = x
      BY SeqMembers
    <3>2. Len(a) + p \in 1 .. Len(t) /\ t[Len(a) + p] = x
      BY <2>2, <2>3, <3>1
    <3> QED BY <2>2, <3>2, SeqMembers
  <2> QED BY <2>1, <2>4, <2>5, <2>6 DEF a
<1> HIDE DEF n
<1>3. \A i \in 1 .. n : i # n => new[i] = all[i]
  BY DEF n
<1>4. RunsInPosOrder(new)
  <2> SUFFICES ASSUME NEW q \in 1 .. n, NEW r \in 1 .. n, q < r,
                      NEW a \in ToSet(new[q]), NEW b \in ToSet(new[r])
               PROVE  a.pos < b.pos
    BY RunsBySet DEF n
  <2>1. q # n
    BY <1>1
  <2>2. a \in ToSet(all[q]) /\ a \in C
    BY <1>1, <1>3, <2>1
  <2>3. b \in ToSet(all[r]) \/ b \in ToSet(more)
    BY <1>2, <1>3
  <2>4. b \in ToSet(all[r]) => a.pos < b.pos
    BY <1>1, <2>2, RunsBySet DEF n
  <2> QED BY <2>2, <2>3, <2>4
<1>5. \A i \in 1 .. n : ToSet(new[i]) \subseteq D
  BY <1>1, <1>2, <1>3
<1>6. ASSUME NEW r \in D PROVE \E i \in 1 .. n : \E s \in ToSet(new[i]) : Stands(s, r)
  <2>1. CASE r \in C
    <3>1. PICK i \in 1 .. n : \E s \in ToSet(all[i]) : Stands(s, r)
      BY <2>1 DEF PiecesHold, n
    <3>2. ToSet(all[i]) \subseteq ToSet(new[i])
      BY <1>2, <1>3
    <3> QED BY <3>1, <3>2
  <2>2. CASE r \in ToSet(more)
    <3>1. r \in Record
      BY <2>2, SeqMembers
    <3>2. Stands(r, r)
      BY <3>1, StandsFor
    <3> QED BY <1>1, <1>2, <2>2, <3>2
  <2> QED BY <2>1, <2>2
<1> QED BY <1>4, <1>5, <1>6 DEF PiecesHold, n

\* A sorted buffer.
LEMMA SortedRun ==
  ASSUME NEW ord \in Orders, NEW b \in Seq(Record), InPosOrder(b)
  PROVE  /\ StableSort(b, ord) \in Seq(Record) /\ ToSet(StableSort(b, ord)) = ToSet(b)
         /\ Rises(StableSort(b, ord))
<1> DEFINE s == StableSort(b, ord)
<1>1. Ranked(Record, ord) /\ s \in Seq(Record) /\ ToSet(s) = ToSet(b) /\ InSortOrder(s, ord)
  BY OrdersRank, StableSortIs
<1> HIDE DEF s
<1>2. ASSUME NEW o \in Orders PROVE EqualsRise(s, o)
  <2> SUFFICES ASSUME NEW n \in 1 .. Len(s), n + 1 <= Len(s), o[s[n].key] = o[s[n + 1].key]
               PROVE  s[n].pos < s[n + 1].pos
    BY DEF EqualsRise
  <2>1. n + 1 \in 1 .. Len(s) /\ n < n + 1 /\ Len(s) \in Nat
    BY <1>1
  <2>2. s[n] \in Record /\ s[n + 1] \in Record
    BY <1>1, <2>1
  <2>3. ord[s[n].key] = ord[s[n + 1].key]
    BY <2>2, OrdersRank
  <2>4. Sooner(ord, s[n], s[n + 1]) /\ ord[s[n].key] \in Nat
    BY <1>1, <2>1, <2>2 DEF InSortOrder, Ranked
  <2> QED BY <2>3, <2>4 DEF Sooner
<1>3. \A o \in Orders : Orders = {o} => InSortOrder(s, o)
  BY <1>1
<1>4. Rises(s)
  BY <1>2, <1>3 DEF Rises
<1> QED BY <1>1, <1>4 DEF s

\* Merged files.
LEMMA MergedRuns ==
  ASSUME NEW ord \in Orders, NEW rs \in Seq(Seq(Record))
  PROVE  LET t == MergeRuns(rs, ord)
         IN  /\ t \in Seq(Record)
             /\ \A s \in ToSet(t) : \E r \in DOMAIN rs : s \in ToSet(rs[r])
             /\ RunsInPosOrder(rs) /\ (\A r \in 1 .. Len(rs) : Rises(rs[r])) =>
                  /\ Rises(t)
                  /\ \A q \in 1 .. Len(rs) : \A r \in ToSet(rs[q]) : \E s \in ToSet(t) : Stands(s, r)
<1> DEFINE m == StableMerge(rs, ord)
           u == FirstOfEquals(m, ord)
           t == MergeRuns(rs, ord)
<1>1. t = IF unique THEN u ELSE m
  BY DEF MergeRuns
<1>2. /\ Ranked(Record, ord)
      /\ m \in Seq(Record) /\ ToSet(m) = UNION {ToSet(rs[r]) : r \in DOMAIN rs}
  BY OrdersRank, StableMergeIs
<1>3. /\ u \in Seq(Record) /\ ToSet(u) \subseteq ToSet(m)
      /\ \A i \in 1 .. Len(m) : \E j \in 1 .. i : m[j] \in ToSet(u) /\ AlikeTo(m, ord, j, i)
      /\ \A n \in 1 .. Len(u) : n + 1 <= Len(u) => ord[u[n].key] # ord[u[n + 1].key]
  <2>1. m \in Seq(Record)
    BY <1>2
  <2> HIDE DEF m
  <2> QED BY <2>1, FirstOfEqualsIs
<1>4. \A s \in ToSet(t) : \E r \in DOMAIN rs : s \in ToSet(rs[r])
  <2> HIDE DEF m, u, t
  <2> QED BY <1>1, <1>2, <1>3
<1>5. ASSUME RunsInPosOrder(rs), \A r \in 1 .. Len(rs) : Rises(rs[r])
      PROVE  /\ Rises(t)
             /\ \A q \in 1 .. Len(rs) : \A r \in ToSet(rs[q]) : \E s \in ToSet(t) : Stands(s, r)
  <2>1. \A r \in 1 .. Len(rs) : EqualsRise(rs[r], ord)
    BY <1>5 DEF Rises
  <2>2. EqualsRise(m, ord)
    BY <1>2, <1>5, <2>1, StableMergeNeighbours
  <2>3. Orders = {ord} => InSortOrder(m, ord)
    <3> SUFFICES ASSUME Orders = {ord} PROVE InSortOrder(m, ord)
      OBVIOUS
    <3>1. \A r \in 1 .. Len(rs) : InSortOrder(rs[r], ord)
      BY <1>5 DEF Rises
    <3> QED BY <1>2, <1>5, <3>1, StableMergeSorted
  <2> HIDE DEF m
  <2>4. Orders = {ord} => InSortOrder(u, ord)
    BY <1>2, <2>3, FirstOfEqualsSorted
  <2> HIDE DEF u, t
  <2>5. ASSUME NEW s \in Seq(Record), EqualsRise(s, ord), Orders = {ord} => InSortOrder(s, ord)
        PROVE  Rises(s)
    <3>1. ASSUME NEW o \in Orders PROVE EqualsRise(s, o)
      <4> SUFFICES ASSUME NEW n \in 1 .. Len(s), n + 1 <= Len(s), o[s[n].key] = o[s[n + 1].key]
                   PROVE  s[n].pos < s[n + 1].pos
        BY DEF EqualsRise
      <4>1. n + 1 \in 1 .. Len(s)
        OBVIOUS
      <4>2. s[n] \in Record /\ s[n + 1] \in Record
        BY <4>1
      <4>3. ord[s[n].key] = ord[s[n + 1].key]
        BY <4>2, OrdersRank
      <4> QED BY <2>5, <4>3 DEF EqualsRise
    <3>2. \A o \in Orders : Orders = {o} => InSortOrder(s, o)
      BY <2>5
    <3> QED BY <3>1, <3>2 DEF Rises
  <2>6. EqualsRise(u, ord)
    BY <1>3 DEF EqualsRise
  <2>7. Rises(t)
    BY <1>1, <1>2, <1>3, <2>2, <2>3, <2>4, <2>5, <2>6
  <2>8. ASSUME NEW r \in ToSet(m) PROVE \E s \in ToSet(t) : Stands(s, r)
    <3>1. r \in Record /\ Stands(r, r)
      BY <1>2, SeqMembers, StandsFor
    <3>2. CASE ~unique
      BY <1>1, <3>1, <3>2
    <3>3. CASE unique
      <4>1. PICK i \in 1 .. Len(m) : m[i] = r
        <5>1. m \in Seq(Record)
          BY <1>2
        <5> QED BY <5>1, SeqMembers
      <4>2. PICK j \in 1 .. i : m[j] \in ToSet(u) /\ AlikeTo(m, ord, j, i)
        BY <1>3
      <4>3. i \in Nat /\ Len(m) \in Nat /\ j \in 1 .. Len(m) /\ j <= i /\ j \in j .. i
        <5>1. Len(m) \in Nat
          BY <1>2
        <5> QED BY <5>1
      <4>4. \A x \in Record : x.pos \in Nat
        BY DEF Record
      <4>5. m[j].pos <= m[i].pos
        BY <1>2, <2>2, <4>2, <4>3, <4>4, ChainRises
      <4>6. ord[m[j].key] = ord[m[i].key]
        BY <4>2, <4>3 DEF AlikeTo
      <4>7. m[j] \in Record /\ m[i] \in Record
        BY <1>2, <4>3
      <4>8. \A o \in Orders : o[m[j].key] = o[m[i].key]
        BY <4>6, <4>7, OrdersRank
      <4>9. Stands(m[j], r)
        BY <3>3, <4>1, <4>5, <4>8 DEF Stands
      <4> QED BY <1>1, <3>3, <4>2, <4>9
    <3> QED BY <3>2, <3>3
  <2>9. ASSUME NEW q \in 1 .. Len(rs), NEW r \in ToSet(rs[q]) PROVE r \in ToSet(m)
    <3>1. q \in DOMAIN rs
      OBVIOUS
    <3> QED BY <1>2, <3>1
  <2> QED BY <2>7, <2>8, <2>9
<1>6. t \in Seq(Record)
  <2> HIDE DEF m, u, t
  <2> QED BY <1>1, <1>2, <1>3
<1> QED BY <1>4, <1>5, <1>6

-----------------------------------------------------------------------------
(***************************************************************************)
(* The pieces at hand                                                      *)
(***************************************************************************)

Contents == [compressed : BOOLEAN, recs : Seq(Record)]
Outputs == [state : {"running", "failed", "delivered"}, recs : Seq(Record)]

\* The types of the variables that hold no path.
DataTyped ==
  /\ [files |-> files, unique |-> unique, compress |-> compress] \in Jobs
  /\ operand \in Nat /\ taken \in Nat
  /\ buf \in Seq(Record) /\ partial \in BOOLEAN
  /\ content \in [Paths -> Contents]
  /\ output \in Outputs
  /\ exit \in {"none", "success", "error", "nomem", "abort"}

\* What some files hold, and last the buffer.
PiecesOf(list, disk, b) ==
  [i \in 1 .. Len(list) + 1 |-> IF i <= Len(list) THEN disk[list[i]].recs ELSE b]

Pieces == PiecesOf(InFlight, content, buf)

PiecesOK ==
  /\ group <= Len(runs)
  /\ PiecesHold(Pieces, Consumed)
  /\ \A i \in 1 .. Len(InFlight) : Rises(Pieces[i])
  /\ InPosOrder(buf)

\* What the inputs of a merge hold.
SourceRecs == [i \in 1 .. Len(MergeSources) |-> content[MergeSources[i]].recs]

\* What is on its way to the filter or came from it.
FilterOK ==
  /\ pc = "flushfilter" => \E ord \in Orders : content[plain].recs = StableSort(buf, ord)
  /\ pc = "groupfilter" => \E ord \in Orders : content[plain].recs = MergeRuns(SourceRecs, ord)
  /\ compress /\ pc \in Merging =>
       \A i \in 1 .. Len(prepared) : content[prepared[i]].recs = content[MergeSources[i]].recs

DInv ==
  /\ DataTyped
  /\ Alive => OperandOK /\ PiecesOK /\ FilterOK /\ output = Contract!NotYet

LEMMA JobTyped ==
  ASSUME DataTyped
  PROVE  files \in Seq(Seq(Keys)) /\ unique \in BOOLEAN /\ compress \in BOOLEAN
  BY ConstantsAssumption DEF DataTyped

\* A list of results of a pass, and of the runs behind the first g.
IsListFrom(list, a, r, g) ==
  /\ list \in Seq(Paths) /\ Len(list) = Len(a) + (Len(r) - g)
  /\ Len(list) \in Nat /\ Len(a) \in Nat /\ Len(r) - g \in Nat /\ Len(r) \in Nat
  /\ \A i \in 1 .. Len(a) : i \in 1 .. Len(list) /\ list[i] = a[i]
  /\ \A i \in 1 .. Len(r) - g :
       /\ Len(a) + i \in 1 .. Len(list) /\ g + i \in g + 1 .. Len(r)
       /\ list[Len(a) + i] = r[g + i]
  /\ \A i \in 1 .. Len(list) :
       \/ i \in 1 .. Len(a)
       \/ i - Len(a) \in 1 .. Len(r) - g /\ i = Len(a) + (i - Len(a))

LEMMA ListFrom ==
  ASSUME NEW a \in Seq(Paths), NEW r \in Seq(Paths), NEW g \in Nat, g <= Len(r)
  PROVE  IsListFrom(a \o SubSeq(r, g + 1, Len(r)), a, r, g)
<1> DEFINE s == SubSeq(r, g + 1, Len(r))
           list == a \o s
<1>1. /\ s \in Seq(Paths) /\ Len(s) = Len(r) - g /\ Len(r) \in Nat
      /\ \A i \in 1 .. Len(r) - g : s[i] = r[g + i] /\ g + i \in g + 1 .. Len(r)
  OBVIOUS
<1> HIDE DEF s
<1>2. Len(a) \in Nat /\ Len(r) - g \in Nat
  BY <1>1
<1>3. /\ list \in Seq(Paths) /\ Len(list) = Len(a) + Len(s)
      /\ \A i \in 1 .. Len(a) : list[i] = a[i]
      /\ \A i \in 1 .. Len(s) : list[Len(a) + i] = s[i]
  <2>1. s \in Seq(Paths)
    BY <1>1
  <2> QED BY <2>1, Joined
<1> HIDE DEF list
<1>4. Len(list) \in Nat /\ Len(list) = Len(a) + (Len(r) - g)
  BY <1>1, <1>2, <1>3
<1>5. \A i \in 1 .. Len(a) : i \in 1 .. Len(list)
  BY <1>2, <1>4
<1>6. \A i \in 1 .. Len(r) - g : Len(a) + i \in 1 .. Len(list)
  BY <1>2, <1>4
<1>7. \A i \in 1 .. Len(list) : \/ i \in 1 .. Len(a)
                                \/ i - Len(a) \in 1 .. Len(r) - g /\ i = Len(a) + (i - Len(a))
  BY <1>2, <1>4
<1>8. \A i \in 1 .. Len(r) - g : list[Len(a) + i] = r[g + i] /\ g + i \in g + 1 .. Len(r)
  BY <1>1, <1>3
<1>9. IsListFrom(list, a, r, g)
  BY <1>1, <1>2, <1>3, <1>4, <1>5, <1>6, <1>7, <1>8 DEF IsListFrom
<1> QED BY <1>9 DEF list, s

LEMMA InFlightIs ==
  ASSUME IInv, group <= Len(runs)
  PROVE  /\ InFlight \in Seq(Paths) /\ Len(InFlight) = Len(next) + (Len(runs) - group)
         /\ Len(InFlight) \in Nat /\ Len(next) \in Nat /\ Len(runs) - group \in Nat
         /\ \A i \in 1 .. Len(next) : i \in 1 .. Len(InFlight) /\ InFlight[i] = next[i]
         /\ \A i \in 1 .. Len(runs) - group :
              /\ Len(next) + i \in 1 .. Len(InFlight) /\ group + i \in group + 1 .. Len(runs)
              /\ InFlight[Len(next) + i] = runs[group + i]
         /\ \A i \in 1 .. Len(InFlight) :
              \/ i \in 1 .. Len(next)
              \/ i - Len(next) \in 1 .. Len(runs) - group /\ i = Len(next) + (i - Len(next))
<1>1. next \in Seq(Paths) /\ runs \in Seq(Paths) /\ group \in Nat
  BY Lists
<1>2. IsListFrom(InFlight, next, runs, group)
  BY <1>1, ListFrom DEF InFlight
<1> QED BY <1>2 DEF IsListFrom

\* The files in flight exist and are none of those that are being made.
LEMMA InFlightApart ==
  ASSUME IInv, FilesApart, group <= Len(runs), NEW i \in 1 .. Len(InFlight)
  PROVE  /\ InFlight[i] \in temps /\ InFlight[i] \in Paths
         /\ InFlight[i] # out /\ InFlight[i] # plain
         /\ \A j \in 1 .. Len(prepared) : InFlight[i] # prepared[j]
<1>1. CASE i \in 1 .. Len(next)
  <2>1. InFlight[i] = next[i]
    BY <1>1, InFlightIs
  <2>2. next[i] \in temps /\ next[i] # out /\ next[i] # plain
    BY <1>1 DEF FilesApart
  <2>3. \A j \in 1 .. Len(prepared) : next[i] # prepared[j]
    BY <1>1 DEF FilesApart
  <2> QED BY <2>1, <2>2, <2>3, Lists
<1>2. CASE i - Len(next) \in 1 .. Len(runs) - group /\ i = Len(next) + (i - Len(next))
  <2> DEFINE k == group + (i - Len(next))
  <2>1. InFlight[i] = runs[k] /\ k \in group + 1 .. Len(runs)
    BY <1>2, InFlightIs
  <2> HIDE DEF k
  <2>2. runs[k] \in temps /\ runs[k] # out /\ runs[k] # plain
    BY <2>1 DEF FilesApart
  <2>3. \A j \in 1 .. Len(prepared) : runs[k] # prepared[j]
    BY <2>1 DEF FilesApart
  <2> QED BY <2>1, <2>2, <2>3, Lists
<1> QED BY <1>1, <1>2, InFlightIs

LEMMA PiecesOfIs ==
  ASSUME NEW list \in Seq(Paths), NEW disk \in [Paths -> Contents], NEW b \in Seq(Record)
  PROVE  LET all == PiecesOf(list, disk, b)
         IN  /\ all \in Seq(Seq(Record)) /\ Len(all) = Len(list) + 1 /\ Len(list) \in Nat
             /\ \A i \in 1 .. Len(list) : i \in 1 .. Len(all) /\ all[i] = disk[list[i]].recs
             /\ Len(list) + 1 \in 1 .. Len(all) /\ all[Len(list) + 1] = b
<1> DEFINE all == PiecesOf(list, disk, b)
<1>1. Len(list) \in Nat /\ Len(list) + 1 \in Nat /\ \A i \in 1 .. Len(list) : list[i] \in Paths
  OBVIOUS
<1>2. \A i \in 1 .. Len(list) : disk[list[i]].recs \in Seq(Record)
  BY <1>1 DEF Contents
<1>3. all \in [1 .. Len(list) + 1 -> Seq(Record)]
  BY <1>1, <1>2 DEF PiecesOf
<1>4. \A i \in 1 .. Len(list) : i \in 1 .. Len(list) + 1 /\ all[i] = disk[list[i]].recs
  BY <1>1 DEF PiecesOf
<1>5. Len(list) + 1 \in 1 .. Len(list) + 1 /\ all[Len(list) + 1] = b
  BY <1>1 DEF PiecesOf
<1> HIDE DEF all
<1>6. all \in Seq(Seq(Record)) /\ Len(all) = Len(list) + 1
  BY <1>1, <1>3, SeqOfFunction
<1> QED BY <1>1, <1>4, <1>5, <1>6 DEF all

LEMMA PiecesAre ==
  ASSUME IInv, DataTyped, group <= Len(runs)
  PROVE  /\ Pieces \in Seq(Seq(Record)) /\ Len(Pieces) = Len(InFlight) + 1
         /\ Len(InFlight) \in Nat
         /\ \A i \in 1 .. Len(InFlight) :
              /\ i \in 1 .. Len(Pieces) /\ Pieces[i] = content[InFlight[i]].recs
         /\ Len(InFlight) + 1 \in 1 .. Len(Pieces) /\ Pieces[Len(InFlight) + 1] = buf
<1>1. InFlight \in Seq(Paths) /\ content \in [Paths -> Contents] /\ buf \in Seq(Record)
  BY InFlightIs DEF DataTyped
<1> QED BY <1>1, PiecesOfIs DEF Pieces

LEMMA ConsumedTyped == DataTyped => Consumed \in SUBSET Record
  BY JobTyped, InputIs DEF Consumed

\* What holds of the next pieces is said of them after the step.
LEMMA PiecesThen ==
  ASSUME NEW new, NEW D, PiecesHold(new, D), Pieces' = new, Consumed' = D, unique' = unique
  PROVE  PiecesHold(Pieces, Consumed)'
<1>1. \A s, r : Stands(s, r) => Stands(s, r)'
  BY DEF Stands
<1> QED BY <1>1 DEF PiecesHold

LEMMA ConsumedStays ==
  ASSUME UNCHANGED <<files, operand, taken>>
  PROVE  Consumed' = Consumed
  BY DEF Consumed

\* A step that changes no file in flight.
LEMMA PiecesKept ==
  ASSUME IInv, DataTyped, PiecesOK, UNCHANGED <<files, unique, operand, taken, buf>>,
         InFlight' = InFlight, group' <= Len(runs'),
         \A i \in 1 .. Len(InFlight) : content'[InFlight[i]].recs = content[InFlight[i]].recs
  PROVE  PiecesOK'
<1>1. Pieces' = Pieces
  <2>1. \A i \in 1 .. Len(InFlight) + 1 :
          (IF i <= Len(InFlight) THEN content'[InFlight[i]].recs ELSE buf) =
          (IF i <= Len(InFlight) THEN content[InFlight[i]].recs ELSE buf)
    BY InFlightIs DEF PiecesOK
  <2> QED BY <2>1 DEF Pieces, PiecesOf
<1>2. Consumed' = Consumed
  BY ConsumedStays
<1>3. PiecesHold(Pieces, Consumed)'
  BY <1>1, <1>2, PiecesThen DEF PiecesOK
<1> QED BY <1>1, <1>3 DEF PiecesOK

-----------------------------------------------------------------------------
(***************************************************************************)
(* What a step does to the pieces                                          *)
(***************************************************************************)

\* Records that were read join the buffer.
LEMMA PiecesRead ==
  ASSUME IInv, DataTyped, OperandOK, PiecesOK, operand <= Len(files),
         NEW upto \in Nat, taken <= upto, upto <= Len(files[operand]),
         buf' = buf \o OperandRecords(taken, upto), Reached' = Reached + (upto - taken),
         UNCHANGED <<files, unique, runs, next, group, content>>
  PROVE  buf' \in Seq(Record) /\ PiecesOK'
<1> DEFINE all == AllRecords(files)
           more == OperandRecords(taken, upto)
           n == Len(InFlight) + 1
<1>1. files \in Seq(Seq(Keys)) /\ taken \in Nat /\ buf \in Seq(Record)
  BY JobTyped DEF DataTyped
<1>2. /\ more \in Seq(Record) /\ Len(more) = upto - taken
      /\ \A i \in 1 .. upto - taken : Reached + i \in 1 .. Len(all) /\ more[i] = all[Reached + i]
  BY <1>1, ReadRecords
<1>3. /\ all \in Seq(Record) /\ Len(all) \in Nat
      /\ \A i \in 1 .. Len(all) : all[i].pos = i /\ all[i] \in ToSet(all)
      /\ \A r \in ToSet(all) : r.pos \in 1 .. Len(all) /\ r = all[r.pos]
  BY <1>1, InputIs
<1>4. Reached \in Nat /\ Consumed = {all[i] : i \in 1 .. Reached} /\ Reached <= Len(all)
  BY <1>1, ReachedIs
<1>5. Consumed' = {r \in ToSet(all) : r.pos <= Reached + (upto - taken)}
  BY DEF Consumed, Reached, Upto, Before
<1> HIDE DEF all, more
<1>6. upto - taken \in Nat
  BY <1>1
<1>7. \A i \in 1 .. upto - taken : more[i].pos = Reached + i /\ more[i] \in ToSet(all)
  BY <1>2, <1>3
<1>8. \A b \in ToSet(more) : \E i \in 1 .. upto - taken : b = more[i]
  BY <1>2, SeqMembers
<1>9. Consumed' = Consumed \cup ToSet(more)
  <2>1. ASSUME NEW r \in Consumed' PROVE r \in Consumed \cup ToSet(more)
    <3>1. r.pos \in 1 .. Len(all) /\ r = all[r.pos] /\ r.pos <= Reached + (upto - taken)
      BY <1>3, <1>5
    <3>2. CASE r.pos <= Reached
      <4>1. r.pos \in 1 .. Reached
        BY <1>4, <3>1, <3>2
      <4> QED BY <1>4, <3>1, <4>1
    <3>3. CASE ~(r.pos <= Reached)
      <4>1. r.pos - Reached \in 1 .. upto - taken /\ Reached + (r.pos - Reached) = r.pos
        BY <1>3, <1>4, <1>6, <3>1, <3>3, SMTT(30)
      <4>2. more[r.pos - Reached] = r
        BY <1>2, <3>1, <4>1
      <4>3. r.pos - Reached \in 1 .. Len(more)
        BY <1>2, <4>1
      <4>4. more[r.pos - Reached] \in ToSet(more)
        BY <1>2, <4>3, SeqMembers
      <4> QED BY <4>2, <4>4
    <3> QED BY <3>2, <3>3
  <2>2. ASSUME NEW r \in Consumed PROVE r \in Consumed'
    <3>1. PICK i \in 1 .. Reached : r = all[i]
      BY <1>4
    <3>2. i \in 1 .. Len(all) /\ i <= Reached + (upto - taken)
      BY <1>3, <1>4, <1>6
    <3> QED BY <1>3, <1>5, <3>1, <3>2
  <2>3. ASSUME NEW r \in ToSet(more) PROVE r \in Consumed'
    <3>1. PICK i \in 1 .. upto - taken : r = more[i]
      BY <1>8
    <3>2. r.pos = Reached + i /\ r \in ToSet(all) /\ Reached + i <= Reached + (upto - taken)
      BY <1>4, <1>6, <1>7, <3>1
    <3> QED BY <1>5, <3>2
  <2> QED BY <2>1, <2>2, <2>3
<1>10. \A a \in Consumed, b \in ToSet(more) : a.pos < b.pos
  <2> SUFFICES ASSUME NEW a \in Consumed, NEW b \in ToSet(more) PROVE a.pos < b.pos
    OBVIOUS
  <2>1. PICK i \in 1 .. Reached : a = all[i]
    BY <1>4
  <2>2. a.pos = i
    BY <1>3, <1>4, <2>1
  <2>3. PICK j \in 1 .. upto - taken : b = more[j]
    BY <1>8
  <2>4. b.pos = Reached + j
    BY <1>7, <2>3
  <2> QED BY <1>4, <1>6, <2>2, <2>4
<1>11. buf' = buf \o more
  BY DEF more
<1>12. buf' \in Seq(Record)
  BY <1>1, <1>2, <1>11
<1>13. InFlight' = InFlight
  BY DEF InFlight
<1>14. /\ InFlight \in Seq(Paths) /\ content \in [Paths -> Contents]
  BY InFlightIs DEF PiecesOK, DataTyped
<1>15. Pieces' = PiecesOf(InFlight, content, buf')
  BY <1>13 DEF Pieces
<1>16. /\ Pieces' \in Seq(Seq(Record)) /\ Len(Pieces') = n /\ Len(InFlight) \in Nat
       /\ \A i \in 1 .. Len(InFlight) : Pieces'[i] = content[InFlight[i]].recs
       /\ Pieces'[n] = buf'
  BY <1>12, <1>14, <1>15, PiecesOfIs
<1>17. /\ Len(Pieces) = n /\ Pieces[n] = buf
       /\ \A i \in 1 .. Len(InFlight) : Pieces[i] = content[InFlight[i]].recs
  BY PiecesAre DEF PiecesOK
<1>18. \A i \in 1 .. n : i # n => i \in 1 .. Len(InFlight)
  BY <1>16
<1>19. PiecesHold(Pieces', Consumed \cup ToSet(more))
  <2> DEFINE new == Pieces'
  <2>1. new \in Seq(Seq(Record)) /\ Len(new) = Len(Pieces) /\ Len(Pieces) > 0
    BY <1>16, <1>17
  <2>2. \A i \in 1 .. Len(Pieces) : i # Len(Pieces) => new[i] = Pieces[i]
    BY <1>16, <1>17, <1>18
  <2>3. new[Len(Pieces)] = Pieces[Len(Pieces)] \o more
    BY <1>11, <1>16, <1>17
  <2>4. PiecesHold(Pieces, Consumed) /\ Consumed \in SUBSET Record
    BY ConsumedTyped DEF PiecesOK
  <2>5. more \in Seq(Record)
    BY <1>2
  <2> HIDE DEF new
  <2>6. PiecesHold(new, Consumed \cup ToSet(more))
    BY <1>10, <2>1, <2>2, <2>3, <2>4, <2>5, LastGrown
  <2> QED BY <2>6 DEF new
<1>20. PiecesHold(Pieces, Consumed)'
  BY <1>9, <1>19, PiecesThen
<1>21. InPosOrder(buf)'
  <2> DEFINE s == buf \o more
  <2>1. /\ Len(buf) \in Nat /\ Len(more) \in Nat /\ Len(s) = Len(buf) + Len(more)
        /\ \A p \in 1 .. Len(buf) : s[p] = buf[p]
        /\ \A p \in 1 .. Len(more) : s[Len(buf) + p] = more[p]
    <3>1. buf \in Seq(Record) /\ more \in Seq(Record)
      BY <1>1, <1>2
    <3> QED BY <3>1, Joined
  <2> HIDE DEF s
  <2>2. \A p \in 1 .. Len(buf) : buf[p] \in Consumed
    <3>1. ToSet(buf) \subseteq Consumed
      BY <1>16, <1>17 DEF PiecesOK, PiecesHold
    <3> QED BY <1>1, <3>1, SeqMembers
  <2> SUFFICES ASSUME NEW i \in 1 .. Len(s), NEW j \in 1 .. Len(s), i < j
               PROVE  s[i].pos < s[j].pos
    BY <1>11 DEF InPosOrder, s
  <2>3. CASE j \in 1 .. Len(buf)
    <3>1. i \in 1 .. Len(buf)
      BY <2>1, <2>3
    <3> QED BY <2>1, <2>3, <3>1 DEF PiecesOK, InPosOrder
  <2>4. CASE j \notin 1 .. Len(buf)
    <3> DEFINE l == j - Len(buf)
    <3>1. l \in 1 .. Len(more) /\ j = Len(buf) + l
      BY <2>1, <2>4
    <3> HIDE DEF l
    <3>2. s[j] = more[l] /\ more[l] \in ToSet(more)
      BY <1>2, <2>1, <3>1, SeqMembers
    <3>3. CASE i \in 1 .. Len(buf)
      BY <1>10, <2>1, <2>2, <3>2, <3>3
    <3>4. CASE i \notin 1 .. Len(buf)
      <4> DEFINE k == i - Len(buf)
      <4>1. k \in 1 .. Len(more) /\ i = Len(buf) + k /\ k < l
        BY <2>1, <3>1, <3>4
      <4> HIDE DEF k
      <4>2. s[i] = more[k]
        BY <2>1, <4>1
      <4>3. more[k].pos = Reached + k /\ more[l].pos = Reached + l
        BY <1>2, <1>7, <3>1, <4>1
      <4>4. k \in Nat /\ l \in Nat /\ Reached + k < Reached + l
        BY <1>4, <3>1, <4>1, <2>1, SMTT(30)
      <4> QED BY <3>2, <4>2, <4>3, <4>4
    <3> QED BY <3>3, <3>4
  <2> QED BY <2>3, <2>4
<1>22. \A i \in 1 .. Len(InFlight) : Rises(Pieces'[i])
  BY <1>16, <1>17 DEF PiecesOK
<1> QED BY <1>12, <1>13, <1>20, <1>21, <1>22 DEF PiecesOK

\* The sorted buffer becomes the last file, and a new one begins.
LEMMA PiecesFlushed ==
  ASSUME IInv, DataTyped, FilesApart, PiecesOK, pc \in Flushing, FlushDone, NEW ord \in Orders,
         content' \in [Paths -> Contents], content'[out].recs = StableSort(buf, ord),
         \A p \in Paths \ {out, plain} : content'[p] = content[p],
         UNCHANGED <<files, unique, operand, taken, next, group>>
  PROVE  PiecesOK'
<1> DEFINE m == Len(runs)
           s == StableSort(buf, ord)
<1>1. next = <<>> /\ group = 0 /\ out \in Paths /\ runs \in Seq(Paths)
  BY Lists DEF IInv, LocalsOK
<1>2. runs' = Append(runs, out) /\ buf' = <<>> /\ next' = <<>> /\ group' = 0
  BY <1>1 DEF FlushDone
<1>3. /\ m \in Nat /\ runs' \in Seq(Paths) /\ Len(runs') = m + 1 /\ runs'[m + 1] = out
      /\ \A i \in 1 .. m : runs'[i] = runs[i] /\ runs[i] \in Paths
  BY <1>1, <1>2
<1>4. /\ InFlight \in Seq(Paths) /\ Len(InFlight) = m /\ \A i \in 1 .. m : InFlight[i] = runs[i]
  <2>1. SubSeq(runs, 0 + 1, m) = runs /\ <<>> \o runs = runs
    BY <1>1
  <2>2. InFlight = runs
    BY <1>1, <2>1 DEF InFlight
  <2> QED BY <1>1, <2>2
<1>5. InFlight' = runs'
  <2>1. SubSeq(runs', 0 + 1, Len(runs')) = runs' /\ <<>> \o runs' = runs'
    BY <1>3
  <2> QED BY <1>2, <2>1 DEF InFlight
<1>6. \A i \in 1 .. m : runs[i] # out /\ runs[i] # plain
  BY <1>1, <1>3 DEF FilesApart
<1>7. /\ Pieces \in Seq(Seq(Record)) /\ Len(Pieces) = m + 1 /\ Pieces[m + 1] = buf
      /\ \A i \in 1 .. m : Pieces[i] = content[runs[i]].recs
  BY <1>4, PiecesAre DEF PiecesOK
<1>8. s \in Seq(Record) /\ ToSet(s) = ToSet(buf) /\ Rises(s)
  BY SortedRun DEF DataTyped, PiecesOK
<1> HIDE DEF m, s
<1>9. <<>> \in Seq(Record)
  OBVIOUS
<1>10. /\ Pieces' \in Seq(Seq(Record)) /\ Len(Pieces') = (m + 1) + 1
       /\ \A i \in 1 .. m + 1 : Pieces'[i] = content'[runs'[i]].recs
       /\ Pieces'[(m + 1) + 1] = <<>>
  <2>1. Pieces' = PiecesOf(runs', content', <<>>)
    BY <1>2, <1>5 DEF Pieces
  <2> DEFINE list == runs'
             disk == content'
             all == PiecesOf(list, disk, <<>>)
  <2>2. list \in Seq(Paths) /\ Len(list) = m + 1 /\ disk \in [Paths -> Contents]
    BY <1>3
  <2> HIDE DEF list, disk
  <2>3. /\ all \in Seq(Seq(Record)) /\ Len(all) = Len(list) + 1
        /\ \A i \in 1 .. Len(list) : all[i] = disk[list[i]].recs
        /\ all[Len(list) + 1] = <<>>
    BY <1>9, <2>2, PiecesOfIs
  <2> HIDE DEF all
  <2> QED BY <2>1, <2>2, <2>3 DEF all, list, disk
<1>11. \A i \in 1 .. m : Pieces'[i] = Pieces[i]
  <2> SUFFICES ASSUME NEW i \in 1 .. m PROVE Pieces'[i] = Pieces[i]
    OBVIOUS
  <2>1. runs[i] \in Paths \ {out, plain} /\ i \in 1 .. m + 1
    BY <1>3, <1>6
  <2>2. Pieces'[i] = content'[runs[i]].recs
    BY <1>3, <1>10, <2>1
  <2>3. content'[runs[i]] = content[runs[i]]
    BY <2>1
  <2> QED BY <1>7, <2>2, <2>3
<1>12. Pieces'[m + 1] = s
  <2>1. m + 1 \in 1 .. m + 1
    BY <1>3
  <2> QED BY <1>3, <1>10, <2>1 DEF s
<1>13. PiecesHold(Pieces', Consumed)
  <2> DEFINE new == Pieces'
             of == [n \in 1 .. (m + 1) + 1 |-> IF n <= m + 1 THEN {n} ELSE {}]
  <2>1. new \in Seq(Seq(Record)) /\ Len(new) = (m + 1) + 1 /\ Len(Pieces) = m + 1
    BY <1>7, <1>10
  <2>2. \A n \in 1 .. (m + 1) + 1 : n = (m + 1) + 1 \/ n = m + 1 \/ n \in 1 .. m
    BY <1>3
  <2>3. /\ ToSet(new[(m + 1) + 1]) = {} /\ ToSet(new[m + 1]) = ToSet(Pieces[m + 1])
        /\ \A n \in 1 .. m : new[n] = Pieces[n]
    BY <1>7, <1>8, <1>10, <1>11, <1>12, ToSetEmpty
  <2>4. PiecesHold(Pieces, Consumed) /\ Consumed \in SUBSET Record
    BY ConsumedTyped DEF PiecesOK
  <2> HIDE DEF new
  <2>5. of \in [1 .. Len(new) -> SUBSET (1 .. Len(Pieces))]
    BY <1>3, <2>1
  <2>6. \A a, b \in 1 .. Len(new) : a < b => \A i \in of[a], j \in of[b] : i < j
    BY <1>3, <2>1
  <2>7. \A n \in 1 .. Len(new) : \A r \in ToSet(new[n]) : \E i \in of[n] : r \in ToSet(Pieces[i])
    <3> SUFFICES ASSUME NEW n \in 1 .. Len(new), NEW r \in ToSet(new[n])
                 PROVE  \E i \in of[n] : r \in ToSet(Pieces[i])
      OBVIOUS
    <3>1. n # (m + 1) + 1 /\ n \in 1 .. (m + 1) + 1
      BY <2>1, <2>3
    <3>2. n <= m + 1 /\ n \in of[n]
      BY <1>3, <3>1
    <3>3. r \in ToSet(Pieces[n])
      BY <2>2, <2>3, <3>1
    <3> QED BY <3>2, <3>3
  <2>8. \A i \in 1 .. Len(Pieces) : \A r \in ToSet(Pieces[i]) :
          \E n \in 1 .. Len(new) : \E t \in ToSet(new[n]) : Stands(t, r)
    <3> SUFFICES ASSUME NEW i \in 1 .. Len(Pieces), NEW r \in ToSet(Pieces[i])
                 PROVE  \E n \in 1 .. Len(new) : \E t \in ToSet(new[n]) : Stands(t, r)
      OBVIOUS
    <3>1. i \in 1 .. (m + 1) + 1 /\ i # (m + 1) + 1
      BY <1>3, <2>1
    <3>2. r \in ToSet(new[i])
      BY <2>2, <2>3, <3>1
    <3>3. r \in Record
      BY <2>1, <2>4 DEF PiecesHold
    <3>4. Stands(r, r)
      BY <3>3, StandsFor
    <3> QED BY <2>1, <3>1, <3>2, <3>4
  <2> HIDE DEF of
  <2>9. PiecesHold(new, Consumed)
    BY <2>1, <2>4, <2>5, <2>6, <2>7, <2>8, Regrouped
  <2> QED BY <2>9 DEF new
<1>14. PiecesHold(Pieces, Consumed)'
  BY <1>13, ConsumedStays, PiecesThen
<1>15. \A i \in 1 .. m + 1 : Rises(Pieces'[i])
  <2>1. \A i \in 1 .. m + 1 : i \in 1 .. m \/ i = m + 1
    BY <1>3
  <2>2. \A i \in 1 .. m : Rises(Pieces[i])
    BY <1>4 DEF PiecesOK
  <2> QED BY <1>8, <1>11, <1>12, <2>1, <2>2
<1>16. InPosOrder(<<>>)
  BY DEF InPosOrder
<1>17. group' <= Len(runs')
  BY <1>2, <1>3
<1> QED BY <1>2, <1>3, <1>5, <1>14, <1>15, <1>16, <1>17 DEF PiecesOK

\* The inputs of a merge are pieces that follow one another.
LEMMA SourcesAre ==
  ASSUME IInv, DataTyped, group <= Len(runs), pc \in Merging
  PROVE  /\ SourceRecs \in Seq(Seq(Record)) /\ Len(SourceRecs) = Len(MergeSources)
         /\ Len(MergeSources) \in Nat /\ Len(next) + Len(MergeSources) <= Len(InFlight)
         /\ \A i \in 1 .. Len(MergeSources) :
              /\ MergeSources[i] \in Paths /\ Len(next) + i \in 1 .. Len(InFlight)
              /\ MergeSources[i] = InFlight[Len(next) + i]
              /\ SourceRecs[i] = content[MergeSources[i]].recs
              /\ SourceRecs[i] = Pieces[Len(next) + i]
<1> DEFINE m == Len(MergeSources)
<1>1. m \in Nat /\ m <= Len(runs) - group
  <2>1. group \in Nat /\ Len(runs) \in Nat
    BY Lists
  <2>2. /\ m \in Nat /\ m = IF out = NoPath THEN Len(runs) ELSE GroupSize
        /\ out = NoPath => group = 0
        /\ out # NoPath => GroupSize \in 0 .. Len(runs) - group
    BY SourcesAtHand
  <2> HIDE DEF m
  <2> QED BY <2>1, <2>2
<1>2. \A i \in 1 .. m : MergeSources[i] = runs[group + i]
  BY SourcesAtHand
<1> HIDE DEF m
<1>3. /\ Len(InFlight) = Len(next) + (Len(runs) - group) /\ Len(InFlight) \in Nat
      /\ Len(next) \in Nat /\ Len(runs) - group \in Nat
      /\ \A i \in 1 .. Len(runs) - group :
           Len(next) + i \in 1 .. Len(InFlight) /\ InFlight[Len(next) + i] = runs[group + i]
      /\ InFlight \in Seq(Paths)
  BY InFlightIs
<1>4. \A i \in 1 .. m : i \in 1 .. Len(runs) - group
  BY <1>1, <1>3
<1>5. \A i \in 1 .. m : /\ MergeSources[i] \in Paths /\ Len(next) + i \in 1 .. Len(InFlight)
                        /\ MergeSources[i] = InFlight[Len(next) + i]
  BY <1>2, <1>3, <1>4
<1>6. SourceRecs = [i \in 1 .. m |-> content[MergeSources[i]].recs]
  BY DEF SourceRecs, m
<1>7. \A i \in 1 .. m : content[MergeSources[i]].recs \in Seq(Record)
  BY <1>5 DEF DataTyped, Contents
<1>8. SourceRecs \in Seq(Seq(Record)) /\ Len(SourceRecs) = m
  BY <1>1, <1>6, <1>7
<1>9. \A i \in 1 .. m : SourceRecs[i] = content[MergeSources[i]].recs
  BY <1>6
<1>10. \A i \in 1 .. m : SourceRecs[i] = Pieces[Len(next) + i]
  BY <1>5, <1>9, PiecesAre
<1>11. Len(next) + m <= Len(InFlight)
  BY <1>1, <1>3
<1> QED BY <1>1, <1>5, <1>8, <1>9, <1>10, <1>11 DEF m

\* What a merge makes of them.
LEMMA MergedSources ==
  ASSUME IInv, DataTyped, PiecesOK, pc \in Merging, NEW ord \in Orders
  PROVE  LET t == MergeRuns(SourceRecs, ord)
         IN  /\ t \in Seq(Record) /\ Rises(t)
             /\ \A s \in ToSet(t) : \E i \in 1 .. Len(MergeSources) : s \in ToSet(Pieces[Len(next) + i])
             /\ \A i \in 1 .. Len(MergeSources) : \A r \in ToSet(Pieces[Len(next) + i]) :
                  \E s \in ToSet(t) : Stands(s, r)
<1> DEFINE m == Len(MergeSources)
           k == Len(next)
           rs == SourceRecs
<1>1. /\ rs \in Seq(Seq(Record)) /\ Len(rs) = m /\ m \in Nat
      /\ \A i \in 1 .. m : k + i \in 1 .. Len(InFlight) /\ rs[i] = Pieces[k + i]
  BY SourcesAre DEF PiecesOK
<1>2. /\ Len(Pieces) = Len(InFlight) + 1 /\ Len(InFlight) \in Nat /\ Pieces \in Seq(Seq(Record))
  BY PiecesAre DEF PiecesOK
<1>3. k \in Nat /\ DOMAIN rs = 1 .. m
  BY <1>1, Lists
<1> HIDE DEF m, k, rs
<1>4. \A i \in 1 .. m : Rises(rs[i])
  BY <1>1 DEF PiecesOK
<1>5. RunsInPosOrder(rs)
  <2> SUFFICES ASSUME NEW q \in 1 .. m, NEW r \in 1 .. m, q < r,
                      NEW a \in ToSet(rs[q]), NEW b \in ToSet(rs[r])
               PROVE  a.pos < b.pos
    BY <1>1, RunsBySet
  <2>1. k + q \in 1 .. Len(Pieces) /\ k + r \in 1 .. Len(Pieces) /\ k + q < k + r
    <3>1. k + q \in 1 .. Len(InFlight) /\ k + r \in 1 .. Len(InFlight)
      BY <1>1
    <3>2. m \in Nat
      BY <1>1
    <3>3. Len(InFlight) \in Nat /\ Len(Pieces) = Len(InFlight) + 1
      BY <1>2
    <3> QED BY <1>3, <3>1, <3>2, <3>3
  <2>2. RunsInPosOrder(Pieces)
    BY DEF PiecesOK, PiecesHold
  <2>3. a \in ToSet(Pieces[k + q]) /\ b \in ToSet(Pieces[k + r])
    BY <1>1
  <2> QED BY <1>2, <2>1, <2>2, <2>3, RunsBySet
<1> DEFINE t == MergeRuns(rs, ord)
<1>6. /\ t \in Seq(Record) /\ \A s \in ToSet(t) : \E r \in DOMAIN rs : s \in ToSet(rs[r])
      /\ RunsInPosOrder(rs) /\ (\A r \in 1 .. Len(rs) : Rises(rs[r])) =>
           /\ Rises(t)
           /\ \A q \in 1 .. Len(rs) : \A r \in ToSet(rs[q]) : \E s \in ToSet(t) : Stands(s, r)
  BY <1>1, MergedRuns
<1> HIDE DEF t
<1>7. /\ Rises(t)
      /\ \A q \in 1 .. m : \A r \in ToSet(rs[q]) : \E s \in ToSet(t) : Stands(s, r)
  BY <1>1, <1>4, <1>5, <1>6
<1>8. \A s \in ToSet(t) : \E i \in 1 .. m : s \in ToSet(Pieces[k + i])
  BY <1>1, <1>3, <1>6
<1>9. \A i \in 1 .. m : \A r \in ToSet(Pieces[k + i]) : \E s \in ToSet(t) : Stands(s, r)
  BY <1>1, <1>7
<1> QED BY <1>6, <1>7, <1>8, <1>9 DEF t, m, k, rs

\* A group gives way to its result.
LEMMA PiecesMerged ==
  ASSUME IInv, DataTyped, FilesApart, PiecesOK, pc \in {"merge", "groupfilter"}, out # NoPath,
         GroupDone, NEW ord \in Orders,
         content' \in [Paths -> Contents], content'[out].recs = MergeRuns(SourceRecs, ord),
         \A p \in Paths \ {out, plain} : content'[p] = content[p],
         UNCHANGED <<files, unique, operand, taken, buf>>
  PROVE  PiecesOK'
<1> DEFINE k == Len(next)
           m == Len(MergeSources)
           l == Len(runs) - group
           t == MergeRuns(SourceRecs, ord)
           list == InFlight'
           disk == content'
           new == Pieces'
<1>1. /\ pc \in Merging /\ next \in Seq(Paths) /\ runs \in Seq(Paths) /\ group \in Nat
      /\ Len(runs) \in Nat /\ k \in Nat /\ out \in Paths /\ group <= Len(runs) /\ buf \in Seq(Record)
  BY Lists DEF Merging, PiecesOK, DataTyped
<1>2. m = GroupSize /\ m \in Nat /\ m <= l /\ l \in Nat
  <2>1. m = GroupSize /\ GroupSize \in 0 .. Len(runs) - group
    BY <1>1, SourcesAtHand
  <2> HIDE DEF m
  <2> QED BY <1>1, <2>1
<1>3. /\ next' = Append(next, out) /\ runs' = runs /\ group' = group + m
      /\ Append(next, out) \in Seq(Paths) /\ Len(Append(next, out)) = k + 1
      /\ Append(next, out)[k + 1] = out /\ \A i \in 1 .. k : Append(next, out)[i] = next[i]
  <2>1. next' = Append(next, out) /\ runs' = runs /\ group' = group + m
    BY <1>2 DEF GroupDone
  <2> QED BY <1>1, <2>1
<1>4. /\ Len(InFlight) = k + l /\ InFlight \in Seq(Paths)
      /\ \A i \in 1 .. k : InFlight[i] = next[i]
      /\ \A i \in 1 .. l : InFlight[k + i] = runs[group + i]
  BY <1>1, InFlightIs
<1>5. /\ t \in Seq(Record) /\ Rises(t)
      /\ \A s \in ToSet(t) : \E i \in 1 .. m : s \in ToSet(Pieces[k + i])
      /\ \A i \in 1 .. m : \A r \in ToSet(Pieces[k + i]) : \E s \in ToSet(t) : Stands(s, r)
  BY <1>1, MergedSources
<1>6. /\ Pieces \in Seq(Seq(Record)) /\ Len(Pieces) = (k + l) + 1 /\ Pieces[(k + l) + 1] = buf
      /\ \A i \in 1 .. k + l : Pieces[i] = content[InFlight[i]].recs
  BY <1>1, <1>4, PiecesAre
<1>7. \A i \in 1 .. k + l : InFlight[i] \in Paths \ {out, plain}
  BY <1>1, <1>4, InFlightApart
<1>8. disk \in [Paths -> Contents] /\ disk[out].recs = t
      /\ \A i \in 1 .. k + l : disk[InFlight[i]].recs = Pieces[i]
  BY <1>6, <1>7
<1>9. list = Append(next, out) \o SubSeq(runs, (group + m) + 1, Len(runs))
  BY <1>3 DEF InFlight
<1>10. new = PiecesOf(list, disk, buf)
  BY DEF Pieces
<1> HIDE DEF t, list, disk, new, m, l, k
<1>11. /\ list \in Seq(Paths) /\ Len(list) = (k + 1) + (l - m) /\ Len(list) \in Nat
       /\ \A i \in 1 .. k : list[i] = InFlight[i]
       /\ list[k + 1] = out
       /\ \A i \in 1 .. l - m : list[(k + 1) + i] = InFlight[(k + m) + i]
  <2> DEFINE a == Append(next, out)
             g == group + m
  <2>1. a \in Seq(Paths) /\ g \in Nat /\ g <= Len(runs) /\ runs \in Seq(Paths)
    BY <1>1, <1>2, <1>3 DEF l
  <2>2. Len(a) = k + 1 /\ \A i \in 1 .. k : a[i] = next[i]
    BY <1>3
  <2>3. a[k + 1] = out
    BY <1>3
  <2>4. g = group + m /\ list = a \o SubSeq(runs, g + 1, Len(runs))
    BY <1>9
  <2> HIDE DEF a, g
  <2>5. /\ list \in Seq(Paths) /\ Len(list) = Len(a) + (Len(runs) - g) /\ Len(list) \in Nat
        /\ \A i \in 1 .. Len(a) : list[i] = a[i]
        /\ \A i \in 1 .. Len(runs) - g : list[Len(a) + i] = runs[g + i]
    <3>1. IsListFrom(list, a, runs, g)
      BY <2>1, <2>4, ListFrom
    <3> QED BY <3>1 DEF IsListFrom
  <2>6. Len(runs) - g = l - m
    BY <1>1, <1>2, <2>4 DEF l
  <2>7. \A i \in 1 .. k : list[i] = InFlight[i]
    <3>1. \A i \in 1 .. k : i \in 1 .. k + 1
      BY <1>1
    <3> QED BY <1>4, <2>2, <2>5, <3>1
  <2>8. list[k + 1] = out
    <3>1. k + 1 \in 1 .. k + 1
      BY <1>1
    <3> QED BY <2>2, <2>3, <2>5, <3>1
  <2>9. \A i \in 1 .. l - m : list[(k + 1) + i] = InFlight[(k + m) + i]
    <3> SUFFICES ASSUME NEW i \in 1 .. l - m PROVE list[(k + 1) + i] = InFlight[(k + m) + i]
      OBVIOUS
    <3>1. m + i \in 1 .. l /\ k + (m + i) = (k + m) + i /\ group + (m + i) = (group + m) + i
      BY <1>1, <1>2
    <3>2. list[(k + 1) + i] = runs[g + i]
      BY <2>2, <2>5, <2>6
    <3>3. InFlight[k + (m + i)] = runs[group + (m + i)]
      BY <1>4, <3>1
    <3> QED BY <2>4, <3>1, <3>2, <3>3
  <2> QED BY <2>2, <2>5, <2>6, <2>7, <2>8, <2>9
<1>12. /\ new \in Seq(Seq(Record)) /\ Len(new) = Len(list) + 1
       /\ \A i \in 1 .. Len(list) : new[i] = disk[list[i]].recs
       /\ new[Len(list) + 1] = buf
  BY <1>1, <1>8, <1>10, <1>11, PiecesOfIs, ZenonT(60)
<1>13. /\ Len(new) = (k + 1) + ((l - m) + 1)
       /\ \A i \in 1 .. k : new[i] = Pieces[i]
       /\ new[k + 1] = t
       /\ \A i \in 1 .. (l - m) + 1 : new[(k + 1) + i] = Pieces[(k + m) + i]
  <2>1. Len(new) = (k + 1) + ((l - m) + 1)
    BY <1>1, <1>2, <1>11, <1>12
  <2>2. \A i \in 1 .. k : new[i] = Pieces[i]
    <3>1. \A i \in 1 .. k : i \in 1 .. Len(list) /\ i \in 1 .. k + l
      BY <1>1, <1>2, <1>11
    <3> QED BY <1>8, <1>11, <1>12, <3>1, ZenonT(60)
  <2>3. new[k + 1] = t
    <3>1. k + 1 \in 1 .. Len(list)
      BY <1>1, <1>2, <1>11
    <3> QED BY <1>8, <1>11, <1>12, <3>1
  <2>4. ASSUME NEW i \in 1 .. l - m PROVE new[(k + 1) + i] = Pieces[(k + m) + i]
    <3>1. (k + 1) + i \in 1 .. Len(list) /\ (k + m) + i \in 1 .. k + l
      <4>1. k \in Nat /\ m \in Nat /\ l \in Nat /\ m <= l /\ Len(list) = (k + 1) + (l - m)
        BY <1>1, <1>2, <1>11
      <4> QED BY <4>1
    <3>2. new[(k + 1) + i] = disk[list[(k + 1) + i]].recs
      BY <1>12, <3>1
    <3>3. list[(k + 1) + i] = InFlight[(k + m) + i]
      BY <1>11
    <3> QED BY <1>8, <3>1, <3>2, <3>3
  <2>5. new[(k + 1) + ((l - m) + 1)] = Pieces[(k + m) + ((l - m) + 1)]
    <3>1. Len(list) + 1 = (k + 1) + ((l - m) + 1) /\ (k + m) + ((l - m) + 1) = (k + l) + 1
      <4>1. k \in Nat /\ m \in Nat /\ l \in Nat /\ m <= l /\ Len(list) = (k + 1) + (l - m)
        BY <1>1, <1>2, <1>11
      <4> QED BY <4>1
    <3> QED BY <1>6, <1>12, <3>1
  <2>6. \A i \in 1 .. (l - m) + 1 : i \in 1 .. l - m \/ i = (l - m) + 1
    BY <1>2
  <2> QED BY <2>1, <2>2, <2>3, <2>4, <2>5, <2>6
<1>14. PiecesHold(new, Consumed)
  <2> DEFINE of == [n \in 1 .. Len(new) |->
                      IF n <= k THEN {n} ELSE IF n = k + 1 THEN k + 1 .. k + m ELSE {n + m - 1}]
  <2>1. PiecesHold(Pieces, Consumed) /\ Consumed \in SUBSET Record
    BY ConsumedTyped DEF PiecesOK
  <2>2. ASSUME NEW n \in 1 .. Len(new)
        PROVE  \/ n \in 1 .. k /\ of[n] = {n}
               \/ n = k + 1 /\ of[n] = k + 1 .. k + m
               \/ \E i \in 1 .. (l - m) + 1 : n = (k + 1) + i /\ of[n] = {(k + m) + i}
    <3>1. CASE n <= k
      BY <1>1, <3>1
    <3>2. CASE n = k + 1
      BY <1>1, <3>2
    <3>3. CASE n > k + 1
      <4>1. n - (k + 1) \in 1 .. (l - m) + 1 /\ n = (k + 1) + (n - (k + 1))
        BY <1>1, <1>2, <1>13, <3>3
      <4>2. n + m - 1 = (k + m) + (n - (k + 1)) /\ ~(n <= k) /\ n # k + 1
        BY <1>1, <1>2, <3>3
      <4> QED BY <4>1, <4>2
    <3>4. n <= k \/ n = k + 1 \/ n > k + 1
      <4>1. k \in Nat /\ n \in Nat
        BY <1>1
      <4> QED BY <4>1
    <3> QED BY <3>1, <3>2, <3>3, <3>4
  <2>3. of \in [1 .. Len(new) -> SUBSET (1 .. Len(Pieces))]
    BY <1>1, <1>2, <1>6, <1>13
  <2>4. \A a, b \in 1 .. Len(new) : a < b => \A i \in of[a], j \in of[b] : i < j
    BY <1>1, <1>2, <1>13
  <2>5. DOMAIN of = 1 .. Len(new)
    OBVIOUS
  <2> HIDE DEF of
  <2>6. ASSUME NEW n \in 1 .. Len(new), NEW r \in ToSet(new[n])
        PROVE  \E i \in of[n] : r \in ToSet(Pieces[i])
    <3>1. CASE n \in 1 .. k /\ of[n] = {n}
      BY <1>13, <2>6, <3>1
    <3>2. CASE n = k + 1 /\ of[n] = k + 1 .. k + m
      <4>1. PICK i \in 1 .. m : r \in ToSet(Pieces[k + i])
        BY <1>5, <1>13, <2>6, <3>2
      <4>2. k + i \in k + 1 .. k + m
        BY <1>1, <1>2
      <4> QED BY <3>2, <4>1, <4>2
    <3>3. CASE \E i \in 1 .. (l - m) + 1 : n = (k + 1) + i /\ of[n] = {(k + m) + i}
      BY <1>13, <2>6, <3>3
    <3> QED BY <2>2, <3>1, <3>2, <3>3
  <2>7. ASSUME NEW i \in 1 .. Len(Pieces), NEW r \in ToSet(Pieces[i])
        PROVE  \E n \in 1 .. Len(new) : \E s \in ToSet(new[n]) : Stands(s, r)
    <3>1. r \in Record /\ Stands(r, r)
      <4>1. r \in Record
        BY <2>1, <2>7 DEF PiecesHold
      <4> QED BY <4>1, StandsFor
    <3>2. CASE i \in 1 .. k
      <4>1. i \in 1 .. Len(new)
        BY <1>1, <1>2, <1>13, <3>2
      <4> QED BY <1>13, <2>7, <3>1, <3>2, <4>1
    <3>3. CASE i \in k + 1 .. k + m
      <4>1. i - k \in 1 .. m /\ k + (i - k) = i /\ k + 1 \in 1 .. Len(new)
        BY <1>1, <1>2, <1>13, <3>3
      <4>2. r \in ToSet(Pieces[k + (i - k)])
        BY <2>7, <4>1
      <4>3. PICK s \in ToSet(t) : Stands(s, r)
        BY <1>5, <4>1, <4>2
      <4> QED BY <1>13, <4>1, <4>3
    <3>4. CASE i > k + m
      <4> DEFINE d == i - (k + m)
      <4>1. d \in 1 .. (l - m) + 1 /\ i = (k + m) + d /\ (k + 1) + d \in 1 .. Len(new)
        BY <1>1, <1>2, <1>6, <1>13, <3>4
      <4> HIDE DEF d
      <4>2. r \in ToSet(new[(k + 1) + d])
        BY <1>13, <2>7, <4>1
      <4> QED BY <3>1, <4>1, <4>2
    <3> QED BY <1>1, <1>2, <1>6, <3>2, <3>3, <3>4
  <2> QED BY <1>12, <2>1, <2>3, <2>4, <2>6, <2>7, Regrouped
<1>15. PiecesHold(Pieces, Consumed)'
  <2>1. Consumed' = Consumed
    BY ConsumedStays
  <2> QED BY <1>14, <2>1, PiecesThen DEF new
<1>16. \A i \in 1 .. Len(list) : Rises(new[i])
  <2>1. \A i \in 1 .. k : Rises(Pieces[i])
    <3>1. \A i \in 1 .. k : i \in 1 .. Len(InFlight)
      BY <1>1, <1>2, <1>4
    <3> QED BY <3>1 DEF PiecesOK
  <2>2. \A i \in 1 .. l - m : Rises(Pieces[(k + m) + i])
    <3>1. \A i \in 1 .. l - m : (k + m) + i \in 1 .. Len(InFlight)
      BY <1>1, <1>2, <1>4
    <3> QED BY <3>1 DEF PiecesOK
  <2> SUFFICES ASSUME NEW i \in 1 .. Len(list) PROVE Rises(new[i])
    OBVIOUS
  <2>3. CASE i \in 1 .. k
    BY <1>13, <2>1, <2>3
  <2>4. CASE i = k + 1
    BY <1>5, <1>13, <2>4
  <2>5. CASE i > k + 1
    <3> DEFINE d == i - (k + 1)
    <3>1. d \in 1 .. l - m /\ d \in 1 .. (l - m) + 1 /\ i = (k + 1) + d
      BY <1>1, <1>2, <1>11, <2>5
    <3> HIDE DEF d
    <3> QED BY <1>13, <2>2, <3>1
  <2> QED BY <1>1, <2>3, <2>4, <2>5
<1>17. group' <= Len(runs')
  BY <1>1, <1>2, <1>3 DEF l
<1> QED BY <1>15, <1>16, <1>17 DEF PiecesOK, list, new

-----------------------------------------------------------------------------
(***************************************************************************)
(* Steps that leave the pieces alone                                       *)
(***************************************************************************)

LEMMA Outcomes ==
  /\ Contract!NotYet \in Outputs /\ Contract!Failed \in Outputs
  /\ \A recs \in Seq(Record) : Contract!Delivered(recs) \in Outputs
  BY DEF Contract!NotYet, Contract!Failed, Contract!Delivered, Outputs

\* The sort is over.
LEMMA DeadDInv ==
  ASSUME DInv, UNCHANGED <<input_vars, content>>, output' \in Outputs,
         exit' \in {"none", "success", "error", "nomem", "abort"}, ~Alive'
  PROVE  DInv'
  BY DEF DInv, DataTyped, input_vars, job_vars

\* So it is when a call has failed.
LEMMA FailedDInv ==
  ASSUME DInv, UNCHANGED <<input_vars, content, exit>>, GiveUp
  PROVE  DInv'
<1>1. output' \in Outputs /\ ~Alive'
  BY Outcomes DEF GiveUp, Alive
<1>2. exit' \in {"none", "success", "error", "nomem", "abort"}
  BY DEF DInv, DataTyped
<1> QED BY <1>1, <1>2, DeadDInv

LEMMA OperandStays ==
  ASSUME OperandOK, UNCHANGED <<files, operand, taken, buf, partial>>, pc' \notin {"open", "read"},
         pc' \in {"reduce", "final", "group"} \cup Merging =>
           pc \in {"reduce", "final", "group"} \cup Merging
  PROVE  OperandOK'
  BY DEF OperandOK

\* What the places without a filter promise.
LEMMA NoFilter ==
  ASSUME pc' \notin {"flushfilter", "groupfilter"}, pc' \notin Merging \/ prepared' = <<>>
  PROVE  FilterOK'
  BY DEF FilterOK

LEMMA SourcesStay ==
  ASSUME UNCHANGED <<runs, group, out>>
  PROVE  MergeSources' = MergeSources
  BY DEF MergeSources, GroupInputs, GroupSize

LEMMA FilterKept ==
  ASSUME FilterOK, pc \in Merging, pc' \notin {"flushfilter", "groupfilter"},
         UNCHANGED <<compress, runs, group, prepared, out>>,
         \A i \in 1 .. Len(prepared) :
           /\ content'[prepared[i]].recs = content[prepared[i]].recs
           /\ content'[MergeSources[i]].recs = content[MergeSources[i]].recs
  PROVE  FilterOK'
<1>1. MergeSources' = MergeSources
  BY SourcesStay
<1> QED BY <1>1 DEF FilterOK

\* The code goes on and nothing is moved.
LEMMA QuietDInv ==
  ASSUME IInv, DInv, Alive, UNCHANGED <<input_vars, runs, merge_vars, content, output, exit>>,
         OperandOK', FilterOK'
  PROVE  DInv'
<1>1. DataTyped /\ PiecesOK /\ output = Contract!NotYet
  BY DEF DInv
<1>2. DataTyped'
  BY <1>1 DEF DataTyped, input_vars, job_vars
<1>3. InFlight' = InFlight /\ group' <= Len(runs')
  BY <1>1 DEF InFlight, merge_vars, PiecesOK
<1>4. UNCHANGED <<files, unique, operand, taken, buf>>
  BY DEF input_vars, job_vars
<1>5. PiecesOK'
  BY <1>1, <1>3, <1>4, PiecesKept
<1> QED BY <1>1, <1>2, <1>5 DEF DInv

\* A file is written that is not in flight.
LEMMA WriteDInv ==
  ASSUME IInv, KInv, DInv, Alive, NEW p \in Paths, NEW c \in Contents,
         p \notin temps \/ p = plain \/ p = out,
         content' = [content EXCEPT ![p] = c],
         UNCHANGED <<input_vars, runs, next, group, output, exit>>, OperandOK', FilterOK'
  PROVE  DInv'
<1>1. DataTyped /\ PiecesOK /\ output = Contract!NotYet /\ FilesApart
  BY DEF DInv, KInv, Alive
<1>2. DataTyped'
  BY <1>1 DEF DataTyped, input_vars, job_vars
<1>3. InFlight' = InFlight /\ group' <= Len(runs') /\ group <= Len(runs)
  BY <1>1 DEF InFlight, PiecesOK
<1>4. UNCHANGED <<files, unique, operand, taken, buf>>
  BY DEF input_vars, job_vars
<1>5. \A i \in 1 .. Len(InFlight) : content'[InFlight[i]].recs = content[InFlight[i]].recs
  <2> SUFFICES ASSUME NEW i \in 1 .. Len(InFlight)
               PROVE  content'[InFlight[i]].recs = content[InFlight[i]].recs
    OBVIOUS
  <2>1. InFlight[i] # p /\ InFlight[i] \in Paths
    BY <1>1, <1>3, InFlightApart
  <2> QED BY <1>1, <2>1 DEF DataTyped
<1>6. PiecesOK'
  BY <1>1, <1>3, <1>4, <1>5, PiecesKept
<1> QED BY <1>1, <1>2, <1>6 DEF DInv

\* The files of a merge exist and are none of those that are being made.
LEMMA MergeFilesApart ==
  ASSUME IInv, FilesApart, pc \in Merging, group <= Len(runs)
  PROVE  /\ \A i \in 1 .. Len(prepared) :
              prepared[i] \in temps /\ prepared[i] \in Paths /\ prepared[i] # out /\ prepared[i] # plain
         /\ \A i \in 1 .. Len(MergeSources) :
              /\ MergeSources[i] \in temps /\ MergeSources[i] \in Paths
              /\ MergeSources[i] # out /\ MergeSources[i] # plain
<1>1. \A i \in 1 .. Len(prepared) :
        prepared[i] \in temps /\ prepared[i] \in Paths /\ prepared[i] # out /\ prepared[i] # plain
  BY Lists DEF FilesApart
<1>2. ASSUME NEW i \in 1 .. Len(MergeSources)
      PROVE  /\ MergeSources[i] \in temps /\ MergeSources[i] \in Paths
             /\ MergeSources[i] # out /\ MergeSources[i] # plain
  <2>1. group + i \in group + 1 .. Len(runs) /\ MergeSources[i] = runs[group + i]
    BY SourcesAtHand
  <2>2. runs[group + i] \in temps /\ runs[group + i] # out /\ runs[group + i] # plain
    BY <2>1 DEF FilesApart
  <2>3. temps \subseteq Paths
    BY Lists
  <2> QED BY <2>1, <2>2, <2>3
<1> QED BY <1>1, <1>2

\* No more copies than files to copy.
LEMMA PreparedWithin ==
  ASSUME IInv, KInv, pc \in {"prepare", "decompress", "groupplain", "merge"}, compress,
         pc = "prepare" => Len(prepared) < Len(MergeSources)
  PROVE  \A i \in 1 .. Len(prepared) : i \in 1 .. Len(MergeSources)
<1>1. pc \in Merging /\ Len(prepared) \in Nat
  BY Lists DEF Merging
<1>2. Len(MergeSources) \in Nat
  BY <1>1, SourcesAtHand
<1>3. Len(prepared) <= Len(MergeSources)
  BY <1>1, <1>2 DEF KInv, MergeReady
<1> QED BY <1>1, <1>2, <1>3

\* A new empty file.
LEMMA EmptyDInv ==
  ASSUME IInv, KInv, DInv, Alive, NamesLeft, NEW p, p = FreshPath,
         content' = [content EXCEPT ![p] = Plainly(<<>>)],
         UNCHANGED <<input_vars, runs, next, group, prepared, output, exit>>, OperandOK',
         pc' \notin {"flushfilter", "groupfilter"},
         \/ prepared = <<>>
         \/ pc = "prepare" /\ Len(prepared) < Len(MergeSources) /\ out' = out
         \/ pc = "groupplain" /\ out' = out
  PROVE  DInv'
<1>1. p \in Paths \ temps /\ Plainly(<<>>) \in Contents
  BY FreshPathIsFresh DEF IInv, Plainly, Contents
<1>2. FilterOK /\ FilesApart /\ PiecesOK /\ DataTyped /\ MergeReady
  BY DEF DInv, KInv, Alive
<1>3. FilterOK'
  <2>1. CASE prepared = <<>>
    BY <2>1, NoFilter
  <2>2. CASE /\ pc \in {"prepare", "groupplain"} /\ out' = out
             /\ pc = "prepare" => Len(prepared) < Len(MergeSources)
    <3>1. pc \in Merging /\ group <= Len(runs) /\ compress' = compress /\ compress
      BY <1>2, <2>2 DEF PiecesOK, Merging, input_vars, job_vars, MergeReady
    <3>2. \A i \in 1 .. Len(prepared) : i \in 1 .. Len(MergeSources)
      BY <2>2, <3>1, PreparedWithin
    <3>3. \A i \in 1 .. Len(prepared) : prepared[i] \in temps /\ prepared[i] \in Paths
      BY <1>2, <3>1, MergeFilesApart
    <3>4. \A i \in 1 .. Len(prepared) : MergeSources[i] \in temps /\ MergeSources[i] \in Paths
      BY <1>2, <3>1, <3>2, MergeFilesApart
    <3>5. \A i \in 1 .. Len(prepared) : /\ content'[prepared[i]].recs = content[prepared[i]].recs
                                       /\ content'[MergeSources[i]].recs = content[MergeSources[i]].recs
      BY <1>1, <1>2, <3>3, <3>4 DEF DataTyped
    <3> QED BY <1>2, <2>2, <3>1, <3>5, FilterKept
  <2> QED BY <2>1, <2>2
<1> QED BY <1>1, <1>3, WriteDInv

-----------------------------------------------------------------------------
(***************************************************************************)
(* What every step does to the records                                     *)
(***************************************************************************)

LEMMA ReadingDInv ==
  ASSUME IInv, KInv, DInv, OpenOperand \/ ReadChunk \/ ReadEof \/ ReadError \/ EndOfInput
  PROVE  DInv'
<1>1. pc \in {"open", "read"} /\ Alive /\ exit' = exit /\ content' = content
  BY DEF OpenOperand, ReadChunk, ReadEof, ReadError, EndOfInput, Alive
<1>2. DataTyped /\ OperandOK /\ PiecesOK /\ FilterOK /\ output = Contract!NotYet
  BY <1>1 DEF DInv
<1>3. next = <<>> /\ prepared = <<>> /\ out = NoPath /\ plain = NoPath /\ group = 0
  BY <1>1 DEF IInv, LocalsOK, OnlyRuns, AtRest
<1>4. files \in Seq(Seq(Keys)) /\ Len(files) \in Nat /\ operand \in Nat /\ taken \in Nat
  BY <1>2, JobTyped DEF DataTyped
<1>5. CASE GiveUp /\ UNCHANGED <<input_vars, content, exit>>
  BY <1>5, FailedDInv
<1>6. CASE OpenOperand /\ ~GiveUp
  <2>1. /\ pc = "open" /\ pc' = "read" /\ operand <= Len(files)
        /\ UNCHANGED <<input_vars, runs, merge_vars, content, output, exit>>
    BY <1>6 DEF OpenOperand
  <2>2. OperandOK'
    BY <1>2, <2>1 DEF OperandOK, input_vars, job_vars, Merging
  <2>3. FilterOK'
    BY <2>1, NoFilter DEF Merging
  <2> QED BY <1>1, <2>1, <2>2, <2>3, QuietDInv
<1>7. CASE EndOfInput
  <2>1. /\ pc = "open" /\ pc' = IF buf # <<>> THEN "flush" ELSE "reduce"
        /\ operand > Len(files)
        /\ UNCHANGED <<input_vars, runs, merge_vars, content, output, exit>>
    BY <1>7 DEF EndOfInput
  <2>2. operand = Len(files) + 1
    BY <1>2, <1>4, <2>1 DEF OperandOK
  <2>3. OperandOK'
    BY <1>2, <2>1, <2>2 DEF OperandOK, input_vars, job_vars, Merging
  <2>4. FilterOK'
    BY <2>1, NoFilter DEF Merging
  <2> QED BY <1>1, <2>1, <2>3, <2>4, QuietDInv
<1>8. ASSUME NEW upto \in Nat, taken <= upto, pc = "read", upto <= Len(files[operand]),
             buf' = buf \o OperandRecords(taken, upto), Reached' = Reached + (upto - taken),
             UNCHANGED <<job_vars, runs, merge_vars, content, output, exit>>,
             operand' \in Nat, taken' \in Nat, partial' \in BOOLEAN, OperandOK',
             pc' \in {"open", "read", "flush"}
      PROVE  DInv'
  <2>1. operand <= Len(files)
    BY <1>2, <1>8 DEF OperandOK
  <2>2. UNCHANGED <<files, unique, compress, runs, next, group, content>>
    BY <1>8 DEF job_vars, merge_vars
  <2>3. buf' \in Seq(Record) /\ PiecesOK'
    BY <1>2, <1>8, <2>1, <2>2, PiecesRead
  <2>4. DataTyped'
    BY <1>2, <1>8, <2>2, <2>3 DEF DataTyped
  <2>5. FilterOK'
    BY <1>8, NoFilter DEF Merging
  <2> QED BY <1>2, <1>8, <2>3, <2>4, <2>5 DEF DInv
<1>9. CASE ReadChunk
  <2>1. PICK n \in 0 .. MaxRead, p \in BOOLEAN :
          /\ taken + n <= Len(files[operand]) /\ (p => taken + n < Len(files[operand]))
          /\ taken' = taken + n /\ partial' = p
          /\ buf' = buf \o OperandRecords(taken, taken + n)
          /\ pc' = IF FlushNeeded(buf', p) THEN "flush" ELSE "read"
    BY <1>9 DEF ReadChunk
  <2>2. pc = "read" /\ UNCHANGED <<job_vars, operand, runs, merge_vars, content, output, exit>>
    BY <1>9 DEF ReadChunk
  <2>3. MaxRead \in Nat
    BY ConstantsAssumption
  <2>4. n \in Nat /\ taken + n \in Nat /\ taken <= taken + n /\ (taken + n) - taken = n
    BY <1>4, <2>1, <2>3
  <2>5. operand <= Len(files)
    BY <1>2, <2>2 DEF OperandOK
  <2>6. OperandOK'
    BY <1>2, <2>1, <2>2, <2>5 DEF OperandOK, job_vars, Merging
  <2>7. Reached' = Reached + ((taken + n) - taken)
    <3>1. Reached \in Nat /\ Upto(operand - 1) \in Nat
      <4>1. operand - 1 \in 0 .. Len(files)
        BY <1>2, <1>4 DEF OperandOK
      <4> QED BY <1>2, <1>4, <4>1, ReachedIs, UptoIs
    <3>2. Reached' = Upto(operand - 1) + (taken + n)
      BY <2>1, <2>2 DEF Reached, Upto, Before, job_vars
    <3> QED BY <1>4, <2>4, <3>1, <3>2 DEF Reached
  <2> QED BY <1>4, <1>8, <2>1, <2>2, <2>4, <2>6, <2>7
<1>10. CASE ReadEof
  <2> DEFINE upto == Len(files[operand])
  <2>1. /\ pc = "read" /\ upto = taken + (IF partial THEN 1 ELSE 0) /\ partial' = FALSE
        /\ buf' = buf \o OperandRecords(taken, upto)
        /\ IF partial /\ FlushNeeded(buf', FALSE)
           THEN pc' = "flush" /\ taken' = taken + 1 /\ UNCHANGED operand
           ELSE pc' = "open" /\ taken' = 0 /\ operand' = operand + 1
        /\ UNCHANGED <<job_vars, runs, merge_vars, content, output, exit>>
    BY <1>10 DEF ReadEof
  <2>2. operand \in 1 .. Len(files) /\ files' = files
    BY <1>2, <1>4, <2>1 DEF OperandOK, job_vars
  <2>3. upto \in Nat /\ taken <= upto /\ files[operand] \in Seq(Keys)
    BY <1>4, <2>1, <2>2
  <2>4. /\ Reached = Upto(operand - 1) + taken /\ Upto(operand - 1) \in Nat
        /\ Upto(operand) = Upto(operand - 1) + upto
    <3>1. operand - 1 \in 0 .. Len(files)
      BY <1>4, <2>2
    <3> QED BY <1>4, <2>2, <3>1, UptoIs DEF Reached
  <2>7. partial' \in BOOLEAN
    BY <2>1, Zenon
  <2>8. /\ pc = "read" /\ buf' = buf \o OperandRecords(taken, upto)
        /\ UNCHANGED <<job_vars, runs, merge_vars, content, output, exit>>
    BY <2>1
  <2>9. upto <= Len(files[operand])
    BY <2>3
  <2> HIDE DEF upto
  <2>5. CASE partial /\ FlushNeeded(buf', FALSE)
    <3>1. pc' = "flush" /\ taken' = taken + 1 /\ operand' = operand /\ upto = taken + 1
      BY <2>1, <2>5
    <3>2. Reached' = Upto(operand - 1) + (taken + 1)
      BY <2>2, <3>1 DEF Reached, Upto, Before
    <3>3. Reached' = Reached + (upto - taken)
      BY <1>4, <2>4, <3>1, <3>2
    <3>4. OperandOK'
      BY <1>2, <1>4, <2>1, <2>2, <3>1 DEF OperandOK, Merging, upto
    <3>5. operand' \in Nat /\ taken' \in Nat
      BY <1>4, <3>1
    <3> QED BY <1>8, <2>3, <2>7, <2>8, <2>9, <3>1, <3>3, <3>4, <3>5
  <2>6. CASE ~(partial /\ FlushNeeded(buf', FALSE))
    <3>1. pc' = "open" /\ taken' = 0 /\ operand' = operand + 1
      BY <2>1, <2>6
    <3>2. Reached' = Upto(operand) + 0
      <4>1. operand' - 1 = operand
        BY <1>4, <3>1
      <4> QED BY <2>2, <3>1, <4>1 DEF Reached, Upto, Before
    <3>3. Reached' = Reached + (upto - taken)
      BY <1>4, <2>3, <2>4, <3>2
    <3>4. OperandOK'
      <4>1. operand + 1 \in 1 .. Len(files) + 1
        BY <1>4, <2>2
      <4>2. operand + 1 <= Len(files) => Len(files[operand + 1]) \in Nat
        BY <1>4, <2>2
      <4> QED BY <2>1, <2>2, <3>1, <4>1, <4>2 DEF OperandOK, Merging
    <3>5. operand' \in Nat /\ taken' \in Nat
      BY <1>4, <3>1
    <3> QED BY <1>8, <2>3, <2>7, <2>8, <2>9, <3>1, <3>3, <3>4, <3>5
  <2> QED BY <2>5, <2>6
<1> QED BY <1>1, <1>5, <1>6, <1>7, <1>9, <1>10 DEF OpenOperand, ReadError

\* A run is written.
LEMMA FlushDoneDInv ==
  ASSUME IInv, KInv, DInv, pc \in {"flushwrite", "flushfilter"}, FlushDone,
         NEW ord \in Orders, NEW c \in Contents,
         content' = [content EXCEPT ![out] = c], c.recs = StableSort(buf, ord),
         UNCHANGED <<job_vars, operand, taken, partial, next, group, prepared, exit>>
  PROVE  DInv'
<1>1. pc \in Flushing /\ Alive
  BY DEF Flushing, Alive
<1>2. DataTyped /\ OperandOK /\ PiecesOK /\ output = Contract!NotYet /\ FilesApart
  BY <1>1 DEF DInv, KInv, Alive
<1>3. out \in Paths /\ prepared = <<>>
  BY <1>1 DEF IInv, LocalsOK
<1>4. content' \in [Paths -> Contents] /\ content'[out] = c
  BY <1>2, <1>3 DEF DataTyped
<1>5. \A p \in Paths \ {out, plain} : content'[p] = content[p]
  BY <1>2 DEF DataTyped
<1>6. UNCHANGED <<files, unique, compress>>
  BY DEF job_vars
<1>7. PiecesOK'
  BY <1>1, <1>2, <1>4, <1>5, <1>6, PiecesFlushed
<1>8. buf' = <<>> /\ output' = output /\ pc' = IF operand <= Len(files) THEN "read" ELSE "reduce"
  BY DEF FlushDone
<1>9. DataTyped'
  BY <1>2, <1>4, <1>6, <1>8 DEF DataTyped
<1>10. OperandOK'
  <2>1. operand \in Nat /\ Len(files) \in Nat
    BY <1>2, JobTyped DEF DataTyped
  <2>2. ~(operand <= Len(files)) => operand = Len(files) + 1
    BY <1>2, <2>1 DEF OperandOK
  <2> QED BY <1>2, <1>6, <1>8, <2>2 DEF OperandOK, Merging
<1>11. FilterOK'
  BY <1>8, NoFilter DEF Merging
<1> QED BY <1>2, <1>7, <1>8, <1>9, <1>10, <1>11 DEF DInv

LEMMA FlushDInv ==
  ASSUME IInv, KInv, DInv, FlushMakePath \/ FlushMakePlain \/ FlushWrite \/ FlushFilter
  PROVE  DInv'
<1>1. /\ pc \in {"flush"} \cup Flushing /\ Alive
      /\ UNCHANGED <<job_vars, operand, taken, partial, next, group, prepared, exit>>
  BY DEF FlushMakePath, FlushMakePlain, FlushWrite, FlushFilter, Flushing, Alive, input_vars
<1>2. /\ DataTyped /\ OperandOK /\ PiecesOK /\ FilterOK /\ output = Contract!NotYet
      /\ FilesApart /\ MergeReady
  BY <1>1 DEF DInv, KInv, Alive
<1>3. prepared = <<>> /\ (pc # "flush" => out \in Paths)
  BY <1>1 DEF IInv, LocalsOK, OnlyRuns, AtRest
<1>4. compress' = compress
  BY <1>1 DEF job_vars
<1>5. CASE FlushMakePath /\ pc' = "cleanup"
  <2>1. UNCHANGED <<input_vars, content, exit>> /\ GiveUp
    BY <1>5 DEF FlushMakePath
  <2> QED BY <2>1, FailedDInv
<1>6. CASE pc # "flush" /\ pc' = "cleanup"
  <2>1. FlushFailed /\ UNCHANGED content
    BY <1>6 DEF FlushMakePath, FlushMakePlain, FlushWrite, FlushFilter, FlushDone
  <2>2. UNCHANGED <<input_vars, content, exit>> /\ GiveUp
    BY <1>1, <2>1 DEF FlushFailed, input_vars
  <2> QED BY <2>2, FailedDInv
<1>7. ASSUME NEW p, NamesLeft, p = FreshPath, content' = [content EXCEPT ![p] = Plainly(<<>>)],
             pc' \in Flushing \ {"flushfilter"}, UNCHANGED <<buf, runs, output>>
      PROVE  DInv'
  <2>1. UNCHANGED <<files, operand, taken, buf, partial>>
    BY <1>1, <1>7 DEF job_vars
  <2>2. OperandOK'
    BY <1>2, <1>7, <2>1, OperandStays DEF Flushing, Merging
  <2>3. pc' \notin {"flushfilter", "groupfilter"}
    BY <1>7 DEF Flushing
  <2> QED BY <1>1, <1>3, <1>7, <2>2, <2>3, EmptyDInv DEF input_vars
<1>8. CASE FlushMakePath /\ pc' # "cleanup"
  <2>1. /\ NamesLeft /\ out' = FreshPath /\ content' = [content EXCEPT ![out'] = Plainly(<<>>)]
        /\ pc' = IF compress THEN "flushplain" ELSE "flushwrite"
        /\ UNCHANGED <<buf, runs, output>>
    BY <1>8 DEF FlushMakePath, input_vars, GiveUp
  <2>2. pc' \in Flushing \ {"flushfilter"}
    BY <2>1 DEF Flushing
  <2> QED BY <1>7, <2>1, <2>2
<1>9. CASE FlushMakePlain /\ pc' # "cleanup"
  <2>1. /\ NamesLeft /\ plain' = FreshPath /\ content' = [content EXCEPT ![plain'] = Plainly(<<>>)]
        /\ pc' = "flushwrite" /\ UNCHANGED <<buf, runs, output>>
    BY <1>9 DEF FlushMakePlain, FlushFailed, GiveUp
  <2>2. pc' \in Flushing \ {"flushfilter"}
    BY <2>1 DEF Flushing
  <2> QED BY <1>7, <2>1, <2>2
<1>10. CASE FlushWrite /\ pc' # "cleanup"
  <2>1. PICK ord \in Orders :
          content' = [content EXCEPT ![IF compress THEN plain ELSE out] = Plainly(StableSort(buf, ord))]
    BY <1>10 DEF FlushWrite, FlushFailed, GiveUp
  <2>2. Plainly(StableSort(buf, ord)) \in Contents
    <3>1. buf \in Seq(Record) /\ InPosOrder(buf)
      BY <1>2 DEF DataTyped, PiecesOK
    <3>2. StableSort(buf, ord) \in Seq(Record)
      BY <3>1, SortedRun
    <3> QED BY <3>2 DEF Plainly, Contents
  <2>3. Plainly(StableSort(buf, ord)).recs = StableSort(buf, ord) /\ pc = "flushwrite"
    BY <1>10 DEF Plainly, FlushWrite
  <2>4. CASE compress
    <3>1. pc' = "flushfilter" /\ UNCHANGED <<buf, runs, out, plain, temps, output>>
      BY <1>10, <2>4 DEF FlushWrite, FlushFailed, GiveUp
    <3>2. plain \in Paths
      BY <1>2, <2>3, <2>4, Lists DEF MergeReady, Filtering
    <3>3. UNCHANGED <<files, operand, taken, buf, partial>>
      BY <1>1, <3>1 DEF job_vars
    <3>4. OperandOK'
      BY <1>2, <3>1, <3>3, OperandStays DEF Merging
    <3>5. content'[plain].recs = StableSort(buf, ord)
      BY <1>2, <2>1, <2>3, <2>4, <3>2 DEF DataTyped
    <3>6. FilterOK'
      BY <3>1, <3>5 DEF FilterOK, Merging
    <3> QED BY <1>1, <2>1, <2>2, <2>4, <3>1, <3>2, <3>4, <3>6, WriteDInv DEF input_vars
  <2>5. CASE ~compress
    <3>1. FlushDone /\ content' = [content EXCEPT ![out] = Plainly(StableSort(buf, ord))]
      BY <1>10, <2>1, <2>5 DEF FlushWrite, FlushFailed, GiveUp
    <3> QED BY <1>1, <2>2, <2>3, <3>1, FlushDoneDInv
  <2> QED BY <2>4, <2>5
<1>11. CASE FlushFilter /\ pc' # "cleanup"
  <2> DEFINE c == Compressed(content[plain])
  <2>1. pc = "flushfilter" /\ FlushDone /\ content' = [content EXCEPT ![out] = c]
    BY <1>11 DEF FlushFilter, FlushFailed, GiveUp
  <2>2. plain \in Paths
    BY <1>2, <2>1, Lists DEF MergeReady, Filtering
  <2>3. c \in Contents /\ c.recs = content[plain].recs
    BY <1>2, <2>2 DEF DataTyped, Contents, Compressed
  <2>4. PICK ord \in Orders : content[plain].recs = StableSort(buf, ord)
    BY <1>2, <2>1 DEF FilterOK
  <2> HIDE DEF c
  <2> QED BY <1>1, <2>1, <2>3, <2>4, FlushDoneDInv
<1>12. pc = "flush" => FlushMakePath
  BY DEF FlushMakePlain, FlushWrite, FlushFilter
<1> QED BY <1>5, <1>6, <1>8, <1>9, <1>10, <1>11, <1>12

LEMMA PassDInv ==
  ASSUME IInv, KInv, DInv, Reduce \/ PassDone \/ GroupMakePath
  PROVE  DInv'
<1>1. pc \in {"reduce", "group"} /\ Alive
  BY DEF Reduce, PassDone, GroupMakePath, Alive
<1>2. /\ DataTyped /\ OperandOK /\ PiecesOK /\ FilterOK /\ output = Contract!NotYet
      /\ UNCHANGED <<input_vars, exit>> /\ prepared = <<>>
  BY <1>1 DEF DInv, Alive, Reduce, PassDone, GroupMakePath, IInv, LocalsOK, AtRest, OnlyRuns
<1>3. UNCHANGED <<files, unique, operand, taken, buf, partial>>
  BY <1>2 DEF input_vars, job_vars
<1>4. pc' \notin {"open", "read"} => OperandOK'
  BY <1>1, <1>2, <1>3, OperandStays
<1>5. CASE Reduce
  <2>1. /\ pc' \in {"group", "final"}
        /\ UNCHANGED <<input_vars, runs, merge_vars, content, output, exit>>
    BY <1>5 DEF Reduce
  <2>2. FilterOK'
    BY <2>1, NoFilter DEF Merging
  <2> QED BY <1>1, <1>4, <2>1, <2>2, QuietDInv
<1>6. CASE PassDone
  <2>1. /\ runs' = next /\ next' = <<>> /\ group' = 0 /\ pc' = "reduce" /\ group >= Len(runs)
        /\ UNCHANGED <<content, output>>
    BY <1>6 DEF PassDone
  <2>2. runs \in Seq(Paths) /\ next \in Seq(Paths) /\ group = Len(runs)
    BY <1>2, <2>1, Lists DEF PiecesOK
  <2>3. InFlight = next
    <3>1. SubSeq(runs, group + 1, Len(runs)) = <<>>
      BY <2>2
    <3> QED BY <2>2, <3>1 DEF InFlight
  <2>4. InFlight' = next
    <3>1. InFlight' = <<>> \o SubSeq(next, 0 + 1, Len(next))
      BY <2>1 DEF InFlight
    <3>2. SubSeq(next, 0 + 1, Len(next)) = next
      BY <2>2
    <3> QED BY <2>2, <3>1, <3>2
  <2>5. group' <= Len(runs')
    BY <2>1, <2>2
  <2>6. PiecesOK'
    BY <1>2, <1>3, <2>1, <2>3, <2>4, <2>5, PiecesKept
  <2>7. DataTyped'
    BY <1>2, <2>1 DEF DataTyped, input_vars, job_vars
  <2>8. FilterOK'
    BY <2>1, NoFilter DEF Merging
  <2> QED BY <1>2, <1>4, <2>1, <2>6, <2>7, <2>8 DEF DInv
<1>7. CASE GroupMakePath /\ pc' = "cleanup"
  <2>1. GiveUp /\ UNCHANGED content
    BY <1>7 DEF GroupMakePath, GroupFailed
  <2> QED BY <1>2, <2>1, FailedDInv
<1>8. CASE GroupMakePath /\ pc' # "cleanup"
  <2>1. /\ NamesLeft /\ out' = FreshPath /\ content' = [content EXCEPT ![out'] = Plainly(<<>>)]
        /\ pc' = IF compress THEN "prepare" ELSE "merge"
        /\ UNCHANGED <<runs, next, group, prepared, output>>
    BY <1>8 DEF GroupMakePath, GroupFailed, GiveUp
  <2>2. pc' \notin {"open", "read", "flushfilter", "groupfilter"}
    BY <2>1
  <2> QED BY <1>1, <1>2, <1>4, <2>1, <2>2, EmptyDInv
<1> QED BY <1>5, <1>6, <1>7, <1>8

LEMMA PrepareDInv ==
  ASSUME IInv, KInv, DInv, PrepareMakePath \/ PrepareDecompress \/ PrepareDone \/ GroupMakePlain
  PROVE  DInv'
<1>1. pc \in {"prepare", "decompress", "groupplain"} /\ pc \in Merging /\ Alive
  BY DEF PrepareMakePath, PrepareDecompress, PrepareDone, GroupMakePlain, Alive, Merging
<1>2. /\ DataTyped /\ OperandOK /\ PiecesOK /\ FilterOK /\ output = Contract!NotYet
      /\ UNCHANGED <<input_vars, exit>> /\ FilesApart /\ MergeReady
  BY <1>1 DEF DInv, KInv, Alive, PrepareMakePath, PrepareDecompress, PrepareDone, GroupMakePlain
<1>3. UNCHANGED <<files, unique, compress, operand, taken, buf, partial>> /\ compress
  BY <1>1, <1>2 DEF input_vars, job_vars, MergeReady
<1>4. pc' \notin {"open", "read"} => OperandOK'
  BY <1>1, <1>2, <1>3, OperandStays
<1>5. CASE pc' = "cleanup"
  <2>1. GiveUp /\ UNCHANGED content
    BY <1>5 DEF PrepareMakePath, PrepareDecompress, PrepareDone, GroupMakePlain, MergeFailed,
                GroupFailed, FinalFailed
  <2> QED BY <1>2, <2>1, FailedDInv
<1>6. CASE PrepareMakePath /\ pc' # "cleanup"
  <2>1. /\ NamesLeft /\ plain' = FreshPath /\ content' = [content EXCEPT ![plain'] = Plainly(<<>>)]
        /\ pc' = "decompress" /\ pc = "prepare" /\ Len(prepared) < Len(MergeSources)
        /\ UNCHANGED <<runs, next, group, prepared, out, output>>
    BY <1>6 DEF PrepareMakePath, MergeFailed, GroupFailed, FinalFailed, GiveUp
  <2> QED BY <1>1, <1>2, <1>4, <2>1, EmptyDInv
<1>7. CASE GroupMakePlain /\ pc' # "cleanup"
  <2>1. /\ NamesLeft /\ plain' = FreshPath /\ content' = [content EXCEPT ![plain'] = Plainly(<<>>)]
        /\ pc' = "merge" /\ pc = "groupplain"
        /\ UNCHANGED <<runs, next, group, prepared, out, output>>
    BY <1>7 DEF GroupMakePlain, MergeFailed, GroupFailed, FinalFailed, GiveUp
  <2> QED BY <1>1, <1>2, <1>4, <2>1, EmptyDInv
<1>8. CASE PrepareDone
  <2>1. /\ pc' \in {"merge", "groupplain"}
        /\ UNCHANGED <<runs, merge_vars, content, output>>
    BY <1>8 DEF PrepareDone
  <2>2. FilterOK'
    <3>1. UNCHANGED <<compress, runs, group, prepared, out>> /\ content' = content
      BY <1>3, <2>1 DEF merge_vars
    <3> QED BY <1>1, <1>2, <2>1, <3>1, FilterKept
  <2> QED BY <1>1, <1>2, <1>4, <2>1, <2>2, QuietDInv
<1>9. CASE PrepareDecompress /\ pc' # "cleanup"
  <2> DEFINE m == Len(prepared)
             source == MergeSources[m + 1]
             c == Decompressed(content[source])
  <2>1. /\ content' = [content EXCEPT ![plain] = c] /\ prepared' = Append(prepared, plain)
        /\ pc = "decompress" /\ pc' = "prepare"
        /\ UNCHANGED <<runs, next, group, out, output>>
    BY <1>9 DEF PrepareDecompress, MergeFailed, GroupFailed, FinalFailed, GiveUp
  <2>2. plain \in Paths /\ group <= Len(runs) /\ m < Len(MergeSources) /\ m \in Nat
    BY <1>2, <2>1, Lists DEF IInv, LocalsOK, PiecesOK, MergeReady
  <2>3. Len(MergeSources) \in Nat
    BY <1>1, SourcesAtHand
  <2>4. \A i \in 1 .. m + 1 : i \in 1 .. Len(MergeSources)
    BY <2>2, <2>3
  <2>5. \A i \in 1 .. m + 1 : MergeSources[i] \in Paths /\ MergeSources[i] # plain
    BY <1>1, <1>2, <2>2, <2>4, MergeFilesApart
  <2>6. \A i \in 1 .. m : prepared[i] \in Paths /\ prepared[i] # plain
    BY <1>1, <1>2, <2>2, MergeFilesApart
  <2>7. c \in Contents /\ c.recs = content[source].recs
    <3>1. content[source] \in Contents
      BY <1>2, <2>2, <2>5 DEF DataTyped
    <3> QED BY <3>1 DEF Decompressed, Contents
  <2> HIDE DEF c
  <2>8. content'[plain] = c /\ \A p \in Paths : p # plain => content'[p] = content[p]
    BY <1>2, <2>1, <2>2 DEF DataTyped
  <2>9. /\ Len(prepared') = m + 1 /\ prepared'[m + 1] = plain
        /\ \A i \in 1 .. m : prepared'[i] = prepared[i]
    BY <2>1, <2>2, Lists, Appending
  <2>10. MergeSources' = MergeSources
    BY <2>1, SourcesStay
  <2> HIDE DEF m
  <2>11. ASSUME NEW i \in 1 .. m + 1
         PROVE  content'[prepared'[i]].recs = content'[MergeSources[i]].recs
    <3>1. content'[MergeSources[i]] = content[MergeSources[i]]
      BY <2>5, <2>8
    <3>2. CASE i = m + 1
      BY <2>7, <2>8, <2>9, <3>1, <3>2
    <3>3. CASE i \in 1 .. m
      <4>1. content'[prepared'[i]] = content[prepared[i]]
        BY <2>6, <2>8, <2>9, <3>3
      <4>2. content[prepared[i]].recs = content[MergeSources[i]].recs
        BY <1>1, <1>2, <1>3, <3>3 DEF FilterOK, m
      <4> QED BY <3>1, <4>1, <4>2
    <3>4. i = m + 1 \/ i \in 1 .. m
      BY <2>2
    <3> QED BY <3>2, <3>3, <3>4
  <2>12. FilterOK'
    BY <2>1, <2>9, <2>10, <2>11 DEF FilterOK
  <2>13. OperandOK'
    BY <1>4, <2>1
  <2> QED BY <1>1, <1>2, <2>1, <2>2, <2>7, <2>12, <2>13, WriteDInv
<1> QED BY <1>5, <1>6, <1>7, <1>8, <1>9

\* The merger reads what the runs hold.
LEMMA MergedIs ==
  ASSUME IInv, KInv, DInv, pc = "merge", NEW ord \in Orders
  PROVE  /\ Merged(ord) = MergeRuns(SourceRecs, ord) /\ Merged(ord) \in Seq(Record)
         /\ Plainly(Merged(ord)) \in Contents /\ Plainly(Merged(ord)).recs = MergeRuns(SourceRecs, ord)
<1>1. pc \in Merging /\ Alive
  BY DEF Merging, Alive
<1>2. DataTyped /\ PiecesOK /\ FilterOK /\ MergeReady
  BY <1>1 DEF DInv, KInv, Alive
<1>3. /\ DOMAIN MergeSources = 1 .. Len(MergeSources) /\ prepared \in Seq(Paths)
      /\ runs \in Seq(Paths)
  BY <1>1, SourcesAtHand, Lists
<1>4. [i \in DOMAIN MergeInputs |-> content[MergeInputs[i]].recs] = SourceRecs
  <2>1. CASE compress
    <3>1. DOMAIN prepared = 1 .. Len(MergeSources) /\ Len(prepared) = Len(MergeSources)
      BY <1>2, <1>3, <2>1 DEF MergeReady
    <3>2. \A i \in 1 .. Len(MergeSources) :
            content[prepared[i]].recs = content[MergeSources[i]].recs
      BY <1>1, <1>2, <2>1, <3>1 DEF FilterOK
    <3> QED BY <2>1, <3>1, <3>2 DEF SourceRecs, MergeInputs
  <2>2. CASE ~compress
    BY <1>3, <2>2 DEF SourceRecs, MergeInputs
  <2> QED BY <2>1, <2>2
<1>5. Merged(ord) = MergeRuns(SourceRecs, ord)
  BY <1>4 DEF Merged
<1>6. MergeRuns(SourceRecs, ord) \in Seq(Record)
  BY <1>1, <1>2, MergedSources
<1>7. Plainly(Merged(ord)) \in Contents /\ Plainly(Merged(ord)).recs = Merged(ord)
  BY <1>5, <1>6 DEF Plainly, Contents
<1> QED BY <1>5, <1>6, <1>7

\* A group is merged.
LEMMA GroupDoneDInv ==
  ASSUME IInv, KInv, DInv, pc \in {"merge", "groupfilter"}, out # NoPath, GroupDone,
         NEW ord \in Orders, NEW c \in Contents,
         content' = [content EXCEPT ![out] = c], c.recs = MergeRuns(SourceRecs, ord),
         UNCHANGED <<input_vars, exit>>
  PROVE  DInv'
<1>1. pc \in Merging /\ Alive /\ UNCHANGED <<files, unique, compress, operand, taken, buf, partial>>
  BY DEF Merging, Alive, input_vars, job_vars
<1>2. DataTyped /\ OperandOK /\ PiecesOK /\ output = Contract!NotYet /\ FilesApart
  BY <1>1 DEF DInv, KInv, Alive
<1>3. out \in Paths
  BY Lists
<1>4. content' \in [Paths -> Contents] /\ content'[out] = c
  BY <1>2, <1>3 DEF DataTyped
<1>5. \A p \in Paths \ {out, plain} : content'[p] = content[p]
  BY <1>2 DEF DataTyped
<1>6. PiecesOK'
  BY <1>1, <1>2, <1>4, <1>5, PiecesMerged
<1>7. output' = output /\ pc' = "group"
  BY DEF GroupDone
<1>8. DataTyped'
  BY <1>1, <1>2, <1>4, <1>7 DEF DataTyped
<1>9. OperandOK'
  BY <1>1, <1>2, <1>7, OperandStays
<1>10. FilterOK'
  BY <1>7, NoFilter DEF Merging
<1> QED BY <1>2, <1>6, <1>7, <1>8, <1>9, <1>10 DEF DInv

LEMMA MergeDInv ==
  ASSUME IInv, KInv, DInv, GroupMerge \/ GroupFilter \/ Final \/ FinalMerge
  PROVE  DInv'
<1>1. pc \in {"merge", "groupfilter", "final"} /\ Alive
  BY DEF GroupMerge, GroupFilter, Final, FinalMerge, Alive
<1>2. /\ DataTyped /\ OperandOK /\ PiecesOK /\ FilterOK /\ output = Contract!NotYet
      /\ UNCHANGED <<input_vars, exit>> /\ FilesApart /\ MergeReady
  BY <1>1 DEF DInv, KInv, Alive, GroupMerge, GroupFilter, Final, FinalMerge
<1>3. UNCHANGED <<files, unique, compress, operand, taken, buf, partial>>
  BY <1>2 DEF input_vars, job_vars
<1>4. pc' \notin {"open", "read"} => OperandOK'
  BY <1>1, <1>2, <1>3, OperandStays DEF Merging
<1>5. CASE GiveUp /\ UNCHANGED content
  BY <1>2, <1>5, FailedDInv
<1>6. CASE GroupMerge /\ pc' # "cleanup"
  <2>1. PICK ord \in Orders :
          content' = [content EXCEPT ![IF compress THEN plain ELSE out] = Plainly(Merged(ord))]
    BY <1>6 DEF GroupMerge, GroupFailed, GiveUp
  <2>2. pc = "merge" /\ out # NoPath /\ pc \in Merging
    BY <1>6 DEF GroupMerge, Merging
  <2> DEFINE c == Plainly(Merged(ord))
  <2>3. c \in Contents /\ c.recs = MergeRuns(SourceRecs, ord)
    BY <2>2, MergedIs
  <2>4. CASE compress
    <3>1. pc' = "groupfilter" /\ UNCHANGED <<runs, merge_vars, temps, output>>
      BY <1>6, <2>4 DEF GroupMerge, GroupFailed, GiveUp
    <3>2. plain \in Paths
      BY <1>2, <2>2, <2>4, Lists DEF MergeReady, Filtering
    <3>3. content'[plain] = c /\ \A p \in Paths : p # plain => content'[p] = content[p]
      BY <1>2, <2>1, <2>4, <3>2 DEF DataTyped
    <3> HIDE DEF c
    <3>4. UNCHANGED <<runs, next, group, prepared, out, plain>>
      BY <3>1 DEF merge_vars
    <3>5. MergeSources' = MergeSources
      BY <3>4, SourcesStay
    <3>6. group <= Len(runs)
      BY <1>2 DEF PiecesOK
    <3>7. /\ \A i \in 1 .. Len(prepared) : prepared[i] \in Paths /\ prepared[i] # plain
          /\ \A i \in 1 .. Len(MergeSources) : MergeSources[i] \in Paths /\ MergeSources[i] # plain
      BY <1>2, <2>2, <3>6, MergeFilesApart
    <3>8. SourceRecs' = SourceRecs
      <4>1. \A i \in 1 .. Len(MergeSources) : content'[MergeSources[i]] = content[MergeSources[i]]
        BY <3>3, <3>7
      <4> QED BY <3>5, <4>1 DEF SourceRecs
    <3>9. MergeRuns(SourceRecs, ord)' = MergeRuns(SourceRecs, ord)
      BY <1>3, <3>8 DEF MergeRuns
    <3>10. content'[plain'].recs = MergeRuns(SourceRecs, ord)'
      BY <2>3, <3>3, <3>4, <3>9
    <3>11. Len(prepared) = Len(MergeSources)
      BY <1>2, <2>2, <2>4 DEF MergeReady
    <3>12. \A i \in 1 .. Len(prepared) :
             content'[prepared'[i]].recs = content'[MergeSources[i]].recs
      BY <1>2, <2>2, <2>4, <3>3, <3>4, <3>7, <3>11 DEF FilterOK
    <3>13. FilterOK'
      BY <3>1, <3>4, <3>5, <3>10, <3>12 DEF FilterOK
    <3>14. content' = [content EXCEPT ![plain] = c]
      BY <2>1, <2>4 DEF c
    <3> QED BY <1>1, <1>2, <1>4, <2>3, <3>1, <3>2, <3>4, <3>13, <3>14, WriteDInv
  <2>5. CASE ~compress
    <3>1. GroupDone /\ content' = [content EXCEPT ![out] = c]
      BY <1>6, <2>1, <2>5 DEF GroupMerge, GroupFailed, GiveUp
    <3> HIDE DEF c
    <3> QED BY <1>2, <2>2, <2>3, <3>1, GroupDoneDInv
  <2> QED BY <2>4, <2>5
<1>7. CASE GroupFilter /\ pc' # "cleanup"
  <2> DEFINE c == Compressed(content[plain])
  <2>1. pc = "groupfilter" /\ GroupDone /\ content' = [content EXCEPT ![out] = c] /\ out # NoPath
    BY <1>7 DEF GroupFilter, GroupFailed, GiveUp, IInv, LocalsOK
  <2>2. plain \in Paths
    BY <1>2, <2>1, Lists DEF MergeReady, Filtering
  <2>3. c \in Contents /\ c.recs = content[plain].recs
    BY <1>2, <2>2 DEF DataTyped, Contents, Compressed
  <2>4. PICK ord \in Orders : content[plain].recs = MergeRuns(SourceRecs, ord)
    BY <1>2, <2>1 DEF FilterOK
  <2> HIDE DEF c
  <2> QED BY <1>2, <2>1, <2>3, <2>4, GroupDoneDInv
<1>8. CASE FinalMerge /\ ~GiveUp
  <2>1. PICK ord \in Orders : output' = Contract!Delivered(Merged(ord))
    BY <1>8 DEF FinalMerge, FinalFailed
  <2>2. pc = "merge" /\ pc' = "cleanup" /\ content' = content
    BY <1>8 DEF FinalMerge, FinalFailed
  <2>3. Merged(ord) \in Seq(Record)
    BY <2>2, MergedIs
  <2>4. output' \in Outputs /\ ~Alive'
    BY <2>1, <2>2, <2>3, Outcomes DEF Alive
  <2>5. exit' \in {"none", "success", "error", "nomem", "abort"}
    BY <1>2 DEF DataTyped
  <2> QED BY <1>2, <2>2, <2>4, <2>5, DeadDInv
<1>9. CASE Final /\ ~GiveUp
  <2>1. pc = "final" /\ UNCHANGED <<runs, merge_vars, content>>
    BY <1>9 DEF Final
  <2>2. CASE runs = <<>>
    <3>1. pc' = "cleanup" /\ output' = Contract!Delivered(<<>>)
      BY <1>9, <2>2 DEF Final
    <3>2. output' \in Outputs /\ ~Alive'
      <4>1. <<>> \in Seq(Record)
        OBVIOUS
      <4> QED BY <3>1, <4>1, Outcomes DEF Alive
    <3>3. exit' \in {"none", "success", "error", "nomem", "abort"}
      BY <1>2 DEF DataTyped
    <3> QED BY <1>2, <2>1, <3>2, <3>3, DeadDInv
  <2>3. CASE runs # <<>>
    <3>1. pc' \in {"prepare", "merge"} /\ output' = output
      BY <1>9, <2>3 DEF Final
    <3>2. prepared' = <<>>
      BY <2>1 DEF IInv, LocalsOK, OnlyRuns, AtRest, merge_vars
    <3>3. FilterOK'
      BY <3>1, <3>2, NoFilter
    <3> QED BY <1>1, <1>2, <1>4, <2>1, <3>1, <3>3, QuietDInv
  <2> QED BY <2>2, <2>3
<1>10. pc' = "cleanup" => FinalMerge \/ Final \/ (GiveUp /\ UNCHANGED content)
  BY DEF GroupMerge, GroupFilter, GroupFailed, GroupDone
<1>11. FinalMerge /\ GiveUp => UNCHANGED content
  BY DEF FinalMerge
<1>12. Final /\ GiveUp => UNCHANGED content
  BY DEF Final
<1> QED BY <1>5, <1>6, <1>7, <1>8, <1>9, <1>10, <1>11, <1>12

LEMMA EndingDInv ==
  ASSUME DInv, CleanupRun \/ Exit \/ MemoryExhausted
  PROVE  DInv'
<1>1. UNCHANGED <<input_vars, content>> /\ ~Alive'
  BY DEF CleanupRun, Exit, MemoryExhausted, Alive
<1>2. output' \in Outputs
  BY Outcomes DEF CleanupRun, Exit, MemoryExhausted, DInv, DataTyped
<1>3. exit' \in {"none", "success", "error", "nomem", "abort"}
  BY DEF CleanupRun, Exit, MemoryExhausted, DInv, DataTyped
<1> QED BY <1>1, <1>2, <1>3, DeadDInv

LEMMA InitDInv == Init => DInv
<1> SUFFICES ASSUME Init PROVE DInv
  OBVIOUS
<1>1. PICK j \in Jobs : files = j.files /\ unique = j.unique /\ compress = j.compress
  BY DEF Init
<1>2. DataTyped
  <2>1. [files |-> files, unique |-> unique, compress |-> compress] = j
    BY <1>1, ConstantsAssumption
  <2>2. buf \in Seq(Record) /\ operand \in Nat /\ taken \in Nat
    BY DEF Init
  <2>5. partial \in BOOLEAN
    <3>1. partial = FALSE
      BY DEF Init
    <3> QED BY <3>1, Zenon
  <2>3. content \in [Paths -> Contents]
    BY DEF Init, Plainly, Contents
  <2>4. output \in Outputs /\ exit \in {"none", "success", "error", "nomem", "abort"}
    BY Outcomes DEF Init
  <2> QED BY <1>1, <2>1, <2>2, <2>3, <2>4, <2>5 DEF DataTyped
<1>3. files \in Seq(Seq(Keys)) /\ Len(files) \in Nat
  BY <1>2, JobTyped
<1>4. OperandOK
  <2>1. 1 <= Len(files) => Len(files[1]) \in Nat
    BY <1>3
  <2>2. operand = 1 /\ taken = 0 /\ partial = FALSE /\ pc = "open"
    BY DEF Init
  <2> QED BY <1>3, <2>1, <2>2 DEF OperandOK, Merging
<1>5. Consumed = {}
  <2>1. Reached = 0
    BY <1>3, UptoIs DEF Init, Reached
  <2>2. taken \in Nat
    BY DEF Init
  <2> QED BY <1>3, <1>4, <2>1, <2>2, ReachedIs
<1>6. InFlight = <<>> /\ Len(InFlight) = 0
  BY DEF Init, InFlight
<1>7. Pieces = << <<>> >>
  BY <1>6 DEF Init, Pieces, PiecesOf
<1>8. PiecesOK
  <2>1. PiecesHold(<< <<>> >>, {})
    BY ToSetEmpty DEF PiecesHold, RunsInPosOrder
  <2>2. group <= Len(runs) /\ InPosOrder(buf)
    BY DEF Init, InPosOrder
  <2> QED BY <1>5, <1>6, <1>7, <2>1, <2>2 DEF PiecesOK
<1>9. FilterOK /\ output = Contract!NotYet
  BY DEF Init, FilterOK, Merging
<1> QED BY <1>2, <1>4, <1>8, <1>9 DEF DInv

LEMMA NextDInv == IInv /\ KInv /\ DInv /\ [Next]_vars => DInv'
<1> SUFFICES ASSUME IInv, KInv, DInv, [Next]_vars PROVE DInv'
  OBVIOUS
<1>1. CASE UNCHANGED vars
  <2>1. /\ UNCHANGED <<input_vars, runs, merge_vars, content, output, exit, pc>>
        /\ UNCHANGED <<files, unique, compress, operand, taken, buf, partial>>
    BY <1>1 DEF vars, input_vars, job_vars, merge_vars
  <2>2. CASE ~Alive
    <3>1. ~Alive'
      BY <2>1, <2>2 DEF Alive
    <3> QED BY <2>1, <3>1, DeadDInv DEF DInv, DataTyped
  <2>3. CASE Alive
    <3>1. OperandOK'
      BY <2>1, <2>3 DEF DInv, OperandOK
    <3>2. FilterOK'
      BY <2>1, <2>3 DEF DInv, FilterOK, SourceRecs, MergeSources, GroupInputs, GroupSize, MergeRuns,
                        merge_vars
    <3> QED BY <2>1, <2>3, <3>1, <3>2, QuietDInv
  <2> QED BY <2>2, <2>3
<1>2. CASE Next
  BY <1>2, ReadingDInv, FlushDInv, PassDInv, PrepareDInv, MergeDInv, EndingDInv DEF Next
<1> QED BY <1>1, <1>2

-----------------------------------------------------------------------------
(***************************************************************************)
(* Results                                                                 *)
(***************************************************************************)

LEMMA AllInductive == Spec => [](IInv /\ KInv /\ DInv)
<1>1. Init => IInv /\ KInv /\ DInv
  BY InitIInv, InitKInv, InitDInv
<1>2. (IInv /\ KInv /\ DInv) /\ [Next]_vars => (IInv /\ KInv /\ DInv)'
  BY NextIInv, NextKInv, NextDInv
<1> QED BY <1>1, <1>2, PTL DEF Spec

\* Every variable always has its type: whatever a step does, files hold
\* sequences of records and lists hold paths.
THEOREM TypeCorrect == Spec => []TypeOK
<1>1. IInv /\ DInv => TypeOK
  BY DEF IInv, PathsOK, DInv, DataTyped, TypeOK, Contents, Outputs
<1> QED BY <1>1, AllInductive, PTL

LEMMA PiecesSuffice == IInv /\ DInv => RunsHoldInput
<1> SUFFICES ASSUME IInv, DInv, Alive PROVE RunsHoldInput
  BY DEF Alive, RunsHoldInput, NothingLost, InInputOrder
<1>1. DataTyped /\ PiecesOK
  BY DEF DInv
<1>2. /\ Pieces \in Seq(Seq(Record)) /\ Len(Pieces) = Len(InFlight) + 1
      /\ Len(InFlight) \in Nat
      /\ \A i \in 1 .. Len(InFlight) : i \in 1 .. Len(Pieces) /\ Pieces[i] = content[InFlight[i]].recs
      /\ Pieces[Len(InFlight) + 1] = buf
  BY <1>1, PiecesAre DEF PiecesOK
<1>3. InFlight \in Seq(Paths) /\ DOMAIN InFlight = 1 .. Len(InFlight)
  BY <1>1, InFlightIs DEF PiecesOK
<1>4. \A i \in 1 .. Len(InFlight) : FileRecords(InFlight[i]) = ToSet(Pieces[i])
  BY <1>2 DEF FileRecords
<1>5. \A i, j \in 1 .. Len(InFlight) : i < j =>
        \A a \in ToSet(Pieces[i]), b \in ToSet(Pieces[j]) : a.pos < b.pos
  BY <1>1, <1>2, RunsBySet DEF PiecesOK, PiecesHold
<1>6. InInputOrder
  BY <1>3, <1>4, <1>5 DEF InInputOrder
<1>7. ASSUME NEW i \in DOMAIN InFlight, NEW j \in DOMAIN InFlight, i # j
      PROVE  FileRecords(InFlight[i]) \cap FileRecords(InFlight[j]) = {}
  <2> SUFFICES ASSUME NEW r \in ToSet(Pieces[i]), r \in ToSet(Pieces[j]) PROVE FALSE
    BY <1>3, <1>4, <1>7
  <2>1. i \in 1 .. Len(InFlight) /\ j \in 1 .. Len(InFlight)
    BY <1>3
  <2>2. r.pos < r.pos
    <3>1. i < j \/ j < i
      BY <1>2, <1>7, <2>1
    <3> QED BY <1>5, <2>1, <3>1
  <2>3. r \in Record
    <3>1. ToSet(Pieces[i]) \subseteq Consumed /\ Consumed \subseteq Record
      BY <1>1, <1>2, <2>1, ConsumedTyped DEF PiecesOK, PiecesHold
    <3> QED BY <3>1
  <2> QED BY <2>2, <2>3 DEF Record
<1>8. ASSUME NEW r \in Consumed
      PROVE  \E s \in ToSet(buf) \cup UNION {FileRecords(p) : p \in ToSet(InFlight)} : Stands(s, r)
  <2>1. PICK i \in 1 .. Len(Pieces) : \E s \in ToSet(Pieces[i]) : Stands(s, r)
    BY <1>1 DEF PiecesOK, PiecesHold
  <2>2. PICK s \in ToSet(Pieces[i]) : Stands(s, r)
    BY <2>1
  <2>3. CASE i = Len(InFlight) + 1
    BY <1>2, <2>2, <2>3
  <2>4. CASE i \in 1 .. Len(InFlight)
    <3>1. s \in FileRecords(InFlight[i])
      BY <1>4, <2>4
    <3>2. InFlight[i] \in ToSet(InFlight)
      BY <1>3, <2>4, SeqMembers
    <3> QED BY <2>2, <3>1, <3>2
  <2>5. i = Len(InFlight) + 1 \/ i \in 1 .. Len(InFlight)
    BY <1>2
  <2> QED BY <2>3, <2>4, <2>5
<1>9. NothingLost
  BY <1>7, <1>8 DEF NothingLost, Stands
<1> QED BY <1>6, <1>9 DEF RunsHoldInput

\* The files in flight and the buffer hold what was read, all of it and in
\* its order, through every flush and every merge pass, for every input,
\* buffer and batch size, with and without -u and the filter, and whichever
\* comparator -R draws for each of the sorts and merges.
THEOREM RunsHoldInputCorrect == Spec => []RunsHoldInput
  BY PiecesSuffice, AllInductive, PTL

-----------------------------------------------------------------------------
(***************************************************************************)
(* With one comparator: the contract of a sort                             *)
(***************************************************************************)

\* The contract sorts as SortOrder does.
LEMMA ContractSorts ==
  ASSUME NEW s, NEW ord
  PROVE  Contract!Sorted(s, ord) = SortedBy(s, ord, unique)
<1>1. \A ahead : Contract!InTurn(ahead) = InTurn(ahead)
  BY Zenon DEF Contract!InTurn, InTurn, Contract!Cardinality, Cardinality
<1>2. \A r, o : Contract!StableSort(r, o) = StableSort(r, o)
  BY <1>1, ZenonT(60) DEF Contract!StableSort, StableSort
<1>3. \A r, o : Contract!FirstOfEquals(r, o) = FirstOfEquals(r, o)
  BY <1>1, ZenonT(60) DEF Contract!FirstOfEquals, FirstOfEquals
<1> QED BY <1>2, <1>3, Zenon DEF Contract!Sorted, SortedBy

\* What stands for the input, in order, is the input sorted.
LEMMA StandsSorted ==
  ASSUME NEW ord, Orders = {ord}, unique \in BOOLEAN, NEW all \in Seq(Record), InPosOrder(all),
         NEW t \in Seq(Record), InSortOrder(t, ord), ToSet(t) \subseteq ToSet(all),
         \A r \in ToSet(all) : \E s \in ToSet(t) : Stands(s, r),
         unique => NoRepeats(t, ord)
  PROVE  t = Contract!Sorted(all, ord)
<1>1. Ranked(Record, ord) /\ ord \in Orders
  BY OrdersRank
<1>2. \A r \in ToSet(all) : \E s \in ToSet(t) : StandsIn(ord, unique, s, r)
  BY <1>1 DEF Stands, StandsIn
<1>3. t = SortedBy(all, ord, unique)
  BY <1>1, <1>2, StandInsSorted
<1> QED BY <1>3, ContractSorts

\* Once all operands are read the runs hold all of the input.
LEMMA AllInRuns ==
  ASSUME IInv, KInv, DInv, pc = "final" \/ (pc = "merge" /\ out = NoPath)
  PROVE  /\ next = <<>> /\ group = 0 /\ Len(runs) \in Nat
         /\ AllRecords(files) \in Seq(Record) /\ InPosOrder(AllRecords(files))
         /\ \A i \in 1 .. Len(runs) : ToSet(Pieces[i]) \subseteq ToSet(AllRecords(files))
         /\ \A r \in ToSet(AllRecords(files)) :
              /\ r \in Record
              /\ \E i \in 1 .. Len(runs) : \E s \in ToSet(Pieces[i]) : s \in Record /\ Stands(s, r)
<1>1. Alive /\ pc \in {"final"} \cup Merging
  BY DEF Alive, Merging
<1>2. DataTyped /\ OperandOK /\ PiecesOK
  BY <1>1 DEF DInv
<1>3. next = <<>> /\ group = 0
  BY DEF IInv, LocalsOK, OnlyRuns, AtRest, Merging
<1>4. operand = Len(files) + 1 /\ buf = <<>>
  BY <1>1, <1>2 DEF OperandOK
<1>5. files \in Seq(Seq(Keys)) /\ taken \in Nat
  BY <1>2, JobTyped DEF DataTyped
<1>6. Consumed = ToSet(AllRecords(files))
  BY <1>2, <1>4, <1>5, ReachedIs
<1>7. Len(InFlight) = Len(runs) /\ Len(runs) \in Nat
  <2>1. Len(InFlight) = Len(next) + (Len(runs) - group)
    BY <1>2, InFlightIs DEF PiecesOK
  <2> QED BY <1>3, <2>1, Lists
<1>8. Len(Pieces) = Len(runs) + 1 /\ Pieces[Len(runs) + 1] = <<>>
  BY <1>2, <1>4, <1>7, PiecesAre DEF PiecesOK
<1>9. \A i \in 1 .. Len(runs) : i \in 1 .. Len(Pieces)
  BY <1>7, <1>8
<1>10. Consumed \subseteq Record /\ \A i \in 1 .. Len(Pieces) : ToSet(Pieces[i]) \subseteq Consumed
  BY <1>2, ConsumedTyped DEF PiecesOK, PiecesHold
<1>11. ASSUME NEW r \in Consumed
       PROVE  \E i \in 1 .. Len(runs) : \E s \in ToSet(Pieces[i]) : s \in Record /\ Stands(s, r)
  <2>1. PICK i \in 1 .. Len(Pieces) : \E s \in ToSet(Pieces[i]) : Stands(s, r)
    BY <1>2 DEF PiecesOK, PiecesHold
  <2>2. i # Len(runs) + 1
    BY <1>8, <2>1, ToSetEmpty
  <2>3. i \in 1 .. Len(runs)
    BY <1>7, <1>8, <2>2
  <2> QED BY <1>10, <2>1, <2>3
<1> QED BY <1>3, <1>5, <1>6, <1>7, <1>9, <1>10, <1>11, InputIs

\* The final merge writes the input sorted.
LEMMA FinalIsSorted ==
  ASSUME IInv, KInv, DInv, pc = "merge", out = NoPath, NEW ord, Orders = {ord}
  PROVE  Merged(ord) = Contract!Sorted(AllRecords(files), ord)
<1> DEFINE all == AllRecords(files)
           t == MergeRuns(SourceRecs, ord)
           n == Len(runs)
           m == StableMerge(SourceRecs, ord)
<1>1. pc \in Merging /\ Alive /\ ord \in Orders
  BY DEF Merging, Alive
<1>2. DataTyped /\ PiecesOK /\ unique \in BOOLEAN
  BY <1>1, JobTyped DEF DInv
<1>3. /\ next = <<>> /\ group = 0 /\ n \in Nat /\ all \in Seq(Record) /\ InPosOrder(all)
      /\ \A i \in 1 .. n : ToSet(Pieces[i]) \subseteq ToSet(all)
      /\ \A r \in ToSet(all) :
           /\ r \in Record
           /\ \E i \in 1 .. n : \E s \in ToSet(Pieces[i]) : s \in Record /\ Stands(s, r)
  BY AllInRuns
<1>4. Len(MergeSources) = n /\ Len(next) = 0
  BY <1>1, <1>3, SourcesAtHand
<1>5. /\ t \in Seq(Record) /\ Rises(t)
      /\ \A s \in ToSet(t) : \E i \in 1 .. n : s \in ToSet(Pieces[0 + i])
      /\ \A i \in 1 .. n : \A r \in ToSet(Pieces[0 + i]) : \E s \in ToSet(t) : Stands(s, r)
  BY <1>1, <1>2, <1>4, MergedSources
<1>6. Merged(ord) = t
  BY <1>1, MergedIs
<1>7. SourceRecs \in Seq(Seq(Record)) /\ Ranked(Record, ord)
  BY <1>1, <1>2, SourcesAre, OrdersRank DEF PiecesOK
<1>8. m \in Seq(Record)
  BY <1>7, StableMergeIs
<1> HIDE DEF m
<1>9. ASSUME unique PROVE NoRepeats(t, ord)
  <2> DEFINE u == FirstOfEquals(m, ord)
  <2>1. t = u
    BY <1>9 DEF MergeRuns, m
  <2>2. \A i \in 1 .. Len(u) : i + 1 <= Len(u) => ord[u[i].key] # ord[u[i + 1].key]
    BY <1>8, FirstOfEqualsIs
  <2> HIDE DEF u, t
  <2> QED BY <2>1, <2>2 DEF NoRepeats
<1> HIDE DEF t, all, n
<1>10. InSortOrder(t, ord)
  BY <1>1, <1>5 DEF Rises
<1>11. \A i \in 1 .. n : 0 + i = i
  BY <1>3
<1>12. ToSet(t) \subseteq ToSet(all)
  BY <1>3, <1>5, <1>11
<1>13. ASSUME NEW r \in ToSet(all) PROVE \E s \in ToSet(t) : Stands(s, r)
  <2>1. r \in Record
    BY <1>3
  <2>2. PICK i \in 1 .. n : \E s \in ToSet(Pieces[i]) : s \in Record /\ Stands(s, r)
    BY <1>3
  <2>3. PICK b \in ToSet(Pieces[i]) : b \in Record /\ Stands(b, r)
    BY <2>2
  <2>4. PICK s \in ToSet(t) : Stands(s, b)
    BY <1>5, <1>11, <2>3
  <2>5. s \in Record
    BY <1>5, SeqMembers
  <2> QED BY <2>1, <2>3, <2>4, <2>5, StandsFor
<1>14. t = Contract!Sorted(all, ord)
  BY <1>2, <1>3, <1>5, <1>9, <1>10, <1>12, <1>13, StandsSorted
<1> QED BY <1>6, <1>14 DEF all

\* Without runs there was no input.
LEMMA NothingToSort ==
  ASSUME IInv, KInv, DInv, pc = "final", runs = <<>>, NEW ord, Orders = {ord}
  PROVE  <<>> = Contract!Sorted(AllRecords(files), ord)
<1> DEFINE all == AllRecords(files)
           t == <<>>
<1>1. /\ all \in Seq(Record) /\ InPosOrder(all)
      /\ \A r \in ToSet(all) : \E i \in 1 .. Len(runs) : \E s \in ToSet(Pieces[i]) : Stands(s, r)
  BY AllInRuns
<1>2. ToSet(all) = {}
  BY <1>1
<1>3. unique \in BOOLEAN
  BY JobTyped DEF DInv
<1>4. t \in Seq(Record) /\ InSortOrder(t, ord) /\ ToSet(t) = {} /\ Len(t) = 0
  BY ToSetEmpty DEF InSortOrder
<1>5. NoRepeats(t, ord)
  BY <1>4 DEF NoRepeats
<1> HIDE DEF all, t
<1>6. t = Contract!Sorted(all, ord)
  BY <1>1, <1>2, <1>3, <1>4, <1>5, StandsSorted
<1> QED BY <1>6 DEF all, t

LEMMA StepImplements ==
  ASSUME IInv, KInv, DInv, [Next]_vars, NEW ord, Orders = {ord}
  PROVE  [Contract!Next]_(Contract!vars)
<1>1. UNCHANGED <<unique, files>>
  BY DEF Next, vars, OpenOperand, ReadChunk, ReadEof, ReadError, EndOfInput, FlushMakePath,
         FlushMakePlain, FlushWrite, FlushFilter, Reduce, PassDone, GroupMakePath, PrepareMakePath,
         PrepareDecompress, PrepareDone, GroupMakePlain, GroupMerge, GroupFilter, Final, FinalMerge,
         CleanupRun, Exit, MemoryExhausted, input_vars, job_vars
<1>2. UNCHANGED <<unique, AllRecords(files)>>
  BY <1>1 DEF AllRecords
<1>3. Alive => output = Contract!NotYet
  BY DEF DInv
<1>4. CASE output' = output
  BY <1>2, <1>4 DEF Contract!vars
<1>5. ASSUME Alive, output' = Contract!Failed PROVE Contract!Next
  BY <1>2, <1>3, <1>5 DEF Contract!Next, Contract!Fail
<1>6. ASSUME Alive, output' = Contract!Delivered(Contract!Sorted(AllRecords(files), ord))
      PROVE  Contract!Next
  BY <1>2, <1>3, <1>6 DEF Contract!Next, Contract!Deliver
<1>7. CASE FinalMerge
  <2>1. pc = "merge" /\ out = NoPath /\ Alive
    BY <1>7 DEF FinalMerge, Alive
  <2>2. Merged(ord) = Contract!Sorted(AllRecords(files), ord)
    BY <2>1, FinalIsSorted
  <2>3. output' = Contract!Delivered(Merged(ord)) \/ output' = Contract!Failed
    BY <1>7 DEF FinalMerge, FinalFailed, GiveUp
  <2> QED BY <1>5, <1>6, <2>1, <2>2, <2>3
<1>8. CASE Final
  <2>1. pc = "final" /\ Alive
    BY <1>8 DEF Final, Alive
  <2>2. \/ output' = output \/ output' = Contract!Failed
        \/ runs = <<>> /\ output' = Contract!Delivered(<<>>)
    BY <1>8 DEF Final, GiveUp
  <2>3. runs = <<>> => <<>> = Contract!Sorted(AllRecords(files), ord)
    BY <2>1, NothingToSort
  <2> QED BY <1>4, <1>5, <1>6, <2>1, <2>2, <2>3
<1>9. CASE MemoryExhausted
  BY <1>5, <1>9 DEF MemoryExhausted, Alive
<1>10. CASE OpenOperand \/ ReadChunk \/ ReadEof \/ ReadError \/ EndOfInput
  <2>1. Alive /\ (output' = output \/ output' = Contract!Failed)
    BY <1>10 DEF OpenOperand, ReadChunk, ReadEof, ReadError, EndOfInput, GiveUp, Alive
  <2> QED BY <1>4, <1>5, <2>1
<1>11. CASE FlushMakePath \/ FlushMakePlain \/ FlushWrite \/ FlushFilter
  <2>1. Alive /\ (output' = output \/ output' = Contract!Failed)
    BY <1>11 DEF FlushMakePath, FlushMakePlain, FlushWrite, FlushFilter, FlushDone, FlushFailed,
                 GiveUp, Alive
  <2> QED BY <1>4, <1>5, <2>1
<1>12. CASE Reduce \/ PassDone \/ GroupMakePath \/ GroupMerge \/ GroupFilter
  <2>1. Alive /\ (output' = output \/ output' = Contract!Failed)
    BY <1>12 DEF Reduce, PassDone, GroupMakePath, GroupMerge, GroupFilter, GroupDone, GroupFailed,
                 GiveUp, Alive
  <2> QED BY <1>4, <1>5, <2>1
<1>13. CASE PrepareMakePath \/ PrepareDecompress \/ PrepareDone \/ GroupMakePlain
  <2>1. Alive /\ (output' = output \/ output' = Contract!Failed)
    BY <1>13 DEF PrepareMakePath, PrepareDecompress, PrepareDone, GroupMakePlain, MergeFailed,
                 GroupFailed, FinalFailed, GiveUp, Alive
  <2> QED BY <1>4, <1>5, <2>1
<1>14. CASE CleanupRun \/ Exit \/ UNCHANGED vars
  BY <1>4, <1>14 DEF CleanupRun, Exit, vars
<1> QED BY <1>7, <1>8, <1>9, <1>10, <1>11, <1>12, <1>13, <1>14 DEF Next

\* Whenever all sorts and merges use one comparator, which is always but for
\* -R without a random source, the external sort delivers what a sort in
\* memory does or nothing: for every input, however it is cut into runs,
\* however many passes merge them and whatever fails.
THEOREM ImplementsContract ==
  ASSUME NEW ord, Orders = {ord}
  PROVE  Spec => Contract!Spec
<1>1. Init => Contract!Init
  BY DEF Init, Contract!Init
<1>2. (IInv /\ KInv /\ DInv) /\ [Next]_vars => [Contract!Next]_(Contract!vars)
  BY StepImplements
<1> QED BY <1>1, <1>2, AllInductive, PTL DEF Spec, Contract!Spec

=============================================================================
