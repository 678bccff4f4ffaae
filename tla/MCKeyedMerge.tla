---------------------------- MODULE MCKeyedMerge ----------------------------
(***************************************************************************)
(* Instances of KeyedMerge: texts of which some differ and still compare   *)
(* equal, and a vector that is full after two pieces.                      *)
(***************************************************************************)
EXTENDS KeyedMerge

\* Texts 1 and 2 have the same key, or 2 and 3 if the key is another one.
PlainOf == 1 :> 1 @@ 2 :> 1 @@ 3 :> 2
PreparedOf == 1 :> 2 @@ 2 :> 1 @@ 3 :> 1

Base == [debug |-> FALSE, identity |-> TRUE, keys |-> 0, mode |-> "number",
         one_field |-> TRUE, separated |-> FALSE, blanks |-> FALSE, modified |-> FALSE,
         reverse |-> FALSE, key_reverse |-> FALSE, stable |-> FALSE, unique |-> FALSE]

Key == [Base EXCEPT !.keys = 1]

\* What to compare ...
Comparisons ==
  {Base, [Base EXCEPT !.mode = "version", !.blanks = TRUE],
   [Base EXCEPT !.mode = "byte", !.modified = TRUE],
   [Base EXCEPT !.mode = "byte", !.identity = FALSE], [Base EXCEPT !.debug = TRUE],
   Key, [Key EXCEPT !.mode = "byte"], [Key EXCEPT !.mode = "version", !.identity = FALSE],
   [Key EXCEPT !.mode = "byte", !.modified = TRUE],
   [Key EXCEPT !.separated = TRUE, !.blanks = TRUE],
   [Key EXCEPT !.keys = 2, !.mode = "byte"]}

\* ... and which way: plainly, -s, -u, -r, a key with r, both.
Ways(o) ==
  {o, [o EXCEPT !.stable = TRUE], [o EXCEPT !.unique = TRUE, !.reverse = TRUE],
   [o EXCEPT !.unique = TRUE],
   [o EXCEPT !.reverse = TRUE], [o EXCEPT !.key_reverse = TRUE],
   [o EXCEPT !.reverse = TRUE, !.key_reverse = TRUE]}

SomeOptions ==
  UNION {Ways(o) : o \in {Base, Key}}
    \cup UNION {{o, [o EXCEPT !.unique = TRUE, !.reverse = TRUE]} : o \in Comparisons}

Files(max) == UNION {[1 .. n -> Texts] : n \in 0 .. max}

Job(o, fs, open, t) == [options |-> o, given |-> fs, open_end |-> open, target |-> t]

\* All options with two short operands; some with three, one of which has no
\* last delimiter or is written over; five, for a heap of three levels.
SomeJobs ==
  {Job(o, fs, {}, 0) : o \in SomeOptions, fs \in Files(2) \X Files(1)}
    \cup {Job(o, fs, IF fs[2] # <<>> THEN {2} ELSE {}, 1) :
           o \in {Base, [Key EXCEPT !.unique = TRUE], [Key EXCEPT !.keys = 2]},
           fs \in Files(1) \X Files(2) \X {<<1>>, <<3>>}}
    \cup {Job(o, fs, {}, 0) :
           o \in {Key, [Key EXCEPT !.keys = 2]},
           fs \in [1 .. 5 -> {<<>>, <<1>>, <<3>>}]}

=============================================================================
