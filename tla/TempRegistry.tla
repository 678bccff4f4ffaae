---------------------------- MODULE TempRegistry ----------------------------
(***************************************************************************)
(* The table of temporary files in src/external.c and the signal handler   *)
(* that empties it.  make_temp_path, register_temp_path,                   *)
(* unregister_temp_path and remove_temp_path run in the only thread; SIGHUP, *)
(* SIGINT, SIGTERM and SIGQUIT may interrupt them between any two stores,  *)
(* and a signal of another kind may interrupt the handler.                 *)
(*                                                                         *)
(* The rest of the external sort is any sequence of creations and          *)
(* removals of temporary files, which is more than ExternalSort does.      *)
(* The length of the table and its slots are plain variables, so a build   *)
(* may change the order of their stores.  gcc -O2 lowers the length before *)
(* it fills the slot of a path that is removed, gcc -O0 fills it first:    *)
(* both orders are modelled.  Both store a new path before the length.     *)
(*                                                                         *)
(* A table that grows is moved by realloc: from then until the pointer to  *)
(* the new block is stored, the handler reads the block that was freed.    *)
(***************************************************************************)
EXTENDS Naturals, Sequences, FiniteSets

CONSTANTS
  Paths,        \* names for temporary files: bounds how many exist at once
  NoPath,       \* what a slot holds that names no file: it is not written yet,
                \* or belongs to the allocator again
  Signals,      \* the signals the handler is installed for
  FirstCap      \* slots of a new table, 16 in the code

ASSUME ConstantsAssumption ==
  /\ NoPath \notin Paths
  /\ FirstCap \in Nat \ {0}

VARIABLES
  pc,         \* the place in the table's code, see Places
  job,        \* the path being created or removed
  disk,       \* temporary files that exist
  allocated,  \* path strings that are allocated
  table,      \* the block of active_temp_cap paths, where realloc has put it
  stale,      \* while it moves: the freed block active_temp_paths points to
  len,        \* active_temp_len
  frames,     \* the handlers that run, the innermost last
  cleaning,   \* cleaning_temp_paths
  default,    \* signals whose default action is restored
  process     \* "running", "killed", or "crashed" by a wild access

vars == <<pc, job, disk, allocated, table, stale, len,
          frames, cleaning, default, process>>

table_vars == <<pc, job, disk, allocated, table, stale, len>>
handler_vars == <<frames, cleaning, default, process>>

Places == {"idle", "created", "growing", "slot", "swapped", "lowered",
           "unlink", "free"}
HandlerPlaces == {"test", "set", "loop", "reset", "raise"}

Registered == {table[i] : i \in 1 .. len}

\* active_temp_paths[i] as the handler finds it
Slot(i) == IF pc = "growing" THEN stale[i] ELSE table[i]

-----------------------------------------------------------------------------

Init ==
  /\ pc = "idle" /\ job = NoPath
  /\ disk = {} /\ allocated = {}
  /\ table = <<>> /\ stale = <<>> /\ len = 0
  /\ frames = <<>> /\ cleaning = FALSE /\ default = {}
  /\ process = "running"

-----------------------------------------------------------------------------
(***************************************************************************)
(* The interrupted code                                                    *)
(***************************************************************************)

\* The thread runs unless a handler does.
Uninterrupted == process = "running" /\ frames = <<>>

At(place) == Uninterrupted /\ pc = place

\* make_temp_path: the file exists before its path is registered.
Create ==
  /\ At("idle")
  /\ \E p \in Paths \ (disk \cup allocated) :
       /\ job' = p
       /\ disk' = disk \cup {p}
       /\ allocated' = allocated \cup {p}
  /\ pc' = "created"
  /\ UNCHANGED <<table, len, stale, handler_vars>>

\* register_temp_path, a full table: realloc has copied it and freed the old
\* block, and the pointer to the copy is not stored yet.  Some of the old
\* block's slots may have been written over, none if it grew in its place.
StartGrowing ==
  /\ At("created") /\ len = Len(table)
  /\ \E kept \in SUBSET (1 .. len) :
       stale' = [i \in 1 .. len |-> IF i \in kept THEN table[i] ELSE NoPath]
  /\ pc' = "growing"
  /\ UNCHANGED <<job, disk, allocated, table, len, handler_vars>>

Grow ==
  /\ At("growing")
  /\ LET cap == IF Len(table) = 0 THEN FirstCap ELSE 2 * Len(table)
     IN  table' = [i \in 1 .. cap |-> IF i <= Len(table) THEN table[i] ELSE NoPath]
  /\ stale' = <<>>
  /\ pc' = "created"
  /\ UNCHANGED <<job, disk, allocated, len, handler_vars>>

StoreSlot ==
  /\ At("created") /\ len < Len(table)
  /\ table' = [table EXCEPT ![len + 1] = job]
  /\ pc' = "slot"
  /\ UNCHANGED <<job, disk, allocated, len, stale, handler_vars>>

StoreLen ==
  /\ At("slot")
  /\ len' = len + 1
  /\ pc' = "idle"
  /\ UNCHANGED <<job, disk, allocated, table, stale, handler_vars>>

\* Variant: the last path is dropped in place of the one removed.
Swap_not ==
  /\ At("idle")
  /\ \E i \in 1 .. len : job' = table[i]
  /\ pc' = "swapped"
  /\ UNCHANGED <<disk, allocated, table, len, stale, handler_vars>>

\* unregister_temp_path: the last path takes the slot of the one removed.
Swap ==
  /\ At("idle")
  /\ \E i \in 1 .. len :
       /\ job' = table[i]
       /\ table' = [table EXCEPT ![i] = table[len]]
  /\ pc' = "swapped"
  /\ UNCHANGED <<disk, allocated, len, stale, handler_vars>>

\* Variant: the table is freed one path too early.
Shrink_early ==
  /\ At("swapped")
  /\ len' = len - 1
  /\ table' = IF len <= 2 THEN <<>> ELSE table
  /\ pc' = "unlink"
  /\ UNCHANGED <<job, disk, allocated, stale, handler_vars>>

\* The table is freed with its last path.
Shrink ==
  /\ At("swapped")
  /\ len' = len - 1
  /\ table' = IF len = 1 THEN <<>> ELSE table
  /\ pc' = "unlink"
  /\ UNCHANGED <<job, disk, allocated, stale, handler_vars>>

\* The same two stores in the other order: the length first.
Lower ==
  /\ At("idle")
  /\ \E i \in 1 .. len : job' = table[i]
  /\ len' = len - 1
  /\ pc' = "lowered"
  /\ UNCHANGED <<disk, allocated, table, stale, handler_vars>>

SwapLate ==
  /\ At("lowered")
  /\ table' = IF len = 0 THEN <<>>
              ELSE [i \in DOMAIN table |->
                     IF i <= len /\ table[i] = job THEN table[len + 1] ELSE table[i]]
  /\ pc' = "unlink"
  /\ UNCHANGED <<job, disk, allocated, len, stale, handler_vars>>

\* remove_temp_path removes the file once it is unregistered.
Unlink ==
  /\ At("unlink")
  /\ disk' = disk \ {job}
  /\ pc' = "free"
  /\ UNCHANGED <<job, allocated, table, len, stale, handler_vars>>

\* The callers free the path after that.
Free ==
  /\ At("free")
  /\ allocated' = allocated \ {job}
  /\ pc' = "idle"
  /\ UNCHANGED <<job, disk, table, len, stale, handler_vars>>

-----------------------------------------------------------------------------
(***************************************************************************)
(* temp_signal_handler                                                     *)
(***************************************************************************)

InHandler == process = "running" /\ frames # <<>>
Top == frames[Len(frames)]
HandlerAt(place) == InHandler /\ Top.at = place
MoveTo(place) == frames' = [frames EXCEPT ![Len(frames)].at = place]

\* A signal interrupts whatever runs.  While its own handler runs it is
\* blocked.
Deliver ==
  /\ process = "running"
  /\ \E sig \in Signals :
       /\ \A f \in 1 .. Len(frames) : frames[f].sig # sig
       /\ IF sig \in default
          THEN process' = "killed" /\ UNCHANGED frames
          ELSE /\ frames' = Append(frames, [sig |-> sig, at |-> "test", next |-> 1])
               /\ UNCHANGED process
  /\ UNCHANGED <<table_vars, cleaning, default>>

\* Variant: every handler cleans up.
TestCleaning_always ==
  /\ HandlerAt("test")
  /\ MoveTo("set")
  /\ UNCHANGED <<table_vars, cleaning, default, process>>

\* A handler cleans up unless another one has begun to.
TestCleaning ==
  /\ HandlerAt("test")
  /\ MoveTo(IF cleaning THEN "reset" ELSE "set")
  /\ UNCHANGED <<table_vars, cleaning, default, process>>

SetCleaning ==
  /\ HandlerAt("set")
  /\ cleaning' = TRUE
  /\ MoveTo("loop")
  /\ UNCHANGED <<table_vars, default, process>>

\* unlink of something that names no file fails, and the loop goes on.  Of a
\* block that was given back even the access may be fatal.
UnlinkNext ==
  /\ HandlerAt("loop") /\ Top.next <= len
  /\ \/ /\ disk' = disk \ {Slot(Top.next)}
        /\ frames' = [frames EXCEPT ![Len(frames)].next = @ + 1]
        /\ UNCHANGED process
     \/ /\ pc = "growing"
        /\ process' = "crashed"
        /\ UNCHANGED <<disk, frames>>
  /\ UNCHANGED <<pc, job, allocated, table, stale, len, cleaning, default>>

\* Variant: the handler stops before the last path.
LoopDone_early ==
  /\ HandlerAt("loop") /\ Top.next >= len
  /\ MoveTo("reset")
  /\ UNCHANGED <<table_vars, cleaning, default, process>>

LoopDone ==
  /\ HandlerAt("loop") /\ Top.next > len
  /\ MoveTo("reset")
  /\ UNCHANGED <<table_vars, cleaning, default, process>>

\* Variant: the signal is raised again without SIG_DFL.
ResetAction_not ==
  /\ HandlerAt("reset")
  /\ MoveTo("raise")
  /\ UNCHANGED <<table_vars, cleaning, default, process>>

\* signal(signo, SIG_DFL)
ResetAction ==
  /\ HandlerAt("reset")
  /\ default' = default \cup {Top.sig}
  /\ MoveTo("raise")
  /\ UNCHANGED <<table_vars, cleaning, process>>

\* raise(signo): the signal is delivered again as the handler returns.
Raise ==
  /\ HandlerAt("raise")
  /\ IF Top.sig \in default
     THEN process' = "killed" /\ UNCHANGED frames
     ELSE /\ frames' = [frames EXCEPT ![Len(frames)].at = "test", ![Len(frames)].next = 1]
          /\ UNCHANGED process
  /\ UNCHANGED <<table_vars, cleaning, default>>

HandlerStep ==
  TestCleaning \/ SetCleaning \/ UnlinkNext \/ LoopDone \/ ResetAction \/ Raise

Next ==
  \/ Create \/ StartGrowing \/ Grow \/ StoreSlot \/ StoreLen
  \/ Swap \/ Shrink \/ Lower \/ SwapLate \/ Unlink \/ Free
  \/ Deliver \/ HandlerStep

Spec == Init /\ [][Next]_vars

\* A process in its handler is not stopped.
FairSpec == Spec /\ WF_vars(HandlerStep)

-----------------------------------------------------------------------------
(***************************************************************************)
(* Properties                                                              *)
(***************************************************************************)

Frame == [sig : Signals, at : HandlerPlaces, next : Nat]

\* Every variable has the type its comment says.
TypeOK ==
  /\ pc \in Places
  /\ job \in Paths \cup {NoPath}
  /\ disk \subseteq Paths /\ allocated \subseteq Paths
  /\ table \in Seq(Paths \cup {NoPath}) /\ stale \in Seq(Paths \cup {NoPath})
  /\ len \in 0 .. Len(table)
  /\ frames \in Seq(Frame)
  /\ cleaning \in BOOLEAN
  /\ default \subseteq Signals
  /\ process \in {"running", "killed", "crashed"}

\* Wherever the thread is interrupted, but for the moment when the table has
\* moved and active_temp_paths still points to the freed block, the slots the
\* handler goes through hold paths that are allocated: removal takes a path
\* out of the table before its string is freed, and the slots past the end
\* are never read.
LivePathsUnlessGrowing ==
  pc # "growing" => {Slot(i) : i \in 1 .. len} \subseteq allocated

\* The file, if any, that the table does not list for the moment: the one
\* that is created or removed, or the one that changes its slot.
InHand ==
  CASE pc \in {"idle", "free"} -> {}
    [] pc = "lowered"          -> {table[len + 1]}
    [] OTHER                   -> {job}

\* At every instant all temporary files but one are registered, and all of
\* them when no path is being created or removed.
OneFileInHand == disk \subseteq Registered \cup InHand

\* What the handler cannot find: the paths whose slots were written over in
\* the freed block.
Overwritten == {table[i] : i \in {j \in 1 .. len : Slot(j) # table[j]}}

\* A process killed by its first signal leaves at most the one file that was
\* not in the table then, and those that realloc's freed block had lost; so
\* it leaves nothing when it was not busy with the table.
FirstSignalCleans ==
  process = "killed" /\ Len(frames) = 1 => disk \subseteq InHand \cup Overwritten

\* If a clean-up has begun, no handler enters the loop with this step.
BeginsNoOther ==
  cleaning => \A f \in DOMAIN frames' :
                frames'[f].at = "loop" => f \in DOMAIN frames /\ frames[f].at = "loop"

\* Once a handler has begun to clean up no handler begins again, whether it
\* interrupts that one or is interrupted itself: no name is unlinked twice,
\* when it may be another process's file by then.
CleansOnce == [][BeginsNoOther]_vars

\* Once a handler runs the process dies: it resets the action before it
\* raises the signal again.
SignalKills == (frames # <<>>) ~> (process # "running")

\* However signals interrupt each other: one clean-up, and then the end.
SignalEndsProcess == CleansOnce /\ SignalKills

=============================================================================
