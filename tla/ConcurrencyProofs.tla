------------------------- MODULE ConcurrencyProofs -------------------------
(***************************************************************************)
(* Proofs about the two components in which steps interleave: TaskPool,    *)
(* where threads share the counter and the caller's frame, for every       *)
(* number of tasks, threads and workers; and TempRegistry, where a signal  *)
(* handler shares the table with the code it interrupts, for every set of  *)
(* paths and signals and every first size of the table.                    *)
(***************************************************************************)
EXTENDS TaskPool, TempRegistry, TLAPS

(***************************************************************************)
(* TaskPool                                                                *)
(***************************************************************************)

\* A running worker has a task that was handed out and not finished, and no
\* other worker has it.
Claimed ==
  \A v, w \in Workers :
    state[w] = "run" =>
      /\ task[w] \in Tasks /\ task[w] < next
      /\ runs[task[w]] = 0
      /\ state[v] = "run" /\ task[v] = task[w] => v = w

\* A task was not run before it is handed out; once it is, it was run once,
\* or some worker has it in hand.
Progress ==
  \A t \in Tasks :
    /\ t >= next => runs[t] = 0
    /\ t < next => \/ runs[t] = 1
                   \/ \E w \in Workers : state[w] = "run" /\ task[w] = t

\* A worker leaves only when nothing is left to hand out.
ExitLast == \A w \in Workers : state[w] = "exit" => next >= Count

\* What the caller has done tells which workers there are, which of them have
\* left, and what the caller is doing as a worker.
Counted ==
  /\ \A w \in Workers : w > spawned => state[w] = "absent"
  /\ \A w \in Workers : w \in 1 .. joined => state[w] = "exit"
  /\ main = "spawn" => state[Caller] = "absent"
  /\ main = "join" => state[Caller] = "exit"
  /\ main = "returned" =>
       \/ Count = 0 /\ spawned = 0 /\ state[Caller] = "absent"
       \/ state[Caller] = "exit" /\ joined = spawned

PoolIInv == PoolTypeOK /\ Claimed /\ Progress /\ ExitLast /\ Counted

LEMMA PoolInitIInv == PoolInit => PoolIInv
  BY PoolAssumption
     DEF PoolInit, PoolIInv, PoolTypeOK, Claimed, Progress, ExitLast, Counted, Tasks, Workers, Caller, NoTask

LEMMA PoolNextIInv == PoolIInv /\ [PoolNext]_pool_vars => PoolIInv'
<1> SUFFICES ASSUME PoolIInv, [PoolNext]_pool_vars PROVE PoolIInv'
  OBVIOUS
<1> USE PoolAssumption DEF Workers, Tasks, Caller
<1>1. CASE Spawn
  <2>1. spawned + 1 < MaxWorkers
    BY <1>1 DEF Spawn, Want, Capped, PoolIInv, PoolTypeOK
  <2>2. PoolTypeOK'
    BY <1>1, <2>1 DEF Spawn, PoolIInv, PoolTypeOK
  <2>3. \A w \in Workers : state'[w] # state[w] => state[w] = "absent" /\ state'[w] = "claim"
    BY <1>1, <2>1 DEF Spawn, PoolIInv, PoolTypeOK, Counted
  <2>4. Claimed'
    BY <1>1, <2>3 DEF Spawn, PoolIInv, Claimed
  <2>5. Progress' /\ ExitLast'
    BY <1>1, <2>3 DEF Spawn, PoolIInv, PoolTypeOK, Progress, ExitLast
  <2>6. Counted'
    BY <1>1, <2>1 DEF Spawn, PoolIInv, PoolTypeOK, Counted
  <2> QED BY <2>2, <2>4, <2>5, <2>6 DEF PoolIInv
<1>2. CASE SpawnedAll
  <2>1. PoolTypeOK'
    BY <1>2 DEF SpawnedAll, PoolIInv, PoolTypeOK
  <2>2. \A w \in Workers : state'[w] # state[w] => state[w] = "absent" /\ state'[w] = "claim"
    BY <1>2 DEF SpawnedAll, PoolIInv, PoolTypeOK, Counted
  <2>3. Claimed'
    BY <1>2, <2>2 DEF SpawnedAll, PoolIInv, Claimed
  <2>4. Progress' /\ ExitLast'
    BY <1>2, <2>2 DEF SpawnedAll, PoolIInv, PoolTypeOK, Progress, ExitLast
  <2>5. Counted'
    BY <1>2 DEF SpawnedAll, PoolIInv, PoolTypeOK, Counted
  <2> QED BY <2>1, <2>3, <2>4, <2>5 DEF PoolIInv
<1>3. ASSUME NEW u \in Workers, Claim(u) PROVE PoolIInv'
  <2>1. PoolTypeOK'
    <3>1. CASE next >= Count
      BY <1>3, <3>1 DEF Claim, PoolIInv, PoolTypeOK
    <3>2. CASE next < Count
      <4>1. task' = [task EXCEPT ![u] = next] /\ next \in Tasks
        BY <1>3, <3>2 DEF Claim, PoolIInv, PoolTypeOK
      <4>2. task' \in [Workers -> Tasks \cup {NoTask}]
        BY <4>1 DEF PoolIInv, PoolTypeOK
      <4> QED BY <1>3, <3>2, <4>2 DEF Claim, PoolIInv, PoolTypeOK
    <3> QED BY <3>1, <3>2 DEF PoolIInv, PoolTypeOK
  <2>2. Claimed'
    BY <1>3 DEF Claim, PoolIInv, PoolTypeOK, Claimed, Progress
  <2>3. Progress'
    <3> SUFFICES ASSUME NEW t \in Tasks
                 PROVE  /\ t >= next' => runs'[t] = 0
                        /\ t < next' => \/ runs'[t] = 1
                                        \/ \E w \in Workers : state'[w] = "run" /\ task'[w] = t
      BY DEF Progress
    <3>1. CASE t < next
      <4>1. CASE runs[t] = 1
        BY <1>3, <3>1, <4>1 DEF Claim, PoolIInv, PoolTypeOK
      <4>2. CASE runs[t] # 1
        <5>1. PICK w \in Workers : state[w] = "run" /\ task[w] = t
          BY <3>1, <4>2 DEF PoolIInv, Progress
        <5>2. state'[w] = "run" /\ task'[w] = t
          BY <1>3, <5>1 DEF Claim, PoolIInv, PoolTypeOK
        <5> QED BY <1>3, <3>1, <5>2 DEF Claim, PoolIInv, PoolTypeOK
      <4> QED BY <4>1, <4>2
    <3>2. CASE t = next
      BY <1>3, <3>2 DEF Claim, PoolIInv, PoolTypeOK
    <3>3. CASE t > next
      BY <1>3, <3>3 DEF Claim, PoolIInv, PoolTypeOK, Progress
    <3> QED BY <3>1, <3>2, <3>3 DEF PoolIInv, PoolTypeOK
  <2>4. ExitLast'
    BY <1>3 DEF Claim, PoolIInv, PoolTypeOK, ExitLast
  <2>5. Counted'
    BY <1>3 DEF Claim, PoolIInv, PoolTypeOK, Counted
  <2> QED BY <2>1, <2>2, <2>3, <2>4, <2>5 DEF PoolIInv
<1>4. ASSUME NEW u \in Workers, Finish(u) PROVE PoolIInv'
  <2>1. task[u] \in Tasks /\ task[u] < next /\ runs[task[u]] = 0
    BY <1>4 DEF Finish, PoolIInv, Claimed
  <2>2. PoolTypeOK'
    BY <1>4, <2>1 DEF Finish, PoolIInv, PoolTypeOK
  <2>3. Claimed'
    BY <1>4, <2>1 DEF Finish, PoolIInv, PoolTypeOK, Claimed
  <2>4. Progress'
    <3> SUFFICES ASSUME NEW t \in Tasks
                 PROVE  /\ t >= next' => runs'[t] = 0
                        /\ t < next' => \/ runs'[t] = 1
                                        \/ \E w \in Workers : state'[w] = "run" /\ task'[w] = t
      BY DEF Progress
    <3>1. CASE t = task[u]
      BY <1>4, <2>1, <3>1 DEF Finish, PoolIInv, PoolTypeOK
    <3>2. CASE t # task[u]
      <4>1. runs'[t] = runs[t] /\ next' = next
        BY <1>4, <3>2 DEF Finish, PoolIInv, PoolTypeOK
      <4>2. ASSUME NEW w \in Workers, state[w] = "run", task[w] = t
            PROVE  state'[w] = "run" /\ task'[w] = t
        BY <1>4, <3>2, <4>2 DEF Finish, PoolIInv, PoolTypeOK
      <4> QED BY <4>1, <4>2 DEF PoolIInv, Progress
    <3> QED BY <3>1, <3>2
  <2>5. ExitLast'
    BY <1>4 DEF Finish, PoolIInv, PoolTypeOK, ExitLast
  <2>6. Counted'
    BY <1>4 DEF Finish, PoolIInv, PoolTypeOK, Counted
  <2> QED BY <2>2, <2>3, <2>4, <2>5, <2>6 DEF PoolIInv
<1>5. CASE WorkDone
  BY <1>5 DEF WorkDone, PoolIInv, PoolTypeOK, Claimed, Progress, ExitLast, Counted
<1>6. CASE Join
  BY <1>6 DEF Join, PoolIInv, PoolTypeOK, Claimed, Progress, ExitLast, Counted
<1>7. CASE Return
  BY <1>7 DEF Return, PoolIInv, PoolTypeOK, Claimed, Progress, ExitLast, Counted
<1>8. CASE UNCHANGED pool_vars
  BY <1>8 DEF pool_vars, PoolIInv, PoolTypeOK, Claimed, Progress, ExitLast, Counted
<1> QED
  BY <1>1, <1>2, <1>3, <1>4, <1>5, <1>6, <1>7, <1>8 DEF PoolNext, Main, Worker

\* Once the caller has joined all it started, every worker is absent or has
\* exited.
Joined == main = "returned" \/ (main = "join" /\ joined = spawned)

LEMMA NoneLeft == PoolIInv /\ Joined => \A w \in Workers : state[w] \in {"absent", "exit"}
  BY PoolAssumption DEF Joined, PoolIInv, PoolTypeOK, Counted, Workers, Caller

\* ... and so no task can still be in hand.
LEMMA NoTaskLeft == PoolIInv /\ Joined => \A t \in Tasks : runs[t] = 1
<1> SUFFICES ASSUME PoolIInv, Joined, NEW t \in Tasks PROVE runs[t] = 1
  OBVIOUS
<1>1. \A w \in Workers : state[w] # "run"
  BY NoneLeft
<1>2. state[Caller] = "exit"
  BY PoolAssumption DEF PoolIInv, Counted, Tasks, Joined
<1>3. Caller \in Workers
  BY PoolAssumption DEF Caller, Workers
<1>4. t < next
  BY PoolAssumption, <1>2, <1>3 DEF PoolIInv, PoolTypeOK, ExitLast, Tasks
<1> QED BY <1>1, <1>4 DEF PoolIInv, Progress

-----------------------------------------------------------------------------

\* The variables of rank_run_tasks keep their types.
THEOREM PoolTypeCorrect == PoolSpec => []PoolTypeOK
  BY PoolInitIInv, PoolNextIInv, PTL DEF PoolSpec, PoolIInv

\* PoolIInv is an invariant, for all numbers of tasks, threads and workers.
THEOREM PoolInductive == PoolSpec => []PoolIInv
  BY PoolInitIInv, PoolNextIInv, PTL DEF PoolSpec

\* No task is run by two workers at the same time, nor run again; when
\* rank_run_tasks returns every task was run, and no worker can touch its frame.
THEOREM TasksRunOnceCorrect == PoolSpec => []TasksRunOnce
<1>1. PoolIInv => RunAlone
  BY DEF PoolIInv, Claimed, RunAlone
<1>2. PoolIInv => AllRunOnce
  BY NoTaskLeft DEF AllRunOnce, Joined
<1>3. PoolIInv => FrameUnused
  BY NoneLeft DEF FrameUnused, Joined
<1>4. PoolIInv => TasksRunOnce
  BY <1>1, <1>2, <1>3 DEF TasksRunOnce
<1> QED BY <1>4, PoolInductive, PTL

-----------------------------------------------------------------------------

LEMMA LoopInit == PoolInit => Loop!Init
  BY PoolAssumption DEF PoolInit, Loop!Init, Tasks

\* A task that finishes is carried out; the other steps of the workers do
\* not show, nor do those of the caller but the last.
LEMMA LoopStep == PoolIInv /\ PoolIInv' /\ [PoolNext]_pool_vars => [Loop!Next]_Loop!vars
<1> SUFFICES ASSUME PoolIInv, PoolIInv', [PoolNext]_pool_vars PROVE [Loop!Next]_Loop!vars
  OBVIOUS
<1>1. ASSUME NEW u \in Workers, Finish(u) PROVE Loop!Next
  <2>1. task[u] \in Tasks /\ runs[task[u]] = 0
    BY <1>1 DEF Finish, PoolIInv, Claimed
  <2>2. main # "returned"
    BY <1>1, NoneLeft DEF Joined, Finish
  <2>3. runs' = [runs EXCEPT ![task[u]] = 1] /\ main' = main
    BY <1>1, <2>1 DEF Finish, PoolIInv, PoolTypeOK
  <2>4. {t \in Tasks : runs'[t] > 0} = {t \in Tasks : runs[t] > 0} \cup {task[u]}
    BY <2>1, <2>3 DEF PoolIInv, PoolTypeOK
  <2>5. PICK t \in Tasks : t = task[u]
    BY <2>1
  <2>6. Loop!CarryOut(t)
    BY <2>1, <2>2, <2>3, <2>4, <2>5 DEF Loop!CarryOut
  <2> QED BY <2>6 DEF Loop!Next
<1>2. CASE Return
  <2>1. main' = "returned" /\ main # "returned" /\ runs' = runs
    BY <1>2 DEF Return
  <2>2. \A t \in Tasks : runs[t] = 1
    BY NoTaskLeft, <1>2 DEF Return, Joined
  <2> QED BY <2>1, <2>2 DEF Loop!Next, Loop!Return
<1>3. ASSUME Spawn \/ SpawnedAll \/ WorkDone \/ Join
      PROVE  UNCHANGED Loop!vars
  BY <1>3 DEF Spawn, SpawnedAll, WorkDone, Join, Loop!vars
<1>4. ASSUME NEW u \in Workers, Claim(u) PROVE UNCHANGED Loop!vars
  BY <1>4 DEF Claim, Loop!vars
<1>5. CASE UNCHANGED pool_vars
  BY <1>5 DEF pool_vars, Loop!vars
<1> QED BY <1>1, <1>2, <1>3, <1>4, <1>5 DEF PoolNext, Main, Worker

\* rank_run_tasks is a parallel loop over its tasks.
THEOREM ImplementsParallelForCorrect == PoolSpec => ImplementsParallelFor
<1>1. PoolInit => Loop!Init
  BY LoopInit
<1>2. PoolIInv /\ PoolIInv' /\ [PoolNext]_pool_vars => [Loop!Next]_Loop!vars
  BY LoopStep
<1> QED BY <1>1, <1>2, PoolInductive, PTL DEF PoolSpec, Loop!Spec, ImplementsParallelFor

-----------------------------------------------------------------------------
(***************************************************************************)
(* TempRegistry                                                            *)
(***************************************************************************)

\* Paths are in the table once, and what the table holds is allocated, at
\* every store of the code that maintains it.
TableOK ==
  /\ \A i \in 1 .. len : table[i] \in allocated
  /\ \A i, j \in 1 .. len - 1 : table[i] = table[j] => i = j
  /\ pc # "swapped" => \A i \in 1 .. len - 1 : table[i] # table[len]
  /\ disk \subseteq Registered \cup InHand

\* Where the path in hand is.
JobOK ==
  /\ pc \in {"created", "growing", "slot", "unlink", "free"} =>
       job \in allocated /\ \A i \in 1 .. len : table[i] # job
  /\ pc = "slot" => len < Len(table) /\ table[len + 1] = job
  /\ pc = "growing" =>
       /\ len = Len(table) /\ Len(stale) = len
       /\ \A i \in 1 .. len : stale[i] \in {table[i], NoPath}
  /\ pc = "swapped" =>
       /\ len > 0 /\ job \in allocated
       /\ \A i \in 1 .. len - 1 : table[i] # job
       /\ table[len] = job \/ \E i \in 1 .. len - 1 : table[i] = table[len]
  /\ pc = "lowered" =>
       /\ len < Len(table) /\ job \in allocated /\ table[len + 1] \in allocated
       /\ \A i \in 1 .. len : table[i] # table[len + 1]
       /\ table[len + 1] = job \/ \E i \in 1 .. len : table[i] = job

IInv == TypeOK /\ TableOK /\ JobOK

LEMMA InitIInv == Init => IInv
<1> SUFFICES ASSUME Init PROVE IInv
  OBVIOUS
<1>1. table = <<>> /\ Len(table) = 0 /\ len = 0
  BY DEF Init
<1>2. TypeOK
  <2>1. table \in Seq(Paths \cup {NoPath}) /\ stale \in Seq(Paths \cup {NoPath}) /\ frames \in Seq(Frame) /\ len \in 0 .. Len(table)
    BY <1>1 DEF Init
  <2> QED BY <2>1 DEF Init, TypeOK, Places
<1>3. TableOK /\ JobOK
  BY <1>1 DEF Init, TableOK, JobOK
<1> QED BY <1>2, <1>3 DEF IInv

\* The handler removes files and leaves the table alone.
LEMMA HandlerIInv ==
  ASSUME IInv, Deliver \/ HandlerStep
  PROVE  TableOK' /\ JobOK' /\ UNCHANGED <<pc, job, allocated, table, stale, len>> /\ disk' \subseteq disk
<1>1. UNCHANGED <<pc, job, allocated, table, stale, len>> /\ disk' \subseteq disk
  BY DEF Deliver, HandlerStep, TestCleaning, SetCleaning, UnlinkNext, LoopDone, ResetAction,
         Raise, table_vars
<1> QED BY <1>1 DEF IInv, TableOK, JobOK, Registered, InHand

LEMMA FramesTyped ==
  ASSUME TypeOK, Deliver \/ HandlerStep
  PROVE  /\ frames' \in Seq(Frame)
         /\ cleaning' \in BOOLEAN /\ default' \subseteq Signals
         /\ process' \in {"running", "killed", "crashed"}
<1> USE DEF TypeOK
<1>1. ASSUME NEW f \in Seq(Frame), f # <<>>, NEW g \in Frame
      PROVE  [f EXCEPT ![Len(f)] = g] \in Seq(Frame)
  BY <1>1
<1>2. InHandler => Len(frames) \in DOMAIN frames /\ Top \in Frame
  BY DEF InHandler, Top
<1>3. ASSUME NEW place \in HandlerPlaces, InHandler, MoveTo(place)
      PROVE  frames' \in Seq(Frame)
  <2>1. [Top EXCEPT !.at = place] \in Frame
    BY <1>2, <1>3 DEF Frame
  <2>2. frames' = [frames EXCEPT ![Len(frames)] = [Top EXCEPT !.at = place]]
    BY <1>2, <1>3 DEF MoveTo, Top
  <2> QED BY <1>1, <1>3, <2>1, <2>2 DEF InHandler
<1>4. CASE Deliver
  <2>1. ASSUME NEW sig \in Signals
        PROVE  Append(frames, [sig |-> sig, at |-> "test", next |-> 1]) \in Seq(Frame)
    <3>1. [sig |-> sig, at |-> "test", next |-> 1] \in Frame
      BY DEF Frame, HandlerPlaces
    <3> QED BY <3>1
  <2> QED BY <1>4, <2>1 DEF Deliver
<1>5. CASE TestCleaning
  <2>1. PICK place \in HandlerPlaces : MoveTo(place)
    BY <1>5 DEF TestCleaning, HandlerPlaces
  <2> QED BY <1>3, <1>5, <2>1 DEF TestCleaning, HandlerAt
<1>6. CASE SetCleaning
  BY <1>3, <1>6 DEF SetCleaning, HandlerAt, HandlerPlaces
<1>7. CASE UnlinkNext
  <2>1. [Top EXCEPT !.next = @ + 1] \in Frame
    <3>1. Top \in Frame
      BY <1>2, <1>7 DEF UnlinkNext, HandlerAt
    <3> QED BY <3>1 DEF Frame
  <2>2. frames' = frames \/ frames' = [frames EXCEPT ![Len(frames)] = [Top EXCEPT !.next = @ + 1]]
    BY <1>2, <1>7 DEF UnlinkNext, Top
  <2> QED BY <1>1, <1>7, <2>1, <2>2 DEF UnlinkNext, HandlerAt, InHandler
<1>8. CASE LoopDone
  BY <1>3, <1>8 DEF LoopDone, HandlerAt, HandlerPlaces
<1>9. CASE ResetAction
  <2>1. Top.sig \in Signals
    BY <1>2, <1>9 DEF ResetAction, HandlerAt, Frame
  <2> QED BY <1>3, <1>9, <2>1 DEF ResetAction, HandlerAt, HandlerPlaces
<1>10. CASE Raise
  <2>1. [Top EXCEPT !.at = "test", !.next = 1] \in Frame
    BY <1>2, <1>10 DEF Frame, Raise, HandlerAt, HandlerPlaces
  <2>2. frames' = frames \/ frames' = [frames EXCEPT ![Len(frames)] = [Top EXCEPT !.at = "test", !.next = 1]]
    BY <1>2, <1>10 DEF Raise, Top
  <2> QED BY <1>1, <1>10, <2>1, <2>2 DEF Raise, HandlerAt, InHandler
<1> QED BY <1>4, <1>5, <1>6, <1>7, <1>8, <1>9, <1>10 DEF HandlerStep

LEMMA NextIInv == IInv /\ [Next]_vars => IInv'
<1> SUFFICES ASSUME IInv, [Next]_vars PROVE IInv'
  OBVIOUS
<1> USE ConstantsAssumption DEF Uninterrupted, At, handler_vars, Places, InHand
<1>1. CASE Create
  BY <1>1 DEF Create, IInv, TypeOK, TableOK, JobOK, Registered
<1>2. CASE StartGrowing
  <2>1. PICK kept \in SUBSET (1 .. len) :
          stale' = [i \in 1 .. len |-> IF i \in kept THEN table[i] ELSE NoPath]
    BY <1>2 DEF StartGrowing
  <2>2. /\ stale' \in Seq(Paths \cup {NoPath}) /\ Len(stale') = len
        /\ \A i \in 1 .. len : stale'[i] \in {table[i], NoPath}
    BY <1>2, <2>1 DEF StartGrowing, IInv, TypeOK
  <2>3. TypeOK'
    BY <1>2, <2>2 DEF StartGrowing, IInv, TypeOK
  <2>4. TableOK' /\ JobOK'
    BY <1>2, <2>2 DEF StartGrowing, IInv, TypeOK, TableOK, JobOK, Registered
  <2> QED BY <2>3, <2>4 DEF IInv
<1>3. CASE Grow
  <2>1. /\ table' \in Seq(Paths \cup {NoPath}) /\ Len(table) < Len(table')
        /\ \A i \in 1 .. Len(table) : table'[i] = table[i]
    BY <1>3 DEF Grow, IInv, TypeOK
  <2>2. len = Len(table)
    BY <1>3 DEF Grow, IInv, JobOK
  <2>3. \A i \in 1 .. len : table'[i] = table[i]
    BY <2>1, <2>2
  <2>4. TypeOK'
    <3>1. stale' \in Seq(Paths \cup {NoPath})
      BY <1>3 DEF Grow
    <3> QED BY <1>3, <2>1, <2>2, <3>1 DEF Grow, IInv, TypeOK
  <2>5. TableOK' /\ JobOK'
    BY <1>3, <2>3 DEF Grow, IInv, TypeOK, TableOK, JobOK, Registered
  <2> QED BY <2>4, <2>5 DEF IInv
<1>4. CASE StoreSlot
  <2>1. /\ table' \in Seq(Paths \cup {NoPath}) /\ Len(table') = Len(table)
        /\ table'[len + 1] = job /\ \A i \in 1 .. len : table'[i] = table[i]
    BY <1>4 DEF StoreSlot, IInv, TypeOK
  <2>2. TypeOK'
    BY <1>4, <2>1 DEF StoreSlot, IInv, TypeOK
  <2>3. TableOK' /\ JobOK'
    BY <1>4, <2>1 DEF StoreSlot, IInv, TypeOK, TableOK, JobOK, Registered
  <2> QED BY <2>2, <2>3 DEF IInv
<1>5. CASE StoreLen
  <2>1. TypeOK'
    BY <1>5 DEF StoreLen, IInv, TypeOK, JobOK
  <2>2. Registered' = Registered \cup {job}
    BY <1>5 DEF StoreLen, IInv, TypeOK, JobOK, Registered
  <2>3. /\ len' = len + 1 /\ len \in Nat /\ table[len + 1] = job /\ job \in allocated
        /\ \A i \in 1 .. len : table[i] # job
    BY <1>5 DEF StoreLen, IInv, TypeOK, JobOK
  <2>4. TableOK'
    <3>1. /\ pc = "slot" /\ pc' = "idle"
          /\ table' = table /\ disk' = disk /\ allocated' = allocated
      BY <1>5 DEF StoreLen
    <3>2. \A i, j \in 1 .. len : table[i] = table[j] => i = j
      BY <2>3, <3>1 DEF IInv, TableOK
    <3>3. \A i, j \in 1 .. len' : table'[i] = table'[j] => i = j
      BY <2>3, <3>1, <3>2
    <3>4. \A i \in 1 .. len' : table'[i] \in allocated'
      BY <2>3, <3>1 DEF IInv, TableOK
    <3>5. disk' \subseteq Registered' \cup InHand'
      BY <2>2, <3>1 DEF IInv, TableOK
    <3> QED BY <2>3, <3>3, <3>4, <3>5 DEF TableOK
  <2>5. JobOK'
    BY <1>5 DEF StoreLen, JobOK
  <2> QED BY <2>1, <2>4, <2>5 DEF IInv
<1>6. CASE Swap
  <2>1. PICK k \in 1 .. len : job' = table[k] /\ table' = [table EXCEPT ![k] = table[len]]
    BY <1>6 DEF Swap
  <2>2. /\ table' \in Seq(Paths \cup {NoPath}) /\ Len(table') = Len(table)
        /\ \A i \in 1 .. len : table'[i] = IF i = k THEN table[len] ELSE table[i]
    BY <2>1 DEF IInv, TypeOK
  <2>3. job' \in allocated /\ job' \in Paths
    BY <2>1 DEF IInv, TypeOK, TableOK
  <2>4. TypeOK'
    BY <1>6, <2>2, <2>3 DEF Swap, IInv, TypeOK
  <2>5. Registered \subseteq Registered' \cup {job'}
    BY <1>6, <2>1, <2>2 DEF Swap, Registered
  <2>6. TableOK'
    BY <1>6, <2>1, <2>2, <2>5 DEF Swap, IInv, TypeOK, TableOK
  <2>7. JobOK'
    BY <1>6, <2>1, <2>2, <2>3 DEF Swap, IInv, TypeOK, TableOK, JobOK
  <2> QED BY <2>4, <2>6, <2>7 DEF IInv
<1>7. CASE Shrink
  <2>1. len > 0 /\ len' = len - 1 /\ \A i \in 1 .. len' : table'[i] = table[i]
    BY <1>7 DEF Shrink, IInv, TypeOK, JobOK
  <2>2. Registered \subseteq Registered' \cup {job}
    BY <1>7, <2>1 DEF Shrink, IInv, TypeOK, JobOK, Registered
  <2>3. TypeOK'
    BY <1>7, <2>1 DEF Shrink, IInv, TypeOK
  <2>4. TableOK'
    <3>1. pc = "swapped" /\ pc' = "unlink" /\ job' = job /\ disk' = disk /\ allocated' = allocated
      BY <1>7 DEF Shrink
    <3>2. disk' \subseteq Registered' \cup InHand'
      BY <2>2, <3>1 DEF IInv, TableOK, InHand
    <3>3. \A i, j \in 1 .. len' : table'[i] = table'[j] => i = j
      BY <2>1 DEF IInv, TypeOK, TableOK
    <3>4. \A i \in 1 .. len' : table'[i] \in allocated'
      BY <2>1, <3>1 DEF IInv, TypeOK, TableOK
    <3>5. len' \in Nat
      BY <2>3 DEF TypeOK
    <3> QED BY <3>2, <3>3, <3>4, <3>5 DEF TableOK
  <2>5. JobOK'
    <3>1. pc = "swapped" /\ pc' = "unlink" /\ job' = job /\ allocated' = allocated
      BY <1>7 DEF Shrink
    <3> QED BY <2>1, <3>1 DEF IInv, TypeOK, JobOK
  <2> QED BY <2>3, <2>4, <2>5 DEF IInv
<1>12. CASE Lower
  <2>1. PICK k \in 1 .. len : job' = table[k]
    BY <1>12 DEF Lower
  <2>2. len' = len - 1 /\ len \in Nat \ {0} /\ len <= Len(table) /\ table' = table
    BY <1>12, <2>1 DEF Lower, IInv, TypeOK
  <2>3. job' \in allocated /\ job' \in Paths /\ table[len] \in allocated
    BY <2>1, <2>2 DEF IInv, TypeOK, TableOK
  <2>4. TypeOK'
    BY <1>12, <2>2, <2>3 DEF Lower, IInv, TypeOK
  <2>5. Registered \subseteq Registered' \cup {table'[len' + 1]}
    BY <2>2 DEF Registered
  <2>6. TableOK'
    <3>1. pc = "idle" /\ pc' = "lowered" /\ disk' = disk /\ allocated' = allocated
      BY <1>12 DEF Lower
    <3>2. disk' \subseteq Registered' \cup InHand'
      BY <2>5, <3>1 DEF IInv, TableOK
    <3>3. \A i, j \in 1 .. len' : table'[i] = table'[j] => i = j
      BY <2>2 DEF IInv, TableOK
    <3>4. \A i \in 1 .. len' : table'[i] \in allocated'
      BY <2>2, <3>1 DEF IInv, TableOK
    <3>5. len' \in Nat
      BY <2>2
    <3> QED BY <3>2, <3>3, <3>4, <3>5 DEF TableOK
  <2>7. JobOK'
    BY <1>12, <2>1, <2>2, <2>3 DEF Lower, IInv, TableOK, JobOK
  <2> QED BY <2>4, <2>6, <2>7 DEF IInv
<1>13. CASE SwapLate
  <2>1. len \in Nat /\ len < Len(table) /\ len' = len /\ pc = "lowered" /\ pc' = "unlink"
    BY <1>13 DEF SwapLate, IInv, TypeOK, JobOK
  <2>2. table[len + 1] \in Paths \cup {NoPath}
    BY <2>1 DEF IInv, TypeOK
  <2>3. \/ len = 0 /\ table' = <<>>
        \/ /\ len > 0 /\ table' \in Seq(Paths \cup {NoPath}) /\ Len(table') = Len(table)
           /\ \A i \in 1 .. len :
                table'[i] = IF table[i] = job THEN table[len + 1] ELSE table[i]
    BY <1>13, <2>1, <2>2 DEF SwapLate, IInv, TypeOK
  <2>4. TypeOK'
    BY <1>13, <2>1, <2>3 DEF SwapLate, IInv, TypeOK
  <2>5. Registered \cup {table[len + 1]} \subseteq Registered' \cup {job}
    BY <2>1, <2>3 DEF Registered, IInv, JobOK
  <2>6. TableOK'
    <3>1. disk' = disk /\ allocated' = allocated /\ job' = job
      BY <1>13 DEF SwapLate
    <3>2. /\ table[len + 1] \in allocated
          /\ \A i \in 1 .. len : table[i] # table[len + 1]
      BY <2>1 DEF IInv, JobOK
    <3>3. disk' \subseteq Registered' \cup InHand'
      BY <2>1, <2>5, <3>1 DEF IInv, TableOK
    <3>4. \A i \in 1 .. len' : table'[i] \in allocated'
      BY <2>1, <2>3, <3>1, <3>2 DEF IInv, TableOK
    <3>5. \A i, j \in 1 .. len : table[i] = table[j] => i = j
      BY <2>1 DEF IInv, TableOK
    <3>6. \A i, j \in 1 .. len' : table'[i] = table'[j] => i = j
      BY <2>1, <2>3, <3>2, <3>5
    <3> QED BY <2>1, <3>3, <3>4, <3>6 DEF TableOK
  <2>7. JobOK'
    BY <1>13, <2>1, <2>3 DEF SwapLate, IInv, TypeOK, TableOK, JobOK
  <2> QED BY <2>4, <2>6, <2>7 DEF IInv
<1>8. CASE Unlink
  BY <1>8 DEF Unlink, IInv, TypeOK, TableOK, JobOK, Registered
<1>9. CASE Free
  BY <1>9 DEF Free, IInv, TypeOK, TableOK, JobOK, Registered
<1>10. CASE Deliver \/ HandlerStep
  BY <1>10, HandlerIInv, FramesTyped DEF IInv, TypeOK
<1>11. CASE UNCHANGED vars
  BY <1>11 DEF vars, IInv, TypeOK, TableOK, JobOK, Registered
<1> QED
  BY <1>1, <1>2, <1>3, <1>4, <1>5, <1>6, <1>7, <1>8, <1>9, <1>10, <1>11,
     <1>12, <1>13 DEF Next

-----------------------------------------------------------------------------
(***************************************************************************)
(* The first signal                                                        *)
(***************************************************************************)

\* The actions that are restored are those of signals being handled, and the
\* first handler, while it is the only one, has removed what it passed.
FirstHandlerOK ==
  /\ \A sig \in default : \E f \in 1 .. Len(frames) : frames[f].sig = sig
  /\ frames = <<>> => ~cleaning /\ process # "killed"
  /\ Len(frames) = 1 =>
       LET h == frames[1]
       IN  /\ h.at \in {"test", "set"} => ~cleaning /\ h.next = 1
           /\ h.at = "loop" => \A i \in 1 .. len : i < h.next => Slot(i) \notin disk
           /\ h.at \in {"reset", "raise"} \/ process = "killed" =>
                \A i \in 1 .. len : Slot(i) \notin disk
           /\ h.at = "raise" => h.sig \in default

SInv == IInv /\ FirstHandlerOK

LEMMA InitSInv == Init => SInv
  BY InitIInv DEF Init, SInv, FirstHandlerOK

\* While no handler runs the thread changes no frame, and nothing that
\* FirstHandlerOK speaks of when there is none.
LEMMA ThreadFirst ==
  ASSUME FirstHandlerOK, Uninterrupted, UNCHANGED handler_vars
  PROVE  FirstHandlerOK'
  BY DEF FirstHandlerOK, Uninterrupted, handler_vars

LEMMA NextSInv == SInv /\ [Next]_vars => SInv'
<1> SUFFICES ASSUME SInv, IInv', [Next]_vars PROVE FirstHandlerOK'
  BY NextIInv DEF SInv
<1> USE DEF SInv, Slot
<1>1. CASE Create \/ StartGrowing \/ Grow \/ StoreSlot \/ StoreLen \/ Swap \/ Shrink
         \/ Lower \/ SwapLate \/ Unlink \/ Free
  <2>1. Uninterrupted /\ UNCHANGED handler_vars
    BY <1>1 DEF Create, StartGrowing, Grow, StoreSlot, StoreLen, Swap, Shrink,
           Lower, SwapLate, Unlink, Free, At
  <2> QED BY <2>1, ThreadFirst
<1>2. CASE Deliver
  <2>1. PICK sig \in Signals :
          /\ \A f \in 1 .. Len(frames) : frames[f].sig # sig
          /\ IF sig \in default
             THEN process' = "killed" /\ UNCHANGED frames
             ELSE /\ frames' = Append(frames, [sig |-> sig, at |-> "test", next |-> 1])
                  /\ UNCHANGED process
    BY <1>2 DEF Deliver
  <2>2. sig \notin default
    BY <2>1 DEF FirstHandlerOK
  <2>3. frames' = Append(frames, [sig |-> sig, at |-> "test", next |-> 1]) /\ UNCHANGED process
    BY <2>1, <2>2
  <2>4. /\ Len(frames') = Len(frames) + 1 /\ frames \in Seq(Frame) /\ Len(frames) \in Nat
        /\ \A f \in 1 .. Len(frames) : frames'[f] = frames[f]
    BY <2>3 DEF IInv, TypeOK
  <2>5. \A s \in default' : \E f \in 1 .. Len(frames') : frames'[f].sig = s
    BY <1>2, <2>4 DEF FirstHandlerOK, Deliver
  <2>6. ASSUME Len(frames') = 1
        PROVE  frames = <<>> /\ frames'[1].at = "test" /\ frames'[1].next = 1
    BY <2>3, <2>4, <2>6
  <2>7. process' # "killed"
    BY <1>2, <2>3 DEF Deliver
  <2> QED BY <1>2, <2>4, <2>5, <2>6, <2>7 DEF FirstHandlerOK, Deliver
<1>3. CASE HandlerStep
  <2>1. /\ frames \in Seq(Frame) /\ frames # <<>> /\ Len(frames) \in 1 .. Len(frames)
        /\ process = "running"
    BY <1>3 DEF IInv, TypeOK, HandlerStep, TestCleaning, SetCleaning, UnlinkNext, LoopDone,
                ResetAction, Raise, HandlerAt, InHandler
  <2>2. UNCHANGED <<pc, table, stale, len>> /\ disk' \subseteq disk
    BY <1>3, HandlerIInv
  <2>3. /\ Len(frames') = Len(frames) /\ frames' # <<>>
        /\ \A f \in 1 .. Len(frames) : frames'[f].sig = frames[f].sig
    <3> DEFINE n == Len(frames)
    <3>1. \/ frames' = frames
          \/ \E p \in HandlerPlaces : frames' = [frames EXCEPT ![n].at = p]
          \/ frames' = [frames EXCEPT ![n].next = @ + 1]
          \/ frames' = [frames EXCEPT ![n].at = "test", ![n].next = 1]
      BY <1>3 DEF HandlerStep, TestCleaning, SetCleaning, UnlinkNext, LoopDone, ResetAction,
                  Raise, MoveTo, HandlerPlaces
    <3>2. frames[n] \in Frame
      BY <2>1
    <3>3. \/ frames' = frames
          \/ \E g : g.sig = frames[n].sig /\ frames' = [frames EXCEPT ![n] = g]
      <4>1. ASSUME NEW p \in HandlerPlaces, frames' = [frames EXCEPT ![n].at = p]
            PROVE  \E g : g.sig = frames[n].sig /\ frames' = [frames EXCEPT ![n] = g]
        <5>1. [frames[n] EXCEPT !.at = p].sig = frames[n].sig
          BY <3>2 DEF Frame
        <5> QED BY <4>1, <5>1
      <4>2. ASSUME frames' = [frames EXCEPT ![n].next = @ + 1]
            PROVE  \E g : g.sig = frames[n].sig /\ frames' = [frames EXCEPT ![n] = g]
        <5>1. [frames[n] EXCEPT !.next = @ + 1].sig = frames[n].sig
          BY <3>2 DEF Frame
        <5> QED BY <4>2, <5>1
      <4>3. ASSUME frames' = [frames EXCEPT ![n].at = "test", ![n].next = 1]
            PROVE  \E g : g.sig = frames[n].sig /\ frames' = [frames EXCEPT ![n] = g]
        <5>1. [frames[n] EXCEPT !.at = "test", !.next = 1].sig = frames[n].sig
          BY <3>2 DEF Frame
        <5> QED BY <2>1, <4>3, <5>1
      <4> QED BY <3>1, <4>1, <4>2, <4>3
    <3> QED BY <2>1, <3>3
  <2>4. \A s \in default' : \E f \in 1 .. Len(frames') : frames'[f].sig = s
    <3>1. default' \subseteq default \cup {Top.sig}
      BY <1>3 DEF HandlerStep, TestCleaning, SetCleaning, UnlinkNext, LoopDone, ResetAction, Raise
    <3> QED BY <2>1, <2>3, <3>1 DEF FirstHandlerOK, Top
  <2>5. ASSUME Len(frames) = 1
        PROVE  FirstHandlerOK'
    <3> USE <2>5
    <3>1. Top = frames[1] /\ frames[1] \in Frame
      BY <2>1 DEF Top
    <3>2. CASE TestCleaning
      <4>1. frames' = [frames EXCEPT ![1].at = "set"] /\ ~cleaning
        BY <3>1, <3>2 DEF TestCleaning, HandlerAt, MoveTo, FirstHandlerOK
      <4>2. frames'[1].at = "set" /\ frames'[1].next = 1
        BY <2>1, <3>1, <3>2, <4>1 DEF Frame, TestCleaning, HandlerAt, FirstHandlerOK
      <4> QED BY <2>1, <2>3, <2>4, <3>2, <4>1, <4>2 DEF TestCleaning, FirstHandlerOK
    <3>3. CASE SetCleaning
      <4>1. frames'[1].at = "loop" /\ frames'[1].next = frames[1].next
        BY <2>1, <3>1, <3>3 DEF SetCleaning, MoveTo, Frame
      <4>2. frames[1].next = 1
        BY <3>1, <3>3 DEF SetCleaning, HandlerAt, FirstHandlerOK
      <4> QED BY <2>1, <2>3, <2>4, <3>3, <4>1, <4>2 DEF SetCleaning, FirstHandlerOK
    <3>4. CASE UnlinkNext
      <4>1. frames[1].at = "loop" /\ frames[1].next <= len /\ frames[1].next \in Nat
        BY <3>1, <3>4 DEF UnlinkNext, HandlerAt, Frame
      <4>2. frames' = frames \/ (disk' = disk \ {Slot(frames[1].next)}
                                /\ frames' = [frames EXCEPT ![1].next = @ + 1])
        BY <3>1, <3>4 DEF UnlinkNext
      <4>3. /\ frames'[1].at = "loop"
            /\ \/ frames'[1].next = frames[1].next
               \/ /\ disk' = disk \ {Slot(frames[1].next)}
                  /\ frames'[1].next = frames[1].next + 1
        BY <2>1, <3>1, <4>1, <4>2 DEF Frame
      <4>4. \A i \in 1 .. len : i < frames'[1].next => Slot(i) \notin disk'
        BY <2>2, <4>1, <4>3 DEF FirstHandlerOK, IInv, TypeOK
      <4>5. process' # "killed"
        BY <2>1, <3>4 DEF UnlinkNext
      <4> QED BY <2>2, <2>3, <2>4, <4>3, <4>4, <4>5 DEF FirstHandlerOK
    <3>5. CASE LoopDone
      <4>1. frames'[1].at = "reset"
        BY <2>1, <3>1, <3>5 DEF LoopDone, MoveTo, Frame
      <4>2. \A i \in 1 .. len : Slot(i) \notin disk
        BY <3>1, <3>5 DEF LoopDone, HandlerAt, FirstHandlerOK, Frame, IInv, TypeOK
      <4> QED BY <2>2, <2>3, <2>4, <4>1, <4>2 DEF FirstHandlerOK
    <3>6. CASE ResetAction
      <4>1. frames'[1].at = "raise" /\ frames'[1].sig \in default'
        BY <2>1, <3>1, <3>6 DEF ResetAction, MoveTo, Frame
      <4>2. \A i \in 1 .. len : Slot(i) \notin disk
        BY <3>1, <3>6 DEF ResetAction, HandlerAt, FirstHandlerOK
      <4> QED BY <2>2, <2>3, <2>4, <4>1, <4>2 DEF FirstHandlerOK
    <3>7. CASE Raise
      <4>1. frames[1].at = "raise" /\ frames' = frames /\ default' = default
        BY <3>1, <3>7 DEF Raise, HandlerAt, FirstHandlerOK
      <4> QED BY <2>2, <2>3, <2>4, <4>1 DEF FirstHandlerOK
    <3> QED BY <1>3, <3>2, <3>3, <3>4, <3>5, <3>6, <3>7 DEF HandlerStep
  <2> QED BY <2>3, <2>4, <2>5 DEF FirstHandlerOK
<1>4. CASE UNCHANGED vars
  BY <1>4 DEF vars, FirstHandlerOK
<1> QED BY <1>1, <1>2, <1>3, <1>4 DEF Next

-----------------------------------------------------------------------------

\* IInv is an invariant, for all paths, signals and table sizes.
THEOREM Inductive == Spec => []IInv
  BY InitIInv, NextIInv, PTL DEF Spec

\* The table and the handler's frames keep their types.
THEOREM TypeCorrect == Spec => []TypeOK
<1>1. IInv => TypeOK
  BY DEF IInv
<1> QED BY <1>1, Inductive, PTL

\* The handler never reads a slot whose path string has been freed, between
\* whichever two stores the signal arrives, but for those around the move of
\* a table that grows.
THEOREM LivePathsUnlessGrowingCorrect == Spec => []LivePathsUnlessGrowing
<1>1. IInv => LivePathsUnlessGrowing
  BY DEF IInv, TableOK, LivePathsUnlessGrowing, Slot
<1> QED BY <1>1, Inductive, PTL

\* At most the temporary file in hand is missing from the table.
THEOREM OneFileInHandCorrect == Spec => []OneFileInHand
<1>1. IInv => OneFileInHand
  BY DEF IInv, TableOK, OneFileInHand
<1> QED BY <1>1, Inductive, PTL

\* A process that its first signal kills leaves no temporary file but the one
\* it was creating or removing, and those whose paths the freed block of a
\* growing table had lost.
THEOREM FirstSignalCleansCorrect == Spec => []FirstSignalCleans
<1>1. SInv => FirstSignalCleans
  <2> SUFFICES ASSUME SInv, process = "killed", Len(frames) = 1, NEW file \in disk, file \notin InHand
               PROVE  file \in Overwritten
    BY DEF FirstSignalCleans
  <2>1. PICK i \in 1 .. len : file = table[i]
    BY DEF SInv, IInv, TableOK, Registered
  <2>2. Slot(i) # table[i]
    BY <2>1 DEF SInv, FirstHandlerOK
  <2> QED BY <2>1, <2>2 DEF Overwritten
<1> QED BY <1>1, InitSInv, NextSInv, PTL DEF Spec

-----------------------------------------------------------------------------
(***************************************************************************)
(* One clean-up                                                            *)
(***************************************************************************)

\* The handler that runs is about to clean up only if none has begun to.
OneCleaner == InHandler /\ Top.at = "set" => ~cleaning

\* What a handler's step does to the frame of the handler that runs.
LEMMA TopMoves ==
  ASSUME TypeOK, HandlerStep, InHandler'
  PROVE  /\ InHandler /\ Len(frames') = Len(frames)
         /\ \A f \in 1 .. Len(frames) - 1 : frames'[f] = frames[f]
         /\ Top'.at = "loop" => Top.at = "loop" \/ SetCleaning
         /\ Top'.at = "set" => TestCleaning /\ ~cleaning
<1> DEFINE n == Len(frames)
<1>1. /\ InHandler /\ frames \in Seq(Frame) /\ n \in 1 .. Len(frames) /\ frames[n] \in Frame
  BY DEF TypeOK, HandlerStep, TestCleaning, SetCleaning, UnlinkNext, LoopDone, ResetAction,
         Raise, HandlerAt, InHandler
<1>2. ASSUME NEW g, frames' = [frames EXCEPT ![n] = g]
      PROVE  /\ Len(frames') = n /\ Top' = g
             /\ \A f \in 1 .. n - 1 : frames'[f] = frames[f]
  BY <1>1, <1>2 DEF Top
<1>3. ASSUME NEW place, MoveTo(place)
      PROVE  /\ Len(frames') = n /\ Top'.at = place
             /\ \A f \in 1 .. n - 1 : frames'[f] = frames[f]
  <2>1. frames' = [frames EXCEPT ![n] = [frames[n] EXCEPT !.at = place]]
    BY <1>3 DEF MoveTo
  <2>2. [frames[n] EXCEPT !.at = place].at = place
    BY <1>1 DEF Frame
  <2> QED BY <1>2, <2>1, <2>2
<1>4. CASE TestCleaning
  BY <1>1, <1>3, <1>4 DEF TestCleaning
<1>5. CASE SetCleaning
  BY <1>1, <1>3, <1>5 DEF SetCleaning
<1>6. CASE UnlinkNext
  <2>1. frames' = [frames EXCEPT ![n] = [frames[n] EXCEPT !.next = @ + 1]]
    BY <1>6 DEF UnlinkNext, InHandler
  <2>2. [frames[n] EXCEPT !.next = @ + 1].at = frames[n].at
    BY <1>1 DEF Frame
  <2>3. Top.at = "loop"
    BY <1>6 DEF UnlinkNext, HandlerAt
  <2> QED BY <1>1, <1>2, <2>1, <2>2, <2>3 DEF Top
<1>7. CASE LoopDone
  BY <1>1, <1>3, <1>7 DEF LoopDone
<1>8. CASE ResetAction
  BY <1>1, <1>3, <1>8 DEF ResetAction
<1>9. CASE Raise
  <2>1. frames' = [frames EXCEPT ![n] = [frames[n] EXCEPT !.at = "test", !.next = 1]]
    BY <1>1, <1>9 DEF Raise, InHandler
  <2>2. [frames[n] EXCEPT !.at = "test", !.next = 1].at = "test"
    BY <1>1 DEF Frame
  <2> QED BY <1>1, <1>2, <2>1, <2>2
<1> QED BY <1>4, <1>5, <1>6, <1>7, <1>8, <1>9 DEF HandlerStep

\* A signal adds a handler that has still to look at cleaning_temp_paths.
LEMMA DeliverMoves ==
  ASSUME TypeOK, Deliver
  PROVE  /\ cleaning' = cleaning
         /\ \/ frames' = frames /\ ~InHandler'
            \/ /\ Len(frames') = Len(frames) + 1 /\ Top'.at = "test"
               /\ \A f \in 1 .. Len(frames) : frames'[f] = frames[f]
<1>1. PICK sig \in Signals :
        \/ process' = "killed" /\ frames' = frames
        \/ frames' = Append(frames, [sig |-> sig, at |-> "test", next |-> 1])
  BY DEF Deliver
<1>2. CASE frames' = Append(frames, [sig |-> sig, at |-> "test", next |-> 1])
  <2>1. /\ Len(frames') = Len(frames) + 1
        /\ frames'[Len(frames) + 1] = [sig |-> sig, at |-> "test", next |-> 1]
        /\ \A f \in 1 .. Len(frames) : frames'[f] = frames[f]
    BY <1>2 DEF TypeOK
  <2> QED BY <2>1 DEF Deliver, Top
<1> QED BY <1>1, <1>2 DEF Deliver, InHandler

LEMMA NextOneCleaner == TypeOK /\ OneCleaner /\ [Next]_vars => OneCleaner'
<1> SUFFICES ASSUME TypeOK, OneCleaner, [Next]_vars, InHandler', Top'.at = "set"
             PROVE  ~cleaning'
  BY DEF OneCleaner
<1>1. CASE Create \/ StartGrowing \/ Grow \/ StoreSlot \/ StoreLen \/ Swap \/ Shrink
         \/ Lower \/ SwapLate \/ Unlink \/ Free
  <2>1. frames = <<>> /\ frames' = frames
    BY <1>1 DEF Create, StartGrowing, Grow, StoreSlot, StoreLen, Swap, Shrink, Lower,
           SwapLate, Unlink, Free, At, Uninterrupted, handler_vars
  <2> QED BY <2>1 DEF InHandler
<1>2. CASE Deliver
  BY <1>2, DeliverMoves
<1>3. CASE HandlerStep
  BY <1>3, TopMoves DEF TestCleaning
<1>4. CASE UNCHANGED vars
  BY <1>4 DEF vars, OneCleaner, InHandler, Top
<1> QED BY <1>1, <1>2, <1>3, <1>4 DEF Next

\* Once a handler has begun to clean up no handler begins again.
THEOREM CleansOnceCorrect == Spec => CleansOnce
<1> DEFINE Enters(f) == frames'[f].at = "loop" => f \in DOMAIN frames /\ frames[f].at = "loop"
<1>1. TypeOK /\ TypeOK' /\ OneCleaner /\ [Next]_vars => [BeginsNoOther]_vars
  <2> SUFFICES ASSUME TypeOK, TypeOK', OneCleaner, Next, cleaning, NEW f \in DOMAIN frames'
               PROVE  Enters(f)
    BY DEF BeginsNoOther
  <2>1. f \in 1 .. Len(frames') /\ frames \in Seq(Frame)
    BY DEF TypeOK
  <2>2. CASE frames' = frames
    BY <2>2
  <2>3. CASE Deliver
    BY <2>1, <2>2, <2>3, DeliverMoves DEF Top
  <2>4. CASE HandlerStep
    <3>1. CASE ~InHandler'
      <4>1. frames' = frames \/ process' = "running"
        BY <2>4 DEF HandlerStep, TestCleaning, SetCleaning, UnlinkNext, LoopDone, ResetAction,
               Raise, HandlerAt, InHandler
      <4> QED BY <2>1, <2>2, <3>1, <4>1 DEF InHandler
    <3>2. CASE InHandler'
      <4>1. Top'.at = "loop" => Top.at = "loop"
        BY <2>4, <3>2, TopMoves DEF SetCleaning, HandlerAt, OneCleaner
      <4> QED BY <2>1, <2>4, <3>2, <4>1, TopMoves DEF Top
    <3> QED BY <3>1, <3>2
  <2>5. CASE Create \/ StartGrowing \/ Grow \/ StoreSlot \/ StoreLen \/ Swap \/ Shrink
           \/ Lower \/ SwapLate \/ Unlink \/ Free
    <3>1. frames' = frames
      BY <2>5 DEF Create, StartGrowing, Grow, StoreSlot, StoreLen, Swap, Shrink, Lower,
             SwapLate, Unlink, Free, handler_vars
    <3> QED BY <2>2, <3>1
  <2> QED BY <2>3, <2>4, <2>5 DEF Next
<1>2. Init => OneCleaner
  BY DEF Init, OneCleaner, InHandler
<1> QED BY <1>1, <1>2, NextOneCleaner, TypeCorrect, PTL DEF Spec, CleansOnce

=============================================================================
