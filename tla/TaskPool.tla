------------------------------ MODULE TaskPool ------------------------------
(***************************************************************************)
(* rank_run_tasks of src/sys/thread.c: the caller starts up to threads - 1 *)
(* workers, works itself, and joins the workers it started.  Tasks are     *)
(* claimed with an atomic counter that lives on the caller's stack, next   *)
(* to the function and its context: a worker that were still running when  *)
(* the call returns would read a dead frame.                               *)
(***************************************************************************)
EXTENDS Integers, FiniteSets

CONSTANTS
  Count,        \* task_count
  Threads,      \* threads
  MaxWorkers    \* RANK_MAX_WORKERS, 64 in the code

ASSUME PoolAssumption ==
  /\ Count \in Nat
  /\ Threads \in Nat \ {0}
  /\ MaxWorkers \in Nat \ {0}

Tasks == 0 .. Count - 1

\* Threads are capped, and there are never more of them than tasks.
Capped == IF Threads > MaxWorkers THEN MaxWorkers ELSE Threads
\* Variant: threads are not capped.
Want_uncapped == IF Threads < Count THEN Threads ELSE Count

Want == IF Capped < Count THEN Capped ELSE Count

\* The caller is worker 0.
Caller == 0
Workers == 0 .. MaxWorkers - 1
NoTask == -1

VARIABLES
  main,       \* what rank_run_tasks does: "spawn", "work", "join", "returned"
  spawned,    \* workers that were started
  joined,     \* workers that were joined
  next,       \* state.next
  state,      \* what each worker does: "absent", "claim", "run", "exit"
  task,       \* the task a worker runs
  runs        \* how often each task was carried out

pool_vars == <<main, spawned, joined, next, state, task, runs>>

PoolInit ==
  /\ main = IF Count = 0 THEN "returned" ELSE "spawn"
  /\ spawned = 0 /\ joined = 0 /\ next = 0
  /\ state = [w \in Workers |-> "absent"]
  /\ task = [w \in Workers |-> NoTask]
  /\ runs = [t \in Tasks |-> 0]

\* pthread_create may fail: the workers there are have to do.
Spawn ==
  /\ main = "spawn" /\ spawned + 1 < Want
  /\ \/ /\ spawned' = spawned + 1
        /\ state' = [state EXCEPT ![spawned + 1] = "claim"]
        /\ UNCHANGED main
     \/ /\ main' = "work"
        /\ state' = [state EXCEPT ![Caller] = "claim"]
        /\ UNCHANGED spawned
  /\ UNCHANGED <<joined, next, task, runs>>

SpawnedAll ==
  /\ main = "spawn" /\ spawned + 1 >= Want
  /\ main' = "work"
  /\ state' = [state EXCEPT ![Caller] = "claim"]
  /\ UNCHANGED <<spawned, joined, next, task, runs>>

\* Variant: the counter is read but not advanced.
Claim_reads(w) ==
  /\ state[w] = "claim"
  /\ IF next >= Count
     THEN state' = [state EXCEPT ![w] = "exit"] /\ UNCHANGED task
     ELSE /\ state' = [state EXCEPT ![w] = "run"]
          /\ task' = [task EXCEPT ![w] = next]
  /\ UNCHANGED <<main, spawned, joined, next, runs>>

\* Variant: the last task is not handed out.
Claim_short(w) ==
  /\ state[w] = "claim"
  /\ next' = next + 1
  /\ IF next + 1 >= Count
     THEN state' = [state EXCEPT ![w] = "exit"] /\ UNCHANGED task
     ELSE /\ state' = [state EXCEPT ![w] = "run"]
          /\ task' = [task EXCEPT ![w] = next]
  /\ UNCHANGED <<main, spawned, joined, runs>>

\* rank_task_worker: the claim is one atomic_fetch_add.
Claim(w) ==
  /\ state[w] = "claim"
  /\ next' = next + 1
  /\ IF next >= Count
     THEN state' = [state EXCEPT ![w] = "exit"] /\ UNCHANGED task
     ELSE /\ state' = [state EXCEPT ![w] = "run"]
          /\ task' = [task EXCEPT ![w] = next]
  /\ UNCHANGED <<main, spawned, joined, runs>>

\* The task function returns.
Finish(w) ==
  /\ state[w] = "run"
  /\ runs' = [runs EXCEPT ![task[w]] = @ + 1]
  /\ task' = [task EXCEPT ![w] = NoTask]
  /\ state' = [state EXCEPT ![w] = "claim"]
  /\ UNCHANGED <<main, spawned, joined, next>>

\* Variant: the caller returns when it finds no more work.
WorkDone_returns ==
  /\ main = "work" /\ state[Caller] = "exit"
  /\ main' = "returned"
  /\ UNCHANGED <<spawned, joined, next, state, task, runs>>

WorkDone ==
  /\ main = "work" /\ state[Caller] = "exit"
  /\ main' = "join"
  /\ UNCHANGED <<spawned, joined, next, state, task, runs>>

\* Variant: the last worker is not joined.
Join_short ==
  /\ main = "join" /\ joined + 1 < spawned
  /\ state[joined + 1] = "exit"
  /\ joined' = joined + 1
  /\ UNCHANGED <<main, spawned, next, state, task, runs>>

\* pthread_join waits for the worker's exit.
Join ==
  /\ main = "join" /\ joined < spawned
  /\ state[joined + 1] = "exit"
  /\ joined' = joined + 1
  /\ UNCHANGED <<main, spawned, next, state, task, runs>>

\* Variant: the caller does not wait.
Return_unjoined ==
  /\ main = "join"
  /\ main' = "returned"
  /\ UNCHANGED <<spawned, joined, next, state, task, runs>>

Return ==
  /\ main = "join" /\ joined = spawned
  /\ main' = "returned"
  /\ UNCHANGED <<spawned, joined, next, state, task, runs>>

Worker(w) == Claim(w) \/ Finish(w)
Main == Spawn \/ SpawnedAll \/ WorkDone \/ Join \/ Return

PoolNext == Main \/ \E w \in Workers : Worker(w)

PoolSpec == PoolInit /\ [][PoolNext]_pool_vars

\* The system runs every thread that can run, and tasks come to an end.
PoolFairSpec == PoolSpec /\ WF_pool_vars(Main) /\ \A w \in Workers : WF_pool_vars(Worker(w))

-----------------------------------------------------------------------------
(***************************************************************************)
(* Properties                                                              *)
(***************************************************************************)

\* Every variable has the type its comment says.
PoolTypeOK ==
  /\ main \in {"spawn", "work", "join", "returned"}
  /\ spawned \in 0 .. MaxWorkers - 1
  /\ joined \in 0 .. spawned
  /\ next \in Nat
  /\ state \in [Workers -> {"absent", "claim", "run", "exit"}]
  /\ task \in [Workers -> Tasks \cup {NoTask}]
  /\ runs \in [Tasks -> Nat]

\* No two workers run the same task at the same time, and no task is run
\* that was run before: they sort disjoint ranges of one array in place.
RunAlone ==
  \A v, w \in Workers :
    state[w] = "run" =>
      /\ runs[task[w]] = 0
      /\ state[v] = "run" /\ task[v] = task[w] => v = w

\* When the call returns every task was run once, though workers come and go
\* as pthread_create allows.
AllRunOnce == main = "returned" => \A t \in Tasks : runs[t] = 1

\* When the call returns no worker is left that could touch the caller's
\* frame.
FrameUnused == main = "returned" => \A w \in Workers : state[w] \in {"absent", "exit"}

\* Whoever comes and goes, tasks run once and alone, and all of them are over
\* when the call is.
TasksRunOnce == RunAlone /\ AllRunOnce /\ FrameUnused

\* The call is a parallel loop.
Loop == INSTANCE ParallelFor WITH
  done <- {t \in Tasks : runs[t] > 0}, returned <- (main = "returned")
ImplementsParallelFor == Loop!Spec

\* The call returns, with as few workers as there may be.
Returns == <>(main = "returned")

=============================================================================
