----------------------------- MODULE ThreadPool -----------------------------
(***************************************************************************)
(* The thread pool (src/store/bitstore/src/core/thread.c): each worker     *)
(* finds out which argument is its own by looking for its thread id in an  *)
(* array that thread_pool_init is still filling and thread_pool_destroy    *)
(* frees.  The pool is not used by the server yet; the model is of one     *)
(* pool that is created, and destroyed once, by one thread.                *)
(*                                                                         *)
(* The order of a pthread_create's two effects, storing the id and running *)
(* the thread, is left to the implementation: glibc stores the id first,   *)
(* musl stores it when the thread may run already ("late" below).          *)
(* What a failed one stores is undefined; with glibc it is the id of a     *)
(* thread that never ran, which the next thread may get.  thread_create    *)
(* does not notice the failure, because it tests for a negative number.    *)
(***************************************************************************)
EXTENDS Integers, FiniteSets

CONSTANTS
  thread_num,     \* the slots of the pool
  Tids, NoTid,    \* the ids a thread can have, and anything that is no id
  Undefined       \* what memory holds before it is written

ASSUME PoolAssumption ==
  /\ thread_num \in Nat
  /\ NoTid \notin Tids
  /\ Undefined \notin Tids \cup {NoTid}

Slots == 0 .. thread_num - 1

VARIABLES
  stop,       \* threadpool->stop
  threads,    \* the array: what each slot holds
  array,      \* is it there, or not yet, or no more
  i,          \* the local of thread_pool_init
  pool,       \* where the creator of the pool is
  failed,     \* the slots whose thread could not be created
  late,       \* those whose thread could run before its id was stored
  worker      \* worker[s]: the thread created for slot s, and its locals

vars == <<stop, threads, array, i, pool, failed, late, worker>>

(* A worker that is not yet, or no longer, a thread has no id.             *)
Worker ==
  [at : {"none", "searching", "found", "working", "ended", "crashed"},
   tid : Tids \cup {NoTid}, look : Nat, idx : Slots \cup {-1}]

Absent == [at |-> "none", tid |-> NoTid, look |-> 0, idx |-> -1]

Alive(s) == worker[s].at \in {"searching", "found", "working"}
Free == Tids \ {worker[s].tid : s \in {r \in Slots : Alive(r)}}

TypeOK ==
  /\ stop \in BOOLEAN
  /\ threads \in [Slots -> Tids \cup {NoTid, Undefined}]
  /\ array \in {"unallocated", "allocated", "freed"}
  /\ i \in 0 .. thread_num
  /\ pool \in {"init", "creating", "storing", "ready", "destroyed", "error"}
  /\ failed \subseteq Slots
  /\ late \subseteq Slots
  /\ worker \in [Slots -> Worker]

Init ==
  /\ stop = FALSE
  /\ threads = [s \in Slots |-> Undefined]
  /\ array = "unallocated"
  /\ i = 0
  /\ pool = "init"
  /\ failed = {}
  /\ late = {}
  /\ worker = [s \in Slots |-> Absent]

-----------------------------------------------------------------------------
(* thread_pool_init: bad parameters and a failed malloc are errors.        *)
Allocate ==
  /\ pool = "init"
  /\ thread_num > 0
  /\ pool' = "creating"
  /\ array' = "allocated"
  /\ UNCHANGED <<stop, threads, i, failed, late, worker>>

AllocateFails ==
  /\ pool = "init"
  /\ pool' = "error"
  /\ UNCHANGED <<stop, threads, array, i, failed, late, worker>>

(* thread_create for slot i.                                               *)
Started(s, t) ==
  worker' = [worker EXCEPT ![s] = [at |-> "searching", tid |-> t, look |-> 0,
                                   idx |-> -1]]

CreateIdFirst(t) ==
  /\ pool = "creating" /\ i < thread_num
  /\ t \in Free
  /\ threads' = [threads EXCEPT ![i] = t]
  /\ Started(i, t)
  /\ i' = i + 1
  /\ UNCHANGED <<stop, array, pool, failed, late>>

CreateThreadFirst(t) ==
  /\ pool = "creating" /\ i < thread_num
  /\ t \in Free
  /\ Started(i, t)
  /\ late' = late \cup {i}
  /\ pool' = "storing"
  /\ UNCHANGED <<stop, threads, array, i, failed>>

StoreId ==
  /\ pool = "storing"
  /\ threads' = [threads EXCEPT ![i] = worker[i].tid]
  /\ i' = i + 1
  /\ pool' = "creating"
  /\ UNCHANGED <<stop, array, failed, late, worker>>

CreateFailsPastEnd(t) ==                       \* mutant: i <= thread_num
  /\ pool = "creating" /\ i <= thread_num
  /\ threads' = [threads EXCEPT ![i] = t]
  /\ failed' = failed \cup {i}
  /\ i' = i + 1
  /\ UNCHANGED <<stop, array, pool, late, worker>>

CreateFails(t) ==
  /\ pool = "creating" /\ i < thread_num
  /\ threads' = [threads EXCEPT ![i] = t]
  /\ failed' = failed \cup {i}
  /\ i' = i + 1
  /\ UNCHANGED <<stop, array, pool, late, worker>>

InitReturns ==
  /\ pool = "creating" /\ i = thread_num
  /\ pool' = "ready"
  /\ UNCHANGED <<stop, threads, array, i, failed, late, worker>>

(* thread_pool_destroy sets stop before it frees the array.                *)
DestroyFreesFirst ==                           \* mutant: free before stop
  \/ /\ pool = "ready" /\ array = "allocated"
     /\ array' = "freed"
     /\ UNCHANGED <<stop, threads, i, pool, failed, late, worker>>
  \/ /\ pool = "ready" /\ array = "freed"
     /\ stop' = TRUE /\ pool' = "destroyed"
     /\ UNCHANGED <<threads, array, i, failed, late, worker>>

Destroy ==
  \/ /\ pool = "ready" /\ ~ stop
     /\ stop' = TRUE
     /\ UNCHANGED <<threads, array, i, pool, failed, late, worker>>
  \/ /\ pool = "ready" /\ stop
     /\ array' = "freed" /\ pool' = "destroyed"
     /\ UNCHANGED <<stop, threads, i, failed, late, worker>>

-----------------------------------------------------------------------------
(* thread_pool_find_worker_idx, one slot a step.  A slot not yet written   *)
(* holds anything, ids of earlier threads for example; so does an array    *)
(* that was freed, unless NULL is dereferenced.                            *)
Unknown(s) == array = "freed" \/ threads[worker[s].look] = Undefined

Step(s, w) == worker' = [worker EXCEPT ![s] = w]
Moves(s, at) == Step(s, [worker[s] EXCEPT !.at = at])

Match(s) ==
  /\ worker[s].at = "searching" /\ worker[s].look < thread_num
  /\ Unknown(s) \/ threads[worker[s].look] = worker[s].tid
  /\ Step(s, [worker[s] EXCEPT !.at = "found", !.idx = worker[s].look])

LookOn(s) ==
  /\ worker[s].at = "searching" /\ worker[s].look < thread_num
  /\ Unknown(s) \/ threads[worker[s].look] # worker[s].tid
  /\ Step(s, [worker[s] EXCEPT !.look = @ + 1])

LookCrashes(s) ==
  /\ worker[s].at = "searching" /\ worker[s].look < thread_num
  /\ array = "freed"
  /\ Moves(s, "crashed")

NotFoundRetries(s) ==                          \* mutant: look again until found
  /\ worker[s].at = "searching" /\ worker[s].look = thread_num
  /\ Step(s, [worker[s] EXCEPT !.look = 0])

NotFound(s) ==
  /\ worker[s].at = "searching" /\ worker[s].look = thread_num
  /\ Moves(s, "found")                       \* idx is -1

(* The worker's loop: it takes a turn of func, or it ends.                 *)
WorkBlindly(s) ==                              \* mutant: do ... while (!stop)
  worker[s].at = "found" /\ Moves(s, "working")

Work(s) ==
  /\ worker[s].at = "found"
  /\ ~ stop
  /\ Moves(s, "working")

FuncReturns(s) == worker[s].at = "working" /\ Moves(s, "found")

Ends(s) ==
  /\ worker[s].at = "found"
  /\ stop
  /\ Moves(s, "ended")

-----------------------------------------------------------------------------
Creator ==
  \/ Allocate \/ AllocateFails
  \/ \E t \in Tids : CreateIdFirst(t) \/ CreateThreadFirst(t)
  \/ \E t \in Tids \cup {NoTid} : CreateFails(t)
  \/ StoreId \/ InitReturns

Search(s) == Match(s) \/ LookOn(s) \/ LookCrashes(s) \/ NotFound(s)
Loop(s)   == Work(s) \/ FuncReturns(s) \/ Ends(s)

Run(s) ==
  /\ Search(s) \/ Loop(s)
  /\ UNCHANGED <<stop, threads, array, i, pool, failed, late>>

Next == Creator \/ Destroy \/ \E s \in Slots : Run(s)

Spec == Init /\ [][Next]_vars

(* A worker runs, and func returns.                                        *)
FairSpec == Spec /\ \A s \in Slots : WF_vars(Run(s))

-----------------------------------------------------------------------------
(* "func(threadpool->func_arg_avp[idx])": a worker at work has found its   *)
(* own slot, or one whose thread could not be created, and never the slot  *)
(* -1 before the array or one it read from freed memory, if its id was     *)
(* stored before it ran.                                                   *)
OwnArgument ==
  \A s \in Slots \ late :
     worker[s].at = "working" => worker[s].idx \in {s} \cup failed

(* No two workers are given the same argument, though slots whose thread   *)
(* failed hold ids that later threads may have (with the same condition).  *)
DistinctArguments ==
  \A r, s \in Slots \ late :
     (worker[r].at = "working" /\ worker[s].at = "working"
        /\ worker[r].idx = worker[s].idx) => r = s

(* The inductive invariant behind these.  The pool's creator and the slots *)
(* it has written ...                                                      *)
Created(s) == s < i \/ (s = i /\ pool = "storing")

PoolInv ==
  /\ stop => pool \in {"ready", "destroyed"}
  /\ array = "freed" => stop
  /\ pool = "storing" => i \in late

SlotInv(s) ==
  /\ s \in failed => s < i
  /\ s \in late => Created(s)
  /\ worker[s].at # "none" <=> Created(s) /\ s \notin failed
  /\ worker[s].at \in {"ended", "crashed"} => stop
  /\ s < i => threads[s] # Undefined
  /\ s < i /\ s \notin failed => threads[s] = worker[s].tid

HasId(s) == worker[s].at # "none" => worker[s].tid \in Tids

(* ... no two threads of a pool have one id, because none ends before the  *)
(* last is created ...                                                     *)
DistinctTids ==
  \A r, s \in Slots :
     (r # s /\ worker[r].at # "none" /\ worker[s].at # "none")
        => worker[r].tid # worker[s].tid

(* ... and a search does not pass the worker's own slot, nor end at        *)
(* another's, unless the array was freed, when it is too late to work.     *)
Good(s) ==
  /\ worker[s].idx \in {s} \cup failed
  /\ threads[worker[s].idx] = worker[s].tid

SearchInv(s) ==
  s \notin late =>
     /\ worker[s].at = "searching" => worker[s].look <= s \/ array = "freed"
     /\ worker[s].at = "found" => Good(s) \/ array = "freed"
     /\ worker[s].at = "working" => Good(s)

Inv ==
  /\ TypeOK /\ PoolInv /\ DistinctTids
  /\ \A s \in Slots : HasId(s) /\ SlotInv(s) /\ SearchInv(s)

(* Once stop is set every worker ends, wherever in its search or its loop  *)
(* it was, or crashes in the freed array.                                  *)
WorkersEnd ==
  \A s \in Slots :
     (stop /\ Alive(s)) ~> worker[s].at \in {"ended", "crashed"}

(* What a worker has left to do once stop is set: the rest of its search   *)
(* and its turn of func.  Every step it still takes brings it nearer to    *)
(* its end, so that no worker searches on for ever, begins a turn of func  *)
(* or is created behind the back of thread_pool_destroy.                   *)
LeftToDo(s) ==
  CASE worker[s].at = "searching" -> thread_num - worker[s].look + 3
    [] worker[s].at = "working"   -> 2
    [] worker[s].at = "found"     -> 1
    [] OTHER                      -> 0

WorkersWindDown ==
  [][\A s \in Slots :
        (stop /\ worker'[s] # worker[s]) => LeftToDo(s)' < LeftToDo(s)]_vars

=============================================================================
