--------------------------- MODULE ThreadPoolProofs -------------------------
(***************************************************************************)
(* Proofs about ThreadPool, for every number of slots and of thread ids.   *)
(***************************************************************************)
EXTENDS ThreadPool, TLAPS

-----------------------------------------------------------------------------
(* What each kind of step does to a slot, in its terms.                    *)

(* The creator fills slot i, stores its id, or does neither.               *)
LEMMA CreatorStep ==
  ASSUME TypeOK, PoolInv, Creator
  PROVE
    /\ stop' = stop
    /\ \/ /\ i' = i /\ UNCHANGED <<threads, failed, late, worker>>
          /\ pool' # "storing" /\ pool # "storing" /\ array' # "freed"
          /\ pool \in {"ready", "destroyed"} => pool' = pool
       \/ /\ pool = "creating" /\ i \in Slots /\ array' = array
          /\ pool' = "creating" /\ i' = i + 1 /\ UNCHANGED <<failed, late>>
          /\ \E t \in Free : threads' = [threads EXCEPT ![i] = t] /\ Started(i, t)
       \/ /\ pool = "creating" /\ i \in Slots /\ array' = array
          /\ pool' = "storing" /\ i' = i /\ UNCHANGED <<threads, failed>>
          /\ late' = late \cup {i}
          /\ \E t \in Free : Started(i, t)
       \/ /\ pool = "storing" /\ i \in Slots /\ array' = array
          /\ pool' = "creating" /\ i' = i + 1 /\ UNCHANGED <<failed, late, worker>>
          /\ threads' = [threads EXCEPT ![i] = worker[i].tid]
       \/ /\ pool = "creating" /\ i \in Slots /\ array' = array
          /\ pool' = "creating" /\ i' = i + 1 /\ UNCHANGED <<late, worker>>
          /\ failed' = failed \cup {i}
          /\ \E t \in Tids \cup {NoTid} : threads' = [threads EXCEPT ![i] = t]
<1> USE PoolAssumption DEF TypeOK, PoolInv, Slots
<1>1. CASE Allocate
  BY <1>1 DEF Allocate
<1>2. CASE AllocateFails
  BY <1>2 DEF AllocateFails
<1>3. ASSUME NEW t \in Tids, CreateIdFirst(t)
      PROVE  /\ pool = "creating" /\ i \in Slots /\ array' = array /\ stop' = stop
             /\ pool' = "creating" /\ i' = i + 1 /\ UNCHANGED <<failed, late>>
             /\ t \in Free
             /\ threads' = [threads EXCEPT ![i] = t] /\ Started(i, t)
  BY <1>3, SMT DEF CreateIdFirst
<1>4. ASSUME NEW t \in Tids, CreateThreadFirst(t)
      PROVE  /\ pool = "creating" /\ i \in Slots /\ array' = array /\ stop' = stop
             /\ pool' = "storing" /\ i' = i /\ UNCHANGED <<threads, failed>>
             /\ late' = late \cup {i} /\ t \in Free /\ Started(i, t)
  BY <1>4, SMT DEF CreateThreadFirst
<1>5. ASSUME NEW t \in Tids \cup {NoTid}, CreateFails(t)
      PROVE  /\ pool = "creating" /\ i \in Slots /\ array' = array /\ stop' = stop
             /\ pool' = "creating" /\ i' = i + 1 /\ UNCHANGED <<late, worker>>
             /\ failed' = failed \cup {i}
             /\ threads' = [threads EXCEPT ![i] = t]
  BY <1>5, SMT DEF CreateFails
<1>6. CASE StoreId
  BY <1>6, SMT DEF StoreId
<1>7. CASE InitReturns
  BY <1>7 DEF InitReturns
<1> QED
  BY <1>1, <1>2, <1>3, <1>4, <1>5, <1>6, <1>7 DEF Creator

(* One worker takes a step to w.                                           *)
LEMMA StepFacts ==
  ASSUME TypeOK, NEW s \in Slots, NEW w \in Worker, Step(s, w)
  PROVE  /\ worker' \in [Slots -> Worker]
         /\ \A r \in Slots : r # s => worker'[r] = worker[r]
         /\ worker'[s] = w
BY DEF TypeOK, Step

(* The fields of a worker's record, and a step that changes "at" alone.    *)
LEMMA MovesFacts ==
  ASSUME TypeOK, NEW s \in Slots, NEW at \in {"found", "working", "ended", "crashed"},
         Moves(s, at)
  PROVE  /\ worker' \in [Slots -> Worker]
         /\ \A r \in Slots : r # s => worker'[r] = worker[r]
         /\ worker'[s].at = at /\ worker'[s].tid = worker[s].tid
         /\ worker'[s].idx = worker[s].idx
<1>1. worker[s] \in Worker
  BY DEF TypeOK
<1>2. [worker[s] EXCEPT !.at = at] \in Worker
  BY <1>1 DEF Worker
<1>3. /\ [worker[s] EXCEPT !.at = at].at = at
      /\ [worker[s] EXCEPT !.at = at].tid = worker[s].tid
      /\ [worker[s] EXCEPT !.at = at].idx = worker[s].idx
  BY <1>1 DEF Worker
<1> QED
  BY <1>2, <1>3, StepFacts DEF Moves

(* A worker moves only itself, and keeps its id; where it goes.            *)
LEMMA RunStep ==
  ASSUME TypeOK, NEW s \in Slots, Run(s)
  PROVE
    /\ UNCHANGED <<stop, threads, array, i, pool, failed, late>>
    /\ worker' \in [Slots -> Worker]
    /\ \A r \in Slots : r # s => worker'[r] = worker[r]
    /\ worker'[s].tid = worker[s].tid
    /\ worker[s].at \in {"searching", "found", "working"}
    /\ \/ /\ worker[s].at = "searching" /\ worker'[s].at = "found"
          /\ worker'[s].idx = worker[s].look /\ worker[s].look \in Slots
          /\ Unknown(s) \/ threads[worker[s].look] = worker[s].tid
       \/ /\ worker[s].at = "searching" /\ worker'[s].at = "searching"
          /\ worker'[s].look = worker[s].look + 1 /\ worker[s].look \in Slots
          /\ Unknown(s) \/ threads[worker[s].look] # worker[s].tid
       \/ /\ worker[s].at = "searching" /\ worker'[s].at = "crashed"
          /\ array = "freed"
       \/ /\ worker[s].at = "searching" /\ worker'[s].at = "found"
          /\ worker[s].look = thread_num
       \/ /\ worker[s].at = "found" /\ worker'[s].at = "working" /\ ~ stop
          /\ worker'[s].idx = worker[s].idx
       \/ /\ worker[s].at = "working" /\ worker'[s].at = "found"
          /\ worker'[s].idx = worker[s].idx
       \/ /\ worker[s].at = "found" /\ worker'[s].at = "ended" /\ stop
<1>0. UNCHANGED <<stop, threads, array, i, pool, failed, late>>
  BY DEF Run
<1>1. worker[s] \in Worker
  BY DEF TypeOK
<1>2. ASSUME worker[s].look < thread_num PROVE worker[s].look \in Slots
  BY <1>1, <1>2, PoolAssumption, SMT DEF Worker, Slots
<1>3. CASE Match(s)
  <2> DEFINE w == [worker[s] EXCEPT !.at = "found", !.idx = worker[s].look]
  <2>1. worker[s].look \in Slots
    BY <1>2, <1>3 DEF Match
  <2>2. /\ w \in Worker /\ w.at = "found" /\ w.tid = worker[s].tid
        /\ w.idx = worker[s].look
    BY <1>1, <2>1 DEF Worker
  <2>3. Step(s, w)
    BY <1>3 DEF Match
  <2> HIDE DEF w
  <2> QED
    BY <1>0, <1>3, <2>1, <2>2, <2>3, StepFacts DEF Match
<1>4. CASE LookOn(s)
  <2> DEFINE w == [worker[s] EXCEPT !.look = @ + 1]
  <2>1. worker[s].look \in Slots
    BY <1>2, <1>4 DEF LookOn
  <2>2. /\ w \in Worker /\ w.at = worker[s].at /\ w.tid = worker[s].tid
        /\ w.look = worker[s].look + 1
    BY <1>1, SMT DEF Worker
  <2>3. Step(s, w)
    BY <1>4 DEF LookOn
  <2> HIDE DEF w
  <2> QED
    BY <1>0, <1>4, <2>1, <2>2, <2>3, StepFacts DEF LookOn
<1>5. CASE LookCrashes(s)
  BY <1>0, <1>5, MovesFacts DEF LookCrashes
<1>6. CASE NotFound(s)
  BY <1>0, <1>6, MovesFacts DEF NotFound
<1>7. CASE Work(s)
  BY <1>0, <1>7, MovesFacts DEF Work
<1>8. CASE FuncReturns(s)
  BY <1>0, <1>8, MovesFacts DEF FuncReturns
<1>9. CASE Ends(s)
  BY <1>0, <1>9, MovesFacts DEF Ends
<1> QED
  BY <1>3, <1>4, <1>5, <1>6, <1>7, <1>8, <1>9 DEF Run, Search, Loop

(* thread_pool_destroy sets stop, and frees the array after it.            *)
LEMMA DestroyStep ==
  ASSUME Destroy
  PROVE  /\ UNCHANGED <<threads, i, failed, late, worker>>
         /\ pool = "ready" /\ pool' \in {"ready", "destroyed"} /\ stop'
         /\ array' = array \/ array' = "freed"
<1>1. CASE stop
  BY <1>1 DEF Destroy
<1>2. CASE ~ stop
  BY <1>2 DEF Destroy
<1> QED
  BY <1>1, <1>2

-----------------------------------------------------------------------------
(* The pool starts empty.                                                  *)
LEMMA InitInv == Init => Inv
<1> SUFFICES ASSUME Init PROVE Inv
  OBVIOUS
<1>1. TypeOK
  <2>1. worker \in [Slots -> Worker]
    BY DEF Init, Worker, Absent
  <2>2. i \in 0 .. thread_num
    BY PoolAssumption, SMT DEF Init
  <2> QED
    BY <2>1, <2>2 DEF Init, TypeOK
<1>2. PoolInv
  BY DEF Init, PoolInv
<1>3. \A s \in Slots : worker[s] = Absent /\ ~ (s < i)
  BY PoolAssumption, SMT DEF Init, Slots
<1>4. DistinctTids
  BY <1>3 DEF DistinctTids, Absent
<1>5. ASSUME NEW s \in Slots PROVE SlotInv(s)
  BY <1>3 DEF Init, SlotInv, Absent, Created
<1>6. ASSUME NEW s \in Slots PROVE HasId(s) /\ SearchInv(s)
  BY <1>3 DEF HasId, SearchInv, Absent
<1> QED
  BY <1>1, <1>2, <1>4, <1>5, <1>6 DEF Inv

(* Every step keeps the variables in their types.                          *)
LEMMA StepTypeOK == Inv /\ [Next]_vars => TypeOK'
<1> SUFFICES ASSUME Inv, [Next]_vars PROVE TypeOK'
  OBVIOUS
<1> USE PoolAssumption DEF Inv, TypeOK
<1>1. CASE Creator
  <2> USE DEF Slots
  <2>1. CASE Allocate \/ AllocateFails \/ InitReturns
    BY <2>1 DEF Allocate, AllocateFails, InitReturns
  <2>2. ASSUME NEW t \in Tids, CreateIdFirst(t) PROVE TypeOK'
    BY <2>2, SMT DEF CreateIdFirst, Started, Worker
  <2>3. ASSUME NEW t \in Tids, CreateThreadFirst(t) PROVE TypeOK'
    BY <2>3, SMT DEF CreateThreadFirst, Started, Worker
  <2>4. ASSUME NEW t \in Tids \cup {NoTid}, CreateFails(t) PROVE TypeOK'
    BY <2>4, SMT DEF CreateFails
  <2>5. CASE StoreId
    BY <2>5, SMT DEF StoreId, PoolInv, Worker
  <2> QED
    BY <1>1, <2>1, <2>2, <2>3, <2>4, <2>5 DEF Creator
<1>2. CASE Destroy
  BY <1>2 DEF Destroy
<1>3. ASSUME NEW s \in Slots, Run(s) PROVE TypeOK'
  BY <1>3, RunStep
<1>4. CASE UNCHANGED vars
  BY <1>4 DEF vars
<1> QED
  BY <1>1, <1>2, <1>3, <1>4 DEF Next

(* The creator stops before it frees, and does neither while it creates.   *)
LEMMA StepPoolInv == Inv /\ [Next]_vars => PoolInv'
<1> SUFFICES ASSUME Inv, [Next]_vars PROVE PoolInv'
  OBVIOUS
<1> USE DEF Inv, PoolInv
<1>1. CASE Creator
  BY <1>1, CreatorStep
<1>2. CASE Destroy
  BY <1>2, DestroyStep
<1>3. ASSUME NEW s \in Slots, Run(s) PROVE PoolInv'
  BY <1>3, RunStep
<1>4. CASE UNCHANGED vars
  BY <1>4 DEF vars
<1> QED
  BY <1>1, <1>2, <1>3, <1>4 DEF Next

-----------------------------------------------------------------------------
(* What the creator does to the worker of a slot: that of slot i may       *)
(* begin; every other keeps its state.                                     *)
LEMMA StartedFacts ==
  ASSUME TypeOK, i \in Slots, NEW t \in Tids, Started(i, t)
  PROVE  /\ worker'[i].at = "searching" /\ worker'[i].tid = t
         /\ worker'[i].look = 0
         /\ \A r \in Slots : r # i => worker'[r] = worker[r]
BY DEF TypeOK, Started

(* Ids that are free are ids, and of no thread that is alive.              *)
LEMMA FreeFacts ==
  ASSUME NEW t \in Free
  PROVE  t \in Tids /\ \A r \in Slots : Alive(r) => worker[r].tid # t
BY DEF Free

(* The slots below i, and no others, are written; each holds the id of its *)
(* thread, unless the thread could not be created.                         *)
LEMMA StepSlotInv ==
  ASSUME Inv, [Next]_vars, NEW s \in Slots PROVE SlotInv(s)'
<1> USE DEF Inv
<1>0. /\ s \in Int /\ i \in Int
      /\ s < i + 1 <=> s < i \/ s = i
      /\ ~ (i < i)
  BY PoolAssumption, SMT DEF TypeOK, Slots
<1>1. SlotInv(s)
  OBVIOUS
<1>2. CASE Creator
  <2>1. CASE /\ i' = i /\ UNCHANGED <<threads, failed, late, worker>>
             /\ pool' # "storing" /\ pool # "storing" /\ stop' = stop
    BY <1>1, <2>1 DEF SlotInv, Created
  <2>2. ASSUME NEW t \in Free, i \in Slots, stop' = stop,
               pool = "creating", pool' = "creating", i' = i + 1,
               UNCHANGED <<failed, late>>,
               threads' = [threads EXCEPT ![i] = t], Started(i, t)
        PROVE  SlotInv(s)'
    <3>1. s # i => worker'[s] = worker[s] /\ threads'[s] = threads[s]
      BY <2>2, FreeFacts, StartedFacts DEF TypeOK
    <3>2. s = i => /\ worker'[s].at = "searching" /\ worker'[s].tid = t
                   /\ threads'[s] = t /\ t # Undefined
      BY <2>2, FreeFacts, StartedFacts, PoolAssumption DEF TypeOK
    <3> QED
      BY <1>0, <1>1, <2>2, <3>1, <3>2 DEF SlotInv, Created
  <2>3. ASSUME NEW t \in Free, i \in Slots, stop' = stop,
               pool = "creating", pool' = "storing", i' = i,
               UNCHANGED <<threads, failed>>, late' = late \cup {i},
               Started(i, t)
        PROVE  SlotInv(s)'
    <3>1. s # i => worker'[s] = worker[s]
      BY <2>3, FreeFacts, StartedFacts
    <3>2. s = i => worker'[s].at = "searching" /\ worker'[s].tid = t
      BY <2>3, FreeFacts, StartedFacts
    <3> QED
      BY <1>0, <1>1, <2>3, <3>1, <3>2 DEF SlotInv, Created
  <2>4. CASE /\ pool = "storing" /\ i \in Slots /\ stop' = stop
             /\ pool' = "creating" /\ i' = i + 1
             /\ UNCHANGED <<failed, late, worker>>
             /\ threads' = [threads EXCEPT ![i] = worker[i].tid]
    <3>1. SlotInv(i) /\ i \in late
      BY <2>4 DEF PoolInv
    <3>2. worker[i].at # "none" /\ worker[i].tid \in Tids
      <4>1. worker[i].at # "none"
        BY <1>0, <2>4, <3>1 DEF SlotInv, Created
      <4> QED
        BY <2>4, <4>1 DEF HasId
    <3>3. threads'[s] = IF s = i THEN worker[i].tid ELSE threads[s]
      BY <2>4 DEF TypeOK
    <3> QED
      BY <1>0, <1>1, <2>4, <3>1, <3>2, <3>3, PoolAssumption
      DEF SlotInv, Created
  <2>5. ASSUME NEW t \in Tids \cup {NoTid}, i \in Slots, stop' = stop,
               pool = "creating", pool' = "creating", i' = i + 1,
               UNCHANGED <<late, worker>>, failed' = failed \cup {i},
               threads' = [threads EXCEPT ![i] = t]
        PROVE  SlotInv(s)'
    <3>1. threads'[s] = IF s = i THEN t ELSE threads[s]
      BY <2>5 DEF TypeOK
    <3>2. t # Undefined
      BY PoolAssumption
    <3> QED
      BY <1>0, <1>1, <2>5, <3>1, <3>2 DEF SlotInv, Created
  <2> QED
    BY <1>2, <2>1, <2>2, <2>3, <2>4, <2>5, CreatorStep
<1>3. CASE Destroy
  <2>1. pool = "ready" /\ pool' # "storing"
    BY <1>3, DestroyStep
  <2> QED
    BY <1>1, <1>3, <2>1, DestroyStep DEF SlotInv, Created
<1>4. ASSUME NEW r \in Slots, Run(r) PROVE SlotInv(s)'
  <2>1. /\ UNCHANGED <<stop, threads, array, i, pool, failed, late>>
        /\ worker'[s].tid = worker[s].tid
        /\ worker'[s].at = "none" <=> worker[s].at = "none"
        /\ worker'[s].at \in {"ended", "crashed"} =>
              stop \/ worker'[s].at = worker[s].at
    BY <1>4, RunStep DEF PoolInv
  <2> QED
    BY <1>1, <2>1 DEF SlotInv, Created
<1>5. CASE UNCHANGED vars
  BY <1>1, <1>5 DEF vars, SlotInv, Created
<1> QED
  BY <1>2, <1>3, <1>4, <1>5 DEF Next

(* While the pool is being created, and so while stop is not set, every    *)
(* thread that was created is alive.                                       *)
LEMMA CreatedAlive ==
  ASSUME Inv, pool \in {"creating", "storing"}, NEW r \in Slots,
         worker[r].at # "none"
  PROVE  Alive(r)
<1>1. worker[r].at \notin {"ended", "crashed"}
  BY DEF Inv, SlotInv, PoolInv
<1>2. worker[r] \in Worker
  BY DEF Inv, TypeOK
<1> QED
  BY <1>1, <1>2 DEF Worker, Alive

(* A new thread has an id that no other has; ids do not change.            *)
LEMMA StepDistinctTids ==
  ASSUME Inv, [Next]_vars
  PROVE  DistinctTids' /\ \A s \in Slots : HasId(s)'
<1> USE DEF Inv
<1>1. ASSUME worker' = worker PROVE DistinctTids' /\ \A s \in Slots : HasId(s)'
  BY <1>1 DEF DistinctTids, HasId
<1>2. ASSUME NEW t \in Free, i \in Slots, pool = "creating", Started(i, t)
      PROVE  DistinctTids' /\ \A s \in Slots : HasId(s)'
  <2>1. /\ t \in Tids
        /\ \A r \in Slots : worker[r].at # "none" => worker[r].tid # t
    BY <1>2, FreeFacts, CreatedAlive
  <2>2. /\ worker'[i].tid = t
        /\ \A r \in Slots : r # i => worker'[r] = worker[r]
    BY <1>2, <2>1, StartedFacts
  <2> QED
    BY <2>1, <2>2 DEF DistinctTids, HasId
<1>3. CASE Creator
  BY <1>1, <1>2, <1>3, CreatorStep
<1>4. ASSUME NEW s \in Slots, Run(s)
      PROVE  DistinctTids' /\ \A r \in Slots : HasId(r)'
  <2>1. \A r \in Slots : /\ worker'[r].tid = worker[r].tid
                         /\ worker'[r].at # "none" => worker[r].at # "none"
    BY <1>4, RunStep
  <2> QED
    BY <2>1 DEF DistinctTids, HasId
<1>5. CASE Destroy \/ UNCHANGED vars
  BY <1>1, <1>5, DestroyStep DEF vars
<1> QED
  BY <1>3, <1>4, <1>5 DEF Next

(* A worker whose id was stored before it ran cannot pass its own slot,    *)
(* nor take that of another thread, as long as the array is there.         *)
LEMMA SearchEnds ==
  ASSUME Inv, NEW s \in Slots \ late, worker[s].at = "searching",
         array # "freed", worker[s].look \in Slots
  PROVE  /\ ~ Unknown(s) /\ worker[s].look <= s
         /\ threads[s] = worker[s].tid
         /\ threads[worker[s].look] = worker[s].tid
               => worker[s].look \in {s} \cup failed
<1> USE DEF Inv
<1> DEFINE k == worker[s].look
<1>1. s < i /\ s \notin failed
  BY DEF SlotInv, Created, PoolInv
<1>2. k <= s
  BY DEF SearchInv
<1>3. k < i
  BY <1>1, <1>2, PoolAssumption, SMT DEF TypeOK, Slots
<1>4. threads[k] # Undefined
  BY <1>3 DEF SlotInv
<1>5. threads[s] = worker[s].tid
  BY <1>1 DEF SlotInv
<1>6. ASSUME threads[k] = worker[s].tid, k \notin failed PROVE k = s
  <2>1. worker[k].at # "none" /\ threads[k] = worker[k].tid
    BY <1>3, <1>6 DEF SlotInv, Created
  <2> QED
    BY <1>6, <2>1 DEF DistinctTids
<1> QED
  BY <1>2, <1>4, <1>5, <1>6 DEF Unknown

(* What the creator writes is not what a search has found.                 *)
LEMMA GoodFrame ==
  ASSUME Inv, NEW s \in Slots \ late, worker[s].at # "none",
         worker'[s] = worker[s], failed \subseteq failed',
         \A k \in Slots : k < i => threads'[k] = threads[k]
  PROVE  Good(s) => Good(s)'
<1> SUFFICES ASSUME Good(s) PROVE Good(s)'
  OBVIOUS
<1> USE DEF Inv
<1>1. s < i
  BY DEF SlotInv, Created, PoolInv
<1>2. worker[s].idx \in Slots /\ worker[s].idx < i
  BY <1>1 DEF Good, SlotInv, TypeOK
<1> QED
  BY <1>2 DEF Good

(* Every step keeps the searches where they belong.                        *)
LEMMA StepSearchInv ==
  ASSUME Inv, [Next]_vars, NEW s \in Slots PROVE SearchInv(s)'
<1> USE DEF Inv
<1>1. SearchInv(s) /\ late \subseteq late'
  <2>1. late \subseteq late'
    <3>1. Creator => late \subseteq late'
      BY CreatorStep
    <3>2. Destroy => late \subseteq late'
      BY DestroyStep
    <3>3. ASSUME NEW r \in Slots, Run(r) PROVE late \subseteq late'
      BY <3>3, RunStep
    <3> QED
      BY <3>1, <3>2, <3>3 DEF Next, vars
  <2> QED
    BY <2>1
<1> SUFFICES ASSUME s \notin late' PROVE SearchInv(s)'
  BY DEF SearchInv
<1>2. s \notin late
  BY <1>1
<1>3. ASSUME worker'[s] = worker[s], failed \subseteq failed',
             \A k \in Slots : k < i => threads'[k] = threads[k],
             array = "freed" => array' = "freed"
      PROVE  SearchInv(s)'
  <2>1. worker[s].at # "none" => (Good(s) => Good(s)')
    BY <1>2, <1>3, GoodFrame
  <2> QED
    BY <1>1, <1>2, <1>3, <2>1 DEF SearchInv
<1>4. CASE Creator
  <2>1. \A k \in Slots : k < i => k # i
    BY PoolAssumption, SMT DEF Slots, TypeOK
  <2>2. /\ failed \subseteq failed'
        /\ \A k \in Slots : k < i => threads'[k] = threads[k]
    BY <1>4, <2>1, CreatorStep DEF TypeOK
  <2>3. array # "freed"
    BY <1>4, CreatorStep
    DEF PoolInv, Creator, Allocate, AllocateFails, CreateIdFirst,
        CreateThreadFirst, StoreId, CreateFails, InitReturns
  <2>4. CASE worker'[s] = worker[s]
    BY <1>3, <2>2, <2>3, <2>4
  <2>5. CASE worker'[s] # worker[s]
    <3>1. worker'[s].at = "searching" /\ worker'[s].look = 0
      BY <1>4, <2>5, CreatorStep, FreeFacts, StartedFacts
    <3>2. 0 <= s
      BY PoolAssumption, SMT DEF Slots
    <3> QED
      BY <3>1, <3>2 DEF SearchInv
  <2> QED
    BY <2>4, <2>5
<1>5. CASE Destroy
  BY <1>3, <1>5, DestroyStep
<1>6. ASSUME NEW r \in Slots, r # s, Run(r) PROVE SearchInv(s)'
  BY <1>3, <1>6, RunStep
<1>7. CASE Run(s)
  <2>1. /\ UNCHANGED <<stop, threads, array, failed>>
        /\ worker'[s].tid = worker[s].tid
    BY <1>7, RunStep
  <2>2. CASE /\ worker[s].at = "searching" /\ worker'[s].at = "found"
             /\ worker'[s].idx = worker[s].look /\ worker[s].look \in Slots
             /\ Unknown(s) \/ threads[worker[s].look] = worker[s].tid
    BY <1>2, <2>1, <2>2, SearchEnds DEF SearchInv, Good
  <2>3. CASE /\ worker[s].at = "searching" /\ worker'[s].at = "searching"
             /\ worker'[s].look = worker[s].look + 1 /\ worker[s].look \in Slots
             /\ Unknown(s) \/ threads[worker[s].look] # worker[s].tid
    <3>1. array # "freed" => worker[s].look <= s /\ worker[s].look # s
      BY <1>2, <2>3, SearchEnds
    <3>2. array # "freed" => worker[s].look + 1 <= s
      BY <2>3, <3>1, PoolAssumption, SMT DEF Slots
    <3> QED
      BY <2>1, <2>3, <3>2 DEF SearchInv
  <2>4. CASE worker'[s].at \in {"crashed", "ended"}
    BY <2>4 DEF SearchInv
  <2>5. CASE /\ worker[s].at = "searching" /\ worker'[s].at = "found"
             /\ worker[s].look = thread_num
    <3>1. ~ (thread_num <= s)
      BY PoolAssumption, SMT DEF Slots
    <3>2. array = "freed"
      BY <1>1, <1>2, <2>5, <3>1 DEF SearchInv
    <3> QED
      BY <2>1, <2>5, <3>2 DEF SearchInv
  <2>6. CASE /\ worker[s].at = "found" /\ worker'[s].at = "working" /\ ~ stop
             /\ worker'[s].idx = worker[s].idx
    BY <1>1, <1>2, <2>1, <2>6 DEF SearchInv, Good, PoolInv
  <2>7. CASE /\ worker[s].at = "working" /\ worker'[s].at = "found"
             /\ worker'[s].idx = worker[s].idx
    BY <1>1, <1>2, <2>1, <2>7 DEF SearchInv, Good
  <2> QED
    BY <1>7, <2>2, <2>3, <2>4, <2>5, <2>6, <2>7, RunStep
<1>8. CASE UNCHANGED vars
  BY <1>3, <1>8 DEF vars
<1> QED
  BY <1>4, <1>5, <1>6, <1>7, <1>8 DEF Next

-----------------------------------------------------------------------------
(* The inductive invariant of the pool holds for ever.                     *)
THEOREM InvCorrect == Spec => []Inv
<1>1. Inv /\ [Next]_vars => Inv'
  BY StepTypeOK, StepPoolInv, StepDistinctTids, StepSlotInv, StepSearchInv
  DEF Inv
<1> QED
  BY <1>1, InitInv, PTL DEF Spec

(* A worker at work whose id was stored before it ran has its own slot, or *)
(* one whose thread could not be created.                                  *)
THEOREM OwnArgumentHolds == Spec => []OwnArgument
<1>1. Inv => OwnArgument
  BY DEF Inv, SearchInv, Good, OwnArgument
<1> QED
  BY <1>1, InvCorrect, PTL

(* No two such workers have the same argument.                             *)
THEOREM DistinctArgumentsHolds == Spec => []DistinctArguments
<1>1. Inv => DistinctArguments
  <2> SUFFICES ASSUME Inv, NEW r \in Slots \ late, NEW s \in Slots \ late,
                      worker[r].at = "working", worker[s].at = "working",
                      worker[r].idx = worker[s].idx, r # s
               PROVE  FALSE
    BY DEF DistinctArguments
  <2>1. Good(r) /\ Good(s)
    BY DEF Inv, SearchInv
  <2>2. worker[r].tid # worker[s].tid
    BY DEF Inv, DistinctTids
  <2> QED
    BY <2>1, <2>2 DEF Good
<1> QED
  BY <1>1, InvCorrect, PTL

(* Every variable of the pool keeps its type: thread_pool_init stores no   *)
(* id past the end of the array, and no search looks there.                *)
THEOREM TypeCorrect == Spec => []TypeOK
<1>1. Inv => TypeOK
  BY DEF Inv
<1> QED
  BY <1>1, InvCorrect, PTL

-----------------------------------------------------------------------------
(* Winding down                                                            *)

(* A worker's own step, once stop is set, brings it nearer to its end.     *)
LEMMA RunWindsDown ==
  ASSUME TypeOK, stop, NEW s \in Slots, Run(s)
  PROVE  LeftToDo(s)' < LeftToDo(s)
<1>1. /\ worker[s].look \in Nat
      /\ worker \in [Slots -> Worker]
  BY DEF TypeOK, Worker
<1>2. CASE Match(s)
  <2>1. worker'[s].at = "found"
    BY <1>1, <1>2, SMT DEF Match, Step
  <2> QED
    BY <1>1, <1>2, <2>1, PoolAssumption, SMT DEF Match, LeftToDo
<1>3. CASE LookOn(s)
  <2>1. worker'[s].at = "searching" /\ worker'[s].look = worker[s].look + 1
    BY <1>1, <1>3, SMT DEF LookOn, Step, Worker
  <2> QED
    BY <1>1, <1>3, <2>1, PoolAssumption, SMT DEF LookOn, LeftToDo
<1>4. CASE LookCrashes(s)
  <2>1. worker'[s].at = "crashed"
    BY <1>1, <1>4, SMT DEF LookCrashes, Moves, Step
  <2> QED
    BY <1>1, <1>4, <2>1, PoolAssumption, SMT DEF LookCrashes, LeftToDo
<1>5. CASE NotFound(s)
  <2>1. worker'[s].at = "found"
    BY <1>1, <1>5, SMT DEF NotFound, Moves, Step
  <2> QED
    BY <1>1, <1>5, <2>1, PoolAssumption, SMT DEF NotFound, LeftToDo
<1>6. CASE FuncReturns(s)
  <2>1. worker'[s].at = "found"
    BY <1>1, <1>6, SMT DEF FuncReturns, Moves, Step
  <2> QED
    BY <1>6, <2>1, SMT DEF FuncReturns, LeftToDo
<1>7. CASE Ends(s)
  <2>1. worker'[s].at = "ended"
    BY <1>1, <1>7, SMT DEF Ends, Moves, Step
  <2> QED
    BY <1>7, <2>1, SMT DEF Ends, LeftToDo
<1> QED
  BY <1>2, <1>3, <1>4, <1>5, <1>6, <1>7 DEF Run, Search, Loop, Work

(* Nobody else changes a worker then: the pool that is being destroyed has *)
(* been created.                                                           *)
LEMMA OnlyOwnStep ==
  ASSUME Inv, [Next]_vars, stop, NEW s \in Slots, worker'[s] # worker[s]
  PROVE  Run(s)
<1>1. worker \in [Slots -> Worker] /\ pool \in {"ready", "destroyed"}
  BY DEF Inv, TypeOK, PoolInv
<1>2. ~ Creator
  BY <1>1 DEF Creator, Allocate, AllocateFails, CreateIdFirst,
              CreateThreadFirst, CreateFails, StoreId, InitReturns
<1>3. ~ Destroy /\ ~ UNCHANGED vars
  BY DEF Destroy, vars
<1>4. ASSUME NEW r \in Slots, r # s, Run(r) PROVE FALSE
  BY <1>1, <1>4, SMT
  DEF Run, Search, Loop, Match, LookOn, LookCrashes, NotFound, Work,
      FuncReturns, Ends, Moves, Step
<1> QED
  BY <1>2, <1>3, <1>4 DEF Next

(* For every number of threads, once stop is set each step of a worker     *)
(* brings it nearer to its end.                                            *)
THEOREM WorkersWindDownHolds == Spec => WorkersWindDown
<1>1. Inv /\ [Next]_vars =>
        [\A s \in Slots : (stop /\ worker'[s] # worker[s])
                           => LeftToDo(s)' < LeftToDo(s)]_vars
  BY OnlyOwnStep, RunWindsDown DEF Inv
<1> QED
  BY <1>1, InvCorrect, PTL DEF Spec, WorkersWindDown

=============================================================================
