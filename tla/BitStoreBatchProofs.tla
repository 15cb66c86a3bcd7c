------------------------- MODULE BitStoreBatchProofs ------------------------
(***************************************************************************)
(* Proofs, on top of the inductive invariant of BitStoreProofs, that the   *)
(* server implements BatchIO, that the writes a Put answers for are on     *)
(* stable storage, and what the answer to a Put of one request means.      *)
(* Calls may be woken early and fsync may fail: the theorems are about the *)
(* calls that these do not befall, next to others that they do.            *)
(***************************************************************************)
EXTENDS BitStoreProofs

USE DEF queueVars, contextVars, mediumVars, locals

-----------------------------------------------------------------------------
(* The server implements BatchIO                                           *)

Over == {"answered", "closed"}

(* A call that was woken early remains one, and only a return from its     *)
(* wait makes it one.                                                      *)
LEMMA EarlyStays ==
  ASSUME Inv, [Next]_vars, NEW g \in Handlers
  PROVE  \/ WokenEarly(g)' <=> WokenEarly(g)
         \/ Wake(g) /\ ~ WokenEarly(g)
<1> USE DEF Inv, WokenEarly, TypeOK, ContextTypeOK
<1>1. ASSUME NEW h \in Handlers, g # h, Begin(h) \/ Stream(h) \/ Run(h)
      PROVE  cond'[g] = cond[g]
  BY <1>1, OnlyOwnCall
<1>2. CASE Begin(g) \/ Stream(g) \/ SubmitLoop(g) \/ SubmitReturns(g)
             \/ PutSync(g) \/ PutRespond(g) \/ GetRespond(g)
  <2>1. cond' = cond
    BY <1>2, SMT
    DEF Begin, ContextReady, PutContextFails, GetContextFails, Stream, PutRead,
        GetRead, PutReadEnds, GetReadEnds, GetReadFull, SubmitLoop,
        SubmitReturns, PutSync, PutRespond, GetRespond
  <2> QED
    BY <2>1
<1>3. CASE Sleep(g)
  <2>1. pc[g] = "wait" /\ cond'[g] = "asleep"
    BY <1>3 DEF Sleep, Goto, CondSleep
  <2>2. ~ WokenEarly(g)
    BY <2>1 DEF CallInv, SignalMeansDone, AfterWait
  <2> QED
    BY <2>1, <2>2
<1>4. CASE Wake(g)
  BY <1>4 DEF Wake, CondReturn
<1>5. ASSUME NEW h \in Handlers, NEW i \in Slots, ReaperCounts(h, i)
      PROVE  WokenEarly(g)' <=> WokenEarly(g)
  <2>1. cond' = cond \/ cond' = [cond EXCEPT ![h] = Signalled(h)]
    BY <1>5 DEF ReaperCounts, CountEvent, AioContextTryWake
  <2> QED
    BY <2>1, SMT DEF Signalled
<1>6. CASE \/ \E h \in Handlers, i \in Slots : KernelCompletes(h, i)
           \/ ReaperReads \/ UNCHANGED vars
  BY <1>6 DEF KernelCompletes, ReaperReads, vars
<1> QED
  BY <1>1, <1>2, <1>3, <1>4, <1>5, <1>6 DEF Next, Run

(* To the other calls, a call that was woken early never ends.             *)
Ended(g) == pc[g] \in Over /\ ~ WokenEarly(g)

LEMMA EndedStays ==
  ASSUME Inv, [Next]_vars, NEW g \in Handlers,
         (pc'[g] \in Over <=> pc[g] \in Over) \/ WokenEarly(g)
  PROVE  Ended(g)' <=> Ended(g)
<1>1. Wake(g) => pc[g] \notin Over /\ pc'[g] \notin Over
  BY SMT DEF Wake, Goto, Over, Inv, TypeOK
<1> QED
  BY <1>1, EarlyStays DEF Ended

(* A step on which no call gives the kernel anything, has anything counted *)
(* or ends is a stuttering step of BatchIO.                                *)
LEMMA BatchStutters ==
  ASSUME Inv, [Next]_vars,
         \A g \in Handlers :
            /\ Handed(g)' = Handed(g) /\ Counted(g)' = Counted(g)
            /\ (pc'[g] \in Over <=> pc[g] \in Over) \/ WokenEarly(g)
  PROVE  UNCHANGED Batch!batchVars
<1>1. [h \in Handlers |-> Handed(h)]' = [h \in Handlers |-> Handed(h)]
  OBVIOUS
<1>2. [h \in Handlers |-> Counted(h)]' = [h \in Handlers |-> Counted(h)]
  OBVIOUS
<1>3. {h \in Handlers : Ended(h)}' = {h \in Handlers : Ended(h)}
  BY EndedStays
<1> QED
  BY <1>1, <1>2, <1>3 DEF Batch!batchVars, Ended, Over

(* A call that goes from one of its points to its end with all that it     *)
(* gave the kernel counted is an End of BatchIO.                           *)
LEMMA BatchEnds ==
  ASSUME Inv, [Next]_vars, NEW h \in Handlers, pc[h] \notin Over,
         NEW p \in Over, pc' = [pc EXCEPT ![h] = p], aios' = aios,
         Handed(h) = Counted(h), ~ WokenEarly(h)
  PROVE  Batch!End(h)
<1>1. \A g \in Handlers : Handed(g)' = Handed(g) /\ Counted(g)' = Counted(g)
  BY SetsFrame
<1>2. [g \in Handlers |-> Handed(g)]' = [g \in Handlers |-> Handed(g)]
  BY <1>1
<1>3. [g \in Handlers |-> Counted(g)]' = [g \in Handlers |-> Counted(g)]
  BY <1>1
<1>4. \A g \in Handlers : pc'[g] = IF g = h THEN p ELSE pc[g]
  BY DEF Inv, TypeOK
<1>5. \A g \in Handlers : g # h => (Ended(g)' <=> Ended(g))
  BY <1>4, EndedStays
<1>6. ~ Wake(h)
  BY <1>4, SMT DEF Wake, Goto, Over, Inv, TypeOK
<1>7. ~ Ended(h) /\ Ended(h)'
  BY <1>4, <1>6, EarlyStays DEF Ended
<1>8. {g \in Handlers : Ended(g)}' = {g \in Handlers : Ended(g)} \cup {h}
  BY <1>5, <1>7
<1> QED
  BY <1>2, <1>3, <1>7, <1>8 DEF Batch!End, Ended, Over

(* When the wait is over, all that was handed over has been counted.       *)
LEMMA WaitedForAll ==
  ASSUME Inv, NEW h \in Handlers, pc[h] \in AfterWait, ~ WokenEarly(h)
  PROVE  Handed(h) = Counted(h)
<1>1. Counted(h) = 1 .. aioctx[h].num_pending
  BY DEF Inv, CallInv, SignalMeansDone
<1>2. Handed(h) = 1 .. sub[h].done /\ sub[h].done <= aioctx[h].num_pending
  BY DEF Inv, CallInv, HandsOverPrefix, AfterWait, AtDevice, InUse
<1>3. sub[h].done \in Nat /\ aioctx[h].num_pending \in 0 .. ListLength
  BY DEF Inv, TypeOK, QueueTypeOK, ContextTypeOK, Submission, Context
<1>4. Handed(h) \subseteq 1 .. aioctx[h].num_pending
  BY <1>2, <1>3, QueueAssumption, SMT
<1> QED
  BY <1>1, <1>4, HandedFirst

(* Every step of the server is a step of BatchIO, or stutters.             *)
LEMMA StepBatch ==
  ASSUME Inv, [Next]_vars
  PROVE  Batch!BatchNext \/ UNCHANGED Batch!batchVars
<1> USE DEF Inv
<1>1. ASSUME NEW h \in Handlers, ContextReady(h) \/ PutReadEnds(h)
                \/ GetReadEnds(h) \/ SubmitReturns(h) \/ Sleep(h) \/ Wake(h)
                \/ PutSync(h)
      PROVE  UNCHANGED Batch!batchVars
  <2>1. aios' = aios
    BY <1>1, SMT
    DEF ContextReady, PutReadEnds, GetReadEnds, SubmitReturns, Sleep, Wake,
        PutSync
  <2>2. /\ pc[h] \notin Over
        /\ \E p \in Points \ Over : pc' = [pc EXCEPT ![h] = p]
    BY <1>1, SMT
    DEF ContextReady, PutReadEnds, GetReadEnds, SubmitReturns, Sleep, Wake,
        PutSync, Goto, Points, Over
  <2>3. \A g \in Handlers : pc'[g] \in Over <=> pc[g] \in Over
    BY <2>2 DEF TypeOK
  <2> QED
    BY <2>1, <2>3, SetsFrame, BatchStutters
<1>2. ASSUME NEW h \in Handlers, NEW o \in Offsets, PutRead(h, o) \/ GetRead(h, o)
      PROVE  UNCHANGED Batch!batchVars
  <2>1. pc[h] = "stream" /\ pc' = [pc EXCEPT ![h] = "stream"]
    BY <1>2 DEF PutRead, GetRead, Goto
  <2>2. \A g \in Handlers : pc'[g] = pc[g]
    BY <2>1 DEF TypeOK
  <2>3. \A j \in Slots : \/ aios'[h][j].stage = aios[h][j].stage
                         \/ aios'[h][j].stage = "prepared"
    <3>1. CASE PutRead(h, o)
      BY <3>1, SMT DEF PutRead, BlockDeviceAioWrite, AioPwrite, TypeOK, QueueTypeOK
    <3>2. CASE GetRead(h, o)
      BY <3>2, SMT DEF GetRead, BlockDeviceAioRead, AioPread, TypeOK, QueueTypeOK
    <3> QED
      BY <1>2, <3>1, <3>2
  <2>4. Handed(h) = {} /\ Counted(h) = {}
    BY <2>1, HandedFirst DEF CallInv, HandsOverPrefix
  <2>5. Handed(h)' = {} /\ Counted(h)' = {}
    <3>1. Handed(h)' = {}
      BY <2>3, <2>4 DEF Handed, At
    <3> QED
      BY <3>1, HandedFirst
  <2>6. \A g \in Handlers : g # h => aios'[g] = aios[g]
    BY <1>2, OnlyOwnCall DEF Stream
  <2>7. ASSUME NEW g \in Handlers
        PROVE  Handed(g)' = Handed(g) /\ Counted(g)' = Counted(g)
    BY <2>4, <2>5, <2>6, SetsFrame
  <2> QED
    BY <2>2, <2>7, BatchStutters
<1>3. ASSUME NEW h \in Handlers, PutContextFails(h) \/ GetContextFails(h)
                \/ GetReadFull(h) \/ PutRespond(h) \/ GetRespond(h)
      PROVE  Batch!End(h) \/ UNCHANGED Batch!batchVars
  <2>1. aios' = aios
    BY <1>3, SMT
    DEF PutContextFails, GetContextFails, GetReadFull, PutRespond, GetRespond
  <2>2. /\ pc[h] \in {"start", "stream", "respond"}
        /\ \E p \in Over : pc' = [pc EXCEPT ![h] = p]
    BY <1>3, SMT
    DEF PutContextFails, GetContextFails, GetReadFull, PutRespond, GetRespond,
        Goto, Over
  <2>3. CASE ~ WokenEarly(h)
    <3>1. pc[h] = "respond" => Handed(h) = Counted(h)
      BY <2>3, WaitedForAll DEF AfterWait
    <3>2. pc[h] \in {"start", "stream"} => Handed(h) = Counted(h)
      BY HandedFirst DEF CallInv, HandsOverPrefix
    <3>3. Handed(h) = Counted(h)
      BY <2>2, <3>1, <3>2
    <3> QED
      BY <2>1, <2>2, <2>3, <3>3, BatchEnds DEF Over
  <2>4. CASE WokenEarly(h)
    <3>1. \A g \in Handlers : g # h => pc'[g] = pc[g]
      BY <2>2 DEF TypeOK
    <3> QED
      BY <2>1, <2>4, <3>1, SetsFrame, BatchStutters
  <2> QED
    BY <2>3, <2>4
<1>4. ASSUME NEW h \in Handlers, NEW k \in 1 .. MaxIoDepth, pc[h] = "submit",
             pc' = pc, SubmitAccept(h, aioctx[h].num_pending, k)
      PROVE  Batch!Issue(h, Chunk(h, k)) /\ Chunk(h, k) \in SUBSET Slots
  <2>1. sub[h].done \in Nat /\ aioctx[h].num_pending \in 0 .. ListLength
    BY DEF TypeOK, QueueTypeOK, ContextTypeOK, Submission, Context
  <2>2. sub[h].done + k <= aioctx[h].num_pending /\ Handed(h) = 1 .. sub[h].done
    BY <1>4 DEF SubmitAccept, CallInv, HandsOverPrefix
  <2>3. Chunk(h, k) \subseteq Slots /\ Chunk(h, k) \cap Handed(h) = {}
    <3>1. k \in Nat \ {0}
      BY DeviceAssumption, QueueAssumption
    <3>2. \A j \in Chunk(h, k) :
             j \in Nat /\ sub[h].done < j /\ j <= sub[h].done + k
      BY <2>1, <3>1, SMT DEF Chunk
    <3>3. \A j \in Chunk(h, k) : j \in 1 .. ListLength
      BY <2>1, <2>2, <3>1, <3>2, QueueAssumption, SMT
    <3>4. \A j \in Chunk(h, k) : j \notin 1 .. sub[h].done
      BY <2>1, <3>2, SMT
    <3> QED
      BY <2>2, <3>3, <3>4 DEF Slots
  <2>4. \A g \in Handlers : \A j \in Slots :
           aios'[g][j].stage = IF g = h /\ j \in Chunk(h, k)
                                 THEN "inflight" ELSE aios[g][j].stage
    BY <1>4, SMT DEF SubmitAccept, Moved, TypeOK, QueueTypeOK
  <2>5. \A g \in Handlers :
           Handed(g)' = IF g = h THEN Handed(h) \cup Chunk(h, k) ELSE Handed(g)
    BY <2>3, <2>4 DEF Handed, At
  <2>6. \A g \in Handlers : Counted(g)' = Counted(g)
    <3> SUFFICES ASSUME NEW g \in Handlers, NEW j \in Slots
                 PROVE  aios'[g][j].stage = "counted"
                          <=> aios[g][j].stage = "counted"
      BY DEF Counted, At
    <3>1. g = h /\ j \in Chunk(h, k) => aios[g][j].stage # "counted"
      BY <2>3 DEF Handed, At
    <3> QED
      BY <2>4, <3>1
  <2>7. [g \in Handlers |-> Handed(g)]'
          = [[g \in Handlers |-> Handed(g)] EXCEPT ![h] = @ \cup Chunk(h, k)]
    BY <2>5
  <2>8. [g \in Handlers |-> Counted(g)]' = [g \in Handlers |-> Counted(g)]
    BY <2>6
  <2>9. {g \in Handlers : Ended(g)}' = {g \in Handlers : Ended(g)}
    BY <1>4, EndedStays
  <2> QED
    BY <1>4, <2>3, <2>7, <2>8, <2>9 DEF Batch!Issue, Ended, Over
<1>5. ASSUME NEW h \in Handlers, aios'[h] = aios[h], pc' = pc,
             SubmitAgain(h, aioctx[h].num_pending)
      PROVE  UNCHANGED Batch!batchVars
  BY <1>5, SetsFrame, BatchStutters DEF SubmitAgain
<1>6. ASSUME NEW h \in Handlers, NEW i \in Slots, KernelCompletes(h, i)
      PROVE  UNCHANGED Batch!batchVars
  <2>1. /\ pc' = pc
        /\ \A g \in Handlers : \A j \in Slots :
              \/ aios'[g][j].stage = aios[g][j].stage
              \/ aios[g][j].stage = "inflight" /\ aios'[g][j].stage = "completed"
    BY <1>6, SMT DEF KernelCompletes, Complete, TypeOK, QueueTypeOK
  <2>2. \A g \in Handlers : Handed(g)' = Handed(g) /\ Counted(g)' = Counted(g)
    BY <2>1 DEF Handed, Counted, At
  <2> QED
    BY <2>1, <2>2, BatchStutters
<1>7. CASE ReaperReads
  <2>1. PICK S \in SUBSET AllAt({"completed"}) : Getevents(ReapMax, S)
    BY <1>7 DEF ReaperReads, ReapEvents
  <2>2. /\ pc' = pc
        /\ \A g \in Handlers : \A j \in Slots :
              \/ aios'[g][j].stage = aios[g][j].stage
              \/ aios[g][j].stage = "completed" /\ aios'[g][j].stage = "reaped"
    BY <1>7, <2>1, SMT DEF ReaperReads, Getevents, AllAt, Moved
  <2>3. \A g \in Handlers : Handed(g)' = Handed(g) /\ Counted(g)' = Counted(g)
    BY <2>2 DEF Handed, Counted, At
  <2> QED
    BY <2>2, <2>3, BatchStutters
<1>8. ASSUME NEW h \in Handlers, NEW i \in Slots, ReaperCounts(h, i)
      PROVE  Batch!Finish(h, i)
  <2>1. /\ pc' = pc
        /\ aios[h][i].stage = "reaped"
        /\ \A g \in Handlers : \A j \in Slots :
              aios'[g][j].stage = IF g = h /\ j = i THEN "counted"
                                                   ELSE aios[g][j].stage
    BY <1>8, SMT DEF ReaperCounts, CountEvent, Moved, TypeOK, QueueTypeOK
  <2>2. i \in Handed(h) /\ i \notin Counted(h)
    BY <2>1 DEF Handed, Counted, At
  <2>3. \A g \in Handlers :
           /\ Handed(g)' = Handed(g)
           /\ Counted(g)' = IF g = h THEN Counted(h) \cup {i} ELSE Counted(g)
    BY <2>1 DEF Handed, Counted, At
  <2>4. [g \in Handlers |-> Counted(g)]'
          = [[g \in Handlers |-> Counted(g)] EXCEPT ![h] = @ \cup {i}]
    BY <2>3
  <2>5. [g \in Handlers |-> Handed(g)]' = [g \in Handlers |-> Handed(g)]
    BY <2>3
  <2>6. {g \in Handlers : Ended(g)}' = {g \in Handlers : Ended(g)}
    BY <2>1, EndedStays
  <2> QED
    BY <2>1, <2>2, <2>4, <2>5, <2>6 DEF Batch!Finish, Ended, Over
<1>9. CASE UNCHANGED vars
  BY <1>9, SetsFrame, BatchStutters DEF vars
<1>10. ASSUME NEW h \in Handlers, SubmitLoop(h)
       PROVE  Batch!BatchNext \/ UNCHANGED Batch!batchVars
  <2>1. pc[h] = "submit" /\ pc' = pc
    BY <1>10 DEF SubmitLoop
  <2>2. CASE SubmitAgain(h, aioctx[h].num_pending)
    BY <1>5, <2>1, <2>2 DEF SubmitAgain
  <2>3. ASSUME NEW k \in 1 .. MaxIoDepth,
               SubmitAccept(h, aioctx[h].num_pending, k)
        PROVE  Batch!BatchNext
    BY <1>4, <2>1, <2>3 DEF Batch!BatchNext
  <2> QED
    BY <1>10, <2>2, <2>3 DEF SubmitLoop, BlockDeviceSubmitStep
<1> QED
  BY <1>1, <1>2, <1>3, <1>6, <1>7, <1>8, <1>9, <1>10
  DEF Next, Begin, Stream, Run, Batch!BatchNext

(* The server starts as BatchIO does.                                      *)
LEMMA InitBatch == Init => Batch!BatchInit
<1> SUFFICES ASSUME Init PROVE Batch!BatchInit
  OBVIOUS
<1>1. \A h \in Handlers : Handed(h) = {} /\ Counted(h) = {}
  BY DEF Init, QueueInit, Handed, Counted, At
<1>2. {h \in Handlers : pc[h] \in {"answered", "closed"}
                           /\ ~ WokenEarly(h)} = {}
  BY DEF Init
<1> QED
  BY <1>1, <1>2 DEF Batch!BatchInit

(* Every I/O of a call is issued and counted at most once, and the call    *)
(* ends only when all it issued is counted: the server implements BatchIO. *)
(* The end of a call that was woken early is not held to it.               *)
THEOREM ImplementsBatchIOHolds == Spec => ImplementsBatchIO
<1>1. Spec => []Inv
  BY InvCorrect
<1>2. Inv /\ [Next]_vars => [Batch!BatchNext]_(Batch!batchVars)
  BY StepBatch
<1> QED
  BY <1>1, <1>2, InitBatch, PTL
  DEF Spec, ImplementsBatchIO, Batch!BatchSpec

-----------------------------------------------------------------------------
(* What a Put's answer means                                               *)

(* Nothing touches the control blocks of a call after its wait.            *)
LEMMA Settled ==
  ASSUME Inv, [Next]_vars, NEW h \in Handlers,
         pc[h] \in AfterWait \cup {"answered"}, ~ WokenEarly(h)
  PROVE  aios'[h] = aios[h]
<1> USE DEF Inv
<1>1. \A i \in Slots :
         aios[h][i].stage \notin {"inflight", "completed", "reaped"}
  <2>1. Outstanding(h) = {}
    BY OutstandingMeansWaiting DEF AfterWait
  <2> QED
    BY <2>1 DEF Outstanding, At
<1>2. ASSUME NEW g \in Handlers, g # h, Begin(g) \/ Stream(g) \/ Run(g)
      PROVE  aios'[h] = aios[h]
  BY <1>2, OnlyOwnCall
<1>3. CASE Begin(h) \/ Stream(h) \/ Run(h)
  BY <1>3, SMT
  DEF Begin, ContextReady, PutContextFails, GetContextFails, Stream, PutRead,
      GetRead, PutReadEnds, GetReadEnds, GetReadFull, Run, SubmitLoop,
      SubmitReturns, Sleep, Wake, PutSync, PutRespond, GetRespond, Goto,
      AfterWait
<1>4. ASSUME NEW g \in Handlers, NEW i \in Slots,
             KernelCompletes(g, i) \/ ReaperCounts(g, i)
      PROVE  aios'[h] = aios[h]
  <2>1. aios[g][i].stage \in {"inflight", "reaped"}
    BY <1>4 DEF KernelCompletes, Complete, ReaperCounts, CountEvent
  <2>2. g # h
    BY <1>1, <2>1
  <2> QED
    BY <1>4, <2>2, SMT
    DEF KernelCompletes, Complete, ReaperCounts, CountEvent, TypeOK,
        QueueTypeOK
<1>5. CASE ReaperReads
  <2>1. PICK S \in SUBSET AllAt({"completed"}) : Getevents(ReapMax, S)
    BY <1>5 DEF ReaperReads, ReapEvents
  <2>2. \A i \in Slots : <<h, i>> \notin S
    BY <1>1 DEF AllAt
  <2>3. aios'[h] = [i \in Slots |-> aios[h][i]]
    BY <2>1, <2>2 DEF Getevents
  <2> QED
    BY <2>3 DEF TypeOK, QueueTypeOK
<1>6. CASE UNCHANGED vars
  BY <1>6 DEF vars
<1> QED
  BY <1>2, <1>3, <1>4, <1>5, <1>6 DEF Next

(* What has a value is a function of the control blocks.                   *)
LEMMA FinishedFrame ==
  ASSUME NEW h, aios'[h] = aios[h]
  PROVE  Finished(h)' = Finished(h) /\ SoleValue(h)' = SoleValue(h)
BY DEF Finished, At, SoleValue

(* The fsync of a Put covers all its writes that succeeded, and none comes *)
(* after it.                                                               *)
LEMMA StepSynced ==
  ASSUME Inv, [Next]_vars, NEW h \in Puts, Synced(h)
  PROVE  Synced(h)'
<1> h \in Handlers
  BY ServerAssumption
<1> USE DEF Inv
<1>1. durable \subseteq durable' /\ unsynced \subseteq unsynced'
  BY SMT
  DEF Next, Begin, ContextReady, PutContextFails, GetContextFails, Stream,
      PutRead, GetRead, PutReadEnds, GetReadEnds, GetReadFull, Run,
      SubmitLoop, SubmitReturns, Sleep, Wake, PutSync, Fsync, PutRespond,
      GetRespond, KernelCompletes, ReaperReads, ReaperCounts, vars
<1>2. CASE pc[h] \in {"respond", "answered"}
  <2>1. CASE ~ WokenEarly(h)
    <3>1. Finished(h)' = Finished(h)
      BY <1>2, <2>1, Settled, FinishedFrame DEF AfterWait
    <3> QED
      BY <1>1, <1>2, <2>1, <3>1 DEF Synced
  <2>2. CASE WokenEarly(h)
    BY <2>2, EarlyStays DEF Synced
  <2> QED
    BY <2>1, <2>2
<1>3. CASE PutContextFails(h)
  <2>1. Handed(h) = {} /\ aios'[h] = aios[h]
    BY <1>3 DEF PutContextFails, Goto, CallInv, HandsOverPrefix
  <2>2. Finished(h)' = {}
    BY <2>1, FinishedFrame DEF Finished, Handed, At
  <2> QED
    BY <2>2 DEF Synced
<1>4. CASE PutSync(h)
  <2>1. Finished(h)' = Finished(h) /\ Finished(h) \subseteq Slots
    BY <1>4, FinishedFrame DEF PutSync, Finished, At
  <2>2. (\A i \in Finished(h) : <<h, i>> \in durable') \/ h \in unsynced'
    BY <1>4, <2>1 DEF PutSync, Fsync
  <2> QED
    BY <2>1, <2>2 DEF Synced
<1>5. CASE /\ pc[h] \notin {"respond", "answered"}
           /\ ~ PutContextFails(h) /\ ~ PutSync(h)
  <2>1. pc'[h] \notin {"respond", "answered"}
    <3>1. ASSUME NEW g \in Handlers, g # h, Begin(g) \/ Stream(g) \/ Run(g)
          PROVE  pc'[h] = pc[h]
      BY <3>1, OnlyOwnCall
    <3>2. CASE Begin(h) \/ Stream(h) \/ Run(h)
      BY <1>5, <3>2, SMT
      DEF Begin, ContextReady, GetContextFails, Stream, PutRead, GetRead,
          PutReadEnds, GetReadEnds, GetReadFull, Run, SubmitLoop,
          SubmitReturns, Sleep, Wake, PutRespond, GetRespond, Goto, Gets,
          TypeOK
    <3>3. ASSUME pc' = pc PROVE pc'[h] = pc[h]
      BY <3>3
    <3> QED
      BY <1>5, <3>1, <3>2, <3>3
      DEF Next, KernelCompletes, ReaperReads, ReaperCounts, vars
  <2> QED
    BY <2>1 DEF Synced
<1> QED
  BY <1>2, <1>3, <1>4, <1>5

(* When a Put answers, its writes that succeeded are on stable storage,    *)
(* whichever other Puts failed in their fsync or were woken early.         *)
THEOREM AnsweredWritesDurableHolds == Spec => []AnsweredWritesDurable
<1> DEFINE S == \A h \in Puts : Synced(h)
<1>1. Spec => []Inv
  BY InvCorrect
<1>2. Init => S
  BY ServerAssumption DEF Init, Synced
<1>3. Inv /\ S /\ [Next]_vars => S'
  BY StepSynced
<1>4. S => AnsweredWritesDurable
  BY DEF Synced, AnsweredWritesDurable
<1> HIDE DEF S
<1> QED
  BY <1>1, <1>2, <1>3, <1>4, PTL DEF Spec

(* A step that a call takes by itself leaves the others' locals alone.     *)
LEMMA OnlyOwnLocals ==
  ASSUME TypeOK, NEW g \in Handlers, NEW h \in Handlers, g # h,
         Begin(h) \/ Stream(h) \/ Run(h)
  PROVE  count'[g] = count[g] /\ errcode'[g] = errcode[g]
BY SMT
DEF TypeOK, Begin, ContextReady, PutContextFails, GetContextFails, Stream,
    PutRead, GetRead, PutReadEnds, GetReadEnds, GetReadFull, Run, SubmitLoop,
    SubmitReturns, Sleep, Wake, PutSync, PutRespond, GetRespond

(* What a Put does itself, by what it leaves of its state.                 *)
LEMMA PutSteps ==
  ASSUME TypeOK, NEW h \in Puts, Begin(h) \/ Stream(h) \/ Run(h)
  PROVE
    \/ /\ pc[h] = "start" /\ pc'[h] = "stream"
       /\ count'[h] = count[h] /\ aioctx'[h].num_pending = 0
    \/ /\ pc[h] = "start" /\ pc'[h] = "answered" /\ count'[h] = count[h]
    \/ /\ pc[h] = "stream" /\ pc'[h] = "stream"
       /\ count'[h] = count[h] + 1
       /\ aioctx'[h].num_pending = aioctx[h].num_pending + 1
    \/ /\ pc[h] = "stream" /\ pc'[h] = "submit"
       /\ count'[h] = count[h] + 1 /\ aioctx'[h] = aioctx[h]
       /\ aios'[h] = aios[h]
    \/ SubmitLoop(h) /\ pc[h] = "submit"
    \/ /\ pc[h] \in AtDevice /\ pc'[h] \in AtDevice
       /\ count'[h] = count[h] /\ aioctx'[h] = aioctx[h] /\ aios'[h] = aios[h]
    \/ /\ pc[h] = "respond" /\ pc'[h] = "answered" /\ aios'[h] = aios[h]
       /\ count'[h] = count[h] /\ errcode'[h] = aioctx[h].rval
<1> USE ServerAssumption DEF TypeOK, Goto, AtDevice, InUse
<1>0. h \in Handlers /\ h \notin Gets
  BY DEF Gets
<1>1. CASE Begin(h)
  BY <1>0, <1>1, SMT
  DEF Begin, ContextReady, AioContextInit, PutContextFails, GetContextFails,
      ContextTypeOK
<1>2. CASE \E o \in Offsets : PutRead(h, o)
  BY <1>0, <1>2, SMT
  DEF PutRead, BlockDeviceAioWrite, AioContextAdd, ContextTypeOK, Context
<1>3. CASE PutReadEnds(h)
  BY <1>0, <1>3, SMT DEF PutReadEnds
<1>4. CASE SubmitLoop(h)
  BY <1>4 DEF SubmitLoop
<1>5. CASE SubmitReturns(h) \/ Sleep(h) \/ Wake(h) \/ PutSync(h)
  BY <1>0, <1>5, SMT DEF SubmitReturns, Sleep, Wake, PutSync
<1>6. CASE PutRespond(h)
  BY <1>0, <1>6, SMT DEF PutRespond
<1> QED
  BY <1>0, <1>1, <1>2, <1>3, <1>4, <1>5, <1>6
  DEF Stream, Run, GetRead, GetReadEnds, GetReadFull, GetRespond

(* What the kernel and the reaper do to a call.                            *)
LEMMA DeviceSteps ==
  ASSUME TypeOK, NEW h \in Handlers,
         \/ \E g \in Handlers, i \in Slots :
               KernelCompletes(g, i) \/ ReaperCounts(g, i)
         \/ ReaperReads
  PROVE  /\ pc' = pc /\ count' = count /\ errcode' = errcode
         /\ aioctx'[h].num_pending = aioctx[h].num_pending
<1>1. ASSUME NEW g \in Handlers, NEW i \in Slots, ReaperCounts(g, i)
      PROVE  aioctx'[h].num_pending = aioctx[h].num_pending
  BY <1>1, SMT
  DEF ReaperCounts, CountEvent, AioContextTryWake, TypeOK, ContextTypeOK,
      Context
<1> QED
  BY <1>1 DEF KernelCompletes, ReaperReads, ReaperCounts

(* Put's count runs one ahead of the context's.                            *)
LEMMA StepCounts ==
  ASSUME Inv, [Next]_vars, NEW h \in Puts, CountsRequests(h)
  PROVE  CountsRequests(h)'
<1> h \in Handlers
  BY ServerAssumption
<1>1. /\ count[h] \in Nat /\ aioctx[h].num_pending \in Nat
  BY SMT, QueueAssumption DEF Inv, TypeOK, ContextTypeOK, Context
<1> USE DEF CountsRequests, AtDevice, InUse, Inv
<1>2. ASSUME NEW g \in Handlers, g # h, Begin(g) \/ Stream(g) \/ Run(g)
      PROVE  CountsRequests(h)'
  BY <1>2, OnlyOwnCall, OnlyOwnLocals
<1>3. CASE Begin(h) \/ Stream(h) \/ Run(h)
  <2>1. SubmitLoop(h) => count' = count /\ aioctx' = aioctx /\ pc' = pc
    BY DEF SubmitLoop
  <2> QED
    BY <1>1, <1>3, <2>1, PutSteps, SMT
<1>4. CASE \/ \E g \in Handlers, i \in Slots :
                KernelCompletes(g, i) \/ ReaperCounts(g, i)
           \/ ReaperReads
  BY <1>4, DeviceSteps
<1>5. CASE UNCHANGED vars
  BY <1>5 DEF vars
<1> QED
  BY <1>2, <1>3, <1>4, <1>5 DEF Next

(* While nothing of a call changes its part stays.                         *)
LEMMA SoleFrame ==
  ASSUME NEW h \in Handlers, SoleCounted(h), aios'[h] = aios[h],
         \/ pc'[h] = pc[h]
         \/ pc[h] \in AtDevice /\ pc'[h] \in AtDevice,
         count'[h] = count[h],
         errcode'[h] = errcode[h] \/ pc[h] # "answered",
         aioctx'[h] = aioctx[h] \/ pc[h] = "answered",
         WokenEarly(h) => WokenEarly(h)'
  PROVE  SoleCounted(h)'
BY SetsFrame, FinishedFrame DEF SoleCounted, AtDevice, InUse

(* The context of a batch of one keeps the value of its event, and the     *)
(* answer is that value.                                                   *)
LEMMA StepSole ==
  ASSUME Inv, [Next]_vars, NEW h \in Puts, CountsRequests(h), SoleCounted(h)
  PROVE  SoleCounted(h)'
<1> h \in Handlers
  BY ServerAssumption
<1> 1 \in Slots
  BY QueueAssumption DEF Slots
<1>0. WokenEarly(h) => WokenEarly(h)'
  BY EarlyStays
<1> USE DEF Inv
<1>1. ASSUME NEW g \in Handlers, g # h, Begin(g) \/ Stream(g) \/ Run(g)
      PROVE  SoleCounted(h)'
  BY <1>0, <1>1, OnlyOwnCall, OnlyOwnLocals, SoleFrame
<1>2. CASE Begin(h) \/ Stream(h) \/ Run(h)
  <2>1. CASE pc'[h] = "stream"
    BY <2>1 DEF SoleCounted, AtDevice, InUse
  <2>2. CASE pc[h] = "start" /\ pc'[h] = "answered" /\ count'[h] = count[h]
    BY <2>2 DEF SoleCounted, CountsRequests, AtDevice, InUse
  <2>3. CASE pc[h] = "stream" /\ pc'[h] = "submit" /\ aios'[h] = aios[h]
    <3>1. Counted(h)' = {}
      BY <2>3, SetsFrame, HandedFirst DEF CallInv, HandsOverPrefix
    <3> QED
      BY <2>3, <3>1 DEF SoleCounted
  <2>4. CASE SubmitLoop(h) /\ pc[h] = "submit"
    <3>1. pc' = pc /\ aioctx' = aioctx
      BY <2>4 DEF SubmitLoop
    <3>2. \A j \in Slots : /\ aios'[h][j].rval = aios[h][j].rval
                           /\ \/ aios'[h][j].stage = aios[h][j].stage
                              \/ aios'[h][j].stage = "inflight"
      BY <2>4, SMT
      DEF SubmitLoop, BlockDeviceSubmitStep, SubmitAccept, SubmitAgain, Moved,
          TypeOK, QueueTypeOK
    <3>3. Counted(h)' \subseteq Counted(h) /\ SoleValue(h)' = SoleValue(h)
      BY <3>2 DEF Counted, At, SoleValue
    <3> QED
      BY <2>4, <3>1, <3>3 DEF SoleCounted
  <2>5. CASE /\ pc[h] \in AtDevice /\ pc'[h] \in AtDevice
             /\ count'[h] = count[h] /\ aioctx'[h] = aioctx[h]
             /\ aios'[h] = aios[h]
    BY <1>0, <2>5, SoleFrame DEF AtDevice, InUse
  <2>6. CASE /\ pc[h] = "respond" /\ pc'[h] = "answered"
             /\ aios'[h] = aios[h]
             /\ count'[h] = count[h] /\ errcode'[h] = aioctx[h].rval
    <3> SUFFICES ASSUME count[h] = 2, ~ WokenEarly(h)
                 PROVE  /\ aioctx[h].rval = SoleValue(h)
                        /\ Handed(h) = {1} /\ Counted(h) = {1}
      BY <1>0, <2>6, SetsFrame, FinishedFrame DEF SoleCounted, AtDevice, InUse
    <3>1. aioctx[h].num_pending \in 0 .. ListLength
      BY DEF TypeOK, ContextTypeOK, Context
    <3>2. aioctx[h].num_pending = 1
      BY <2>6, <3>1, QueueAssumption, SMT DEF CountsRequests, AtDevice, InUse
    <3>3. Counted(h) = {1}
      <4>1. Counted(h) = 1 .. aioctx[h].num_pending
        BY <2>6 DEF CallInv, SignalMeansDone, AfterWait
      <4> QED
        BY <3>2, <4>1, SMT
    <3>4. Handed(h) = {1}
      BY <2>6, <3>3, WaitedForAll DEF AfterWait
    <3> QED
      BY <2>6, <3>2, <3>3, <3>4 DEF SoleCounted, AtDevice, InUse
  <2> QED
    BY <1>2, <2>1, <2>2, <2>3, <2>4, <2>5, <2>6, PutSteps
<1>3. ASSUME NEW g \in Handlers, NEW i \in Slots, KernelCompletes(g, i)
      PROVE  SoleCounted(h)'
  <2>1. /\ pc' = pc /\ count' = count /\ errcode' = errcode /\ aioctx' = aioctx
        /\ aios[g][i].stage = "inflight"
        /\ \A j \in Slots :
              \/ aios'[h][j] = aios[h][j]
              \/ /\ <<h, j>> = <<g, i>> /\ aios'[h][j].stage = "completed"
    BY <1>3, SMT DEF KernelCompletes, Complete, TypeOK, QueueTypeOK
  <2>2. CASE pc[h] = "answered"
    BY <1>0, <2>1, <2>2, Settled, SoleFrame DEF SoleCounted, AtDevice, InUse
  <2>3. CASE pc[h] # "answered"
    <3>1. 1 \in Counted(h)' =>
             1 \in Counted(h) /\ SoleValue(h)' = SoleValue(h)
      BY <2>1 DEF Counted, At, SoleValue
    <3> QED
      BY <2>1, <2>3, <3>1 DEF SoleCounted
  <2> QED
    BY <2>2, <2>3
<1>4. CASE ReaperReads
  <2>1. PICK S \in SUBSET AllAt({"completed"}) : Getevents(ReapMax, S)
    BY <1>4 DEF ReaperReads, ReapEvents
  <2>2. /\ pc' = pc /\ count' = count /\ errcode' = errcode /\ aioctx' = aioctx
        /\ \A j \in Slots :
              /\ aios'[h][j].rval = aios[h][j].rval
              /\ \/ aios'[h][j].stage = aios[h][j].stage
                 \/ aios'[h][j].stage = "reaped"
    BY <1>4, <2>1, SMT DEF ReaperReads, Getevents, Moved
  <2>3. CASE pc[h] = "answered"
    BY <1>0, <2>2, <2>3, Settled, SoleFrame DEF SoleCounted, AtDevice, InUse
  <2>4. CASE pc[h] # "answered"
    <3>1. Counted(h)' \subseteq Counted(h) /\ SoleValue(h)' = SoleValue(h)
      BY <2>2 DEF Counted, At, SoleValue
    <3> QED
      BY <2>2, <2>4, <3>1 DEF SoleCounted
  <2> QED
    BY <2>3, <2>4
<1>5. ASSUME NEW g \in Handlers, NEW i \in Slots, ReaperCounts(g, i)
      PROVE  SoleCounted(h)'
  <2>1. pc' = pc /\ count' = count /\ errcode' = errcode
    BY <1>5, DeviceSteps
  <2>2. CASE g # h
    <3>1. aios'[h] = aios[h] /\ aioctx'[h] = aioctx[h]
      BY <1>5, <2>2, SMT
      DEF ReaperCounts, CountEvent, AioContextTryWake, TypeOK, QueueTypeOK,
          ContextTypeOK
    <3> QED
      BY <1>0, <2>1, <3>1, SoleFrame
  <2>3. CASE g = h
    <3>1. aios[h][i].stage = "reaped" /\ i \in Outstanding(h)
      BY <1>5, <2>3 DEF ReaperCounts, CountEvent, Outstanding, At
    <3>2. i \in Handed(h) /\ pc[h] \in AtDevice
      <4>1. i \in Handed(h) /\ aioctx[h].live
        BY <1>5, <2>3, <3>1, HandedFirst DEF ReaperCounts, CountEvent
      <4> QED
        BY <4>1 DEF CallInv, CountsEvents, HandsOverPrefix, AtDevice
    <3> SUFFICES ASSUME aioctx[h].num_pending = 1
                 PROVE  aioctx'[h].rval = SoleValue(h)'
      BY <1>5, <2>1, <3>2, DeviceSteps DEF SoleCounted, AtDevice, InUse
    <3>3. i = 1
      <4>1. Handed(h) = 1 .. sub[h].done /\ sub[h].done <= 1
        BY <3>2 DEF CallInv, HandsOverPrefix, AtDevice, InUse
      <4>2. sub[h].done \in Nat
        BY DEF TypeOK, QueueTypeOK, Submission
      <4> QED
        BY <3>2, <4>1, <4>2, SMT
    <3>4. /\ aioctx'[h].rval = EventRval(aios[h][1].rval)
          /\ aios'[h][1].rval = aios[h][1].rval
      BY <1>5, <2>3, <3>3, SMT
      DEF ReaperCounts, CountEvent, AioContextTryWake, Moved, TypeOK,
          QueueTypeOK, ContextTypeOK
    <3>5. EventRval(aios[h][1].rval) = SoleValue(h)
      BY QueueAssumption, SMT DEF EventRval, SoleValue
    <3> QED
      BY <3>4, <3>5 DEF SoleValue
  <2> QED
    BY <2>2, <2>3
<1>6. CASE UNCHANGED vars
  BY <1>0, <1>6, SoleFrame DEF vars
<1> QED
  BY <1>1, <1>2, <1>3, <1>4, <1>5, <1>6 DEF Next

(* The answer to a Put of one request tells exactly whether all its bytes  *)
(* were written.                                                           *)
THEOREM SoleRequestExactHolds == Spec => []SoleRequestExact
<1> DEFINE S == \A h \in Puts : CountsRequests(h) /\ SoleCounted(h)
<1>1. Spec => []Inv
  BY InvCorrect
<1>2. Init => S
  BY ServerAssumption
  DEF Init, CountsRequests, SoleCounted, AtDevice, InUse
<1>3. Inv /\ S /\ [Next]_vars => S'
  BY StepCounts, StepSole
<1>4. S => SoleRequestExact
  <2> SUFFICES ASSUME S, NEW h \in Puts, pc[h] = "answered", count[h] = 2,
                      ~ WokenEarly(h)
               PROVE  errcode[h] = IF Finished(h) = {1} THEN Length ELSE -EIO
    BY DEF SoleRequestExact
  <2>1. errcode[h] = SoleValue(h) /\ Handed(h) = {1} /\ Counted(h) = {1}
    BY DEF SoleCounted
  <2>2. At(h, {"completed", "reaped", "counted"}) = {1}
    BY <2>1 DEF At, Handed, Counted
  <2>3. Finished(h) = {1} <=> aios[h][1].rval = Length
    BY <2>2 DEF Finished
  <2> QED
    BY <2>1, <2>3 DEF SoleValue
<1> HIDE DEF S
<1> QED
  BY <1>1, <1>2, <1>3, <1>4, PTL DEF Spec

=============================================================================
