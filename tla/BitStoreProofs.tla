---------------------------- MODULE BitStoreProofs --------------------------
(***************************************************************************)
(* Proofs about BitStore, for every number of calls, slots, streamed       *)
(* requests, ring size, retry count and set of kernel results.             *)
(***************************************************************************)
EXTENDS BitStoreInductive, FiniteSetTheorems, TLAPS

USE DEF queueVars, contextVars, mediumVars, locals

-----------------------------------------------------------------------------
(* Type correctness                                                        *)

(* The queue's part: preparing a request (aio_pread, aio_pwrite) keeps the *)
(* control blocks in their types.                                          *)
LEMMA PreparePreservesType ==
  ASSUME QueueTypeOK, NEW h \in Handlers, NEW i \in Slots, NEW o \in Offsets,
         AioPwrite(h, i, o) \/ AioPread(h, i, o), sub' = sub
  PROVE  QueueTypeOK'
<1>1. aios' = [aios EXCEPT ![h][i] = [stage |-> "prepared", offset |-> o,
                                      rval |-> aios[h][i].rval]]
  BY DEF AioPwrite, AioPread
<1> QED BY <1>1, SMT DEF QueueTypeOK, Aio, Stages

(* So does every turn of aio_queue_submit's loop; in particular the        *)
(* retries never go below zero.                                            *)
LEMMA SubmitPreservesType ==
  ASSUME QueueTypeOK, NEW h \in Handlers, BlockDeviceSubmitStep(h)
  PROVE  QueueTypeOK'
<1> USE QueueAssumption, DeviceAssumption
<1>1. ASSUME NEW k \in 1 .. MaxIoDepth,
             SubmitAccept(h, aioctx[h].num_pending, k)
      PROVE  QueueTypeOK'
  <2>1. aios' \in [Handlers -> [Slots -> Aio]]
    BY <1>1, SMT DEF QueueTypeOK, SubmitAccept, Moved, Aio, Stages
  <2>2. sub' \in [Handlers -> Submission]
    BY <1>1 DEF QueueTypeOK, SubmitAccept, Submission, FirstDelay
  <2> QED BY <2>1, <2>2 DEF QueueTypeOK
<1>2. CASE SubmitAgain(h, aioctx[h].num_pending)
  BY <1>2, SMT DEF QueueTypeOK, SubmitAgain, Retried, Submission
<1> QED BY <1>1, <1>2 DEF BlockDeviceSubmitStep

(* The server starts with every variable in its type.                      *)
LEMMA InitTypeOK == Init => TypeOK
<1> SUFFICES ASSUME Init PROVE TypeOK
  OBVIOUS
<1>1. QueueTypeOK
  <2>1. (CHOOSE o \in Offsets : TRUE) \in Offsets
    BY QueueAssumption
  <2> QED
    BY <2>1, QueueAssumption
    DEF Init, QueueInit, QueueTypeOK, Aio, Stages, Submission, SubmitStart,
        FirstDelay
<1>2. ContextTypeOK
  BY QueueAssumption DEF Init, ContextInit, ContextTypeOK, Context, DeadContext
<1>3. DeviceTypeOK
  BY DEF Init, DeviceInit, DeviceTypeOK
<1> QED
  BY <1>1, <1>2, <1>3 DEF Init, TypeOK, Points, BITSTORE_OK

(* Every step of the server keeps every variable in its type.              *)
LEMMA StepTypeOK == TypeOK /\ [Next]_vars => TypeOK'
<1> SUFFICES ASSUME TypeOK, [Next]_vars PROVE TypeOK'
  OBVIOUS
<1> USE DEF TypeOK, DeviceTypeOK, Goto, Points
<1>1. ASSUME NEW h \in Handlers, ContextReady(h) PROVE TypeOK'
  BY <1>1, QueueAssumption, SMT DEF ContextReady, AioContextInit, QueueTypeOK, ContextTypeOK,
              Context, RvalUnset
<1>2. ASSUME NEW h \in Handlers, PutContextFails(h) PROVE TypeOK'
  BY <1>2, SMT DEF PutContextFails, ContextInitErrors, QueueTypeOK, ContextTypeOK
<1>3. ASSUME NEW h \in Handlers, GetContextFails(h) PROVE TypeOK'
  BY <1>3, SMT DEF GetContextFails, ContextInitErrors, QueueTypeOK, ContextTypeOK
<1>4. ASSUME NEW h \in Handlers, NEW o \in Offsets,
             PutRead(h, o) \/ GetRead(h, o)
      PROVE  TypeOK'
  <2>1. BlockDeviceAioWrite(h, o) \/ BlockDeviceAioRead(h, o)
    BY <1>4 DEF PutRead, GetRead
  <2>2. AioContextAdd(h)
    BY <2>1 DEF BlockDeviceAioWrite, BlockDeviceAioRead
  <2>3. aioctx[h].num_pending \in 0 .. ListLength
    BY DEF ContextTypeOK, Context
  <2>4. aioctx[h].num_pending # ListLength
    BY <2>2 DEF AioContextAdd, AioContextFull
  <2>5. aioctx[h].num_pending + 1 \in 1 .. ListLength
    BY <2>3, <2>4, QueueAssumption
  <2>6. QueueTypeOK'
    <3>1. NextSlot(h) \in Slots
      BY <2>5 DEF NextSlot, Slots
    <3> QED
      BY <1>4, <2>1, <3>1, PreparePreservesType
      DEF BlockDeviceAioWrite, BlockDeviceAioRead, PutRead, GetRead
  <2>7. ContextTypeOK'
    <3>1. cond' = cond
      BY <1>4 DEF PutRead, GetRead
    <3> QED
      BY <2>2, <2>5, <3>1, SMT DEF AioContextAdd, ContextTypeOK, Context
  <2> QED
    BY <1>4, <2>6, <2>7, SMT DEF PutRead, GetRead, BITSTORE_OK
<1>5. ASSUME NEW h \in Handlers, PutReadEnds(h) PROVE TypeOK'
  BY <1>5, SMT, QueueAssumption
  DEF PutReadEnds, QueueTypeOK, ContextTypeOK, SubmitStart, Submission,
      FirstDelay
<1>6. ASSUME NEW h \in Handlers, GetReadEnds(h) PROVE TypeOK'
  BY <1>6, SMT, QueueAssumption
  DEF GetReadEnds, QueueTypeOK, ContextTypeOK, SubmitStart, Submission,
      FirstDelay
<1>7. ASSUME NEW h \in Handlers, GetReadFull(h) PROVE TypeOK'
  BY <1>7, QueueAssumption, SMT
  DEF GetReadFull, AioContextDestroy, ERR_LIST_FULL, QueueTypeOK,
      ContextTypeOK, Context
<1>8. ASSUME NEW h \in Handlers, SubmitLoop(h) PROVE TypeOK'
  BY <1>8, SMT, SubmitPreservesType DEF SubmitLoop, ContextTypeOK
<1>9. ASSUME NEW h \in Handlers, SubmitReturns(h) PROVE TypeOK'
  BY <1>9, SMT DEF SubmitReturns, EAGAIN, EINVAL, BITSTORE_OK, QueueTypeOK,
              ContextTypeOK
<1>10. ASSUME NEW h \in Handlers, Sleep(h) PROVE TypeOK'
  BY <1>10, SMT DEF Sleep, CondSleep, QueueTypeOK, ContextTypeOK
<1>11. ASSUME NEW h \in Handlers, Wake(h) PROVE TypeOK'
  BY <1>11, SMT DEF Wake, CondReturn, QueueTypeOK, ContextTypeOK
<1>12. ASSUME NEW h \in Handlers, PutSync(h) PROVE TypeOK'
  BY <1>12, SMT, ServerAssumption
  DEF PutSync, Fsync, QueueTypeOK, ContextTypeOK
<1>13. ASSUME NEW h \in Handlers, PutRespond(h) PROVE TypeOK'
  BY <1>13, QueueAssumption, SMT
  DEF PutRespond, AioContextDestroy, QueueTypeOK, ContextTypeOK, Context
<1>14. ASSUME NEW h \in Handlers, GetRespond(h) PROVE TypeOK'
  BY <1>14, QueueAssumption, SMT
  DEF GetRespond, AioContextDestroy, QueueTypeOK, ContextTypeOK, Context
<1>15. ASSUME NEW h \in Handlers, NEW i \in Slots, KernelCompletes(h, i)
       PROVE  TypeOK'
  BY <1>15, QueueAssumption, SMT
  DEF KernelCompletes, Complete, QueueTypeOK, ContextTypeOK, Aio, Stages
<1>16. ASSUME NEW h \in Handlers, NEW i \in Slots, ReaperCounts(h, i)
       PROVE  TypeOK'
  <2>1. QueueTypeOK'
    BY <1>16, SMT
    DEF ReaperCounts, CountEvent, QueueTypeOK, Moved, Aio, Stages
  <2>2. EventRval(aios[h][i].rval) \in Int
    BY QueueAssumption DEF EventRval, EIO, QueueTypeOK, Aio
  <2>3. aioctx' \in [Handlers -> Context]
    BY <1>16, <2>2, SMT
    DEF ReaperCounts, CountEvent, AioContextTryWake, ContextTypeOK, Context
  <2>4. cond' \in [Handlers -> {"outside", "asleep", "signalled", "early"}]
    BY <1>16, SMT
    DEF ReaperCounts, CountEvent, AioContextTryWake, Signalled, ContextTypeOK
  <2> QED
    BY <1>16, <2>1, <2>3, <2>4, SMT DEF ReaperCounts, ContextTypeOK
<1>17. CASE ReaperReads
  <2>1. PICK S \in SUBSET AllAt({"completed"}) : Getevents(ReapMax, S)
    BY <1>17 DEF ReaperReads, ReapEvents
  <2>2. QueueTypeOK'
    BY <1>17, <2>1, SMT
    DEF ReaperReads, ReapEvents, Getevents, QueueTypeOK, Moved, Aio, Stages
  <2> QED
    BY <1>17, <2>2, SMT DEF ReaperReads, ContextTypeOK
<1>18. CASE UNCHANGED vars
  BY <1>18, SMT DEF vars, QueueTypeOK, ContextTypeOK
<1> QED
  BY <1>1, <1>2, <1>3, <1>4, <1>5, <1>6, <1>7, <1>8, <1>9, <1>10, <1>11,
     <1>12, <1>13, <1>14, <1>15, <1>16, <1>17, <1>18
  DEF Next, Begin, Stream, Run

(* Every variable of the server keeps its type, for ever.                  *)
THEOREM TypeCorrect == Spec => []TypeOK
BY InitTypeOK, StepTypeOK, PTL DEF Spec

-----------------------------------------------------------------------------
(* The wait covers the batch                                               *)

(* The array of slots is finite, and so is every set of them.              *)
LEMMA SlotsFinite ==
  ASSUME NEW n \in Nat, NEW S \in SUBSET (1 .. n)
  PROVE  /\ IsFiniteSet(1 .. n) /\ Cardinality(1 .. n) = n
         /\ IsFiniteSet(S) /\ Cardinality(S) \in Nat
         /\ Cardinality(S) = n => S = 1 .. n
<1>1. IsFiniteSet(1 .. n) /\ Cardinality(1 .. n) = n
  BY FS_Interval
<1>2. IsFiniteSet(S)
  BY <1>1, FS_Subset
<1>3. Cardinality(S) \in Nat
  BY <1>2, FS_CardinalityType
<1>4. Cardinality(S) = n => S = 1 .. n
  BY <1>1, FS_Subset
<1> QED
  BY <1>1, <1>2, <1>3, <1>4

(* A call of which nothing changes but, at most, how far its outstanding   *)
(* I/O has come keeps its part of the invariant.                           *)
LEMMA CallFrame ==
  ASSUME NEW g \in Handlers, CallInv(g),
         Handed(g)' = Handed(g), Counted(g)' = Counted(g),
         Outstanding(g)' = Outstanding(g),
         pc'[g] = pc[g], sub'[g] = sub[g], aioctx'[g] = aioctx[g],
         cond'[g] = cond[g]
  PROVE  CallInv(g)'
BY DEF CallInv, HandsOverPrefix, CountsEvents, SignalMeansDone,
       AnsweredHasNoIO, WokenEarly

(* The three sets of a call are functions of its own control blocks.       *)
LEMMA SetsFrame ==
  ASSUME NEW g, aios'[g] = aios[g]
  PROVE  /\ Handed(g)' = Handed(g)
         /\ Counted(g)' = Counted(g)
         /\ Outstanding(g)' = Outstanding(g)
BY DEF Handed, Counted, Outstanding, At

(* I/O is outstanding only for a call that is submitting or waiting and    *)
(* has not been signalled, or that was woken early.                        *)
LEMMA OutstandingMeansWaiting ==
  ASSUME TypeOK, NEW h \in Handlers, CallInv(h), NEW i \in Outstanding(h)
  PROVE  /\ i \in Handed(h) /\ i \notin Counted(h)
         /\ pc[h] \in {"submit", "wait", "blocked"} \/ WokenEarly(h)
         /\ cond[h] # "signalled"
<1>1. i \in Handed(h) /\ i \notin Counted(h)
  BY DEF Outstanding, Handed, Counted, At
<1>2. /\ pc[h] \notin {"start", "stream", "closed"}
      /\ pc[h] # "answered" \/ WokenEarly(h)
  BY <1>1 DEF CallInv, HandsOverPrefix, AnsweredHasNoIO
<1>3. pc[h] \in AtDevice => Handed(h) \subseteq 1 .. aioctx[h].num_pending
  BY SMT DEF CallInv, HandsOverPrefix, AtDevice, InUse, TypeOK, QueueTypeOK,
             Submission, ContextTypeOK, Context
<1>4. (pc[h] \notin AfterWait \/ WokenEarly(h)) /\ cond[h] # "signalled"
  BY <1>1, <1>3
  DEF CallInv, SignalMeansDone, AfterWait, AtDevice, InUse
<1> QED
  BY <1>1, <1>2, <1>4 DEF TypeOK, Points, AfterWait

(* What was counted or is outstanding had been handed over, before and     *)
(* after a step.                                                           *)
LEMMA HandedFirst ==
  ASSUME NEW g
  PROVE  /\ Counted(g) \subseteq Handed(g)
         /\ Outstanding(g) \subseteq Handed(g)
         /\ Counted(g)' \subseteq Handed(g)'
         /\ Outstanding(g)' \subseteq Handed(g)'
BY DEF Handed, Counted, Outstanding, At

(* The server starts in a state of the inductive invariant.                *)
LEMMA InitInv == Init => Inv
<1> SUFFICES ASSUME Init, NEW h \in Handlers PROVE CallInv(h)
  BY InitTypeOK DEF Inv
<1>1. Handed(h) = {} /\ Counted(h) = {} /\ Outstanding(h) = {}
  BY DEF Init, QueueInit, Handed, Counted, Outstanding, At
<1> QED
  BY <1>1
  DEF Init, QueueInit, ContextInit, DeadContext, SubmitStart, CallInv,
      HandsOverPrefix, CountsEvents, SignalMeansDone, AnsweredHasNoIO,
      WokenEarly, InUse, AtDevice, AfterWait

(* A step that a call takes by itself leaves the others' state alone.      *)
LEMMA OnlyOwnCall ==
  ASSUME TypeOK, NEW g \in Handlers, NEW h \in Handlers, g # h,
         Begin(h) \/ Stream(h) \/ Run(h)
  PROVE  /\ aios'[g] = aios[g] /\ sub'[g] = sub[g] /\ aioctx'[g] = aioctx[g]
         /\ cond'[g] = cond[g] /\ pc'[g] = pc[g]
<1> USE DEF TypeOK, QueueTypeOK, ContextTypeOK, Goto
<1>1. CASE Begin(h)
  BY <1>1, SMT DEF Begin, ContextReady, AioContextInit, PutContextFails,
                   GetContextFails
<1>2. CASE Stream(h)
  <2>1. CASE \E o \in Offsets : PutRead(h, o)
    BY <2>1, SMT DEF PutRead, BlockDeviceAioWrite, AioContextAdd, AioPwrite
  <2>2. CASE \E o \in Offsets : GetRead(h, o)
    BY <2>2, SMT DEF GetRead, BlockDeviceAioRead, AioContextAdd, AioPread
  <2>3. CASE PutReadEnds(h) \/ GetReadEnds(h) \/ GetReadFull(h)
    BY <2>3, SMT DEF PutReadEnds, GetReadEnds, GetReadFull, AioContextDestroy
  <2> QED
    BY <1>2, <2>1, <2>2, <2>3 DEF Stream
<1>3. CASE Run(h)
  <2>1. CASE SubmitLoop(h)
    BY <2>1, SMT DEF SubmitLoop, BlockDeviceSubmitStep, SubmitAccept, SubmitAgain
  <2>2. CASE SubmitReturns(h) \/ Sleep(h) \/ Wake(h) \/ PutSync(h)
    BY <2>2, SMT DEF SubmitReturns, Sleep, CondSleep, Wake, CondReturn, PutSync
  <2>3. CASE PutRespond(h) \/ GetRespond(h)
    BY <2>3, SMT DEF PutRespond, GetRespond, AioContextDestroy
  <2> QED
    BY <1>3, <2>1, <2>2, <2>3 DEF Run
<1> QED
  BY <1>1, <1>2, <1>3

(* No step of a call, of the kernel or of the reaper breaks the invariant. *)
LEMMA StepInv == Inv /\ [Next]_vars => Inv'
<1> SUFFICES ASSUME Inv, [Next]_vars, NEW g \in Handlers PROVE CallInv(g)'
  BY StepTypeOK DEF Inv
<1> USE DEF Inv, WokenEarly
<1>1. ASSUME NEW h \in Handlers, h # g, Begin(h) \/ Stream(h) \/ Run(h)
      PROVE  CallInv(g)'
  BY <1>1, OnlyOwnCall, SetsFrame, CallFrame, SMT
<1>2. ASSUME ContextReady(g) PROVE CallInv(g)'
  <2>1. /\ aios'[g] = aios[g]
        /\ pc[g] = "start" /\ pc'[g] = "stream"
        /\ sub'[g] = sub[g]
        /\ cond'[g] = cond[g]
        /\ aioctx'[g].num_running = 0 /\ aioctx'[g].live = TRUE
    BY <1>2, SMT
    DEF ContextReady, AioContextInit, Goto, TypeOK, QueueTypeOK,
        ContextTypeOK
  <2>2. Handed(g) = {} /\ Counted(g) = {} /\ Outstanding(g) = {}
    BY <2>1, HandedFirst DEF CallInv, HandsOverPrefix
  <2>3. /\ Handed(g)' = {} /\ Counted(g)' = {} /\ Outstanding(g)' = {}
        /\ Cardinality(Counted(g)') = 0
    BY <2>1, <2>2, SetsFrame, FS_EmptySet
  <2> QED
    BY <2>1, <2>3, SMT
    DEF CallInv, HandsOverPrefix, CountsEvents, SignalMeansDone,
        AnsweredHasNoIO, InUse, AtDevice, AfterWait
<1>3. ASSUME PutContextFails(g) PROVE CallInv(g)'
  <2>1. /\ aios'[g] = aios[g]
        /\ pc[g] = "start" /\ pc'[g] = "answered"
        /\ sub'[g] = sub[g]
        /\ aioctx'[g] = aioctx[g]
        /\ cond'[g] = cond[g]
    BY <1>3, SMT
    DEF PutContextFails, Goto, TypeOK, QueueTypeOK, ContextTypeOK
  <2>2. Handed(g) = {} /\ Counted(g) = {} /\ Outstanding(g) = {}
    BY <2>1, HandedFirst DEF CallInv, HandsOverPrefix
  <2>3. HandsOverPrefix(g)'
    <3>1. sub'[g].done = 0
      BY <2>1 DEF CallInv, HandsOverPrefix
    <3>2. 1 .. sub'[g].done = {}
      BY <3>1, SMT
    <3>3. Handed(g)' = {}
      BY <2>1, <2>2, SetsFrame
    <3> QED
      BY <2>1, <3>1, <3>2, <3>3, Zenon DEF HandsOverPrefix, AtDevice, InUse
  <2>4. CountsEvents(g)'
    BY <2>1, <2>2, SetsFrame, SMT DEF CallInv, CountsEvents, InUse
  <2>5. SignalMeansDone(g)'
    BY <2>1, <2>2, SetsFrame, SMT DEF CallInv, SignalMeansDone, AfterWait
  <2>6. AnsweredHasNoIO(g)'
    BY <2>1, <2>2, SetsFrame, SMT DEF CallInv, AnsweredHasNoIO
  <2> QED
    BY <2>3, <2>4, <2>5, <2>6 DEF CallInv
<1>4. ASSUME GetContextFails(g) PROVE CallInv(g)'
  <2>1. /\ aios'[g] = aios[g]
        /\ pc[g] = "start" /\ pc'[g] = "closed"
        /\ sub'[g] = sub[g]
        /\ aioctx'[g] = aioctx[g]
        /\ cond'[g] = cond[g]
    BY <1>4, SMT
    DEF GetContextFails, Goto, TypeOK, QueueTypeOK, ContextTypeOK
  <2> QED
    BY <2>1, SetsFrame, SMT
    DEF CallInv, HandsOverPrefix, CountsEvents, SignalMeansDone,
        AnsweredHasNoIO, InUse, AtDevice, AfterWait
<1>5. ASSUME PutReadEnds(g) PROVE CallInv(g)'
  <2>1. /\ aios'[g] = aios[g]
        /\ pc[g] = "stream" /\ pc'[g] = "submit"
        /\ sub'[g].done = 0
        /\ aioctx'[g] = aioctx[g]
        /\ cond'[g] = cond[g]
    BY <1>5, SMT
    DEF PutReadEnds, SubmitStart, Goto, TypeOK, QueueTypeOK, ContextTypeOK
  <2>2. aioctx[g].num_pending >= 0 /\ 1 .. 0 = {}
    BY SMT DEF TypeOK, ContextTypeOK, Context
  <2> QED
    BY <2>1, <2>2, SetsFrame, SMT
    DEF CallInv, HandsOverPrefix, CountsEvents, SignalMeansDone,
        AnsweredHasNoIO, InUse, AtDevice, AfterWait
<1>6. ASSUME GetReadEnds(g) PROVE CallInv(g)'
  <2>1. /\ aios'[g] = aios[g]
        /\ pc[g] = "stream" /\ pc'[g] = "submit"
        /\ sub'[g].done = 0
        /\ aioctx'[g] = aioctx[g]
        /\ cond'[g] = cond[g]
    BY <1>6, SMT
    DEF GetReadEnds, SubmitStart, Goto, TypeOK, QueueTypeOK, ContextTypeOK
  <2>2. aioctx[g].num_pending >= 0 /\ 1 .. 0 = {}
    BY SMT DEF TypeOK, ContextTypeOK, Context
  <2> QED
    BY <2>1, <2>2, SetsFrame, SMT
    DEF CallInv, HandsOverPrefix, CountsEvents, SignalMeansDone,
        AnsweredHasNoIO, InUse, AtDevice, AfterWait
<1>7. ASSUME GetReadFull(g) PROVE CallInv(g)'
  <2>1. /\ aios'[g] = aios[g]
        /\ pc[g] = "stream" /\ pc'[g] = "closed"
        /\ sub'[g] = sub[g]
        /\ cond'[g] = cond[g]
        /\ ~ aioctx'[g].live
    BY <1>7, SMT
    DEF GetReadFull, AioContextDestroy, Goto, TypeOK, QueueTypeOK,
        ContextTypeOK
  <2> QED
    BY <2>1, SetsFrame, SMT
    DEF CallInv, HandsOverPrefix, CountsEvents, SignalMeansDone,
        AnsweredHasNoIO, InUse, AtDevice, AfterWait
<1>8. ASSUME SubmitReturns(g) PROVE CallInv(g)'
  <2>1. /\ aios'[g] = aios[g]
        /\ pc[g] = "submit" /\ pc'[g] = "wait"
        /\ sub'[g] = sub[g]
        /\ aioctx'[g] = aioctx[g]
        /\ cond'[g] = cond[g]
    BY <1>8, SMT
    DEF SubmitReturns, Goto, TypeOK, QueueTypeOK, ContextTypeOK
  <2> QED
    BY <2>1, SetsFrame, SMT
    DEF CallInv, HandsOverPrefix, CountsEvents, SignalMeansDone,
        AnsweredHasNoIO, InUse, AtDevice, AfterWait
<1>9. ASSUME Sleep(g) PROVE CallInv(g)'
  <2>1. /\ aios'[g] = aios[g]
        /\ pc[g] = "wait" /\ pc'[g] = "blocked"
        /\ sub'[g] = sub[g]
        /\ aioctx'[g] = aioctx[g]
        /\ cond'[g] = "asleep"
    BY <1>9, SMT
    DEF Sleep, CondSleep, Goto, TypeOK, QueueTypeOK, ContextTypeOK
  <2> QED
    BY <2>1, SetsFrame, SMT
    DEF CallInv, HandsOverPrefix, CountsEvents, SignalMeansDone,
        AnsweredHasNoIO, InUse, AtDevice, AfterWait
<1>10. ASSUME Wake(g) PROVE CallInv(g)'
  <2>1. /\ aios'[g] = aios[g]
        /\ pc[g] = "blocked" /\ pc'[g] \in AfterWait
        /\ sub'[g] = sub[g]
        /\ aioctx'[g] = aioctx[g]
        /\ \/ cond[g] = "signalled" /\ cond'[g] = "outside"
           \/ cond[g] = "asleep" /\ cond'[g] = "early"
    BY <1>10, SMT
    DEF Wake, CondReturn, AfterWait, Goto, TypeOK, QueueTypeOK,
        ContextTypeOK
  <2> QED
    BY <2>1, SetsFrame, SMT
    DEF CallInv, HandsOverPrefix, CountsEvents, SignalMeansDone,
        AnsweredHasNoIO, InUse, AtDevice, AfterWait
<1>11. ASSUME PutSync(g) PROVE CallInv(g)'
  <2>1. /\ aios'[g] = aios[g]
        /\ pc[g] = "sync" /\ pc'[g] = "respond"
        /\ sub'[g] = sub[g]
        /\ aioctx'[g] = aioctx[g]
        /\ cond'[g] = cond[g]
    BY <1>11, SMT
    DEF PutSync, Goto, TypeOK, QueueTypeOK, ContextTypeOK
  <2> QED
    BY <2>1, SetsFrame, SMT
    DEF CallInv, HandsOverPrefix, CountsEvents, SignalMeansDone,
        AnsweredHasNoIO, InUse, AtDevice, AfterWait
<1>12. ASSUME PutRespond(g) PROVE CallInv(g)'
  <2>1. /\ aios'[g] = aios[g]
        /\ pc[g] = "respond" /\ pc'[g] = "answered"
        /\ sub'[g] = sub[g]
        /\ cond'[g] = cond[g]
        /\ ~ aioctx'[g].live
    BY <1>12, SMT
    DEF PutRespond, AioContextDestroy, Goto, TypeOK, QueueTypeOK,
        ContextTypeOK
  <2>2. Outstanding(g) = {} \/ WokenEarly(g)
    BY <2>1, OutstandingMeansWaiting
  <2> QED
    BY <2>1, <2>2, SetsFrame, SMT
    DEF CallInv, HandsOverPrefix, CountsEvents, SignalMeansDone,
        AnsweredHasNoIO, InUse, AtDevice, AfterWait
<1>13. ASSUME GetRespond(g) PROVE CallInv(g)'
  <2>1. /\ aios'[g] = aios[g]
        /\ pc[g] = "respond" /\ pc'[g] = "answered"
        /\ sub'[g] = sub[g]
        /\ cond'[g] = cond[g]
        /\ ~ aioctx'[g].live
    BY <1>13, SMT
    DEF GetRespond, AioContextDestroy, Goto, TypeOK, QueueTypeOK,
        ContextTypeOK
  <2>2. Outstanding(g) = {} \/ WokenEarly(g)
    BY <2>1, OutstandingMeansWaiting
  <2> QED
    BY <2>1, <2>2, SetsFrame, SMT
    DEF CallInv, HandsOverPrefix, CountsEvents, SignalMeansDone,
        AnsweredHasNoIO, InUse, AtDevice, AfterWait
<1>14. ASSUME NEW o \in Offsets, PutRead(g, o) \/ GetRead(g, o)
       PROVE  CallInv(g)'
  <2> DEFINE i == aioctx[g].num_pending + 1
  <2>1. /\ pc[g] = "stream" /\ pc'[g] = "stream"
        /\ sub'[g] = sub[g] /\ cond'[g] = cond[g]
        /\ aioctx'[g].num_running = aioctx[g].num_running
        /\ aioctx'[g].live = aioctx[g].live
        /\ \A j \in Slots :
              \/ aios'[g][j].stage = aios[g][j].stage
              \/ j = i /\ aios'[g][j].stage = "prepared"
    <3>1. CASE PutRead(g, o)
      BY <3>1, SMT
      DEF PutRead, BlockDeviceAioWrite, AioContextAdd, AioPwrite, NextSlot,
          Goto, TypeOK, QueueTypeOK, ContextTypeOK
    <3>2. CASE GetRead(g, o)
      BY <3>2, SMT
      DEF GetRead, BlockDeviceAioRead, AioContextAdd, AioPread, NextSlot,
          Goto, TypeOK, QueueTypeOK, ContextTypeOK
    <3> QED
      BY <1>14, <3>1, <3>2
  <2>2. Handed(g) = {} /\ Counted(g) = {} /\ Outstanding(g) = {}
    BY <2>1, HandedFirst DEF CallInv, HandsOverPrefix
  <2>3. Handed(g)' = {}
    BY <2>1, <2>2 DEF Handed, At
  <2>4. Counted(g)' = {} /\ Outstanding(g)' = {}
    BY <2>3, HandedFirst
  <2>5. aioctx[g].num_running = Cardinality(Counted(g)')
    BY <2>1, <2>2, <2>4 DEF CallInv, CountsEvents, InUse
  <2>6. HandsOverPrefix(g)'
    BY <2>1, <2>3 DEF HandsOverPrefix, AtDevice, InUse
  <2>7. CountsEvents(g)'
    BY <2>1, <2>5 DEF CallInv, CountsEvents, InUse
  <2>8. SignalMeansDone(g)'
    BY <2>1 DEF CallInv, SignalMeansDone, AfterWait, ContextTypeOK, TypeOK
  <2>9. AnsweredHasNoIO(g)'
    BY <2>1 DEF AnsweredHasNoIO
  <2> QED
    BY <2>6, <2>7, <2>8, <2>9 DEF CallInv
<1>15. ASSUME SubmitLoop(g) PROVE CallInv(g)'
  <2>1. /\ pc[g] = "submit" /\ pc'[g] = "submit" /\ cond'[g] = cond[g]
        /\ aioctx'[g] = aioctx[g]
    BY <1>15 DEF SubmitLoop
  <2>2. ASSUME NEW k \in 1 .. MaxIoDepth,
               SubmitAccept(g, aioctx[g].num_pending, k)
        PROVE  CallInv(g)'
    <3>1. sub[g].done \in Nat /\ k \in Nat \ {0}
      BY DeviceAssumption, QueueAssumption
      DEF TypeOK, QueueTypeOK, Submission
    <3>2. /\ sub'[g].done = sub[g].done + k
          /\ sub[g].done + k <= aioctx[g].num_pending
      BY <2>2, SMT DEF SubmitAccept, TypeOK, QueueTypeOK
    <3>3. \A j \in Slots :
             aios'[g][j].stage = IF j \in Chunk(g, k) THEN "inflight"
                                                     ELSE aios[g][j].stage
      BY <2>2, SMT DEF SubmitAccept, Moved, TypeOK, QueueTypeOK
    <3>4. Handed(g) = 1 .. sub[g].done
      BY <2>1 DEF CallInv, HandsOverPrefix
    <3>5. Chunk(g, k) \subseteq Slots /\ Chunk(g, k) \cap Handed(g) = {}
      <4>1. aioctx[g].num_pending \in 0 .. ListLength
        BY DEF TypeOK, ContextTypeOK, Context
      <4>2. \A j \in Chunk(g, k) :
               j \in Nat /\ sub[g].done < j /\ j <= sub[g].done + k
        BY <3>1, SMT DEF Chunk
      <4>3. \A j \in Chunk(g, k) : j \in 1 .. ListLength
        BY <3>1, <3>2, <4>1, <4>2, QueueAssumption, SMT
      <4>4. \A j \in Chunk(g, k) : j \notin 1 .. sub[g].done
        BY <3>1, <4>2, SMT
      <4> QED
        BY <3>4, <4>3, <4>4 DEF Slots
    <3>6. Handed(g)' = Handed(g) \cup Chunk(g, k)
      BY <3>3, <3>5 DEF Handed, At
    <3>7. Handed(g)' = 1 .. sub'[g].done
      BY <3>1, <3>2, <3>4, <3>6, SMT DEF Chunk
    <3>8. Counted(g)' = Counted(g)
      BY <3>3, <3>5 DEF Counted, Handed, At
    <3> QED
      BY <2>1, <3>2, <3>7, <3>8, SMT
      DEF CallInv, HandsOverPrefix, CountsEvents, SignalMeansDone,
          AnsweredHasNoIO, InUse, AtDevice, AfterWait
  <2>3. CASE SubmitAgain(g, aioctx[g].num_pending)
    <3>1. aios'[g] = aios[g] /\ sub'[g].done = sub[g].done
      BY <2>3, SMT DEF SubmitAgain, Retried, TypeOK, QueueTypeOK
    <3> QED
      BY <2>1, <3>1, SetsFrame, SMT
      DEF CallInv, HandsOverPrefix, CountsEvents, SignalMeansDone,
          AnsweredHasNoIO, InUse, AtDevice, AfterWait
  <2> QED
    BY <1>15, <2>2, <2>3 DEF SubmitLoop, BlockDeviceSubmitStep
<1>16. ASSUME NEW h \in Handlers, NEW i \in Slots, KernelCompletes(h, i)
       PROVE  CallInv(g)'
  <2>1. /\ sub' = sub /\ aioctx' = aioctx /\ cond' = cond /\ pc' = pc
        /\ aios[h][i].stage = "inflight"
        /\ \A j \in Slots : 
              aios'[g][j].stage = IF <<g, j>> = <<h, i>> THEN "completed"
                                                        ELSE aios[g][j].stage
    BY <1>16, SMT
    DEF KernelCompletes, Complete, TypeOK, QueueTypeOK
  <2>2. /\ Handed(g)' = Handed(g) /\ Counted(g)' = Counted(g)
        /\ Outstanding(g)' = Outstanding(g)
    BY <2>1 DEF Handed, Counted, Outstanding, At
  <2> QED
    BY <2>1, <2>2, CallFrame
<1>17. CASE ReaperReads
  <2>1. PICK S \in SUBSET AllAt({"completed"}) : Getevents(ReapMax, S)
    BY <1>17 DEF ReaperReads, ReapEvents
  <2>2. /\ sub' = sub /\ aioctx' = aioctx /\ cond' = cond /\ pc' = pc
        /\ \A j \in Slots :
              \/ aios'[g][j].stage = aios[g][j].stage
              \/ aios[g][j].stage = "completed" /\ aios'[g][j].stage = "reaped"
    BY <1>17, <2>1, SMTT(60) DEF ReaperReads, ReapEvents, Getevents, AllAt, Moved
  <2>3. /\ Handed(g)' = Handed(g) /\ Counted(g)' = Counted(g)
        /\ Outstanding(g)' = Outstanding(g)
    BY <2>2 DEF Handed, Counted, Outstanding, At
  <2> QED
    BY <2>2, <2>3, CallFrame
<1>18. ASSUME NEW h \in Handlers, NEW i \in Slots, ReaperCounts(h, i)
       PROVE  CallInv(g)'
  <2>1. /\ sub' = sub /\ pc' = pc
        /\ aios[h][i].stage = "reaped" /\ aioctx[h].live
        /\ \A j \in Slots :
              aios'[g][j].stage = IF <<g, j>> = <<h, i>> THEN "counted"
                                                        ELSE aios[g][j].stage
    BY <1>18, SMT
    DEF ReaperCounts, CountEvent, Moved, TypeOK, QueueTypeOK
  <2>2. CASE g # h
    <3>1. aios'[g] = aios[g] /\ aioctx'[g] = aioctx[g] /\ cond'[g] = cond[g]
      BY <1>18, <2>2, SMT
      DEF ReaperCounts, CountEvent, AioContextTryWake, TypeOK, QueueTypeOK,
          ContextTypeOK
    <3> QED
      BY <2>1, <3>1, SetsFrame, CallFrame
  <2>3. CASE g = h
    <3> DEFINE n == aioctx[g].num_pending
    <3>1. i \in Outstanding(g)
      BY <2>1, <2>3 DEF Outstanding, At
    <3>2. /\ i \in Handed(g) /\ i \notin Counted(g)
          /\ pc[g] \in AtDevice /\ cond[g] # "signalled"
          /\ pc[g] \in AfterWait => WokenEarly(g)
      <4>1. /\ i \in Handed(g) /\ i \notin Counted(g)
            /\ pc[g] \in {"submit", "wait", "blocked"} \/ WokenEarly(g)
            /\ cond[g] # "signalled"
        BY <3>1, OutstandingMeansWaiting
      <4>2. pc[g] \in InUse
        BY <2>1, <2>3 DEF CallInv, CountsEvents
      <4>3. pc[g] # "stream"
        BY <4>1 DEF CallInv, HandsOverPrefix
      <4> QED
        BY <4>1, <4>2, <4>3 DEF AtDevice, InUse, AfterWait
    <3>3. Handed(g)' = Handed(g) /\ Counted(g)' = Counted(g) \cup {i}
      BY <2>1, <2>3 DEF Handed, Counted, At
    <3>4. /\ aioctx'[g].num_pending = n
          /\ aioctx'[g].num_running = aioctx[g].num_running + 1
          /\ aioctx'[g].live = aioctx[g].live
          /\ cond'[g] = IF LastCounted(g) THEN Signalled(g) ELSE cond[g]
      <4>1. /\ aioctx \in [Handlers -> Context] /\ g \in Handlers
            /\ cond \in [Handlers -> {"outside", "asleep", "signalled", "early"}]
        BY DEF TypeOK, ContextTypeOK
      <4>2. AioContextTryWake(g, EventRval(aios[g][i].rval))
        BY <1>18, <2>3 DEF ReaperCounts, CountEvent
      <4> QED
        BY <4>1, <4>2, SMT DEF AioContextTryWake
    <3>5. n \in Nat /\ Handed(g) \subseteq 1 .. n
      <4>1. n \in 0 .. ListLength /\ sub[g].done \in Nat
        BY DEF TypeOK, QueueTypeOK, Submission, ContextTypeOK, Context
      <4>2. Handed(g) = 1 .. sub[g].done /\ sub[g].done <= n
        BY <3>2 DEF CallInv, HandsOverPrefix, AtDevice, InUse
      <4> QED
        BY <4>1, <4>2, QueueAssumption, SMT
    <3>6. Counted(g) \subseteq 1 .. n /\ Counted(g)' \subseteq 1 .. n
      BY <3>3, <3>5, HandedFirst
    <3>7. Cardinality(Counted(g)') = Cardinality(Counted(g)) + 1
      BY <3>2, <3>3, <3>5, <3>6, SlotsFinite, FS_AddElement
    <3>8. aioctx[g].num_running = Cardinality(Counted(g))
      BY <3>2 DEF CallInv, CountsEvents, AtDevice
    <3>9. LastCounted(g) => Counted(g)' = 1 .. n
      BY <3>5, <3>6, <3>7, <3>8, SlotsFinite DEF LastCounted
    <3>10. HandsOverPrefix(g)'
      BY <2>1, <3>3, <3>4 DEF CallInv, HandsOverPrefix
    <3>11. CountsEvents(g)'
      BY <2>1, <3>4, <3>7, <3>8 DEF CallInv, CountsEvents
    <3>12. SignalMeansDone(g)'
      BY <2>1, <3>2, <3>4, <3>9, SMT
      DEF CallInv, SignalMeansDone, Signalled, AfterWait
    <3>13. AnsweredHasNoIO(g)'
      BY <2>1, <3>2 DEF AnsweredHasNoIO, AtDevice, InUse
    <3> QED
      BY <3>10, <3>11, <3>12, <3>13 DEF CallInv
  <2> QED
    BY <2>2, <2>3
<1>19. CASE UNCHANGED vars
  BY <1>19, SetsFrame, CallFrame DEF vars
<1> QED
  BY <1>1, <1>2, <1>3, <1>4, <1>5, <1>6, <1>7, <1>8, <1>9, <1>10, <1>11,
     <1>12, <1>13, <1>14, <1>15, <1>16, <1>17, <1>18, <1>19
  DEF Next, Begin, Stream, Run

(* The inductive invariant holds for ever, whoever is woken early.         *)
THEOREM InvCorrect == Spec => []Inv
BY InitInv, StepInv, PTL DEF Spec

(* The inductive invariant is stronger than the safety properties: waits   *)
(* cover their batch and contexts outlive their I/O.                       *)
LEMMA InvImplies == Inv => WaitCoversBatch /\ ContextOutlivesIO
<1> SUFFICES ASSUME Inv PROVE WaitCoversBatch /\ ContextOutlivesIO
  OBVIOUS
<1>1. WaitCoversBatch
  BY DEF Inv, CallInv, SignalMeansDone, AfterWait, WaitCoversBatch
<1>2. ContextOutlivesIO
  <2> SUFFICES ASSUME NEW h \in Handlers, NEW i \in Outstanding(h)
               PROVE  aioctx[h].live \/ WokenEarly(h)
    BY DEF ContextOutlivesIO
  <2>1. pc[h] \in {"submit", "wait", "blocked"} \/ WokenEarly(h)
    BY OutstandingMeansWaiting DEF Inv
  <2> QED
    BY <2>1 DEF Inv, CallInv, CountsEvents, InUse
<1> QED
  BY <1>1, <1>2

(* A call is past its wait only when each I/O of its batch was counted, or *)
(* when it was itself woken early; another call's early wakeup, and what   *)
(* that call frees too soon, takes nothing from it.                        *)
THEOREM WaitCoversBatchHolds == Spec => []WaitCoversBatch
BY InvCorrect, InvImplies, PTL

(* The reaper and the kernel never hold I/O of a destroyed context but     *)
(* that of a call that was woken early.                                    *)
THEOREM ContextOutlivesIOHolds == Spec => []ContextOutlivesIO
BY InvCorrect, InvImplies, PTL

-----------------------------------------------------------------------------
(* The prefix of the batch                                                 *)

(* What the kernel was handed stays the first "done" slots of a batch,     *)
(* spurious wakeups or not: the wait comes after the submission.           *)
LEMMA StepPrefix ==
  ASSUME TypeOK, [Next]_vars, NEW g \in Handlers, HandsOverPrefix(g)
  PROVE  HandsOverPrefix(g)'
<1>1. ASSUME NEW h \in Handlers, h # g, Begin(h) \/ Stream(h) \/ Run(h)
      PROVE  HandsOverPrefix(g)'
  BY <1>1, OnlyOwnCall, SetsFrame, SMT DEF HandsOverPrefix
<1>2. CASE Begin(g)
  <2>1. /\ aios'[g] = aios[g] /\ sub'[g] = sub[g]
        /\ pc[g] = "start" /\ pc'[g] \in {"stream", "answered", "closed"}
    BY <1>2, SMT
    DEF Begin, ContextReady, PutContextFails, GetContextFails, Goto, TypeOK,
        QueueTypeOK
  <2>2. Handed(g)' = {} /\ sub'[g].done = 0
    BY <2>1, SetsFrame DEF HandsOverPrefix
  <2>3. 1 .. sub'[g].done = {}
    BY <2>2, SMT
  <2> QED
    BY <2>1, <2>2, <2>3, Zenon DEF HandsOverPrefix, AtDevice, InUse
<1>3. CASE PutReadEnds(g) \/ GetReadEnds(g) \/ GetReadFull(g)
  <2>1. /\ aios'[g] = aios[g] /\ pc[g] = "stream"
        /\ \/ pc'[g] = "submit" /\ sub'[g].done = 0 /\ aioctx'[g] = aioctx[g]
           \/ pc'[g] = "closed"
    BY <1>3, SMT
    DEF PutReadEnds, GetReadEnds, GetReadFull, SubmitStart, Goto, TypeOK,
        QueueTypeOK, ContextTypeOK
  <2>2. aioctx[g].num_pending >= 0 /\ 1 .. 0 = {}
    BY SMT DEF TypeOK, ContextTypeOK, Context
  <2>3. Handed(g)' = {}
    BY <2>1, SetsFrame DEF HandsOverPrefix
  <2> QED
    BY <2>1, <2>2, <2>3, SMT DEF HandsOverPrefix, AtDevice, InUse
<1>4. ASSUME NEW o \in Offsets, PutRead(g, o) \/ GetRead(g, o)
      PROVE  HandsOverPrefix(g)'
  <2>1. /\ pc[g] = "stream" /\ pc'[g] = "stream"
        /\ \A j \in Slots :
              \/ aios'[g][j].stage = aios[g][j].stage
              \/ aios'[g][j].stage = "prepared"
    <3>1. CASE PutRead(g, o)
      BY <3>1, SMT
      DEF PutRead, BlockDeviceAioWrite, AioPwrite, Goto, TypeOK, QueueTypeOK
    <3>2. CASE GetRead(g, o)
      BY <3>2, SMT
      DEF GetRead, BlockDeviceAioRead, AioPread, Goto, TypeOK, QueueTypeOK
    <3> QED
      BY <1>4, <3>1, <3>2
  <2>2. Handed(g)' = {}
    BY <2>1 DEF HandsOverPrefix, Handed, At
  <2> QED
    BY <2>1, <2>2 DEF HandsOverPrefix, AtDevice, InUse
<1>5. ASSUME NEW k \in 1 .. MaxIoDepth, pc[g] = "submit", pc' = pc,
             aioctx' = aioctx, SubmitAccept(g, aioctx[g].num_pending, k)
      PROVE  HandsOverPrefix(g)'
  <2>1. /\ sub[g].done \in Nat /\ k \in Nat \ {0}
        /\ aioctx[g].num_pending \in 0 .. ListLength
    BY DeviceAssumption, QueueAssumption
    DEF TypeOK, QueueTypeOK, Submission, ContextTypeOK, Context
  <2>2. /\ sub'[g].done = sub[g].done + k
        /\ sub[g].done + k <= aioctx[g].num_pending
    BY <1>5, SMT DEF SubmitAccept, TypeOK, QueueTypeOK
  <2>3. \A j \in Slots :
           aios'[g][j].stage = IF j \in Chunk(g, k) THEN "inflight"
                                                   ELSE aios[g][j].stage
    BY <1>5, SMT DEF SubmitAccept, Moved, TypeOK, QueueTypeOK
  <2>4. Handed(g) = 1 .. sub[g].done
    BY <1>5 DEF HandsOverPrefix
  <2>5. Chunk(g, k) \subseteq Slots
    BY <2>1, <2>2, QueueAssumption, SMT DEF Chunk, Slots
  <2>6. Handed(g)' = Handed(g) \cup Chunk(g, k)
    BY <2>3, <2>5 DEF Handed, At
  <2>7. Handed(g)' = 1 .. sub'[g].done
    BY <2>1, <2>2, <2>4, <2>6, SMT DEF Chunk
  <2> QED
    BY <1>5, <2>2, <2>7, SMT DEF HandsOverPrefix, AtDevice, InUse
<1>6. ASSUME pc[g] = "submit", pc' = pc, aioctx' = aioctx,
             SubmitAgain(g, aioctx[g].num_pending)
      PROVE  HandsOverPrefix(g)'
  <2>1. aios'[g] = aios[g] /\ sub'[g].done = sub[g].done
    BY <1>6, SMT DEF SubmitAgain, Retried, TypeOK, QueueTypeOK
  <2> QED
    BY <1>6, <2>1, SetsFrame, SMT DEF HandsOverPrefix
<1>7. CASE SubmitReturns(g) \/ Sleep(g) \/ Wake(g) \/ PutSync(g)
  <2>1. /\ aios'[g] = aios[g] /\ sub'[g] = sub[g] /\ aioctx'[g] = aioctx[g]
        /\ pc[g] \in AtDevice /\ pc'[g] \in AtDevice
    BY <1>7, SMT
    DEF SubmitReturns, Sleep, Wake, PutSync, Goto, TypeOK, QueueTypeOK,
        ContextTypeOK, AtDevice, InUse
  <2> QED
    BY <2>1, SetsFrame, SMT DEF HandsOverPrefix, AtDevice, InUse
<1>8. CASE PutRespond(g) \/ GetRespond(g)
  <2>1. /\ aios'[g] = aios[g] /\ sub'[g] = sub[g]
        /\ pc[g] = "respond" /\ pc'[g] = "answered"
    BY <1>8, SMT DEF PutRespond, GetRespond, Goto, TypeOK, QueueTypeOK
  <2> QED
    BY <2>1, SetsFrame, SMT DEF HandsOverPrefix, AtDevice, InUse
<1>9. ASSUME NEW h \in Handlers, NEW i \in Slots,
             KernelCompletes(h, i) \/ ReaperCounts(h, i)
      PROVE  HandsOverPrefix(g)'
  <2>1. /\ sub' = sub /\ pc' = pc
        /\ aioctx'[g].num_pending = aioctx[g].num_pending
        /\ \A j \in Slots :
              \/ aios'[g][j].stage = aios[g][j].stage
              \/ /\ aios[g][j].stage \in {"inflight", "reaped"}
                 /\ aios'[g][j].stage \in {"completed", "counted"}
    <3>1. CASE KernelCompletes(h, i)
      BY <3>1, SMT DEF KernelCompletes, Complete, TypeOK, QueueTypeOK
    <3>2. CASE ReaperCounts(h, i)
      BY <3>2, SMT
      DEF ReaperCounts, CountEvent, AioContextTryWake, Moved, TypeOK,
          QueueTypeOK, ContextTypeOK, Context
    <3> QED
      BY <1>9, <3>1, <3>2
  <2>2. Handed(g)' = Handed(g)
    BY <2>1 DEF Handed, At
  <2> QED
    BY <2>1, <2>2 DEF HandsOverPrefix
<1>10. CASE ReaperReads
  <2>1. PICK S \in SUBSET AllAt({"completed"}) : Getevents(ReapMax, S)
    BY <1>10 DEF ReaperReads, ReapEvents
  <2>2. /\ sub' = sub /\ aioctx' = aioctx /\ pc' = pc
        /\ \A j \in Slots :
              \/ aios'[g][j].stage = aios[g][j].stage
              \/ aios[g][j].stage = "completed" /\ aios'[g][j].stage = "reaped"
    BY <1>10, <2>1, SMTT(60) DEF ReaperReads, ReapEvents, Getevents, AllAt, Moved
  <2>3. Handed(g)' = Handed(g)
    BY <2>2 DEF Handed, At
  <2> QED
    BY <2>2, <2>3 DEF HandsOverPrefix
<1>11. CASE UNCHANGED vars
  BY <1>11, SetsFrame DEF vars, HandsOverPrefix
<1> QED
  BY <1>1, <1>2, <1>3, <1>4, <1>5, <1>6, <1>7, <1>8, <1>9, <1>10, <1>11
  DEF Next, Stream, Run, SubmitLoop, BlockDeviceSubmitStep

(* Exactly the first "done" slots of a batch are handed to the kernel,     *)
(* spurious wakeups or not.                                                *)
THEOREM SubmittedPrefixHolds == Spec => []SubmittedPrefix
<1> DEFINE P == TypeOK /\ \A h \in Handlers : HandsOverPrefix(h)
<1>1. Init => P
  BY InitInv DEF Inv, CallInv
<1>2. P /\ [Next]_vars => P'
  BY StepTypeOK, StepPrefix
<1>3. P => SubmittedPrefix
  BY DEF HandsOverPrefix, SubmittedPrefix
<1> HIDE DEF P
<1> QED
  BY <1>1, <1>2, <1>3, PTL DEF Spec

-----------------------------------------------------------------------------
(* The time slept for a full ring                                          *)

(* Powers of two, counted as sets of subsets.                              *)
LEMMA SubsetsOfInterval ==
  ASSUME NEW n \in Nat
  PROVE  /\ IsFiniteSet(1 .. n) /\ Cardinality(1 .. n) = n
         /\ IsFiniteSet(SUBSET (1 .. n))
         /\ Cardinality(SUBSET (1 .. n)) = 2 ^ n
         /\ 2 ^ n \in Nat
<1>1. IsFiniteSet(1 .. n) /\ Cardinality(1 .. n) = n
  BY FS_Interval
<1>2. IsFiniteSet(SUBSET (1 .. n)) /\ Cardinality(SUBSET (1 .. n)) = 2 ^ n
  BY <1>1, FS_SUBSET
<1> QED
  BY <1>1, <1>2, FS_CardinalityType

LEMMA PowerMonotonic ==
  ASSUME NEW m \in Nat, NEW n \in Nat, m <= n
  PROVE  2 ^ m <= 2 ^ n
<1>1. SUBSET (1 .. m) \in SUBSET (SUBSET (1 .. n))
  BY SMT
<1>2. Cardinality(SUBSET (1 .. m)) <= Cardinality(SUBSET (1 .. n))
  BY <1>1, SubsetsOfInterval, FS_Subset
<1>3. /\ Cardinality(SUBSET (1 .. m)) = 2 ^ m
      /\ Cardinality(SUBSET (1 .. n)) = 2 ^ n
  BY SubsetsOfInterval
<1> QED
  BY <1>2, <1>3

LEMMA PowerOfZero == 2 ^ 0 = 1
<1>1. SUBSET (1 .. 0) = {{}}
  BY SMT
<1> QED
  BY <1>1, SubsetsOfInterval, FS_Singleton

(* A subset of 1 .. n + 1 is one of 1 .. n, with n + 1 or without.         *)
LEMMA PowerDoubles ==
  ASSUME NEW n \in Nat
  PROVE  2 ^ (n + 1) = 2 * 2 ^ n
<1> DEFINE A == SUBSET (1 .. n)
           B == {X \in SUBSET (1 .. n + 1) : n + 1 \in X}
           f == [X \in A |-> X \cup {n + 1}]
<1>1. A \cap B = {} /\ A \cup B = SUBSET (1 .. n + 1)
  <2>1. 1 .. n + 1 = (1 .. n) \cup {n + 1} /\ n + 1 \notin 1 .. n
    BY SMT
  <2> QED
    BY <2>1
<1>2. f \in Bijection(A, B)
  <2>1. 1 .. n + 1 = (1 .. n) \cup {n + 1} /\ n + 1 \notin 1 .. n
    BY SMT
  <2>2. f \in [A -> B]
    BY <2>1
  <2>3. \A X, Y \in A : f[X] = f[Y] => X = Y
    <3> SUFFICES ASSUME NEW X \in A, NEW Y \in A, f[X] = f[Y] PROVE X = Y
      OBVIOUS
    <3>1. X \cup {n + 1} = Y \cup {n + 1} /\ n + 1 \notin X /\ n + 1 \notin Y
      BY <2>1
    <3> QED
      BY <3>1
  <2>4. \A Z \in B : \E X \in A : f[X] = Z
    <3> SUFFICES ASSUME NEW Z \in B PROVE \E X \in A : f[X] = Z
      OBVIOUS
    <3>1. Z \ {n + 1} \in A
      BY <2>1
    <3>2. (Z \ {n + 1}) \cup {n + 1} = Z
      OBVIOUS
    <3>3. f[Z \ {n + 1}] = Z
      BY <3>1, <3>2
    <3> QED
      BY <3>1, <3>3
  <2> HIDE DEF f, A, B
  <2>5. f \in Injection(A, B)
    BY <2>2, <2>3 DEF Injection, IsInjective
  <2>6. f \in Surjection(A, B)
    BY <2>2, <2>4, Zenon DEF Surjection
  <2> QED
    BY <2>5, <2>6 DEF Bijection
<1>3. /\ IsFiniteSet(A) /\ Cardinality(A) = 2 ^ n /\ 2 ^ n \in Nat
      /\ Cardinality(SUBSET (1 .. n + 1)) = 2 ^ (n + 1)
  BY SubsetsOfInterval, n + 1 \in Nat
<1>4. IsFiniteSet(B) /\ Cardinality(B) = 2 ^ n
  <2>1. ExistsBijection(A, B)
    BY <1>2 DEF ExistsBijection
  <2> HIDE DEF A, B
  <2> QED
    BY <1>3, <2>1, FS_Bijection
<1>5. Cardinality(A \cup B) = 2 ^ n + 2 ^ n - 0
  <2> HIDE DEF A, B
  <2> QED
    BY <1>1, <1>3, <1>4, FS_Union, FS_EmptySet
<1>6. Cardinality(A \cup B) = 2 ^ (n + 1)
  BY <1>1, <1>3
<1> DEFINE p == 2 ^ n
           q == 2 ^ (n + 1)
<1>7. p \in Nat /\ q = p + p - 0
  BY <1>3, <1>5, <1>6
<1> HIDE DEF p, q
<1>8. q = 2 * p
  BY <1>7
<1> QED
  BY <1>8 DEF p, q

(* With the powers named once, a longest stretch is a number.              *)
LEMMA LongestStretchIsNat ==
  /\ 2 ^ MaxAttempts \in Nat /\ 2 ^ MaxAttempts >= 1
  /\ LongestStretch \in Nat
<1>1. MaxAttempts \in Nat /\ 0 \in Nat /\ 0 <= MaxAttempts
  BY QueueAssumption
<1>2. 2 ^ MaxAttempts \in Nat /\ 2 ^ 0 <= 2 ^ MaxAttempts
  BY <1>1, SubsetsOfInterval, PowerMonotonic
<1>3. 2 ^ MaxAttempts >= 1
  BY <1>2, PowerOfZero
<1> QED
  BY <1>2, <1>3 DEF LongestStretch, FirstDelay

(* A call whose locals of the submission stay the same keeps its part.     *)
LEMMA SleepFrame ==
  ASSUME NEW g, SleepsByDoubling(g), sub'[g] = sub[g]
  PROVE  SleepsByDoubling(g)'
BY DEF SleepsByDoubling, LongestStretch

(* A submission begins with the first delay and nothing slept.             *)
LEMMA SleepStart ==
  ASSUME NEW s, s = SubmitStart
  PROVE  /\ s.delay = FirstDelay * 2 ^ (MaxAttempts - s.attempts)
         /\ s.slept <= LongestStretch * s.done + (s.delay - FirstDelay)
<1>1. MaxAttempts - s.attempts = 0
  BY QueueAssumption DEF SubmitStart
<1>2. s.delay = FirstDelay * 2 ^ (MaxAttempts - s.attempts)
  <2>1. 2 ^ (MaxAttempts - s.attempts) = 1
    BY <1>1, PowerOfZero
  <2>2. s.delay = FirstDelay * 1
    BY DEF SubmitStart, FirstDelay
  <2> QED
    BY <2>1, <2>2
<1>3. LongestStretch * 0 = 0
  BY LongestStretchIsNat
<1> QED
  BY <1>2, <1>3 DEF SubmitStart, FirstDelay

(* However often it was doubled, a delay is within the longest stretch.    *)
LEMMA DelayBounded ==
  ASSUME TypeOK, NEW g \in Handlers, SleepsByDoubling(g)
  PROVE  sub[g].delay - FirstDelay <= LongestStretch
<1> DEFINE p == 2 ^ (MaxAttempts - sub[g].attempts)
           q == 2 ^ MaxAttempts
<1>1. MaxAttempts \in Nat /\ sub[g].attempts \in 0 .. MaxAttempts
  BY QueueAssumption DEF TypeOK, QueueTypeOK, Submission
<1>2. /\ MaxAttempts - sub[g].attempts \in Nat
      /\ MaxAttempts - sub[g].attempts <= MaxAttempts
  BY <1>1
<1>3. p <= q /\ p \in Nat /\ q \in Nat
  BY <1>1, <1>2, PowerMonotonic, SubsetsOfInterval
<1>4. sub[g].delay = FirstDelay * p /\ LongestStretch = FirstDelay * (q - 1)
  BY DEF SleepsByDoubling, LongestStretch
<1> HIDE DEF p, q
<1> QED
  BY <1>3, <1>4 DEF FirstDelay

(* Progress adds a full stretch to the bound, and a stretch is all that    *)
(* the delay, however often it was doubled, can have added since the last. *)
LEMMA ProgressKeepsSleep ==
  ASSUME TypeOK, NEW g \in Handlers, SleepsByDoubling(g),
         NEW k \in 1 .. MaxIoDepth, SubmitAccept(g, aioctx[g].num_pending, k)
  PROVE  SleepsByDoubling(g)'
<1> DEFINE L == LongestStretch
           d == sub[g].done
<1>1. /\ sub'[g].done = d + k /\ sub'[g].attempts = MaxAttempts
      /\ sub'[g].delay = FirstDelay /\ sub'[g].slept = sub[g].slept
  BY SMT DEF SubmitAccept, TypeOK, QueueTypeOK
<1>2. /\ d \in Nat /\ k \in Nat /\ k >= 1 /\ sub[g].attempts \in 0 .. MaxAttempts
      /\ sub[g].slept \in Nat /\ sub[g].delay \in Nat /\ MaxAttempts \in Nat
  BY QueueAssumption DEF TypeOK, QueueTypeOK, Submission
<1>3. L \in Nat
  BY LongestStretchIsNat
<1>4. sub[g].delay - FirstDelay <= L
  BY DelayBounded
<1>5. sub[g].slept <= L * d + L
  <2>1. sub[g].slept <= L * d + (sub[g].delay - FirstDelay) /\ L * d \in Nat
    BY <1>2, <1>3 DEF SleepsByDoubling
  <2> HIDE DEF L
  <2> QED
    BY <1>2, <1>3, <1>4, <2>1 DEF FirstDelay
<1>6. L * d + L <= L * (d + k)
  <2>1. L * (d + k) = L * d + L * k /\ L * k >= L /\ L * d \in Nat /\ L * k \in Nat
    <3> HIDE DEF L, d
    <3> QED
      BY <1>2, <1>3
  <2> HIDE DEF L, d
  <2> QED
    BY <1>2, <1>3, <2>1
<1>7. sub'[g].slept <= L * sub'[g].done + (sub'[g].delay - FirstDelay)
  <2>1. L * (d + k) \in Nat /\ L * d \in Nat
    BY <1>2, <1>3
  <2> HIDE DEF L, d
  <2> QED
    BY <1>1, <1>2, <1>3, <1>5, <1>6, <2>1 DEF FirstDelay
<1>8. sub'[g].delay = FirstDelay * 2 ^ (MaxAttempts - sub'[g].attempts)
  <2>1. MaxAttempts - sub'[g].attempts = 0
    BY <1>1, <1>2
  <2>2. 2 ^ (MaxAttempts - sub'[g].attempts) = 1
    BY <2>1, PowerOfZero
  <2>3. sub'[g].delay = FirstDelay * 1
    BY <1>1 DEF FirstDelay
  <2> QED
    BY <2>2, <2>3
<1> QED
  BY <1>7, <1>8 DEF SleepsByDoubling, LongestStretch

(* A retry sleeps the delay and doubles it.                                *)
LEMMA RetryKeepsSleep ==
  ASSUME TypeOK, NEW g \in Handlers, SleepsByDoubling(g),
         SubmitAgain(g, aioctx[g].num_pending)
  PROVE  SleepsByDoubling(g)'
<1> DEFINE n == MaxAttempts - sub[g].attempts
<1>1. sub'[g] = Retried(sub[g]) /\ sub[g].attempts > 0
  BY SMT DEF SubmitAgain, TypeOK, QueueTypeOK
<1>2. /\ sub[g].attempts \in 0 .. MaxAttempts /\ MaxAttempts \in Nat
      /\ sub[g].done \in Nat /\ sub[g].slept \in Nat /\ sub[g].delay \in Nat
  BY QueueAssumption DEF TypeOK, QueueTypeOK, Submission
<1>3. n \in Nat /\ MaxAttempts - sub'[g].attempts = n + 1
  BY <1>1, <1>2 DEF Retried
<1>4. 2 ^ n \in Nat /\ 2 ^ (n + 1) = 2 * 2 ^ n
  BY <1>3, SubsetsOfInterval, PowerDoubles
<1>5. sub'[g].delay = FirstDelay * 2 ^ (MaxAttempts - sub'[g].attempts)
  <2>1. sub[g].delay = FirstDelay * 2 ^ n /\ sub'[g].delay = 2 * sub[g].delay
    BY <1>1 DEF SleepsByDoubling, Retried
  <2> HIDE DEF n
  <2> QED
    BY <1>3, <1>4, <2>1 DEF FirstDelay
<1>6. sub'[g].slept <=
        LongestStretch * sub'[g].done + (sub'[g].delay - FirstDelay)
  <2>1. LongestStretch * sub[g].done \in Nat
    BY <1>2, LongestStretchIsNat
  <2> QED
    BY <1>1, <1>2, <2>1 DEF SleepsByDoubling, Retried, FirstDelay
<1> QED
  BY <1>5, <1>6 DEF SleepsByDoubling, LongestStretch

(* Only the call itself changes the locals of its submission, when its     *)
(* stream ends and in each turn of the loop.                               *)
LEMMA WhoSubmits ==
  ASSUME TypeOK, [Next]_vars, NEW g \in Handlers
  PROVE  \/ sub'[g] = sub[g]
         \/ pc[g] = "stream" /\ sub'[g] = SubmitStart
         \/ /\ pc[g] = "submit" /\ aioctx' = aioctx
            /\ \/ \E k \in 1 .. MaxIoDepth : SubmitAccept(g, aioctx[g].num_pending, k)
               \/ SubmitAgain(g, aioctx[g].num_pending)
<1>1. ASSUME NEW h \in Handlers, h # g, Begin(h) \/ Stream(h) \/ Run(h)
      PROVE  sub'[g] = sub[g]
  BY <1>1, OnlyOwnCall
<1>2. CASE Begin(g)
  BY <1>2 DEF Begin, ContextReady, PutContextFails, GetContextFails
<1>3. CASE \E o \in Offsets : PutRead(g, o) \/ GetRead(g, o)
  BY <1>3 DEF PutRead, GetRead
<1>4. CASE PutReadEnds(g) \/ GetReadEnds(g) \/ GetReadFull(g)
  BY <1>4, SMT DEF PutReadEnds, GetReadEnds, GetReadFull, Goto, TypeOK, QueueTypeOK
<1>5. CASE SubmitLoop(g)
  BY <1>5 DEF SubmitLoop, BlockDeviceSubmitStep
<1>6. CASE \/ SubmitReturns(g) \/ Sleep(g) \/ Wake(g) \/ PutSync(g)
           \/ PutRespond(g) \/ GetRespond(g)
  BY <1>6 DEF SubmitReturns, Sleep, Wake, PutSync, PutRespond, GetRespond
<1>7. CASE \/ \E h \in Handlers, i \in Slots : KernelCompletes(h, i) \/ ReaperCounts(h, i)
           \/ ReaperReads \/ UNCHANGED vars
  BY <1>7 DEF KernelCompletes, ReaperCounts, ReaperReads, ReapEvents, vars
<1> QED
  BY <1>1, <1>2, <1>3, <1>4, <1>5, <1>6, <1>7 DEF Next, Stream, Run

(* The strengthened bound is inductive, spurious wakeups or not.           *)
LEMMA StepSleepInv == SleepInv /\ [Next]_vars => SleepInv'
<1> SUFFICES ASSUME SleepInv, [Next]_vars, NEW g \in Handlers
             PROVE  SleepsByDoubling(g)'
  BY StepTypeOK DEF SleepInv
<1> USE DEF SleepInv
<1>1. CASE sub'[g] = sub[g]
  BY <1>1, SleepFrame
<1>2. CASE sub'[g] = SubmitStart
  BY <1>2, SleepStart DEF SleepsByDoubling, LongestStretch
<1>3. ASSUME NEW k \in 1 .. MaxIoDepth, SubmitAccept(g, aioctx[g].num_pending, k)
      PROVE  SleepsByDoubling(g)'
  BY <1>3, ProgressKeepsSleep
<1>4. CASE SubmitAgain(g, aioctx[g].num_pending)
  BY <1>4, RetryKeepsSleep
<1> QED
  BY <1>1, <1>2, <1>3, <1>4, WhoSubmits

(* The delay is the first one doubled by each retry since the last         *)
(* progress, and what was slept follows the requests taken, for ever.      *)
THEOREM SleepInvHolds == Spec => []SleepInv
<1>1. Init => SleepInv
  <2> SUFFICES ASSUME Init, NEW h \in Handlers PROVE SleepsByDoubling(h)
    BY InitTypeOK DEF SleepInv
  <2>1. sub[h] = SubmitStart
    BY DEF Init, QueueInit
  <2> QED
    BY <2>1, SleepStart DEF SleepsByDoubling
<1> QED
  BY <1>1, StepSleepInv, PTL DEF Spec

(* A call sleeps for a full ring at most one longest stretch for each      *)
(* request the kernel has taken and one more.                              *)
THEOREM SleepBoundedHolds == Spec => []SleepBounded
<1>1. SleepInv => SleepBounded
  <2> SUFFICES ASSUME SleepInv, NEW h \in Handlers
               PROVE  sub[h].slept <= LongestStretch * (sub[h].done + 1)
    BY DEF SleepBounded, LongestStretch
  <2> DEFINE L == LongestStretch
             d == sub[h].done
  <2>1. /\ d \in Nat /\ sub[h].attempts \in 0 .. MaxAttempts
        /\ sub[h].slept \in Nat /\ sub[h].delay \in Nat /\ MaxAttempts \in Nat
    BY QueueAssumption DEF SleepInv, TypeOK, QueueTypeOK, Submission
  <2>2. sub[h].delay - FirstDelay <= L
    BY DelayBounded DEF SleepInv
  <2>3. L \in Nat /\ L * d \in Nat /\ L * (d + 1) = L * d + L
    BY <2>1, LongestStretchIsNat
  <2>4. sub[h].slept <= L * d + (sub[h].delay - FirstDelay)
    BY DEF SleepInv, SleepsByDoubling
  <2> HIDE DEF L, d
  <2>5. sub[h].slept <= L * (d + 1)
    BY <2>1, <2>2, <2>3, <2>4 DEF FirstDelay
  <2> QED
    BY <2>5 DEF L, d
<1> QED
  BY <1>1, SleepInvHolds, PTL

-----------------------------------------------------------------------------
(* The submission advances                                                 *)

(* A chunk of at least one request outweighs the retries it gives back.    *)
LEMMA ChunkOutweighsRetries ==
  ASSUME NEW m \in Nat, NEW a \in 0 .. m, NEW left \in Int, NEW k \in Nat, k >= 1
  PROVE  (left - k) * (m + 1) + m < left * (m + 1) + a
<1>1. k * (m + 1) >= m + 1
  <2>1. k * (m + 1) = (k - 1) * (m + 1) + (m + 1) /\ (k - 1) * (m + 1) >= 0
    OBVIOUS
  <2> QED
    BY <2>1
<1>2. (left - k) * (m + 1) = left * (m + 1) - k * (m + 1)
  OBVIOUS
<1>3. left * (m + 1) \in Int /\ k * (m + 1) \in Int
  OBVIOUS
<1> DEFINE x == left * (m + 1)
           y == k * (m + 1)
           z == (left - k) * (m + 1)
<1>4. x \in Int /\ y \in Int /\ z = x - y /\ y >= m + 1
  BY <1>1, <1>2, <1>3
<1> HIDE DEF x, y, z
<1>5. z + m < x + a
  BY <1>4
<1> QED
  BY <1>5 DEF x, z

LEMMA StepAdvances ==
  ASSUME TypeOK, [Next]_vars, NEW g \in Handlers, pc[g] = "submit",
         sub'[g] # sub[g]
  PROVE  TurnsLeft(g)' < TurnsLeft(g)
<1>1. /\ sub[g].done \in Nat /\ sub[g].attempts \in 0 .. MaxAttempts
      /\ MaxAttempts \in Nat /\ aioctx[g].num_pending \in Nat
  BY QueueAssumption
  DEF TypeOK, QueueTypeOK, Submission, ContextTypeOK, Context
<1>2. ASSUME NEW k \in 1 .. MaxIoDepth, aioctx' = aioctx,
             SubmitAccept(g, aioctx[g].num_pending, k)
      PROVE  TurnsLeft(g)' < TurnsLeft(g)
  <2> DEFINE left == aioctx[g].num_pending - sub[g].done
  <2>1. sub'[g].done = sub[g].done + k /\ sub'[g].attempts = MaxAttempts
    BY <1>2, SMT DEF SubmitAccept, TypeOK, QueueTypeOK
  <2>2. left \in Int /\ k \in Nat /\ k >= 1
    BY <1>1, QueueAssumption
  <2>3. (left - k) * (MaxAttempts + 1) + MaxAttempts
           < left * (MaxAttempts + 1) + sub[g].attempts
    <3> HIDE DEF left
    <3> QED
      BY <1>1, <2>2, ChunkOutweighsRetries
  <2>4. aioctx'[g].num_pending - sub'[g].done = left - k
    BY <1>1, <1>2, <2>1, <2>2
  <2> QED
    BY <2>1, <2>3, <2>4 DEF TurnsLeft
<1>3. ASSUME aioctx' = aioctx, SubmitAgain(g, aioctx[g].num_pending)
      PROVE  TurnsLeft(g)' < TurnsLeft(g)
  <2> DEFINE y == (aioctx[g].num_pending - sub[g].done) * (MaxAttempts + 1)
  <2>1. sub'[g].done = sub[g].done /\ sub'[g].attempts = sub[g].attempts - 1
    BY <1>3, SMT DEF SubmitAgain, Retried, TypeOK, QueueTypeOK
  <2>2. y \in Int
    BY <1>1
  <2>3. TurnsLeft(g) = y + sub[g].attempts
        /\ TurnsLeft(g)' = y + (sub[g].attempts - 1)
    BY <1>3, <2>1 DEF TurnsLeft
  <2> HIDE DEF y
  <2> QED
    BY <1>1, <2>2, <2>3
<1> QED
  BY <1>2, <1>3, WhoSubmits

(* Every turn of a submission hands over a request or uses up a retry.     *)
THEOREM SubmissionAdvancesHolds == Spec => SubmissionAdvances
<1>1. TypeOK /\ [Next]_vars =>
        [\A h \in Handlers : (pc[h] = "submit" /\ sub'[h] # sub[h])
                              => TurnsLeft(h)' < TurnsLeft(h)]_vars
  BY StepAdvances
<1> QED
  BY <1>1, TypeCorrect, PTL DEF Spec, SubmissionAdvances

-----------------------------------------------------------------------------
(* The sleeper's prospect                                                  *)

(* A call whose own state stays, and whose I/O at most moves on towards    *)
(* the count, can still be woken.                                          *)
LEMMA ProspectFrame ==
  ASSUME NEW g, WillBeWoken(g), pc'[g] = pc[g], cond'[g] = cond[g],
         sub'[g] = sub[g], aioctx'[g].num_pending = aioctx[g].num_pending,
         Outstanding(g)' # {}
  PROVE  WillBeWoken(g)'
BY DEF WillBeWoken

(* A count that is not the last leaves I/O outstanding.                    *)
LEMMA NotLastLeavesIO ==
  ASSUME Inv, NEW g \in Handlers, WillBeWoken(g),
         NEW i \in Slots, ReaperCounts(g, i), ~ LastCounted(g)
  PROVE  Outstanding(g)' # {}
<1> DEFINE n == aioctx[g].num_pending
<1>1. /\ aios[g][i].stage = "reaped"
      /\ \A j \in Slots :
            aios'[g][j].stage = IF j = i THEN "counted" ELSE aios[g][j].stage
      /\ \A j \in Slots : aios[g][j].stage \in Stages
  BY SMT DEF ReaperCounts, CountEvent, Moved, Inv, TypeOK, QueueTypeOK, Aio
<1>2. pc[g] = "blocked" /\ sub[g].done = n /\ CallInv(g)
  BY DEF Inv, WillBeWoken
<1>3. n \in Nat /\ Handed(g) = 1 .. n
  BY <1>2 DEF CallInv, HandsOverPrefix, Inv, TypeOK, ContextTypeOK, Context
<1>4. aioctx[g].num_running = Cardinality(Counted(g))
  BY <1>2 DEF CallInv, CountsEvents, InUse
<1>5. i \notin Counted(g) /\ Counted(g) \subseteq 1 .. n
  BY <1>1, <1>3, HandedFirst DEF Counted, At
<1>6. Cardinality(Counted(g) \cup {i}) = Cardinality(Counted(g)) + 1
  BY <1>3, <1>5, SlotsFinite, FS_AddElement
<1>7. Counted(g) \cup {i} # 1 .. n
  <2>1. Cardinality(1 .. n) = n
    BY <1>3, SlotsFinite
  <2>2. Cardinality(Counted(g)) + 1 # n
    BY <1>4 DEF LastCounted
  <2> QED
    BY <1>6, <2>1, <2>2
<1>8. i \in 1 .. n
  BY <1>1, <1>3 DEF Handed, At
<1>9. PICK j \in 1 .. n : j \notin Counted(g) \cup {i}
  BY <1>5, <1>7, <1>8
<1>10. j \in Slots /\ aios'[g][j].stage \in {"inflight", "completed", "reaped"}
  BY <1>1, <1>3, <1>9 DEF Handed, Counted, At, Stages
<1> QED
  BY <1>10 DEF Outstanding, At

(* No step takes a sleeper's prospect but the end of its sleep.            *)
LEMMA StepKeepsSleeper ==
  ASSUME Inv, [Next]_vars, NEW g \in Handlers, WillBeWoken(g)
  PROVE  WillBeWoken(g)' \/ cond'[g] \in {"signalled", "early"}
<1> USE DEF Inv
<1>1. pc[g] = "blocked" /\ cond[g] = "asleep" /\ Outstanding(g) # {}
  BY DEF WillBeWoken
<1>2. ASSUME NEW h \in Handlers, h # g, Begin(h) \/ Stream(h) \/ Run(h)
      PROVE  WillBeWoken(g)'
  <2>1. /\ aios'[g] = aios[g] /\ sub'[g] = sub[g] /\ aioctx'[g] = aioctx[g]
        /\ cond'[g] = cond[g] /\ pc'[g] = pc[g]
    BY <1>2, OnlyOwnCall
  <2> QED
    BY <1>1, <2>1, SetsFrame, ProspectFrame
<1>3. ASSUME Begin(g) \/ Stream(g) \/ Run(g)
      PROVE  cond'[g] = "early"
  <2>1. Wake(g)
    BY <1>1, <1>3, Zenon
    DEF Begin, ContextReady, PutContextFails, GetContextFails, Stream, PutRead,
        GetRead, PutReadEnds, GetReadEnds, GetReadFull, Run, SubmitLoop,
        SubmitReturns, Sleep, PutSync, PutRespond, GetRespond, Goto
  <2> QED
    BY <1>1, <2>1, SMT DEF Wake, CondReturn, TypeOK, ContextTypeOK
<1>4. ASSUME NEW h \in Handlers, NEW i \in Slots, KernelCompletes(h, i)
      PROVE  WillBeWoken(g)'
  <2>1. /\ sub' = sub /\ aioctx' = aioctx /\ cond' = cond /\ pc' = pc
        /\ aios[h][i].stage = "inflight"
        /\ \A j \in Slots :
              aios'[g][j].stage = IF <<g, j>> = <<h, i>> THEN "completed"
                                                        ELSE aios[g][j].stage
    BY <1>4, SMT DEF KernelCompletes, Complete, TypeOK, QueueTypeOK
  <2>2. Outstanding(g)' = Outstanding(g)
    BY <2>1 DEF Outstanding, At
  <2> QED
    BY <1>1, <2>1, <2>2, ProspectFrame
<1>5. CASE ReaperReads
  <2>1. PICK S \in SUBSET AllAt({"completed"}) : Getevents(ReapMax, S)
    BY <1>5 DEF ReaperReads, ReapEvents
  <2>2. /\ sub' = sub /\ aioctx' = aioctx /\ cond' = cond /\ pc' = pc
        /\ \A j \in Slots :
              \/ aios'[g][j].stage = aios[g][j].stage
              \/ aios[g][j].stage = "completed" /\ aios'[g][j].stage = "reaped"
    BY <1>5, <2>1, SMTT(60) DEF ReaperReads, ReapEvents, Getevents, AllAt, Moved
  <2>3. Outstanding(g)' = Outstanding(g)
    BY <2>2 DEF Outstanding, At
  <2> QED
    BY <1>1, <2>2, <2>3, ProspectFrame
<1>6. ASSUME NEW h \in Handlers, h # g, NEW i \in Slots, ReaperCounts(h, i)
      PROVE  WillBeWoken(g)'
  <2>1. /\ aios'[g] = aios[g] /\ sub'[g] = sub[g] /\ aioctx'[g] = aioctx[g]
        /\ cond'[g] = cond[g] /\ pc'[g] = pc[g]
    BY <1>6, SMT
    DEF ReaperCounts, CountEvent, AioContextTryWake, TypeOK, QueueTypeOK,
        ContextTypeOK
  <2> QED
    BY <1>1, <2>1, SetsFrame, ProspectFrame
<1>7. ASSUME NEW i \in Slots, ReaperCounts(g, i), LastCounted(g)
      PROVE  cond'[g] = "signalled"
  BY <1>1, <1>7, SMT
  DEF ReaperCounts, CountEvent, AioContextTryWake, Signalled, TypeOK,
      ContextTypeOK
<1>8. ASSUME NEW i \in Slots, ReaperCounts(g, i), ~ LastCounted(g)
      PROVE  WillBeWoken(g)'
  <2>1. /\ sub' = sub /\ pc' = pc /\ cond'[g] = cond[g]
        /\ aioctx'[g].num_pending = aioctx[g].num_pending
    BY <1>8, SMT
    DEF ReaperCounts, CountEvent, AioContextTryWake, TypeOK, ContextTypeOK
  <2> QED
    BY <1>8, <2>1, NotLastLeavesIO, ProspectFrame
<1>9. CASE UNCHANGED vars
  BY <1>1, <1>9, SetsFrame, ProspectFrame DEF vars
<1> QED
  BY <1>2, <1>3, <1>4, <1>5, <1>6, <1>7, <1>8, <1>9 DEF Next

(* A sleeper that can still be woken stays so until it is signalled or     *)
(* woken early.                                                            *)
THEOREM SleeperKeptHolds == Spec => SleeperKept
<1>1. Inv /\ [Next]_vars =>
        [\A h \in Handlers :
            WillBeWoken(h) =>
               WillBeWoken(h)' \/ cond'[h] \in {"signalled", "early"}]_vars
  BY StepKeepsSleeper
<1> QED
  BY <1>1, InvCorrect, PTL DEF Spec, SleeperKept

=============================================================================
