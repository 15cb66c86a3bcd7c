------------------------------ MODULE BitStore ------------------------------
(***************************************************************************)
(* The BitStore gRPC service (src/store/bitstore/src/server/bitstore.cc):  *)
(* concurrent Put and Get calls on one block device and its reaper.        *)
(*                                                                         *)
(* A call reads its request stream, adds one I/O per request to its own    *)
(* context, submits them all, sleeps until the reaper has counted the last *)
(* of them, and answers.  "pc" is the point a call has reached:            *)
(*                                                                         *)
(*   start -> stream -> submit -> wait -> blocked -> (sync) -> respond     *)
(*         -> answered                                                     *)
(*                                                                         *)
(* "wait" is the window between the return of block_device_aio_submit and  *)
(* the sleep inside aio_context_wait.  A Get that cannot queue a read ends *)
(* in "closed": its stream ends without a response.                        *)
(***************************************************************************)
EXTENDS BlockDevice

CONSTANTS
  Puts,           \* the calls that are Puts; the others are Gets
  PutStreamMax,   \* the bounds on the requests a client streams
  GetStreamMax

ASSUME ServerAssumption ==
  /\ Puts \subseteq Handlers
  /\ PutStreamMax \in Nat
  /\ GetStreamMax \in Nat

VARIABLES
  pc,
  count,    \* count[h]: requests allocated so far, index into reqs / ppdata
  ret,      \* ret[h]: the local of the same name
  errcode   \* errcode[h]: the code answered, meaningful in "answered"

vars == <<aios, sub, aioctx, cond, mediumVars, pc, count, ret, errcode>>
locals == <<count, ret, errcode>>

Gets == Handlers \ Puts

Points == {"start", "stream", "submit", "wait", "blocked", "sync", "respond",
           "answered", "closed"}

TypeOK ==
  /\ QueueTypeOK
  /\ ContextTypeOK
  /\ DeviceTypeOK
  /\ pc \in [Handlers -> Points]
  /\ count \in [Handlers -> Nat]
  /\ ret \in [Handlers -> Int]
  /\ errcode \in [Handlers -> Int]

Init ==
  /\ QueueInit
  /\ ContextInit
  /\ DeviceInit
  /\ pc = [h \in Handlers |-> "start"]
  /\ count = [h \in Handlers |-> 0]
  /\ ret = [h \in Handlers |-> BITSTORE_OK]
  /\ errcode = [h \in Handlers |-> BITSTORE_OK]

Goto(h, from, to) ==
  /\ pc[h] = from
  /\ pc' = [pc EXCEPT ![h] = to]

-----------------------------------------------------------------------------
(* aio_context_init: it succeeds, or the call ends; Put answers the code,  *)
(* Get closes its stream.                                                  *)
ContextReady(h) ==
  /\ Goto(h, "start", "stream")
  /\ AioContextInit(h)
  /\ UNCHANGED <<queueVars, cond, mediumVars, locals>>

PutContextFails(h) ==
  /\ h \in Puts
  /\ Goto(h, "start", "answered")
  /\ \E e \in ContextInitErrors :
        /\ ret' = [ret EXCEPT ![h] = -e]
        /\ errcode' = [errcode EXCEPT ![h] = -e]
  /\ UNCHANGED <<queueVars, contextVars, mediumVars, count>>

GetContextFails(h) ==
  /\ h \in Gets
  /\ Goto(h, "start", "closed")
  /\ \E e \in ContextInitErrors : ret' = [ret EXCEPT ![h] = -e]
  /\ UNCHANGED <<queueVars, contextVars, mediumVars, count, errcode>>

(* Put allocates reqs[count++] before every Read, the one that finds the   *)
(* stream ended included.  In the loop count = num_pending, so with        *)
(* count < ListLength the context has a free slot too; past that the store *)
(* to reqs is undefined and the model stops.                               *)
PutSlotFree(h) == count[h] < ListLength

PutRead(h, o) ==
  /\ h \in Puts
  /\ Goto(h, "stream", "stream")
  /\ PutSlotFree(h)
  /\ aioctx[h].num_pending < PutStreamMax
  /\ count' = [count EXCEPT ![h] = @ + 1]
  /\ BlockDeviceAioWrite(h, o)
  /\ ret' = [ret EXCEPT ![h] = BITSTORE_OK]
  /\ UNCHANGED <<sub, cond, mediumVars, errcode>>

PutReadEnds(h) ==
  /\ h \in Puts
  /\ Goto(h, "stream", "submit")
  /\ PutSlotFree(h)
  /\ count' = [count EXCEPT ![h] = @ + 1]
  /\ sub' = [sub EXCEPT ![h] = SubmitStart]
  /\ UNCHANGED <<aios, contextVars, mediumVars, ret, errcode>>

(* Get's loop, its exit on a full context, and its end of stream.          *)
GetRead(h, o) ==
  /\ h \in Gets
  /\ Goto(h, "stream", "stream")
  /\ count[h] < GetStreamMax
  /\ count' = [count EXCEPT ![h] = @ + 1]
  /\ BlockDeviceAioRead(h, o)
  /\ ret' = [ret EXCEPT ![h] = BITSTORE_OK]
  /\ UNCHANGED <<sub, cond, mediumVars, errcode>>

GetReadFull(h) ==
  /\ h \in Gets
  /\ Goto(h, "stream", "closed")
  /\ count[h] < GetStreamMax
  /\ count' = [count EXCEPT ![h] = @ + 1]
  /\ AioContextFull(h)
  /\ ret' = [ret EXCEPT ![h] = -ERR_LIST_FULL]
  /\ AioContextDestroy(h)
  /\ UNCHANGED <<queueVars, cond, mediumVars, errcode>>

GetReadEnds(h) ==
  /\ h \in Gets
  /\ Goto(h, "stream", "submit")
  /\ sub' = [sub EXCEPT ![h] = SubmitStart]
  /\ UNCHANGED <<aios, contextVars, mediumVars, locals>>

-----------------------------------------------------------------------------
(* The call inside block_device_aio_submit, and its return: a negative     *)
(* code is logged and the call goes on to wait all the same.               *)
SubmitLoop(h) ==
  /\ pc[h] = "submit"
  /\ BlockDeviceSubmitStep(h)
  /\ UNCHANGED <<contextVars, mediumVars, pc, locals>>

SubmitReturns(h) ==
  /\ Goto(h, "submit", "wait")
  /\ \E r \in {BITSTORE_OK, -EAGAIN, -EINVAL} :
        BlockDeviceSubmitReturn(h, r) /\ ret' = [ret EXCEPT ![h] = r]
  /\ UNCHANGED <<queueVars, contextVars, mediumVars, count, errcode>>

(* aio_context_wait: fall asleep, and return.                              *)
Sleep(h) ==
  /\ Goto(h, "wait", "blocked")
  /\ CondSleep(h)
  /\ UNCHANGED <<queueVars, aioctx, mediumVars, locals>>

Wake(h) ==
  /\ Goto(h, "blocked", IF h \in Puts THEN "sync" ELSE "respond")
  /\ CondReturn(h)
  /\ UNCHANGED <<queueVars, aioctx, mediumVars, locals>>

(* Put makes its data durable, ignoring fsync's result.                    *)
PutSyncOmitted(h) ==                                       \* mutant: no fsync
  h \in Puts /\ Goto(h, "sync", "respond")
    /\ UNCHANGED <<queueVars, contextVars, mediumVars, locals>>

PutSync(h) ==
  /\ h \in Puts
  /\ Goto(h, "sync", "respond")
  /\ Fsync(h, Puts)
  /\ UNCHANGED <<queueVars, contextVars, locals>>

(* Put answers the batch's rval; Get answers 0 with the buffers it read    *)
(* into.  Both free the context first.                                     *)
PutRespond(h) ==
  /\ h \in Puts
  /\ Goto(h, "respond", "answered")
  /\ ret' = [ret EXCEPT ![h] = aioctx[h].rval]
  /\ errcode' = [errcode EXCEPT ![h] = aioctx[h].rval]
  /\ AioContextDestroy(h)
  /\ UNCHANGED <<queueVars, cond, mediumVars, count>>

GetRespond(h) ==
  /\ h \in Gets
  /\ Goto(h, "respond", "answered")
  /\ ret' = [ret EXCEPT ![h] = aioctx[h].rval]
  /\ errcode' = [errcode EXCEPT ![h] = 0]
  /\ AioContextDestroy(h)
  /\ UNCHANGED <<queueVars, cond, mediumVars, count>>

-----------------------------------------------------------------------------
(* The kernel and the reaper.                                              *)
KernelCompletes(h, i) ==
  /\ \E res \in Results : Complete(h, i, res)
  /\ UNCHANGED <<sub, contextVars, mediumVars, pc, locals>>

ReaperReads == ReapEvents /\ UNCHANGED <<contextVars, mediumVars, pc, locals>>

ReaperCounts(h, i) ==
  /\ CountEvent(h, i)
  /\ UNCHANGED <<sub, mediumVars, pc, locals>>

-----------------------------------------------------------------------------
Stream(h) ==
  \/ \E o \in Offsets : PutRead(h, o) \/ GetRead(h, o)
  \/ PutReadEnds(h) \/ GetReadEnds(h) \/ GetReadFull(h)

Begin(h) == ContextReady(h) \/ PutContextFails(h) \/ GetContextFails(h)

(* The steps a call takes by itself once its stream has ended.             *)
Run(h) ==
  \/ SubmitLoop(h) \/ SubmitReturns(h)
  \/ Sleep(h) \/ Wake(h)
  \/ PutSync(h) \/ PutRespond(h) \/ GetRespond(h)

Next ==
  \/ \E h \in Handlers : Begin(h) \/ Stream(h) \/ Run(h)
  \/ \E h \in Handlers, i \in Slots : KernelCompletes(h, i) \/ ReaperCounts(h, i)
  \/ ReaperReads

Spec == Init /\ [][Next]_vars

(* Threads that can run do run, the kernel finishes what it accepted and   *)
(* the reaper keeps reaping.  Clients need not send or end their streams,  *)
(* and nobody is owed a wakeup without a signal.                           *)
RunWhenDue(h) == Run(h) /\ (cond'[h] = "early" => cond[h] = "early")

Fairness ==
  /\ \A h \in Handlers : WF_vars(RunWhenDue(h))
  /\ \A h \in Handlers, i \in Slots :
        WF_vars(KernelCompletes(h, i)) /\ WF_vars(ReaperCounts(h, i))
  /\ WF_vars(ReaperReads)

FairSpec == Spec /\ Fairness

-----------------------------------------------------------------------------
(* Safety                                                                  *)

(* There is no loop around pthread_cond_wait (thread.c:73): a call woken   *)
(* without a signal goes on as if its batch were done.  What follows is    *)
(* promised to the other calls, whoever is woken early among them.         *)
WokenEarly(h) == cond[h] = "early"

(* "block wait for asyncio complete": a call past aio_context_wait has had *)
(* each I/O of its batch completed by the kernel and counted by the reaper.*)
WaitCoversBatch ==
  \A h \in Handlers :
     pc[h] \in {"sync", "respond"} /\ ~ WokenEarly(h) =>
        Counted(h) = 1 .. aioctx[h].num_pending

(* A call's context, freed by aio_context_destroy, is never still in the   *)
(* kernel's or the reaper's hands: whoever frees it (an answered call, or  *)
(* a Get closed by a full list) has no I/O outstanding, so that the reaper *)
(* never counts into a dead aio_context_t.                                 *)
ContextOutlivesIO ==
  \A h \in Handlers :
     Outstanding(h) # {} /\ ~ WokenEarly(h) => aioctx[h].live

(* aio_queue_submit's bookkeeping of partial submissions: the control      *)
(* blocks handed to the kernel are exactly the first "done" ones, however  *)
(* the chunks, the full ring and the refusals cut the batch.               *)
SubmittedPrefix ==
  \A h \in Handlers :
     Handed(h) =
        IF pc[h] \in {"start", "stream", "closed"} THEN {}
                                                   ELSE 1 .. sub[h].done

(* A call sleeps for a full ring at most FirstDelay * (2^MaxAttempts - 1)  *)
(* for every request the kernel has taken, and once more: the ~8 seconds   *)
(* of the comment at aio.c:75 are those of one stretch without progress,   *)
(* each of which starts from attempts and delay anew.                      *)
SleepBounded ==
  \A h \in Handlers :
     sub[h].slept <= FirstDelay * (2 ^ MaxAttempts - 1) * (sub[h].done + 1)

(* When Put answers, every one of its writes that succeeded is on stable   *)
(* storage (bitstore.cc:87 "sync data to disk"), although fsync runs after *)
(* the wait and other calls' I/O is in progress at the time.  Only a Put   *)
(* whose own fsync failed is not promised it, even if no other's did.      *)
AnsweredWritesDurable ==
  \A h \in Puts \ unsynced :
     pc[h] = "answered" /\ ~ WokenEarly(h) =>
        \A i \in Finished(h) : <<h, i>> \in durable

(* The answer to a Put of one request tells exactly whether all its bytes  *)
(* were written: it is an error for a short write, and never for what      *)
(* happened to another call.                                               *)
SoleRequestExact ==
  \A h \in Puts :
     (pc[h] = "answered" /\ count[h] = 2 /\ ~ WokenEarly(h)) =>
        errcode[h] = IF Finished(h) = {1} THEN Length ELSE -EIO

(* Each turn of the submission loop uses up a retry or hands over a        *)
(* request, and nobody gives retries back, so that a submission ends after *)
(* a bounded number of turns whatever the other calls do with the ring.    *)
TurnsLeft(h) ==
  (aioctx[h].num_pending - sub[h].done) * (MaxAttempts + 1) + sub[h].attempts

SubmissionAdvances ==
  [][\A h \in Handlers :
        (pc[h] = "submit" /\ sub'[h] # sub[h]) => TurnsLeft(h)' < TurnsLeft(h)]_vars

-----------------------------------------------------------------------------
(* Refinement: the server implements BatchIO, with an I/O issued when the  *)
(* kernel accepts it and finished when the reaper has counted it.  A call  *)
(* woken early never ends, to the others' eyes.                            *)
Batch == INSTANCE BatchIO WITH
  Calls <- Handlers,
  Ids <- Slots,
  ended <- {h \in Handlers : pc[h] \in {"answered", "closed"}
                                /\ ~ WokenEarly(h)},
  issued <- [h \in Handlers |-> Handed(h)],
  finished <- [h \in Handlers |-> Counted(h)]

(* Every I/O is issued and counted once, and before its call ends.         *)
ImplementsBatchIO == Batch!BatchSpec

-----------------------------------------------------------------------------
(* Liveness                                                                *)

(* The submission loop always ends, also when the ring is full of other    *)
(* calls' I/O: room comes back or the retries run out.                     *)
SubmissionEnds ==
  \A h \in Handlers : pc[h] = "submit" ~> pc[h] = "wait"

(* A call that is asleep with its whole batch handed over and an I/O still *)
(* to be counted is woken by the last count and answers.  It is promised   *)
(* as long as no other call was woken early: the reaper counts that one's  *)
(* I/O into a freed context, and what it does from then on is undefined.   *)
WillBeWoken(h) ==
  /\ pc[h] = "blocked" /\ cond[h] = "asleep"
  /\ sub[h].done = aioctx[h].num_pending
  /\ Outstanding(h) # {}

SleeperAnswered ==
  \A h \in Handlers :
     WillBeWoken(h) ~> \/ pc[h] = "answered"
                       \/ \E g \in Handlers \ {h} : WokenEarly(g)

(* No step of anyone takes that prospect from it but the signal itself, or *)
(* its own early wakeup: the count that leaves no I/O outstanding is the   *)
(* one that signals.                                                       *)
SleeperKept ==
  [][\A h \in Handlers :
        WillBeWoken(h) =>
           WillBeWoken(h)' \/ cond'[h] \in {"signalled", "early"}]_vars

=============================================================================
