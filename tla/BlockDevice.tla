----------------------------- MODULE BlockDevice ----------------------------
(***************************************************************************)
(* An open block device (src/store/bitstore/src/asyncio/blockdevice.c):    *)
(* what its reads, writes and submissions do to a call's context, the      *)
(* reaper thread block_device_aio_thread, and the medium under it.  Each   *)
(* operation is an action on the variables of AioQueue and AioContext.     *)
(***************************************************************************)
EXTENDS AioContext

CONSTANTS
  ReapMax,       \* aio_reap_max: most events of one io_getevents
  FsyncMayFail   \* may fsync fail and leave the data volatile?

ASSUME DeviceAssumption ==
  /\ ReapMax \in Nat \ {0}
  /\ FsyncMayFail \in BOOLEAN

VARIABLES
  durable,   \* the completed writes that are on stable storage
  unsynced   \* history: the calls whose own fsync failed

mediumVars == <<durable, unsynced>>

DeviceTypeOK == durable \subseteq Handlers \X Slots /\ unsynced \subseteq Handlers

DeviceInit == durable = {} /\ unsynced = {}

-----------------------------------------------------------------------------
NextSlot(h) == aioctx[h].num_pending + 1

(* block_device_aio_write and block_device_aio_read when the context has a *)
(* free slot; with none they return ERR_LIST_FULL and change nothing.      *)
BlockDeviceAioWrite(h, o) == AioContextAdd(h) /\ AioPwrite(h, NextSlot(h), o)

BlockDeviceAioRead(h, o) == AioContextAdd(h) /\ AioPread(h, NextSlot(h), o)

(* block_device_aio_submit: one turn of the submission loop ...            *)
BlockDeviceSubmitStepEmpty(h) ==      \* mutant: a max_iodepth of 0 let pass
  \/ \E k \in 0 .. MaxIoDepth : SubmitAccept(h, aioctx[h].num_pending, k)
  \/ SubmitAgain(h, aioctx[h].num_pending)

BlockDeviceSubmitStep(h) ==
  \/ \E k \in 1 .. MaxIoDepth : SubmitAccept(h, aioctx[h].num_pending, k)
  \/ SubmitAgain(h, aioctx[h].num_pending)

(* ... and its return with a code; an empty batch returns at once.         *)
EAGAIN == 11
EINVAL == 22

RefusedRetried(h, r) ==                   \* mutant: every error is retried
  SubmitComplete(h, aioctx[h].num_pending) /\ r = BITSTORE_OK

BlockDeviceSubmitReturn(h, r) ==
  \/ SubmitComplete(h, aioctx[h].num_pending) /\ r = BITSTORE_OK
  \/ SubmitExhausted(h, aioctx[h].num_pending) /\ r = -EAGAIN
  \/ SubmitRefused(h, aioctx[h].num_pending) /\ r = -EINVAL

-----------------------------------------------------------------------------
(* The reaper: read events once the previous ones are dealt with, then     *)
(* deal with them one by one.                                              *)
ReapEvents ==
  /\ AllAt({"reaped"}) = {}
  /\ \E S \in SUBSET AllAt({"completed"}) : Getevents(ReapMax, S)
  /\ UNCHANGED sub

(* What a batch's rval becomes when the kernel reported res for one I/O.   *)
EventRvalAnyLength(res) == IF res < 0 THEN -EIO ELSE res  \* mutant: short I/O
EventRval(res) == IF res < 0 \/ res # Length THEN -EIO ELSE res

(* The event points to the context of the call that issued the I/O.  If    *)
(* that call was woken early and has freed its context, counting the event *)
(* is undefined, and the reaper of the model stops there.                  *)
CountEvent(h, i) ==
  /\ aioctx[h].live
  /\ aios[h][i].stage = "reaped"
  /\ aios' = [aios EXCEPT ![h][i] = Moved(@, "counted")]
  /\ AioContextTryWake(h, EventRval(aios[h][i].rval))

-----------------------------------------------------------------------------
(* The I/Os of h that moved all the bytes they were asked to move.         *)
Finished(h) ==
  {i \in At(h, {"completed", "reaped", "counted"}) : aios[h][i].rval = Length}

(* fsync on the device's descriptor by h, one of the calls in W that write:*)
(* what the device has completed so far becomes durable, unless it fails.  *)
Fsync(h, W) ==
  \/ /\ durable' = durable \cup {x \in W \X Slots : x[2] \in Finished(x[1])}
     /\ UNCHANGED unsynced
  \/ /\ FsyncMayFail
     /\ unsynced' = unsynced \cup {h}
     /\ UNCHANGED durable

=============================================================================
