-------------------------- MODULE DeviceLifecycle ---------------------------
(***************************************************************************)
(* How a block device is opened, started and stopped                       *)
(* (src/store/bitstore/src/asyncio/blockdevice.c and aio.c), and what      *)
(* becomes of its reaper thread (core/thread.c creates it) and of the I/O  *)
(* of the server's calls meanwhile.  BlockDevice models what happens to a  *)
(* call's batch; here an I/O is only at one of the stages                  *)
(*                                                                         *)
(*   idle -> inflight -> completed -> reaped -> counted       (or lost)    *)
(*                                                                         *)
(* Every failure of pthread is a positive number and thread_create tests   *)
(* for negative ones, so that it returns BITSTORE_OK whether or not there  *)
(* is a thread; the branch of block_device_aio_start that destroys the     *)
(* queue again is never taken.                                             *)
(***************************************************************************)
EXTENDS Integers, FiniteSets

CONSTANTS
  Ios,           \* the I/Os the calls of the server may submit
  KernelEvents,  \* the most events io_setup grants
  StackEvents,   \* the most io_events that fit on the reaper's stack
  MayStop        \* is block_device_aio_stop called?  The server never does

ASSUME LifecycleAssumption ==
  /\ KernelEvents \in Nat
  /\ StackEvents \in Nat
  /\ MayStop \in BOOLEAN

VARIABLES
  opening,    \* how far block_device_open has come
  dev,        \* fields of block_device_t: is fd_direct open, is there a
              \* queue (ring), its max_iodepth, and aio_stop
  reaper,     \* the reaper thread
  io          \* io[i]: the stage of the I/O i

deviceVars == <<opening, dev, reaper, io>>

DeviceTypeOK ==
  /\ opening \in {"closed", "file", "stat", "queue", "thread", "open", "failed"}
  /\ dev \in [fd : BOOLEAN, ring : BOOLEAN, max_iodepth : Int,
              aio_stop : BOOLEAN]
  /\ reaper \in {"none", "created", "reaping", "ended"}
  /\ io \in [Ios -> {"idle", "inflight", "completed", "reaped", "counted", "lost"}]

DeviceInit ==
  /\ opening = "closed"
  /\ dev = [fd |-> FALSE, ring |-> FALSE, max_iodepth |-> 0, aio_stop |-> FALSE]
  /\ reaper = "none"
  /\ io = [i \in Ios |-> "idle"]

At(stage) == {i \in Ios : io[i] = stage}

-----------------------------------------------------------------------------
(* block_device_aio_open: open and fstat may fail; the descriptor of a     *)
(* file that could not be examined stays open.                             *)
OpenFile ==
  /\ opening = "file"
  /\ \/ opening' = "stat" /\ dev' = [dev EXCEPT !.fd = TRUE]
     \/ opening' = "failed" /\ UNCHANGED dev
  /\ UNCHANGED <<reaper, io>>

StatFile ==
  /\ opening = "stat"
  /\ opening' \in {"queue", "failed"}
  /\ UNCHANGED <<dev, reaper, io>>

(* aio_queue_init: io_setup takes the depth as unsigned, so a negative one *)
(* is too large; it also fails when the events of the system are used up.  *)
SetupQueueUnchecked(depth) ==                  \* mutant: ret of init not tested
  /\ opening = "queue"
  /\ opening' = "thread"
  /\ dev' = [dev EXCEPT !.ring = depth \in 1 .. KernelEvents,
                        !.max_iodepth = depth, !.aio_stop = FALSE]
  /\ UNCHANGED <<reaper, io>>

SetupQueue(depth) ==
  /\ opening = "queue"
  /\ \/ /\ depth \in 1 .. KernelEvents
        /\ opening' = "thread"
        /\ dev' = [dev EXCEPT !.ring = TRUE, !.max_iodepth = depth,
                              !.aio_stop = FALSE]
     \/ /\ opening' = "failed"
        /\ dev' = [dev EXCEPT !.max_iodepth = depth, !.aio_stop = FALSE]
  /\ UNCHANGED <<reaper, io>>

CreateReaper ==
  /\ opening = "thread"
  /\ opening' = "open"
  /\ reaper' \in {"created", "none"}
  /\ UNCHANGED <<dev, io>>

Open(depth) == OpenFile \/ StatFile \/ SetupQueue(depth) \/ CreateReaper

-----------------------------------------------------------------------------
(* block_device_aio_thread allocates room for max events; a negative max   *)
(* is a size no malloc grants, and without memory the thread ends at once. *)
ReaperStarts(max) ==
  /\ reaper = "created"
  /\ \/ max >= 0 /\ reaper' = "reaping"
     \/ reaper' = "ended"
  /\ UNCHANGED <<opening, dev, io>>

(* aio_queue_getevents has an array of max io_events on its stack.         *)
StackOverflows(max) == reaper = "reaping" /\ max > StackEvents

(* The loop reads up to max events and counts them one by one.  With a max *)
(* of 0, or no queue, io_getevents fails each time and the loop spins.     *)
ReaperReads(max) ==
  /\ reaper = "reaping" /\ dev.ring
  /\ At("reaped") = {}
  /\ \E S \in SUBSET At("completed") :
        /\ S # {} /\ Cardinality(S) <= max
        /\ Cardinality(S) = max \/ S = At("completed")
        /\ io' = [i \in Ios |-> IF i \in S THEN "reaped" ELSE io[i]]
  /\ UNCHANGED <<opening, dev, reaper>>

ReaperCountsFirst(i) ==                        \* mutant: paio[0] for paio[i]
  /\ reaper = "reaping"
  /\ io[i] = "reaped"
  /\ io' = [j \in Ios |-> IF i = j THEN "counted"
                          ELSE IF io[j] = "reaped" THEN "lost" ELSE io[j]]
  /\ UNCHANGED <<opening, dev, reaper>>

ReaperCounts(i) ==
  /\ reaper = "reaping"
  /\ io[i] = "reaped"
  /\ io' = [io EXCEPT ![i] = "counted"]
  /\ UNCHANGED <<opening, dev, reaper>>

(* A call's io_submit, which the ring has room for, and the completion.    *)
Accept(i) ==
  /\ dev.ring /\ io[i] = "idle"
  /\ Cardinality(At("inflight") \cup At("completed")) < dev.max_iodepth
  /\ io' = [io EXCEPT ![i] = "inflight"]
  /\ UNCHANGED <<opening, dev, reaper>>

Complete(i) ==
  /\ io[i] = "inflight"
  /\ io' = [io EXCEPT ![i] = "completed"]
  /\ UNCHANGED <<opening, dev, reaper>>

(* block_device_aio_stop sets a flag that nobody reads and destroys the    *)
(* queue: what is in flight is finished, and no event of it is delivered.  *)
StopKeepsQueue ==                           \* mutant: the queue not destroyed
  /\ MayStop
  /\ opening = "open" /\ ~ dev.aio_stop
  /\ dev' = [dev EXCEPT !.aio_stop = TRUE]
  /\ UNCHANGED <<opening, reaper, io>>

Stop ==
  /\ MayStop
  /\ opening = "open" /\ ~ dev.aio_stop
  /\ dev' = [dev EXCEPT !.aio_stop = TRUE, !.ring = FALSE]
  /\ io' = [i \in Ios |-> IF io[i] \in {"inflight", "completed"}
                            THEN "lost" ELSE io[i]]
  /\ UNCHANGED <<opening, reaper>>

-----------------------------------------------------------------------------
(* A device is ready for the submission loop of aio_queue_submit, which    *)
(* hands over at most max_iodepth control blocks at a time, if it has a    *)
(* file, a queue, and a depth that lets the loop advance.                  *)
Ready == dev.fd /\ dev.ring /\ dev.max_iodepth \in 1 .. KernelEvents

=============================================================================
