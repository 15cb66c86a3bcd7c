------------------------------ MODULE AioQueue ------------------------------
(***************************************************************************)
(* The asynchronous I/O queue of the block device                          *)
(* (src/store/bitstore/src/asyncio/aio.c) and the part of the kernel's     *)
(* libaio queue the code relies on.                                        *)
(*                                                                         *)
(* Every call of the server owns one array of aio_t control blocks.  An    *)
(* aio_t is prepared by aio_pread/aio_pwrite, handed to the kernel by      *)
(* aio_queue_submit, finished by the kernel and read back by               *)
(* aio_queue_getevents.  The field "stage" says how far it has come:       *)
(*                                                                         *)
(*   free -> prepared -> inflight -> completed -> reaped -> counted        *)
(*                                                                         *)
(* completed: its event is in the kernel's ring; reaped: its event is in   *)
(* the reaper's paio array; counted: the reaper has dealt with it.         *)
(***************************************************************************)
EXTENDS Integers, FiniteSets

CONSTANTS
  Handlers,        \* the calls of the server, each with an aio_t array
  ListLength,      \* aio_t's in the array (100 in aio_context_init)
  MaxIoDepth,      \* aio_queue_t.max_iodepth: most iocbs in one io_submit
  Events,          \* iocbs the kernel takes until their events are read
  MaxAttempts,     \* retries of io_submit without progress (16 in the code)
  Offsets,         \* the offsets clients ask for
  RefusedOffsets,  \* those io_submit rejects (e.g. negative as a loff_t)
  Length,          \* the bytes a request asks for
  Results          \* what the kernel may report for an accepted iocb

ASSUME QueueAssumption ==
  /\ ListLength \in Nat \ {0}
  /\ MaxIoDepth \in Nat \ {0}
  /\ Events \in Nat \ {0}
  /\ MaxAttempts \in Nat
  /\ RefusedOffsets \subseteq Offsets
  /\ Offsets # {}
  /\ Length \in Nat \ {0}
  /\ Results \subseteq Int

VARIABLES
  aios,   \* aios[h][i]: the i-th aio_t of call h
  sub     \* sub[h]: the locals of aio_queue_submit, running for call h

queueVars == <<aios, sub>>

Slots  == 1 .. ListLength
Stages == {"free", "prepared", "inflight", "completed", "reaped", "counted"}
Aio    == [stage : Stages, offset : Offsets, rval : Int]
Moved(aio, stage) == [stage |-> stage, offset |-> aio.offset, rval |-> aio.rval]

FirstDelay == 125        \* microseconds

(* slept is a history of the microseconds spent in usleep.                 *)
Submission == [done : Nat, attempts : 0 .. MaxAttempts, delay : Nat, slept : Nat]
SubmitStart == [done |-> 0, attempts |-> MaxAttempts, delay |-> FirstDelay,
                slept |-> 0]

QueueTypeOK ==
  /\ aios \in [Handlers -> [Slots -> Aio]]
  /\ sub \in [Handlers -> Submission]

(* malloc leaves an aio_t's fields undefined; none is read before it is    *)
(* written, so which offset and rval it starts with does not matter.       *)
QueueInit ==
  /\ aios = [h \in Handlers |-> [i \in Slots |->
               [stage |-> "free", offset |-> CHOOSE o \in Offsets : TRUE,
                rval |-> 0]]]
  /\ sub = [h \in Handlers |-> SubmitStart]

(* The slots of h's array, and the control blocks of all calls, at a stage *)
At(h, stages) == {i \in Slots : aios[h][i].stage \in stages}
AllAt(stages) == {x \in Handlers \X Slots : aios[x[1]][x[2]].stage \in stages}

(* What the kernel has been handed so far, what it or the reaper still has *)
(* a pointer to, and what the reaper has dealt with.                       *)
Handed(h)      == Slots \ At(h, {"free", "prepared"})
Outstanding(h) == At(h, {"inflight", "completed", "reaped"})
Counted(h)     == At(h, {"counted"})

-----------------------------------------------------------------------------
(* aio_pread and aio_pwrite: fill in the i-th control block of h.          *)
AioPwrite(h, i, o) ==
  aios' = [aios EXCEPT ![h][i] = [stage |-> "prepared", offset |-> o, rval |-> @.rval]]

AioPread(h, i, o) ==
  aios' = [aios EXCEPT ![h][i] = [stage |-> "prepared", offset |-> o, rval |-> @.rval]]

(* aio_queue_submit hands over h's first "size" control blocks in chunks.  *)
(* io_submit takes them in order, stops at the first it has no room for or *)
(* rejects, and fails only if that is the first of the chunk.              *)
Room == Events - Cardinality(AllAt({"inflight", "completed"}))

NextRefused(h) == aios[h][sub[h].done + 1].offset \in RefusedOffsets

ChunkFromStart(h, k) == 1 .. k                    \* mutant: "piocb", no "+ done"
Chunk(h, k) == sub[h].done + 1 .. sub[h].done + k

SubmitAcceptDelayed(h, size, k) ==                 \* mutant: delay not reset
  /\ sub[h].done + k <= size
  /\ k <= Room
  /\ \A i \in Chunk(h, k) : aios[h][i].offset \notin RefusedOffsets
  /\ aios' = [aios EXCEPT ![h] = [i \in Slots |->
                IF i \in Chunk(h, k) THEN Moved(aios[h][i], "inflight")
                                     ELSE aios[h][i]]]
  /\ sub' = [sub EXCEPT ![h].done = @ + k, ![h].attempts = MaxAttempts]

SubmitAccept(h, size, k) ==
  /\ sub[h].done + k <= size
  /\ k <= Room
  /\ \A i \in Chunk(h, k) : aios[h][i].offset \notin RefusedOffsets
  /\ aios' = [aios EXCEPT ![h] = [i \in Slots |->
                IF i \in Chunk(h, k) THEN Moved(aios[h][i], "inflight")
                                     ELSE aios[h][i]]]
  /\ sub' = [sub EXCEPT ![h] = [done |-> @.done + k,
                                attempts |-> MaxAttempts,
                                delay |-> FirstDelay,
                                slept |-> @.slept]]

(* io_submit returned -EAGAIN and a retry is left: usleep(delay), delay*2. *)
Retried(s) ==
  [done |-> s.done, attempts |-> s.attempts - 1, delay |-> 2 * s.delay,
   slept |-> s.slept + s.delay]

SubmitAgainAlways(h, size) ==                     \* mutant: no "attempts > 0"
  /\ sub[h].done < size
  /\ Room = 0
  /\ sub' = [sub EXCEPT ![h] = Retried(@)]
  /\ UNCHANGED aios

SubmitAgain(h, size) ==
  /\ sub[h].done < size
  /\ Room = 0
  /\ sub[h].attempts > 0
  /\ sub' = [sub EXCEPT ![h] = Retried(@)]
  /\ UNCHANGED aios

(* The two ways aio_queue_submit returns a negative error.                 *)
SubmitExhausted(h, size) ==
  /\ sub[h].done < size
  /\ Room = 0
  /\ sub[h].attempts = 0

SubmitRefused(h, size) ==
  /\ sub[h].done < size
  /\ Room > 0
  /\ NextRefused(h)

(* The loop ends: everything asked for has been handed over.               *)
SubmitComplete(h, size) == sub[h].done = size

-----------------------------------------------------------------------------
(* The kernel finishes an accepted control block, in any order, with any   *)
(* result; its event goes to the ring.  The result is written to rval here *)
(* and not when the event is read: the reaper reads it only after that.    *)
Complete(h, i, res) ==
  /\ aios[h][i].stage = "inflight"
  /\ aios' = [aios EXCEPT ![h][i] =
                [stage |-> "completed", offset |-> @.offset, rval |-> res]]

(* aio_queue_getevents: move events from the ring to the caller's array,   *)
(* at most "max" of them.  Completions are unordered, so neither is the    *)
(* ring.  A time-out, and an EINTR that is retried, change nothing.        *)
Getevents(max, S) ==
  /\ S # {}
  /\ S \subseteq AllAt({"completed"})
  /\ \/ Cardinality(S) = max
     \/ Cardinality(S) < max /\ S = AllAt({"completed"})
  /\ aios' = [h \in Handlers |-> [i \in Slots |->
                IF <<h, i>> \in S THEN Moved(aios[h][i], "reaped")
                                  ELSE aios[h][i]]]

=============================================================================
