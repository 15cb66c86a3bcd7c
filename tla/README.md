# Verification of serissa's bitstore

This directory holds a TLA+ development of the storage server in
`src/store/bitstore`: modules translated from its C and C++ source, TLC
configurations that check them on small instances, and theorems about them
whose proofs TLAPS checks. Paths below are relative to
`src/store/bitstore/src/` unless they start with `src/`; line numbers are those
of the commit in this repository.

`PROJECT.json` is the machine-readable index: components, runs, the source lines
each definition stands for, the hazards and the properties that cover them, the
disagreements found, and for each property a small change of the model (a
plausible bug of the code) that the property detects.

## 1. The system

A client streams `PutRequest`s or `GetRequest`s to the gRPC service `BitStore`.
Every call gathers its requests into one batch of asynchronous I/Os, hands the
batch to the kernel, sleeps until a *reaper* thread has seen all completions,
and answers. There is one device and one reaper per server, and any number of
calls at a time.

| component | state | operations | interacts with |
|---|---|---|---|
| BitStore service, `server/bitstore.cc` | per call: stream position, `count`, `ret`, the context | `Put`, `Get` | block device, context; one gRPC thread per call |
| block device, `asyncio/blockdevice.c` | the medium, the buffers of the I/Os | `read`, `write`, `submit`, `fsync`, the reaper's loop | context (fills it; the reaper counts in it), queue |
| life cycle of the device, `asyncio/blockdevice.c` | `fd_direct`, whether there is a queue, `max_iodepth`, `aio_stop`; the reaper thread | `open`, `start`, `stop`, the reaper's start and end | start-up opens it; nobody stops it |
| context, `asyncio/aiocontext.c` | the array of `aio_t`, `num_pending`, `num_running`, `rval`, a condition variable | `init`, `add`, `wait`, `try_wake`, `return_value`, `destroy` | shared, without a lock, by its call and the reaper |
| queue, `asyncio/aio.c` | the libaio context, `max_iodepth` | `aio_pread`, `aio_pwrite`, `submit` with retries, `getevents` | kernel AIO |
| condition variable, `core/thread.c` | mutex and condition | wrappers of pthread | the context |
| thread pool, `core/thread.c` | an array of thread ids, `stop` | `thread_pool_init`, `worker`, `destroy` | its workers; it has no caller |
| dictionary, `core/dictionary.c` | `size`, `n`, arrays `key`, `val`, `hash` | `set` (with `grow`), `unset`, `get`, `new`, `del` | INI parser |
| INI parser and configuration, `core/iniparser.c`, `core/config.c` | a file being read, a dictionary | `iniparser_load`, getters, `parse_config` | dictionary, start-up |
| start-up, `main.cc`, `server/bitstore.cc` | flags, the configuration | `init`, the constructor, `Run` | configuration, logging, device |
| logging, `core/log.cc` | none | passes a message to glog | everything |
| kernel AIO, gRPC, protobuf, glog | external | `io_submit`, `io_getevents`, streams | modelled as the environment where the code uses them |
| S3 layer, memstore, cluster design (`src/s3`, `src/store/memstore`, `src/note/design`) | none | a stub, an empty file, design notes | nothing to model yet |

### What is hard here

* **The wait.** `aio_context_wait` sleeps on a condition variable without testing
  the counts, and the reaper signals without the mutex. The signal can come
  before the sleep, and a sleep can end without a signal.
* **A batch is cut.** `io_submit` takes fewer iocbs than it was given, none
  (`EAGAIN`, retried with a doubling delay), or rejects one. The loop
  keeps a pointer offset and a retry budget that is reset by every progress.
* **One ring, many calls.** The events of all calls share a ring; one call's I/O
  can keep another's from being submitted; events come back in any order
  and in groups that mix calls.
* **Lifetime.** The kernel and the reaper hold pointers into the context of a call,
  on that call's stack; the call frees the context when its wait is over.
* **Results.** One `rval` per batch is overwritten by every event.
* **Durability.** `fsync` runs while I/O of other calls is in progress.
* **Payloads.** The bytes of many I/Os move at once, over ranges that may overlap, and
  are copied and sent as C strings.
* **Opening.** The device is opened step by step with numbers from a file, cut from
  long to int; a reaper that cannot be created is not noticed; `stop` takes the queue
  away from under the reaper and the calls.
* **The pool.** A worker finds its argument by searching its own id in an array that its
  creator is still writing and that its destroyer frees.
* **The dictionary** uses `n` both as a count and as the place to start probing,
  leaves holes when a key is unset, and ignores failed copies of strings and arrays that
  could not be allocated.
* **The dump** prints what was read without quotes and pads it: a line may come back as another.

What makes each component correct: the queue hands over every prepared control
block once and in order; the context's counts agree with the events seen; a call
past its wait has no I/O outstanding; a context outlives its I/O; an answer to a
Put means durable data and tells failure from success; a call whose I/O is done
is answered; bytes come back to who asked for them; a server that serves has a device
it can submit to; a worker works on its own argument; a dictionary is a map, and its
loops end; the settings are those of the file. The full list, with lines, is under `hazards` in `PROJECT.json`.

## 2. The modules

```
AioQueue <- AioContext <- BlockDevice <- BitStore  --implements-->  BatchIO
                                            ^                          ^
               BitStoreClaims, BitStoreInductive <- MCBitStore      Payload <- MCPayload
                                    ^                             ^
                              BitStoreProofs <- BitStoreBatchProofs          PayloadProofs

DeviceLifecycle <- Startup <- MCStartup          ThreadPool <- MCThreadPool
                      ^                              ^
                 StartupProofs                  ThreadPoolProofs

Dictionary --implements--> KeyMap        MCDictionary, DictionaryProofs extend Dictionary
    ^
    | INSTANCE
IniParser <- Config <- MCConfig
    ^           ^
MeaningProofs <- ConfigProofs
```

(`A <- B`: B extends A.)

**AioQueue** models `aio.c` and the kernel queue it uses. `aios[h][i]` is the
i-th control block of call `h`; its stage goes
`free → prepared → inflight → completed → reaped → counted`. `sub[h]` holds the
locals `done`, `attempts`, `delay` of `aio_queue_submit`. One turn of its loop
is an action: `SubmitAccept` (io_submit took `k` iocbs, progress resets the
budget), `SubmitAgain` (`EAGAIN`, one retry less, twice the delay; `slept` adds the
delays up, in units of the first); `SubmitComplete`,
`SubmitExhausted` and `SubmitRefused` are its three ways out. The kernel's side is
nondeterministic: any number up to the room in the ring is accepted, an iocb
that is bad (`RefusedOffsets`) stops the chunk before it and is an error only when it
is the first, and completions come in any order with any of `Results`.

**AioContext** models `aiocontext.c` with the condition variable of `thread.c`.
The mutex is taken by the sleeper only, so it excludes nobody and is left out;
a signal wakes a sleeper or is lost. `SpuriousWakeups` says whether
`pthread_cond_wait` may return by itself, as POSIX allows; `cond[h]` is then `"early"` for the rest of the
call, which runs on as if it had been signalled.

**BlockDevice** adds the device operations, the reaper (`ReapEvents` takes the
next group of events when the previous group is dealt with, `CountEvent` deals with one) and the
medium: `durable` is the set of writes an `fsync` has covered, `unsynced` (a history variable) the calls
whose own `fsync` failed. A call that was woken early frees its context with I/O outstanding. The reaper would
count the next event of it into freed memory, which is undefined: `CountEvent` needs a live context, and the
reaper of the model stops at that event, as the order of events before it allows.

**BitStore** is the service. `pc[h]` walks through a call:

| `pc` | code in `Put` (`Get`) | actions leaving it |
|---|---|---|
| `start` | `aio_context_init`, bitstore.cc:43 (119) | `ContextReady`, `PutContextFails`, `GetContextFails` |
| `stream` | the read loop, 51 (124) | `PutRead`, `GetRead`, `PutReadEnds`, `GetReadEnds`, `GetReadFull` |
| `submit` | `block_device_aio_submit`, 76 (133) | `SubmitLoop`, `SubmitReturns` |
| `wait` | between that return and the sleep | `Sleep` |
| `blocked` | in `pthread_cond_wait`, thread.c:73 | `Wake` |
| `sync` | `fsync`, 88 | `PutSync` |
| `respond` | answer and free the context, 90 (137) | `PutRespond`, `GetRespond` |
| `answered`, `closed` | the call is over; `closed`: without a response | |

The reaper and the kernel step between any two of these (`ReaperReads`,
`ReaperCounts`, `KernelCompletes`). The store to `rval`, the increment of
`num_running` and the signal of one event are one action: only the reaper
writes these fields after submission, and its call reads `rval` after its wait only.

**BatchIO** is the abstract specification of a call's I/O: sets of issued and
finished I/Os per call; an I/O is issued once, finished once after it was
issued, and a call ends only when everything issued is finished.

**Payload** adds the bytes to `BatchIO`. When an I/O is issued and finished and a call
ends is taken from there, which `BitStore` is shown to implement, so that the bytes need
not carry the server's bookkeeping. `PutRead` is the `strncpy` into a fresh buffer, `Transfer` moves one byte
between a buffer and the medium, in any order and interleaved with all other I/Os;
`Done` finishes an I/O with all, some or none of its bytes moved. `GetEnds` sends each
buffer as a C string. `posix_memalign` may fail in every request: a Put then
writes to NULL, a Get fails in the kernel and makes a response from NULL.

**DeviceLifecycle** models `block_device_open`, `_start` and `_stop`, the creation of the
reaper (`CreateReaper` yields `open` with or without a thread, since `thread_create`
tests `< 0` and pthread errors are positive) and its silent end without memory.
An I/O here is only at a stage; `Stop` loses what is in flight. **Startup** is the main thread:
`ParseConfig` of the default file, `InitLogging` (gflags replaces what the file set, and
the name of the file after it was read), `BlockSignals`, the constructor (`OpenDevice`,
`DeviceOpened`), `Listen`. `ToInt` cuts a long down as `iniparser_getint` does. The reaper runs
from its creation on, beside the main thread.

**ThreadPool** models one pool. `pthread_create` stores the id before the thread can run
(`CreateIdFirst`) or after (`CreateThreadFirst`, `StoreId`); a failed one stores anything
(`CreateFails`) and goes unnoticed. A worker's search is one slot a step (`Match`,
`LookOn`); what a slot not yet written or a freed array holds is arbitrary, and a
freed array may crash the search. `Destroy` is two steps: `stop`, then `free`.

**BitStoreClaims** holds statements of comments and messages of the code which the
code does not keep. **BitStoreInductive** holds the inductive invariant `Inv`,
**BitStoreProofs** its proof, **BitStoreBatchProofs** what follows from it. The other
`MC` modules give model values and the `*Proofs` modules hold proofs.

**Dictionary** models `dictionary.c` on arrays `0 .. size-1`. `dictionary_set` is split
by its outcomes: `SetReplaces` (key found, value replaced in place), `SetInserts`
(room left), `SetGrows` (doubled arrays), `SetFails` (no memory to grow). `dictionary_new` does not test its
callocs: `missing` holds the arrays that are NULL, and an operation that goes through one is a `Crash`
(a set always; a get or an unset if it is the array of keys). The copy
of a key or a value may be NULL in every set, because `xstrdup` may fail and its result is
not tested: an inserted key can then be missing although `n` counts it. The hash
comparison is a shortcut for string comparison and is left out.
**KeyMap** is the abstract map: a set takes effect and returns 0, or returns -1 and
changes nothing (never for a key that is there), or, short of memory, loses only
its own value or its own new key. A map that is `broken` from the start takes no set and may end the program.

**IniParser** models `iniparser_load` one `fgets` a step, on an instance of
`Dictionary`. A line has a *form*, which the loop looks at (`whole`; `continued` by
a backslash; `toolong` for the buffer; `short`, skipped unless it completes a
continued line), and a *text*, what `iniparser_line` makes of the logical line. What
`sscanf`, stripping and lower-casing do to characters is abstracted into these
kinds. A key is the sequence of its words between colons, which keeps what matters
about colons: the key `a:b` of entry `b` in section `a` is also the name of a
section `[a:b]`. Kept from the code: `[]` matches nothing and clips the section *in
force* to its first character (`TakeBrackets`); a failed copy of the line makes it an
empty one, so that the entries after a lost section line go to the section before
(`LoseLine`); a line continued at the end of the file is dropped without an error;
a failed `grow` ends the loop and the file counts as loaded (`Store`, `Close`).
An array missing in the dictionary crashes the load at its first set or at `dictionary_del` (`Store`, `Refused`).
`Dump` is what `iniparser_dump_ini` writes, with sections (`DumpSection`, line by line in `Printed`) or without
(`DumpKeys`), *as the parser reads it back*. What a printed line comes back as depends on characters that the
model does not have: the constant operator `ReadAs(before, printed)` says it, given the printed lines that it is
joined to because they end in a backslash, and only titles and blank lines are assumed to come back as such.
`Meaning` states, without a loop, what a file says: the reference the loop is checked against.

**Config** is `parse_config`: each setting looked up with its default, and the
crash when a setting that is parsed as a number is there without a value, or when the array of keys is missing.
**MCConfig** gives the files: all sequences of up to `MaxLines` lines of ten kinds, perhaps ended by a line
too long, or the first two sections of the shipped `conf/bitstore.conf`. Its `ReadAs` reads a value with a
comment sign (`v2`) back as `v1`.

## 3. What the runs check

Runs that pass:

| run | instance | properties |
|---|---|---|
| `safety_puts` | two Puts, 0 to 2 writes each, good or refused offsets, results failed / short / full, ring of 2, two retries, `fsync` may fail; 1,061,903 states up to symmetry | `TypeOK`, `SubmittedPrefix`, `SleepBounded`, `AnsweredWritesDurable`, `SoleRequestExact`, `SubmissionAdvances` |
| `mixed` | a Put (0 to 1 writes) and a Get (0 to 3 reads, the third finds the list full) under fairness, either may be woken early, `fsync` may fail; 75,510 states | `WaitCoversBatch`, `ContextOutlivesIO`, `Inv`, `SubmissionEnds`, `SleeperAnswered`, `SleeperKept`, `ImplementsBatchIO` |
| `payload` | two Puts and a Get of up to two I/Os each and three together, four writes with overlapping ranges, a medium of 3 bytes; 302,701 states up to symmetry | `TypeOK`, `Inv`, `BytesFromWrites`, `TextComesBack` |
| `startup` | 43 files (depths and reap sizes below, at and above what an int of 3 bits, the kernel and the stack hold, or unreadable), 8 command lines, three I/Os, a stop at any time, under fairness; 10,900 states | `TypeOK`, `ServingIsReady`, `Inv`, `InFlightCounted` |
| `thread_pool` | three slots, three ids, under fairness; 459,348 states | `TypeOK`, `OwnArgument`, `DistinctArguments`, `Inv`, `WorkersEnd`, `WorkersWindDown` |
| `dictionary` | three keys, two values and NULL, 2 slots growing to 4, every allocation may fail, those of the first arrays included; 10,393 states up to symmetry | `TypeOK`, `UniqueKeys`, `ProbeTerminates`, `Inv`, `ImplementsKeyMap` |
| `config` | every file of up to 4 lines of ten kinds, the last perhaps too long, a dictionary of 2 slots, every allocation may fail, those of its arrays included; 2,884,840 states | `TypeOK`, `Inv`, `LoadedIsFile`, `DumpReloads`, `ConfiguredByFile`, `CrashesOnlyIfTold` |

* `SubmittedPrefix`: the control blocks handed to the kernel are exactly the first
  `done`, however the ring, the retries and the refusals cut the batch.
* `SleepBounded`: a submission sleeps at most the sum of one stretch's delays, about 8 seconds, for
  every request the kernel has taken and once more. The comment at aio.c:75 speaks of about 16 seconds
  in all; but every progress starts the delays and the retries anew, so that a batch of n
  requests accepted one by one may sleep n + 1 times 8 seconds.
* `WaitCoversBatch`: past its wait a call has its whole batch completed and counted.
  `ContextOutlivesIO`: a destroyed context has nothing in the kernel or the reaper.
  Both are false of a call that was itself woken early (see `answered_not_on_disk`), and are promised to every other one,
  also when calls next to it were: this is what `~ WokenEarly(h)` says in these properties.
* `AnsweredWritesDurable`: the `fsync` of a Put covers every write of that Put which succeeded,
  although other calls' I/O is in progress and their `fsync`s may fail. A Put whose own `fsync` failed
  answers all the same: that is part of `answered_not_on_disk`.
* `SoleRequestExact`: a Put of one request answers the length if all its bytes were
  written and `-EIO` otherwise. With more requests this fails, see `answered_not_on_disk`.
* `SubmissionEnds`: a submission ends, though the ring may be full of other calls' I/O.
  `SubmissionAdvances` is the safe half of it: each turn of the loop lowers `TurnsLeft` (the requests
  not yet taken, weighted with the retries each may cost, and the retries left), and nobody raises it.
* `SleeperAnswered`: a call *asleep* with a batch that was handed over completely is
  answered. A call that is not asleep yet may not be, see `lost_wakeup`.
  `SleeperKept`: no step of anyone takes that prospect away but the signal itself and the call's own early
  wakeup. `SleeperAnswered` is promised as long as no *other* call was woken early: an event of that one may be the one
  that the reaper counts into a freed context, and what happens to anyone from then on is undefined.
* `ImplementsBatchIO`, `ImplementsKeyMap`: refinements of the abstract specifications.
* `BytesFromWrites`: once a write has moved all its bytes, each byte of its range holds what that
  write, or another that covers it, was given. Which of two overlapping writes wins
  the code leaves open. `TextComesBack`: a text
  without NULs, shorter than its length, comes back in the response to its own request,
  whatever order the device used; a text as long as its length or longer is cut to it and the
  string sent may run on behind the buffer (`overrun`, part of `binary_data`).
* `ServingIsReady`: a server that serves has a file, a queue and a depth that lets the submission
  loop advance, until the device is stopped. `InFlightCounted`: what is in
  flight is counted, unless there is no reaper (not created, out of memory), `aio_reap_max` is not
  positive, its events overflow the reaper's stack, or the device was stopped.
* `OwnArgument`, `DistinctArguments`: a worker whose id was stored before it ran works on its own
  argument, or on that of a slot whose thread could not be created, and no two on one. A
  worker that runs before its id is stored has no such guarantee: it may find no slot and
  index the array of arguments with -1. `WorkersEnd`: once `stop` is set every worker ends or crashes in the
  freed array. `WorkersWindDown`: from then on each step of a worker lowers what it has left to do,
  so that none begins another turn of `func` or searches on for ever.
* `UniqueKeys`, `ProbeTerminates`: no key is in two slots, and whenever `n` promises
  an empty slot (dictionary.c:290) there is one, so the probing loop ends.
* `LoadedIsFile`: the loop loads a file exactly when no line read is malformed, and the
  dictionary then is the file's `Meaning`. `DumpReloads`: a dumped dictionary loads as itself
  if each of its entries, printed and read back *alone*, is the same (`ComesBack`: no comment sign in the value, no quotes or
  blanks around it, no backslash at its end, not too long), unless entries come before the first section or a
  section has a colon in its name (the comment at iniparser.c:158 asks to avoid that). What it adds to
  `ComesBack` is all that a dump does with many entries: which section each is printed in, in which order, how often,
  and that no line of one section is joined with one of another.
* `ConfiguredByFile`: each setting is that of the last line that sets it, or the default.
  `CrashesOnlyIfTold`: reading the configuration dereferences NULL only in a dictionary one of whose arrays could
  not be allocated, after a failed copy, or for a section named like a setting (`[asyncio:timeout]`).
* The `Inv` of a run is the inductive invariant of its proofs (section 4).

Runs that find the code different from what it says (the findings):

| run | what it shows |
|---|---|
| `lost_wakeup` | the last completion is counted after `submit` returned and before the call sleeps: the signal is lost, the call never answers |
| `unsubmitted` | the kernel accepted nothing of a batch (an empty stream, or the first request refused), or only its first requests: the error, if there was one, is logged, the counts never reach `num_pending`, and the call waits for ever. The trace found is the shortest, the empty stream |
| `answered_not_on_disk` | a Put answers a count of bytes though its data is not all on disk. There are three ways: it was woken without a signal (nothing tests the counts after `pthread_cond_wait` returns), so that its `fsync` ran before its writes; the result of its `fsync` is dropped; one of its writes failed and another, counted last, replaced the value. TLC finds each of them when the other two are taken out of the instance (`SpuriousWakeups`, `FsyncMayFail` = `FALSE`, `PutStreamMax` = 1) |
| `binary_data` | data with a NUL is cut by `strncpy` and again as a C string; a text that fills the buffer of a Get has no NUL behind it and is sent with what follows in memory: a Get does not return what was put |
| `config_sections` | `conf/bitstore.conf` sets `[aio]`, config.c asks for `asyncio:`: its four settings are ignored |

Further divergences were seen while modelling and have no run of their own:

* the value of `k = "a;b"` is dumped without its quotes and comes back as `a`; so do values with `#`, with blanks
  around them, or with a backslash at their end, which swallows the next line (the condition `ComesBack` of `DumpReloads`);
* `iniparser_dump_ini` pads names to 30 columns; a line of the dump may so become longer than the buffer of
  `iniparser_load`, which then refuses the whole of what iniparser.c:249 calls "a loadable ini file";
* main.cc:8 says "program configure file" of the flag `conf`, but `init` reads `FLAGS_conf` (line 34) before it
  parses the command line (line 44): `--conf` has no effect, and the default file is used;
* a failed read is answered with error code 0; a Get whose list is full stores the error in a
  response it never sends (bitstore.cc:128, the jump skips `Write`);
* a successful Put answers a byte count where `error.h:4` defines success as 0;
* `dictionary_set` returns 0 when the copy of a new key failed and the key is not there; dictionary.c:249
  says no key can be without a value while sections are set to NULL;
* a device whose reaper could not be created opens with "success" (part of what `InFlightCounted` says);
* a pool's worker that runs before its id is stored may work on another's argument or on `func_arg_avp[-1]`: the
  model has these runs, and `OwnArgument` and `DistinctArguments` say what the other workers are
  still promised, but no comment or test of the pool says anything that a run could hold against it.

### Bounds

`PutStreamMax` and `GetStreamMax` bound the requests a client streams; `ListLength`
(100 in the code) the array; `Events` and `MaxIoDepth` the ring and a chunk; `MaxAttempts`
(16) the retries; `ReapMax` (`aio_reap_max`) one read of events; `MaxSize` the dictionary's
growth. Two calls are enough for one to fill the ring of the other and for a
group of events to mix calls; two requests are enough for a batch to be cut,
for events to be reordered and for one of them to fail; a ring of 2 is smaller than
the 4 I/Os two calls may have, so `EAGAIN`, retries and exhaustion happen; `ListLength`
2 with up to 3 reads reaches a full list. In the Put-only instance `ListLength` is one more than
`PutStreamMax`, since a Put takes a slot of `reqs` before it finds the end of its stream;
a Put of `ListLength` requests stores behind `reqs[]` (bitstore.cc:54), which is
undefined, and the model stops there (`PutSlotFree`).

`MaxIOs` = 3 (the I/Os of all calls of `payload`) lets a Get read what one Put wrote while
another overlaps it; `DeviceSize` = 3 has ranges that overlap in one byte, in all, and not at all; the
texts are shorter than, as long as and longer than their length, and one starts with a NUL.
`IntHalf` = 4 makes an int of 3 bits, so that the longs -1 to 9 include ones
that wrap to a negative, a zero and a usable number; `KernelEvents` = `StackEvents` = 2 puts
usable depths and reap sizes on both sides of each limit. A pool of `thread_num` = 3 has
a slot before, at and behind a failed one.

Two slots growing to four let three keys insert, leave holes, wrap around and grow once.
Files of four lines are needed for a dump to meet a section with a colon
and for a value to be set, overwritten and clipped into another section.
The proofs do not depend on any of these bounds.

The runs of findings use the smallest instance in which they occur: one Put of up to two writes in `unsubmitted` and
`answered_not_on_disk`, a Put of one write in `lost_wakeup`, a Put and a Get of three I/Os together in `binary_data`, one file in `config_sections`.

Symmetry is used in `safety_puts` and `payload` (the Puts are alike; invariants only) and in
`dictionary` (keys and values; invariants and a refinement without fairness).
It is not used where liveness is checked. `CHECK_DEADLOCK FALSE` is set where the system
may stop: calls end (and a call that lost its wakeup hangs), a process exits, aborts or crashes
at start-up, a pool's workers end, loading is over once the settings are read, and a dictionary without its
arrays crashes.

### Fairness

`Fairness` of `BitStore` assumes weak fairness of `RunWhenDue(h)` (a gRPC thread past its stream keeps
running: the operating system schedules it), of `KernelCompletes` (the kernel finishes
accepted I/O), and of `ReaperReads` and `ReaperCounts` (the reaper is a thread that loops for ever).
`RunWhenDue` leaves the early wakeup out: it may happen, but nobody is owed one, so no property is kept alive by it.
Weak fairness is enough: each of these stays enabled until it happens, and a wait
on a full ring ends by exhausted retries at the latest. `ReaperCounts` stays enabled for the events of a call that was not
woken early, because its context is live while they are to be counted (`ContextOutlivesIO`). Nothing is assumed of
clients: a stream may stop without ending, and `Begin` and `Stream` are not fair.

`FairSpec` of `Startup` assumes the same of the main thread, the reaper, the kernel and
the overflow of the reaper's stack (its first read is the one that overflows); calls and a stop
need not come. `FairSpec` of `ThreadPool` assumes that each worker runs and that
`func` returns; it assumes nothing of the pool's creator, so `WorkersEnd` begins with `stop`.

## 4. What is proved

All theorems hold for every value of the constants that satisfies the named
assumptions of the modules; they assume nothing else.

| module | theorem | statement |
|---|---|---|
| `BitStoreProofs` | `TypeCorrect` | `Spec => []TypeOK` |
| | `InvCorrect`, `WaitCoversBatchHolds`, `ContextOutlivesIOHolds` | the inductive invariant and the two properties, early wakeups included |
| | `SubmittedPrefixHolds` | `Spec => []SubmittedPrefix` |
| | `SleepInvHolds`, `SleepBoundedHolds` | the time slept, retry by retry, and its bound |
| | `SubmissionAdvancesHolds` | `Spec => SubmissionAdvances`, an action property |
| | `SleeperKeptHolds` | `Spec => SleeperKept`, an action property |
| `BitStoreBatchProofs` | `ImplementsBatchIOHolds` | `Spec => ImplementsBatchIO` |
| | `AnsweredWritesDurableHolds` | `Spec => []AnsweredWritesDurable`, failing `fsync`s included |
| | `SoleRequestExactHolds` | `Spec => []SoleRequestExact` |
| `PayloadProofs` | `InvCorrect`, `TypeCorrect`, `BytesFromWritesHolds`, `TextComesBackHolds` | the invariants of `payload` |
| `StartupProofs` | `InvCorrect`, `TypeCorrect`, `ServingIsReadyHolds` | the invariants of `startup` |
| `ThreadPoolProofs` | `InvCorrect`, `TypeCorrect`, `OwnArgumentHolds`, `DistinctArgumentsHolds` | the invariants of `thread_pool` |
| | `WorkersWindDownHolds` | `Spec => WorkersWindDown`, an action property |
| `DictionaryProofs` | `InvCorrect`, `TypeCorrect`, `UniqueKeysHolds`, `ProbeTerminatesHolds` | the invariants of `dictionary` |
| | `ImplementsKeyMapHolds` | `Spec => ImplementsKeyMap` |
| `ConfigProofs` | `InvCorrect`, `TypeCorrect`, `LoadedIsFileHolds`, `ConfiguredByFileHolds`, `CrashesOnlyIfToldHolds`, `DumpReloadsHolds` | the invariants of `config`, the last for every `ReadAs` |

**The server.** `WaitCoversBatch` is not inductive: it says nothing about how a call gets past its wait.
The argument runs through four parts, kept by each call:

1. `HandsOverPrefix`: what the kernel was handed is `1 .. done`, and `done` never
   exceeds `num_pending`.
2. `CountsEvents`: while the context is in use (`live` exactly between init
   and destroy), `num_running` is the number of its counted control blocks.
3. `SignalMeansDone`: only a call in its wait is asleep or signalled, and a delivered
   signal, like a wait that is over, means `Counted = 1 .. num_pending`; unless the wait ended early.
4. `AnsweredHasNoIO`: an answered call has nothing outstanding, unless it was woken early.

The step that matters is the reaper counting an event (`ReaperCounts`): the event was
outstanding, hence (1, 3, 4) its call is submitting or waiting and not yet signalled, or was woken early and is not
asleep any more;
its slot is in `1 .. num_pending` and not counted, so by 2 the new count is the
cardinality of the new set of counted slots; if it equals `num_pending`, the set is all
of `1 .. num_pending`, which is what a signal must mean. Every step of another call
leaves a call's variables alone (`OnlyOwnCall`, `CallFrame`), and the other steps of
the call itself are one case each in `StepInv`. An early wakeup is a step of one call alone; what keeps it from
the others is that every count, signal and context belongs to one call, and that the reaper counts nothing into a
context that is gone (`CountEvent`).
The refinement maps a completion to `Finish`, a submission to `Issue` and an answer to
`End`; that an answer comes after the last completion is `WaitCoversBatch`. The answer of a call that was woken early
maps to a stutter: to the others it never ends (`EarlyStays`: it is woken early for good). Durability
follows because the writes that `fsync` covers are those completed, which past the wait are all, and because no failing
`fsync` takes away what another has covered;
`SoleRequestExact` because the only event counted is that of the only request.

**The submission loop.** `SleepBounded` is not inductive: it does not say how the delay and the retries
go together. `SleepInv`, which is proved and is not an invariant of a run, does: the delay is `FirstDelay * 2 ^ (MaxAttempts - attempts)`, and the time slept is
at most one full stretch per request taken and, for the current stretch, what the delay has grown by, which is
the sum of its doublings. Neither prover knows powers of two; they are counted instead. `2 ^ n` is the number of
subsets of `1 .. n`, as the library's theorem on the power set says, so that one more element doubles it and a
larger interval has more (`PowerDoubles`, `PowerMonotonic`). `SubmissionAdvances` needs only that a turn that
hands something over hands over at least one request of the batch and that `attempts` never exceeds
`MaxAttempts`. `SleeperKept` follows from `Inv`: the count of an event leaves another I/O of its batch
outstanding unless it is the last, and then it signals.

**The payloads.** `Stored` extends `BytesFromWrites` to writes that moved only some bytes: a byte of
the medium that some write has reached holds what some write was given, since a move changes one byte
and puts there what the buffer holds, the request's text (`Filled`; that `strncpy` writes it is the lemma
`CopiedIsText`). For a Get `Fetched` says the same of a buffer's byte that was moved from where an earlier Put's
write is the only one: that write was over before the Get was submitted and moves no more
(`InStep`), so what the medium held is its text. `SentText` then reads the buffer as a C string.

**Start-up.** `DeviceOpens` ties how far the device is to where the main thread is: there is
a queue exactly from its set-up to the stop, and then with a depth that the kernel granted, so
a failed opening never reaches `serving`. `FlagsFollow` keeps where each number came from.

**The pool.** No two threads have one id because none ends before `stop`, which comes after the
last is created (`DistinctTids`); so a search cannot match at another worker's slot, and
cannot pass its own, which was stored before it ran (`SearchInv`). A freed array breaks both, but
is freed after `stop`, when a worker no longer takes a turn. With the same invariant every step of a worker after
`stop` goes down in `LeftToDo`: a search that has not matched has a slot left or leaves the array.

**The dictionary.** Unique keys make a set that finds its key add none; an unset takes exactly one
slot away, so `Cardinality(Used) <= n` (`CountCovers`) survives copies that failed, and `n < size`
leaves a slot empty. Under the refinement mapping a key's value is that of its one slot. A dictionary without one of its
arrays takes no set, so it stays empty until it crashes.

**The configuration.** `MeaningProofs` shows how the meaning of a file grows with one more line,
for any file: the section in force (`SectionNext`), the name and value that a line stores
(`NameNext`), the map (`MeaningGrows`, `MeaningKept`). The invariant of the loop says that the locals and
the dictionary are those of the lines read so far (`LocalsFollow`, `HoldsMeaning`) and which line
ended it (`OutcomeFollows`); the settings are what is then looked up (`SettingsFollow`).
Each of the loop's actions is one lemma. `ConfigProofs` instantiates `DictionaryProofs`, so that a
set of the parser's dictionary is the set of a map (`DictSet`). A NULL that is found under a setting's
name must come from a section line (`ValuelessNames`), whose name has a colon as the setting's has; the other crashes
are those of a missing array, which `missing` records.

**The dump.** `DumpReloads` compares a file that the code writes with the dictionary it was written of.
First, the dictionary is ready for it (`LoadedIsReady`): every key is, by `HoldsMeaning`, the name of a line of the file
(`NamesOfFile`), hence a section without a value or an entry with one, and the section of an entry is a key itself,
because the line that put it in force stored it (`SectionStored`). Then the dump is followed line by line with the same
lemmas on how a meaning grows: `Covers(g, C)` says that the file `g` means what the slots `C` hold; a title
(`TitleCovers`), an entry (`EntryCovers`), all lines of a section (`SectionCovers`) and all sections (`DumpCovers`)
extend `C` until it holds every used slot. Of `ReadAs` the proof uses `ComesBack` for each entry, and that titles and blank
lines come back: then every printed line of a section is whole, the one before a title is short and not continued, and no line is joined
to another (`ReadAlone`, `PrintedLines`, `ShortCovers`). A loop over slots visits each slot it looks for (`InOrderLists`:
ranking the elements of a finite set is one-to-one onto `1 .. Cardinality`), and the recursive function
behind `FlattenSeq` exists (`FlattenIs`). The inductions over positions go through sets: a set of numbers that holds 0 and,
with each number, the next holds them all (`HoldsAll`, from the least number outside it).

Only model-checked: liveness (`SubmissionEnds`, `SleeperAnswered`, `InFlightCounted`, `WorkersEnd`), because it
needs fairness, whose `ENABLED` the provers do not know. The action properties `SubmissionAdvances`, `SleeperKept` and
`WorkersWindDown`, which are proved, are the part of the first, the second and the fourth that says each step goes in the
right direction; that the steps are taken is what fairness adds. The statements that the code does not keep
(`BitStoreClaims`, `BytesComeBack`, `EverySettingUsed`) have no theorem, of course.

## 5. What is not modelled

* failures of mutex and condition operations after initialisation, and an `io_getevents` error
  other than `EINTR` (the reaper just tries again);
* the order of overlapping writes beyond "any": the code promises none;
* more than one pool, or a pool destroyed twice or by several threads; pool and `block_device_aio_stop`
  have no caller, and the model is of the use their interfaces suggest;
* functions without a caller: `aio_set`, `block_device_aio_fsync` (which prepares a control block in a
  context of its own and submits the address of a pointer), `thread_cond_broadcast`;
  `dictionary_del` and `dictionary_dump`, which free and print;
* what follows when the reaper counts into the context of a call that was woken early and has freed it;
* the characters of a line (`iniparser_line`'s `sscanf` formats, quotes, stripping; for a printed line `ReadAs`
  stands for them), the getters
  for doubles and booleans, `iniparser_find_entry`, `iniparser_set` and `_unset`, which the
  server does not call; the lengths of string settings in `config_t`;
* how gRPC frames and schedules streams; logging (no state); glog, vendored;
* `src/s3`, `src/store/memstore` and `src/note/design`: a stub, an empty file, and design notes
  without code.

## 6. Plan

Done: the I/O path with its abstract specification, its invariants, its submission loop and the refinement; the dictionary
with its refinement; the parser, the configuration and the dump, for any file; the life cycle of the device and start-up; the
thread pool; the payloads. Every invariant and every refinement that a passing run checks is proved. What would come next:

1. The functions that have no caller today (`aio_set`, `block_device_aio_fsync`, `iniparser_set`), once they have one.
2. The cluster of `src/note/design/arch.md`, once there is code.
