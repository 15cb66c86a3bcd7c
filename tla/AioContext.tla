----------------------------- MODULE AioContext -----------------------------
(***************************************************************************)
(* The aio_context_t of a call (src/store/bitstore/src/asyncio/            *)
(* aiocontext.c): the batch of I/Os it issues, and the condition variable  *)
(* (core/thread.c) on which it sleeps until the reaper has counted the     *)
(* last of them.                                                           *)
(*                                                                         *)
(* The mutex in thread_cond_t is taken by the sleeper only: neither the    *)
(* reaper's count nor its signal holds it, and there is no predicate loop  *)
(* around pthread_cond_wait.  So the mutex excludes nothing and only the   *)
(* condition variable is modelled: a signal wakes a sleeper and is lost    *)
(* when there is none.                                                     *)
(***************************************************************************)
EXTENDS AioQueue

CONSTANT SpuriousWakeups  \* may pthread_cond_wait return without a signal?

ASSUME ContextAssumption == SpuriousWakeups \in BOOLEAN

VARIABLES
  aioctx,   \* aioctx[h]: the aio_context_t of call h
  cond      \* cond[h]: is h outside, asleep in, or signalled in cond_wait,
            \* or has it returned from there early, without a signal

contextVars == <<aioctx, cond>>

(* error/error.h and errno.h; every code is returned negated.              *)
BITSTORE_OK              == 0
ERR_LIST_FULL            == 1002000
EIO                      == 5
ContextInitErrors        == {1000005, 1001002, 1001006} \* malloc, mutex, cond
RvalUnset                == -1000

Context == [num_pending : 0 .. ListLength, num_running : Nat, rval : Int,
            live : BOOLEAN]

ContextTypeOK ==
  /\ aioctx \in [Handlers -> Context]
  /\ cond \in [Handlers -> {"outside", "asleep", "signalled", "early"}]

DeadContext == [num_pending |-> 0, num_running |-> 0, rval |-> 0,
                live |-> FALSE]

ContextInit ==
  /\ aioctx = [h \in Handlers |-> DeadContext]
  /\ cond = [h \in Handlers |-> "outside"]

-----------------------------------------------------------------------------
AioContextInit(h) ==
  aioctx' = [aioctx EXCEPT ![h] = [num_pending |-> 0, num_running |-> 0,
                                   rval |-> RvalUnset, live |-> TRUE]]

AioContextFull(h) == aioctx[h].num_pending = ListLength

AioContextAdd(h) ==
  /\ ~ AioContextFull(h)
  /\ aioctx' = [aioctx EXCEPT ![h] =
                  [num_pending |-> @.num_pending + 1,
                   num_running |-> @.num_running,
                   rval |-> @.rval, live |-> @.live]]

(* aio_context_destroy resets the counts; rval is left as it was.          *)
AioContextDestroy(h) ==
  aioctx' = [aioctx EXCEPT ![h] = [num_pending |-> 0, num_running |-> 0,
                                   rval |-> @.rval, live |-> FALSE]]

(* thread_cond_wait, up to and after the sleep.                            *)
CondSleep(h) == cond' = [cond EXCEPT ![h] = "asleep"]

CondReturn(h) ==
  \/ /\ cond[h] = "signalled"
     /\ cond' = [cond EXCEPT ![h] = "outside"]
  \/ /\ SpuriousWakeups /\ cond[h] = "asleep"
     /\ cond' = [cond EXCEPT ![h] = "early"]

(* thread_cond_signal: no effect unless the call is asleep.                *)
Signalled(h) == IF cond[h] = "asleep" THEN "signalled" ELSE cond[h]

(* aio_context_try_wake, with the store to rval that precedes it.  The     *)
(* reaper is the only thread that writes these fields after submission and *)
(* the call reads them after its wait only, so the store, the increment    *)
(* and the signal are one step.                                            *)
LastCountedEarly(h) ==                            \* mutant: one too early
  aioctx[h].num_running + 2 = aioctx[h].num_pending
LastCountedStale(h) ==                            \* mutant: test, then ++
  aioctx[h].num_running = aioctx[h].num_pending
LastCounted(h) == aioctx[h].num_running + 1 = aioctx[h].num_pending

AioContextTryWake(h, rval) ==
  /\ aioctx' = [aioctx EXCEPT ![h] =
                  [num_pending |-> @.num_pending,
                   num_running |-> @.num_running + 1,
                   rval |-> rval, live |-> @.live]]
  /\ cond' = IF LastCounted(h) THEN [cond EXCEPT ![h] = Signalled(h)]
                               ELSE cond

=============================================================================
