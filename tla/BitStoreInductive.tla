-------------------------- MODULE BitStoreInductive -------------------------
(***************************************************************************)
(* The safety invariants of BitStore strengthened until they are           *)
(* inductive: Inv is what every step preserves, spurious wakeups included. *)
(* BitStoreProofs has the proof; TLC checks Inv on a small instance.       *)
(***************************************************************************)
EXTENDS BitStore

(* The points between aio_context_init and aio_context_destroy, those at   *)
(* which the batch is at the device, and those after the wait.             *)
InUse     == {"stream", "submit", "wait", "blocked", "sync", "respond"}
AtDevice  == InUse \ {"stream"}
AfterWait == {"sync", "respond"}

(* What the kernel was handed is the first "done" slots of the batch.      *)
HandsOverPrefix(h) ==
  /\ Handed(h) = IF pc[h] \in {"start", "stream", "closed"} THEN {}
                                                           ELSE 1 .. sub[h].done
  /\ pc[h] = "start" => sub[h].done = 0
  /\ pc[h] \in AtDevice => sub[h].done <= aioctx[h].num_pending

(* While the context is in use, num_running has counted each event once.   *)
CountsEvents(h) ==
  /\ aioctx[h].live <=> pc[h] \in InUse
  /\ pc[h] \in InUse => aioctx[h].num_running = Cardinality(Counted(h))

(* Only a call in its wait is asleep or signalled, and a signal that was   *)
(* delivered, like a wait that is over, means the whole batch is counted;  *)
(* unless the wait ended early.                                            *)
SignalMeansDone(h) ==
  /\ cond[h] \in {"asleep", "signalled"} => pc[h] = "blocked"
  /\ WokenEarly(h) => pc[h] \in AfterWait \cup {"answered"}
  /\ cond[h] = "signalled" \/ (pc[h] \in AfterWait /\ ~ WokenEarly(h)) =>
        Counted(h) = 1 .. aioctx[h].num_pending

AnsweredHasNoIO(h) ==
  pc[h] = "answered" /\ ~ WokenEarly(h) => Outstanding(h) = {}

CallInv(h) ==
  HandsOverPrefix(h) /\ CountsEvents(h) /\ SignalMeansDone(h) /\ AnsweredHasNoIO(h)

(* What a Put wrote is on stable storage from its fsync on.                *)
Synced(h) ==
  (pc[h] \in {"respond", "answered"} /\ ~ WokenEarly(h) /\ h \notin unsynced) =>
     \A i \in Finished(h) : <<h, i>> \in durable

(* Put counts its requests one ahead of the context, and of a batch of one *)
(* the context has the value of its event, and the answer after it.        *)
CountsRequests(h) ==
  /\ pc[h] = "start" => count[h] = 0
  /\ pc[h] = "stream" => count[h] = aioctx[h].num_pending
  /\ pc[h] \in AtDevice => count[h] = aioctx[h].num_pending + 1

SoleValue(h) == IF aios[h][1].rval = Length THEN Length ELSE -EIO

SoleCounted(h) ==
  /\ (pc[h] \in AtDevice /\ aioctx[h].num_pending = 1 /\ 1 \in Counted(h))
        => aioctx[h].rval = SoleValue(h)
  /\ (pc[h] = "answered" /\ count[h] = 2 /\ ~ WokenEarly(h))
        => /\ errcode[h] = SoleValue(h)
           /\ Handed(h) = {1} /\ Counted(h) = {1}

PutInv(h) == Synced(h) /\ CountsRequests(h) /\ SoleCounted(h)

(* The delay doubles from FirstDelay with every retry and starts anew with *)
(* progress; what a submission has slept is then, besides the current      *)
(* stretch, at most one full stretch for each request that was taken.      *)
LongestStretch == FirstDelay * (2 ^ MaxAttempts - 1)

SleepsByDoubling(h) ==
  /\ sub[h].delay = FirstDelay * 2 ^ (MaxAttempts - sub[h].attempts)
  /\ sub[h].slept <= LongestStretch * sub[h].done + (sub[h].delay - FirstDelay)

(* Every call keeps its part, whatever the other calls, the kernel and the *)
(* reaper do: the count, the signal and the end of the wait agree with the *)
(* events of the batch.                                                    *)
Inv == TypeOK /\ \A h \in Handlers : CallInv(h)

(* So it is with the time each submission has slept.                       *)
SleepInv == TypeOK /\ \A h \in Handlers : SleepsByDoubling(h)

=============================================================================
