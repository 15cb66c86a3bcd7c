--------------------------- MODULE BitStoreClaims ---------------------------
(***************************************************************************)
(* What comments and messages of the repository say about Put and Get and  *)
(* the code does not keep.  Each claim is checked by a run of its own that *)
(* shows how it fails.                                                     *)
(***************************************************************************)
EXTENDS BitStore

(* Claim of bitstore.cc:81, "block wait for asyncio complete": once every  *)
(* I/O of a submitted batch is counted the wait is over, and the call      *)
(* answers.  A last count in the "wait" window signals nobody.             *)
CompletedBatchAnswered ==
  \A h \in Handlers :
     ( /\ pc[h] \in {"wait", "blocked"}
       /\ aioctx[h].num_pending > 0
       /\ aioctx[h].num_running = aioctx[h].num_pending )
     ~> pc[h] = "answered"

(* The same claim for a call of whose batch the kernel accepted nothing,   *)
(* or only the first part: no request was streamed, or the submission met  *)
(* a refused request or a ring that stayed full, which bitstore.cc:78 logs *)
(* ("block asyncio submit failed") before the call goes on to wait.        *)
UnsubmittedAnswered ==
  \A h \in Handlers :
     ( /\ pc[h] = "wait"
       /\ \/ aioctx[h].num_pending = 0
          \/ sub[h].done < aioctx[h].num_pending )
     ~> pc[h] = "answered"

(* bitstore.cc:87, "sync data to disk": a Put whose answer is not negative *)
(* has each I/O of its batch on disk.  The code answers so too when fsync  *)
(* failed (its result is not looked at), when pthread_cond_wait returned   *)
(* without a signal (thread.c:73 has no loop around it), and when the I/O  *)
(* that failed is not the last one counted (blockdevice.c:70).             *)
AnsweredDataOnDisk ==
  \A h \in Puts :
     (pc[h] = "answered" /\ errcode[h] >= 0) =>
        \A i \in Handed(h) : <<h, i>> \in durable

=============================================================================
