------------------------------- MODULE BatchIO ------------------------------
(***************************************************************************)
(* What a call of the server may rely on, whatever the queue, the reaper   *)
(* and the condition variable do: each of its I/Os is issued at most once  *)
(* and finished at most once, and the call ends only when every I/O it     *)
(* issued is finished; nothing is issued on behalf of a call that ended.   *)
(* Which calls end, and when, is left open.                                *)
(***************************************************************************)
CONSTANTS Calls, Ids

VARIABLES
  ended,      \* the calls that are over
  issued,     \* issued[c]: the I/Os of c given to the device
  finished    \* finished[c]: those the device is done with

batchVars == <<ended, issued, finished>>

BatchInit ==
  /\ ended = {}
  /\ issued = [c \in Calls |-> {}]
  /\ finished = [c \in Calls |-> {}]

Issue(c, S) ==
  /\ c \notin ended
  /\ S \cap issued[c] = {}
  /\ issued' = [issued EXCEPT ![c] = @ \cup S]
  /\ UNCHANGED <<ended, finished>>

Finish(c, i) ==
  /\ i \in issued[c] \ finished[c]
  /\ finished' = [finished EXCEPT ![c] = @ \cup {i}]
  /\ UNCHANGED <<ended, issued>>

End(c) ==
  /\ c \notin ended
  /\ issued[c] = finished[c]
  /\ ended' = ended \cup {c}
  /\ UNCHANGED <<issued, finished>>

BatchNext ==
  \E c \in Calls :
     \/ \E S \in SUBSET Ids : Issue(c, S)
     \/ \E i \in Ids : Finish(c, i)
     \/ End(c)

BatchSpec == BatchInit /\ [][BatchNext]_batchVars

=============================================================================
