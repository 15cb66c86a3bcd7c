------------------------------- MODULE KeyMap -------------------------------
(***************************************************************************)
(* What users of the dictionary rely on: a finite map from keys to values. *)
(* A set either takes effect and returns 0 or returns -1 and changes       *)
(* nothing, which never happens to a key that is already in the map.  When *)
(* the memory for a copy is missing the set returns 0 all the same: then   *)
(* the value is NULL, or a key that was not in the map still is not.  A    *)
(* map that could not be allocated is broken from the start: no set of it  *)
(* returns, and any operation may end the program.                         *)
(***************************************************************************)
EXTENDS Integers

CONSTANTS Keys, Vals, None, NULL

VARIABLES map, reply, broken

mapVars == <<map, reply, broken>>

Returned(op, k, v, r, nomem) ==
  reply' = [op |-> op, key |-> k, val |-> v, ret |-> r, nomem |-> nomem]

MapInit ==
  /\ map = [k \in {} |-> NULL]
  /\ broken \in BOOLEAN
  /\ reply = [op |-> "new", key |-> None, val |-> NULL, ret |-> 0,
              nomem |-> FALSE]

Stored(k, v) == [x \in DOMAIN map \cup {k} |-> IF x = k THEN v ELSE map[x]]

MapSet(k, v) ==
  /\ ~ broken
  /\ map' = Stored(k, v)
  /\ Returned("set", k, v, 0, FALSE)

MapSetNoMemory(k, v) ==
  /\ ~ broken
  /\ \/ map' = Stored(k, NULL)
     \/ k \notin DOMAIN map /\ map' = map
  /\ Returned("set", k, v, 0, TRUE)

MapSetFails(k, v) ==
  /\ ~ broken
  /\ k \notin DOMAIN map
  /\ Returned("set", k, v, -1, FALSE)
  /\ UNCHANGED map

MapUnset(k) ==
  /\ map' = [x \in DOMAIN map \ {k} |-> map[x]]
  /\ Returned("unset", k, NULL, 0, FALSE)

MapGet(k, def) ==
  /\ Returned("get", k, IF k \in DOMAIN map THEN map[k] ELSE def, 0, FALSE)
  /\ UNCHANGED map

MapCrash ==
  /\ broken
  /\ Returned("crash", None, NULL, 0, FALSE)
  /\ UNCHANGED map

MapNext ==
  /\ reply.op # "crash"
  /\ \/ \E k \in Keys :
           \/ \E v \in Vals \cup {NULL} :
                 \/ MapSet(k, v) \/ MapSetNoMemory(k, v) \/ MapSetFails(k, v)
                 \/ MapGet(k, v)
           \/ MapUnset(k)
     \/ MapCrash
  /\ UNCHANGED broken

MapSpec == MapInit /\ [][MapNext]_mapVars

=============================================================================
