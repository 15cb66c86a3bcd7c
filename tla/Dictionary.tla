----------------------------- MODULE Dictionary -----------------------------
(***************************************************************************)
(* The dictionary that holds the parsed configuration                      *)
(* (src/store/bitstore/src/core/dictionary.c): an open array of slots,     *)
(* searched linearly, filled from slot n on, doubled when n reaches its    *)
(* size.                                                                   *)
(*                                                                         *)
(* The hash of a key is stored with it and compared before the key itself, *)
(* so comparing hash and key is comparing keys: hashes are left out.       *)
(***************************************************************************)
EXTENDS Integers, FiniteSets

CONSTANTS
  Keys, Vals,       \* the strings used as keys and as values
  NoKey, NULL,      \* the NULL pointer, as a slot's key and as a value
  DICTMINSZ,        \* slots of a new dictionary (128 in the code)
  MaxSize           \* bound on what the memory holds: growing past it fails

ASSUME DictionaryAssumption ==
  /\ NoKey \notin Keys /\ NULL \notin Vals
  /\ DICTMINSZ \in Nat \ {0} /\ MaxSize \in Nat

VARIABLES
  size, n,     \* the fields of the same names: slots, and entries counted
  key, val,    \* the arrays key[0 .. size-1] and val[0 .. size-1]
  missing,     \* the arrays that dictionary_new could not allocate: NULL
  reply        \* the operation that returned last, or the crash of one, what
               \* it returned, and whether an xstrdup in it ran out of memory

dictVars == <<size, n, key, val, missing, reply>>

Arrays == {"val", "key", "hash"}

Values == Vals \cup {NULL}
Slots  == 0 .. size - 1
Reply  == [op : {"new", "set", "unset", "get", "crash"},
           key : Keys \cup {NoKey},
           val : Values, ret : {0, -1}, nomem : BOOLEAN]

TypeOK ==
  /\ size \in Nat \ {0}
  /\ n \in 0 .. size
  /\ key \in [Slots -> Keys \cup {NoKey}]
  /\ val \in [Slots -> Values]
  /\ missing \subseteq Arrays
  /\ reply \in Reply

(* dictionary_new(0), as iniparser_load calls it.  It returns NULL if the  *)
(* structure cannot be allocated and otherwise the structure, without a    *)
(* look at what its three callocs returned.                                *)
Init ==
  /\ size = DICTMINSZ
  /\ n = 0
  /\ key = [i \in Slots |-> NoKey]
  /\ val = [i \in Slots |-> NULL]
  /\ missing \in SUBSET Arrays
  /\ reply = [op |-> "new", key |-> NoKey, val |-> NULL, ret |-> 0,
              nomem |-> FALSE]

-----------------------------------------------------------------------------
Used == {i \in Slots : key[i] # NoKey}
Find(k) == {i \in Slots : key[i] = k}
First(S) == CHOOSE i \in S : \A j \in S : i <= j

Returns(op, k, v, r, nomem) ==
  reply' = [op |-> op, key |-> k, val |-> v, ret |-> r, nomem |-> nomem]

(* What an operation dereferences though it may be NULL: the first set     *)
(* fills a slot of all three arrays, so that no set ever returns, while    *)
(* the searches of get and unset stop at each NULL key.                    *)
SetCrashes == missing # {}
SearchCrashes == "key" \in missing
DelCrashes == missing \cap {"key", "val"} # {}

Crash ==
  /\ SetCrashes \/ SearchCrashes
  /\ Returns("crash", NoKey, NULL, 0, FALSE)
  /\ UNCHANGED <<size, n, key, val, missing>>

(* dictionary_set finds the key and replaces its value; w is what xstrdup  *)
(* made of it: a copy, or NULL without memory.                             *)
Found(k) == n > 0 /\ Find(k) # {}

SetReplaces(k, v) ==
  /\ Found(k)
  /\ \E w \in {v, NULL} :
        /\ val' = [val EXCEPT ![First(Find(k))] = w]
        /\ Returns("set", k, v, 0, w # v)
  /\ UNCHANGED <<size, n, key>>

(* Otherwise it takes the first empty slot from n on, cyclically, in       *)
(* arrays that have room or have been doubled by dictionary_grow.          *)
ProbedBlindly(start, keys, sz) == start                \* mutant: no probing
Probed(start, keys, sz) ==
  LET Empty == {j \in 0 .. sz - 1 : keys[j] = NoKey}
      After == {j \in Empty : j >= start}
  IN  IF After # {} THEN First(After) ELSE First(Empty)

FillSlot(sz, keys, vals, k, v) ==
  LET i == Probed(n, keys, sz)
  IN  /\ \E c \in {k, NoKey}, w \in {v, NULL} :
            /\ key' = [keys EXCEPT ![i] = c]
            /\ val' = [vals EXCEPT ![i] = w]
            /\ Returns("set", k, v, 0, c # k \/ w # v)
      /\ size' = sz

SetInsertsUncounted(k, v) ==                           \* mutant: no d->n++
  /\ ~ Found(k) /\ n < size
  /\ FillSlot(size, key, val, k, v)
  /\ n' = n

SetInserts(k, v) ==
  /\ ~ Found(k)
  /\ n < size
  /\ FillSlot(size, key, val, k, v)
  /\ n' = n + 1

Doubled(arr, fill) == [i \in 0 .. 2 * size - 1 |->
                         IF i < size THEN arr[i] ELSE fill]

SetGrows(k, v) ==
  /\ ~ Found(k)
  /\ n = size
  /\ 2 * size <= MaxSize
  /\ FillSlot(2 * size, Doubled(key, NoKey), Doubled(val, NULL), k, v)
  /\ n' = n + 1

(* dictionary_grow failed and left the dictionary as it was.               *)
SetFailsIgnored(k, v) ==                   \* mutant: result of grow not tested
  /\ ~ Found(k)
  /\ n = size
  /\ n' = n + 1
  /\ Returns("set", k, v, 0, FALSE)
  /\ UNCHANGED <<size, key, val>>

SetFails(k, v) ==
  /\ ~ Found(k)
  /\ n = size
  /\ Returns("set", k, v, -1, FALSE)
  /\ UNCHANGED <<size, n, key, val>>

UnsetKeepsKey(k) ==                                  \* mutant: key not cleared
  /\ ~ SearchCrashes
  /\ Find(k) # {}
  /\ val' = [val EXCEPT ![First(Find(k))] = NULL]
  /\ n' = n - 1
  /\ Returns("unset", k, NULL, 0, FALSE)
  /\ UNCHANGED <<size, key, missing>>

Unset(k) ==
  /\ ~ SearchCrashes
  /\ Find(k) # {}
  /\ key' = [key EXCEPT ![First(Find(k))] = NoKey]
  /\ val' = [val EXCEPT ![First(Find(k))] = NULL]
  /\ n' = n - 1
  /\ Returns("unset", k, NULL, 0, FALSE)
  /\ UNCHANGED <<size, missing>>

UnsetAbsentCounted(k) ==                    \* mutant: no return if not found
  /\ ~ SearchCrashes
  /\ Find(k) = {}
  /\ n' = n - 1
  /\ Returns("unset", k, NULL, 0, FALSE)
  /\ UNCHANGED <<size, key, val, missing>>

UnsetAbsent(k) ==
  /\ ~ SearchCrashes
  /\ Find(k) = {}
  /\ Returns("unset", k, NULL, 0, FALSE)
  /\ UNCHANGED <<size, n, key, val, missing>>

Lookup(k, def) == IF Find(k) = {} THEN def ELSE val[First(Find(k))]

Get(k, def) ==
  /\ ~ SearchCrashes
  /\ Returns("get", k, Lookup(k, def), 0, FALSE)
  /\ UNCHANGED <<size, n, key, val, missing>>

Set(k, v) ==
  /\ ~ SetCrashes
  /\ \/ SetReplaces(k, v) \/ SetInserts(k, v)
     \/ SetGrows(k, v) \/ SetFails(k, v)
  /\ UNCHANGED missing

Next ==
  /\ reply.op # "crash"
  /\ \/ \E k \in Keys :
           \/ \E v \in Values : Set(k, v) \/ Get(k, v)
           \/ Unset(k) \/ UnsetAbsent(k)
     \/ Crash

Spec == Init /\ [][Next]_dictVars

-----------------------------------------------------------------------------
(* A key is in one slot at most, so that an unset key is gone and a set is *)
(* seen by every get, whatever holes the unsets have left.                 *)
UniqueKeys == \A i, j \in Used : key[i] = key[j] => i = j

(* n counts entries that are not there, but misses none that is.           *)
CountCovers == Cardinality(Used) <= n

(* The inductive invariant: with the keys unique, a set that finds its key *)
(* adds none and an unset takes exactly one away.                          *)
Inv == TypeOK /\ UniqueKeys /\ CountCovers

(* "Because d->n < d->size this will necessarily terminate"                *)
(* (dictionary.c:290): whenever n says so there is an empty slot, though n *)
(* may count entries that are not there and slots are emptied in any order.*)
ProbeTerminates == n < size => Used # Slots

-----------------------------------------------------------------------------
(* Refinement: the dictionary implements a map from keys to values with    *)
(* set, unset and get, and a set that lost its value or its key for want   *)
(* of memory touches no other key; only one whose arrays could not be      *)
(* allocated crashes, and then nothing was ever stored in it.              *)
Contents == [k \in {key[i] : i \in Used} |-> val[First(Find(k))]]

Map == INSTANCE KeyMap WITH None <- NoKey, map <- Contents,
                            broken <- missing # {}

ImplementsKeyMap == Map!MapSpec

=============================================================================
