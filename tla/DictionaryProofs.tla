-------------------------- MODULE DictionaryProofs --------------------------
(***************************************************************************)
(* Proofs about Dictionary, for any strings, first size and memory, and    *)
(* with every copy of a string free to fail.                               *)
(***************************************************************************)
EXTENDS Dictionary, FiniteSetTheorems, WellFoundedInduction, TLAPS

(* The linear searches return the first slot of a set that has one.        *)
LEMMA FirstOf ==
  ASSUME NEW S \in SUBSET Nat, S # {}
  PROVE  First(S) \in S /\ \A j \in S : First(S) <= j
<1> DEFINE R == {ss \in Nat \X Nat : ss[1] < ss[2]}
<1>1. PICK i \in S : \A j \in S : ~ (<<j, i>> \in R)
  <2>1. IsWellFoundedOn(R, Nat)
    BY NatLessThanWellFounded, Zenon DEF OpToRel
  <2> HIDE DEF R
  <2> QED
    BY <2>1, WFMin
<1>2. \A j \in S : i <= j
  <2> SUFFICES ASSUME NEW j \in S, ~ (i <= j) PROVE FALSE
    OBVIOUS
  <2>1. <<j, i>> \in R
    BY SMT
  <2> QED
    BY <1>1, <2>1
<1> QED
  BY <1>2, Zenon DEF First

(* Used and Find are sets of slots, and the used ones can be counted.      *)
LEMMA SlotSets ==
  ASSUME TypeOK
  PROVE  /\ Slots \in SUBSET Nat /\ IsFiniteSet(Slots)
         /\ Cardinality(Slots) = size
         /\ Used \subseteq Slots /\ IsFiniteSet(Used)
         /\ Cardinality(Used) \in Nat
         /\ \A k \in Keys : Find(k) \subseteq Used
<1>1. size \in Nat /\ size > 0
  BY DEF TypeOK
<1>2. IsFiniteSet(0 .. size - 1) /\ Cardinality(0 .. size - 1) = size
  BY <1>1, FS_Interval, SMT
<1>3. Used \subseteq Slots
  BY DEF Used
<1>4. IsFiniteSet(Used) /\ Cardinality(Used) \in Nat
  BY <1>2, <1>3, FS_Subset, FS_CardinalityType DEF Slots
<1>5. \A k \in Keys : Find(k) \subseteq Used
  BY DictionaryAssumption DEF Find, Used
<1> QED
  BY <1>1, <1>2, <1>3, <1>4, <1>5, SMT DEF Slots

(* While n is below the size of the arrays some slot is empty.             *)
LEMMA InvImplies == Inv => ProbeTerminates
<1> SUFFICES ASSUME Inv, n < size, Used = Slots PROVE FALSE
  BY DEF ProbeTerminates
<1> QED
  BY SlotSets, SMT DEF Inv, CountCovers, TypeOK

-----------------------------------------------------------------------------
(* A new dictionary is empty.                                              *)
LEMMA InitInv == Init => Inv
<1> SUFFICES ASSUME Init PROVE Inv
  OBVIOUS
<1>1. TypeOK
  BY DictionaryAssumption, SMT DEF Init, TypeOK, Values, Reply, Slots
<1>2. Used = {}
  BY DEF Init, Used
<1> QED
  BY <1>1, <1>2, FS_EmptySet DEF Inv, UniqueKeys, CountCovers, Init

(* The probe ends at an empty slot of the arrays it is given.              *)
LEMMA ProbedEmpty ==
  ASSUME NEW start, NEW keys, NEW sz \in Nat,
         \E j \in 0 .. sz - 1 : keys[j] = NoKey
  PROVE  /\ Probed(start, keys, sz) \in 0 .. sz - 1
         /\ keys[Probed(start, keys, sz)] = NoKey
<1> DEFINE Empty == {j \in 0 .. sz - 1 : keys[j] = NoKey}
           After == {j \in Empty : j >= start}
<1>1. Empty \in SUBSET Nat /\ After \in SUBSET Nat /\ After \subseteq Empty
  BY SMT
<1>2. First(Empty) \in Empty /\ (After # {} => First(After) \in After)
  <2>1. Empty # {}
    OBVIOUS
  <2> HIDE DEF Empty, After
  <2> QED
    BY <1>1, <2>1, FirstOf
<1>3. Probed(start, keys, sz) \in Empty
  <2>1. Probed(start, keys, sz) = IF After # {} THEN First(After)
                                               ELSE First(Empty)
    BY DEF Probed
  <2> HIDE DEF Empty, After
  <2> QED
    BY <1>1, <1>2, <2>1
<1> QED
  BY <1>3

(* Storing a key that is nowhere in arrays that hold the same entries and  *)
(* have an empty slot, and counting it.                                    *)
LEMMA FillKeeps ==
  ASSUME Inv, NEW k \in Keys, NEW v \in Values, NEW sz \in Nat,
         NEW keys \in [0 .. sz - 1 -> Keys \cup {NoKey}],
         NEW vals \in [0 .. sz - 1 -> Values],
         Find(k) = {}, size <= sz, n < sz,
         \A i \in 0 .. sz - 1 : keys[i] = IF i < size THEN key[i] ELSE NoKey,
         \E j \in 0 .. sz - 1 : keys[j] = NoKey,
         FillSlot(sz, keys, vals, k, v), n' = n + 1, missing' = missing
  PROVE  Inv'
<1> DEFINE i == Probed(n, keys, sz)
<1>1. i \in 0 .. sz - 1 /\ keys[i] = NoKey
  BY ProbedEmpty
<1> HIDE DEF i
<1>2. PICK c \in {k, NoKey}, w \in {v, NULL} :
        /\ key' = [keys EXCEPT ![i] = c]
        /\ val' = [vals EXCEPT ![i] = w]
        /\ Returns("set", k, v, 0, c # k \/ w # v)
  BY DEF FillSlot, i
<1>3. size' = sz
  BY DEF FillSlot
<1>4. size \in Nat /\ size > 0 /\ n \in 0 .. size
  BY DEF Inv, TypeOK
<1>5. TypeOK'
  <2>1. size' \in Nat \ {0} /\ n' \in 0 .. size'
    BY <1>3, <1>4, SMT
  <2>2. key' \in [Slots' -> Keys \cup {NoKey}] /\ val' \in [Slots' -> Values]
    BY <1>2, <1>3 DEF Slots, Values
  <2>3. reply' \in Reply
    BY <1>2 DEF Returns, Reply, Values
  <2> QED
    BY <2>1, <2>2, <2>3 DEF TypeOK, Inv
<1>6. \A j \in 0 .. sz - 1 : keys[j] # NoKey => j \in Used /\ keys[j] = key[j]
  BY <1>4, SMT DEF Used, Slots
<1>7. Used' \subseteq Used \cup {i}
  BY <1>2, <1>3, <1>6 DEF Used, Slots
<1>8. UniqueKeys'
  <2> SUFFICES ASSUME NEW p \in Used', NEW q \in Used', key'[p] = key'[q]
               PROVE  p = q
    BY DEF UniqueKeys
  <2>1. /\ p \in 0 .. sz - 1 /\ q \in 0 .. sz - 1
        /\ key'[p] # NoKey /\ key'[q] # NoKey
    BY <1>3 DEF Used, Slots
  <2>2. key'[p] = (IF p = i THEN c ELSE keys[p])
        /\ key'[q] = (IF q = i THEN c ELSE keys[q])
    BY <1>1, <1>2, <2>1
  <2>3. \A j \in Used : key[j] # k
    BY DEF Find, Used
  <2>4. CASE p # i /\ q # i
    <3>1. p \in Used /\ key'[p] = key[p] /\ q \in Used /\ key'[q] = key[q]
      BY <2>1, <2>2, <2>4, <1>6, Zenon
    <3> QED
      BY <3>1 DEF Inv, UniqueKeys
  <2>5. \A j \in 0 .. sz - 1 : keys[j] # k
    BY <2>3, <1>6, DictionaryAssumption, Zenon
  <2>6. CASE p = i /\ q # i
    BY <2>1, <2>2, <2>5, <2>6, <1>2, Zenon
  <2>7. CASE p # i /\ q = i
    BY <2>1, <2>2, <2>5, <2>7, <1>2, Zenon
  <2> QED
    BY <2>4, <2>6, <2>7
<1>9. CountCovers'
  <2>1. IsFiniteSet(Used) /\ Cardinality(Used) \in Nat
    BY SlotSets DEF Inv
  <2>2. /\ IsFiniteSet(Used \cup {i})
        /\ Cardinality(Used \cup {i}) <= Cardinality(Used) + 1
    <3>1. /\ IsFiniteSet(Used \cup {i})
          /\ Cardinality(Used \cup {i}) =
               IF i \in Used THEN Cardinality(Used) ELSE Cardinality(Used) + 1
      BY <2>1, FS_AddElement
    <3> QED
      BY <2>1, <3>1, SMT
  <2>3. Cardinality(Used') <= Cardinality(Used \cup {i})
    BY <1>7, <2>2, FS_Subset
  <2>4. /\ Cardinality(Used') \in Nat
        /\ Cardinality(Used \cup {i}) \in Nat
    BY <1>7, <2>2, FS_Subset, FS_CardinalityType
  <2> QED
    BY <2>1, <2>2, <2>3, <2>4, <1>4, SMT DEF Inv, CountCovers
<1> QED
  BY <1>5, <1>8, <1>9 DEF Inv

(* A set, whatever it does, keeps the invariant.                           *)
LEMMA SetKeeps ==
  ASSUME Inv, NEW k \in Keys, NEW v \in Values, Set(k, v)
  PROVE  Inv'
<1>1. /\ size \in Nat /\ size > 0 /\ n \in 0 .. size
      /\ key \in [0 .. size - 1 -> Keys \cup {NoKey}]
      /\ val \in [0 .. size - 1 -> Values]
  BY DEF Inv, TypeOK, Slots
<1>2. ~ Found(k) => Find(k) = {}
  <2> SUFFICES ASSUME n = 0 PROVE Find(k) = {}
    BY <1>1, SMT DEF Found
  <2>1. Used = {}
    BY SlotSets, FS_EmptySet, SMT DEF Inv, CountCovers
  <2> QED
    BY <2>1, SlotSets DEF Inv
<1>0. missing' = missing
  BY DEF Set
<1>3. CASE SetReplaces(k, v)
  <2>1. First(Find(k)) \in Slots
    BY <1>3, FirstOf, SlotSets DEF SetReplaces, Found, Inv
  <2>2. TypeOK'
    BY <1>0, <1>3, <2>1 DEF SetReplaces, Inv, TypeOK, Returns, Reply, Values, Slots
  <2>3. Used' = Used /\ key' = key /\ n' = n
    BY <1>3 DEF SetReplaces, Used, Slots
  <2> QED
    BY <2>2, <2>3 DEF Inv, UniqueKeys, CountCovers
<1>4. CASE SetInserts(k, v)
  <2>1. \E j \in 0 .. size - 1 : key[j] = NoKey
    BY <1>4, InvImplies DEF SetInserts, ProbeTerminates, Used, Slots
  <2> QED
    BY <1>0, <1>1, <1>2, <1>4, <2>1, FillKeeps, SMT DEF SetInserts
<1>5. CASE SetGrows(k, v)
  <2> DEFINE keys == Doubled(key, NoKey)
             vals == Doubled(val, NULL)
  <2>1. 2 * size \in Nat /\ size <= 2 * size /\ n < 2 * size
    BY <1>1, <1>5, SMT DEF SetGrows
  <2>2. /\ keys \in [0 .. 2 * size - 1 -> Keys \cup {NoKey}]
        /\ vals \in [0 .. 2 * size - 1 -> Values]
    BY <1>1, SMT DEF Doubled, Values
  <2>3. \A i \in 0 .. 2 * size - 1 :
          keys[i] = IF i < size THEN key[i] ELSE NoKey
    BY DEF Doubled
  <2>4. \E j \in 0 .. 2 * size - 1 : keys[j] = NoKey
    <3>1. size \in 0 .. 2 * size - 1 /\ ~ (size < size)
      BY <1>1, SMT
    <3> QED
      BY <3>1, <2>3
  <2>5. FillSlot(2 * size, keys, vals, k, v) /\ n' = n + 1 /\ Find(k) = {}
    BY <1>2, <1>5 DEF SetGrows
  <2> HIDE DEF keys, vals
  <2> QED
    BY <1>0, <2>1, <2>2, <2>3, <2>4, <2>5, FillKeeps
<1>6. CASE SetFails(k, v)
  BY <1>0, <1>6 DEF SetFails, Inv, TypeOK, UniqueKeys, CountCovers, Used, Slots,
              Returns, Reply, Values
<1> QED
  BY <1>3, <1>4, <1>5, <1>6 DEF Set

(* An unset empties the one slot of its key, and counts it.                *)
LEMMA UnsetKeeps ==
  ASSUME Inv, NEW k \in Keys, Unset(k)
  PROVE  Inv'
<1> DEFINE i == First(Find(k))
<1>1. i \in Find(k) /\ i \in Used /\ i \in Slots
  BY FirstOf, SlotSets DEF Unset, Inv
<1> HIDE DEF i
<1>2. /\ key' = [key EXCEPT ![i] = NoKey] /\ val' = [val EXCEPT ![i] = NULL]
      /\ n' = n - 1 /\ size' = size /\ Slots' = Slots
      /\ missing' = missing
      /\ Returns("unset", k, NULL, 0, FALSE)
  BY DEF Unset, i, Slots
<1>3. Used' = Used \ {i}
  BY <1>1, <1>2 DEF Used, Inv, TypeOK
<1>4. /\ IsFiniteSet(Used) /\ Cardinality(Used) \in Nat
      /\ Cardinality(Used') = Cardinality(Used) - 1
      /\ Cardinality(Used') \in Nat
  BY <1>1, <1>3, SlotSets, FS_RemoveElement, FS_CardinalityType DEF Inv
<1>5. TypeOK'
  <2>1. n' \in 0 .. size'
    BY <1>2, <1>4, SMT DEF Inv, TypeOK, CountCovers
  <2> QED
    BY <1>2, <2>1 DEF Inv, TypeOK, Returns, Reply, Values
<1>6. UniqueKeys'
  BY <1>2, <1>3 DEF Inv, TypeOK, UniqueKeys, Used
<1>7. CountCovers'
  BY <1>2, <1>4, SMT DEF Inv, TypeOK, CountCovers
<1> QED
  BY <1>5, <1>6, <1>7 DEF Inv

(* Every operation keeps the invariant.                                    *)
LEMMA StepInv == Inv /\ [Next]_dictVars => Inv'
<1> SUFFICES ASSUME Inv, [Next]_dictVars PROVE Inv'
  OBVIOUS
<1>1. CASE UNCHANGED dictVars
  BY <1>1 DEF dictVars, Inv, TypeOK, UniqueKeys, CountCovers, Used, Slots
<1>2. ASSUME NEW k \in Keys, NEW v \in Values, Set(k, v) PROVE Inv'
  BY <1>2, SetKeeps
<1>3. ASSUME NEW k \in Keys, Unset(k) PROVE Inv'
  BY <1>3, UnsetKeeps
<1>4. ASSUME NEW k \in Keys, UnsetAbsent(k) PROVE Inv'
  BY <1>4 DEF UnsetAbsent, Inv, TypeOK, UniqueKeys, CountCovers, Used, Slots,
              Returns, Reply, Values
<1>5. ASSUME NEW k \in Keys, NEW v \in Values, Get(k, v) PROVE Inv'
  <2>1. Lookup(k, v) \in Values
    BY FirstOf, SlotSets DEF Lookup, Inv, TypeOK
  <2> QED
    BY <1>5, <2>1 DEF Get, Inv, TypeOK, UniqueKeys, CountCovers, Used, Slots,
                      Returns, Reply
<1>6. CASE Crash
  BY <1>6 DEF Crash, Inv, TypeOK, UniqueKeys, CountCovers, Used, Slots,
              Returns, Reply, Values
<1> QED
  BY <1>1, <1>2, <1>3, <1>4, <1>5, <1>6 DEF Next

(* The inductive invariant of the dictionary.                              *)
THEOREM InvCorrect == Spec => []Inv
BY InitInv, StepInv, PTL DEF Spec

(* Sizes, counts and slots keep their types: n never exceeds the arrays    *)
(* and, although unset decrements it without looking, never goes below 0.  *)
THEOREM TypeCorrect == Spec => []TypeOK
<1>1. Inv => TypeOK
  BY DEF Inv
<1> QED
  BY <1>1, InvCorrect, PTL

(* No sequence of sets, unsets and failed copies stores a key twice.       *)
THEOREM UniqueKeysHolds == Spec => []UniqueKeys
<1>1. Inv => UniqueKeys
  BY DEF Inv
<1> QED
  BY <1>1, InvCorrect, PTL

(* The probe of dictionary_set always finds an empty slot.                 *)
THEOREM ProbeTerminatesHolds == Spec => []ProbeTerminates
BY InvCorrect, InvImplies, PTL

-----------------------------------------------------------------------------
(* The map of the refinement, in terms of the slots: its keys are those in *)
(* use, and each has the value of the one slot that holds it.              *)
Held == /\ DOMAIN Contents = {key[i] : i \in Used}
        /\ \A i \in Used : Contents[key[i]] = val[i]
        /\ \A k \in Keys : k \in DOMAIN Contents <=> Find(k) # {}
        /\ Contents = [k \in DOMAIN Contents |-> Contents[k]]

LEMMA InvHeld == Inv => Held
<1> SUFFICES ASSUME Inv PROVE Held
  OBVIOUS
<1>1. \A i \in Used : Find(key[i]) = {i}
  BY DEF Inv, UniqueKeys, Find, Used
<1>2. \A i \in Used : First(Find(key[i])) = i
  <2> SUFFICES ASSUME NEW i \in Used PROVE First({i}) = i
    BY <1>1
  <2> QED
    BY FirstOf, SlotSets DEF Inv
<1>3. DOMAIN Contents = {key[i] : i \in Used}
  BY DEF Contents
<1>4. \A i \in Used : Contents[key[i]] = val[i]
  BY <1>2 DEF Contents
<1>5. \A k \in Keys : k \in DOMAIN Contents <=> Find(k) # {}
  BY <1>3, DictionaryAssumption DEF Used, Find
<1> QED
  BY <1>3, <1>4, <1>5 DEF Held, Contents

LEMMA InvHeldNext == Inv' => Held'
BY InvHeld, PTL

(* A step that keeps the keys and values of all used slots keeps the map.  *)
LEMMA SameContents ==
  ASSUME Held, Held', Used' = Used,
         \A j \in Used : key'[j] = key[j] /\ val'[j] = val[j]
  PROVE  Contents' = Contents
<1>1. DOMAIN Contents' = DOMAIN Contents
  BY DEF Held
<1>2. \A k \in DOMAIN Contents : Contents'[k] = Contents[k]
  BY DEF Held
<1> QED
  BY <1>1, <1>2 DEF Held

(* A step that gives slot i the key k and the value w, and leaves the      *)
(* other used slots alone, stores w under k.                               *)
LEMMA StoredContents ==
  ASSUME Held, Held', NEW i, NEW k, NEW w,
         Used' = Used \cup {i}, key'[i] = k, val'[i] = w,
         \A j \in Used \ {i} : /\ key[j] # k /\ key'[j] = key[j]
                               /\ val'[j] = val[j],
         i \in Used => key[i] = k
  PROVE  Contents' = Map!Stored(k, w)
<1>1. DOMAIN Contents' = DOMAIN Contents \cup {k}
  BY DEF Held
<1>2. Contents'[k] = w
  BY DEF Held
<1>3. \A x \in DOMAIN Contents : x # k => Contents'[x] = Contents[x]
  BY DEF Held
<1> QED
  BY <1>1, <1>2, <1>3 DEF Held, Map!Stored

(* A set that fills a slot stores the key, or loses the key or the value   *)
(* for want of memory.                                                     *)
LEMMA FillStores ==
  ASSUME Inv, Inv', NEW k \in Keys, NEW v \in Values, NEW sz \in Nat,
         NEW keys \in [0 .. sz - 1 -> Keys \cup {NoKey}],
         NEW vals \in [0 .. sz - 1 -> Values],
         Find(k) = {}, size <= sz,
         \A i \in 0 .. sz - 1 : keys[i] = IF i < size THEN key[i] ELSE NoKey,
         \A i \in 0 .. size - 1 : vals[i] = val[i],
         \E j \in 0 .. sz - 1 : keys[j] = NoKey,
         FillSlot(sz, keys, vals, k, v), missing = {}
  PROVE  Map!MapSet(k, v) \/ Map!MapSetNoMemory(k, v)
<1> DEFINE i == Probed(n, keys, sz)
<1>1. i \in 0 .. sz - 1 /\ keys[i] = NoKey
  BY ProbedEmpty
<1> HIDE DEF i
<1>2. PICK c \in {k, NoKey}, w \in {v, NULL} :
        /\ key' = [keys EXCEPT ![i] = c]
        /\ val' = [vals EXCEPT ![i] = w]
        /\ Returns("set", k, v, 0, c # k \/ w # v)
  BY DEF FillSlot, i
<1>3. size' = sz /\ size \in Nat /\ k # NoKey
  BY DictionaryAssumption DEF FillSlot, Inv, TypeOK
<1>4. Held /\ Held'
  BY InvHeld, InvHeldNext
<1>5. i \notin Used
  <2> SUFFICES ASSUME i \in Used PROVE FALSE
    OBVIOUS
  <2>1. i \in 0 .. size - 1 /\ i < size /\ key[i] # NoKey
    BY <1>3, SMT DEF Used, Slots
  <2> QED
    BY <1>1, <2>1
<1>6. \A j \in Used : /\ j \in 0 .. sz - 1 /\ j # i /\ key[j] # k
                      /\ keys[j] = key[j] /\ vals[j] = val[j]
  <2>1. \A j \in Used : j \in 0 .. size - 1 /\ j \in 0 .. sz - 1 /\ j < size
    BY <1>3, SMT DEF Used, Slots
  <2> QED
    BY <2>1, <1>5 DEF Used, Find
<1>7. \A j \in Used : key'[j] = key[j] /\ val'[j] = val[j]
  BY <1>2, <1>6
<1>8. \A j \in 0 .. sz - 1 : j # i => (j \in Used <=> key'[j] # NoKey)
  BY <1>2, <1>3, SMT DEF Used, Slots
<1>9. CASE c = k
  <2>1. Used' = Used \cup {i}
    BY <1>1, <1>2, <1>3, <1>6, <1>8, <1>9 DEF Used, Slots
  <2>2. key'[i] = k /\ val'[i] = w
    BY <1>1, <1>2, <1>9
  <2>3. Contents' = Map!Stored(k, w)
    BY <1>4, <1>5, <1>6, <1>7, <2>1, <2>2, StoredContents
  <2>4. CASE w = v
    BY <1>2, <1>9, <2>3, <2>4 DEF Map!MapSet, Map!Returned, Returns
  <2>5. CASE w # v
    BY <1>2, <1>9, <2>3, <2>5 DEF Map!MapSetNoMemory, Map!Returned, Returns
  <2> QED
    BY <2>4, <2>5
<1>10. CASE c # k
  <2>1. c = NoKey
    BY <1>2, <1>10
  <2>2. Used' = Used
    BY <1>1, <1>2, <1>3, <1>5, <1>6, <1>8, <2>1 DEF Used, Slots
  <2>3. Contents' = Contents
    BY <1>4, <1>7, <2>2, SameContents
  <2>4. k \notin DOMAIN Contents
    BY <1>4 DEF Held
  <2> QED
    BY <1>2, <1>10, <2>3, <2>4
       DEF Map!MapSetNoMemory, Map!Returned, Returns
<1> QED
  BY <1>9, <1>10

(* Every set is a set of the map: one that took effect, one that ran out   *)
(* of memory, or one that failed and changed nothing.                      *)
LEMMA SetImplements ==
  ASSUME Inv, Inv', NEW k \in Keys, NEW v \in Values, Set(k, v)
  PROVE  \/ Map!MapSet(k, v) \/ Map!MapSetNoMemory(k, v)
         \/ Map!MapSetFails(k, v)
<1>1. /\ size \in Nat /\ size > 0 /\ n \in 0 .. size
      /\ key \in [0 .. size - 1 -> Keys \cup {NoKey}]
      /\ val \in [0 .. size - 1 -> Values]
  BY DEF Inv, TypeOK, Slots
<1>2. ~ Found(k) => Find(k) = {}
  <2> SUFFICES ASSUME n = 0 PROVE Find(k) = {}
    BY <1>1, SMT DEF Found
  <2>1. Used = {}
    BY SlotSets, FS_EmptySet, SMT DEF Inv, CountCovers
  <2> QED
    BY <2>1, SlotSets DEF Inv
<1>3. Held /\ Held'
  BY InvHeld, InvHeldNext
<1>0. missing = {}
  BY DEF Set, SetCrashes
<1>4. CASE SetReplaces(k, v)
  <2> DEFINE i == First(Find(k))
  <2>1. i \in Find(k) /\ i \in Used /\ i \in Slots
    BY <1>4, FirstOf, SlotSets DEF SetReplaces, Found, Inv
  <2> HIDE DEF i
  <2>2. PICK w \in {v, NULL} : /\ val' = [val EXCEPT ![i] = w]
                               /\ Returns("set", k, v, 0, w # v)
    BY <1>4 DEF SetReplaces, i
  <2>3. key' = key /\ Used' = Used
    BY <1>4 DEF SetReplaces, Used, Slots
  <2>4. key[i] = k /\ \A j \in Used \ {i} : key[j] # k
    BY <2>1 DEF Find, Used, Inv, UniqueKeys
  <2>5. val'[i] = w /\ \A j \in Used \ {i} : val'[j] = val[j]
    BY <1>1, <2>1, <2>2 DEF Used, Slots
  <2>6. Contents' = Map!Stored(k, w)
    BY <1>3, <2>1, <2>3, <2>4, <2>5, StoredContents
  <2>7. CASE w = v
    BY <1>0, <2>2, <2>6, <2>7 DEF Map!MapSet, Map!Returned, Returns
  <2>8. CASE w # v
    BY <1>0, <2>2, <2>6, <2>8 DEF Map!MapSetNoMemory, Map!Returned, Returns
  <2> QED
    BY <2>7, <2>8
<1>5. CASE SetInserts(k, v)
  <2>1. \E j \in 0 .. size - 1 : key[j] = NoKey
    BY <1>5, InvImplies DEF SetInserts, ProbeTerminates, Used, Slots
  <2> QED
    BY <1>0, <1>1, <1>2, <1>5, <2>1, FillStores, SMT DEF SetInserts
<1>6. CASE SetGrows(k, v)
  <2> DEFINE keys == Doubled(key, NoKey)
             vals == Doubled(val, NULL)
  <2>1. 2 * size \in Nat /\ size <= 2 * size
    BY <1>1, SMT
  <2>2. /\ keys \in [0 .. 2 * size - 1 -> Keys \cup {NoKey}]
        /\ vals \in [0 .. 2 * size - 1 -> Values]
    BY <1>1, SMT DEF Doubled, Values
  <2>3. /\ \A i \in 0 .. 2 * size - 1 :
             keys[i] = IF i < size THEN key[i] ELSE NoKey
        /\ \A i \in 0 .. size - 1 : vals[i] = val[i]
    BY <1>1, SMT DEF Doubled
  <2>4. \E j \in 0 .. 2 * size - 1 : keys[j] = NoKey
    <3>1. size \in 0 .. 2 * size - 1 /\ ~ (size < size)
      BY <1>1, SMT
    <3> QED
      BY <3>1, <2>3
  <2>5. FillSlot(2 * size, keys, vals, k, v) /\ Find(k) = {}
    BY <1>2, <1>6 DEF SetGrows
  <2> HIDE DEF keys, vals
  <2> QED
    BY <1>0, <2>1, <2>2, <2>3, <2>4, <2>5, FillStores
<1>7. CASE SetFails(k, v)
  <2>1. k \notin DOMAIN Contents
    BY <1>2, <1>3, <1>7 DEF SetFails, Held
  <2>2. Contents' = Contents
    BY <1>3, <1>7, SameContents DEF SetFails, Used, Slots
  <2> QED
    BY <1>0, <1>7, <2>1, <2>2 DEF SetFails, Map!MapSetFails, Map!Returned, Returns
<1> QED
  BY <1>4, <1>5, <1>6, <1>7 DEF Set

(* An unset takes its key, and no other, out of the map.                   *)
LEMMA UnsetImplements ==
  ASSUME Inv, Inv', NEW k \in Keys, Unset(k)
  PROVE  Map!MapUnset(k)
<1> DEFINE i == First(Find(k))
<1>1. i \in Find(k) /\ i \in Used /\ i \in Slots
  BY FirstOf, SlotSets DEF Unset, Inv
<1> HIDE DEF i
<1>2. /\ key' = [key EXCEPT ![i] = NoKey] /\ val' = [val EXCEPT ![i] = NULL]
      /\ Slots' = Slots /\ Returns("unset", k, NULL, 0, FALSE)
  BY DEF Unset, i, Slots
<1>3. Used' = Used \ {i}
  BY <1>1, <1>2 DEF Used, Inv, TypeOK
<1>4. key[i] = k /\ \A j \in Used \ {i} : key[j] # k
  BY <1>1 DEF Find, Used, Inv, UniqueKeys
<1>5. \A j \in Used \ {i} : key'[j] = key[j] /\ val'[j] = val[j]
  BY <1>2 DEF Used, Inv, TypeOK
<1>6. Held /\ Held'
  BY InvHeld, InvHeldNext
<1>7. DOMAIN Contents' = DOMAIN Contents \ {k}
  BY <1>3, <1>4, <1>5, <1>6 DEF Held
<1>8. \A x \in DOMAIN Contents \ {k} : Contents'[x] = Contents[x]
  BY <1>3, <1>4, <1>5, <1>6 DEF Held
<1>9. Contents' = [x \in DOMAIN Contents \ {k} |-> Contents[x]]
  BY <1>6, <1>7, <1>8 DEF Held
<1> QED
  BY <1>2, <1>9 DEF Map!MapUnset, Map!Returned, Returns

(* The operations that change no slot.                                     *)
LEMMA ReadsImplement ==
  ASSUME Inv, Inv', NEW k \in Keys,
         \/ UnsetAbsent(k)
         \/ \E v \in Values : Get(k, v)
  PROVE  \/ Map!MapUnset(k)
         \/ \E v \in Values : Map!MapGet(k, v)
<1>1. Held /\ Held'
  BY InvHeld, InvHeldNext
<1>2. Contents' = Contents
  BY <1>1, SameContents DEF UnsetAbsent, Get, Used, Slots
<1>3. CASE UnsetAbsent(k)
  <2>1. k \notin DOMAIN Contents
    BY <1>1, <1>3 DEF Held, UnsetAbsent
  <2>2. DOMAIN Contents \ {k} = DOMAIN Contents
    BY <2>1
  <2>3. Contents' = [x \in DOMAIN Contents \ {k} |-> Contents[x]]
    BY <1>1, <1>2, <2>2 DEF Held
  <2> QED
    BY <1>3, <2>3 DEF UnsetAbsent, Map!MapUnset, Map!Returned, Returns
<1>4. ASSUME NEW v \in Values, Get(k, v) PROVE Map!MapGet(k, v)
  <2>1. Lookup(k, v) = IF k \in DOMAIN Contents THEN Contents[k] ELSE v
    <3>1. CASE Find(k) = {}
      BY <1>1, <3>1 DEF Held, Lookup
    <3>2. CASE Find(k) # {}
      <4> DEFINE i == First(Find(k))
      <4>1. i \in Find(k) /\ i \in Used
        BY <3>2, FirstOf, SlotSets DEF Inv
      <4> HIDE DEF i
      <4>2. key[i] = k /\ Lookup(k, v) = val[i]
        BY <3>2, <4>1 DEF Find, Lookup, i
      <4> QED
        BY <1>1, <3>2, <4>1, <4>2 DEF Held
    <3> QED
      BY <3>1, <3>2
  <2> QED
    BY <1>2, <1>4, <2>1 DEF Get, Map!MapGet, Map!Returned, Returns
<1> QED
  BY <1>3, <1>4

(* An empty dictionary is an empty map, and every step of the dictionary   *)
(* is one of the map.                                                      *)
LEMMA InitImplements == Init => Map!MapInit
<1> SUFFICES ASSUME Init PROVE Map!MapInit
  OBVIOUS
<1>1. Used = {}
  BY DEF Init, Used
<1>2. Contents = [k \in {} |-> NULL]
  BY <1>1 DEF Contents
<1> QED
  BY <1>2 DEF Init, Map!MapInit

LEMMA StepImplements ==
  Inv /\ Inv' /\ [Next]_dictVars => [Map!MapNext]_(Map!mapVars)
<1> SUFFICES ASSUME Inv, Inv', [Next]_dictVars
             PROVE  [Map!MapNext]_(Map!mapVars)
  OBVIOUS
<1>1. CASE UNCHANGED dictVars
  <2>1. Contents' = Contents
    BY <1>1, InvHeld, InvHeldNext, SameContents DEF dictVars, Used, Slots
  <2> QED
    BY <1>1, <2>1 DEF dictVars, Map!mapVars
<1>2. CASE Next
  <2>1. reply.op # "crash" /\ missing' = missing
    BY <1>2 DEF Next, Set, Get, Unset, UnsetAbsent, Crash
  <2>2. ASSUME NEW k \in Keys, NEW v \in Values, Set(k, v)
        PROVE  Map!MapNext
    BY <2>1, <2>2, SetImplements DEF Map!MapNext, Values
  <2>3. ASSUME NEW k \in Keys, Unset(k) PROVE Map!MapNext
    BY <2>1, <2>3, UnsetImplements DEF Map!MapNext
  <2>4. ASSUME NEW k \in Keys,
               UnsetAbsent(k) \/ \E v \in Values : Get(k, v)
        PROVE  Map!MapNext
    BY <2>1, <2>4, ReadsImplement DEF Map!MapNext, Values
  <2>5. CASE Crash
    <3>1. Contents' = Contents
      BY <2>5, InvHeld, InvHeldNext, SameContents DEF Crash, Used, Slots
    <3> QED
      BY <2>1, <2>5, <3>1
      DEF Crash, SetCrashes, SearchCrashes, Returns, Map!MapNext, Map!MapCrash,
          Map!Returned
  <2> QED
    BY <1>2, <2>2, <2>3, <2>4, <2>5 DEF Next
<1> QED
  BY <1>1, <1>2

(* The open array with linear probing implements a map, for any number of  *)
(* keys and whatever memory refuses.                                       *)
THEOREM ImplementsKeyMapHolds == Spec => ImplementsKeyMap
<1>1. Init => Map!MapInit
  BY InitImplements
<1>2. Inv /\ Inv' /\ [Next]_dictVars => [Map!MapNext]_(Map!mapVars)
  BY StepImplements
<1> QED
  BY <1>1, <1>2, InvCorrect, PTL DEF Spec, ImplementsKeyMap, Map!MapSpec

=============================================================================
