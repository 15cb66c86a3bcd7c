----------------------------- MODULE ConfigProofs ---------------------------
(***************************************************************************)
(* Proofs about the loading of a configuration file and the settings made  *)
(* of it, for any file, and with any malloc and copy free to fail.         *)
(***************************************************************************)
EXTENDS Config, MeaningProofs

(* What DictionaryProofs proves of the dictionary holds of the parser's.   *)
DP == INSTANCE DictionaryProofs WITH Keys <- Names

LEMMA DictAssumed == DP!DictionaryAssumption
BY ParserAssumption DEF DP!DictionaryAssumption

LEMMA SameInv == Dict!Inv <=> DP!Inv
BY Zenon DEF Dict!Inv, Dict!TypeOK, Dict!UniqueKeys, Dict!CountCovers,
   Dict!Used, Dict!Slots, Dict!Values, Dict!Reply, Dict!Arrays,
   Dict!Cardinality, DP!Cardinality,
   DP!Inv, DP!TypeOK, DP!UniqueKeys, DP!CountCovers,
   DP!Used, DP!Slots, DP!Values, DP!Reply, DP!Arrays

LEMMA SameContentsOf == Dict!Contents = DP!Contents
BY Zenon DEF Dict!Contents, Dict!Used, Dict!Slots, Dict!First, Dict!Find,
   DP!Contents, DP!Used, DP!Slots, DP!First, DP!Find

LEMMA SameSet ==
  ASSUME NEW k, NEW v
  PROVE  Dict!Set(k, v) => DP!Set(k, v)
BY Zenon DEF Dict!Set, Dict!SetCrashes, DP!SetCrashes, Dict!SetReplaces, Dict!SetInserts, Dict!SetGrows,
   Dict!SetFails, Dict!Found, Dict!Find, Dict!First, Dict!FillSlot,
   Dict!Probed, Dict!Doubled, Dict!Returns, Dict!Slots,
   DP!Set, DP!SetReplaces, DP!SetInserts, DP!SetGrows,
   DP!SetFails, DP!Found, DP!Find, DP!First, DP!FillSlot,
   DP!Probed, DP!Doubled, DP!Returns, DP!Slots

LEMMA SameInvNext == Dict!Inv' <=> DP!Inv'
BY SameInv, PTL

LEMMA SameContentsNext == Dict!Contents' = DP!Contents'
BY Zenon DEF Dict!Contents, Dict!Used, Dict!Slots, Dict!First, Dict!Find,
   DP!Contents, DP!Used, DP!Slots, DP!First, DP!Find

(* A new dictionary is empty.                                              *)
LEMMA DictInit ==
  ASSUME Dict!Init
  PROVE  Dict!Inv /\ Dict!Contents = << >> /\ reply.ret = 0
<1>1. DP!Init
  BY Zenon DEF Dict!Init, DP!Init, Dict!Slots, DP!Slots, Dict!Arrays, DP!Arrays
<1>2. DP!Inv
  BY <1>1, DictAssumed, DP!InitInv
<1>3. Dict!Used = {}
  BY DEF Dict!Init, Dict!Used
<1> QED
  BY <1>2, <1>3, SameInv DEF Dict!Contents, Dict!Init

(* A set keeps the invariant of the dictionary; it stores the value or, if *)
(* a copy failed, something else; or it fails and changes nothing.         *)
LEMMA DictSet ==
  ASSUME Dict!Inv, NEW k \in Names, NEW v \in Vals \cup {NULL},
         Dict!Set(k, v)
  PROVE  /\ Dict!Inv'
         /\ reply'.ret \in {0, -1}
         /\ reply'.nomem \in BOOLEAN
         /\ reply'.ret = -1 =>
              Dict!Contents' = Dict!Contents
         /\ reply'.ret = 0 /\ ~ reply'.nomem =>
              Dict!Contents' = [x \in DOMAIN Dict!Contents \cup {k} |->
                                  IF x = k THEN v ELSE Dict!Contents[x]]
<1>1. DP!Inv /\ DP!Set(k, v) /\ v \in DP!Values
  BY SameInv, SameSet DEF DP!Values
<1>2. DP!Inv'
  BY <1>1, DictAssumed, DP!SetKeeps
<1>3. \/ DP!Map!MapSet(k, v) \/ DP!Map!MapSetNoMemory(k, v)
      \/ DP!Map!MapSetFails(k, v)
  BY <1>1, <1>2, DictAssumed, DP!SetImplements
<1>4. /\ reply'.ret \in {0, -1} /\ reply'.nomem \in BOOLEAN
      /\ reply'.ret = -1 => DP!Contents' = DP!Contents
      /\ reply'.ret = 0 /\ ~ reply'.nomem =>
           DP!Contents' = DP!Map!Stored(k, v)
  <2>1. CASE DP!Map!MapSet(k, v)
    BY <2>1 DEF DP!Map!MapSet, DP!Map!Returned
  <2>2. CASE DP!Map!MapSetNoMemory(k, v)
    BY <2>2 DEF DP!Map!MapSetNoMemory, DP!Map!Returned
  <2>3. CASE DP!Map!MapSetFails(k, v)
    BY <2>3 DEF DP!Map!MapSetFails, DP!Map!Returned
  <2> QED
    BY <1>3, <2>1, <2>2, <2>3
<1> QED
  BY <1>2, <1>4, SameInvNext, SameContentsOf, SameContentsNext, Zenon
  DEF DP!Map!Stored

(* A lookup answers from the map that the slots hold.                      *)
LEMMA DictLookup ==
  ASSUME Dict!Inv, NEW k, k # NoKey, NEW def
  PROVE  Dict!Lookup(k, def) =
           IF k \in DOMAIN Dict!Contents THEN Dict!Contents[k] ELSE def
<1>1. DOMAIN Dict!Contents = {key[i] : i \in Dict!Used}
  BY DEF Dict!Contents
<1>2. k \in DOMAIN Dict!Contents <=> Dict!Find(k) # {}
  BY <1>1 DEF Dict!Find, Dict!Used
<1>3. k \in DOMAIN Dict!Contents =>
        Dict!Contents[k] = val[Dict!First(Dict!Find(k))]
  BY <1>1 DEF Dict!Contents
<1> QED
  BY <1>2, <1>3, Zenon DEF Dict!Lookup

(* What holds of a dictionary does whichever of its arrays are missing.    *)
LEMMA DictStays ==
  ASSUME UNCHANGED <<size, n, key, val, reply>>,
         missing' = missing \/ missing' \subseteq Dict!Arrays
  PROVE  /\ Dict!Contents' = Dict!Contents
         /\ Dict!Inv => Dict!Inv'
         /\ reply' = reply
<1>1. /\ size' = size /\ n' = n /\ key' = key /\ val' = val
      /\ reply' = reply
  OBVIOUS
<1>2. Dict!Contents' = Dict!Contents
  <2>1. Dict!Used' = Dict!Used
    BY <1>1 DEF Dict!Used, Dict!Slots
  <2>2. \A k : Dict!First(Dict!Find(k))' = Dict!First(Dict!Find(k))
    BY <1>1, Zenon DEF Dict!First, Dict!Find, Dict!Slots
  <2> QED
    BY <1>1, <2>1, <2>2 DEF Dict!Contents
<1>3. Dict!Inv => Dict!Inv'
  <2>1. Dict!TypeOK => missing \subseteq Dict!Arrays
    BY DEF Dict!TypeOK
  <2>2. Dict!Arrays' = Dict!Arrays
    BY DEF Dict!Arrays
  <2>3. Dict!TypeOK => missing' \subseteq Dict!Arrays'
    BY <2>1, <2>2
  <2>4. Dict!TypeOK => Dict!TypeOK'
    BY <1>1, <2>3, Zenon DEF Dict!TypeOK, Dict!Slots, Dict!Reply
  <2>5. Dict!Used' = Dict!Used
    BY <1>1 DEF Dict!Used, Dict!Slots
  <2>6. Dict!UniqueKeys => Dict!UniqueKeys'
    BY <1>1, <2>5, Zenon DEF Dict!UniqueKeys
  <2>7. Dict!CountCovers => Dict!CountCovers'
    BY <1>1, <2>5, Zenon DEF Dict!CountCovers
  <2> QED
    BY <2>4, <2>6, <2>7, Zenon DEF Dict!Inv
<1> QED
  BY <1>1, <1>2, <1>3

LEMMA DictUnchanged ==
  ASSUME UNCHANGED dict
  PROVE  /\ Dict!Contents' = Dict!Contents
         /\ Dict!Inv => Dict!Inv'
         /\ reply' = reply
BY DictStays DEF dict

-----------------------------------------------------------------------------
(* The invariant of the loop, which Load alone has to keep.                *)
LoadInv == /\ IniTypeOK /\ Dict!Inv
           /\ LocalsFollow /\ OutcomeFollows /\ HoldsMeaning

NextLine == file[pos + 1]

(* Whatever reads a line adds it to the lines so far, and joining tells    *)
(* whether a short line ends a logical one.                                *)
LEMMA ReadMore ==
  ASSUME LoadInv, NEW form, Reads(form)
  PROVE  /\ pc = "reading" /\ NextLine \in Line /\ NextLine.form = form
         /\ file' = file /\ file \in Seq(Line) /\ pos \in Nat
         /\ pos' = pos + 1 /\ pos' \in 1 .. Len(file) /\ file[pos'] = NextLine
         /\ SoFar \in Seq(Line) /\ Len(SoFar) = pos
         /\ SoFar' = Append(SoFar, NextLine)
         /\ EndsLine(SoFar, NextLine) <=>
              (form = "whole" \/ (form = "short" /\ joining))
         /\ reply.ret # -1 /\ Taken = SoFar
<1>1. /\ pc = "reading" /\ file \in Seq(Line) /\ pos \in 0 .. Len(file)
      /\ pos < Len(file) /\ NextLine.form = form
      /\ file' = file /\ pos' = pos + 1
  BY DEF LoadInv, IniTypeOK, Reads, NextLine
<1>2. /\ pos \in Nat /\ Len(file) \in Nat /\ pos + 1 \in 1 .. Len(file)
      /\ pos' \in 1 .. Len(file)
  BY <1>1, LenProperties, SMT
<1>3. NextLine \in Line
  BY <1>1, <1>2, ElementOfSeq DEF NextLine
<1>4. /\ SoFar \in Seq(Line) /\ Len(SoFar) = pos
      /\ \A i \in 1 .. pos : SoFar[i] = file[i]
  BY <1>1, <1>2, SMT DEF SoFar
<1>5. SoFar' = Append(SoFar, NextLine)
  <2>1. SoFar' = SubSeq(file, 1, pos + 1)
    BY <1>1 DEF SoFar
  <2>2. SubSeq(file, 1, pos + 1) = Append(SubSeq(file, 1, pos), file[pos + 1])
    BY <1>1, <1>2, SMT
  <2> QED
    BY <2>1, <2>2 DEF SoFar, NextLine
<1>6. joining <=> pos > 0 /\ file[pos].form = "continued"
  BY <1>1 DEF LoadInv, LocalsFollow, Reading
<1>7. EndsLine(SoFar, NextLine) <=>
        (form = "whole" \/ (form = "short" /\ joining))
  <2>1. pos > 0 => SoFar[Len(SoFar)] = file[pos]
    BY <1>2, <1>4, SMT
  <2> QED
    BY <1>1, <1>4, <1>6, <2>1, Zenon DEF EndsLine
<1>8. reply.ret # -1
  BY <1>1 DEF LoadInv, OutcomeFollows, Reading
<1>9. Taken = SoFar
  BY <1>8 DEF Taken, SoFar
<1> QED
  BY <1>1, <1>2, <1>3, <1>4, <1>5, <1>7, <1>8, <1>9 DEF NextLine

(* A line that stores nothing: the dictionary and the section stay, and    *)
(* only an error is counted.                                               *)
LEMMA ReadKeeps ==
  ASSUME LoadInv, NEW form, Reads(form), form # "toolong",
         UNCHANGED <<section, pc, lost, dict>>,
         joining' \in BOOLEAN, joining' <=> form = "continued",
         EndsLine(SoFar, NextLine) => NextLine.text.is \in {"nothing", "error"},
         errs' = errs + (IF EndsLine(SoFar, NextLine)
                              /\ NextLine.text.is = "error" THEN 1 ELSE 0)
  PROVE  LoadInv'
<1> DEFINE l == NextLine
<1>1. /\ pc = "reading" /\ l \in Line /\ l.form = form
      /\ file' = file /\ file \in Seq(Line) /\ pos \in Nat
      /\ pos' = pos + 1 /\ pos' \in 1 .. Len(file) /\ file[pos'] = l
      /\ SoFar \in Seq(Line) /\ Len(SoFar) = pos
      /\ SoFar' = Append(SoFar, l)
      /\ reply.ret # -1 /\ Taken = SoFar
  BY ReadMore
<1>2. /\ Dict!Contents' = Dict!Contents /\ Dict!Inv' /\ reply' = reply
  BY DictUnchanged DEF LoadInv
<1>3. pc' = "reading" /\ section' = section /\ lost' = lost
  BY <1>1
<1>4. errs \in Nat /\ errs \in 0 .. pos /\ errs' \in 0 .. pos'
      /\ (errs' > 0 <=> errs > 0 \/ (EndsLine(SoFar, l) /\ l.text.is = "error"))
  <2> HIDE DEF l
  <2>1. errs \in 0 .. pos /\ pos \in Nat
    BY <1>1 DEF LoadInv, IniTypeOK
  <2>2. CASE EndsLine(SoFar, l) /\ l.text.is = "error"
    <3>1. errs' = errs + 1
      BY <2>2 DEF l
    <3> QED
      BY <1>1, <2>1, <2>2, <3>1
  <2>3. CASE ~ (EndsLine(SoFar, l) /\ l.text.is = "error")
    <3>1. errs' = errs + 0
      BY <2>3 DEF l
    <3> QED
      BY <1>1, <2>1, <2>3, <3>1
  <2> QED
    BY <2>2, <2>3
<1> HIDE DEF l
<1>5. IniTypeOK'
  BY <1>1, <1>2, <1>3, <1>4 DEF LoadInv, IniTypeOK, Dict!Inv
<1>6. LinesOf(SoFar', "error") =
        LinesOf(SoFar, "error")
          \cup (IF EndsLine(SoFar, l) /\ l.text.is = "error" THEN {pos'} ELSE {})
  BY <1>1, LinesGrow
<1>7. ~ lost => SectionAt(SoFar', pos') = section
  <2>1. ~ lost => section = SectionAt(SoFar, pos)
    BY <1>1 DEF LoadInv, LocalsFollow, Reading
  <2>2. EndsLine(SoFar, l) => l.text.is \in {"nothing", "error"}
    BY DEF l
  <2>3. SectionAt(Append(SoFar, l), Len(SoFar) + 1) =
           SectionAt(SoFar, Len(SoFar))
    BY <1>1, <2>2, SectionNext
  <2> QED
    BY <1>1, <2>1, <2>3
<1>8. LocalsFollow'
  <2>1. \A i \in 1 .. pos' : file'[i].form # "toolong"
    <3>1. \A i \in 1 .. pos : file[i].form # "toolong"
      BY <1>1 DEF LoadInv, LocalsFollow
    <3>2. \A i \in 1 .. pos' : i \in 1 .. pos \/ i = pos'
      BY <1>1, SMT
    <3> QED
      BY <1>1, <3>1, <3>2
  <2>2. ~ lost' => (errs' > 0 <=> LinesOf(SoFar', "error") # {})
    BY <1>3, <1>4, <1>6 DEF LoadInv, LocalsFollow
  <2>3. joining' <=> pos' > 0 /\ file'[pos'].form = "continued"
    BY <1>1
  <2> QED
    BY <1>1, <1>3, <1>7, <2>1, <2>2, <2>3 DEF LocalsFollow
<1>9. OutcomeFollows'
  BY <1>1, <1>2, <1>3 DEF OutcomeFollows, Reading, Over
<1>10. HoldsMeaning'
  <2>1. Taken' = SoFar'
    BY <1>1, <1>2 DEF Taken, SoFar
  <2>2. Meaning(Append(SoFar, l)) = Meaning(SoFar)
    <3>1. ~ (EndsLine(SoFar, l) /\ l.text.is \in Storing)
      BY DEF l, Storing
    <3> QED
      BY <1>1, <3>1, MeaningKept
  <2> QED
    BY <1>1, <1>2, <1>3, <2>1, <2>2 DEF LoadInv, HoldsMeaning, ReadCrashed
<1> QED
  BY <1>2, <1>5, <1>8, <1>9, <1>10 DEF LoadInv

(* The process crashes on an array that is missing: nothing is stored, and *)
(* nothing is said of the dictionary any more.                             *)
LEMMA CrashKeeps ==
  ASSUME LoadInv, NEW form, Reads(form),
         EndsLine(SoFar, NextLine) => NextLine.text.is # "error",
         section' \in Sections, joining' \in BOOLEAN,
         UNCHANGED <<errs, lost, dict>>, pc' = "crashed", missing # {}
  PROVE  LoadInv'
<1>1. /\ NextLine \in Line
      /\ file' = file /\ file \in Seq(Line) /\ pos \in Nat
      /\ pos' = pos + 1 /\ pos' \in 1 .. Len(file)
      /\ SoFar \in Seq(Line) /\ Len(SoFar) = pos
      /\ SoFar' = Append(SoFar, NextLine)
      /\ reply.ret # -1
  BY ReadMore
<1>2. Dict!Inv' /\ reply' = reply /\ missing' # {}
  BY DictUnchanged DEF LoadInv, dict
<1>3. IniTypeOK'
  <2>1. errs \in 0 .. pos'
    BY <1>1 DEF LoadInv, IniTypeOK
  <2>2. Dict!TypeOK'
    BY <1>2, Zenon DEF Dict!Inv
  <2>3. lost' \in BOOLEAN
    BY DEF LoadInv, IniTypeOK
  <2> QED
    BY <1>1, <2>1, <2>2, <2>3 DEF IniTypeOK
<1>4. LinesOf(SoFar', "error") = LinesOf(SoFar, "error")
  BY <1>1, LinesStay
<1>5. LocalsFollow'
  BY <1>4 DEF LoadInv, LocalsFollow, Reading
<1>6. OutcomeFollows'
  BY <1>1, <1>2 DEF OutcomeFollows, Reading, Over
<1>7. HoldsMeaning'
  BY <1>2 DEF HoldsMeaning, ReadCrashed
<1> QED
  BY <1>2, <1>3, <1>5, <1>6, <1>7 DEF LoadInv

(* A line that stores a value, which is its meaning unless an earlier line *)
(* was lost: the dictionary follows, or loading ends before this line.     *)
LEMMA SetKeeps ==
  ASSUME LoadInv, NEW form, Reads(form), form # "toolong",
         EndsLine(SoFar, NextLine), NextLine.text.is \in Storing,
         form # "continued", joining' \in BOOLEAN, ~ joining', section' \in Sections,
         NEW k \in Names, NEW v \in Vals \cup {NULL}, Dict!Set(k, v),
         pc' = IF reply'.ret < 0 THEN "end" ELSE "reading",
         lost' = (lost \/ reply'.nomem), errs' = errs,
         ~ lost => /\ section' = SectionAt(SoFar', pos')
                   /\ k = NameAt(SoFar', pos')
                   /\ v = ValueAt(SoFar', pos')
  PROVE  LoadInv'
<1> DEFINE l == NextLine
<1>1. /\ pc = "reading" /\ l \in Line /\ l.form = form
      /\ file' = file /\ file \in Seq(Line) /\ pos \in Nat
      /\ pos' = pos + 1 /\ pos' \in 1 .. Len(file) /\ file[pos'] = l
      /\ SoFar \in Seq(Line) /\ Len(SoFar) = pos
      /\ SoFar' = Append(SoFar, l)
      /\ reply.ret # -1 /\ Taken = SoFar
  BY ReadMore
<1>2. /\ Dict!Inv' /\ reply'.ret \in {0, -1} /\ reply'.nomem \in BOOLEAN
      /\ reply'.ret = -1 => Dict!Contents' = Dict!Contents
      /\ reply'.ret = 0 /\ ~ reply'.nomem =>
           Dict!Contents' = [x \in DOMAIN Dict!Contents \cup {k} |->
                               IF x = k THEN v ELSE Dict!Contents[x]]
  BY DictSet DEF LoadInv
<1>3. /\ pc' = IF reply'.ret = -1 THEN "end" ELSE "reading"
      /\ lost' = (lost \/ reply'.nomem) /\ errs' = errs
  BY <1>2
<1>4. EndsLine(SoFar, l) /\ l.text.is \in Storing /\ l.text.is # "error"
  BY DEF Storing
<1> HIDE DEF l
<1>5. errs \in 0 .. pos' /\ lost' \in BOOLEAN
  BY <1>1, <1>2, <1>3 DEF LoadInv, IniTypeOK
<1>6. IniTypeOK'
  <2>1. /\ file' \in Seq(Line) /\ pos' \in 0 .. Len(file')
        /\ joining' \in BOOLEAN /\ errs' \in 0 .. pos'
    BY <1>1, <1>3, <1>5
  <2>2. pc' \in {"reading", "end"}
    BY <1>3
  <2>3. Dict!TypeOK'
    BY <1>2, Zenon DEF Dict!Inv
  <2> QED
    BY <1>5, <2>1, <2>2, <2>3 DEF IniTypeOK
<1>7. LinesOf(SoFar', "error") = LinesOf(SoFar, "error")
  <2>1. ~ (EndsLine(SoFar, l) /\ l.text.is = "error")
    BY <1>4
  <2> QED
    BY <1>1, <2>1, LinesStay
<1>8. LocalsFollow'
  <2>1. \A i \in 1 .. pos' : file'[i].form # "toolong"
    <3>1. \A i \in 1 .. pos : file[i].form # "toolong"
      BY <1>1 DEF LoadInv, LocalsFollow
    <3>2. \A i \in 1 .. pos' : i \in 1 .. pos \/ i = pos'
      BY <1>1, SMT
    <3> QED
      BY <1>1, <3>1, <3>2
  <2>2. ~ lost' => (errs' > 0 <=> LinesOf(SoFar', "error") # {})
    BY <1>3, <1>7 DEF LoadInv, LocalsFollow
  <2>3. ~ joining' /\ file'[pos'].form # "continued"
    BY <1>1
  <2>4. ~ lost' => section' = SectionAt(SoFar', pos')
    BY <1>3
  <2> QED
    BY <1>1, <1>3, <2>1, <2>2, <2>3, <2>4 DEF LocalsFollow
<1>9. OutcomeFollows'
  BY <1>1, <1>3, <1>4 DEF OutcomeFollows, Reading, Over
<1>10. HoldsMeaning'
  <2> SUFFICES ASSUME ~ lost' PROVE Dict!Contents' = Meaning(Taken')
    BY DEF HoldsMeaning
  <2>1. /\ ~ lost /\ ~ reply'.nomem
        /\ k = NameAt(SoFar', pos') /\ v = ValueAt(SoFar', pos')
    BY <1>2, <1>3
  <2>2. Dict!Contents = Meaning(SoFar)
    BY <1>1, <2>1 DEF LoadInv, HoldsMeaning, ReadCrashed
  <2>3. CASE reply'.ret = -1
    <3>1. Taken' = SoFar
      BY <1>1, <2>3, SMT DEF Taken, SoFar
    <3> QED
      BY <1>2, <2>2, <2>3, <3>1
  <2>4. CASE reply'.ret = 0
    <3>1. Taken' = SoFar'
      BY <2>4 DEF Taken, SoFar
    <3>2. Meaning(Append(SoFar, l)) =
            [x \in DOMAIN Meaning(SoFar) \cup {k} |->
               IF x = k THEN v ELSE Meaning(SoFar)[x]]
      <4>1. /\ k = NameAt(Append(SoFar, l), Len(SoFar) + 1)
            /\ v = ValueAt(Append(SoFar, l), Len(SoFar) + 1)
        BY <1>1, <2>1
      <4>2. SoFar \in Seq(Line) /\ l \in Line
        BY <1>1
      <4> QED
        BY <1>4, <4>1, <4>2, MeaningGrows, ZenonT(60)
    <3> QED
      BY <1>1, <1>2, <2>1, <2>2, <2>4, <3>1, <3>2
  <2> QED
    BY <1>2, <2>3, <2>4
<1> QED
  BY <1>2, <1>6, <1>8, <1>9, <1>10 DEF LoadInv

LEMMA StoreKeeps ==
  ASSUME LoadInv, NEW form, Reads(form), form # "toolong",
         EndsLine(SoFar, NextLine), NextLine.text.is \in Storing,
         form # "continued", joining' \in BOOLEAN, ~ joining', section' \in Sections,
         NEW k \in Names, NEW v \in Vals \cup {NULL}, Store(k, v),
         ~ lost => /\ section' = SectionAt(SoFar', pos')
                   /\ k = NameAt(SoFar', pos')
                   /\ v = ValueAt(SoFar', pos')
  PROVE  LoadInv'
<1>1. \/ /\ Dict!Set(k, v)
         /\ pc' = IF reply'.ret < 0 THEN "end" ELSE "reading"
         /\ lost' = (lost \/ reply'.nomem) /\ errs' = errs
      \/ /\ missing # {} /\ pc' = "crashed"
         /\ UNCHANGED <<errs, lost, dict>>
  BY DEF Store, Dict!SetCrashes
<1>2. NextLine.text.is # "error"
  BY DEF Storing
<1>3. CASE Dict!Set(k, v) /\ pc' # "crashed"
  BY <1>1, <1>3, SetKeeps
<1>4. CASE missing # {} /\ pc' = "crashed" /\ UNCHANGED <<errs, lost, dict>>
  BY <1>2, <1>4, CrashKeeps
<1> QED
  BY <1>1, <1>3, <1>4

LEMMA CompletesMore ==
  ASSUME LoadInv, NEW is, Completes(is)
  PROVE  /\ \E form \in {"whole", "short"} : Reads(form)
         /\ EndsLine(SoFar, NextLine) /\ NextLine.text.is = is
         /\ joining' \in BOOLEAN /\ ~ joining'
<1>1. NextLine.text.is = is /\ joining' \in BOOLEAN /\ ~ joining'
  BY DEF Completes, NextLine
<1>2. CASE Reads("whole")
  BY <1>1, <1>2, ReadMore
<1>3. CASE joining /\ Reads("short")
  BY <1>1, <1>3, ReadMore
<1> QED
  BY <1>2, <1>3 DEF Completes

(* What a completed line means, when no line was lost before it.           *)
LEMMA CompletedMeans ==
  ASSUME LoadInv, NEW is \in Storing, Completes(is)
  PROVE  /\ NextLine.text.is = "section" => NextLine.text.section \in Sections
         /\ NextLine.text.is = "value" => /\ NextLine.text.entry \in Entries
                                          /\ NextLine.text.val \in Vals
         /\ ~ lost =>
              /\ SectionAt(SoFar', pos') =
                   CASE is = "section"  -> NextLine.text.section
                     [] is = "brackets" -> Clipped[section]
                     [] OTHER           -> section
              /\ NameAt(SoFar', pos') =
                   IF is = "value" THEN SectionAt(SoFar', pos')
                                          \o NextLine.text.entry
                                   ELSE SectionAt(SoFar', pos')
              /\ ValueAt(SoFar', pos') =
                   IF is = "value" THEN NextLine.text.val ELSE NULL
<1>1. PICK form \in {"whole", "short"} : Reads(form)
  BY CompletesMore
<1>2. EndsLine(SoFar, NextLine) /\ NextLine.text.is = is
  BY CompletesMore
<1>3. /\ pc = "reading" /\ NextLine \in Line /\ pos \in Nat
      /\ pos' = Len(SoFar) + 1 /\ Len(SoFar) = pos
      /\ SoFar \in Seq(Line) /\ SoFar' = Append(SoFar, NextLine)
  BY <1>1, ReadMore
<1>4. ~ lost => section = SectionAt(SoFar, Len(SoFar))
  BY <1>3 DEF LoadInv, LocalsFollow, Reading
<1>5. SectionAt(SoFar', pos') =
        CASE is = "section"  -> NextLine.text.section
          [] is = "brackets" -> Clipped[SectionAt(SoFar, Len(SoFar))]
          [] OTHER           -> SectionAt(SoFar, Len(SoFar))
  BY <1>2, <1>3, SectionNext
<1>6. /\ NameAt(SoFar', pos') =
           IF is = "value" THEN SectionAt(SoFar', pos') \o NextLine.text.entry
                           ELSE SectionAt(SoFar', pos')
      /\ ValueAt(SoFar', pos') =
           IF is = "value" THEN NextLine.text.val ELSE NULL
  BY <1>2, <1>3, NameNext
<1>7. /\ NextLine.text.is = "section" => NextLine.text.section \in Sections
      /\ NextLine.text.is = "value" => /\ NextLine.text.entry \in Entries
                                       /\ NextLine.text.val \in Vals
  BY <1>3, LineTexts
<1> QED
  BY <1>4, <1>5, <1>6, <1>7

LEMMA TakeSectionKeeps == LoadInv /\ TakeSection => LoadInv'
<1> SUFFICES ASSUME LoadInv, TakeSection PROVE LoadInv'
  OBVIOUS
<1>1. /\ Completes("section") /\ "section" \in Storing
      /\ section' = NextLine.text.section /\ Store(section', NULL)
  BY DEF TakeSection, Storing, NextLine
<1>2. PICK form \in {"whole", "short"} : Reads(form)
  BY <1>1, CompletesMore
<1>3. section' \in Sections /\ section' \in Names
  BY <1>1, CompletesMore, CompletedMeans DEF Names
<1>4. ~ lost => /\ section' = SectionAt(SoFar', pos')
                /\ section' = NameAt(SoFar', pos')
                /\ NULL = ValueAt(SoFar', pos')
  BY <1>1, CompletedMeans
<1>5. NULL \in Vals \cup {NULL} /\ form # "toolong" /\ form # "continued"
  OBVIOUS
<1> QED
  BY <1>1, <1>2, <1>3, <1>4, <1>5, CompletesMore, StoreKeeps

LEMMA TakeBracketsKeeps == LoadInv /\ TakeBrackets => LoadInv'
<1> SUFFICES ASSUME LoadInv, TakeBrackets PROVE LoadInv'
  OBVIOUS
<1>1. /\ Completes("brackets") /\ "brackets" \in Storing
      /\ section' = Clipped[section] /\ Store(section', NULL)
  BY DEF TakeBrackets, Storing
<1>2. PICK form \in {"whole", "short"} : Reads(form)
  BY <1>1, CompletesMore
<1>3. section' \in Sections /\ section' \in Names
  BY <1>1, ParserAssumption DEF LoadInv, IniTypeOK, Names
<1>4. ~ lost => /\ section' = SectionAt(SoFar', pos')
                /\ section' = NameAt(SoFar', pos')
                /\ NULL = ValueAt(SoFar', pos')
  BY <1>1, CompletedMeans
<1>5. NULL \in Vals \cup {NULL} /\ form # "toolong" /\ form # "continued"
  OBVIOUS
<1> QED
  BY <1>1, <1>2, <1>3, <1>4, <1>5, CompletesMore, StoreKeeps

LEMMA TakeValueKeeps == LoadInv /\ TakeValue => LoadInv'
<1> SUFFICES ASSUME LoadInv, TakeValue PROVE LoadInv'
  OBVIOUS
<1> DEFINE k == section \o NextLine.text.entry
           v == NextLine.text.val
<1>1. /\ Completes("value") /\ "value" \in Storing
      /\ section' = section /\ Store(k, v)
  BY DEF TakeValue, Storing, NextLine
<1>2. PICK form \in {"whole", "short"} : Reads(form)
  BY <1>1, CompletesMore
<1>3. section' \in Sections /\ section \in Sections
  BY <1>1 DEF LoadInv, IniTypeOK
<1>4. k \in Names /\ v \in Vals \cup {NULL}
  <2>1. NextLine.text.entry \in Entries /\ NextLine.text.val \in Vals
    BY <1>1, CompletesMore, CompletedMeans
  <2>2. \A s \in Sections, e \in Entries : s \o e \in Names
    BY DEF Names
  <2> QED
    BY <1>3, <2>1, <2>2
<1>5. ~ lost => /\ section' = SectionAt(SoFar', pos')
                /\ k = NameAt(SoFar', pos')
                /\ v = ValueAt(SoFar', pos')
  BY <1>1, CompletedMeans
<1>6. /\ form # "toolong" /\ form # "continued"
      /\ EndsLine(SoFar, NextLine) /\ NextLine.text.is \in Storing
      /\ joining' \in BOOLEAN /\ ~ joining'
  BY <1>1, CompletesMore
<1> HIDE DEF k, v
<1> QED
  BY <1>1, <1>2, <1>3, <1>4, <1>5, <1>6, StoreKeeps

LEMMA TakeErrorKeeps == LoadInv /\ TakeError => LoadInv'
<1> SUFFICES ASSUME LoadInv, TakeError PROVE LoadInv'
  OBVIOUS
<1>1. /\ Completes("error") /\ errs' = errs + 1
      /\ UNCHANGED <<section, pc, lost, dict>>
  BY DEF TakeError
<1>2. PICK form \in {"whole", "short"} : Reads(form)
  BY <1>1, CompletesMore
<1> QED
  BY <1>1, <1>2, CompletesMore, ReadKeeps

LEMMA TakeNothingKeeps == LoadInv /\ TakeNothing => LoadInv'
<1> SUFFICES ASSUME LoadInv, TakeNothing PROVE LoadInv'
  OBVIOUS
<1>1. Completes("nothing") /\ UNCHANGED <<section, errs, pc, lost, dict>>
  BY DEF TakeNothing
<1>2. PICK form \in {"whole", "short"} : Reads(form)
  BY <1>1, CompletesMore
<1>3. errs' = errs + 0
  BY <1>1 DEF LoadInv, IniTypeOK
<1> QED
  BY <1>1, <1>2, <1>3, CompletesMore, ReadKeeps

LEMMA SkipShortKeeps == LoadInv /\ SkipShort => LoadInv'
<1> SUFFICES ASSUME LoadInv, SkipShort PROVE LoadInv'
  OBVIOUS
<1>1. Reads("short") /\ UNCHANGED <<section, errs, pc, lost, dict>>
  BY DEF SkipShort
<1>2. joining' \in BOOLEAN /\ ~ joining' /\ ~ joining
  BY DEF SkipShort, LoadInv, IniTypeOK
<1>3. errs' = errs + 0
  BY <1>1 DEF LoadInv, IniTypeOK
<1>4. ~ EndsLine(SoFar, NextLine)
  BY <1>1, <1>2, ReadMore
<1> QED
  BY <1>1, <1>2, <1>3, <1>4, ReadKeeps

LEMMA JoinNextKeeps == LoadInv /\ JoinNext => LoadInv'
<1> SUFFICES ASSUME LoadInv, JoinNext PROVE LoadInv'
  OBVIOUS
<1>1. Reads("continued") /\ UNCHANGED <<section, errs, pc, lost, dict>>
  BY DEF JoinNext
<1>2. joining' \in BOOLEAN /\ joining'
  BY DEF JoinNext
<1>3. errs' = errs + 0
  BY <1>1 DEF LoadInv, IniTypeOK
<1>4. ~ EndsLine(SoFar, NextLine)
  BY <1>1, ReadMore
<1> QED
  BY <1>1, <1>2, <1>3, <1>4, ReadKeeps

(* A lost line is remembered: nothing is said of the meaning afterwards.   *)
LEMMA LoseLineKeeps == LoadInv /\ LoseLine => LoadInv'
<1> SUFFICES ASSUME LoadInv, LoseLine PROVE LoadInv'
  OBVIOUS
<1>1. PICK is \in {"error", "brackets", "section", "value"} : Completes(is)
  BY DEF LoseLine
<1>2. lost' /\ lost' \in BOOLEAN /\ UNCHANGED <<section, errs, pc, dict>>
  BY DEF LoseLine
<1>3. PICK form \in {"whole", "short"} : Reads(form)
  BY <1>1, CompletesMore
<1>4. joining' \in BOOLEAN /\ ~ joining'
  BY <1>1, CompletesMore
<1>5. /\ pc = "reading" /\ NextLine.form = form
      /\ file' = file /\ file \in Seq(Line) /\ pos \in Nat
      /\ pos' = pos + 1 /\ pos' \in 1 .. Len(file) /\ file[pos'] = NextLine
      /\ reply.ret # -1
  BY <1>3, ReadMore
<1>6. Dict!Inv' /\ reply' = reply
  BY <1>2, DictUnchanged DEF LoadInv
<1>7. IniTypeOK'
  <2>1. errs \in 0 .. pos'
    BY <1>5 DEF LoadInv, IniTypeOK
  <2>2. file' \in Seq(Line) /\ pos' \in 0 .. Len(file')
    BY <1>5
  <2>3. Dict!TypeOK'
    BY <1>6, Zenon DEF Dict!Inv
  <2> QED
    BY <1>2, <1>4, <2>1, <2>2, <2>3 DEF LoadInv, IniTypeOK
<1>8. \A i \in 1 .. pos' : file'[i].form # "toolong"
  <2>1. \A i \in 1 .. pos : file[i].form # "toolong"
    BY <1>5 DEF LoadInv, LocalsFollow
  <2>2. \A i \in 1 .. pos' : i \in 1 .. pos \/ i = pos'
    BY <1>5, SMT
  <2> QED
    BY <1>5, <2>1, <2>2
<1>9. LocalsFollow'
  BY <1>2, <1>4, <1>5, <1>8 DEF LocalsFollow
<1>10. OutcomeFollows'
  BY <1>2, <1>5, <1>6 DEF OutcomeFollows, Reading, Over
<1> QED
  BY <1>2, <1>6, <1>7, <1>9, <1>10 DEF LoadInv, HoldsMeaning

LEMMA RefuseTooLongKeeps == LoadInv /\ RefuseTooLong => LoadInv'
<1> SUFFICES ASSUME LoadInv, RefuseTooLong PROVE LoadInv'
  OBVIOUS
<1>1. /\ Reads("toolong")
      /\ pc' = "null" \/ (pc' = "crashed" /\ missing # {})
      /\ UNCHANGED <<joining, section, errs, lost, dict>>
  BY DEF RefuseTooLong, Refused, Dict!DelCrashes
<1>2. /\ NextLine \in Line /\ NextLine.form = "toolong" /\ pc = "reading"
      /\ file' = file /\ file \in Seq(Line) /\ pos \in Nat
      /\ pos' = pos + 1 /\ pos' \in 1 .. Len(file) /\ file[pos'] = NextLine
      /\ SoFar \in Seq(Line) /\ Len(SoFar) = pos
      /\ SoFar' = Append(SoFar, NextLine)
      /\ ~ EndsLine(SoFar, NextLine)
      /\ reply.ret # -1 /\ Taken = SoFar
  BY <1>1, ReadMore
<1>3. Dict!Contents' = Dict!Contents /\ Dict!Inv' /\ reply' = reply
  BY <1>1, DictUnchanged DEF LoadInv
<1>4. IniTypeOK'
  <2>1. errs \in 0 .. pos'
    BY <1>2 DEF LoadInv, IniTypeOK
  <2>2. Dict!TypeOK'
    BY <1>3, Zenon DEF Dict!Inv
  <2> QED
    BY <1>1, <1>2, <2>1, <2>2 DEF LoadInv, IniTypeOK
<1>5. LinesOf(SoFar', "error") = LinesOf(SoFar, "error")
  BY <1>2, LinesStay
<1>6. LocalsFollow'
  BY <1>1, <1>5 DEF LoadInv, LocalsFollow, Reading
<1>7. Malformed(SoFar')
  <2>1. pos' \in DOMAIN SoFar' /\ SoFar'[pos'] = NextLine
    BY <1>2
  <2> QED
    BY <1>2, <2>1 DEF Malformed
<1>8. OutcomeFollows'
  BY <1>1, <1>2, <1>3, <1>7 DEF OutcomeFollows, Reading, Over
<1>9. HoldsMeaning'
  <2>1. Taken' = SoFar'
    BY <1>2, <1>3 DEF Taken, SoFar
  <2>2. Meaning(Append(SoFar, NextLine)) = Meaning(SoFar)
    BY <1>2, MeaningKept
  <2> QED
    BY <1>1, <1>2, <1>3, <2>1, <2>2 DEF LoadInv, HoldsMeaning, ReadCrashed
<1> QED
  BY <1>3, <1>4, <1>6, <1>8, <1>9 DEF LoadInv

(* What begins and ends the loop changes only pc.                          *)
LEMMA MovesOn ==
  ASSUME LoadInv, UNCHANGED <<file, pos, joining, section, errs, lost>>,
         UNCHANGED <<size, n, key, val, reply>>,
         \/ pc # "crashed" /\ missing' \subseteq Dict!Arrays
         \/ missing' = missing /\ (pc # "crashed" \/ pc' = pc)
  PROVE  /\ Dict!Inv' /\ HoldsMeaning' /\ reply' = reply
         /\ SoFar' = SoFar
         /\ pc' \in {"reading", "null", "loaded", "configured", "crashed"} =>
              IniTypeOK'
<1>1. Dict!Contents' = Dict!Contents /\ Dict!Inv' /\ reply' = reply
  BY DictStays DEF LoadInv
<1>2. Taken' = Taken /\ SoFar' = SoFar
  BY <1>1 DEF Taken, SoFar
<1>3. Dict!TypeOK'
  BY <1>1, Zenon DEF Dict!Inv
<1> QED
  BY <1>1, <1>2, <1>3 DEF LoadInv, HoldsMeaning, ReadCrashed, IniTypeOK

LEMMA OpenKeeps == LoadInv /\ Open => LoadInv'
<1> SUFFICES ASSUME LoadInv, Open PROVE LoadInv'
  OBVIOUS
<1>1. /\ pc = "open" /\ pc' \in {"reading", "null"}
      /\ missing' = missing \/ missing' \subseteq Dict!Arrays
      /\ UNCHANGED <<file, pos, joining, section, errs, lost>>
      /\ UNCHANGED <<size, n, key, val, reply>>
  BY DEF Open
<1>2. /\ Dict!Inv' /\ HoldsMeaning' /\ IniTypeOK'
      /\ reply' = reply /\ SoFar' = SoFar
  BY <1>1, MovesOn
<1>3. pos = 0 /\ reply.ret # -1
  BY <1>1 DEF LoadInv, LocalsFollow, OutcomeFollows, Reading
<1>4. LocalsFollow'
  BY <1>1, <1>2 DEF LoadInv, LocalsFollow, Reading
<1>5. OutcomeFollows'
  BY <1>1, <1>2, <1>3 DEF OutcomeFollows, Reading, Over
<1> QED
  BY <1>2, <1>4, <1>5 DEF LoadInv

LEMMA CloseKeeps == LoadInv /\ Close => LoadInv'
<1> SUFFICES ASSUME LoadInv, Close PROVE LoadInv'
  OBVIOUS
<1>1. /\ pc = "end" \/ (pc = "reading" /\ pos = Len(file))
      /\ pc' \in IF errs > 0 THEN {"null", "crashed"} ELSE {"loaded"}
      /\ UNCHANGED <<file, pos, joining, section, errs, lost>>
      /\ UNCHANGED <<size, n, key, val, reply>> /\ missing' = missing
  BY DEF Close, Refused, dict
<1>2. /\ Dict!Inv' /\ HoldsMeaning' /\ IniTypeOK'
      /\ reply' = reply /\ SoFar' = SoFar
  BY <1>1, MovesOn
<1>3. errs \in Nat
  BY DEF LoadInv, IniTypeOK
<1>4. errs > 0 /\ ~ lost => Malformed(SoFar)
  BY DEF LoadInv, LocalsFollow, Malformed
<1>5. pos = Len(file) \/ reply.ret = -1
  BY <1>1 DEF LoadInv, OutcomeFollows
<1>6. reply.ret = -1 => pos > 0 /\ file[pos].text.is # "error"
  BY DEF LoadInv, OutcomeFollows
<1>7. LocalsFollow'
  BY <1>1, <1>2 DEF LoadInv, LocalsFollow, Reading
<1>8. OutcomeFollows'
  BY <1>1, <1>2, <1>3, <1>4, <1>5, <1>6 DEF OutcomeFollows, Reading, Over
<1> QED
  BY <1>2, <1>7, <1>8 DEF LoadInv

LEMMA LoadKeeps ==
  LoadInv /\ Load => /\ LoadInv' /\ pc' # "configured"
                     /\ pc' = "crashed" => missing' # {}
<1> SUFFICES ASSUME LoadInv, Load
             PROVE  /\ LoadInv' /\ pc' # "configured"
                    /\ pc' = "crashed" => missing' # {}
  OBVIOUS
<1>1. LoadInv'
  BY OpenKeeps, SkipShortKeeps, RefuseTooLongKeeps, JoinNextKeeps,
     TakeNothingKeeps, LoseLineKeeps, TakeErrorKeeps, TakeSectionKeeps,
     TakeBracketsKeeps, TakeValueKeeps, CloseKeeps DEF Load
<1>2. ASSUME NEW k, NEW v, Store(k, v)
      PROVE  pc' # "configured" /\ (pc' = "crashed" => missing' # {})
  BY <1>2 DEF Store, Dict!SetCrashes, dict
<1>3. Refused = "null" \/ (Refused = "crashed" /\ missing # {})
  BY DEF Refused, Dict!DelCrashes
<1>4. pc' # "configured" /\ (pc' = "crashed" => missing' # {})
  <2>1. CASE Open
    BY <2>1 DEF Open
  <2>2. CASE Close
    BY <2>2, <1>3 DEF Close, dict
  <2>3. CASE RefuseTooLong
    BY <2>3, <1>3 DEF RefuseTooLong, dict
  <2>4. CASE SkipShort \/ JoinNext \/ TakeNothing \/ LoseLine \/ TakeError
    <3>1. pc = "reading" /\ pc' = pc
      BY <2>4, Zenon DEF SkipShort, JoinNext, TakeNothing, LoseLine,
                         TakeError, Completes, Reads
    <3> QED
      BY <3>1
  <2>5. CASE TakeSection
    BY <1>2, <2>5, Zenon DEF TakeSection
  <2>6. CASE TakeBrackets
    BY <1>2, <2>6, Zenon DEF TakeBrackets
  <2>7. CASE TakeValue
    BY <1>2, <2>7, Zenon DEF TakeValue
  <2> QED
    BY <2>1, <2>2, <2>3, <2>4, <2>5, <2>6, <2>7 DEF Load
<1> QED
  BY <1>1, <1>4

LEMMA IniInitInv == IniInit => LoadInv
<1> SUFFICES ASSUME IniInit PROVE LoadInv
  OBVIOUS
<1>1. /\ file \in Seq(Line) /\ pos = 0 /\ errs = 0 /\ ~ joining /\ ~ lost
      /\ joining \in BOOLEAN /\ lost \in BOOLEAN
      /\ section = Global /\ section \in Sections /\ pc = "open"
  BY ParserAssumption DEF IniInit
<1>2. /\ Dict!Inv /\ Dict!TypeOK /\ Dict!Contents = << >> /\ reply.ret = 0
  BY DictInit, Zenon DEF IniInit, Dict!Inv
<1>3. SoFar = << >> /\ Taken = << >>
  BY <1>1, <1>2 DEF SoFar, Taken
<1>4. IniTypeOK
  <2>1. Len(file) \in Nat
    BY <1>1, LenProperties
  <2> QED
    BY <1>1, <1>2, <2>1 DEF IniTypeOK
<1>5. LocalsFollow
  BY <1>1, <1>3, EmptyFile DEF LocalsFollow, Reading
<1>6. OutcomeFollows /\ HoldsMeaning
  BY <1>1, <1>2, <1>3, EmptyFile
  DEF OutcomeFollows, HoldsMeaning, Reading, Over
<1> QED
  BY <1>2, <1>4, <1>5, <1>6 DEF LoadInv

-----------------------------------------------------------------------------
(* A setting is looked up in the map that the dictionary holds.            *)
LEMMA FoundIs ==
  ASSUME Dict!Inv, NEW f \in Fields
  PROVE  /\ Found(f) = IF Asked[f] \in DOMAIN Dict!Contents
                         THEN Dict!Contents[Asked[f]] ELSE Default
         /\ Found(f) \in Vals \cup {NULL, Default}
<1>1. Found(f) = IF Asked[f] \in DOMAIN Dict!Contents
                   THEN Dict!Contents[Asked[f]] ELSE Default
  BY ConfigAssumption, DictLookup DEF Found
<1>2. \A k \in DOMAIN Dict!Contents : Dict!Contents[k] \in Vals \cup {NULL}
  <2>1. DP!Held /\ DP!Inv
    BY SameInv, DictAssumed, DP!InvHeld
  <2>2. \A i \in DP!Used : val[i] \in Vals \cup {NULL}
    BY <2>1 DEF DP!Inv, DP!TypeOK, DP!Used, DP!Values
  <2> QED
    BY <2>1, <2>2, SameContentsOf DEF DP!Held
<1> QED
  BY <1>1, <1>2

LEMMA FoundStays ==
  ASSUME UNCHANGED dict
  PROVE  \A f \in Fields : Found(f)' = Found(f)
<1>1. size' = size /\ key' = key /\ val' = val
  BY DEF dict
<1> QED
  <2> TAKE f \in Fields
  <2>1. /\ Dict!Find(Asked[f])' = Dict!Find(Asked[f])
        /\ Dict!First(Dict!Find(Asked[f]))' = Dict!First(Dict!Find(Asked[f]))
    BY <1>1, Zenon DEF Dict!Find, Dict!First, Dict!Slots
  <2> QED
    BY <1>1, <2>1 DEF Found, Dict!Lookup

SettingsType ==
  config = << >> \/ config \in [Fields -> Vals \cup {NULL, Default}]

LEMMA InvIs == Inv <=> LoadInv /\ SettingsFollow /\ SettingsType
BY Zenon DEF Inv, LoadInv, TypeOK, SettingsType

LEMMA InvNext == LoadInv' /\ SettingsFollow' /\ SettingsType' => Inv'
BY InvIs, PTL

LEMMA InitInv == Init => Inv
<1> SUFFICES ASSUME Init PROVE Inv
  OBVIOUS
<1>1. IniInit /\ config = << >> /\ pc = "open"
  BY DEF Init, IniInit
<1> QED
  BY <1>1, IniInitInv, InvIs DEF SettingsFollow, SettingsType

(* Settings are made from a file that was loaded, once.                    *)
LEMMA SetsUp ==
  ASSUME Inv, ParseConfig \/ ParseConfigCrashes
  PROVE  Inv'
<1>1. /\ pc = "loaded" /\ pc' \in {"configured", "crashed"}
      /\ UNCHANGED <<file, pos, joining, section, errs, lost, dict>>
      /\ UNCHANGED <<size, n, key, val, reply>> /\ missing' = missing
  BY DEF ParseConfig, ParseConfigCrashes, dict
<1>2. LoadInv
  BY InvIs
<1>3. /\ Dict!Inv' /\ HoldsMeaning' /\ IniTypeOK'
      /\ reply' = reply /\ SoFar' = SoFar
  BY <1>1, <1>2, MovesOn
<1>4. LocalsFollow'
  BY <1>1, <1>2, <1>3 DEF LoadInv, LocalsFollow, Reading
<1>5. OutcomeFollows'
  BY <1>1, <1>2, <1>3 DEF LoadInv, OutcomeFollows, Reading, Over
<1>6. LoadInv'
  BY <1>3, <1>4, <1>5 DEF LoadInv
<1>7. \A f \in Fields : Found(f)' = Found(f)
                        /\ Found(f) \in Vals \cup {NULL, Default}
  BY <1>1, <1>2, FoundStays, FoundIs DEF LoadInv
<1>8. CASE ParseConfig
  <2>1. config' = [f \in Fields |-> Found(f)] /\ pc' = "configured"
    BY <1>8 DEF ParseConfig
  <2>2. SettingsFollow' /\ SettingsType'
    BY <1>7, <2>1 DEF SettingsFollow, SettingsType
  <2> QED
    BY <1>6, <2>2, InvNext
<1>9. CASE ParseConfigCrashes
  <2>1. /\ config' = config /\ pc' = "crashed"
        /\ missing # {} \/ \E f \in Dereferenced : Found(f) = NULL
    BY <1>9 DEF ParseConfigCrashes, Dict!SearchCrashes
  <2>2. Dereferenced \subseteq Fields
    BY DEF Dereferenced
  <2>3. SettingsFollow'
    BY <1>1, <1>7, <2>1, <2>2 DEF SettingsFollow
  <2>4. SettingsType'
    BY <2>1, InvIs DEF SettingsType
  <2> QED
    BY <1>6, <2>3, <2>4, InvNext
<1> QED
  BY <1>8, <1>9

LEMMA StepInv == Inv /\ [Next]_configVars => Inv'
<1> SUFFICES ASSUME Inv, [Next]_configVars PROVE Inv'
  OBVIOUS
<1>1. LoadInv /\ SettingsFollow
  BY InvIs
<1>2. ASSUME config' = config
      PROVE  SettingsType'
  BY <1>2, InvIs DEF SettingsType
<1>3. CASE Load /\ UNCHANGED config
  <2>1. /\ LoadInv' /\ pc' # "configured"
        /\ pc' = "crashed" => missing' # {}
    BY <1>1, <1>3, LoadKeeps
  <2>2. SettingsFollow'
    BY <2>1 DEF SettingsFollow
  <2> QED
    BY <1>2, <1>3, <2>1, <2>2, InvNext
<1>4. CASE ParseConfig \/ ParseConfigCrashes
  BY <1>4, SetsUp
<1>5. CASE UNCHANGED configVars
  <2>1. /\ pc' = pc /\ config' = config
        /\ UNCHANGED <<file, pos, joining, section, errs, lost, dict>>
        /\ UNCHANGED <<size, n, key, val, reply>> /\ missing' = missing
    BY <1>5 DEF configVars, iniVars, dict
  <2>2. /\ Dict!Inv' /\ HoldsMeaning' /\ reply' = reply /\ SoFar' = SoFar
    BY <1>1, <2>1, MovesOn
  <2>3. IniTypeOK' /\ LocalsFollow' /\ OutcomeFollows'
    BY <1>1, <2>1, <2>2
    DEF LoadInv, IniTypeOK, Dict!Inv, LocalsFollow, OutcomeFollows
  <2>4. SettingsFollow'
    <3>1. \A f \in Fields : Found(f)' = Found(f)
      BY <2>1, FoundStays
    <3>2. Dereferenced \subseteq Fields
      BY DEF Dereferenced
    <3> QED
      BY <1>1, <2>1, <3>1, <3>2 DEF SettingsFollow
  <2>5. LoadInv'
    BY <2>2, <2>3 DEF LoadInv
  <2> QED
    BY <1>2, <2>1, <2>4, <2>5, InvNext
<1> QED
  BY <1>3, <1>4, <1>5 DEF Next

(* The invariant of the loop and of what is made of its result.            *)
THEOREM InvCorrect == Spec => []Inv
BY InitInv, StepInv, PTL DEF Spec

(* The variables hold what their declarations say.                         *)
THEOREM TypeCorrect == Spec => []TypeOK
<1>1. Inv => TypeOK
  BY DEF Inv
<1> QED
  BY <1>1, InvCorrect, PTL

(* The lines that loading has taken, when memory did not fail unnoticed.   *)
LEMMA TakenIs ==
  ASSUME LoadInv
  PROVE  /\ Taken \in Seq(Line)
         /\ \A i \in DOMAIN Taken : Taken[i] = file[i] /\ i \in 1 .. pos
         /\ \A is : LinesOf(Taken, is) \subseteq LinesOf(file, is)
         /\ \A is : LinesOf(Taken, is) \subseteq LinesOf(SoFar, is)
<1> DEFINE m == IF reply.ret = -1 THEN pos - 1 ELSE pos
<1>1. /\ file \in Seq(Line) /\ Len(file) \in Nat /\ pos \in 0 .. Len(file)
      /\ reply.ret = -1 => pos > 0
  BY LenProperties DEF LoadInv, IniTypeOK, OutcomeFollows
<1>2. m \in 0 .. Len(file) /\ m \in 0 .. pos
  BY <1>1, SMT
<1>3. Taken = SubSeq(file, 1, m)
  BY DEF Taken
<1>4. SoFar \in Seq(Line) /\ Len(SoFar) = pos
  BY <1>1, PrefixLines DEF SoFar
<1>5. Taken = SubSeq(SoFar, 1, m)
  <2>1. SubSeq(SubSeq(file, 1, pos), 1, m) = SubSeq(file, 1, m)
    BY <1>1, <1>2, SMT
  <2> QED
    BY <1>3, <2>1 DEF SoFar
<1> HIDE DEF m
<1>6. /\ Taken \in Seq(Line) /\ DOMAIN Taken = 1 .. m
      /\ \A i \in 1 .. m : Taken[i] = file[i]
      /\ \A is : LinesOf(Taken, is) \subseteq LinesOf(file, is)
  BY <1>1, <1>2, <1>3, PrefixLines
<1>7. \A is : LinesOf(Taken, is) \subseteq LinesOf(SoFar, is)
  BY <1>2, <1>4, <1>5, PrefixLines
<1>8. \A i \in 1 .. m : i \in 1 .. pos
  BY <1>1, <1>2, SMT
<1> QED
  BY <1>6, <1>7, <1>8

LEMMA InvLoaded == Inv => LoadedIsFile
<1> SUFFICES ASSUME Inv, ~ lost
             PROVE  /\ pc = "loaded" => /\ ~ Malformed(Taken)
                                        /\ Taken = file \/ reply.ret = -1
                    /\ pc = "null" /\ pos > 0 => Malformed(SoFar)
  BY DEF Inv, LoadedIsFile, HoldsMeaning, ReadCrashed, SoFar
<1>1. LoadInv
  BY InvIs
<1>2. pc = "null" /\ pos > 0 => Malformed(SoFar)
  BY <1>1 DEF LoadInv, OutcomeFollows
<1>3. ASSUME pc = "loaded" PROVE ~ Malformed(Taken)
  <2>1. errs = 0
    BY <1>1, <1>3 DEF LoadInv, OutcomeFollows, Over
  <2>2. LinesOf(SoFar, "error") = {}
    BY <1>1, <2>1 DEF LoadInv, LocalsFollow
  <2>3. \A i \in 1 .. pos : file[i].form # "toolong"
    BY <1>1, <1>3 DEF LoadInv, LocalsFollow
  <2> QED
    BY <1>1, <2>2, <2>3, TakenIs DEF Malformed
<1>4. ASSUME pc = "loaded", reply.ret # -1 PROVE Taken = file
  <2>1. pos = Len(file) /\ file \in Seq(Line)
    BY <1>1, <1>4 DEF LoadInv, IniTypeOK, OutcomeFollows, Over
  <2>2. SubSeq(file, 1, Len(file)) = file
    BY <2>1, SMT
  <2> QED
    BY <1>4, <2>1, <2>2 DEF Taken
<1> QED
  BY <1>2, <1>3, <1>4

(* A file is loaded exactly when no line read is malformed, and then the   *)
(* dictionary holds what it means.                                         *)
THEOREM LoadedIsFileHolds == Spec => []LoadedIsFile
BY InvLoaded, InvCorrect, PTL

LEMMA InvConfigured == Inv => ConfiguredByFile
<1> SUFFICES ASSUME Inv, pc = "configured", ~ lost, NEW f \in Fields
             PROVE  config[f] = IF Asked[f] \in DOMAIN Meaning(Taken)
                                  THEN Meaning(Taken)[Asked[f]] ELSE Default
  BY DEF ConfiguredByFile
<1>1. config[f] = Found(f)
  BY DEF Inv, SettingsFollow
<1>2. Dict!Contents = Meaning(Taken)
  BY DEF Inv, HoldsMeaning, ReadCrashed
<1>3. Found(f) = IF Asked[f] \in DOMAIN Dict!Contents
                   THEN Dict!Contents[Asked[f]] ELSE Default
  BY FoundIs DEF Inv
<1> QED
  BY <1>1, <1>2, <1>3

(* Every setting is the last line of the file that sets it, or its default.*)
THEOREM ConfiguredByFileHolds == Spec => []ConfiguredByFile
BY InvConfigured, InvCorrect, PTL

LEMMA InvCrashes == Inv => CrashesOnlyIfTold
<1> SUFFICES ASSUME Inv, pc = "crashed", missing = {}, ~ lost, ColonsAvoided
             PROVE  FALSE
  BY DEF CrashesOnlyIfTold
<1>1. PICK f \in Dereferenced : Found(f) = NULL
  BY DEF Inv, SettingsFollow
<1>2. f \in Fields
  BY DEF Dereferenced
<1>3. Len(Asked[f]) = 2
  BY <1>2, SMT DEF Fields, Asked
<1>4. LoadInv /\ Dict!Inv /\ Dict!Contents = Meaning(Taken)
  BY InvIs DEF Inv, HoldsMeaning, ReadCrashed
<1>5. Asked[f] \in DOMAIN Meaning(Taken) /\ Meaning(Taken)[Asked[f]] = NULL
  BY <1>1, <1>2, <1>4, FoundIs, ConfigAssumption
<1>6. /\ Taken \in Seq(Line)
      /\ \A j \in LinesOf(Taken, "section") : Len(Taken[j].text.section) = 1
  <2>1. /\ Taken \in Seq(Line)
        /\ \A j \in DOMAIN Taken : Taken[j] = file[j]
        /\ LinesOf(Taken, "section") \subseteq LinesOf(file, "section")
    BY <1>4, TakenIs
  <2>2. \A j \in LinesOf(Taken, "section") : j \in DOMAIN Taken
    BY DEF LinesOf, Logical
  <2> QED
    BY <2>1, <2>2 DEF ColonsAvoided
<1>7. PICK i \in Nat : Asked[f] = SectionAt(Taken, i)
  BY <1>5, <1>6, ValuelessNames
<1>8. Len(SectionAt(Taken, i)) = 1
  BY <1>6, ShortSections
<1> QED
  BY <1>3, <1>7, <1>8

(* The server crashes while it reads its file, or on a setting without a   *)
(* value, only if memory ran out for an array or a copy or if a section    *)
(* line of the file has a colon in its name.                               *)
THEOREM CrashesOnlyIfToldHolds == Spec => []CrashesOnlyIfTold
BY InvCrashes, InvCorrect, PTL

-----------------------------------------------------------------------------
(* The dictionary of a file without colons in its section lines, and with  *)
(* every entry in a section that has a name, is ready to be dumped.        *)
LEMMA LoadedIsReady ==
  ASSUME Inv, pc = "loaded", ~ lost, ColonsAvoided,
         \A i \in Used : key[i][1] # "" /\ ComesBack(i)
  PROVE  /\ DumpReady
         /\ DOMAIN Dict!Contents = {key[i] : i \in Used}
         /\ \A i \in Used : Dict!Contents[key[i]] = val[i]
         /\ Dict!Contents = [k \in DOMAIN Dict!Contents |-> Dict!Contents[k]]
<1>1. LoadInv /\ DP!Inv /\ Dict!Contents = Meaning(Taken)
  BY InvIs, SameInv DEF Inv, LoadInv, HoldsMeaning, ReadCrashed
<1>2. DP!Held
  BY <1>1, DictAssumed, DP!InvHeld
<1>3. DP!Used = Used
  BY DEF DP!Used, DP!Slots, Used
<1>4. /\ DOMAIN Dict!Contents = {key[i] : i \in Used}
      /\ \A i \in Used : Dict!Contents[key[i]] = val[i]
      /\ Dict!Contents = [k \in DOMAIN Dict!Contents |-> Dict!Contents[k]]
  BY <1>2, <1>3, SameContentsOf DEF DP!Held
<1>5. /\ size \in Nat \ {0}
      /\ \A i, j \in Used : key[i] = key[j] => i = j
  BY <1>1, <1>3 DEF DP!Inv, DP!TypeOK, DP!UniqueKeys
<1>6. /\ Taken \in Seq(Line)
      /\ \A j \in LinesOf(Taken, "section") : Len(Taken[j].text.section) = 1
  <2>1. /\ Taken \in Seq(Line)
        /\ \A j \in DOMAIN Taken : Taken[j] = file[j]
        /\ LinesOf(Taken, "section") \subseteq LinesOf(file, "section")
    BY <1>1, TakenIs
  <2>2. \A j \in LinesOf(Taken, "section") : j \in DOMAIN Taken
    BY DEF LinesOf, Logical
  <2> QED
    BY <2>1, <2>2 DEF ColonsAvoided
<1>7. ASSUME NEW i \in Used
      PROVE  /\ key[i] \in Seq(STRING) /\ Len(key[i]) > 0
             /\ \E t \in Used : key[t] = <<key[i][1]>>
             /\ Len(key[i]) = 1 => key[i] \in Sections \ {Global} /\ val[i] = NULL
             /\ Len(key[i]) > 1 => /\ SubSeq(key[i], 2, Len(key[i])) \in Entries
                                   /\ val[i] \in Vals
  <2> DEFINE k == key[i]
  <2>1. k \in DOMAIN Meaning(Taken) /\ Meaning(Taken)[k] = val[i]
    BY <1>1, <1>4
  <2>2. /\ k \in Seq(STRING) /\ Len(k) > 0
        /\ Len(k) = 1 => k \in Sections /\ Meaning(Taken)[k] = NULL
        /\ Len(k) > 1 => /\ SubSeq(k, 2, Len(k)) \in Entries
                         /\ Meaning(Taken)[k] \in Vals
        /\ <<k[1]>> = Global \/ <<k[1]>> \in DOMAIN Meaning(Taken)
    BY <1>6, <2>1, NamesOfFile
  <2>3. k[1] # ""
    OBVIOUS
  <2>4. <<k[1]>> # Global /\ k # Global
    <3>1. Global[1] = "" /\ <<k[1]>>[1] = k[1]
      BY DEF Global
    <3> HIDE DEF k
    <3> QED
      BY <2>3, <3>1, Zenon
  <2>5. \E t \in Used : key[t] = <<k[1]>>
    BY <1>1, <1>4, <2>2, <2>4
  <2> QED
    BY <2>1, <2>2, <2>4, <2>5
<1>8. DumpReady
  BY <1>5, <1>7 DEF DumpReady
<1> QED
  BY <1>4, <1>8

LEMMA InvDump == Inv => DumpReloads
<1> SUFFICES ASSUME Inv, pc = "loaded", ~ lost, ColonsAvoided,
                    \A i \in Used : key[i][1] # "" /\ ComesBack(i)
             PROVE  Meaning(Dump) = Dict!Contents
  BY DEF DumpReloads
<1>1. Covers(Dump, Used)
  BY LoadedIsReady, DumpCovers
<1>2. Meaning(Dump) = [k \in DOMAIN Meaning(Dump) |-> Meaning(Dump)[k]]
  BY MeaningIs
<1>3. /\ DOMAIN Meaning(Dump) = DOMAIN Dict!Contents
      /\ \A k \in DOMAIN Dict!Contents : Meaning(Dump)[k] = Dict!Contents[k]
  <2>1. /\ DOMAIN Dict!Contents = {key[i] : i \in Used}
        /\ \A i \in Used : Dict!Contents[key[i]] = val[i]
    BY LoadedIsReady
  <2>2. /\ DOMAIN Meaning(Dump) = {key[i] : i \in Used}
        /\ \A i \in Used : Meaning(Dump)[key[i]] = val[i]
    BY <1>1 DEF Covers
  <2>3. \A k \in DOMAIN Dict!Contents : Meaning(Dump)[k] = Dict!Contents[k]
    <3> SUFFICES ASSUME NEW k \in DOMAIN Dict!Contents
                 PROVE  Meaning(Dump)[k] = Dict!Contents[k]
      OBVIOUS
    <3>1. PICK i \in Used : k = key[i]
      BY <2>1
    <3> QED
      BY <2>1, <2>2, <3>1
  <2> QED
    BY <2>1, <2>2, <2>3, Zenon
<1>4. Dict!Contents = [k \in DOMAIN Dict!Contents |-> Dict!Contents[k]]
  BY LoadedIsReady
<1> QED
  BY <1>2, <1>3, <1>4, Zenon

(* What iniparser_dump_ini writes loads as the dictionary it was written   *)
(* of, whatever the file, its sections, its entries and its values.        *)
THEOREM DumpReloadsHolds == Spec => []DumpReloads
BY InvDump, InvCorrect, PTL

=============================================================================
