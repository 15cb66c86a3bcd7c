---------------------------- MODULE MeaningProofs ---------------------------
(***************************************************************************)
(* How the meaning of a file grows with each line, for any file: what the  *)
(* loop of iniparser_load is compared with in ConfigProofs.                *)
(***************************************************************************)
EXTENDS IniParser, FiniteSetTheorems, SequenceTheorems, WellFoundedInduction,
        TLAPS

(* A bounded set of positions has a greatest one.                          *)
LEMMA MaxOf ==
  ASSUME NEW m \in Nat, NEW S \in SUBSET (0 .. m), S # {}
  PROVE  Max(S) \in S /\ \A y \in S : Max(S) >= y
<1> DEFINE R == {ss \in Nat \X Nat : ss[1] < ss[2]}
           D == {m - y : y \in S}
<1>1. IsWellFoundedOn(R, Nat)
  BY NatLessThanWellFounded, Zenon DEF OpToRel
<1>2. D \subseteq Nat /\ D # {}
  <2>1. \A y \in S : m - y \in Nat
    BY SMT
  <2> QED
    BY <2>1, Zenon
<1>3. PICK d \in D : \A e \in D : ~ (<<e, d>> \in R)
  <2> HIDE DEF R, D
  <2> QED
    BY <1>1, <1>2, WFMin
<1>4. \A e \in D : d <= e
  <2> SUFFICES ASSUME NEW e \in D, ~ (d <= e) PROVE FALSE
    OBVIOUS
  <2>1. <<e, d>> \in R
    BY <1>2, SMT
  <2> QED
    BY <1>3, <2>1
<1>5. PICK x \in S : d = m - x
  OBVIOUS
<1>6. \A y \in S : x >= y
  <2> TAKE y \in S
  <2>1. m - x <= m - y
    BY <1>4, <1>5, Zenon
  <2>2. x \in 0 .. m /\ y \in 0 .. m
    OBVIOUS
  <2> HIDE DEF D, R
  <2> QED
    BY <2>1, <2>2, SMT
<1> QED
  BY <1>6, Zenon DEF Max

-----------------------------------------------------------------------------
(* What the texts of the lines of a file hold, by what they are.           *)
LEMMA LineTexts ==
  ASSUME NEW l \in Line
  PROVE  /\ l.text.is = "section" => l.text.section \in Sections
         /\ l.text.is = "value" => /\ l.text.entry \in Entries
                                   /\ l.text.val \in Vals
BY DEF Line, Text

(* Where a line of a file ends a logical line is decided by it and the one *)
(* before: when one more line l is read after f, all else stays.           *)
EndsLine(f, l) ==
  \/ l.form = "whole"
  \/ l.form = "short" /\ Len(f) > 0 /\ f[Len(f)].form = "continued"

LEMMA Grown ==
  ASSUME NEW f \in Seq(Line), NEW l \in Line
  PROVE  /\ Append(f, l) \in Seq(Line)
         /\ Len(f) \in Nat
         /\ Len(Append(f, l)) = Len(f) + 1
         /\ DOMAIN f = 1 .. Len(f)
         /\ DOMAIN Append(f, l) = 1 .. Len(f) + 1
         /\ \A i \in 1 .. Len(f) : Append(f, l)[i] = f[i] /\ f[i] \in Line
         /\ Append(f, l)[Len(f) + 1] = l
BY SMT

LEMMA LogicalGrows ==
  ASSUME NEW f \in Seq(Line), NEW l \in Line
  PROVE  Logical(Append(f, l)) =
           Logical(f) \cup (IF EndsLine(f, l) THEN {Len(f) + 1} ELSE {})
<1> DEFINE p == Len(f)
           g == Append(f, l)
<1>1. /\ p \in Nat /\ DOMAIN f = 1 .. p /\ DOMAIN g = 1 .. p + 1
      /\ \A i \in 1 .. p : g[i] = f[i]
      /\ g[p + 1] = l
  BY Grown
<1> HIDE DEF g, p
<1>2. \A i \in 1 .. p : i \in Logical(g) <=> i \in Logical(f)
  <2> TAKE i \in 1 .. p
  <2>1. i \in DOMAIN f /\ i \in DOMAIN g /\ g[i] = f[i]
    BY <1>1, SMT
  <2>2. i > 1 => g[i - 1] = f[i - 1]
    BY <1>1, SMT
  <2> QED
    BY <2>1, <2>2, Zenon DEF Logical
<1>3. p + 1 \in Logical(g) <=> EndsLine(f, l)
  <2>1. p + 1 \in DOMAIN g /\ g[p + 1] = l /\ (p + 1 > 1 <=> p > 0)
    BY <1>1, SMT
  <2>2. p > 0 => g[p + 1 - 1] = f[p]
    BY <1>1, SMT
  <2> QED
    BY <2>1, <2>2 DEF Logical, EndsLine, p
<1>4. Logical(g) \subseteq 1 .. p + 1 /\ Logical(f) \subseteq 1 .. p
  BY <1>1 DEF Logical
<1>5. Logical(g) = Logical(f) \cup (IF EndsLine(f, l) THEN {p + 1} ELSE {})
  <2>1. \A i : i \in 1 .. p + 1 <=> i \in 1 .. p \/ i = p + 1
    BY <1>1, SMT
  <2> QED
    BY <1>2, <1>3, <1>4, <2>1
<1> QED
  BY <1>5 DEF g, p

LEMMA LinesGrow ==
  ASSUME NEW f \in Seq(Line), NEW l \in Line, NEW is
  PROVE  /\ LinesOf(f, is) \subseteq 1 .. Len(f)
         /\ LinesOf(Append(f, l), is) =
              LinesOf(f, is)
                \cup (IF EndsLine(f, l) /\ l.text.is = is THEN {Len(f) + 1}
                                                          ELSE {})
<1> DEFINE g == Append(f, l)
           new == Len(f) + 1
<1>1. Logical(f) \subseteq 1 .. Len(f)
  BY Grown DEF Logical
<1>2. /\ \A i \in Logical(f) : g[i] = f[i]
      /\ g[new] = l
  BY <1>1, Grown
<1>3. Logical(g) = Logical(f) \cup (IF EndsLine(f, l) THEN {new} ELSE {})
  BY LogicalGrows
<1> HIDE DEF g, new
<1>4. LinesOf(f, is) \subseteq 1 .. Len(f)
  BY <1>1 DEF LinesOf
<1>5. LinesOf(g, is) =
        LinesOf(f, is)
          \cup (IF EndsLine(f, l) /\ l.text.is = is THEN {new} ELSE {})
  BY <1>2, <1>3, Zenon DEF LinesOf
<1> QED
  BY <1>4, <1>5 DEF g, new

LEMMA LinesStay ==
  ASSUME NEW f \in Seq(Line), NEW l \in Line, NEW is,
         ~ (EndsLine(f, l) /\ l.text.is = is)
  PROVE  LinesOf(Append(f, l), is) = LinesOf(f, is)
<1>1. LinesOf(Append(f, l), is) =
        LinesOf(f, is)
          \cup (IF EndsLine(f, l) /\ l.text.is = is THEN {Len(f) + 1} ELSE {})
  BY LinesGrow
<1> QED
  BY <1>1

-----------------------------------------------------------------------------
(* The section in force.                                                   *)
Named(f, i) == {j \in LinesOf(f, "section") : j <= i} \cup {0}
LastNamed(f, i) == Max(Named(f, i))
NameThen(f, i) ==
  IF LastNamed(f, i) = 0 THEN Global ELSE f[LastNamed(f, i)].text.section
Cleared(f, i) ==
  \E j \in LinesOf(f, "brackets") : LastNamed(f, i) < j /\ j <= i

LEMMA SectionAtIs ==
  ASSUME NEW f, NEW i
  PROVE  SectionAt(f, i) = IF Cleared(f, i) THEN Clipped[NameThen(f, i)]
                                            ELSE NameThen(f, i)
BY DEF SectionAt, Cleared, NameThen, LastNamed, Named

LEMMA LastNamedIs ==
  ASSUME NEW f \in Seq(Line), NEW i \in Nat
  PROVE  /\ LastNamed(f, i) \in Named(f, i)
         /\ LastNamed(f, i) \in 0 .. Len(f)
         /\ LastNamed(f, i) <= i
         /\ \A j \in Named(f, i) : LastNamed(f, i) >= j
<1>1. Named(f, i) \subseteq 0 .. Len(f) /\ Named(f, i) # {}
  <2>1. LinesOf(f, "section") \subseteq 1 .. Len(f)
    BY Grown DEF LinesOf, Logical
  <2> QED
    BY <2>1, Grown, SMT DEF Named
<1>2. Len(f) \in Nat
  BY Grown
<1>3. /\ Max(Named(f, i)) \in Named(f, i)
      /\ \A j \in Named(f, i) : Max(Named(f, i)) >= j
  BY <1>1, <1>2, MaxOf
<1>4. \A j \in Named(f, i) : j <= i
  BY SMT DEF Named
<1> QED
  BY <1>1, <1>3, <1>4 DEF LastNamed

LEMMA NameThenType ==
  ASSUME NEW f \in Seq(Line), NEW i \in Nat
  PROVE  NameThen(f, i) \in Sections
<1> DEFINE j == LastNamed(f, i)
<1>1. j = 0 \/ j \in LinesOf(f, "section")
  BY LastNamedIs DEF Named
<1> HIDE DEF j
<1>2. CASE j = 0
  BY <1>2, ParserAssumption DEF NameThen, j
<1>3. CASE j # 0
  <2>1. j \in DOMAIN f /\ f[j].text.is = "section"
    BY <1>1, <1>3 DEF LinesOf, Logical
  <2>2. f[j] \in Line
    BY <2>1, Grown
  <2> QED
    BY <1>3, <2>1, <2>2, LineTexts DEF NameThen, j
<1> QED
  BY <1>2, <1>3

LEMMA SectionAtType ==
  ASSUME NEW f \in Seq(Line), NEW i \in Nat
  PROVE  SectionAt(f, i) \in Sections
BY SectionAtIs, NameThenType, ParserAssumption

(* A new line changes nothing at the lines before it ...                   *)
LEMMA SectionKept ==
  ASSUME NEW f \in Seq(Line), NEW l \in Line, NEW i \in 0 .. Len(f)
  PROVE  SectionAt(Append(f, l), i) = SectionAt(f, i)
<1> DEFINE g == Append(f, l)
<1>1. i \in Nat /\ Len(f) \in Nat /\ ~ (Len(f) + 1 <= i)
  BY Grown, SMT
<1>2. \A is : {j \in LinesOf(g, is) : j <= i} = {j \in LinesOf(f, is) : j <= i}
  <2> TAKE is
  <2>1. \/ LinesOf(g, is) = LinesOf(f, is)
        \/ LinesOf(g, is) = LinesOf(f, is) \cup {Len(f) + 1}
    <3>1. LinesOf(g, is) = LinesOf(f, is)
            \cup (IF EndsLine(f, l) /\ l.text.is = is THEN {Len(f) + 1}
                                                      ELSE {})
      BY LinesGrow
    <3> QED
      BY <3>1
  <2> QED
    BY <1>1, <2>1
<1>3. Named(g, i) = Named(f, i)
  BY <1>2 DEF Named
<1>4. LastNamed(g, i) = LastNamed(f, i)
  BY <1>3 DEF LastNamed
<1>5. Cleared(g, i) <=> Cleared(f, i)
  <2>1. \A j : j \in LinesOf(g, "brackets") /\ j <= i
                 <=> j \in LinesOf(f, "brackets") /\ j <= i
    BY <1>2
  <2> QED
    BY <1>4, <2>1 DEF Cleared
<1>6. NameThen(g, i) = NameThen(f, i)
  <2>1. LastNamed(f, i) # 0 => LastNamed(f, i) \in 1 .. Len(f)
    BY <1>1, LastNamedIs, SMT
  <2>2. LastNamed(f, i) # 0 => g[LastNamed(f, i)] = f[LastNamed(f, i)]
    BY <2>1, Grown
  <2> QED
    BY <1>4, <2>2 DEF NameThen
<1> QED
  BY <1>5, <1>6, SectionAtIs

(* ... and itself is in the section before, unless it names one or clips.  *)
LEMMA SectionNext ==
  ASSUME NEW f \in Seq(Line), NEW l \in Line
  PROVE  SectionAt(Append(f, l), Len(f) + 1) =
           IF ~ EndsLine(f, l) THEN SectionAt(f, Len(f))
           ELSE CASE l.text.is = "section"  -> l.text.section
                  [] l.text.is = "brackets" -> Clipped[SectionAt(f, Len(f))]
                  [] OTHER -> SectionAt(f, Len(f))
<1> DEFINE g == Append(f, l)
           p == Len(f)
           new == p + 1
           Adds(is) == EndsLine(f, l) /\ l.text.is = is
<1>1. /\ p \in Nat /\ new \in Nat /\ g \in Seq(Line)
      /\ g[new] = l /\ \A i \in 1 .. p : g[i] = f[i]
      /\ Len(g) = new
  BY Grown, SMT
<1>2. \A is : /\ LinesOf(f, is) \subseteq 1 .. p
              /\ LinesOf(g, is) = LinesOf(f, is)
                                    \cup (IF Adds(is) THEN {new} ELSE {})
  BY LinesGrow
<1> HIDE DEF g, p, new, Adds
<1>3. /\ p < new
      /\ \A i \in 1 .. p : i <= p /\ i <= new /\ ~ (new < i)
      /\ new <= new /\ ~ (new < new) /\ new # 0
  BY <1>1, SMT DEF new
<1>4. Named(f, p) = LinesOf(f, "section") \cup {0}
  BY <1>2, <1>3 DEF Named
<1>5. Named(g, new) = LinesOf(g, "section") \cup {0}
  BY <1>2, <1>3 DEF Named
<1>6. CASE Adds("section")
  <2>1. new \in Named(g, new)
    BY <1>2, <1>5, <1>6
  <2>2. LastNamed(g, new) = new
    BY <1>1, <2>1, LastNamedIs, SMT
  <2>3. NameThen(g, new) = l.text.section
    BY <1>1, <1>3, <2>2 DEF NameThen
  <2>4. ~ Cleared(g, new)
    BY <1>2, <1>3, <2>2 DEF Cleared
  <2> QED
    BY <1>6, <2>3, <2>4, SectionAtIs DEF g, p, new, Adds
<1>7. CASE ~ Adds("section")
  <2>1. LastNamed(g, new) = LastNamed(f, p)
    BY <1>2, <1>4, <1>5, <1>7 DEF LastNamed
  <2>2. NameThen(g, new) = NameThen(f, p)
    <3>1. LastNamed(f, p) # 0 => LastNamed(f, p) \in 1 .. p
      BY <1>1, LastNamedIs, SMT DEF p
    <3> QED
      BY <1>1, <2>1, <3>1 DEF NameThen
  <2>3. LastNamed(f, p) < new
    BY <1>1, LastNamedIs, SMT DEF p, new
  <2>4. Cleared(g, new) <=> Cleared(f, p) \/ Adds("brackets")
    <3>1. \A j \in LinesOf(f, "brackets") : j <= p /\ j <= new
      BY <1>2, <1>3
    <3> QED
      BY <1>2, <1>3, <2>1, <2>3, <3>1 DEF Cleared
  <2>5. CASE Adds("brackets")
    <3>1. SectionAt(g, new) = Clipped[NameThen(f, p)]
      BY <2>2, <2>4, <2>5, SectionAtIs
    <3>2. NameThen(f, p) \in Sections
      BY <1>1, NameThenType
    <3>3. Clipped[SectionAt(f, p)] = Clipped[NameThen(f, p)]
      BY <3>2, SectionAtIs, ParserAssumption
    <3> QED
      BY <2>5, <3>1, <3>3 DEF g, p, new, Adds
  <2>6. CASE ~ Adds("brackets")
    <3>1. SectionAt(g, new) = SectionAt(f, p)
      BY <2>2, <2>4, <2>6, SectionAtIs
    <3> QED
      BY <1>7, <2>6, <3>1 DEF g, p, new, Adds
  <2> QED
    BY <2>5, <2>6
<1> QED
  BY <1>6, <1>7

-----------------------------------------------------------------------------
(* The entries.                                                            *)
Stores(f) == LinesOf(f, "section") \cup LinesOf(f, "brackets")
               \cup LinesOf(f, "value")
Naming(f, k) == {i \in Stores(f) : NameAt(f, i) = k}
Storing == {"section", "brackets", "value"}

LEMMA MeaningIs ==
  ASSUME NEW f
  PROVE  Meaning(f) = [k \in {NameAt(f, i) : i \in Stores(f)} |->
                         ValueAt(f, Max(Naming(f, k)))]
BY DEF Meaning, Stores, Naming

LEMMA StoresGrow ==
  ASSUME NEW f \in Seq(Line), NEW l \in Line
  PROVE  /\ Stores(f) \subseteq 1 .. Len(f)
         /\ Stores(Append(f, l)) =
              Stores(f) \cup (IF EndsLine(f, l) /\ l.text.is \in Storing
                                THEN {Len(f) + 1} ELSE {})
<1> DEFINE g == Append(f, l)
           new == Len(f) + 1
           Adds(is) == EndsLine(f, l) /\ l.text.is = is
<1>1. \A is : /\ LinesOf(f, is) \subseteq 1 .. Len(f)
              /\ LinesOf(g, is) = LinesOf(f, is)
                                    \cup (IF Adds(is) THEN {new} ELSE {})
  BY LinesGrow
<1>2. Stores(f) \subseteq 1 .. Len(f)
  BY <1>1 DEF Stores
<1>3. EndsLine(f, l) /\ l.text.is \in Storing
        <=> Adds("section") \/ Adds("brackets") \/ Adds("value")
  BY DEF Storing
<1> HIDE DEF g, new, Adds
<1>4. Stores(g) =
        Stores(f) \cup (IF Adds("section") \/ Adds("brackets") \/ Adds("value")
                          THEN {new} ELSE {})
  BY <1>1, Zenon DEF Stores
<1> QED
  BY <1>2, <1>3, <1>4 DEF g, new

(* A new line changes neither the name nor the value of one before.        *)
LEMMA NameKept ==
  ASSUME NEW f \in Seq(Line), NEW l \in Line, NEW i \in 1 .. Len(f)
  PROVE  /\ NameAt(Append(f, l), i) = NameAt(f, i)
         /\ ValueAt(Append(f, l), i) = ValueAt(f, i)
<1>1. i \in 0 .. Len(f) /\ Append(f, l)[i] = f[i]
  BY Grown, SMT
<1>2. SectionAt(Append(f, l), i) = SectionAt(f, i)
  BY <1>1, SectionKept
<1> QED
  BY <1>1, <1>2 DEF NameAt, ValueAt

LEMMA NamingIs ==
  ASSUME NEW f \in Seq(Line), NEW k \in {NameAt(f, i) : i \in Stores(f)}
  PROVE  /\ Max(Naming(f, k)) \in Naming(f, k)
         /\ \A i \in Naming(f, k) : Max(Naming(f, k)) >= i
<1>1. Len(f) \in Nat /\ Stores(f) \subseteq 1 .. Len(f)
  BY Grown DEF Stores, LinesOf, Logical
<1>2. Naming(f, k) \subseteq 0 .. Len(f) /\ Naming(f, k) # {}
  BY <1>1, SMT DEF Naming
<1> QED
  BY <1>1, <1>2, MaxOf

(* A line that ends no logical line, or one that stores nothing, adds      *)
(* nothing to the meaning of a file.                                       *)
LEMMA MeaningKept ==
  ASSUME NEW f \in Seq(Line), NEW l \in Line,
         ~ (EndsLine(f, l) /\ l.text.is \in Storing)
  PROVE  Meaning(Append(f, l)) = Meaning(f)
<1> DEFINE g == Append(f, l)
<1>1. Stores(g) = Stores(f) /\ Stores(f) \subseteq 1 .. Len(f)
  BY StoresGrow
<1>2. \A i \in Stores(f) : NameAt(g, i) = NameAt(f, i)
                           /\ ValueAt(g, i) = ValueAt(f, i)
  BY <1>1, NameKept
<1> HIDE DEF g
<1>3. {NameAt(g, i) : i \in Stores(g)} = {NameAt(f, i) : i \in Stores(f)}
  BY <1>1, <1>2
<1>4. \A k : Naming(g, k) = Naming(f, k)
  BY <1>1, <1>2 DEF Naming
<1>5. \A k \in {NameAt(f, i) : i \in Stores(f)} :
        ValueAt(g, Max(Naming(g, k))) = ValueAt(f, Max(Naming(f, k)))
  <2> TAKE k \in {NameAt(f, i) : i \in Stores(f)}
  <2>1. Max(Naming(f, k)) \in Stores(f)
    BY NamingIs DEF Naming
  <2> QED
    BY <1>2, <1>4, <2>1
<1>6. Meaning(g) = Meaning(f)
  BY <1>3, <1>5, MeaningIs
<1> QED
  BY <1>6 DEF g

(* One that stores gives its name its value, whatever the lines before it  *)
(* have said of the name.                                                  *)
LEMMA MeaningGrows ==
  ASSUME NEW f \in Seq(Line), NEW l \in Line,
         EndsLine(f, l), l.text.is \in Storing
  PROVE  Meaning(Append(f, l)) =
           [x \in DOMAIN Meaning(f) \cup {NameAt(Append(f, l), Len(f) + 1)} |->
              IF x = NameAt(Append(f, l), Len(f) + 1)
                THEN ValueAt(Append(f, l), Len(f) + 1) ELSE Meaning(f)[x]]
<1> DEFINE g == Append(f, l)
           new == Len(f) + 1
           k == NameAt(g, new)
           v == ValueAt(g, new)
<1>1. /\ Stores(g) = Stores(f) \cup {new}
      /\ Stores(f) \subseteq 1 .. Len(f)
      /\ Len(f) \in Nat /\ new \in Nat
      /\ \A i \in Stores(f) : i # new /\ ~ (i >= new)
      /\ g \in Seq(Line)
  <2>1. /\ Stores(g) = Stores(f) \cup {new} /\ Stores(f) \subseteq 1 .. Len(f)
        /\ Len(f) \in Nat /\ g \in Seq(Line)
    BY StoresGrow, Grown
  <2>2. \A i \in 1 .. Len(f) : i # new /\ ~ (i >= new)
    BY <2>1, SMT
  <2> QED
    BY <2>1, <2>2, SMT
<1>2. \A i \in Stores(f) : NameAt(g, i) = NameAt(f, i)
                           /\ ValueAt(g, i) = ValueAt(f, i)
  BY <1>1, NameKept
<1>3. NameAt(g, new) = k /\ ValueAt(g, new) = v
  OBVIOUS
<1> HIDE DEF g, new, k, v
<1>4. {NameAt(g, i) : i \in Stores(g)}
        = {NameAt(f, i) : i \in Stores(f)} \cup {k}
  BY <1>1, <1>2, <1>3
<1>5. ValueAt(g, Max(Naming(g, k))) = v
  <2>1. new \in Naming(g, k)
    BY <1>1, <1>3 DEF Naming
  <2>2. /\ Max(Naming(g, k)) \in Naming(g, k)
        /\ Max(Naming(g, k)) >= new
    BY <1>1, <1>4, <2>1, NamingIs
  <2>3. Max(Naming(g, k)) = new
    BY <1>1, <2>2 DEF Naming
  <2> QED
    BY <1>3, <2>3
<1>6. \A x \in {NameAt(f, i) : i \in Stores(f)} :
        x # k => ValueAt(g, Max(Naming(g, x))) = ValueAt(f, Max(Naming(f, x)))
  <2> SUFFICES ASSUME NEW x \in {NameAt(f, i) : i \in Stores(f)}, x # k
               PROVE  ValueAt(g, Max(Naming(g, x)))
                        = ValueAt(f, Max(Naming(f, x)))
    OBVIOUS
  <2>1. Naming(g, x) = Naming(f, x)
    BY <1>1, <1>2, <1>3 DEF Naming
  <2>2. Max(Naming(f, x)) \in Stores(f)
    BY NamingIs DEF Naming
  <2> QED
    BY <1>2, <2>1, <2>2
<1>7. DOMAIN Meaning(f) = {NameAt(f, i) : i \in Stores(f)}
  BY MeaningIs
<1>8. \A x \in DOMAIN Meaning(f) :
        Meaning(f)[x] = ValueAt(f, Max(Naming(f, x)))
  BY <1>7, MeaningIs
<1>9. Meaning(g) = [x \in DOMAIN Meaning(f) \cup {k} |->
                      IF x = k THEN v ELSE Meaning(f)[x]]
  BY <1>4, <1>5, <1>6, <1>7, <1>8, MeaningIs
<1> QED
  BY <1>9 DEF g, new, k, v

(* The names are keys of the dictionary, and the values values.            *)
LEMMA NameNext ==
  ASSUME NEW f \in Seq(Line), NEW l \in Line,
         EndsLine(f, l), l.text.is \in Storing
  PROVE  LET new == Len(f) + 1
             section_ == SectionAt(Append(f, l), new)
         IN  /\ section_ \in Sections
             /\ NameAt(Append(f, l), new) =
                  IF l.text.is = "value" THEN section_ \o l.text.entry
                                         ELSE section_
             /\ NameAt(Append(f, l), new) \in Names
             /\ ValueAt(Append(f, l), new) =
                  IF l.text.is = "value" THEN l.text.val ELSE NULL
             /\ ValueAt(Append(f, l), new) \in Vals \cup {NULL}
<1> DEFINE g == Append(f, l)
           new == Len(f) + 1
           s == SectionAt(g, new)
<1>1. new \in Nat /\ g \in Seq(Line) /\ g[new] = l
  BY Grown, SMT
<1>2. s \in Sections
  BY <1>1, SectionAtType
<1>3. s \o << >> = s
  BY <1>2, ConcatEmptySeq, ParserAssumption
<1>4. NameAt(g, new) = IF l.text.is = "value" THEN s \o l.text.entry ELSE s
  BY <1>1, <1>3 DEF NameAt
<1>5. NameAt(g, new) \in Names
  <2>1. l.text.is = "value" => l.text.entry \in Entries
    BY LineTexts
  <2> HIDE DEF s
  <2>2. \A e \in Entries : s \o e \in Names
    BY <1>2 DEF Names
  <2>3. s \in Names
    BY <1>2 DEF Names
  <2> QED
    BY <1>4, <2>1, <2>2, <2>3
<1>6. /\ ValueAt(g, new) = IF l.text.is = "value" THEN l.text.val ELSE NULL
      /\ ValueAt(g, new) \in Vals \cup {NULL}
  BY <1>1, LineTexts DEF ValueAt
<1> QED
  BY <1>2, <1>4, <1>5, <1>6

(* The logical lines of a file's beginning are lines of the file.          *)
LEMMA PrefixLines ==
  ASSUME NEW f \in Seq(Line), NEW m \in 0 .. Len(f), NEW is
  PROVE  LET g == SubSeq(f, 1, m)
         IN  /\ g \in Seq(Line) /\ Len(g) = m
             /\ \A i \in 1 .. m : g[i] = f[i]
             /\ LinesOf(g, is) \subseteq LinesOf(f, is)
             /\ LinesOf(g, is) \subseteq 1 .. m
<1> DEFINE g == SubSeq(f, 1, m)
<1>1. /\ g \in Seq(Line) /\ Len(g) = m /\ \A i \in 1 .. m : g[i] = f[i]
      /\ Len(f) \in Nat /\ DOMAIN g = 1 .. m /\ DOMAIN f = 1 .. Len(f)
  BY LenProperties, SMT
<1> HIDE DEF g
<1>2. \A i \in 1 .. m : /\ i \in 1 .. Len(f)
                        /\ i > 1 => i - 1 \in 1 .. m
  BY <1>1, SMT
<1>3. Logical(g) \subseteq Logical(f) /\ Logical(g) \subseteq 1 .. m
  BY <1>1, <1>2, Zenon DEF Logical
<1>4. LinesOf(g, is) \subseteq LinesOf(f, is) /\ LinesOf(g, is) \subseteq 1 .. m
  BY <1>1, <1>3, Zenon DEF LinesOf
<1> QED
  BY <1>1, <1>4 DEF g

(* A file of no lines means nothing.                                       *)
LEMMA EmptyFile ==
  /\ << >> \in Seq(Line) /\ SectionAt(<< >>, 0) = Global
  /\ \A is : LinesOf(<< >>, is) = {}
  /\ Meaning(<< >>) = << >>
<1> DEFINE f == << >>
<1>1. f \in Seq(Line) /\ DOMAIN f = {}
  OBVIOUS
<1>2. \A is : LinesOf(f, is) = {}
  BY <1>1 DEF LinesOf, Logical
<1>3. LastNamed(f, 0) = 0
  <2>1. LastNamed(f, 0) \in Named(f, 0) /\ Named(f, 0) = {0}
    BY <1>1, <1>2, LastNamedIs DEF Named
  <2> QED
    BY <2>1
<1>4. SectionAt(f, 0) = Global
  <2>1. NameThen(f, 0) = Global
    BY <1>3 DEF NameThen
  <2>2. ~ Cleared(f, 0)
    BY <1>2 DEF Cleared
  <2> QED
    BY <2>1, <2>2, SectionAtIs
<1>5. Stores(f) = {}
  BY <1>2, Zenon DEF Stores
<1>6. Meaning(f) = << >>
  <2> HIDE DEF f
  <2>1. {NameAt(f, i) : i \in Stores(f)} = {}
    BY <1>5
  <2>2. Meaning(f) = [k \in {} |-> ValueAt(f, Max(Naming(f, k)))]
    BY <2>1, MeaningIs
  <2> QED
    BY <2>2
<1> QED
  BY <1>1, <1>2, <1>4, <1>6

(* Without a colon in a section line no section in force has one.          *)
LEMMA ShortSections ==
  ASSUME NEW f \in Seq(Line), NEW i \in Nat,
         \A j \in LinesOf(f, "section") : Len(f[j].text.section) = 1
  PROVE  Len(SectionAt(f, i)) = 1
<1>1. NameThen(f, i) \in Sections
  BY NameThenType
<1>2. Len(NameThen(f, i)) = 1
  <2>1. CASE LastNamed(f, i) = 0
    BY <2>1 DEF NameThen, Global
  <2>2. CASE LastNamed(f, i) # 0
    <3>1. LastNamed(f, i) \in LinesOf(f, "section")
      BY <2>2, LastNamedIs DEF Named
    <3> QED
      BY <2>2, <3>1 DEF NameThen
  <2> QED
    BY <2>1, <2>2
<1>3. Len(Clipped[NameThen(f, i)]) = 1
  BY <1>1, <1>2, ParserAssumption
<1> QED
  BY <1>2, <1>3, SectionAtIs

(* A name without a value is that of a section.                            *)
LEMMA ValuelessNames ==
  ASSUME NEW f \in Seq(Line), NEW k \in DOMAIN Meaning(f), Meaning(f)[k] = NULL
  PROVE  \E i \in Nat : k = SectionAt(f, i)
<1> DEFINE i == Max(Naming(f, k))
<1>1. DOMAIN Meaning(f) = {NameAt(f, j) : j \in Stores(f)}
      /\ Meaning(f)[k] = ValueAt(f, i)
  BY MeaningIs
<1>2. i \in Naming(f, k)
  BY <1>1, NamingIs
<1>3. i \in Stores(f) /\ NameAt(f, i) = k
  BY <1>2 DEF Naming
<1>4. i \in 1 .. Len(f) /\ Len(f) \in Nat
  BY <1>3, Grown, SMT DEF Stores, LinesOf, Logical
<1>5. f[i] \in Line
  BY <1>4, ElementOfSeq
<1>6. f[i].text.is # "value"
  <2> SUFFICES ASSUME f[i].text.is = "value" PROVE FALSE
    OBVIOUS
  <2>1. f[i].text.val \in Vals /\ ValueAt(f, i) = f[i].text.val
    BY <1>5, LineTexts DEF ValueAt
  <2> QED
    BY <1>1, <2>1, ParserAssumption
<1> HIDE DEF i
<1>7. SectionAt(f, i) \in Seq(STRING)
  BY <1>4, SectionAtType, ParserAssumption
<1>8. k = SectionAt(f, i) \o << >>
  BY <1>3, <1>6 DEF NameAt
<1>9. k = SectionAt(f, i)
  BY <1>7, <1>8, ConcatEmptySeq
<1> QED
  BY <1>4, <1>9

(* The section at a line is the one in force at the start, or named by a   *)
(* line up to it that stores it.                                           *)
LEMMA SectionStored ==
  ASSUME NEW f \in Seq(Line), NEW i \in Nat, SectionAt(f, i) # Global
  PROVE  \E j \in Stores(f) : NameAt(f, j) = SectionAt(f, i)
<1> DEFINE last == LastNamed(f, i)
<1>1. /\ last \in Named(f, i) /\ last <= i /\ last \in Nat
      /\ \A j \in Named(f, i) : last >= j
  BY LastNamedIs, Grown, SMT
<1>2. \A j \in LinesOf(f, "section") \cup LinesOf(f, "brackets") :
        /\ j \in Stores(f) /\ j \in Nat
        /\ f[j].text.is # "value"
        /\ NameAt(f, j) = SectionAt(f, j)
  <2> TAKE j \in LinesOf(f, "section") \cup LinesOf(f, "brackets")
  <2>1. j \in Stores(f) /\ f[j].text.is # "value" /\ j \in DOMAIN f
    BY DEF Stores, LinesOf, Logical
  <2>2. j \in Nat
    BY <2>1, Grown, SMT
  <2>3. SectionAt(f, j) \in Seq(STRING)
    BY <2>2, SectionAtType, ParserAssumption
  <2> QED
    BY <2>1, <2>2, <2>3, ConcatEmptySeq DEF NameAt
<1>3. CASE Cleared(f, i)
  <2>1. PICK j \in LinesOf(f, "brackets") : last < j /\ j <= i
    BY <1>3 DEF Cleared
  <2>2. Named(f, j) \subseteq Named(f, i) /\ last \in Named(f, j)
    BY <1>1, <1>2, <2>1, SMT DEF Named
  <2>3. LastNamed(f, j) = last
    <3>1. /\ LastNamed(f, j) \in Named(f, j) /\ LastNamed(f, j) >= last
          /\ LastNamed(f, j) \in Nat
      BY <1>2, <2>1, <2>2, LastNamedIs, Grown, SMT
    <3>2. last >= LastNamed(f, j)
      BY <1>1, <2>2, <3>1
    <3> QED
      BY <1>1, <3>1, <3>2, SMT
  <2>4. Cleared(f, j) /\ NameThen(f, j) = NameThen(f, i)
    BY <1>2, <2>1, <2>3 DEF Cleared, NameThen
  <2> QED
    BY <1>2, <1>3, <2>1, <2>4, SectionAtIs
<1>4. CASE ~ Cleared(f, i)
  <2>1. last # 0 /\ SectionAt(f, i) = NameThen(f, i)
    BY <1>4, SectionAtIs DEF NameThen
  <2>2. last \in LinesOf(f, "section")
    BY <1>1, <2>1 DEF Named
  <2>3. LastNamed(f, last) = last
    <3>1. last \in Named(f, last)
      BY <1>1, <2>2, SMT DEF Named
    <3>2. LastNamed(f, last) >= last /\ LastNamed(f, last) <= last
          /\ LastNamed(f, last) \in Nat
      BY <1>1, <3>1, LastNamedIs, Grown, SMT
    <3> QED
      BY <1>1, <3>2, SMT
  <2>4. ~ Cleared(f, last)
    <3> SUFFICES ASSUME Cleared(f, last) PROVE FALSE
      OBVIOUS
    <3>1. PICK j \in LinesOf(f, "brackets") : last < j /\ j <= last
      BY <2>3 DEF Cleared
    <3> QED
      BY <1>1, <1>2, <3>1, SMT
  <2>5. SectionAt(f, last) = SectionAt(f, i)
    BY <2>1, <2>3, <2>4, SectionAtIs DEF NameThen
  <2> QED
    BY <1>2, <2>2, <2>5
<1> QED
  BY <1>3, <1>4

-----------------------------------------------------------------------------
(* What the functions that list and dump need: a set that holds 0 and, with*)
(* each number, the next one, holds them all.                              *)
LEMMA HoldsAll ==
  ASSUME NEW S, 0 \in S, \A n_ \in Nat : n_ \in S => n_ + 1 \in S
  PROVE  Nat \subseteq S
<1> DEFINE R == {ss \in Nat \X Nat : ss[1] < ss[2]}
           T == Nat \ S
<1> SUFFICES ASSUME T # {} PROVE FALSE
  OBVIOUS
<1>1. IsWellFoundedOn(R, Nat)
  BY NatLessThanWellFounded, Zenon DEF OpToRel
<1>2. PICK d \in T : \A e \in T : ~ (<<e, d>> \in R)
  <2>1. T \subseteq Nat
    OBVIOUS
  <2> HIDE DEF R, T
  <2> QED
    BY <1>1, <2>1, WFMin
<1>3. d \in Nat /\ d # 0 /\ d - 1 \in Nat /\ (d - 1) + 1 = d /\ d - 1 < d
  BY SMT
<1>4. <<d - 1, d>> \in R
  BY <1>3
<1>5. d - 1 \in S
  BY <1>2, <1>3, <1>4, Zenon
<1> QED
  BY <1>3, <1>5

(* A loop over slots meets each of those it looks for once.                *)
LEMMA InOrderLists ==
  ASSUME NEW m \in Nat, NEW S \in SUBSET (0 .. m)
  PROVE  /\ Cardinality(S) \in Nat
         /\ InOrder(S) \in [1 .. Cardinality(S) -> S]
         /\ \A i \in S : \E j \in 1 .. Cardinality(S) : InOrder(S)[j] = i
<1> DEFINE c == Cardinality(S)
           Upto(i) == {k \in S : k <= i}
           rank == [i \in S |-> Cardinality(Upto(i))]
<1>1. IsFiniteSet(S) /\ c \in Nat
  <2>1. IsFiniteSet(0 .. m)
    BY FS_Interval
  <2> QED
    BY <2>1, FS_Subset, FS_CardinalityType
<1>2. \A i \in S : /\ Upto(i) \subseteq S /\ IsFiniteSet(Upto(i))
                   /\ Cardinality(Upto(i)) \in Nat /\ Cardinality(Upto(i)) <= c
  BY <1>1, FS_Subset, FS_CardinalityType
<1>3. rank \in [S -> 1 .. c]
  <2> SUFFICES ASSUME NEW i \in S PROVE Cardinality(Upto(i)) \in 1 .. c
    OBVIOUS
  <2>1. i \in Upto(i)
    BY SMT
  <2>2. Cardinality(Upto(i)) # 0
    BY <1>2, <2>1, FS_EmptySet
  <2> HIDE DEF Upto, c
  <2> QED
    BY <1>1, <1>2, <2>2, SMT
<1>4. \A i, j \in S : rank[i] = rank[j] => i = j
  <2>1. ASSUME NEW i \in S, NEW j \in S, i < j PROVE rank[i] # rank[j]
    <3>1. /\ j <= j /\ ~ (j <= i)
          /\ \A k \in S : k <= i => k <= j
      BY <2>1, SMT
    <3>2. Upto(i) \subseteq Upto(j) /\ j \in Upto(j) /\ j \notin Upto(i)
      BY <3>1, Zenon
    <3>3. Cardinality(Upto(i)) # Cardinality(Upto(j))
      <4> HIDE DEF Upto
      <4> QED
        BY <1>2, <3>2, FS_Subset
    <3> QED
      BY <3>3
  <2> TAKE i, j \in S
  <2>2. i < j \/ j < i \/ i = j
    BY SMT
  <2> QED
    BY <2>1, <2>2
<1>5. rank \in Surjection(S, 1 .. c)
  <2>1. IsFiniteSet(1 .. c) /\ Cardinality(1 .. c) = c
    BY <1>1, FS_Interval, SMT
  <2>2. rank \in Injection(S, 1 .. c)
    BY <1>3, <1>4, Zenon DEF Injection, IsInjective
  <2> HIDE DEF rank
  <2> QED
    BY <2>1, <2>2, FS_Injection
<1>6. \A j \in 1 .. c : \E i \in S : Cardinality(Upto(i)) = j
  BY <1>5, Zenon DEF Surjection
<1>7. \A j \in 1 .. c : /\ InOrder(S)[j] \in S
                        /\ Cardinality(Upto(InOrder(S)[j])) = j
  <2> TAKE j \in 1 .. c
  <2>1. InOrder(S)[j] = CHOOSE i \in S : Cardinality(Upto(i)) = j
    BY DEF InOrder
  <2> HIDE DEF Upto
  <2> QED
    BY <1>6, <2>1
<1>8. InOrder(S) \in [1 .. c -> S]
  BY <1>7 DEF InOrder
<1>9. \A i \in S : rank[i] \in 1 .. c /\ InOrder(S)[rank[i]] = i
  <2> TAKE i \in S
  <2>1. rank[i] \in 1 .. c
    BY <1>3
  <2>2. rank[InOrder(S)[rank[i]]] = rank[i]
    BY <1>7, <2>1
  <2> HIDE DEF rank
  <2> QED
    BY <1>4, <1>7, <2>1, <2>2
<1> QED
  BY <1>1, <1>8, <1>9

(* Flattening puts one sequence after the other.                           *)
LEMMA FlattenIs ==
  ASSUME NEW X, NEW B \in Seq(X), Len(B) > 0
  PROVE  \E F : /\ F = [i \in 1 .. Len(B) |-> IF i = 1 THEN B[i]
                                              ELSE F[i - 1] \o B[i]]
                /\ FlattenSeq(B) = F[Len(B)]
<1> DEFINE m == Len(B)
           Is(F, k) == F = [i \in 1 .. k |-> IF i = 1 THEN B[i]
                                             ELSE F[i - 1] \o B[i]]
           S == {k \in Nat : \E F : Is(F, k)}
<1>1. m \in Nat /\ m # 0
  BY LenProperties, SMT
<1>2. 0 \in S
  <2>1. Is(<< >>, 0)
    OBVIOUS
  <2> QED
    BY <2>1
<1>3. \A k \in Nat : k \in S => k + 1 \in S
  <2> SUFFICES ASSUME NEW k \in Nat, k \in S PROVE k + 1 \in S
    OBVIOUS
  <2> PICK F : Is(F, k)
    OBVIOUS
  <2> DEFINE G == [i \in 1 .. k + 1 |->
                     IF i = k + 1 THEN (IF i = 1 THEN B[i] ELSE F[k] \o B[i])
                                  ELSE F[i]]
  <2>1. \A i \in 1 .. k : F[i] = IF i = 1 THEN B[i] ELSE F[i - 1] \o B[i]
    OBVIOUS
  <2>2. \A i \in 1 .. k + 1 :
          /\ i # k + 1 => i \in 1 .. k
          /\ i # 1 => i - 1 \in 1 .. k + 1 /\ i - 1 # k + 1
          /\ i = k + 1 => i - 1 = k
    BY SMT
  <2>3. \A i \in 1 .. k + 1 :
          G[i] = IF i = 1 THEN B[i] ELSE G[i - 1] \o B[i]
    <3> TAKE i \in 1 .. k + 1
    <3>1. i # 1 => G[i - 1] = F[i - 1]
      BY <2>2
    <3>2. CASE i = k + 1
      BY <2>2, <3>1, <3>2
    <3>3. CASE i # k + 1
      <4>1. G[i] = F[i] /\ i \in 1 .. k
        BY <2>2, <3>3
      <4> HIDE DEF G
      <4> QED
        BY <2>1, <3>1, <4>1, Zenon
    <3> QED
      BY <3>2, <3>3
  <2>4. G = [i \in 1 .. k + 1 |-> G[i]]
    OBVIOUS
  <2> HIDE DEF G
  <2>5. Is(G, k + 1)
    BY <2>3, <2>4
  <2> HIDE DEF Is
  <2> QED
    BY <2>5, SMT
<1> HIDE DEF S
<1>4. m \in S
  BY <1>1, <1>2, <1>3, HoldsAll
<1> USE DEF S
<1>5. Is((CHOOSE F : Is(F, m)), m)
  BY <1>4
<1>6. FlattenSeq(B) = (CHOOSE F : Is(F, m))[m]
  BY <1>1, Zenon DEF FlattenSeq
<1> DEFINE F0 == CHOOSE F : Is(F, m)
<1>7. Is(F0, m) /\ FlattenSeq(B) = F0[m]
  BY <1>5, <1>6
<1> HIDE DEF F0
<1> QED
  BY <1>7

(* One more line of a sequence that is put after another.                  *)
LEMMA AppendMore ==
  ASSUME NEW X, NEW g \in Seq(X), NEW b \in Seq(X), NEW q \in 0 .. Len(b) - 1
  PROVE  /\ g \o SubSeq(b, 1, q) \in Seq(X)
         /\ b[q + 1] \in X
         /\ g \o SubSeq(b, 1, q + 1) = Append(g \o SubSeq(b, 1, q), b[q + 1])
<1> DEFINE h == SubSeq(b, 1, q)
           h1 == SubSeq(b, 1, q + 1)
<1>1. /\ Len(b) \in Nat /\ q \in Nat /\ q + 1 \in 1 .. Len(b)
      /\ q <= Len(b) /\ q + 1 <= Len(b)
  BY LenProperties, SMT
<1>2. /\ h \in Seq(X) /\ Len(h) = q /\ b[q + 1] \in X
      /\ h1 \in Seq(X) /\ Len(h1) = q + 1
      /\ \A i \in 1 .. q : h[i] = b[i]
      /\ \A i \in 1 .. q + 1 : h1[i] = b[i]
  BY <1>1, SMT
<1>3. h1 = Append(h, b[q + 1])
  <2> HIDE DEF h, h1
  <2>1. /\ Append(h, b[q + 1]) \in Seq(X) /\ Len(Append(h, b[q + 1])) = q + 1
        /\ \A i \in 1 .. q : Append(h, b[q + 1])[i] = h[i]
        /\ Append(h, b[q + 1])[q + 1] = b[q + 1]
    BY <1>2, SMT
  <2>2. \A i \in 1 .. q + 1 : i \in 1 .. q \/ i = q + 1
    BY <1>1, SMT
  <2>3. \A i \in 1 .. q + 1 : h1[i] = Append(h, b[q + 1])[i]
    BY <1>2, <2>1, <2>2
  <2> QED
    BY <1>2, <2>1, <2>3, SeqEqual
<1>4. g \o Append(h, b[q + 1]) = Append(g \o h, b[q + 1])
  <2> HIDE DEF h
  <2> QED
    BY <1>2, SMT
<1> QED
  BY <1>2, <1>3, <1>4, ConcatProperties

-----------------------------------------------------------------------------
(* What the dump of a dictionary means, when each of its keys is the short *)
(* name of a section, without a value, or such a name before an entry that *)
(* comes back from its line, and the section of every entry is a key too.  *)
DumpReady ==
  /\ size \in Nat \ {0}
  /\ \A i \in Used :
        /\ key[i] \in Seq(STRING) /\ Len(key[i]) > 0
        /\ \E t \in Used : key[t] = <<key[i][1]>>
        /\ Len(key[i]) = 1 => key[i] \in Sections \ {Global} /\ val[i] = NULL
        /\ Len(key[i]) > 1 => /\ SubSeq(key[i], 2, Len(key[i])) \in Entries
                              /\ val[i] \in Vals
  /\ \A i, j \in Used : key[i] = key[j] => i = j
  /\ \A i \in Used : ComesBack(i)

TitleLine(s) == Whole([is |-> "section", section |-> s])

EntryLine(s, i) ==
  Whole([is |-> "value", entry |-> EntryAt(s, i).entry, val |-> val[i]])

(* The file g means what the slots C hold.                                 *)
Covers(g, C) ==
  /\ g \in Seq(Line)
  /\ DOMAIN Meaning(g) = {key[i] : i \in C}
  /\ \A i \in C : Meaning(g)[key[i]] = val[i]

LEMMA CoversMore ==
  ASSUME NEW C \in SUBSET Used, NEW g, Covers(g, C), NEW i \in Used,
         \A j \in Used : key[j] = key[i] => j = i,
         NEW l \in Line, l.form = "whole", l.text.is \in Storing,
         NameAt(Append(g, l), Len(g) + 1) = key[i],
         ValueAt(Append(g, l), Len(g) + 1) = val[i]
  PROVE  Covers(Append(g, l), C \cup {i})
<1> DEFINE h == Append(g, l)
<1>1. g \in Seq(Line) /\ h \in Seq(Line) /\ EndsLine(g, l)
  BY Grown DEF Covers, EndsLine
<1>2. Meaning(h) = [x \in DOMAIN Meaning(g) \cup {key[i]} |->
                      IF x = key[i] THEN val[i] ELSE Meaning(g)[x]]
  <2>1. Meaning(h) =
          [x \in DOMAIN Meaning(g) \cup {NameAt(h, Len(g) + 1)} |->
             IF x = NameAt(h, Len(g) + 1)
               THEN ValueAt(h, Len(g) + 1) ELSE Meaning(g)[x]]
    BY <1>1, MeaningGrows
  <2>2. NameAt(h, Len(g) + 1) = key[i] /\ ValueAt(h, Len(g) + 1) = val[i]
    OBVIOUS
  <2> HIDE DEF h
  <2> QED
    BY <2>1, <2>2
<1> HIDE DEF h
<1>3. DOMAIN Meaning(h) = {key[j] : j \in C \cup {i}}
  BY <1>2 DEF Covers
<1>4. \A j \in C \cup {i} : Meaning(h)[key[j]] = val[j]
  <2> TAKE j \in C \cup {i}
  <2>1. CASE key[j] = key[i]
    BY <1>2, <2>1
  <2>2. CASE key[j] # key[i]
    <3>1. j \in C /\ key[j] \in DOMAIN Meaning(g)
      BY <2>2 DEF Covers
    <3> QED
      BY <1>2, <2>2, <3>1 DEF Covers
  <2> QED
    BY <2>1, <2>2
<1>5. Covers(h, C \cup {i})
  BY <1>1, <1>3, <1>4 DEF Covers
<1> QED
  BY <1>5 DEF h

LEMMA TitleCovers ==
  ASSUME DumpReady, NEW C \in SUBSET Used, NEW g, Covers(g, C),
         NEW t \in Used, Len(key[t]) = 1
  PROVE  /\ TitleLine(key[t]) \in Line
         /\ Covers(Append(g, TitleLine(key[t])), C \cup {t})
         /\ SectionAt(Append(g, TitleLine(key[t])), Len(g) + 1) = key[t]
         /\ TitleLine(key[t]).form = "whole"
<1> DEFINE l == TitleLine(key[t])
<1>1. key[t] \in Sections /\ val[t] = NULL
  BY DEF DumpReady
<1>2. /\ l \in Line /\ l.form = "whole"
      /\ l.text.is = "section" /\ l.text.section = key[t]
  BY <1>1 DEF TitleLine, Whole, Line, Text
<1> HIDE DEF l
<1>3. g \in Seq(Line) /\ EndsLine(g, l) /\ l.text.is \in Storing
  BY <1>2 DEF Covers, EndsLine, Storing
<1>4. SectionAt(Append(g, l), Len(g) + 1) = key[t]
  BY <1>2, <1>3, SectionNext
<1>5. /\ NameAt(Append(g, l), Len(g) + 1) = key[t]
      /\ ValueAt(Append(g, l), Len(g) + 1) = val[t]
  BY <1>1, <1>2, <1>3, <1>4, NameNext
<1>6. Covers(Append(g, l), C \cup {t})
  BY <1>2, <1>3, <1>5, CoversMore DEF DumpReady
<1> QED
  BY <1>2, <1>4, <1>6 DEF l

(* A name is that of its section and then that of its entry.               *)
LEMMA NameSplits ==
  ASSUME NEW s \in Seq(STRING), Len(s) = 1, NEW k \in Seq(STRING), Len(k) > 0
  PROVE  /\ s = <<s[1]>>
         /\ Within(s, k) <=> Len(k) > 1 /\ <<k[1]>> = s
         /\ Within(s, k) => k = s \o SubSeq(k, 2, Len(k))
<1>1. Len(k) \in Nat /\ Len(k) >= 1
  BY LenProperties, SMT
<1>2. \A x \in Seq(STRING) :
        Len(x) > 0 => /\ SubSeq(x, 1, 1) = <<x[1]>>
                      /\ x = <<x[1]>> \o SubSeq(x, 2, Len(x))
  <2> SUFFICES ASSUME NEW x \in Seq(STRING), Len(x) > 0
               PROVE  /\ SubSeq(x, 1, 1) = <<x[1]>>
                      /\ x = <<x[1]>> \o SubSeq(x, 2, Len(x))
    BY Zenon
  <2>1. /\ 1 \in 1 .. Len(x) /\ 1 \in 1 .. 1 /\ Len(x) \in 1 .. Len(x)
        /\ x[1] \in STRING
    BY ElementOfSeq, LenProperties, SMT
  <2>2. SubSeq(x, 2, 1) = << >>
    BY SubSeqEmpty, SMT
  <2>3. SubSeq(x, 1, 1) = <<x[1]>> \o SubSeq(x, 2, 1)
    BY <2>1, SubSeqRecursiveFirst
  <2>4. <<x[1]>> \in Seq(STRING)
    BY <2>1
  <2>5. SubSeq(x, 1, 1) = <<x[1]>>
    BY <2>2, <2>3, <2>4, ConcatEmptySeq
  <2> QED
    BY <2>1, <2>5, SubSeqRecursiveFirst, SubSeqFull
<1>3. SubSeq(s, 1, 1) = s /\ Len(s) > 0
  <2>1. SubSeq(s, 1, Len(s)) = s
    BY SubSeqFull
  <2> QED
    BY <2>1
<1>4. s = <<s[1]>> /\ SubSeq(k, 1, 1) = <<k[1]>>
  BY <1>2, <1>3, Zenon
<1>5. IsPrefix(s, k) <=> <<k[1]>> = s
  BY <1>1, <1>3, <1>4 DEF IsPrefix
<1> QED
  BY <1>2, <1>4, <1>5 DEF Within

LEMMA EntryCovers ==
  ASSUME DumpReady, NEW C \in SUBSET Used, NEW g, Covers(g, C),
         NEW s \in Sections, Len(s) = 1, SectionAt(g, Len(g)) = s,
         NEW i \in Used, Within(s, key[i])
  PROVE  /\ EntryLine(s, i) \in Line
         /\ Covers(Append(g, EntryLine(s, i)), C \cup {i})
         /\ SectionAt(Append(g, EntryLine(s, i)), Len(g) + 1) = s
         /\ EntryLine(s, i).form = "whole"
<1> DEFINE l == EntryLine(s, i)
           e == SubSeq(key[i], 2, Len(key[i]))
<1>1. s \in Seq(STRING)
  BY ParserAssumption
<1>2. key[i] = s \o e /\ Len(key[i]) > 1
  BY <1>1, NameSplits DEF DumpReady
<1>3. e \in Entries /\ val[i] \in Vals
  BY <1>2 DEF DumpReady
<1>4. /\ l \in Line /\ l.form = "whole" /\ l.text.is = "value"
      /\ l.text.entry = e /\ l.text.val = val[i]
  <2>1. SubSeq(key[i], Len(s) + 1, Len(key[i])) = e
    OBVIOUS
  <2> HIDE DEF e
  <2> QED
    BY <1>3, <2>1 DEF EntryLine, EntryAt, Entry, Whole, Line, Text
<1> HIDE DEF l, e
<1>5. g \in Seq(Line) /\ EndsLine(g, l) /\ l.text.is \in Storing
  BY <1>4 DEF Covers, EndsLine, Storing
<1>6. SectionAt(Append(g, l), Len(g) + 1) = s
  BY <1>4, <1>5, SectionNext
<1>7. /\ NameAt(Append(g, l), Len(g) + 1) = key[i]
      /\ ValueAt(Append(g, l), Len(g) + 1) = val[i]
  BY <1>2, <1>4, <1>5, <1>6, NameNext
<1>8. Covers(Append(g, l), C \cup {i})
  BY <1>4, <1>5, <1>7, CoversMore DEF DumpReady
<1> QED
  BY <1>4, <1>6, <1>8 DEF l

(* The slots of the entries of a section, each met once.                   *)
Entered(s) == {i \in Used : Within(s, key[i])}

LEMMA SlotsListed ==
  ASSUME DumpReady, NEW S \in SUBSET Used
  PROVE  /\ Cardinality(S) \in Nat
         /\ InOrder(S) \in [1 .. Cardinality(S) -> S]
         /\ \A i \in S : \E j \in 1 .. Cardinality(S) : InOrder(S)[j] = i
<1>1. size - 1 \in Nat /\ S \subseteq 0 .. size - 1
  BY SMT DEF DumpReady, Used
<1> QED
  BY <1>1, InOrderLists

(* A line read after whole ones is not joined with any.                    *)
LEMMA ReadAlone ==
  ASSUME NEW m \in Nat, NEW P, DOMAIN P = 1 .. m,
         \A i \in 1 .. m - 1 : ReadAs(<< >>, P[i]).form # "continued"
  PROVE  ReadBack(P) = [j \in 1 .. m |-> ReadAs(<< >>, P[j])]
<1> DEFINE alone(j) == {i \in 1 .. j - 1 : ReadAs(<< >>, P[i]).form # "continued"}
           last(j) == Max({0} \cup alone(j))
<1>1. \A j \in 1 .. m : ReadAs(SubSeq(P, last(j) + 1, j - 1), P[j])
                           = ReadAs(<< >>, P[j])
  <2> TAKE j \in 1 .. m
  <2>1. j - 1 \in Nat /\ \A i \in 1 .. j - 1 : i \in 1 .. m - 1
    BY SMT
  <2>2. alone(j) = 1 .. j - 1
    BY <2>1
  <2> HIDE DEF alone
  <2>3. {0} \cup alone(j) = 0 .. j - 1
    BY <2>1, <2>2, SMT
  <2>4. last(j) \in 0 .. j - 1 /\ \A y \in 0 .. j - 1 : last(j) >= y
    <3>1. 0 \in 0 .. j - 1
      BY <2>1, SMT
    <3>2. /\ Max(0 .. j - 1) \in 0 .. j - 1
          /\ \A y \in 0 .. j - 1 : Max(0 .. j - 1) >= y
      BY <2>1, <3>1, MaxOf, Zenon
    <3> QED
      BY <2>3, <3>2, Zenon
  <2>5. last(j) = j - 1
    <3> HIDE DEF last
    <3> QED
      BY <2>1, <2>4, SMT
  <2>6. SubSeq(P, j, j - 1) = << >>
    BY SubSeqEmpty, SMT
  <2>7. last(j) + 1 = j
    <3> HIDE DEF last
    <3> QED
      BY <2>5, SMT
  <2> HIDE DEF last
  <2> QED
    BY <2>6, <2>7
<1>2. ReadBack(P) =
        [j \in 1 .. m |-> ReadAs(SubSeq(P, last(j) + 1, j - 1), P[j])]
  BY DEF ReadBack
<1> HIDE DEF last
<1> QED
  BY <1>1, <1>2

(* What is printed of a section: its title, an entry for each slot, and a  *)
(* blank line.                                                             *)
LEMMA PrintedLines ==
  ASSUME DumpReady, NEW t \in Used, Len(key[t]) = 1
  PROVE  LET s == key[t]
             slots == SectionSlots(s)
             c == Cardinality(Entered(s))
         IN  /\ DOMAIN Printed(s) = 1 .. c + 2
             /\ Printed(s)[1] = Title(s)
             /\ \A j \in 1 .. c : Printed(s)[j + 1] = EntryAt(s, slots[j])
             /\ Printed(s)[c + 2] = Blank
<1> DEFINE s == key[t]
           slots == SectionSlots(s)
           c == Cardinality(Entered(s))
           es == [j \in 1 .. c |-> EntryAt(s, slots[j])]
           X == {Title(s), Blank} \cup {es[j] : j \in 1 .. c}
<1>1. /\ c \in Nat /\ slots \in [1 .. c -> Entered(s)]
  BY SlotsListed DEF SectionSlots, Entered
<1>2. Printed(s) = <<Title(s)>> \o es \o <<Blank>>
  BY <1>1 DEF Printed
<1>3. /\ es \in Seq(X) /\ Len(es) = c
      /\ \A j \in 1 .. c : es[j] = EntryAt(s, slots[j])
  BY <1>1
<1>4. Title(s) \in X /\ Blank \in X
  OBVIOUS
<1> HIDE DEF s, slots, c, es, X
<1>5. /\ DOMAIN (<<Title(s)>> \o es \o <<Blank>>) = 1 .. c + 2
      /\ (<<Title(s)>> \o es \o <<Blank>>)[1] = Title(s)
      /\ \A j \in 1 .. c : (<<Title(s)>> \o es \o <<Blank>>)[j + 1] = es[j]
      /\ (<<Title(s)>> \o es \o <<Blank>>)[c + 2] = Blank
  BY <1>1, <1>3, <1>4, SMT
<1> QED
  BY <1>2, <1>3, <1>5 DEF s, slots, c

(* They are read back as its title, its entries and a short line.          *)
LEMMA SectionLines ==
  ASSUME DumpReady, NEW t \in Used, Len(key[t]) = 1
  PROVE  LET s == key[t]
             b == DumpSection(s)
             slots == SectionSlots(s)
             c == Cardinality(Entered(s))
         IN  /\ b \in Seq(Line) /\ Len(b) = c + 2
             /\ b[1] = TitleLine(s)
             /\ \A j \in 1 .. c : b[j + 1] = EntryLine(s, slots[j])
             /\ b[c + 2].form = "short"
<1> DEFINE s == key[t]
           slots == SectionSlots(s)
           c == Cardinality(Entered(s))
           P == Printed(s)
           R == [j \in 1 .. c + 2 |-> ReadAs(<< >>, P[j])]
<1>1. /\ c \in Nat /\ slots \in [1 .. c -> Entered(s)]
  BY SlotsListed DEF SectionSlots, Entered
<1>2. s \in Sections \ {Global} /\ s \in Seq(STRING) /\ Len(s) = 1
  BY DEF DumpReady
<1>3. TitleLine(s) \in Line
  BY <1>2 DEF TitleLine, Whole, Line, Text
<1>4. ASSUME NEW j \in 1 .. c
      PROVE  /\ EntryLine(s, slots[j]) \in Line
             /\ ReadAs(<< >>, EntryAt(s, slots[j])) = EntryLine(s, slots[j])
  <2> DEFINE i == slots[j]
             e == SubSeq(key[i], 2, Len(key[i]))
  <2>1. i \in Used /\ Within(s, key[i])
    BY <1>1 DEF Entered
  <2> HIDE DEF s, slots, i
  <2>2. Len(key[i]) > 1
    BY <1>2, <2>1, NameSplits DEF DumpReady
  <2>3. e \in Entries /\ val[i] \in Vals
    BY <2>1, <2>2 DEF DumpReady
  <2>4. SubSeq(key[i], Len(s) + 1, Len(key[i])) = e
    BY <1>2
  <2> HIDE DEF e
  <2>5. EntryLine(s, i) \in Line
    BY <2>3, <2>4 DEF EntryLine, EntryAt, Entry, Whole, Line, Text
  <2>6. ReadAs(<< >>, EntryAt(s, i)) = EntryLine(s, i)
    BY <1>2, <2>1, Zenon DEF DumpReady, ComesBack, EntryLine
  <2> QED
    BY <2>5, <2>6 DEF i
<1>5. /\ DOMAIN P = 1 .. c + 2
      /\ P[1] = Title(s) /\ P[c + 2] = Blank
      /\ \A j \in 1 .. c : P[j + 1] = EntryAt(s, slots[j])
  BY PrintedLines
<1> HIDE DEF s, slots, c, P
<1>6. /\ ReadAs(<< >>, P[1]) = TitleLine(s)
      /\ ReadAs(<< >>, P[c + 2]) \in Line
      /\ ReadAs(<< >>, P[c + 2]).form = "short"
  <2>1. ReadAs(<< >>, Title(s)) = TitleReadAs(s)
    BY <1>2, ParserAssumption
  <2>2. TitleReadAs(s) = TitleLine(s)
    BY <1>2 DEF TitleReadAs, TitleLine
  <2>3. ReadAs(<< >>, Blank) \in Line /\ ReadAs(<< >>, Blank).form = "short"
    BY ParserAssumption
  <2> QED
    BY <1>5, <2>1, <2>2, <2>3
<1>7. \A j \in 1 .. c : ReadAs(<< >>, P[j + 1]) = EntryLine(s, slots[j])
  BY <1>4, <1>5
<1>8. \A j \in 1 .. c + 2 : j = 1 \/ j = c + 2 \/ (j - 1 \in 1 .. c /\ j - 1 + 1 = j)
  BY <1>1, SMT
<1>9. \A j \in 1 .. c + 2 : ReadAs(<< >>, P[j]) \in Line
  BY <1>3, <1>4, <1>6, <1>7, <1>8
<1>10. \A x : TitleLine(s).form = "whole" /\ EntryLine(s, x).form = "whole"
  BY DEF TitleLine, EntryLine, Whole
<1>11. \A j \in 1 .. (c + 2) - 1 : ReadAs(<< >>, P[j]).form # "continued"
  <2>1. \A j \in 1 .. (c + 2) - 1 : j \in 1 .. c + 2 /\ j # c + 2
    BY <1>1, SMT
  <2> QED
    BY <1>6, <1>7, <1>8, <1>10, <2>1
<1>12. DumpSection(s) = R
  <2>1. c + 2 \in Nat
    BY <1>1, SMT
  <2> QED
    BY <1>5, <1>11, <2>1, ReadAlone DEF DumpSection, P
<1>13. /\ R \in Seq(Line) /\ Len(R) = c + 2 /\ R[1] = TitleLine(s)
       /\ \A j \in 1 .. c : R[j + 1] = EntryLine(s, slots[j])
       /\ R[c + 2].form = "short"
  <2>1. c + 2 \in Nat /\ 1 \in 1 .. c + 2 /\ c + 2 \in 1 .. c + 2
        /\ \A j \in 1 .. c : j + 1 \in 1 .. c + 2
    BY <1>1, SMT
  <2>2. R \in [1 .. c + 2 -> Line]
    BY <1>9
  <2>3. R \in Seq(Line) /\ Len(R) = c + 2
    <3> HIDE DEF R
    <3> QED
      BY <2>1, <2>2, SMT
  <2> QED
    BY <1>6, <1>7, <2>1, <2>3
<1> QED
  BY <1>12, <1>13 DEF s, slots, c

(* A short line after a whole one adds nothing.                            *)
LEMMA ShortCovers ==
  ASSUME NEW C, NEW g, Covers(g, C), g[Len(g)].form = "whole",
         NEW l \in Line, l.form = "short"
  PROVE  Covers(Append(g, l), C)
<1>1. g \in Seq(Line) /\ ~ EndsLine(g, l)
  BY DEF Covers, EndsLine
<1>2. Append(g, l) \in Seq(Line) /\ Meaning(Append(g, l)) = Meaning(g)
  BY <1>1, Grown, MeaningKept
<1> QED
  BY <1>2 DEF Covers

(* Read after g, they add what the slots of the section hold.              *)
LEMMA SectionCovers ==
  ASSUME DumpReady, NEW C \in SUBSET Used, NEW g, Covers(g, C),
         NEW t \in Used, Len(key[t]) = 1
  PROVE  Covers(g \o DumpSection(key[t]),
                C \cup {i \in Used : <<key[i][1]>> = key[t]})
<1> DEFINE s == key[t]
           b == DumpSection(s)
           slots == SectionSlots(s)
           c == Cardinality(Entered(s))
           Upto(q) == g \o SubSeq(b, 1, q + 1)
           Slots(q) == (C \cup {t}) \cup {slots[j] : j \in 1 .. q}
           P(q) == q <= c => /\ Covers(Upto(q), Slots(q))
                             /\ SectionAt(Upto(q), Len(Upto(q))) = s
                             /\ Upto(q)[Len(Upto(q))].form = "whole"
           S == {q \in Nat : P(q)}
<1>1. /\ c \in Nat /\ slots \in [1 .. c -> Entered(s)]
      /\ \A i \in Entered(s) : \E j \in 1 .. c : slots[j] = i
  BY SlotsListed DEF SectionSlots, Entered
<1>2. /\ b \in Seq(Line) /\ Len(b) = c + 2 /\ b[1] = TitleLine(s)
      /\ \A j \in 1 .. c : b[j + 1] = EntryLine(s, slots[j])
      /\ b[c + 2].form = "short"
  BY SectionLines
<1>3. s \in Sections /\ s \in Seq(STRING) /\ Len(s) = 1 /\ s = key[t]
  BY DEF DumpReady
<1>4. g \in Seq(Line)
  BY DEF Covers
<1> HIDE DEF s, b, slots, c
<1>5. 0 \in S
  <2>1. 0 \in 0 .. Len(b) - 1
    BY <1>1, <1>2, SMT
  <2>2. SubSeq(b, 1, 0) = << >>
    BY SubSeqEmpty, SMT
  <2>3. g \o SubSeq(b, 1, 0) = g
    BY <1>4, <2>2, ConcatEmptySeq
  <2>4. Upto(0) = Append(g, TitleLine(s))
    <3>1. g \o SubSeq(b, 1, 0 + 1) = Append(g \o SubSeq(b, 1, 0), b[0 + 1])
      BY <1>2, <1>4, <2>1, AppendMore
    <3> QED
      BY <1>2, <2>3, <3>1
  <2>5. Slots(0) = C \cup {t}
    OBVIOUS
  <2>6. /\ TitleLine(s) \in Line /\ Covers(Append(g, TitleLine(s)), C \cup {t})
        /\ SectionAt(Append(g, TitleLine(s)), Len(g) + 1) = s
        /\ TitleLine(s).form = "whole"
    BY <1>3, TitleCovers
  <2>7. /\ Len(Append(g, TitleLine(s))) = Len(g) + 1
        /\ Append(g, TitleLine(s))[Len(g) + 1] = TitleLine(s)
    BY <1>4, <2>6, Grown
  <2> HIDE DEF Upto, Slots
  <2> QED
    BY <2>4, <2>5, <2>6, <2>7
<1>6. \A q \in Nat : q \in S => q + 1 \in S
  <2> SUFFICES ASSUME NEW q \in Nat, P(q) PROVE P(q + 1)
    <3>1. \A q \in Nat : q + 1 \in Nat
      BY SMT
    <3> HIDE DEF P
    <3> QED
      BY <3>1, Zenon
  <2> SUFFICES ASSUME q + 1 <= c
               PROVE  /\ Covers(Upto(q + 1), Slots(q + 1))
                      /\ SectionAt(Upto(q + 1), Len(Upto(q + 1))) = s
                      /\ Upto(q + 1)[Len(Upto(q + 1))].form = "whole"
    BY Zenon
  <2> DEFINE h == Upto(q)
             i == slots[q + 1]
  <2>1. q <= c /\ q + 1 \in 1 .. c /\ q + 1 \in 0 .. Len(b) - 1 /\ q + 1 \in Nat
    BY <1>1, <1>2, SMT
  <2>2. Covers(h, Slots(q)) /\ SectionAt(h, Len(h)) = s
    BY <2>1
  <2>3. i \in Used /\ Within(s, key[i])
    BY <1>1, <2>1 DEF Entered
  <2>4. Slots(q) \in SUBSET Used
    <3>1. \A j \in 1 .. q : j \in 1 .. c
      BY <1>1, <2>1, SMT
    <3> QED
      BY <1>1, <3>1 DEF Entered
  <2>5. Slots(q + 1) = Slots(q) \cup {i}
    <3>1. \A j : j \in 1 .. q + 1 <=> j \in 1 .. q \/ j = q + 1
      BY SMT
    <3> QED
      BY <3>1, Zenon
  <2>6. Upto(q + 1) = Append(h, EntryLine(s, i))
    <3>1. g \o SubSeq(b, 1, (q + 1) + 1)
            = Append(g \o SubSeq(b, 1, q + 1), b[(q + 1) + 1])
      BY <1>2, <1>4, <2>1, AppendMore
    <3> QED
      BY <1>2, <2>1, <3>1
  <2> HIDE DEF Upto, Slots, h, i
  <2>7. /\ EntryLine(s, i) \in Line
        /\ Covers(Append(h, EntryLine(s, i)), Slots(q) \cup {i})
        /\ SectionAt(Append(h, EntryLine(s, i)), Len(h) + 1) = s
        /\ EntryLine(s, i).form = "whole"
    <3> DEFINE K == Slots(q)
    <3>1. /\ s \in Sections /\ Len(s) = 1 /\ SectionAt(h, Len(h)) = s
          /\ K \in SUBSET Used /\ Covers(h, K)
          /\ i \in Used /\ Within(s, key[i])
      BY <1>3, <2>2, <2>3, <2>4
    <3> HIDE DEF K
    <3>2. \A x \in Sections :
            Len(x) = 1 /\ SectionAt(h, Len(h)) = x =>
              \A k \in Used :
                Within(x, key[k]) =>
                  /\ EntryLine(x, k) \in Line
                  /\ Covers(Append(h, EntryLine(x, k)), K \cup {k})
                  /\ SectionAt(Append(h, EntryLine(x, k)), Len(h) + 1) = x
                  /\ EntryLine(x, k).form = "whole"
      BY <3>1, EntryCovers, Zenon
    <3>3. \A k \in Used :
            Within(s, key[k]) =>
              /\ EntryLine(s, k) \in Line
              /\ Covers(Append(h, EntryLine(s, k)), K \cup {k})
              /\ SectionAt(Append(h, EntryLine(s, k)), Len(h) + 1) = s
              /\ EntryLine(s, k).form = "whole"
      BY <3>1, <3>2, Zenon
    <3>4. /\ EntryLine(s, i) \in Line
          /\ Covers(Append(h, EntryLine(s, i)), K \cup {i})
          /\ SectionAt(Append(h, EntryLine(s, i)), Len(h) + 1) = s
          /\ EntryLine(s, i).form = "whole"
      BY <3>1, <3>3, Zenon
    <3> QED
      BY <3>4 DEF K
  <2>8. /\ Len(Append(h, EntryLine(s, i))) = Len(h) + 1
        /\ Append(h, EntryLine(s, i))[Len(h) + 1] = EntryLine(s, i)
    BY <2>2, <2>7, Grown DEF Covers
  <2> QED
    BY <2>5, <2>6, <2>7, <2>8
<1>7. c \in S
  <2> HIDE DEF S
  <2> QED
    BY <1>1, <1>5, <1>6, HoldsAll
<1>8. Covers(Upto(c), Slots(c)) /\ Upto(c)[Len(Upto(c))].form = "whole"
  BY <1>1, <1>7, SMT
<1>9. Covers(g \o b, Slots(c))
  <2> DEFINE l == b[(c + 1) + 1]
  <2>1. c + 1 \in 0 .. Len(b) - 1 /\ (c + 1) + 1 = c + 2
    BY <1>1, <1>2, SMT
  <2>2. l \in Line /\ g \o SubSeq(b, 1, (c + 1) + 1) = Append(Upto(c), l)
    BY <1>2, <1>4, <2>1, AppendMore
  <2>3. SubSeq(b, 1, (c + 1) + 1) = b
    BY <1>2, <2>1, SubSeqFull
  <2>4. l.form = "short"
    BY <1>2, <2>1
  <2> HIDE DEF Upto, Slots, l
  <2>5. Covers(Append(Upto(c), l), Slots(c))
    BY <1>8, <2>2, <2>4, ShortCovers
  <2> QED
    BY <2>2, <2>3, <2>5
<1>10. Slots(c) = C \cup {i \in Used : <<key[i][1]>> = s}
  <2>1. {slots[j] : j \in 1 .. c} = Entered(s)
    BY <1>1
  <2>2. \A i \in Used : <<key[i][1]>> = s <=> i = t \/ i \in Entered(s)
    <3> TAKE i \in Used
    <3>1. key[i] \in Seq(STRING) /\ Len(key[i]) > 0
      BY DEF DumpReady
    <3>2. Within(s, key[i]) <=> Len(key[i]) > 1 /\ <<key[i][1]>> = s
      BY <1>3, <3>1, NameSplits
    <3>3. Len(key[i]) = 1 => key[i] = <<key[i][1]>>
      BY <3>1, NameSplits
    <3>4. Len(key[i]) = 1 \/ Len(key[i]) > 1
      <4> DEFINE m == Len(key[i])
      <4>1. m \in Nat /\ m > 0
        BY <3>1, LenProperties
      <4> HIDE DEF m
      <4>2. m = 1 \/ m > 1
        BY <4>1, SMT
      <4> QED
        BY <4>2 DEF m
    <3>5. key[i] = s => i = t
      BY <1>3 DEF DumpReady
    <3>6. <<key[t][1]>> = s
      BY <1>3, NameSplits
    <3> QED
      BY <3>2, <3>3, <3>4, <3>5, <3>6 DEF Entered
  <2> QED
    BY <2>1, <2>2 DEF Entered
<1> QED
  BY <1>9, <1>10 DEF b, s

(* The dump of all the sections means what all the slots hold; there are   *)
(* none without a section.                                                 *)
LEMMA DumpCovers == DumpReady => Covers(Dump, Used)
<1> SUFFICES ASSUME DumpReady PROVE Covers(Dump, Used)
  OBVIOUS
<1> DEFINE T == {i \in Used : Len(key[i]) = 1}
           slots == InOrder(T)
           m == Cardinality(T)
           B == [j \in 1 .. m |-> DumpSection(key[slots[j]])]
           Done(j) == {i \in Used : \E r \in 1 .. j :
                                      <<key[i][1]>> = key[slots[r]]}
<1>1. /\ m \in Nat /\ slots \in [1 .. m -> T]
      /\ \A i \in T : \E j \in 1 .. m : slots[j] = i
  BY SlotsListed
<1>2. \A i \in Used : \E t \in T : key[t] = <<key[i][1]>>
  <2> TAKE i \in Used
  <2>1. PICK t \in Used : key[t] = <<key[i][1]>>
    BY DEF DumpReady
  <2>2. Len(key[t]) = 1
    BY <2>1
  <2> QED
    BY <2>1, <2>2
<1>3. Dump = IF m = 0 THEN DumpKeys ELSE FlattenSeq(B)
  <2>1. SectionNames = [j \in 1 .. m |-> key[slots[j]]]
    BY <1>1 DEF SectionNames
  <2>2. DOMAIN SectionNames = 1 .. m
        /\ \A j \in 1 .. m : SectionNames[j] = key[slots[j]]
    BY <2>1
  <2>3. SectionNames = << >> <=> m = 0
    BY <1>1, <2>1
  <2> HIDE DEF m, slots
  <2> QED
    BY <2>2, <2>3 DEF Dump
<1>4. \A j \in 1 .. m : /\ slots[j] \in Used /\ Len(key[slots[j]]) = 1
                        /\ B[j] = DumpSection(key[slots[j]])
                        /\ B[j] \in Seq(Line)
  <2> TAKE j \in 1 .. m
  <2>1. slots[j] \in Used /\ Len(key[slots[j]]) = 1
    BY <1>1
  <2>2. B[j] = DumpSection(key[slots[j]])
    OBVIOUS
  <2> HIDE DEF slots, m, B
  <2> QED
    BY <2>1, <2>2, SectionLines
<1>5. B \in Seq(Seq(Line)) /\ Len(B) = m
  <2>1. B \in [1 .. m -> Seq(Line)]
    BY <1>4
  <2> HIDE DEF B, m
  <2> QED
    BY <1>1, <2>1
<1>6. << >> \in Seq(Line) /\ Covers(<< >>, {})
  <2>1. DOMAIN << >> = {}
    OBVIOUS
  <2>2. << >> \in Seq(Line) /\ DOMAIN Meaning(<< >>) = {}
    BY <2>1, EmptyFile
  <2>3. {key[i] : i \in {}} = {}
    OBVIOUS
  <2> QED
    BY <2>2, <2>3, Zenon DEF Covers
<1> HIDE DEF T, slots, m, B
<1>7. CASE m = 0
  <2>1. Used = {}
    BY <1>1, <1>2, <1>7
  <2>2. DumpKeys = << >>
    <3>1. Cardinality(Used) = 0
      BY <2>1, FS_EmptySet
    <3>2. InOrder(Used) = << >>
      BY <3>1 DEF InOrder
    <3>3. \A P : P = << >> => ReadBack(P) = << >>
      BY DEF ReadBack
    <3> QED
      BY <3>2, <3>3 DEF DumpKeys
  <2> QED
    BY <1>3, <1>6, <1>7, <2>1, <2>2
<1>8. CASE m > 0
  <2>1. PICK F : /\ F = [i \in 1 .. m |-> IF i = 1 THEN B[i]
                                          ELSE F[i - 1] \o B[i]]
                 /\ FlattenSeq(B) = F[m]
    BY <1>5, <1>8, FlattenIs
  <2> DEFINE P(q) == q + 1 <= m => Covers(F[q + 1], Done(q + 1))
             S == {q \in Nat : P(q)}
             More(j) == {i \in Used : <<key[i][1]>> = key[slots[j]]}
  <2>2. 0 \in S
    <3>1. 1 \in 1 .. m /\ 0 + 1 = 1
      BY <1>1, <1>8, SMT
    <3>2. F[1] = B[1] /\ B[1] = << >> \o B[1]
      <4>1. F[1] = B[1] /\ B[1] \in Seq(Line)
        BY <1>4, <2>1, <3>1
      <4> QED
        BY <4>1, ConcatEmptySeq
    <3>3. Covers(<< >> \o B[1], {} \cup More(1))
      BY <1>4, <1>6, <3>1, SectionCovers
    <3>4. Done(1) = {} \cup More(1)
      <4>1. \A r : r \in 1 .. 1 <=> r = 1
        BY SMT
      <4> QED
        BY <4>1, Zenon
    <3> HIDE DEF Done, More
    <3> QED
      BY <3>1, <3>2, <3>3, <3>4
  <2>3. \A q \in Nat : q \in S => q + 1 \in S
    <3> SUFFICES ASSUME NEW q \in Nat, P(q) PROVE P(q + 1)
      <4>1. \A q \in Nat : q + 1 \in Nat
        BY SMT
      <4> HIDE DEF P
      <4> QED
        BY <4>1, Zenon
    <3> DEFINE j == (q + 1) + 1
    <3> SUFFICES ASSUME j <= m PROVE Covers(F[j], Done(j))
      BY Zenon
    <3>1. j \in 1 .. m /\ j # 1 /\ j - 1 = q + 1 /\ q + 1 <= m
      BY <1>1, SMT
    <3>2. \A r : r \in 1 .. j <=> r \in 1 .. q + 1 \/ r = j
      BY SMT
    <3>3. Covers(F[q + 1], Done(q + 1))
      BY <3>1
    <3> HIDE DEF j
    <3>4. F[j] = F[q + 1] \o B[j]
      BY <2>1, <3>1
    <3>5. Done(j) = Done(q + 1) \cup More(j)
      BY <3>2, Zenon
    <3>6. Done(q + 1) \in SUBSET Used
      BY Zenon
    <3> HIDE DEF Done
    <3>7. Covers(F[q + 1] \o B[j], Done(q + 1) \cup More(j))
      BY <1>4, <3>1, <3>3, <3>6, SectionCovers
    <3> QED
      BY <3>4, <3>5, <3>7
  <2>4. m - 1 \in Nat /\ (m - 1) + 1 = m
    BY <1>1, <1>8, SMT
  <2>5. m - 1 \in S
    <3> HIDE DEF S
    <3> QED
      BY <2>2, <2>3, <2>4, HoldsAll
  <2>6. Covers(F[m], Done(m))
    <3>1. m <= m
      BY <1>1, SMT
    <3> QED
      BY <2>4, <2>5, <3>1
  <2>7. Done(m) = Used
    <3>1. \A i \in Used : \E r \in 1 .. m : <<key[i][1]>> = key[slots[r]]
      <4> TAKE i \in Used
      <4>1. PICK t \in T : key[t] = <<key[i][1]>>
        BY <1>2
      <4>2. PICK r \in 1 .. m : slots[r] = t
        BY <1>1
      <4> QED
        BY <4>1, <4>2
    <3> QED
      BY <3>1, Zenon
  <2> QED
    <3>1. m # 0
      BY <1>1, <1>8, SMT
    <3> QED
      BY <1>3, <2>1, <2>6, <2>7, <3>1, Zenon
<1>9. m = 0 \/ m > 0
  BY <1>1, SMT
<1> QED
  BY <1>7, <1>8, <1>9, Zenon

(* Where no section has a colon in its name, a name without one is that of *)
(* a section and has no value, and a longer one is an entry with a value   *)
(* in a section that is in force at its line.                              *)
LEMMA NamesOfFile ==
  ASSUME NEW f \in Seq(Line), NEW k \in DOMAIN Meaning(f),
         \A j \in LinesOf(f, "section") : Len(f[j].text.section) = 1
  PROVE  /\ k \in Seq(STRING) /\ Len(k) > 0
         /\ Len(k) = 1 => k \in Sections /\ Meaning(f)[k] = NULL
         /\ Len(k) > 1 => /\ SubSeq(k, 2, Len(k)) \in Entries
                          /\ Meaning(f)[k] \in Vals
         /\ <<k[1]>> = Global \/ <<k[1]>> \in DOMAIN Meaning(f)
<1> DEFINE i == Max(Naming(f, k))
           s == SectionAt(f, i)
<1>1. /\ DOMAIN Meaning(f) = {NameAt(f, j) : j \in Stores(f)}
      /\ Meaning(f)[k] = ValueAt(f, i)
  BY MeaningIs
<1>2. i \in Stores(f) /\ NameAt(f, i) = k
  <2>1. i \in Naming(f, k)
    BY <1>1, NamingIs
  <2> HIDE DEF i
  <2> QED
    BY <2>1 DEF Naming
<1> HIDE DEF i
<1>3. i \in 1 .. Len(f) /\ i \in Nat
  BY <1>2, Grown, SMT DEF Stores, LinesOf, Logical
<1>4. /\ s \in Sections /\ s \in Seq(STRING) /\ Len(s) = 1
      /\ s = Global \/ s \in DOMAIN Meaning(f)
  <2>1. s \in Sections /\ Len(s) = 1
    BY <1>3, SectionAtType, ShortSections
  <2>2. s # Global => \E j \in Stores(f) : NameAt(f, j) = s
    BY <1>3, SectionStored
  <2> QED
    BY <1>1, <2>1, <2>2, ParserAssumption
<1> HIDE DEF s
<1>5. s = <<s[1]>>
  BY <1>4, NameSplits
<1>6. CASE f[i].text.is = "value"
  <2> DEFINE e == f[i].text.entry
  <2>1. e \in Entries /\ ValueAt(f, i) \in Vals /\ k = s \o e
    BY <1>2, <1>3, <1>6, ElementOfSeq, LineTexts DEF NameAt, ValueAt, s
  <2>2. e \in Seq(STRING) /\ e # << >>
    BY <2>1, ParserAssumption
  <2> HIDE DEF e
  <2>3. Len(e) > 0 /\ Len(e) \in Nat
    BY <2>2, EmptySeq, LenProperties, SMT
  <2>4. /\ k \in Seq(STRING) /\ Len(k) = Len(s) + Len(e)
        /\ \A q \in 1 .. Len(s) + Len(e) :
              k[q] = IF q <= Len(s) THEN s[q] ELSE e[q - Len(s)]
    BY <1>4, <2>1, <2>2, ConcatProperties
  <2>5. k[1] = s[1] /\ Len(k) > 1 /\ Len(k) # 1
    <3>1. 1 \in 1 .. 1 + Len(e) /\ 1 <= 1 /\ 1 + Len(e) > 1 /\ 1 + Len(e) # 1
      BY <2>3, SMT
    <3> QED
      BY <1>4, <2>4, <3>1
  <2>6. SubSeq(k, 2, Len(k)) = e
    <3>1. /\ 2 \in Len(s) + 1 .. Len(s) + Len(e)
          /\ Len(k) \in Len(s) + 1 .. Len(s) + Len(e)
          /\ 2 - Len(s) = 1 /\ Len(k) - Len(s) = Len(e)
      BY <1>4, <2>3, <2>4, SMT
    <3>2. SubSeq(s \o e, 2, Len(k)) = SubSeq(e, 2 - Len(s), Len(k) - Len(s))
      <4>1. s \in Seq(STRING)
        BY <1>4
      <4>2. \A q, r \in Len(s) + 1 .. Len(s) + Len(e) :
              SubSeq(s \o e, q, r) = SubSeq(e, q - Len(s), r - Len(s))
        BY <2>2, <4>1, SubSeqOfConcat2, Zenon
      <4> QED
        BY <3>1, <4>2, Zenon
    <3>3. SubSeq(e, 1, Len(e)) = e
      BY <2>2, SubSeqFull
    <3> QED
      BY <2>1, <3>1, <3>2, <3>3
  <2>7. <<k[1]>> = s
    BY <1>5, <2>5
  <2>8. Len(k) > 0
    BY <2>3, <2>4, <1>4, SMT
  <2> QED
    BY <1>1, <1>4, <2>1, <2>4, <2>5, <2>6, <2>7, <2>8, Zenon
<1>7. CASE f[i].text.is # "value"
  <2>1. k = s \o << >> /\ ValueAt(f, i) = NULL
    BY <1>2, <1>7 DEF NameAt, ValueAt, s
  <2>2. k = s
    BY <1>4, <2>1, ConcatEmptySeq
  <2>3. Len(k) > 0 /\ ~ (Len(k) > 1) /\ <<k[1]>> = s
    <3>1. Len(k) = 1
      BY <1>4, <2>2
    <3> QED
      BY <1>5, <2>2, <3>1, SMT
  <2> QED
    BY <1>1, <1>4, <2>1, <2>2, <2>3, Zenon
<1> QED
  BY <1>6, <1>7

=============================================================================
