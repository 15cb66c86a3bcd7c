------------------------------ MODULE IniParser -----------------------------
(***************************************************************************)
(* iniparser_load (src/store/bitstore/src/core/iniparser.c): the loop that *)
(* reads a file line by line into a dictionary, and the functions that     *)
(* list and dump what it loaded.                                           *)
(*                                                                         *)
(* A line of a file is what one fgets returns.  Its form is what the loop  *)
(* itself looks at: "whole"; "continued", some text and a backslash, to be *)
(* joined with the next line; "toolong" for the buffer; or "short", at     *)
(* most one character or only a backslash, skipped unless it completes a   *)
(* continued line.  Its text is what iniparser_line makes of the logical   *)
(* line that it completes.                                                 *)
(*                                                                         *)
(* A name is the sequence of its words between colons, so that the key     *)
(* "section:entry" of the dictionary is section \o entry, and is also      *)
(* the name of a section "[section:entry]".  Names are in lower case, as   *)
(* iniparser_line and the functions that look names up convert them.       *)
(***************************************************************************)
EXTENDS Integers, Sequences, SequencesExt

CONSTANTS
  Files,             \* the files the parser may be given: sequences of Line
  Sections, Entries, \* names of sections, and of entries
  Clipped,           \* Clipped[s]: the first character of the name s, if any
  ReadAs(_, _),      \* the Line that a printed line comes back as, see ReadBack
  Vals, NoKey, NULL, DICTMINSZ, MaxSize       \* as in Dictionary

Global == <<"">>     \* the section in force before any section line

(* "section" and "section:entry", the keys of the dictionary               *)
Names == Sections \cup {s \o e : s \in Sections, e \in Entries}

Text == [is : {"nothing", "error", "brackets"}]  \* nothing: blank or comment
          \cup [is : {"section"}, section : Sections]
          \cup [is : {"value"}, entry : Entries, val : Vals]

Line == [form : {"whole", "continued", "toolong", "short"}, text : Text]

(* A line that iniparser_dump_ini prints: the title "[s]" of a section, an *)
(* entry, its name padded to 30 columns or not, or a blank line.           *)
Title(s) == [is |-> "title", section |-> s]
Entry(is, name, v) == [is |-> is, entry |-> name, val |-> v]
Blank == [is |-> "blank"]

Whole(text) == [form |-> "whole", text |-> text]

(* Titles come back as they are: "[]" is what is printed for the name "".  *)
TitleReadAs(s) ==
  Whole(IF s = Global THEN [is |-> "brackets"]
                      ELSE [is |-> "section", section |-> s])

ASSUME ParserAssumption ==
  /\ Global \in Sections
  /\ Sections \cup Entries \subseteq Seq(STRING) \ {<< >>}
  /\ Clipped \in [Sections -> Sections]
  /\ \A s \in Sections : Clipped[Clipped[s]] = Clipped[s]
  /\ \A s \in Sections : Len(s) = 1 => Len(Clipped[s]) = 1
  /\ Clipped[Global] = Global
  /\ Files \subseteq Seq(Line)
  /\ \A s \in Sections : ReadAs(<< >>, Title(s)) = TitleReadAs(s)
  /\ ReadAs(<< >>, Blank) \in Line /\ ReadAs(<< >>, Blank).form = "short"
  /\ NoKey \notin Names /\ NULL \notin Vals
  /\ DICTMINSZ \in Nat \ {0} /\ MaxSize \in Nat

VARIABLES
  file, pos,                  \* the file, and how many lines were read of it
  joining,                    \* last > 0: the line read so far is continued
  section, errs,              \* the locals of the same names
  pc,                         \* where the loading has come
  lost,                       \* history: did a failed allocation go unnoticed
  size, n, key, val, missing, reply    \* the dictionary

Dict == INSTANCE Dictionary WITH Keys <- Names

dict == <<size, n, key, val, missing, reply>>
iniVars == <<file, pos, joining, section, errs, pc, lost, dict>>

IniTypeOK ==
  /\ file \in Seq(Line)
  /\ pos \in 0 .. Len(file)
  /\ joining \in BOOLEAN /\ lost \in BOOLEAN
  /\ section \in Sections
  /\ errs \in 0 .. pos
  /\ pc \in {"open", "reading", "end", "loaded", "null", "configured", "crashed"}
  /\ Dict!TypeOK

IniInit ==
  /\ file \in Files
  /\ pos = 0 /\ errs = 0
  /\ joining = FALSE /\ lost = FALSE
  /\ section = Global
  /\ pc = "open"
  /\ Dict!Init /\ missing = {}

-----------------------------------------------------------------------------
(* fopen and dictionary_new; NULL is returned if one fails, but arrays of  *)
(* the dictionary may be missing.                                          *)
Open ==
  /\ pc = "open"
  /\ \/ pc' = "reading" /\ missing' \in SUBSET Dict!Arrays
     \/ pc' = "null" /\ UNCHANGED missing
  /\ UNCHANGED <<file, pos, joining, section, errs, lost, size, n, key, val,
                 reply>>

Reads(form) ==
  /\ pc = "reading"
  /\ pos < Len(file)
  /\ file[pos + 1].form = form
  /\ pos' = pos + 1
  /\ UNCHANGED file

SkipShort ==
  /\ Reads("short")
  /\ ~ joining
  /\ UNCHANGED <<joining, section, errs, pc, lost, dict>>

(* dictionary_del, and NULL for the file, unless the arrays it goes over   *)
(* are NULL.                                                               *)
Refused == IF Dict!DelCrashes THEN "crashed" ELSE "null"

RefuseTooLong ==
  /\ Reads("toolong")
  /\ pc' = Refused
  /\ UNCHANGED <<joining, section, errs, lost, dict>>

JoinNext ==
  /\ Reads("continued")
  /\ joining' = TRUE
  /\ UNCHANGED <<section, errs, pc, lost, dict>>

CompletesWithoutReset(is) ==                            \* mutant: no last = 0
  /\ Reads("whole") \/ (joining /\ Reads("short"))
  /\ file[pos + 1].text.is = is
  /\ UNCHANGED joining

(* The line read completes a logical line, which iniparser_line classifies.*)
Completes(is) ==
  /\ Reads("whole") \/ (joining /\ Reads("short"))
  /\ file[pos + 1].text.is = is
  /\ joining' = FALSE

TakeNothing ==
  /\ Completes("nothing")
  /\ UNCHANGED <<section, errs, pc, lost, dict>>

(* xstrdup of the line fails: strstrip(NULL) is 0, the line counts as empty*)
LoseLine ==
  /\ \E is \in {"error", "brackets", "section", "value"} : Completes(is)
  /\ lost' = TRUE
  /\ UNCHANGED <<section, errs, pc, dict>>

TakeError ==
  /\ Completes("error")
  /\ errs' = errs + 1
  /\ UNCHANGED <<section, pc, lost, dict>>

(* dictionary_set: the loop ends when it could not grow, and the process   *)
(* when it has no array to store in.                                       *)
Store(k, v) ==
  /\ \/ /\ Dict!Set(k, v)
        /\ pc' = IF reply'.ret < 0 THEN "end" ELSE "reading"
        /\ lost' = (lost \/ reply'.nomem)
     \/ /\ Dict!SetCrashes
        /\ pc' = "crashed"
        /\ UNCHANGED <<lost, dict>>
  /\ UNCHANGED errs

TakeSection ==
  /\ Completes("section")
  /\ section' = file[pos + 1].text.section
  /\ Store(section', NULL)

(* "[]": sscanf stores nothing, and strlwc with the line's length 2 cuts   *)
(* the section in force down to its first character.                       *)
TakeBrackets ==
  /\ Completes("brackets")
  /\ section' = Clipped[section]
  /\ Store(section', NULL)

TakeValueGlobally ==                       \* mutant: no section in the key
  /\ Completes("value")
  /\ Store(Global \o file[pos + 1].text.entry, file[pos + 1].text.val)
  /\ UNCHANGED section

TakeValue ==
  /\ Completes("value")
  /\ Store(section \o file[pos + 1].text.entry, file[pos + 1].text.val)
  /\ UNCHANGED section

(* The file ends, also in the middle of a continued line, or memory did.   *)
CloseUnchecked ==                                \* mutant: errs not tested
  /\ pc = "end" \/ (pc = "reading" /\ pos = Len(file))
  /\ pc' = "loaded"
  /\ UNCHANGED <<file, pos, joining, section, errs, lost, dict>>

Close ==
  /\ pc = "end" \/ (pc = "reading" /\ pos = Len(file))
  /\ pc' = IF errs > 0 THEN Refused ELSE "loaded"
  /\ UNCHANGED <<file, pos, joining, section, errs, lost, dict>>

Load ==
  \/ Open \/ SkipShort \/ RefuseTooLong \/ JoinNext
  \/ TakeNothing \/ LoseLine \/ TakeError
  \/ TakeSection \/ TakeBrackets \/ TakeValue
  \/ Close

-----------------------------------------------------------------------------
(* iniparser_getnsec, _getsecname, _getseckeys and _dump_ini.              *)
Used == {i \in 0 .. size - 1 : key[i] # NoKey}

(* The slots of S as a loop over 0 .. size - 1 meets them.                 *)
InOrder(S) ==
  [j \in 1 .. Cardinality(S) |->
     CHOOSE i \in S : Cardinality({k \in S : k <= i}) = j]

(* Keys without a colon are taken for sections.                            *)
SectionNames ==
  LET slots == InOrder({i \in Used : Len(key[i]) = 1})
  IN  [j \in DOMAIN slots |-> key[slots[j]]]

WithinByPrefix(s, k) ==              \* mutant: strncmp without the colon
  Len(k) > Len(s) /\ s \in {SubSeq(k, 1, Len(s)), Clipped[SubSeq(k, 1, Len(s))]}

Within(s, k) == Len(k) > Len(s) /\ IsPrefix(s, k)

SectionSlots(s) == InOrder({i \in Used : Within(s, key[i])})

(* What a file of the printed lines P is read back as.  A line that ends   *)
(* in a backslash, as a value may, is joined with the next; and what a     *)
(* printed line comes back as depends on its characters: a value is        *)
(* printed without quotes, so that a ";", a "#" or blanks around it are    *)
(* not read back, and the padding may make a line too long.  ReadAs says   *)
(* it, given the lines that the printed one is joined to.                  *)
ReadBack(P) ==
  [j \in DOMAIN P |->
     LET last == Max({0} \cup {i \in 1 .. j - 1 :
                                ReadAs(<< >>, P[i]).form # "continued"})
     IN  ReadAs(SubSeq(P, last + 1, j - 1), P[j])]

EntryAt(s, i) ==
  Entry("padded", SubSeq(key[i], Len(s) + 1, Len(key[i])), val[i])

(* iniparser_dumpsection_ini prints a section between blank lines, so that *)
(* no line of it is joined with one of another.                            *)
Printed(s) ==
  LET slots == SectionSlots(s)
  IN  <<Title(s)>> \o [j \in DOMAIN slots |-> EntryAt(s, slots[j])]
        \o <<Blank>>

DumpSection(s) == ReadBack(Printed(s))

(* A dictionary without sections: all keys as they are.                    *)
DumpKeys ==
  LET slots == InOrder(Used)
  IN  ReadBack([j \in DOMAIN slots |->
                  Entry("unpadded", key[slots[j]], val[slots[j]])])

Dump ==
  IF SectionNames = << >> THEN DumpKeys
  ELSE FlattenSeq([j \in DOMAIN SectionNames |-> DumpSection(SectionNames[j])])

-----------------------------------------------------------------------------
(* What a file means, stated without a loop.  A logical line ends where a  *)
(* whole line does, or a short one that follows a continued one; the       *)
(* section at a line is the last one named up to it, clipped if a "[]" has *)
(* come since; the last line that gives an entry a value gives its value.  *)
Logical(f) ==
  {i \in DOMAIN f :
     \/ f[i].form = "whole"
     \/ f[i].form = "short" /\ i > 1 /\ f[i - 1].form = "continued"}

LinesOf(f, is) == {i \in Logical(f) : f[i].text.is = is}

SectionAt(f, i) ==
  LET named == {j \in LinesOf(f, "section") : j <= i}
      last  == Max(named \cup {0})
      name  == IF last = 0 THEN Global ELSE f[last].text.section
  IN  IF \E j \in LinesOf(f, "brackets") : last < j /\ j <= i
        THEN Clipped[name] ELSE name

NameAt(f, i) ==
  SectionAt(f, i) \o IF f[i].text.is = "value" THEN f[i].text.entry ELSE << >>

ValueAt(f, i) == IF f[i].text.is = "value" THEN f[i].text.val ELSE NULL

Meaning(f) ==
  LET stores == LinesOf(f, "section") \cup LinesOf(f, "brackets")
                  \cup LinesOf(f, "value")
  IN  [k \in {NameAt(f, i) : i \in stores} |->
         ValueAt(f, Max({i \in stores : NameAt(f, i) = k}))]

Malformed(f) ==
  LinesOf(f, "error") # {} \/ \E i \in DOMAIN f : f[i].form = "toolong"

(* What was read when loading ended; the line for which the dictionary     *)
(* could not grow (reply.ret = -1) is not part of it.                      *)
Taken == SubSeq(file, 1, IF reply.ret = -1 THEN pos - 1 ELSE pos)

(* The invariant of the loop.  What the locals say of the lines read ...   *)
SoFar == SubSeq(file, 1, pos)
Reading == {"open", "reading"}
Over == {"loaded", "configured"}

LocalsFollow ==
  /\ pc = "open" => pos = 0
  /\ pc \in Reading =>
       (joining <=> pos > 0 /\ file[pos].form = "continued")
  /\ pc \in Reading /\ ~ lost => section = SectionAt(SoFar, pos)
  /\ ~ lost => (errs > 0 <=> LinesOf(SoFar, "error") # {})
  /\ pc \notin {"null", "crashed"} => \A i \in 1 .. pos : file[i].form # "toolong"

(* ... what ended it, and what it made of the file.                        *)
OutcomeFollows ==
  /\ pc \in Reading => reply.ret # -1
  /\ pc = "end" => reply.ret = -1
  /\ reply.ret = -1 => pos > 0 /\ file[pos].text.is # "error"
  /\ pc \in Over => errs = 0 /\ (pos = Len(file) \/ reply.ret = -1)
  /\ pc = "null" /\ pos > 0 /\ ~ lost => Malformed(SoFar)

(* A crash while the file is read, for an array that is not there.         *)
ReadCrashed == pc = "crashed" /\ missing # {}

HoldsMeaning == ~ lost /\ ~ ReadCrashed => Dict!Contents = Meaning(Taken)

(* A file is loaded exactly when no line that was read is malformed, and   *)
(* then the dictionary holds what these lines mean; they are all the lines *)
(* unless memory ran out.  (Unnoticed failures of malloc apart.)           *)
LoadedIsFile ==
  ~ lost =>
     /\ pc = "loaded" =>
           /\ ~ Malformed(Taken)
           /\ Dict!Contents = Meaning(Taken)
           /\ Taken = file \/ reply.ret = -1
     /\ pc = "null" /\ pos > 0 => Malformed(SubSeq(file, 1, pos))

(* "This clearly fails in the case a section name contains a colon, but    *)
(* this should simply be avoided" (iniparser.c:158).                       *)
ColonsAvoided ==
  \A i \in LinesOf(file, "section") : Len(file[i].text.section) = 1

(* The entry in slot i comes back, printed in its section, as it is: its   *)
(* value has no comment sign, no blanks or quotes around it, no backslash  *)
(* at its end, and is not too long for a line.                             *)
ComesBack(i) ==
  \A s \in Sections : Within(s, key[i]) =>
     ReadAs(<< >>, EntryAt(s, i)) =
       Whole([is |-> "value", entry |-> EntryAt(s, i).entry, val |-> val[i]])

(* What iniparser_dump_ini writes is, loaded again, the same dictionary:   *)
(* as long as every entry is in a section with a name and, taken alone,    *)
(* comes back from its printed line, and no section has a colon in its     *)
(* name.  (A dictionary without keys could not even be walked.)            *)
DumpReloads ==
  ( /\ pc = "loaded" /\ ~ lost /\ ColonsAvoided /\ ~ Dict!SearchCrashes
    /\ \A i \in Used : key[i][1] # "" /\ ComesBack(i) )
  => Meaning(Dump) = Dict!Contents

=============================================================================
