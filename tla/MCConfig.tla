------------------------------ MODULE MCConfig ------------------------------
(* Small files for TLC, and the file that comes with the server.           *)
EXTENDS Config

CONSTANTS
  v1,          \* a plain value
  v2,          \* v1 with a comment sign and more after it
  vundef,      \* what is printed for the value of a section
  MaxLines

Nothing == [is |-> "nothing"]
Named(s) == [is |-> "section", section |-> s]
Value(e, v) == [is |-> "value", entry |-> e, val |-> v]

MCLines ==
  {Whole(t) : t \in {Nothing, [is |-> "error"], [is |-> "brackets"],
                     Named(<<"asyncio">>),
                     Named(<<"asyncio", "timeout">>), Value(<<"timeout">>, v1),
                     Value(<<"timeout">>, v2), Value(<<"addr">>, v1)}}
    \cup {[form |-> "continued", text |-> Nothing],
          [form |-> "short", text |-> Value(<<"timeout">>, v1)]}

TooLong == [form |-> "toolong", text |-> Nothing]

(* What comes after a line too long is never read.                         *)
MCFiles == LET fine == BoundedSeq(MCLines, MaxLines)
           IN  fine \cup {Append(f, TooLong) : f \in {g \in fine : Len(g) < MaxLines}}

(* What printed lines come back as.  Neither value ends in a backslash, so *)
(* that no printed line is joined with the one before.                     *)
PrintedReadsAs(v) == CASE v = v2 -> v1 [] v = NULL -> vundef [] OTHER -> v

MCReadAs(before, printed) ==
  CASE printed.is = "title" -> TitleReadAs(printed.section)
    [] printed.is = "blank" -> [form |-> "short", text |-> Nothing]
    [] OTHER -> Whole(Value(printed.entry, PrintedReadsAs(printed.val)))

MCSections == {Global, <<"a">>, <<"asyncio">>, <<"asyncio", "timeout">>}
MCClipped  == [s \in MCSections |-> IF s = Global THEN Global ELSE <<"a">>]
MCEntries  == {<<"timeout">>, <<"addr">>}

-----------------------------------------------------------------------------
(* The first two sections of src/store/bitstore/conf/bitstore.conf.        *)
ShippedFile == <<
  Whole(Named(<<"server">>)), Whole(Value(<<"addr">>, "0.0.0.0:8080")),
  Whole(Named(<<"aio">>)), Whole(Value(<<"max_queue_depth">>, "1024")),
  Whole(Value(<<"timeout">>, "60")), Whole(Value(<<"aio_reap_max">>, "16")),
  Whole(Value(<<"block_device">>, "/dev/sdb")) >>

Shipped(is) == {ShippedFile[i].text : i \in LinesOf(ShippedFile, is)}

ShippedFiles    == {ShippedFile}
ShippedEntries  == {t.entry : t \in Shipped("value")}
ShippedVals     == {t.val : t \in Shipped("value")}
ShippedSections == {t.section : t \in Shipped("section")}
                     \cup {Global, <<"s">>, <<"a">>}
ShippedClipped  ==
  [s \in ShippedSections |->
     CASE s[1] \in {"server", "s"} -> <<"s">> [] s[1] \in {"aio", "a"} -> <<"a">>
       [] s = Global -> Global]

(* Claim of bitstore.conf: what the file sets is what the server uses.     *)
EverySettingUsed ==
  (pc = "configured" /\ ~ lost /\ Taken = file) =>
     \A i \in LinesOf(file, "value") :
        \E f \in Fields :
           Asked[f] = NameAt(file, i) /\ config[f] = file[i].text.val

=============================================================================
