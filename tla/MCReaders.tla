------------------------------- MODULE MCReaders ------------------------------
(* Readers on short inputs. *)
EXTENDS MCDriveLs, Readers

CONSTANTS MaxText, MaxGrepText, MaxPattern

Short       == BoundedSeq({"a", "nl", "blank", "tab"}, MaxText)
MCWcTexts   == Short
MCCatFiles  ==
  {<<t>> : t \in BoundedSeq({"a", "nl", "nul"}, MaxText)} \cup
  {<<s, t>> : s, t \in BoundedSeq({"a", "nl"}, 3)}
MCGrepTexts == BoundedSeq({"a", "b", "nl"}, MaxGrepText) \cup BoundedSeq({"a", "umlaut", "nl"}, 4)
MCPatterns  == (BoundedSeq({"a", "b"}, MaxPattern) \cup BoundedSeq({"a", "umlaut"}, 2)) \ {<<>>}

(* A line of "3 * 12", say, comes whole, is cut behind its integers or     *)
(* between them, or within the second one.                                 *)
Line(ints, pieces) == [ints |-> ints, pieces |-> pieces]
SumLines     ==
  {Line(<<n>>, <<<<n>>>>) : n \in -3 .. 7} \cup
  {Line(<<5>>, <<<<5>>, <<>>>>), Line(<<>>, <<<<>>>>)}
ProductLines ==
  {Line(<<m, n>>, <<<<m, n>>>>) : m \in {-1, 3}, n \in {-4, 1, 7}} \cup
  {Line(<<3, 12>>, p) : p \in {<<<<3, 12>>, <<>>>>, <<<<3>>, <<12>>>>, <<<<3, 1>>, <<2>>>>}}
MCMultFiles  ==
  {<<>>} \cup {<<s>> \o ps : s \in SumLines, ps \in BoundedSeq(ProductLines, 3)}
===============================================================================
