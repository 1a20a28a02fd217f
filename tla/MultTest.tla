------------------------------- MODULE MultTest -------------------------------
(***************************************************************************)
(* U01/mult-test.c: is the integer in the first line of a file the sum of  *)
(* the products in the other lines?  Computed with C's int.                *)
(*                                                                         *)
(* A line is a record of the integers in it and of the pieces in which     *)
(* fgets returns it, since one of MAXLINE bytes or more (say, with many    *)
(* blanks) is cut; a piece is the integers that sscanf finds in it.        *)
(***************************************************************************)
EXTENDS Stream

CONSTANTS MultFiles, IntLimit   \* the files it is given; INT_MAX + 1

\* Each cut adds at most an integer, by going through one.
CutOf(ints, pieces) ==
  /\ pieces # <<>> /\ Len(FlattenSeq(pieces)) <= Len(ints) + Len(pieces) - 1
  /\ Len(pieces) = 1 => pieces[1] = ints

\* mult-test.c:17-25.  Lines may also hold fewer integers than they should.
ASSUME MultAssumption ==
  /\ IntLimit \in Nat \ {0}
  /\ MultFiles \subseteq Seq([ints : Seq(Int), pieces : Seq(Seq(Int))])
  /\ \A f \in MultFiles : \A i \in 1 .. Len(f) :
       CutOf(f[i].ints, f[i].pieces) /\ Len(f[i].ints) <= (IF i = 1 THEN 1 ELSE 2)

VARIABLES lines, expected_sum, sum
multVars == <<lines, expected_sum, sum>>

MultIdle == lines = <<>> /\ expected_sum = 0 /\ sum = 0
MultInit ==
  /\ Opened("mult")
  /\ lines \in MultFiles /\ expected_sum = 0 /\ sum = 0
  /\ text = FlattenSeq([i \in 1 .. Len(lines) |-> lines[i].pieces])

IntRange == -IntLimit .. IntLimit - 1
\* (Variant: the sum stops at the largest int.)
Saturate(n) == IF n > IntLimit - 1 THEN IntLimit - 1 ELSE n
\* Signed overflow, as the build computes it.
Wrap(n)     == ((n + IntLimit) % (2 * IntLimit)) - IntLimit

(* nextline and what becomes of it; "Illegal format" or "empty" otherwise. *)
nextline     == text[pos + 1]
AtFirstLine  == pos = 0
ReadsLine    == Reading("mult") /\ ~AtEof /\ pos' = pos + 1
IsProduct(l) == Len(l) >= 2

ReadSum ==
  /\ ReadsLine /\ AtFirstLine /\ nextline # <<>>
  /\ expected_sum' = nextline[1]
  /\ UNCHANGED <<prog, pc, text, out, lines, sum>>

AddProduct ==
  /\ ReadsLine /\ ~AtFirstLine /\ IsProduct(nextline)
  /\ sum' = Wrap(sum + Wrap(nextline[1] * nextline[2]))
  /\ UNCHANGED <<prog, pc, text, out, lines, expected_sum>>

IllegalFormat ==
  /\ \/ ReadsLine /\ AtFirstLine /\ nextline = <<>>
     \/ ReadsLine /\ ~AtFirstLine /\ ~IsProduct(nextline)
     \/ Reading("mult") /\ AtFirstLine /\ UNCHANGED pos
  /\ pc' = "exit_error"
  /\ UNCHANGED <<prog, text, out, multVars>>

\* fgets returns NULL at the end, and when a read fails: that is not told apart.
Verdict ==
  /\ Reading("mult") /\ ~AtFirstLine
  /\ out' = <<IF sum = expected_sum THEN "correct" ELSE "incorrect">>
  /\ pc' = "exit_ok"
  /\ UNCHANGED <<prog, text, pos, multVars>>

MultStep ==
  \/ ReadSum \/ AddProduct \/ IllegalFormat \/ Verdict
-------------------------------------------------------------------------------
\* For each n the sum of the products of ls[2] to ls[n].
Sums(ls) ==
  LET sums[n \in 1 .. Len(ls)] == IF n = 1 THEN 0 ELSE sums[n - 1] + ls[n][1] * ls[n][2]
  IN  sums
ProductsSum == Sums([i \in 1 .. Len(lines) |-> lines[i].ints])[Len(lines)]

(* mult-test.c:11-13.  If there is a verdict and no read has failed, it is *)
(* right, although lines may be cut and the sum may overflow on the way,   *)
(* as long as the sum of the products is an int itself.                    *)
VerdictIsRight ==
  prog = "mult" /\ pc = "exit_ok" /\ AtEof /\ ProductsSum \in IntRange =>
    (out = <<"correct">>) = (lines[1].ints[1] = ProductsSum)
===============================================================================
