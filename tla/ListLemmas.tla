----------------------------- MODULE ListLemmas -----------------------------
(***************************************************************************)
(* Facts about the operators the specifications use for lists, lowest      *)
(* numbers and the calls of stdio, for the proofs to cite.                 *)
(***************************************************************************)
EXTENDS Stdio, SequenceTheorems, WellFoundedInduction, TLAPS

Below == {ss \in Nat \X Nat : ss[1] < ss[2]}

(* The order of the natural numbers has no infinite descent.               *)
LEMMA BelowWellFounded == IsWellFoundedOn(Below, Nat)
BY ONLY NatLessThanWellFounded, Zenon DEF OpToRel, Below

(* A nonempty set of natural numbers has the least element that Min picks. *)
LEMMA MinOfNats ==
  ASSUME NEW S, S \subseteq Nat, S # {}
  PROVE  Min(S) \in S /\ \A y \in S : Min(S) <= y
<1>1. PICK x \in S : \A y \in S : ~ (<<y, x>> \in Below)
  BY BelowWellFounded, WFMin
<1>2. ASSUME NEW y \in S PROVE x <= y
  <2>1. x \in Nat /\ y \in Nat
    OBVIOUS
  <2>2. ~ (<<y, x>> \in Below)
    BY <1>1
  <2>3. ~ (y < x)
    BY <2>1, <2>2 DEF Below
  <2>. QED BY <2>1, <2>3
<1>. QED BY <1>2 DEF Min

(* Max of two numbers is one of them and not below the other.              *)
LEMMA MaxOfTwo ==
  ASSUME NEW a \in Int, NEW b \in Int
  PROVE  Max({a, b}) \in {a, b} /\ Max({a, b}) >= a /\ Max({a, b}) >= b
<1>1. \E x \in {a, b} : \A y \in {a, b} : x >= y
  <2>1. CASE a >= b
    BY <2>1
  <2>2. CASE b >= a
    BY <2>2
  <2>. QED BY <2>1, <2>2
<1>. QED BY <1>1 DEF Max

(* Min of two numbers is one of them and not above the other.              *)
LEMMA MinOfTwo ==
  ASSUME NEW a \in Int, NEW b \in Int
  PROVE  Min({a, b}) \in {a, b} /\ Min({a, b}) <= a /\ Min({a, b}) <= b
<1>1. \E x \in {a, b} : \A y \in {a, b} : x <= y
  <2>1. CASE a <= b
    BY <2>1
  <2>2. CASE b <= a
    BY <2>2
  <2>. QED BY <2>1, <2>2
<1>. QED BY <1>1 DEF Min

(* The greatest element of a set of numbers up to it.                      *)
LEMMA MaxIs ==
  ASSUME NEW S \in SUBSET Int, NEW m \in S, \A i \in S : i <= m
  PROVE  Max(S) = m
<1>1. \E x \in S : \A y \in S : x >= y
  <2>1. \A y \in S : y \in Int /\ m >= y
    OBVIOUS
  <2>. QED BY <2>1
<1>2. Max(S) \in S /\ \A y \in S : Max(S) >= y
  BY <1>1 DEF Max
<1>3. Max(S) \in Int /\ m \in Int /\ Max(S) >= m /\ Max(S) <= m
  BY <1>2
<1>. QED BY <1>3

(* A list that has an element more than another one, at its end.           *)
LEMMA AppendIs ==
  ASSUME NEW S, NEW s \in Seq(S), NEW e \in S, NEW t \in Seq(S), Len(t) = Len(s) + 1,
         t[Len(s) + 1] = e, \A i \in 1 .. Len(s) : t[i] = s[i]
  PROVE  t = Append(s, e)
<1>1. /\ Append(s, e) \in Seq(S) /\ Len(Append(s, e)) = Len(s) + 1 /\ Len(s) \in Nat
      /\ \A i \in 1 .. Len(s) + 1 : Append(s, e)[i] = t[i]
  OBVIOUS
<1>. QED BY <1>1, SeqEqual

(* A list with an element before it.                                       *)
LEMMA Prepended ==
  ASSUME NEW S, NEW s \in Seq(S), NEW e \in S
  PROVE  /\ <<e>> \o s \in Seq(S) /\ Len(<<e>> \o s) = Len(s) + 1 /\ (<<e>> \o s)[1] = e
         /\ \A i \in 1 .. Len(s) : (<<e>> \o s)[i + 1] = s[i]
OBVIOUS

(* A list that has an element more than another one, at its head.          *)
LEMMA PrependIs ==
  ASSUME NEW S, NEW s \in Seq(S), NEW e \in S, NEW t \in Seq(S), Len(t) = Len(s) + 1,
         t[1] = e, \A i \in 1 .. Len(s) : t[i + 1] = s[i]
  PROVE  t = <<e>> \o s
<1>1. /\ <<e>> \o s \in Seq(S) /\ Len(<<e>> \o s) = Len(s) + 1 /\ Len(s) \in Nat
      /\ (<<e>> \o s)[1] = e
      /\ \A i \in 1 .. Len(s) : (<<e>> \o s)[i + 1] = s[i]
  OBVIOUS
<1>2. ASSUME NEW i \in 1 .. Len(s) + 1 PROVE (<<e>> \o s)[i] = t[i]
  <2>1. CASE i = 1
    BY <1>1, <2>1
  <2>2. CASE i # 1
    <3>1. i - 1 \in 1 .. Len(s) /\ (i - 1) + 1 = i
      BY <1>1, <2>2
    <3>. QED BY <1>1, <3>1
  <2>. QED BY <2>1, <2>2
<1>. QED BY <1>1, <1>2, SeqEqual

(* Prepending adds an element to a list and takes none away.               *)
LEMMA PrependElements ==
  ASSUME NEW S, NEW s \in Seq(S), NEW e \in S
  PROVE  e \in ToSet(<<e>> \o s) /\ ToSet(s) \subseteq ToSet(<<e>> \o s)
<1>1. /\ DOMAIN (<<e>> \o s) = 1 .. Len(s) + 1 /\ DOMAIN s = 1 .. Len(s) /\ Len(s) \in Nat
      /\ (<<e>> \o s)[1] = e
      /\ \A i \in 1 .. Len(s) : (<<e>> \o s)[i + 1] = s[i] /\ i + 1 \in 1 .. Len(s) + 1
  OBVIOUS
<1>2. e \in ToSet(<<e>> \o s)
  BY <1>1 DEF ToSet
<1>3. ASSUME NEW x \in ToSet(s) PROVE x \in ToSet(<<e>> \o s)
  <2>1. PICK i \in 1 .. Len(s) : x = s[i]
    BY <1>1 DEF ToSet
  <2>2. i + 1 \in DOMAIN (<<e>> \o s) /\ (<<e>> \o s)[i + 1] = x
    BY <1>1, <2>1
  <2>. QED BY <2>2 DEF ToSet
<1>. QED BY <1>2, <1>3

(* RemoveFirst takes one occurrence of an element out of a list that has   *)
(* it, and keeps the others in order.                                      *)
LEMMA RemoveFirstSplits ==
  ASSUME NEW S, NEW s \in Seq(S), NEW e, e \in ToSet(s)
  PROVE  \E p \in 1 .. Len(s) :
           /\ s[p] = e
           /\ RemoveFirst(s, e) \in Seq(S)
           /\ Len(RemoveFirst(s, e)) = Len(s) - 1
           /\ \A i \in 1 .. Len(s) - 1 :
                RemoveFirst(s, e)[i] = IF i < p THEN s[i] ELSE s[i + 1]
<1> DEFINE I == {i \in 1 .. Len(s) : s[i] = e}
           p == Min(I)
<1>1. I # {} /\ I \subseteq Nat
  BY DEF ToSet
<1>2. p \in I
  BY <1>1, MinOfNats
<1>3. RemoveFirst(s, e) = SubSeq(s, 1, p - 1) \o SubSeq(s, p + 1, Len(s))
  BY <1>1, <1>2 DEF RemoveFirst, RemoveAt, SelectInSeq
<1>4. p \in 1 .. Len(s) /\ s[p] = e
  BY <1>2
<1> HIDE DEF I, p
<1> DEFINE before == SubSeq(s, 1, p - 1)
           after  == SubSeq(s, p + 1, Len(s))
<1>5. /\ before \in Seq(S) /\ Len(before) = p - 1
      /\ \A i \in 1 .. p - 1 : before[i] = s[i]
  BY <1>4
<1>6. /\ after \in Seq(S) /\ Len(after) = Len(s) - p
      /\ \A i \in 1 .. Len(s) - p : after[i] = s[p + i]
  BY <1>4
<1> HIDE DEF before, after
<1>7. before \o after \in Seq(S) /\ Len(before \o after) = Len(s) - 1
  <2>1. before \in Seq(S) /\ after \in Seq(S)
    BY <1>5, <1>6
  <2>2. before \o after \in Seq(S) /\ Len(before \o after) = Len(before) + Len(after)
    BY <2>1
  <2>3. Len(before) + Len(after) = Len(s) - 1
    BY <1>4, <1>5, <1>6
  <2>. QED BY <2>2, <2>3
<1>8. ASSUME NEW i \in 1 .. Len(s) - 1
      PROVE  (before \o after)[i] = IF i < p THEN s[i] ELSE s[i + 1]
  <2>1. CASE i < p
    BY <1>4, <1>5, <1>6, <2>1
  <2>2. CASE ~ (i < p)
    <3>1. (before \o after)[i] = after[i - (p - 1)]
      BY <1>4, <1>5, <1>6, <2>2
    <3>2. i - (p - 1) \in 1 .. Len(s) - p
      BY <1>4, <2>2
    <3>3. p + (i - (p - 1)) = i + 1
      BY <1>4
    <3>4. after[i - (p - 1)] = s[i + 1]
      BY <1>6, <3>2, <3>3
    <3>. QED BY <2>2, <3>1, <3>4
  <2>. QED BY <2>1, <2>2
<1>9. RemoveFirst(s, e) = before \o after
  BY <1>3 DEF before, after
<1>. QED BY <1>4, <1>7, <1>8, <1>9

\* No value but the exempt one stands at two positions of the list.
DistinctBut(exempt, list) ==
  \A i, j \in DOMAIN list : list[i] = list[j] /\ list[i] # exempt => i = j

(* Removing an element from a list in which it occurs once leaves exactly  *)
(* the other elements, which remain distinct.                              *)
LEMMA RemoveFirstElements ==
  ASSUME NEW S, NEW s \in Seq(S), NEW e, e \in ToSet(s),
         NEW exempt, e # exempt, DistinctBut(exempt, s)
  PROVE  /\ RemoveFirst(s, e) \in Seq(S)
         /\ Len(RemoveFirst(s, e)) = Len(s) - 1
         /\ ToSet(RemoveFirst(s, e)) = ToSet(s) \ {e}
         /\ DistinctBut(exempt, RemoveFirst(s, e))
<1> DEFINE r == RemoveFirst(s, e)
<1>1. PICK p \in 1 .. Len(s) :
         /\ s[p] = e
         /\ r \in Seq(S)
         /\ Len(r) = Len(s) - 1
         /\ \A i \in 1 .. Len(s) - 1 : r[i] = IF i < p THEN s[i] ELSE s[i + 1]
  BY RemoveFirstSplits
<1> HIDE DEF r
<1>2. DOMAIN s = 1 .. Len(s) /\ DOMAIN r = 1 .. Len(s) - 1 /\ Len(s) \in Nat
  BY <1>1
<1>3. ASSUME NEW x \in ToSet(r) PROVE x \in ToSet(s) \ {e}
  <2>1. PICK i \in 1 .. Len(s) - 1 : x = r[i]
    BY <1>1, <1>2 DEF ToSet
  <2>2. PICK k \in 1 .. Len(s) : k # p /\ x = s[k]
    <3>1. CASE i < p
      BY <1>1, <2>1, <3>1
    <3>2. CASE ~ (i < p)
      <4>1. i + 1 \in 1 .. Len(s) /\ i + 1 # p /\ x = s[i + 1]
        BY <1>1, <1>2, <2>1, <3>2
      <4>. QED BY <4>1
    <3>. QED BY <3>1, <3>2
  <2>3. x # e
    BY <1>1, <1>2, <2>2 DEF DistinctBut
  <2>. QED BY <1>2, <2>2, <2>3 DEF ToSet
<1>4. ASSUME NEW x \in ToSet(s), x # e PROVE x \in ToSet(r)
  <2>1. PICK i \in 1 .. Len(s) : x = s[i]
    BY <1>2 DEF ToSet
  <2>2. CASE i < p
    <3>1. i \in 1 .. Len(s) - 1 /\ r[i] = x
      BY <1>1, <1>2, <2>1, <2>2
    <3>. QED BY <1>2, <3>1 DEF ToSet
  <2>3. CASE i > p
    <3>1. i - 1 \in 1 .. Len(s) - 1 /\ ~ (i - 1 < p) /\ (i - 1) + 1 = i
      BY <1>1, <1>2, <2>1, <2>3
    <3>2. r[i - 1] = x
      BY <1>1, <2>1, <3>1
    <3>. QED BY <1>2, <3>1, <3>2 DEF ToSet
  <2>4. i # p
    BY <1>1, <1>4, <2>1
  <2>. QED BY <1>2, <2>1, <2>2, <2>3, <2>4
<1>5. ASSUME NEW i \in DOMAIN r, NEW j \in DOMAIN r, r[i] = r[j], r[i] # exempt
      PROVE  i = j
  <2> DEFINE at(k) == IF k < p THEN k ELSE k + 1
  <2>1. /\ at(i) \in DOMAIN s /\ s[at(i)] = r[i]
        /\ at(j) \in DOMAIN s /\ s[at(j)] = r[j]
    BY <1>1, <1>2
  <2>2. at(i) = at(j)
    BY <1>5, <2>1 DEF DistinctBut
  <2>. QED BY <1>1, <1>2, <2>2
<1>. QED BY <1>1, <1>3, <1>4, <1>5 DEF r, DistinctBut

(* Induction: a set with 0 and the successor of each number it has, has    *)
(* every natural number.                                                   *)
LEMMA NatInductiveSet ==
  ASSUME NEW S, 0 \in S, \A n \in Nat : n \in S => n + 1 \in S
  PROVE  Nat \subseteq S
<1> DEFINE Bad == Nat \ S
<1> SUFFICES ASSUME Bad # {} PROVE FALSE
  OBVIOUS
<1>1. Min(Bad) \in Bad /\ \A y \in Bad : Min(Bad) <= y
  BY MinOfNats
<1>2. Min(Bad) # 0 /\ Min(Bad) - 1 \in Nat /\ ~(Min(Bad) <= Min(Bad) - 1)
  BY <1>1
<1>3. Min(Bad) - 1 \in S
  BY <1>1, <1>2
<1>4. (Min(Bad) - 1) + 1 \in S
  BY <1>2, <1>3
<1>. QED BY <1>1, <1>4

(* Recursion: a start value and a step from each value to the next one     *)
(* give a list of values.                                                  *)
LEMMA RecursionExists ==
  ASSUME NEW S, NEW a \in S, NEW n \in Nat, NEW step \in [1 .. n -> [S -> S]]
  PROVE  \E f \in [0 .. n -> S] : f[0] = a /\ \A k \in 1 .. n : f[k] = step[k][f[k - 1]]
<1> DEFINE P(m) == m <= n => \E f \in [0 .. m -> S] :
                               f[0] = a /\ \A k \in 1 .. m : f[k] = step[k][f[k - 1]]
           Good == {m \in Nat : P(m)}
<1>1. P(0)
  <2> DEFINE f == [k \in 0 .. 0 |-> a]
  <2>1. f \in [0 .. 0 -> S] /\ f[0] = a /\ 1 .. 0 = {}
    OBVIOUS
  <2>. QED BY <2>1
<1>2. ASSUME NEW m \in Nat, P(m) PROVE P(m + 1)
  <2> SUFFICES ASSUME m + 1 <= n
               PROVE  \E f \in [0 .. m + 1 -> S] :
                        f[0] = a /\ \A k \in 1 .. m + 1 : f[k] = step[k][f[k - 1]]
    OBVIOUS
  <2>1. PICK f \in [0 .. m -> S] : f[0] = a /\ \A k \in 1 .. m : f[k] = step[k][f[k - 1]]
    <3>1. m <= n
      OBVIOUS
    <3>. QED BY <1>2, <3>1
  <2> DEFINE g == [k \in 0 .. m + 1 |-> IF k = m + 1 THEN step[m + 1][f[m]] ELSE f[k]]
  <2>2. f[m] \in S /\ step[m + 1] \in [S -> S]
    BY <2>1
  <2>3. step[m + 1][f[m]] \in S
    BY <2>2
  <2>4. g \in [0 .. m + 1 -> S] /\ g[0] = a
    BY <2>1, <2>3
  <2>5. ASSUME NEW k \in 1 .. m + 1 PROVE g[k] = step[k][g[k - 1]]
    <3>1. CASE k = m + 1
      <4>1. g[k] = step[m + 1][f[m]] /\ g[k - 1] = f[m]
        BY <3>1
      <4>. QED BY <3>1, <4>1
    <3>2. CASE k # m + 1
      <4>1. k \in 1 .. m /\ g[k] = f[k] /\ g[k - 1] = f[k - 1]
        BY <3>2
      <4>. QED BY <2>1, <4>1
    <3>. QED BY <3>1, <3>2
  <2> HIDE DEF g
  <2>. QED BY <2>4, <2>5
<1> HIDE DEF P
<1>3. 0 \in Good /\ \A m \in Nat : m \in Good => m + 1 \in Good
  BY <1>1, <1>2
<1> HIDE DEF Good
<1>4. n \in Good /\ n <= n
  BY <1>3, NatInductiveSet
<1>5. P(n) /\ n <= n
  BY <1>4 DEF Good
<1>. QED BY <1>5, Zenon DEF P

\* f starts with a and goes on by step, n times.
Recursion(f, a, n, step) == f[0] = a /\ \A k \in 1 .. n : f[k] = step[k][f[k - 1]]

(* A function defined by recursion exists, stated of all of them.          *)
LEMMA RecursionAlways ==
  \A S, a, n, step : a \in S /\ n \in Nat /\ step \in [1 .. n -> [S -> S]] =>
    \E f \in [0 .. n -> S] : Recursion(f, a, n, step)
<1> SUFFICES ASSUME NEW S, NEW a, NEW n, NEW step,
                    a \in S, n \in Nat, step \in [1 .. n -> [S -> S]]
             PROVE  \E f \in [0 .. n -> S] : Recursion(f, a, n, step)
  OBVIOUS
<1>1. \E f \in [0 .. n -> S] : f[0] = a /\ \A k \in 1 .. n : f[k] = step[k][f[k - 1]]
  BY RecursionExists
<1>. QED BY <1>1, Zenon DEF Recursion

-----------------------------------------------------------------------------
\* f[i] is what the first i lists of s are together.
Flattens(f, s) ==
  f[0] = <<>> /\ \A i \in 1 .. Len(s) : f[i] = f[i - 1] \o s[i]

(* Concatenations of the first lists exist, and are lists themselves.      *)
LEMMA FlatteningExists ==
  ASSUME NEW S, NEW s \in Seq(Seq(S))
  PROVE  \E f \in [0 .. Len(s) -> Seq(S)] : Flattens(f, s)
<1> DEFINE P(n) == n <= Len(s) =>
                     \E f \in [0 .. n -> Seq(S)] :
                       f[0] = <<>> /\ \A i \in 1 .. n : f[i] = f[i - 1] \o s[i]
           Good == {n \in Nat : P(n)}
<1>1. P(0)
  <2> DEFINE f == [i \in 0 .. 0 |-> <<>>]
  <2>1. f \in [0 .. 0 -> Seq(S)] /\ f[0] = <<>> /\ 1 .. 0 = {}
    OBVIOUS
  <2>. QED BY <2>1
<1>2. ASSUME NEW n \in Nat, P(n) PROVE P(n + 1)
  <2> SUFFICES ASSUME n + 1 <= Len(s)
               PROVE  \E f \in [0 .. n + 1 -> Seq(S)] :
                        f[0] = <<>> /\ \A i \in 1 .. n + 1 : f[i] = f[i - 1] \o s[i]
    OBVIOUS
  <2>1. PICK f \in [0 .. n -> Seq(S)] :
          f[0] = <<>> /\ \A i \in 1 .. n : f[i] = f[i - 1] \o s[i]
    <3>1. n <= Len(s)
      OBVIOUS
    <3>. QED BY <1>2, <3>1
  <2> DEFINE g == [i \in 0 .. n + 1 |-> IF i = n + 1 THEN f[n] \o s[n + 1] ELSE f[i]]
  <2>2. f[n] \in Seq(S) /\ s[n + 1] \in Seq(S)
    BY <2>1
  <2>3. f[n] \o s[n + 1] \in Seq(S)
    BY <2>2
  <2>4. g \in [0 .. n + 1 -> Seq(S)] /\ g[0] = <<>>
    BY <2>1, <2>3
  <2>5. ASSUME NEW i \in 1 .. n + 1 PROVE g[i] = g[i - 1] \o s[i]
    <3>1. CASE i = n + 1
      <4>1. g[i] = f[n] \o s[n + 1] /\ g[i - 1] = f[n]
        BY <3>1
      <4>. QED BY <3>1, <4>1
    <3>2. CASE i # n + 1
      <4>1. i \in 1 .. n /\ g[i] = f[i] /\ g[i - 1] = f[i - 1]
        BY <3>2
      <4>. QED BY <2>1, <4>1
    <3>. QED BY <3>1, <3>2
  <2> HIDE DEF g
  <2>. QED BY <2>4, <2>5
<1> HIDE DEF P
<1>3. 0 \in Good /\ \A n \in Nat : n \in Good => n + 1 \in Good
  BY <1>1, <1>2
<1> HIDE DEF Good
<1>4. Nat \subseteq Good
  BY <1>3, NatInductiveSet
<1>5. Len(s) \in Nat /\ P(Len(s)) /\ Len(s) <= Len(s)
  BY <1>4 DEF Good
<1>6. \E f \in [0 .. Len(s) -> Seq(S)] :
        f[0] = <<>> /\ \A i \in 1 .. Len(s) : f[i] = f[i - 1] \o s[i]
  BY <1>5, Zenon DEF P
<1>. QED BY <1>6 DEF Flattens

(* FlattenSeq is the last of them.                                         *)
LEMMA FlattenIs ==
  ASSUME NEW S, NEW s \in Seq(Seq(S)), NEW f, Flattens(f, s)
  PROVE  FlattenSeq(s) = f[Len(s)]
<1>1. CASE Len(s) = 0
  BY <1>1 DEF FlattenSeq, Flattens
<1>2. CASE Len(s) # 0
  <2> DEFINE Eq(g) == g = [i \in 1 .. Len(s) |-> IF i = 1 THEN s[i] ELSE g[i - 1] \o s[i]]
             flatten == CHOOSE g : Eq(g)
             f1 == [i \in 1 .. Len(s) |-> f[i]]
  <2>1. Len(s) \in Nat /\ 1 \in 1 .. Len(s)
    BY <1>2
  <2>2. f[1] = s[1]
    <3>1. s[1] \in Seq(S)
      BY <2>1
    <3>2. f[1] = f[1 - 1] \o s[1] /\ f[0] = <<>>
      BY <2>1, Zenon DEF Flattens
    <3>3. 1 - 1 = 0
      OBVIOUS
    <3>4. f[1] = <<>> \o s[1]
      BY <3>2, <3>3, Zenon
    <3>. QED BY <3>1, <3>4
  <2>3. Eq(f1)
    <3>1. ASSUME NEW i \in 1 .. Len(s)
          PROVE  f[i] = IF i = 1 THEN s[i] ELSE f1[i - 1] \o s[i]
      <4>1. CASE i = 1
        BY <2>2, <4>1
      <4>2. CASE i # 1
        <5>1. i - 1 \in 1 .. Len(s)
          BY <2>1, <4>2
        <5>. QED BY <4>2, <5>1 DEF Flattens
      <4>. QED BY <4>1, <4>2
    <3>. QED BY <3>1
  <2>4. Eq(flatten)
    BY <2>3, Zenon
  <2> HIDE DEF flatten
  <2>5. \A i \in 1 .. Len(s) : flatten[i] = IF i = 1 THEN s[i] ELSE flatten[i - 1] \o s[i]
    BY <2>4
  <2> DEFINE Same == {n \in Nat : n + 1 <= Len(s) => flatten[n + 1] = f[n + 1]}
  <2>6. 0 \in Same
    BY <2>1, <2>2, <2>5
  <2>7. ASSUME NEW n \in Nat, n \in Same PROVE n + 1 \in Same
    <3> SUFFICES ASSUME n + 2 <= Len(s) PROVE flatten[n + 2] = f[n + 2]
      OBVIOUS
    <3>1. /\ n + 2 \in 1 .. Len(s) /\ n + 2 # 1 /\ (n + 2) - 1 = n + 1
          /\ flatten[n + 1] = f[n + 1]
      BY <2>1, <2>7
    <3>2. flatten[n + 2] = flatten[n + 1] \o s[n + 2]
      BY <2>5, <3>1
    <3>3. f[n + 2] = f[n + 1] \o s[n + 2]
      BY <3>1 DEF Flattens
    <3>. QED BY <3>1, <3>2, <3>3
  <2>8. 0 \in Same /\ \A n \in Nat : n \in Same => n + 1 \in Same
    BY <2>6, <2>7
  <2>9. flatten[Len(s)] = f[Len(s)]
    <3> HIDE DEF Same
    <3>1. Nat \subseteq Same
      BY <2>8, NatInductiveSet
    <3>2. Len(s) - 1 \in Same
      BY <1>2, <2>1, <3>1
    <3>3. (Len(s) - 1) + 1 = Len(s)
      BY <2>1
    <3>. QED BY <2>1, <3>2, <3>3 DEF Same
  <2>10. FlattenSeq(s) = flatten[Len(s)]
    BY <1>2 DEF FlattenSeq, flatten
  <2>. QED BY <2>9, <2>10
<1>. QED BY <1>1, <1>2

(* The concatenation of no lists, and of some lists and one more.          *)
LEMMA FlattenEmpty == FlattenSeq(<<>>) = <<>>
BY DEF FlattenSeq

(* Concatenating a list more adds that list at the end.                    *)
LEMMA FlattenAppend ==
  ASSUME NEW S, NEW s \in Seq(Seq(S)), NEW e \in Seq(S)
  PROVE  /\ FlattenSeq(s) \in Seq(S)
         /\ FlattenSeq(Append(s, e)) = FlattenSeq(s) \o e
<1> DEFINE t == Append(s, e)
<1>1. /\ t \in Seq(Seq(S)) /\ Len(t) = Len(s) + 1 /\ Len(s) \in Nat
      /\ t[Len(s) + 1] = e /\ \A i \in 1 .. Len(s) : t[i] = s[i]
  OBVIOUS
<1> HIDE DEF t
<1>2. PICK f \in [0 .. Len(t) -> Seq(S)] : Flattens(f, t)
  BY <1>1, FlatteningExists
<1>3. f[0] = <<>> /\ \A i \in 1 .. Len(t) : f[i] = f[i - 1] \o t[i]
  BY <1>2 DEF Flattens
<1>7. Flattens(f, s)
  <2>1. \A i \in 1 .. Len(s) : i \in 1 .. Len(t) /\ t[i] = s[i]
    BY <1>1
  <2>2. \A i \in 1 .. Len(s) : f[i] = f[i - 1] \o s[i]
    BY <1>3, <2>1
  <2>. QED BY <1>3, <2>2 DEF Flattens
<1>4. FlattenSeq(t) = f[Len(t)] /\ FlattenSeq(s) = f[Len(s)]
  BY <1>1, <1>2, <1>7, FlattenIs
<1>5. f[Len(t)] = f[Len(s)] \o e
  <2>1. Len(t) \in 1 .. Len(t) /\ Len(t) - 1 = Len(s) /\ t[Len(t)] = e
    BY <1>1
  <2>. QED BY <1>3, <2>1
<1>6. f[Len(s)] \in Seq(S)
  BY <1>1, <1>2
<1>. QED BY <1>4, <1>5, <1>6 DEF t

(* Concatenating the first of the lists and then the others.               *)
LEMMA FlattenPrefix ==
  ASSUME NEW S, NEW s \in Seq(Seq(S)), NEW n \in 1 .. Len(s)
  PROVE  FlattenSeq(SubSeq(s, 1, n)) = FlattenSeq(SubSeq(s, 1, n - 1)) \o s[n]
<1> DEFINE p == SubSeq(s, 1, n - 1)
<1>1. p \in Seq(Seq(S)) /\ s[n] \in Seq(S)
  OBVIOUS
<1>2. SubSeq(s, 1, n) = Append(p, s[n])
  OBVIOUS
<1> HIDE DEF p
<1>. QED BY <1>1, <1>2, FlattenAppend DEF p

(* A flattened list is one of what the lists in it are lists of.           *)
LEMMA FlattenTyped ==
  ASSUME NEW S, NEW s \in Seq(Seq(S))
  PROVE  FlattenSeq(s) \in Seq(S)
<1>1. <<>> \in Seq(S)
  OBVIOUS
<1>. QED BY <1>1, FlattenAppend

(* Concatenating the lists of two lists of lists.                          *)
LEMMA FlattenConcat ==
  ASSUME NEW S, NEW s \in Seq(Seq(S)), NEW t \in Seq(Seq(S))
  PROVE  FlattenSeq(s \o t) = FlattenSeq(s) \o FlattenSeq(t)
<1> DEFINE u == s \o t
<1>1. /\ u \in Seq(Seq(S)) /\ Len(u) = Len(s) + Len(t) /\ Len(s) \in Nat /\ Len(t) \in Nat
      /\ \A i \in 1 .. Len(s) : u[i] = s[i]
      /\ \A i \in 1 .. Len(t) : u[Len(s) + i] = t[i]
  OBVIOUS
<1> HIDE DEF u
<1>2. PICK f \in [0 .. Len(u) -> Seq(S)] : Flattens(f, u)
  BY <1>1, FlatteningExists
<1>3. PICK g \in [0 .. Len(t) -> Seq(S)] : Flattens(g, t)
  BY FlatteningExists
<1>4. f[0] = <<>> /\ \A i \in 1 .. Len(u) : f[i] = f[i - 1] \o u[i]
  BY <1>2 DEF Flattens
<1>5. g[0] = <<>> /\ \A i \in 1 .. Len(t) : g[i] = g[i - 1] \o t[i]
  BY <1>3 DEF Flattens
<1>6. Flattens(f, s)
  <2>1. \A i \in 1 .. Len(s) : i \in 1 .. Len(u) /\ u[i] = s[i]
    BY <1>1
  <2>2. \A i \in 1 .. Len(s) : f[i] = f[i - 1] \o s[i]
    BY <1>4, <2>1
  <2>. QED BY <1>4, <2>2 DEF Flattens
<1> DEFINE Done(i) == i <= Len(t) => f[Len(s) + i] = f[Len(s)] \o g[i]
           Good == {i \in Nat : Done(i)}
<1>7. f[Len(s)] \in Seq(S)
  BY <1>1, <1>2
<1>8. Done(0)
  <2>1. f[Len(s)] \o <<>> = f[Len(s)] /\ Len(s) + 0 = Len(s)
    BY <1>1, <1>7
  <2>. QED BY <1>5, <2>1
<1>9. ASSUME NEW i \in Nat, Done(i) PROVE Done(i + 1)
  <2> SUFFICES ASSUME i + 1 <= Len(t) PROVE f[Len(s) + (i + 1)] = f[Len(s)] \o g[i + 1]
    OBVIOUS
  <2>1. /\ i + 1 \in 1 .. Len(t) /\ (i + 1) - 1 = i /\ i \in 0 .. Len(t)
        /\ Len(s) + (i + 1) \in 1 .. Len(u) /\ (Len(s) + (i + 1)) - 1 = Len(s) + i
    BY <1>1
  <2>2. f[Len(s) + i] = f[Len(s)] \o g[i]
    BY <1>9, <2>1
  <2>3. f[Len(s) + (i + 1)] = f[Len(s) + i] \o u[Len(s) + (i + 1)]
    BY <1>4, <2>1
  <2>4. g[i + 1] = g[i] \o t[i + 1] /\ u[Len(s) + (i + 1)] = t[i + 1]
    BY <1>1, <1>5, <2>1
  <2>5. g[i] \in Seq(S)
    BY <1>3, <2>1
  <2>6. t[i + 1] \in Seq(S)
    BY <1>1, <2>1
  <2>7. (f[Len(s)] \o g[i]) \o t[i + 1] = f[Len(s)] \o (g[i] \o t[i + 1])
    <3>1. ASSUME NEW a \in Seq(S), NEW b \in Seq(S), NEW c \in Seq(S)
          PROVE  (a \o b) \o c = a \o (b \o c)
      BY ONLY ConcatAssociative
    <3>. QED BY <1>7, <2>5, <2>6, <3>1, Zenon
  <2>. QED BY <2>2, <2>3, <2>4, <2>7
<1> HIDE DEF Done
<1>10. 0 \in Good /\ \A i \in Nat : i \in Good => i + 1 \in Good
  BY <1>8, <1>9
<1> HIDE DEF Good
<1>11. Done(Len(t)) /\ Len(t) <= Len(t)
  <2>1. Nat \subseteq Good
    BY <1>10, NatInductiveSet
  <2>. QED BY <1>1, <2>1 DEF Good
<1>12. f[Len(s) + Len(t)] = f[Len(s)] \o g[Len(t)]
  BY <1>11 DEF Done
<1>13. /\ FlattenSeq(u) = f[Len(u)] /\ FlattenSeq(s) = f[Len(s)]
       /\ FlattenSeq(t) = g[Len(t)]
  BY <1>1, <1>2, <1>3, <1>6, FlattenIs
<1>. QED BY <1>1, <1>12, <1>13 DEF u

(* The concatenation of one list, and of one more in front of others.      *)
LEMMA FlattenPrepend ==
  ASSUME NEW S, NEW e \in Seq(S), NEW s \in Seq(Seq(S))
  PROVE  FlattenSeq(<<e>>) = e /\ FlattenSeq(<<e>> \o s) = e \o FlattenSeq(s)
<1>1. FlattenSeq(<<e>>) = e
  <2>1. <<e>> = Append(<<>>, e) /\ <<>> \in Seq(Seq(S)) /\ <<>> \o e = e
    OBVIOUS
  <2>. QED BY <2>1, FlattenAppend, FlattenEmpty
<1>2. <<e>> \in Seq(Seq(S))
  OBVIOUS
<1>. QED BY <1>1, <1>2, FlattenConcat
-----------------------------------------------------------------------------
(* UpToNul cuts a text in front of its first NUL.                          *)
LEMMA CutAtNul ==
  ASSUME NEW S, NEW s \in Seq(S)
  PROVE  /\ UpToNul(s) \in Seq(S)
         /\ Nul \in ToSet(s) =>
              \E p \in 1 .. Len(s) : /\ s[p] = Nul /\ \A i \in 1 .. p - 1 : s[i] # Nul
                                     /\ UpToNul(s) = SubSeq(s, 1, p - 1)
         /\ Nul \notin ToSet(s) => UpToNul(s) = s
<1>1. CASE Nul \in ToSet(s)
  <2> DEFINE I == {i \in 1 .. Len(s) : s[i] = Nul}
             p == Min(I)
  <2>1. I # {} /\ I \subseteq Nat
    BY <1>1 DEF ToSet
  <2>2. p \in I /\ \A i \in I : p <= i
    BY <2>1, MinOfNats
  <2>3. UpToNul(s) = SubSeq(s, 1, p - 1)
    BY <1>1, <2>1 DEF UpToNul, SelectInSeq
  <2> HIDE DEF p
  <2>4. \A i \in 1 .. p - 1 : i \notin I /\ i \in 1 .. Len(s)
    BY <2>2
  <2>5. SubSeq(s, 1, p - 1) \in Seq(S)
    BY <2>2
  <2> QED BY <1>1, <2>2, <2>3, <2>4, <2>5
<1> QED BY <1>1 DEF UpToNul

\* s are the n elements of t behind q.
Behind(t, q, n, s) ==
  s = SubSeq(t, q + 1, q + n) /\ Len(s) = n /\ SubSeq(t, 1, q) \o s = SubSeq(t, 1, q + n)

(* fgets reads on from where it is, at least a byte, and not more than     *)
(* what leaves room for the NUL.                                           *)
LEMMA FgetsReads ==
  ASSUME NEW S, NEW t \in Seq(S), NEW q \in Nat, q < Len(t),
         NEW size \in Nat, size > 1
  PROVE  /\ Fgets(t, q, size) \in Seq(S)
         /\ \E n \in 1 .. Len(t) - q : n < size /\ Behind(t, q, n, Fgets(t, q, size))
<1> DEFINE K == {k \in 1 .. Len(t) - q :
                   k = size - 1 \/ t[q + k] = Newline \/ q + k = Len(t)}
           n == Min(K)
<1>1. Len(t) - q \in K /\ K \subseteq Nat /\ (size - 1 \in 1 .. Len(t) - q => size - 1 \in K)
  OBVIOUS
<1>2. n \in K /\ \A k \in K : n <= k
  BY <1>1, MinOfNats
<1>3. Fgets(t, q, size) = SubSeq(t, q + 1, q + n)
  BY DEF Fgets
<1> HIDE DEF n
<1>4. n \in 1 .. Len(t) - q /\ n < size
  <2>1. n \in 1 .. Len(t) - q /\ Len(t) \in Nat
    BY <1>2
  <2>2. CASE size - 1 \in 1 .. Len(t) - q
    <3>1. n <= size - 1
      BY <1>1, <1>2, <2>2
    <3> QED BY <2>1, <3>1
  <2>3. CASE size - 1 \notin 1 .. Len(t) - q
    BY <2>1, <2>3
  <2> QED BY <2>1, <2>2, <2>3
<1>5. /\ SubSeq(t, q + 1, q + n) \in Seq(S) /\ Len(SubSeq(t, q + 1, q + n)) = n
      /\ SubSeq(t, 1, q) \o SubSeq(t, q + 1, q + n) = SubSeq(t, 1, q + n)
  BY <1>4
<1> QED BY <1>3, <1>4, <1>5 DEF Behind
=============================================================================
