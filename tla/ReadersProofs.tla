------------------------------ MODULE ReadersProofs -----------------------------
(***************************************************************************)
(* The programs of U01, U06 and U07 on inputs of any length.  In a run of  *)
(* wc the three counters are, after each byte, the numbers of newlines,    *)
(* words and bytes read so far; in a run of cat what was written is always *)
(* what was read; in one of pseudo-grep it is the lines with the pattern   *)
(* up to the one that is searched; in one of mult-test the sum is that of  *)
(* the products so far; and drive-ls is in the directory that the names    *)
(* it has found lead to, at addresses that are right for every geometry.   *)
(***************************************************************************)
EXTENDS Readers, ListLemmas, FiniteSetTheorems

\* The streams that are read to their end have no other states.
Ended == {"exit_ok", "exit_error"}

(* Only drive-ls makes steps where drive-ls alone can be, so that a step   *)
(* from elsewhere is one of the program that runs.                         *)
LEMMA OwnStep ==
  ASSUME Next
  PROVE  /\ prog' = prog
         /\ pc \in {"read", "print"} \cup Ended /\ prog = "wc" => WcStep
         /\ pc \in {"read", "print"} \cup Ended /\ prog = "cat" => CatStep
         /\ pc \in {"read", "print"} \cup Ended /\ prog = "grep" => GrepStep
         /\ pc \in {"read", "print"} \cup Ended /\ prog = "mult" => MultStep
         /\ prog = "drive-ls" => LsStep
<1>1. LsStep => pc \notin {"read", "print"} \cup Ended /\ prog' = prog
  BY DEF LsStep, NewIterator, NextInCluster, EndOfRoot, EndOfChain, NextCluster, AtMax,
         LsReadFails, SkipEntry, LastEntry, PrintName, Compare, ReadEntry, Ended
<1>2. WcStep => prog = "wc" /\ prog' = prog
  BY DEF WcStep, CountByte, Summary, ReadFails, Reading
<1>3. CatStep => prog = "cat" /\ prog' = prog
  BY DEF CatStep, CopyPiece, NextFile, ReadFails, Reading
<1>4. GrepStep => prog = "grep" /\ prog' = prog
  BY DEF GrepStep, MatchOne, MatchLast, Mismatch, SeekFails, PrintByte, PrintEof, SearchDone,
         ReadsOn, ReadFails, Reading
<1>5. MultStep => prog = "mult" /\ prog' = prog
  BY DEF MultStep, ReadSum, AddProduct, IllegalFormat, Verdict, ReadsLine, Reading
<1>. QED
  BY <1>1, <1>2, <1>3, <1>4, <1>5 DEF Next
-------------------------------------------------------------------------------
(* wc                                                                      *)

\* in_word tells whether the last byte read was one of a word.
InWord(t, n) == n > 0 /\ ~is_whitespace(t[n])

\* The inductive invariant: every counter is right for what is behind pos.
WcInv ==
  /\ prog = "wc" /\ pc \in {"read"} \cup Ended
  /\ text \in Seq(Bytes) /\ pos \in 0 .. Len(text)
  /\ byte_cnt = pos
  /\ newline_cnt = Cardinality(NewlinesIn(text, pos))
  /\ word_cnt = Cardinality(WordsIn(text, pos))
  /\ in_word = InWord(text, pos)
  /\ CountsFit

(* A byte more adds its position to the newlines if it is one.             *)
LEMMA OneMoreNewline ==
  ASSUME NEW t, NEW n \in Nat
  PROVE  /\ t[n + 1] = Newline => NewlinesIn(t, n + 1) = NewlinesIn(t, n) \cup {n + 1}
         /\ t[n + 1] # Newline => NewlinesIn(t, n + 1) = NewlinesIn(t, n)
         /\ n + 1 \notin NewlinesIn(t, n)
         /\ IsFiniteSet(NewlinesIn(t, n))
<1>1. 1 .. n + 1 = (1 .. n) \cup {n + 1} /\ n + 1 \notin 1 .. n
  OBVIOUS
<1>2. IsFiniteSet(NewlinesIn(t, n))
  <2>1. IsFiniteSet(1 .. n) /\ NewlinesIn(t, n) \subseteq 1 .. n
    BY FS_Interval DEF NewlinesIn
  <2> QED BY <2>1, FS_Subset
<1> QED
  BY <1>1, <1>2 DEF NewlinesIn

(* A byte more adds its position to the words if it begins one.            *)
LEMMA OneMoreWord ==
  ASSUME NEW t, NEW n \in Nat
  PROVE  /\ ~InWord(t, n) /\ ~is_whitespace(t[n + 1])
              => WordsIn(t, n + 1) = WordsIn(t, n) \cup {n + 1}
         /\ InWord(t, n) \/ is_whitespace(t[n + 1]) => WordsIn(t, n + 1) = WordsIn(t, n)
         /\ n + 1 \notin WordsIn(t, n)
         /\ IsFiniteSet(WordsIn(t, n))
<1> DEFINE Begins(i) == ~is_whitespace(t[i]) /\ (i > 1 => is_whitespace(t[i - 1]))
<1>1. 1 .. n + 1 = (1 .. n) \cup {n + 1} /\ n + 1 \notin 1 .. n
  OBVIOUS
<1>2. IsFiniteSet(WordsIn(t, n))
  <2>1. IsFiniteSet(1 .. n) /\ WordsIn(t, n) \subseteq 1 .. n
    BY FS_Interval DEF WordsIn
  <2> QED BY <2>1, FS_Subset
<1>3. Begins(n + 1) <=> ~InWord(t, n) /\ ~is_whitespace(t[n + 1])
  <2>1. n + 1 - 1 = n /\ (n + 1 > 1 <=> n > 0)
    OBVIOUS
  <2> QED BY <2>1 DEF InWord
<1>4. \A m : WordsIn(t, m) = {i \in 1 .. m : Begins(i)}
  BY DEF WordsIn
<1> QED
  <2> HIDE DEF Begins
  <2>1. Begins(n + 1) => WordsIn(t, n + 1) = WordsIn(t, n) \cup {n + 1}
    BY <1>1, <1>4
  <2>2. ~Begins(n + 1) => WordsIn(t, n + 1) = WordsIn(t, n)
    BY <1>1, <1>4
  <2>3. n + 1 \notin WordsIn(t, n)
    BY <1>1, <1>4
  <2> QED BY <1>2, <1>3, <2>1, <2>2, <2>3

(* Reading a byte keeps the counters right.                                *)
LEMMA CountingKeepsInv ==
  ASSUME WcInv, CountByte
  PROVE  WcInv'
<1>0. /\ text \in Seq(Bytes) /\ pos \in 0 .. Len(text) /\ pos # Len(text)
      /\ Len(text) \in Nat /\ text' = text /\ pos' = pos + 1
      /\ prog' = "wc" /\ pc = "read" /\ pc' = pc
  BY LenProperties DEF WcInv, CountByte, Reading, AtEof
<1>1. pos' \in 0 .. Len(text') /\ pos \in Nat
  BY <1>0
<1>2. byte_cnt' = pos'
  BY <1>0 DEF WcInv, CountByte
<1>3. newline_cnt' = Cardinality(NewlinesIn(text, pos + 1))
  <2>1. newline_cnt = Cardinality(NewlinesIn(text, pos))
    BY DEF WcInv
  <2>2. CASE text[pos + 1] = Newline
    <3>1. newline_cnt' = newline_cnt + 1
      BY <2>2 DEF CountByte
    <3> QED BY <1>1, <2>1, <2>2, <3>1, OneMoreNewline, FS_AddElement
  <2>3. CASE text[pos + 1] # Newline
    <3>1. newline_cnt' = newline_cnt
      BY <2>3 DEF CountByte
    <3> QED BY <1>1, <2>1, <2>3, <3>1, OneMoreNewline
  <2> QED BY <2>2, <2>3
<1>4. word_cnt' = Cardinality(WordsIn(text, pos + 1))
  <2>1. word_cnt = Cardinality(WordsIn(text, pos)) /\ in_word = InWord(text, pos)
    BY DEF WcInv
  <2>2. CASE WordBegins(text[pos + 1])
    <3>1. word_cnt' = word_cnt + 1
      BY <2>2 DEF CountByte
    <3>2. ~InWord(text, pos) /\ ~is_whitespace(text[pos + 1])
      BY <2>1, <2>2 DEF WordBegins
    <3> QED BY <1>1, <2>1, <3>1, <3>2, OneMoreWord, FS_AddElement
  <2>3. CASE ~WordBegins(text[pos + 1])
    <3>1. word_cnt' = word_cnt
      BY <2>3 DEF CountByte
    <3>2. InWord(text, pos) \/ is_whitespace(text[pos + 1])
      BY <2>1, <2>3 DEF WordBegins
    <3> QED BY <1>1, <2>1, <3>1, <3>2, OneMoreWord
  <2> QED BY <2>2, <2>3
<1>5. in_word' = InWord(text, pos + 1)
  <2>1. in_word' = ~is_whitespace(text[pos + 1])
    BY DEF CountByte
  <2>2. pos + 1 > 0
    BY <1>1
  <2> QED BY <2>1, <2>2 DEF InWord
<1>6. CountsFit'
  BY <1>0 DEF CountsFit
<1> QED
  BY <1>0, <1>1, <1>2, <1>3, <1>4, <1>5, <1>6 DEF WcInv

(* The other steps leave the counters as they are.                         *)
LEMMA WcKeepsInv ==
  ASSUME WcInv, WcStep
  PROVE  WcInv'
<1>1. CASE CountByte
  BY <1>1, CountingKeepsInv
<1>2. CASE Summary
  <2>1. /\ pos = Len(text) /\ byte_cnt = pos
        /\ out' = <<newline_cnt, word_cnt, byte_cnt>>
    BY <1>2 DEF WcInv, Summary, AtEof
  <2>2. UNCHANGED <<prog, text, pos, newline_cnt, word_cnt, byte_cnt, in_word>> /\ pc' = "exit_ok"
    BY <1>2 DEF Summary, wcVars
  <2>3. CountsFit'
    BY <2>1, <2>2 DEF WcInv, CountsFit
  <2> QED BY <2>2, <2>3 DEF WcInv, Ended
<1>3. CASE ReadFails("wc") /\ UNCHANGED wcVars
  <2>1. /\ UNCHANGED <<prog, text, pos, newline_cnt, word_cnt, byte_cnt, in_word>>
        /\ pc' = "exit_error"
    BY <1>3 DEF ReadFails, wcVars
  <2>2. CountsFit'
    BY <2>1 DEF CountsFit
  <2> QED BY <2>1, <2>2 DEF WcInv, Ended
<1> QED BY <1>1, <1>2, <1>3 DEF WcStep

(* At the start nothing is counted.                                        *)
LEMMA WcStartsRight ==
  ASSUME WcInit
  PROVE  WcInv
<1>1. /\ prog = "wc" /\ text \in Seq(Bytes) /\ pos = 0 /\ pc = "read"
      /\ newline_cnt = 0 /\ word_cnt = 0 /\ byte_cnt = 0 /\ in_word = FALSE
  BY WcAssumption DEF WcInit, WcZero, Opened
<1>2. Len(text) \in Nat /\ 1 .. 0 = {}
  BY <1>1
<1>3. Cardinality(NewlinesIn(text, 0)) = 0 /\ Cardinality(WordsIn(text, 0)) = 0
  BY <1>2, FS_EmptySet DEF NewlinesIn, WordsIn
<1>4. 0 \in 0 .. Len(text) /\ InWord(text, 0) = FALSE
  BY <1>2 DEF InWord
<1>5. CountsFit
  BY <1>1 DEF CountsFit
<1>6. in_word = InWord(text, pos)
  BY <1>1, <1>4, Zenon
<1> QED BY <1>1, <1>3, <1>4, <1>5, <1>6 DEF WcInv

-------------------------------------------------------------------------------
(* cat                                                                     *)

\* The inductive invariant: the place in the list of files, and what was
\* written up to it.
CatInv ==
  /\ prog = "cat" /\ pc \in {"read"} \cup Ended
  /\ files \in Seq(Seq(Bytes)) /\ file_nr \in 1 .. Len(files)
  /\ text = files[file_nr] /\ pos \in 0 .. Len(text)
  /\ CopiesInOrder

NoNul == \A i \in 1 .. Len(files) : Nul \notin ToSet(files[i])

(* A piece that is read is written whole.                                  *)
LEMMA CopyKeepsInv ==
  ASSUME CatInv, CopyPiece
  PROVE  CatInv'
<1>1. /\ files \in Seq(Seq(Bytes)) /\ file_nr \in 1 .. Len(files) /\ text = files[file_nr]
      /\ pos \in 0 .. Len(text) /\ pos # Len(text) /\ BufSize \in Nat /\ BufSize > 1
  BY CatAssumption DEF CatInv, CopyPiece, AtEof
<1>2. /\ text \in Seq(Bytes) /\ pos \in Nat /\ pos < Len(text) /\ Len(text) \in Nat
      /\ BufSize \in Nat /\ BufSize > 1
  BY <1>1
<1>3. PICK b : b = Fgets(text, pos, BufSize)
  OBVIOUS
<1>4. PICK n \in 1 .. Len(text) - pos :
        /\ b = SubSeq(text, pos + 1, pos + n) /\ b \in Seq(Bytes) /\ Len(b) = n
        /\ SubSeq(text, 1, pos) \o b = SubSeq(text, 1, pos + n)
  BY <1>2, <1>3, FgetsReads DEF Behind
<1>5. /\ out' = out \o UpToNul(b) /\ pos' = pos + n
      /\ UNCHANGED <<prog, pc, text, files, file_nr>>
  BY <1>3, <1>4 DEF CopyPiece, Printed, catVars
<1>6. pos + n \in 0 .. Len(text)
  BY <1>2, <1>4
<1>7. CASE NoNul
  <2>1. Nul \notin ToSet(b)
    <3>1. ASSUME NEW k \in 1 .. n
          PROVE  b[k] = text[pos + k] /\ pos + k \in 1 .. Len(text)
      <4>1. pos + k \in 1 .. Len(text)
        BY <1>2
      <4>2. SubSeq(text, pos + 1, pos + n)[k] = text[pos + k]
        BY <1>2
      <4> QED BY <1>4, <4>1, <4>2
    <3>2. Nul \notin ToSet(text)
      BY <1>1, <1>7 DEF NoNul
    <3> QED BY <1>2, <1>4, <3>1, <3>2 DEF ToSet
  <2>2. UpToNul(b) = b
    BY <1>4, <2>1, CutAtNul
  <2> DEFINE F == FlattenSeq(SubSeq(files, 1, file_nr - 1))
             t == SubSeq(text, 1, pos)
  <2>3. out = F \o t
    BY <1>7 DEF CatInv, CopiesInOrder, NoNul
  <2>4. F \in Seq(Bytes)
    <3>1. SubSeq(files, 1, file_nr - 1) \in Seq(Seq(Bytes))
      BY <1>1
    <3> QED BY <3>1, FlattenTyped
  <2>5. t \in Seq(Bytes) /\ b \in Seq(Bytes)
    BY <1>2, <1>4
  <2> HIDE DEF F, t
  <2>6. (F \o t) \o b = F \o (t \o b)
    BY ONLY <2>4, <2>5, ConcatAssociative
  <2>7. out' = F \o SubSeq(text, 1, pos + n)
    BY <1>4, <1>5, <2>2, <2>3, <2>6 DEF t
  <2>8. CopiesInOrder'
    BY <1>5, <2>7 DEF CopiesInOrder, F
  <2> QED BY <1>1, <1>5, <1>6, <2>8 DEF CatInv
<1>8. CASE ~NoNul
  <2>1. CopiesInOrder'
    BY <1>5, <1>8 DEF CopiesInOrder, NoNul
  <2> QED BY <1>1, <1>5, <1>6, <2>1 DEF CatInv
<1> QED BY <1>7, <1>8

(* At the end of a file all of it has been written.                        *)
LEMMA NextFileKeepsInv ==
  ASSUME CatInv, NextFile
  PROVE  CatInv'
<1>1. /\ files \in Seq(Seq(Bytes)) /\ file_nr \in 1 .. Len(files) /\ text = files[file_nr]
      /\ pos = Len(text) /\ Len(files) \in Nat /\ UNCHANGED <<prog, out, files>>
      /\ pc = "read"
  BY DEF CatInv, NextFile, AtEof, Reading
<1>2. CASE UNCHANGED <<text, pos, file_nr>> /\ pc' \in Ended
  <2>1. CopiesInOrder'
    BY <1>1, <1>2 DEF CatInv, CopiesInOrder
  <2> QED BY <1>1, <1>2, <2>1 DEF CatInv
<1>3. CASE /\ file_nr < Len(files) /\ file_nr' = file_nr + 1
           /\ text' = files[file_nr + 1] /\ pos' = 0 /\ UNCHANGED pc
  <2>1. file_nr + 1 \in 1 .. Len(files)
    BY <1>1, <1>3
  <2>2. files[file_nr + 1] \in Seq(Bytes)
    BY <1>1, <2>1
  <2>3. 0 \in 0 .. Len(files[file_nr + 1]) /\ SubSeq(text', 1, 0) = <<>>
    BY <1>3, <2>2
  <2>4. text \in Seq(Bytes) /\ SubSeq(text, 1, pos) = text
    BY <1>1
  <2>5. FlattenSeq(SubSeq(files, 1, file_nr)) = FlattenSeq(SubSeq(files, 1, file_nr - 1)) \o text
    BY <1>1, FlattenPrefix
  <2>6. FlattenSeq(SubSeq(files, 1, file_nr)) \in Seq(Bytes)
    <3>1. SubSeq(files, 1, file_nr) \in Seq(Seq(Bytes))
      BY <1>1
    <3> QED BY <3>1, FlattenTyped
  <2>7. ASSUME NoNul PROVE out' = FlattenSeq(SubSeq(files, 1, file_nr)) \o SubSeq(text', 1, 0)
    <3>1. out = FlattenSeq(SubSeq(files, 1, file_nr - 1)) \o SubSeq(text, 1, pos)
      BY <2>7 DEF CatInv, CopiesInOrder, NoNul
    <3>2. out' = FlattenSeq(SubSeq(files, 1, file_nr))
      BY <1>1, <2>4, <2>5, <3>1
    <3> HIDE DEF NoNul
    <3> QED BY <2>3, <2>6, <3>2
  <2>8. file_nr' - 1 = file_nr
    BY <1>1, <1>3
  <2>9. CopiesInOrder'
    BY <1>1, <1>3, <2>7, <2>8 DEF CopiesInOrder, NoNul
  <2> QED BY <1>1, <1>3, <2>1, <2>3, <2>9 DEF CatInv
<1> QED BY <1>2, <1>3 DEF NextFile, Ended

(* Each of cat's steps keeps the invariant.                                *)
LEMMA CatKeepsInv ==
  ASSUME CatInv, CatStep
  PROVE  CatInv'
<1>1. CASE ReadFails("cat") /\ UNCHANGED catVars
  BY <1>1 DEF CatInv, CopiesInOrder, ReadFails, catVars, Ended
<1> QED BY <1>1, CopyKeepsInv, NextFileKeepsInv DEF CatStep

(* Before the first byte nothing is written.                               *)
LEMMA CatStartsRight ==
  ASSUME CatInit
  PROVE  CatInv
<1>1. /\ prog = "cat" /\ pc = "read" /\ pos = 0 /\ out = <<>> /\ file_nr = 1
      /\ files \in Seq(Seq(Bytes)) /\ files # <<>> /\ text = files[1]
  BY CatAssumption DEF CatInit, Opened
<1>2. 1 \in 1 .. Len(files) /\ text \in Seq(Bytes)
  BY <1>1
<1>3. 0 \in 0 .. Len(text) /\ SubSeq(text, 1, 0) = <<>> /\ SubSeq(files, 1, 1 - 1) = <<>>
  BY <1>1, <1>2
<1>4. out = FlattenSeq(SubSeq(files, 1, file_nr - 1)) \o SubSeq(text, 1, pos)
  <2>1. SubSeq(files, 1, file_nr - 1) = <<>> /\ SubSeq(text, 1, pos) = <<>>
    BY <1>1, <1>3
  <2>2. <<>> \o <<>> = <<>>
    OBVIOUS
  <2> QED BY <1>1, <2>1, <2>2, FlattenEmpty, Zenon
<1> QED BY <1>1, <1>2, <1>3, <1>4 DEF CatInv, CopiesInOrder
-------------------------------------------------------------------------------
(* pseudo-grep                                                             *)

\* f[n] are those of the first n bytes of t that are on lines with p.
Grows(f, t, p) ==
  /\ f[0] = <<>>
  /\ \A n \in 1 .. Len(t) :
       f[n] = IF Matching(t, p, n) THEN Append(f[n - 1], t[n]) ELSE f[n - 1]

(* The definition by recursion is one: there is such a function.           *)
LEMMA MatchingBytesGrow ==
  ASSUME NEW t \in Seq(Bytes), NEW p
  PROVE  Grows(MatchingBytes(t, p), t, p)
<1> DEFINE n == Len(t)
           Eq(g) == g = [k \in 0 .. n |->
                           IF k = 0 THEN <<>>
                           ELSE IF Matching(t, p, k) THEN Append(g[k - 1], t[k]) ELSE g[k - 1]]
           bytes == CHOOSE g : Eq(g)
           step == [k \in 1 .. n |-> [s \in Seq(Bytes) |->
                      IF Matching(t, p, k) THEN Append(s, t[k]) ELSE s]]
<1>1. n \in Nat /\ \A k \in 1 .. n : t[k] \in Bytes
  OBVIOUS
<1>2. step \in [1 .. n -> [Seq(Bytes) -> Seq(Bytes)]]
  <2>1. \A k \in 1 .. n : \A s \in Seq(Bytes) :
          (IF Matching(t, p, k) THEN Append(s, t[k]) ELSE s) \in Seq(Bytes)
    BY <1>1
  <2>. QED BY <2>1
<1>3. \A k \in 1 .. n : \A s \in Seq(Bytes) :
        step[k][s] = IF Matching(t, p, k) THEN Append(s, t[k]) ELSE s
  OBVIOUS
<1> HIDE DEF step
<1>4. PICK f \in [0 .. n -> Seq(Bytes)] :
        f[0] = <<>> /\ \A k \in 1 .. n : f[k] = step[k][f[k - 1]]
  <2>1. PICK S, a, l : S = Seq(Bytes) /\ a = <<>> /\ l = n
    OBVIOUS
  <2>2. a \in S /\ step \in [1 .. l -> [S -> S]] /\ l \in Nat
    <3>1. <<>> \in Seq(Bytes)
      OBVIOUS
    <3>. QED BY <1>1, <1>2, <2>1, <3>1, Zenon
  <2>3. \E f \in [0 .. l -> S] : f[0] = a /\ \A k \in 1 .. l : f[k] = step[k][f[k - 1]]
    BY <2>2, RecursionExists
  <2>. QED BY <2>1, <2>3, Zenon
<1>5. Eq(f)
  <2>1. ASSUME NEW k \in 0 .. n
        PROVE  f[k] = IF k = 0 THEN <<>>
                      ELSE IF Matching(t, p, k) THEN Append(f[k - 1], t[k]) ELSE f[k - 1]
    <3>1. CASE k # 0
      <4>1. k \in 1 .. n /\ f[k - 1] \in Seq(Bytes)
        BY <1>1, <1>4, <3>1
      <4>. QED BY <1>3, <1>4, <3>1, <4>1
    <3>. QED BY <1>4, <3>1
  <2>. QED BY <1>4, <2>1
<1>6. Eq(bytes)
  BY <1>5, Zenon
<1>7. MatchingBytes(t, p) = bytes
  BY Zenon DEF MatchingBytes, bytes
<1> HIDE DEF bytes
<1>8. \A k \in 0 .. n :
        bytes[k] = IF k = 0 THEN <<>>
                   ELSE IF Matching(t, p, k) THEN Append(bytes[k - 1], t[k]) ELSE bytes[k - 1]
  BY <1>6, Zenon
<1>9. bytes[0] = <<>>
  BY <1>1, <1>8
<1>10. ASSUME NEW k \in 1 .. n
       PROVE  bytes[k] = IF Matching(t, p, k) THEN Append(bytes[k - 1], t[k]) ELSE bytes[k - 1]
  <2>1. k \in 0 .. n /\ k # 0
    BY <1>1
  <2>. QED BY <1>8, <2>1, Zenon
<1>. QED BY <1>7, <1>9, <1>10 DEF Grows

(* Where no byte matches nothing is added.                                 *)
LEMMA NothingGrows ==
  ASSUME NEW t \in Seq(Bytes), NEW p, NEW f, Grows(f, t, p),
         NEW a \in Nat, NEW b \in Nat, a <= b, b <= Len(t),
         \A i \in a + 1 .. b : ~Matching(t, p, i)
  PROVE  f[b] = f[a]
<1> DEFINE Same == {k \in Nat : a + k <= b => f[a + k] = f[a]}
<1>1. 0 \in Same
  BY a + 0 = a
<1>2. ASSUME NEW k \in Nat, k \in Same PROVE k + 1 \in Same
  <2> SUFFICES ASSUME a + (k + 1) <= b PROVE f[a + (k + 1)] = f[a]
    OBVIOUS
  <2> DEFINE n == a + (k + 1)
  <2>1. n \in 1 .. Len(t) /\ n \in a + 1 .. b /\ n - 1 = a + k /\ a + k <= b
    OBVIOUS
  <2> HIDE DEF n
  <2>2. f[n - 1] = f[a]
    BY <1>2, <2>1
  <2>3. f[n] = f[n - 1]
    BY <2>1, Zenon DEF Grows
  <2>. QED BY <2>2, <2>3 DEF n
<1>3. 0 \in Same /\ \A k \in Nat : k \in Same => k + 1 \in Same
  BY <1>1, <1>2
<1>4. b - a \in Same
  <2> HIDE DEF Same
  <2>1. b - a \in Nat
    OBVIOUS
  <2>. QED BY <1>3, <2>1, NatInductiveSet
<1>5. a + (b - a) = b
  OBVIOUS
<1>. QED BY <1>4, <1>5

\* n bytes of t are behind when a line begins (or would, at the end of t).
BeginsLine(t, n) == n = 0 \/ n = Len(t) \/ t[n] = Newline
NoNewline(t, a, b) == \A k \in a + 1 .. b : t[k] # Newline

(* What is left of a line from a on is shorter than the pattern: the line  *)
(* ends with the text, or with a newline, which is in no pattern.          *)
LEMMA TooShort ==
  ASSUME NEW t \in Seq(Bytes), NEW p \in Seq(Bytes \ {Newline}),
         NEW a \in Nat, NEW e \in 0 .. Len(t),
         \/ e = Len(t) /\ e - a < Len(p)
         \/ e > 0 /\ t[e] = Newline /\ (e - 1) - a < Len(p),
         NEW j \in a + 1 .. e
  PROVE  ~OccursAt(t, p, j)
<1> SUFFICES ASSUME OccursAt(t, p, j) PROVE FALSE
  OBVIOUS
<1>1. /\ j + Len(p) - 1 <= Len(t) /\ \A k \in 1 .. Len(p) : t[j + k - 1] = p[k]
      /\ Len(p) \in Nat /\ \A k \in 1 .. Len(p) : p[k] # Newline
  BY DEF OccursAt
<1>2. CASE e = Len(t) /\ e - a < Len(p)
  BY <1>1, <1>2
<1>3. CASE e > 0 /\ t[e] = Newline /\ (e - 1) - a < Len(p)
  <2>1. (e - j) + 1 \in 1 .. Len(p) /\ j + ((e - j) + 1) - 1 = e
    BY <1>1, <1>3
  <2>2. t[j + ((e - j) + 1) - 1] = p[(e - j) + 1] /\ p[(e - j) + 1] # Newline
    BY <1>1, <2>1
  <2>. QED BY <1>3, <2>1, <2>2
<1>. QED BY <1>2, <1>3

(* If p does not occur on a line, no byte of the line matches.             *)
LEMMA NoMatchOnLine ==
  ASSUME NEW t \in Seq(Bytes), NEW p,
         NEW a \in 0 .. Len(t), NEW e \in 0 .. Len(t),
         BeginsLine(t, a), e = Len(t) \/ t[e] = Newline,
         \A j \in a + 1 .. e : ~OccursAt(t, p, j),
         NEW i \in a + 1 .. e
  PROVE  ~Matching(t, p, i)
<1> SUFFICES ASSUME NEW j \in 1 .. Len(t), OccursAt(t, p, j), SameLine(t, i, j) PROVE FALSE
  BY DEF Matching
<1>1. Len(t) \in Nat /\ e \in Nat /\ a < e /\ i <= e /\ a < i
  OBVIOUS
<1>2. CASE j <= a
  <2>1. a \in 1 .. Len(t) /\ t[a] = Newline
    BY <1>1, <1>2 DEF BeginsLine
  <2>. QED BY <1>1, <1>2, <2>1 DEF SameLine
<1>3. CASE j > e
  <2>1. e \in 1 .. Len(t) /\ t[e] = Newline
    BY <1>1, <1>3
  <2>. QED BY <1>1, <1>3, <2>1 DEF SameLine
<1>4. CASE j > a /\ j <= e
  BY <1>1, <1>4
<1>. QED BY <1>1, <1>2, <1>3, <1>4

(* If it does, each byte of the line matches.                              *)
LEMMA MatchOnLine ==
  ASSUME NEW t \in Seq(Bytes), NEW p, NEW a \in Nat,
         NEW i \in a + 1 .. Len(t), NEW j \in a + 1 .. Len(t),
         NoNewline(t, a, i - 1), NoNewline(t, a, j - 1), OccursAt(t, p, j)
  PROVE  Matching(t, p, i)
<1>1. SameLine(t, i, j)
  BY DEF SameLine, NoNewline
<1>2. j \in 1 .. Len(t)
  OBVIOUS
<1>. QED BY <1>1, <1>2 DEF Matching

\* The next of m bytes that match p is compared, the first of which is the one
\* behind s, on the line that begins behind l: p does not occur on it before.
OnLine(t, p, s, m, l) ==
  /\ l <= s /\ BeginsLine(t, l) /\ NoNewline(t, l, s + m)
  /\ \A k \in 1 .. m : t[s + k] = p[k]
  /\ \A j \in l + 1 .. s : ~OccursAt(t, p, j)

\* The search was set back from the newline before l into a line that is done
\* already, so that from_linestart is negative; what is left of the line is
\* shorter than the pattern.
PastLine(t, p, s, m, l) ==
  /\ s + m < l /\ t[l] = Newline /\ NoNewline(t, s, l - 1)
  /\ (l - 1) - s < Len(p)

Searching(t, p, s, m, l) == OnLine(t, p, s, m, l) \/ PastLine(t, p, s, m, l)

(* A byte that matches is no newline, and the search goes on as it was.    *)
LEMMA NextByteMatches ==
  ASSUME NEW t \in Seq(Bytes), NEW p \in Seq(Bytes \ {Newline}),
         NEW s \in Nat, NEW m \in Nat, NEW l \in 0 .. Len(t), s + m < Len(t), m < Len(p),
         t[(s + m) + 1] = p[m + 1], Searching(t, p, s, m, l)
  PROVE  t[(s + m) + 1] # Newline /\ Searching(t, p, s, m + 1, l)
<1>1. /\ m + 1 \in 1 .. Len(p) /\ (s + m) + 1 \in 1 .. Len(t) /\ s + (m + 1) = (s + m) + 1
      /\ Len(t) \in Nat
  OBVIOUS
<1>2. t[(s + m) + 1] # Newline
  BY <1>1
<1>3. CASE OnLine(t, p, s, m, l)
  <2>1. NoNewline(t, l, s + (m + 1))
    BY <1>1, <1>2, <1>3 DEF OnLine, NoNewline
  <2>2. \A k \in 1 .. m + 1 : t[s + k] = p[k]
    <3>1. \A k \in 1 .. m + 1 : k \in 1 .. m \/ k = m + 1
      OBVIOUS
    <3>. QED BY <1>1, <1>3, <3>1 DEF OnLine
  <2>. QED BY <1>2, <1>3, <2>1, <2>2 DEF OnLine, Searching
<1>4. CASE PastLine(t, p, s, m, l)
  <2>1. l # (s + m) + 1
    BY <1>2, <1>4 DEF PastLine
  <2>. QED BY <1>1, <1>2, <1>4, <2>1 DEF PastLine, Searching
<1>. QED BY <1>3, <1>4 DEF Searching

(* The last byte of the pattern is not found in a line that is done.       *)
LEMMA MatchesOnLine ==
  ASSUME NEW t \in Seq(Bytes), NEW p \in Seq(Bytes \ {Newline}),
         NEW s \in Nat, NEW m \in Nat, NEW l \in 0 .. Len(t), s + m < Len(t), m + 1 = Len(p),
         t[(s + m) + 1] = p[m + 1], Searching(t, p, s, m, l)
  PROVE  /\ l <= s /\ NoNewline(t, l, (s + 1) - 1) /\ OccursAt(t, p, s + 1)
         /\ s + 1 \in l + 1 .. Len(t)
<1>1. /\ Len(t) \in Nat /\ s + (m + 1) = (s + m) + 1 /\ m < Len(p)
      /\ (s + 1) + Len(p) - 1 = (s + m) + 1
  OBVIOUS
<1>2. Searching(t, p, s, m + 1, l)
  BY <1>1, NextByteMatches
<1>3. ~PastLine(t, p, s, m + 1, l)
  BY <1>1 DEF PastLine
<1>4. OnLine(t, p, s, m + 1, l)
  BY <1>2, <1>3 DEF Searching
<1>5. \A k \in 1 .. Len(p) : t[(s + 1) + k - 1] = p[k]
  <2>1. \A k \in 1 .. Len(p) : (s + 1) + k - 1 = s + k /\ k \in 1 .. m + 1
    OBVIOUS
  <2>. QED BY <1>4, <2>1 DEF OnLine
<1>6. NoNewline(t, l, (s + 1) - 1)
  BY <1>4 DEF OnLine, NoNewline
<1>. QED BY <1>1, <1>4, <1>5, <1>6 DEF OnLine, OccursAt

(* A byte other than a newline that does not match: the search starts one  *)
(* byte later, on the same line.                                           *)
LEMMA OtherByte ==
  ASSUME NEW t \in Seq(Bytes), NEW p \in Seq(Bytes \ {Newline}),
         NEW s \in Nat, NEW m \in Nat, NEW l \in 0 .. Len(t), s + m < Len(t), m < Len(p),
         t[(s + m) + 1] # p[m + 1], t[(s + m) + 1] # Newline, Searching(t, p, s, m, l)
  PROVE  Searching(t, p, s + 1, 0, l)
<1>1. /\ m + 1 \in 1 .. Len(p) /\ (s + 1) + (m + 1) - 1 = (s + m) + 1 /\ Len(t) \in Nat
  OBVIOUS
<1>2. CASE OnLine(t, p, s, m, l)
  <2>1. ~OccursAt(t, p, s + 1)
    BY <1>1 DEF OccursAt
  <2>2. \A j \in l + 1 .. s + 1 : ~OccursAt(t, p, j)
    <3>1. \A j \in l + 1 .. s + 1 : j \in l + 1 .. s \/ j = s + 1
      OBVIOUS
    <3>. QED BY <1>2, <2>1, <3>1 DEF OnLine
  <2>3. NoNewline(t, l, (s + 1) + 0)
    BY <1>2 DEF OnLine, NoNewline
  <2>. QED BY <1>2, <2>2, <2>3 DEF OnLine, Searching
<1>3. CASE PastLine(t, p, s, m, l)
  <2>1. l # (s + m) + 1
    BY <1>3 DEF PastLine
  <2>. QED BY <1>1, <1>3, <2>1 DEF PastLine, Searching, NoNewline
<1>. QED BY <1>2, <1>3, Searching(t, p, s, m, l) DEF Searching

(* A newline ends the line: nothing on it is printed any more, and the     *)
(* search goes on behind it, or before it without a chance of a match.     *)
LEMMA NewlineByte ==
  ASSUME NEW t \in Seq(Bytes), NEW p \in Seq(Bytes \ {Newline}),
         NEW s \in Nat, NEW m \in Nat, NEW l \in 0 .. Len(t), s + m < Len(t), m < Len(p),
         t[(s + m) + 1] = Newline, Searching(t, p, s, m, l)
  PROVE  /\ Searching(t, p, s + 1, 0, (s + m) + 1)
         /\ MatchingBytes(t, p)[(s + m) + 1] = MatchingBytes(t, p)[l]
<1> DEFINE e == (s + m) + 1
<1>1. e \in 1 .. Len(t) /\ e \in 0 .. Len(t) /\ Len(t) \in Nat /\ e \in Nat /\ l \in Nat
  OBVIOUS
<1>2. CASE OnLine(t, p, s, m, l)
  <2>1. ASSUME NEW j \in l + 1 .. e PROVE ~OccursAt(t, p, j)
    <3>1. CASE j <= s
      BY <1>2, <3>1 DEF OnLine
    <3>2. CASE j > s
      <4>1. j \in s + 1 .. e /\ e > 0 /\ (e - 1) - s < Len(p) /\ t[e] = Newline
        BY <1>1, <3>2
      <4> HIDE DEF e
      <4>. QED BY <1>1, <4>1, TooShort
    <3>. QED BY <3>1, <3>2
  <2>2. l <= e /\ BeginsLine(t, l)
    BY <1>2 DEF OnLine
  <2>3. t[e] = Newline
    OBVIOUS
  <2> HIDE DEF e
  <2>4. \A i \in l + 1 .. e : ~Matching(t, p, i)
    BY <1>1, <2>1, <2>2, <2>3, NoMatchOnLine
  <2>5. MatchingBytes(t, p)[e] = MatchingBytes(t, p)[l]
    <3>1. e <= Len(t)
      BY <1>1
    <3>. QED BY <1>1, <2>2, <2>4, <3>1, MatchingBytesGrow, NothingGrows
  <2>6. CASE m = 0
    <3>1. e = s + 1
      BY <2>6 DEF e
    <3>2. NoNewline(t, e, e + 0) /\ BeginsLine(t, e)
      BY <1>1, <2>3 DEF NoNewline, BeginsLine
    <3>3. OnLine(t, p, e, 0, e)
      BY <1>1, <3>2 DEF OnLine
    <3>. QED BY <2>5, <3>1, <3>3 DEF Searching, e
  <2>7. CASE m # 0
    <3>1. (s + 1) + 0 < e /\ (e - 1) - (s + 1) < Len(p)
      BY <2>7 DEF e
    <3>2. NoNewline(t, s + 1, e - 1)
      BY <1>2 DEF e, OnLine, NoNewline
    <3>3. PastLine(t, p, s + 1, 0, e)
      BY <2>3, <3>1, <3>2 DEF PastLine
    <3>. QED BY <2>5, <3>3 DEF Searching, e
  <2>. QED BY <2>6, <2>7
<1>3. CASE PastLine(t, p, s, m, l)
  <2>1. l = e
    <3>1. \A k \in s + 1 .. l - 1 : t[k] # Newline
      BY <1>3 DEF PastLine, NoNewline
    <3>2. e \notin s + 1 .. l - 1 /\ s + m < l
      BY <1>3, <3>1 DEF PastLine
    <3>. QED BY <3>2
  <2>2. CASE m = 0
    <3>1. NoNewline(t, e, e + 0) /\ BeginsLine(t, e) /\ e = s + 1
      BY <1>1, <2>2 DEF NoNewline, BeginsLine
    <3> HIDE DEF e
    <3>2. OnLine(t, p, e, 0, e)
      BY <1>1, <3>1 DEF OnLine
    <3>. QED BY <2>1, <3>1, <3>2 DEF Searching, e
  <2>3. CASE m # 0
    <3>1. NoNewline(t, s + 1, l - 1)
      BY <1>3 DEF PastLine, NoNewline
    <3>2. PastLine(t, p, s + 1, 0, l)
      BY <1>3, <2>1, <2>3, <3>1 DEF PastLine
    <3>. QED BY <2>1, <3>2 DEF Searching
  <2>. QED BY <2>2, <2>3
<1>. QED BY <1>2, <1>3 DEF Searching

(* At the end of the text there is nothing left to be printed.             *)
LEMMA NothingLeft ==
  ASSUME NEW t \in Seq(Bytes), NEW p \in Seq(Bytes \ {Newline}),
         NEW s \in Nat, NEW m \in Nat, NEW l \in 0 .. Len(t), s + m = Len(t), m < Len(p),
         Searching(t, p, s, m, l)
  PROVE  MatchingBytes(t, p)[Len(t)] = MatchingBytes(t, p)[l]
<1> DEFINE e == Len(t)
<1>1. e \in Nat /\ e \in 0 .. Len(t) /\ l \in Nat /\ l <= e
  OBVIOUS
<1>2. OnLine(t, p, s, m, l)
  BY <1>1 DEF Searching, PastLine
<1>3. ASSUME NEW j \in l + 1 .. e PROVE ~OccursAt(t, p, j)
  <2>1. CASE j <= s
    BY <1>2, <2>1 DEF OnLine
  <2>2. CASE j > s
    <3>1. j \in s + 1 .. e /\ e = Len(t) /\ e - s < Len(p)
      BY <1>1, <2>2
    <3> HIDE DEF e
    <3>. QED BY <1>1, <3>1, TooShort
  <2>. QED BY <2>1, <2>2
<1>4. BeginsLine(t, l) /\ e = Len(t)
  BY <1>2 DEF OnLine
<1> HIDE DEF e
<1>5. \A i \in l + 1 .. e : ~Matching(t, p, i)
  BY <1>1, <1>3, <1>4, NoMatchOnLine
<1>6. e <= Len(t)
  BY <1>4
<1>7. MatchingBytes(t, p)[e] = MatchingBytes(t, p)[l]
  BY <1>1, <1>5, <1>6, MatchingBytesGrow, NothingGrows
<1>. QED BY <1>4, <1>7

Start     == pos - matched_chars      \* matched bytes begin behind it
LineStart == pos - from_linestart     \* as far as the program knows

\* The search: what was printed are the matching lines up to its line.
Searches ==
  /\ matched_chars < Len(pattern) /\ Start >= 0 /\ LineStart \in 0 .. Len(text)
  /\ out = MatchingBytes(text, pattern)[LineStart]
  /\ Searching(text, pattern, Start, matched_chars, LineStart)

\* A line on which the pattern occurs, the one behind a, is written up to pos.
PrintsLine ==
  /\ matched_chars = 0 /\ from_linestart = 0
  /\ out = MatchingBytes(text, pattern)[pos]
  /\ \E a \in 0 .. pos : \E j \in a + 1 .. Len(text) :
       /\ NoNewline(text, a, pos) /\ NoNewline(text, a, j - 1)
       /\ OccursAt(text, pattern, j)

GrepType ==
  /\ prog = "grep" /\ pc \in {"read", "print"} \cup Ended
  /\ text \in Seq(Bytes) /\ pattern \in Seq(Bytes \ {Newline}) /\ pattern # <<>>
  /\ pos \in 0 .. Len(text) /\ from_linestart \in Int
  /\ matched_chars \in Nat /\ matched_chars < Len(pattern)

\* The search for a pattern that is never found: it never gets behind a byte
\* from 0x80 up.
Fruitless ==
  /\ pc = "read" /\ out = <<>> /\ matched_chars <= pos
  /\ \E k \in DOMAIN pattern : pattern[k] \in HighBytes /\ matched_chars < k

\* The inductive invariant.
GrepInv ==
  /\ GrepType
  /\ source # "pipe" /\ pc = "read" /\ ~NeverFound(pattern) => Searches
  /\ source # "pipe" /\ pc = "print" /\ ~NeverFound(pattern) => PrintsLine
  /\ source # "pipe" /\ pc \in {"read", "print"} /\ NeverFound(pattern) => Fruitless

(* Other patterns are compared as they are.                                *)
LEMMA ComparesBytes ==
  ASSUME GrepInv, ~NeverFound(pattern)
  PROVE  NextMatches <=> text[pos + 1] = pattern[matched_chars + 1]
<1>1. matched_chars + 1 \in DOMAIN pattern
  BY DEF GrepInv, GrepType
<1>2. AsInt(pattern[matched_chars + 1]) = pattern[matched_chars + 1]
  BY <1>1 DEF NeverFound, AsInt
<1>. QED BY <1>2 DEF NextMatches, cur_char

(* Where a step has the search go on from, in terms of the lemmas above.   *)
LEMMA AtByte ==
  ASSUME GrepInv, ReadsOn, source # "pipe", ~NeverFound(pattern)
  PROVE  /\ text \in Seq(Bytes) /\ pattern \in Seq(Bytes \ {Newline}) /\ Len(text) \in Nat
         /\ Start \in Nat /\ matched_chars \in Nat /\ LineStart \in 0 .. Len(text)
         /\ Start + matched_chars = pos /\ pos < Len(text) /\ pos \in Nat
         /\ from_linestart \in Int
         /\ matched_chars < Len(pattern) /\ out = MatchingBytes(text, pattern)[LineStart]
         /\ Searching(text, pattern, Start, matched_chars, LineStart)
         /\ prog = "grep" /\ pc = "read"
<1>1. GrepType /\ Searches /\ pos # Len(text) /\ prog = "grep" /\ pc = "read"
  BY DEF GrepInv, ReadsOn, Reading, AtEof
<1>2. Len(text) \in Nat /\ pos \in Nat /\ matched_chars \in Nat /\ from_linestart \in Int
  BY <1>1 DEF GrepType
<1>3. Start \in Nat /\ Start + matched_chars = pos
  BY <1>1, <1>2 DEF Searches, Start
<1>. QED BY <1>1, <1>2, <1>3 DEF GrepType, Searches

\* A byte of the pattern that matches.
LEMMA MatchOneKeepsInv ==
  ASSUME GrepInv, MatchOne, ~NeverFound(pattern)
  PROVE  GrepInv'
<1>1. /\ ReadsOn /\ text[pos + 1] = pattern[matched_chars + 1]
      /\ matched_chars + 1 # Len(pattern)
      /\ matched_chars' = matched_chars + 1 /\ pos' = pos + 1
      /\ from_linestart' = IF text[pos + 1] = Newline THEN 0 ELSE from_linestart + 1
      /\ UNCHANGED <<prog, pc, text, out, pattern, source>>
  BY ComparesBytes DEF MatchOne, LastOfPattern, LineOffset, cur_char
<1>2. GrepType'
  BY <1>1 DEF GrepInv, GrepType, ReadsOn, AtEof
<1>3. ASSUME source # "pipe" PROVE Searches'
  <2>1. PICK t, p, s, m, l : /\ t = text /\ p = pattern
                             /\ s = Start /\ m = matched_chars /\ l = LineStart
    OBVIOUS
  <2>2. /\ t \in Seq(Bytes) /\ p \in Seq(Bytes \ {Newline}) /\ s \in Nat /\ m \in Nat
        /\ l \in 0 .. Len(t) /\ s + m < Len(t) /\ m < Len(p)
        /\ t[(s + m) + 1] = p[m + 1] /\ Searching(t, p, s, m, l)
    BY <1>1, <1>3, <2>1, AtByte
  <2>3. t[(s + m) + 1] # Newline /\ Searching(t, p, s, m + 1, l)
    BY <2>2, NextByteMatches
  <2>4. Start' = s /\ LineStart' = l /\ matched_chars' = m + 1 /\ m + 1 < Len(p)
    <3>1. from_linestart' = from_linestart + 1
      BY <1>1, <1>3, <2>1, <2>3, AtByte
    <3>2. m + 1 # Len(p) /\ Len(p) \in Nat
      BY <1>1, <2>1, <2>2
    <3>3. m + 1 < Len(p)
      BY <2>2, <3>2
    <3>4. PICK q, h : q = pos /\ h = from_linestart
      OBVIOUS
    <3>5. q \in Nat /\ h \in Int /\ m \in Nat
      BY <1>1, <1>3, <2>2, <3>4, AtByte
    <3>6. s = q - m /\ l = q - h
      BY <2>1, <3>4 DEF Start, LineStart
    <3>7. Start' = (q + 1) - (m + 1) /\ LineStart' = (q + 1) - (h + 1)
      BY <1>1, <2>1, <3>1, <3>4 DEF Start, LineStart
    <3>. QED BY <1>1, <2>1, <3>3, <3>5, <3>6, <3>7
  <2>5. out' = MatchingBytes(t, p)[l]
    BY <1>1, <1>3, <2>1, AtByte
  <2>. QED BY <1>1, <2>1, <2>2, <2>3, <2>4, <2>5 DEF Searches
<1>. QED BY <1>1, <1>2, <1>3 DEF GrepInv, ReadsOn, Reading

\* The last one: the line is printed from where it begins.
LEMMA MatchLastKeepsInv ==
  ASSUME GrepInv, MatchLast, ~NeverFound(pattern)
  PROVE  GrepInv'
<1>1. /\ ReadsOn /\ text[pos + 1] = pattern[matched_chars + 1]
      /\ matched_chars + 1 = Len(pattern) /\ source # "pipe"
      /\ matched_chars' = 0 /\ from_linestart' = 0 /\ pc' = "print"
      /\ pos' = pos + 1 - (IF text[pos + 1] = Newline THEN 0 ELSE from_linestart + 1)
      /\ UNCHANGED <<prog, text, out, pattern, source>>
  BY ComparesBytes DEF MatchLast, LastOfPattern, LineOffset, cur_char
<1>2. PICK t, p, s, m, l : /\ t = text /\ p = pattern
                           /\ s = Start /\ m = matched_chars /\ l = LineStart
  OBVIOUS
<1>3. /\ t \in Seq(Bytes) /\ p \in Seq(Bytes \ {Newline}) /\ s \in Nat /\ m \in Nat
      /\ l \in 0 .. Len(t) /\ s + m < Len(t) /\ m < Len(p) /\ m + 1 = Len(p)
      /\ t[(s + m) + 1] = p[m + 1] /\ Searching(t, p, s, m, l)
  BY <1>1, <1>2, AtByte
<1>4. t[(s + m) + 1] # Newline
  BY <1>3, NextByteMatches
<1>5. /\ l <= s /\ NoNewline(t, l, (s + 1) - 1) /\ OccursAt(t, p, s + 1)
      /\ s + 1 \in l + 1 .. Len(t)
  BY <1>3, MatchesOnLine
<1>6. pos' = l
  <2>1. pos' = pos + 1 - (from_linestart + 1)
    BY <1>1, <1>2, <1>3, <1>4, AtByte
  <2>. QED BY <1>1, <1>2, <2>1, AtByte DEF LineStart
<1>7. GrepType'
  BY <1>1, <1>2, <1>3, <1>6 DEF GrepInv, GrepType
<1>8. PrintsLine'
  <2>1. out' = MatchingBytes(t, p)[l]
    BY <1>1, <1>2, AtByte
  <2>2. NoNewline(t, l, l) /\ l \in 0 .. l
    BY <1>3 DEF NoNewline
  <2>. QED BY <1>1, <1>2, <1>5, <1>6, <2>1, <2>2 DEF PrintsLine
<1>. QED BY <1>1, <1>7, <1>8 DEF GrepInv

\* A byte that does not match, be it a newline or not.
LEMMA MismatchKeepsInv ==
  ASSUME GrepInv, Mismatch, ~NeverFound(pattern)
  PROVE  GrepInv'
<1>1. /\ ReadsOn /\ text[pos + 1] # pattern[matched_chars + 1]
      /\ matched_chars = 0 \/ source # "pipe"
      /\ matched_chars' = 0 /\ pos' = pos + 1 - matched_chars
      /\ from_linestart' =
           (IF text[pos + 1] = Newline THEN 0 ELSE from_linestart + 1) - matched_chars
      /\ UNCHANGED <<prog, pc, text, out, pattern, source>>
  BY ComparesBytes DEF Mismatch, LineOffset, cur_char, Rewind
<1>2. CASE source = "pipe"
  BY <1>1, <1>2 DEF GrepInv, GrepType, ReadsOn, AtEof
<1>3. CASE source # "pipe"
  <2>1. PICK t, p, s, m, l : /\ t = text /\ p = pattern
                             /\ s = Start /\ m = matched_chars /\ l = LineStart
    OBVIOUS
  <2>2. /\ t \in Seq(Bytes) /\ p \in Seq(Bytes \ {Newline}) /\ s \in Nat /\ m \in Nat
        /\ l \in 0 .. Len(t) /\ s + m < Len(t) /\ m < Len(p)
        /\ t[(s + m) + 1] # p[m + 1] /\ Searching(t, p, s, m, l)
        /\ s + m = pos /\ pos \in Nat /\ from_linestart \in Int /\ l = pos - from_linestart
        /\ out' = MatchingBytes(t, p)[l]
    BY <1>1, <1>3, <2>1, AtByte DEF LineStart
  <2>3. PICK q, h : q = pos /\ h = from_linestart
    OBVIOUS
  <2>4. pos' = (q + 1) - m
    BY <1>1, <2>1, <2>2, <2>3
  <2>5. q \in Nat /\ h \in Int /\ l = q - h /\ s + m = q
    BY <2>2, <2>3
  <2>6. pos' = s + 1 /\ pos' \in 0 .. Len(text)
    <3>1. (q + 1) - m = s + 1 /\ s + 1 \in 0 .. Len(t)
      BY <2>2, <2>5
    <3>. QED BY <2>1, <2>4, <3>1
  <2>7. GrepType'
    <3>1. from_linestart' \in Int
      BY <1>1, <2>1, <2>2
    <3>. QED BY <1>1, <2>6, <3>1 DEF GrepInv, GrepType
  <2>8. 0 < Len(p) /\ Start' = s + 1 /\ s + 1 >= 0
    <3>1. Start' = (s + 1) - 0 /\ 0 < Len(p) /\ s \in Nat
      BY <1>1, <2>2, <2>6 DEF Start
    <3>. QED BY <3>1
  <2>9. CASE t[(s + m) + 1] = Newline
    <3>1. LineStart' = (s + m) + 1 /\ (s + m) + 1 \in 0 .. Len(t)
      <4>1. from_linestart' = 0 - m
        BY <1>1, <2>1, <2>2, <2>9
      <4>2. LineStart' = (s + 1) - (0 - m)
        BY <2>6, <4>1 DEF LineStart
      <4>. QED BY <2>2, <4>2
    <3>2. /\ Searching(t, p, s + 1, 0, (s + m) + 1)
          /\ MatchingBytes(t, p)[(s + m) + 1] = MatchingBytes(t, p)[l]
      BY <2>2, <2>9, NewlineByte
    <3>3. Searches'
      BY <1>1, <2>1, <2>2, <2>8, <3>1, <3>2 DEF Searches
    <3>. QED BY <1>1, <2>7, <3>3 DEF GrepInv, ReadsOn, Reading
  <2>10. CASE t[(s + m) + 1] # Newline
    <3>1. LineStart' = l
      <4>1. from_linestart' = (h + 1) - m
        BY <1>1, <2>1, <2>2, <2>3, <2>10
      <4>2. LineStart' = (s + 1) - ((h + 1) - m)
        BY <2>6, <4>1 DEF LineStart
      <4>. QED BY <2>2, <2>5, <4>2
    <3>2. Searching(t, p, s + 1, 0, l)
      BY <2>2, <2>10, OtherByte
    <3>3. Searches'
      BY <1>1, <2>1, <2>2, <2>8, <3>1, <3>2 DEF Searches
    <3>. QED BY <1>1, <2>7, <3>3 DEF GrepInv, ReadsOn, Reading
  <2>. QED BY <2>9, <2>10
<1>. QED BY <1>2, <1>3

\* A byte of a matching line is printed, and with a newline the line is done.
LEMMA PrintByteKeepsInv ==
  ASSUME GrepInv, PrintByte, ~NeverFound(pattern)
  PROVE  GrepInv'
<1>1. /\ pc = "print" /\ pos # Len(text) /\ out' = Append(out, text[pos + 1]) /\ pos' = pos + 1
      /\ pc' = IF text[pos + 1] = Newline THEN "read" ELSE "print"
      /\ UNCHANGED <<prog, text, pattern, source, matched_chars, from_linestart>>
  BY DEF PrintByte, cur_char, AtEof, grepVars
<1>2. GrepType'
  BY <1>1 DEF GrepInv, GrepType
<1>3. ASSUME source # "pipe" PROVE (pc' = "read" => Searches') /\ (pc' = "print" => PrintsLine')
  <2>1. PICK t, p, n : t = text /\ p = pattern /\ n = pos
    OBVIOUS
  <2>2. PrintsLine /\ matched_chars = 0 /\ from_linestart = 0 /\ out = MatchingBytes(t, p)[n]
    BY <1>1, <1>3, <2>1 DEF GrepInv, PrintsLine
  <2>3. PICK a \in 0 .. n : \E j \in a + 1 .. Len(t) :
          NoNewline(t, a, n) /\ NoNewline(t, a, j - 1) /\ OccursAt(t, p, j)
    BY <2>1, <2>2 DEF PrintsLine
  <2>4. PICK j \in a + 1 .. Len(t) :
          NoNewline(t, a, n) /\ NoNewline(t, a, j - 1) /\ OccursAt(t, p, j)
    BY <2>3
  <2>5. /\ t \in Seq(Bytes) /\ p \in Seq(Bytes \ {Newline}) /\ Len(p) > 0 /\ Len(p) \in Nat
        /\ n \in Nat /\ n + 1 <= Len(t) /\ Len(t) \in Nat
    BY <1>1, <2>1 DEF GrepInv, GrepType
  <2>6. Matching(t, p, n + 1)
    <3>1. a \in Nat /\ n + 1 \in a + 1 .. Len(t) /\ (n + 1) - 1 = n
      BY <2>5
    <3>. QED BY <2>4, <2>5, <3>1, MatchOnLine
  <2>7. out' = MatchingBytes(t, p)[n + 1]
    <3>1. n + 1 \in 1 .. Len(t) /\ (n + 1) - 1 = n
      BY <2>5
    <3>2. Grows(MatchingBytes(t, p), t, p)
      BY <2>5, MatchingBytesGrow
    <3>3. MatchingBytes(t, p)[n + 1] = Append(MatchingBytes(t, p)[n], t[n + 1])
      BY <2>6, <3>1, <3>2 DEF Grows
    <3>. QED BY <1>1, <2>1, <2>2, <3>3
  <2>8. CASE t[n + 1] = Newline
    <3>1. /\ pc' = "read" /\ matched_chars' = 0 /\ Start' = n + 1 /\ LineStart' = n + 1
          /\ text' = t /\ pattern' = p
      BY <1>1, <2>1, <2>2, <2>5, <2>8 DEF Start, LineStart
    <3>2. NoNewline(t, n + 1, (n + 1) + 0) /\ BeginsLine(t, n + 1)
      BY <2>5, <2>8 DEF NoNewline, BeginsLine
    <3>3. OnLine(t, p, n + 1, 0, n + 1)
      BY <2>5, <3>2 DEF OnLine
    <3>4. Searches'
      BY <2>5, <2>7, <3>1, <3>3 DEF Searches, Searching
    <3>. QED BY <3>1, <3>4
  <2>9. CASE t[n + 1] # Newline
    <3>1. pc' = "print" /\ text' = t /\ pattern' = p /\ pos' = n + 1
      BY <1>1, <2>1, <2>9
    <3>2. NoNewline(t, a, n + 1)
      BY <2>4, <2>5, <2>9 DEF NoNewline
    <3>3. a \in 0 .. n + 1
      BY <2>5
    <3>4. PrintsLine'
      BY <1>1, <2>2, <2>4, <2>7, <3>1, <3>2, <3>3 DEF PrintsLine
    <3>. QED BY <3>1, <3>4
  <2>. QED BY <2>8, <2>9
<1>. QED BY <1>1, <1>2, <1>3 DEF GrepInv

\* The matching line ends with the text.
LEMMA PrintEofKeepsInv ==
  ASSUME GrepInv, PrintEof, ~NeverFound(pattern)
  PROVE  GrepInv'
<1>1. /\ pc = "print" /\ pos = Len(text) /\ pc' = "read"
      /\ UNCHANGED <<prog, text, pos, out, pattern, source, matched_chars, from_linestart>>
  BY DEF PrintEof, AtEof, grepVars
<1>2. GrepType'
  BY <1>1 DEF GrepInv, GrepType
<1>3. ASSUME source # "pipe" PROVE Searches'
  <2>1. PICK t, p, n : t = text /\ p = pattern /\ n = pos
    OBVIOUS
  <2>2. /\ t \in Seq(Bytes) /\ p \in Seq(Bytes \ {Newline}) /\ Len(p) > 0 /\ Len(p) \in Nat
        /\ n = Len(t) /\ n \in Nat
    BY <1>1, <2>1 DEF GrepInv, GrepType
  <2>3. matched_chars = 0 /\ from_linestart = 0 /\ out = MatchingBytes(t, p)[n]
    BY <1>1, <1>3, <2>1 DEF GrepInv, PrintsLine
  <2>4. /\ Start' = n /\ LineStart' = n /\ matched_chars' = 0
        /\ text' = t /\ pattern' = p /\ out' = out
    BY <1>1, <2>1, <2>2, <2>3 DEF Start, LineStart
  <2>5. NoNewline(t, n, n + 0) /\ BeginsLine(t, n)
    BY <2>2 DEF NoNewline, BeginsLine
  <2>6. OnLine(t, p, n, 0, n)
    BY <2>2, <2>5 DEF OnLine
  <2>. QED BY <2>2, <2>3, <2>4, <2>6 DEF Searches, Searching
<1>. QED BY <1>1, <1>2, <1>3 DEF GrepInv

(* A pattern that is never found is searched for in vain.                  *)
LEMMA FruitlessKeepsInv ==
  ASSUME GrepInv, MatchOne \/ MatchLast \/ Mismatch \/ PrintByte \/ PrintEof,
         NeverFound(pattern)
  PROVE  GrepInv'
<1>1. /\ GrepType /\ Len(text) \in Nat /\ pos \in Nat /\ Len(pattern) \in Nat
      /\ source # "pipe" /\ pc \in {"read", "print"} => Fruitless
      /\ pos = Len(text) \/ (text[pos + 1] \in Bytes /\ pos < Len(text))
  BY DEF GrepInv, GrepType
<1>2. "negative" \notin Bytes
  BY DEF Bytes, Letters, Whitespace, HighBytes, Nul
<1>3. ASSUME pos < Len(text), NextMatches, pattern[matched_chars + 1] \in HighBytes PROVE FALSE
  BY <1>1, <1>2, <1>3 DEF NextMatches, AsInt, cur_char, NeverFound
<1>4. CASE MatchOne
  <2>1. /\ pc = "read" /\ pos < Len(text) /\ NextMatches /\ matched_chars + 1 # Len(pattern)
        /\ matched_chars' = matched_chars + 1 /\ pos' = pos + 1 /\ from_linestart' = LineOffset
        /\ UNCHANGED <<prog, pc, text, out, pattern, source>>
    BY <1>1, <1>4 DEF MatchOne, ReadsOn, Reading, AtEof, LastOfPattern
  <2>2. GrepType'
    BY <1>1, <2>1 DEF GrepType, LineOffset
  <2>3. ASSUME source # "pipe" PROVE Fruitless'
    <3>1. PICK k \in DOMAIN pattern : pattern[k] \in HighBytes /\ matched_chars < k
      BY <1>1, <2>1, <2>3 DEF Fruitless
    <3>2. k # matched_chars + 1
      BY <1>3, <2>1, <3>1
    <3>3. matched_chars + 1 < k
      BY <1>1, <3>1, <3>2 DEF GrepType
    <3>. QED BY <1>1, <2>1, <2>3, <3>1, <3>3 DEF Fruitless, GrepType
  <2>. QED BY <2>1, <2>2, <2>3 DEF GrepInv, NeverFound
<1>5. CASE MatchLast
  <2>1. /\ pc = "read" /\ pos < Len(text) /\ NextMatches /\ matched_chars + 1 = Len(pattern)
        /\ source # "pipe"
    BY <1>1, <1>5 DEF MatchLast, ReadsOn, Reading, AtEof, LastOfPattern
  <2>2. PICK k \in DOMAIN pattern : pattern[k] \in HighBytes /\ matched_chars < k
    BY <1>1, <2>1 DEF Fruitless
  <2>3. k = matched_chars + 1
    BY <1>1, <2>1, <2>2 DEF GrepType
  <2>. QED BY <1>3, <2>1, <2>2, <2>3
<1>6. CASE Mismatch
  <2>1. /\ pc = "read" /\ pos < Len(text) /\ (matched_chars = 0 \/ source # "pipe")
        /\ matched_chars' = 0 /\ pos' = pos + 1 - matched_chars
        /\ from_linestart' = LineOffset - matched_chars
        /\ UNCHANGED <<prog, pc, text, out, pattern, source>>
    BY <1>1, <1>6 DEF Mismatch, ReadsOn, Reading, AtEof, Rewind
  <2>2. matched_chars \in Nat /\ matched_chars <= pos
    BY <1>1, <2>1 DEF Fruitless, GrepType
  <2>3. GrepType' /\ pos' \in Nat
    BY <1>1, <2>1, <2>2 DEF GrepType, LineOffset
  <2>4. ASSUME source # "pipe" PROVE Fruitless'
    <3>1. PICK k \in DOMAIN pattern : pattern[k] \in HighBytes
      BY <1>1, <2>1, <2>4 DEF Fruitless
    <3>2. k > 0
      BY <1>1, <3>1 DEF GrepType
    <3>3. out = <<>>
      BY <1>1, <2>1, <2>4 DEF Fruitless
    <3>. QED BY <2>1, <2>3, <3>1, <3>2, <3>3 DEF Fruitless
  <2>. QED BY <2>1, <2>3, <2>4 DEF GrepInv, NeverFound
<1>7. CASE PrintByte
  <2>1. /\ pc = "print" /\ pos < Len(text) /\ pos' = pos + 1 /\ pc' \in {"read", "print"}
        /\ UNCHANGED <<prog, text, grepVars>>
    BY <1>1, <1>7 DEF PrintByte, AtEof
  <2>2. source = "pipe"
    BY <1>1, <2>1 DEF Fruitless
  <2>. QED BY <1>1, <2>1, <2>2 DEF GrepInv, GrepType, grepVars
<1>8. CASE PrintEof
  <2>1. pc = "print" /\ pc' = "read" /\ UNCHANGED <<prog, text, pos, grepVars>>
    BY <1>8 DEF PrintEof
  <2>2. source = "pipe"
    BY <1>1, <2>1 DEF Fruitless
  <2>. QED BY <1>1, <2>1, <2>2 DEF GrepInv, GrepType, grepVars
<1>. QED BY <1>4, <1>5, <1>6, <1>7, <1>8

(* Each of pseudo-grep's steps keeps the invariant.                        *)
LEMMA GrepKeepsInv ==
  ASSUME GrepInv, GrepStep
  PROVE  GrepInv'
<1>1. ASSUME pc' \in Ended, UNCHANGED <<prog, text, pos, grepVars>> PROVE GrepInv'
  BY <1>1 DEF GrepInv, GrepType, grepVars, Ended
<1>2. CASE SeekFails
  BY <1>1, <1>2 DEF SeekFails, Ended
<1>3. CASE SearchDone
  BY <1>1, <1>3 DEF SearchDone, Ended
<1>4. CASE ReadFails("grep") /\ UNCHANGED grepVars
  BY <1>1, <1>4 DEF ReadFails, Ended
<1>. QED
  BY <1>2, <1>3, <1>4, MatchOneKeepsInv, MatchLastKeepsInv, MismatchKeepsInv, PrintByteKeepsInv,
     PrintEofKeepsInv, FruitlessKeepsInv DEF GrepStep

(* Before the first byte nothing is matched and nothing printed.           *)
LEMMA GrepStartsRight ==
  ASSUME GrepInit
  PROVE  GrepInv
<1>1. /\ prog = "grep" /\ pc = "read" /\ pos = 0 /\ out = <<>>
      /\ matched_chars = 0 /\ from_linestart = 0
      /\ text \in Seq(Bytes \ {Nul}) /\ pattern \in Seq(Bytes \ {Newline, Nul}) /\ pattern # <<>>
  BY GrepAssumption DEF GrepInit, Opened, GrepZero
<1>2. text \in Seq(Bytes) /\ pattern \in Seq(Bytes \ {Newline})
  BY <1>1
<1>3. Len(pattern) > 0 /\ Len(text) \in Nat
  BY <1>1, <1>2
<1>4. Start = 0 /\ LineStart = 0
  BY <1>1 DEF Start, LineStart
<1>5. out = MatchingBytes(text, pattern)[0]
  BY <1>1, <1>2, MatchingBytesGrow DEF Grows
<1>6. OnLine(text, pattern, 0, 0, 0)
  BY <1>3 DEF OnLine, BeginsLine, NoNewline
<1>7. NeverFound(pattern) => Fruitless
  BY <1>1, <1>2, <1>3 DEF NeverFound, Fruitless
<1>. QED
  BY <1>1, <1>2, <1>3, <1>4, <1>5, <1>6, <1>7 DEF GrepInv, GrepType, Searches, Searching

(* When the text has been read to its end, what was printed is all of it   *)
(* that should be.                                                         *)
LEMMA GrepEndsRight == GrepInv => PrintsMatchingLines
<1> SUFFICES ASSUME GrepInv, pc = "read", AtEof, source # "pipe", ~NeverFound(pattern)
             PROVE  out = MatchingBytes(text, pattern)[Len(text)]
  BY DEF PrintsMatchingLines, GrepInv, Fruitless
<1>1. PICK t, p, s, m, l : /\ t = text /\ p = pattern
                           /\ s = Start /\ m = matched_chars /\ l = LineStart
  OBVIOUS
<1>2. /\ t \in Seq(Bytes) /\ p \in Seq(Bytes \ {Newline}) /\ s \in Nat /\ m \in Nat
      /\ l \in 0 .. Len(t) /\ s + m = Len(t) /\ m < Len(p) /\ Searching(t, p, s, m, l)
      /\ out = MatchingBytes(t, p)[l]
  BY <1>1 DEF GrepInv, GrepType, Searches, AtEof, Start
<1>. QED BY <1>1, <1>2, NothingLeft
-------------------------------------------------------------------------------
(* mult-test                                                               *)

Width == 2 * IntLimit

(* A number is determined by its remainder and how often the divisor goes  *)
(* into it.                                                                *)
LEMMA RemainderIs ==
  ASSUME NEW a \in Int, NEW m \in Nat \ {0}, NEW q \in Int, NEW r \in 0 .. m - 1, a = q * m + r
  PROVE  a % m = r
<1>1. PICK d, e : d = a \div m /\ e = a % m
  OBVIOUS
<1>2. d \in Int /\ e \in Int /\ 0 <= e /\ e < m /\ a = d * m + e
  BY <1>1
<1>3. (d - q) * m = d * m - q * m
  BY <1>2
<1>4. (d - q) * m = r - e /\ r - e < m /\ r - e > -m
  BY <1>2, <1>3
<1>5. PICK c \in Int : c = d - q
  BY <1>2
<1>6. CASE c >= 1
  <2>1. c * m >= m
    BY <1>6
  <2>. QED BY <1>4, <1>5, <2>1
<1>7. CASE c <= -1
  <2>1. c * m <= -m
    BY <1>7
  <2>. QED BY <1>4, <1>5, <2>1
<1>8. CASE c = 0
  <2>1. c * m = 0
    BY <1>8
  <2>. QED BY <1>1, <1>2, <1>4, <1>5, <2>1
<1>. QED BY <1>5, <1>6, <1>7, <1>8

(* The ints differ from what they stand for by a multiple of their number. *)
LEMMA WrapIs ==
  ASSUME NEW n \in Int
  PROVE  Wrap(n) \in IntRange /\ \E q \in Int : n = q * Width + Wrap(n)
<1>1. PICK h, w : h = IntLimit /\ w = 2 * h
  OBVIOUS
<1>2. h \in Nat \ {0} /\ w \in Nat \ {0}
  BY <1>1, MultAssumption
<1>3. PICK d, e : d = (n + h) \div w /\ e = (n + h) % w
  OBVIOUS
<1>4. n + h \in Int
  BY <1>2
<1>5. d \in Int /\ e \in Int /\ 0 <= e /\ e < w /\ n + h = d * w + e
  BY <1>2, <1>3, <1>4
<1>6. Wrap(n) = e - h
  BY <1>1, <1>3 DEF Wrap
<1>7. e - h \in -h .. h - 1 /\ n = d * w + (e - h)
  BY <1>1, <1>2, <1>5
<1>. QED BY <1>1, <1>5, <1>6, <1>7 DEF IntRange, Width

(* An int stands for itself and for all numbers that differ by a multiple. *)
LEMMA WrapOf ==
  ASSUME NEW n \in Int, NEW q \in Int, NEW r \in IntRange, n = q * Width + r
  PROVE  Wrap(n) = r
<1>1. PICK h, w : h = IntLimit /\ w = 2 * h
  OBVIOUS
<1>2. h \in Nat \ {0} /\ w \in Nat \ {0} /\ r \in -h .. h - 1
  BY <1>1, MultAssumption DEF IntRange
<1>3. n + h \in Int /\ r + h \in 0 .. w - 1
  BY <1>1, <1>2
<1>4. n + h = q * w + (r + h)
  <2>1. n = q * w + r
    BY <1>1 DEF Width
  <2>2. PICK k \in Int : k = q * w
    BY <1>2
  <2>. QED BY <1>2, <2>1, <2>2
<1>5. (n + h) % w = r + h
  BY <1>2, <1>3, <1>4, RemainderIs
<1>. QED BY <1>1, <1>2, <1>5 DEF Wrap

(* An int that is itself no sum out of range is left as it is.             *)
LEMMA WrapFits ==
  ASSUME NEW n \in IntRange
  PROVE  Wrap(n) = n
<1>1. n \in Int /\ Width \in Int
  BY MultAssumption DEF IntRange, Width
<1>2. n = 0 * Width + n
  BY <1>1
<1>. QED BY <1>1, <1>2, WrapOf

(* Overflow on the way does not change what the sum ends up as.            *)
LEMMA WrapOnTheWay ==
  ASSUME NEW a \in Int, NEW b \in Int
  PROVE  Wrap(Wrap(a) + Wrap(b)) = Wrap(a + b)
<1>1. PICK w : w = Width
  OBVIOUS
<1>2. w \in Int
  BY <1>1, MultAssumption DEF Width
<1>3. PICK qa \in Int : a = qa * w + Wrap(a)
  BY <1>1, WrapIs
<1>4. PICK qb \in Int : b = qb * w + Wrap(b)
  BY <1>1, WrapIs
<1>5. Wrap(a) \in Int /\ Wrap(b) \in Int
  BY WrapIs, MultAssumption DEF IntRange
<1>6. PICK x, y, n : x = Wrap(a) /\ y = Wrap(b) /\ n = x + y
  OBVIOUS
<1>7. n \in Int /\ x \in Int /\ y \in Int
  BY <1>5, <1>6
<1>8. PICK q \in Int : n = q * w + Wrap(n)
  BY <1>1, <1>7, WrapIs
<1>9. PICK r : r = Wrap(n)
  OBVIOUS
<1>10. r \in IntRange /\ r \in Int
  BY <1>7, <1>9, WrapIs, MultAssumption DEF IntRange
<1>11. a + b = ((qa + qb) + q) * w + r
  <2>1. ((qa + qb) + q) * w = (qa * w + qb * w) + q * w
    BY <1>2
  <2>2. PICK ka \in Int, kb \in Int, k \in Int : ka = qa * w /\ kb = qb * w /\ k = q * w
    BY <1>2
  <2>3. a = ka + x /\ b = kb + y /\ x + y = k + r
    BY <1>3, <1>4, <1>6, <1>8, <1>9, <2>2
  <2>4. a + b = ((ka + kb) + k) + r
    BY <1>7, <1>10, <2>3
  <2>. QED BY <2>1, <2>2, <2>4
<1>12. Wrap(a + b) = r
  <2>1. PICK m, k : m = a + b /\ k = (qa + qb) + q
    OBVIOUS
  <2>2. m \in Int /\ k \in Int /\ m = k * Width + r
    BY <1>1, <1>11, <2>1
  <2>. QED BY <1>10, <2>1, <2>2, WrapOf
<1>. QED BY <1>6, <1>9, <1>12

\* s is the sum of the products in the first n lists of t, as an int.
SumsTo(t, n, s) ==
  \E g \in [1 .. n -> Int] :
    /\ g[1] = 0 /\ \A k \in 2 .. n : g[k] = g[k - 1] + t[k][1] * t[k][2]
    /\ s = Wrap(g[n])

(* The sum of no products is 0.                                            *)
LEMMA SumsStart ==
  ASSUME NEW t
  PROVE  SumsTo(t, 1, 0)
<1> DEFINE g == [k \in 1 .. 1 |-> 0]
<1>1. 0 \in IntRange
  BY MultAssumption DEF IntRange
<1>2. Wrap(0) = 0
  BY <1>1, WrapFits
<1>3. g \in [1 .. 1 -> Int] /\ g[1] = 0 /\ 2 .. 1 = {}
  OBVIOUS
<1>. QED BY <1>2, <1>3 DEF SumsTo

(* A product more, computed and added with overflow.                       *)
LEMMA SumsGrow ==
  ASSUME NEW t \in Seq(Seq(Int)), NEW n \in Nat, n >= 1, n < Len(t), Len(t[n + 1]) >= 2,
         NEW s, SumsTo(t, n, s)
  PROVE  SumsTo(t, n + 1, Wrap(s + Wrap(t[n + 1][1] * t[n + 1][2])))
<1>1. PICK g \in [1 .. n -> Int] :
        /\ g[1] = 0 /\ \A k \in 2 .. n : g[k] = g[k - 1] + t[k][1] * t[k][2]
        /\ s = Wrap(g[n])
  BY DEF SumsTo
<1>2. PICK x, a, b : a = t[n + 1][1] /\ b = t[n + 1][2] /\ x = a * b
  OBVIOUS
<1>3. a \in Int /\ b \in Int /\ g[n] \in Int
  <2>1. n + 1 \in 1 .. Len(t) /\ n \in 1 .. n
    OBVIOUS
  <2>2. t[n + 1] \in Seq(Int)
    BY <2>1
  <2>. QED BY <1>1, <1>2, <2>1, <2>2
<1>4. x \in Int
  BY <1>2, <1>3
<1> DEFINE f == [k \in 1 .. n + 1 |-> IF k = n + 1 THEN g[n] + x ELSE g[k]]
<1>5. f \in [1 .. n + 1 -> Int] /\ f[1] = 0 /\ f[n + 1] = g[n] + x
  <2>1. \A k \in 1 .. n + 1 : (IF k = n + 1 THEN g[n] + x ELSE g[k]) \in Int
    BY <1>1, <1>3, <1>4
  <2>2. 1 \in 1 .. n + 1 /\ n + 1 \in 1 .. n + 1 /\ 1 # n + 1
    OBVIOUS
  <2>. QED BY <1>1, <2>1, <2>2
<1>6. ASSUME NEW k \in 2 .. n + 1 PROVE f[k] = f[k - 1] + t[k][1] * t[k][2]
  <2>1. CASE k = n + 1
    <3>1. k - 1 \in 1 .. n + 1 /\ k - 1 # n + 1 /\ k - 1 = n
      BY <2>1
    <3>2. f[k - 1] = g[n] /\ f[k] = g[n] + x
      BY <1>5, <2>1, <3>1
    <3> HIDE DEF f
    <3>. QED BY <1>2, <2>1, <3>2
  <2>2. CASE k # n + 1
    <3>1. k \in 2 .. n /\ k \in 1 .. n + 1 /\ k - 1 \in 1 .. n + 1 /\ k - 1 # n + 1
      BY <2>2
    <3>2. f[k] = g[k] /\ f[k - 1] = g[k - 1]
      BY <2>2, <3>1
    <3> HIDE DEF f
    <3>. QED BY <1>1, <3>1, <3>2
  <2>. QED BY <2>1, <2>2
<1>7. Wrap(s + Wrap(x)) = Wrap(f[n + 1])
  BY <1>1, <1>3, <1>4, <1>5, WrapOnTheWay
<1> HIDE DEF f
<1>8. SumsTo(t, n + 1, Wrap(s + Wrap(x)))
  BY <1>5, <1>6, <1>7 DEF SumsTo
<1>. QED BY <1>2, <1>8

(* The sum at the end is that of the definition.                           *)
LEMMA SumsAre ==
  ASSUME NEW t \in Seq(Seq(Int)), Len(t) >= 1, NEW s, SumsTo(t, Len(t), s)
  PROVE  Sums(t)[Len(t)] \in Int /\ s = Wrap(Sums(t)[Len(t)])
<1> DEFINE n == Len(t)
           Eq(h) == h = [k \in 1 .. n |-> IF k = 1 THEN 0 ELSE h[k - 1] + t[k][1] * t[k][2]]
           sums == CHOOSE h : Eq(h)
<1>1. n \in Nat /\ n >= 1
  OBVIOUS
<1>2. PICK g \in [1 .. n -> Int] :
        /\ g[1] = 0 /\ \A k \in 2 .. n : g[k] = g[k - 1] + t[k][1] * t[k][2]
        /\ s = Wrap(g[n])
  BY DEF SumsTo
<1>3. Eq(g)
  <2>1. ASSUME NEW k \in 1 .. n
        PROVE  g[k] = IF k = 1 THEN 0 ELSE g[k - 1] + t[k][1] * t[k][2]
    <3>1. CASE k # 1
      <4>1. k \in 2 .. n
        BY <1>1, <3>1
      <4>. QED BY <1>2, <3>1, <4>1
    <3>. QED BY <1>2, <3>1
  <2>. QED BY <1>2, <2>1
<1>4. Eq(sums)
  BY <1>3, Zenon
<1>5. Sums(t) = sums
  BY Zenon DEF Sums, sums
<1> HIDE DEF sums
<1>6. \A k \in 1 .. n : sums[k] = IF k = 1 THEN 0 ELSE sums[k - 1] + t[k][1] * t[k][2]
  BY <1>4, Zenon
<1> DEFINE Same == {m \in Nat : m + 1 <= n => sums[m + 1] = g[m + 1]}
<1>7. 0 \in Same
  <2> SUFFICES ASSUME 1 <= n PROVE sums[1] = g[1]
    OBVIOUS
  <2>1. 1 \in 1 .. n
    BY <1>1
  <2>. QED BY <1>2, <1>6, <2>1
<1>8. ASSUME NEW m \in Nat, m \in Same PROVE m + 1 \in Same
  <2> SUFFICES ASSUME m + 2 <= n PROVE sums[m + 2] = g[m + 2]
    OBVIOUS
  <2>1. /\ m + 2 \in 2 .. n /\ m + 2 \in 1 .. n /\ m + 2 # 1 /\ (m + 2) - 1 = m + 1
        /\ sums[m + 1] = g[m + 1]
    BY <1>1, <1>8
  <2>2. sums[m + 2] = sums[m + 1] + t[m + 2][1] * t[m + 2][2]
    BY <1>6, <2>1
  <2>3. g[m + 2] = g[m + 1] + t[m + 2][1] * t[m + 2][2]
    BY <1>2, <2>1
  <2>. QED BY <2>1, <2>2, <2>3
<1>9. 0 \in Same /\ \A m \in Nat : m \in Same => m + 1 \in Same
  BY <1>7, <1>8
<1>10. sums[n] = g[n]
  <2> HIDE DEF Same
  <2>1. Nat \subseteq Same
    BY <1>9, NatInductiveSet
  <2>2. n - 1 \in Same /\ (n - 1) + 1 = n
    BY <1>1, <2>1
  <2>. QED BY <1>1, <2>2 DEF Same
<1>11. g[n] \in Int
  <2>1. n \in 1 .. n
    BY <1>1
  <2> HIDE DEF n
  <2>. QED BY <1>2, <2>1
<1>. QED BY <1>2, <1>5, <1>10, <1>11

(* Pieces of which the first has w integers and each other one two: there  *)
(* are as many integers in all.                                            *)
LEMMA PiecesHold ==
  ASSUME NEW ps \in Seq(Seq(Int)), NEW w \in Nat, Len(ps) >= 1, Len(ps[1]) >= w,
         \A k \in 2 .. Len(ps) : Len(ps[k]) >= 2
  PROVE  Len(FlattenSeq(ps)) >= 2 * (Len(ps) - 1) + w
<1> DEFINE Pre(k) == FlattenSeq(SubSeq(ps, 1, k))
           Good == {k \in Nat : k + 1 <= Len(ps) => Len(Pre(k + 1)) >= 2 * k + w}
<1>1. Len(ps) \in Nat /\ \A k \in 1 .. Len(ps) : ps[k] \in Seq(Int)
  OBVIOUS
<1>2. ASSUME NEW k \in 1 .. Len(ps)
      PROVE  /\ Pre(k) = Pre(k - 1) \o ps[k] /\ Pre(k - 1) \in Seq(Int)
             /\ Len(Pre(k)) = Len(Pre(k - 1)) + Len(ps[k])
  <2>1. SubSeq(ps, 1, k - 1) \in Seq(Seq(Int))
    BY <1>1
  <2>2. Pre(k - 1) \in Seq(Int)
    BY <2>1, FlattenTyped
  <2>3. Pre(k) = Pre(k - 1) \o ps[k]
    BY FlattenPrefix
  <2> HIDE DEF Pre
  <2>. QED BY <1>1, <2>2, <2>3
<1> HIDE DEF Pre
<1>3. 0 \in Good
  <2>1. 1 \in 1 .. Len(ps) /\ ps[1] \in Seq(Int)
    BY <1>1
  <2>2. Len(Pre(1)) = Len(Pre(1 - 1)) + Len(ps[1]) /\ Pre(1 - 1) \in Seq(Int)
    BY <1>2, <2>1, Zenon
  <2>3. Len(Pre(1 - 1)) \in Nat /\ Len(ps[1]) \in Nat
    BY <2>1, <2>2
  <2>4. Len(Pre(1)) >= Len(ps[1])
    BY <2>2, <2>3
  <2>5. Len(Pre(0 + 1)) >= 2 * 0 + w
    BY <2>3, <2>4
  <2>. QED BY <2>5
<1>4. ASSUME NEW k \in Nat, k \in Good PROVE k + 1 \in Good
  <2> SUFFICES ASSUME (k + 1) + 1 <= Len(ps) PROVE Len(Pre((k + 1) + 1)) >= 2 * (k + 1) + w
    OBVIOUS
  <2> DEFINE n == (k + 1) + 1
  <2>1. n \in 1 .. Len(ps) /\ n \in 2 .. Len(ps) /\ n - 1 = k + 1 /\ k + 1 <= Len(ps)
    BY <1>1
  <2>2. Len(Pre(k + 1)) >= 2 * k + w
    BY <1>4, <2>1
  <2> HIDE DEF n
  <2>3. Len(Pre(n)) = Len(Pre(k + 1)) + Len(ps[n]) /\ Pre(k + 1) \in Seq(Int)
    BY <1>2, <2>1
  <2>4. Len(ps[n]) >= 2 /\ Len(ps[n]) \in Nat /\ Len(Pre(k + 1)) \in Nat
    BY <1>1, <2>1, <2>3
  <2>5. Len(Pre(n)) >= 2 * (k + 1) + w
    <3>1. PICK x, y, z : x = Len(Pre(n)) /\ y = Len(Pre(k + 1)) /\ z = Len(ps[n])
      OBVIOUS
    <3>2. y \in Nat /\ z \in Nat /\ z >= 2 /\ y >= 2 * k + w /\ x = y + z
      BY <2>2, <2>3, <2>4, <3>1
    <3>3. 2 * (k + 1) + w = (2 * k + w) + 2
      OBVIOUS
    <3>4. x >= (2 * k + w) + 2
      BY <3>2
    <3>. QED BY <3>1, <3>3, <3>4
  <2>. QED BY <2>5 DEF n
<1>5. 0 \in Good /\ \A k \in Nat : k \in Good => k + 1 \in Good
  BY <1>3, <1>4
<1>6. Len(Pre(Len(ps))) >= 2 * (Len(ps) - 1) + w
  <2> HIDE DEF Good
  <2>1. Nat \subseteq Good
    BY <1>5, NatInductiveSet
  <2>2. Len(ps) - 1 \in Good /\ (Len(ps) - 1) + 1 = Len(ps)
    BY <1>1, <2>1
  <2>. QED BY <1>1, <2>2 DEF Good
<1>7. SubSeq(ps, 1, Len(ps)) = ps
  BY <1>1
<1>. QED BY <1>6, <1>7 DEF Pre

(* Each list is found in the concatenation behind those before it.         *)
LEMMA FlattenPlace ==
  ASSUME NEW S, NEW s \in Seq(Seq(S)), NEW i \in 1 .. Len(s)
  PROVE  LET b == Len(FlattenSeq(SubSeq(s, 1, i - 1)))
         IN  /\ b \in Nat /\ b + Len(s[i]) = Len(FlattenSeq(SubSeq(s, 1, i)))
             /\ b + Len(s[i]) <= Len(FlattenSeq(s))
             /\ \A j \in 1 .. Len(s[i]) : FlattenSeq(s)[b + j] = s[i][j]
<1> DEFINE p == FlattenSeq(SubSeq(s, 1, i - 1))
           q == FlattenSeq(SubSeq(s, 1, i))
           r == FlattenSeq(SubSeq(s, i + 1, Len(s)))
<1>1. /\ SubSeq(s, 1, i - 1) \in Seq(Seq(S)) /\ SubSeq(s, 1, i) \in Seq(Seq(S))
      /\ SubSeq(s, i + 1, Len(s)) \in Seq(Seq(S)) /\ s[i] \in Seq(S)
      /\ s = SubSeq(s, 1, i) \o SubSeq(s, i + 1, Len(s))
  <2>1. PICK u, v : u = SubSeq(s, 1, i) /\ v = SubSeq(s, i + 1, Len(s))
    OBVIOUS
  <2>2. /\ u \in Seq(Seq(S)) /\ v \in Seq(Seq(S)) /\ Len(u) = i /\ Len(v) = Len(s) - i
        /\ \A k \in 1 .. i : u[k] = s[k]
        /\ \A k \in 1 .. Len(s) - i : v[k] = s[i + k]
    <3>1. PICK T, n : T = Seq(S) /\ n = Len(s)
      OBVIOUS
    <3>2. s \in Seq(T) /\ n \in Nat /\ i \in 1 .. n /\ n = Len(s)
      BY <3>1
    <3>3. u \in Seq(T) /\ Len(u) = i /\ \A k \in 1 .. i : u[k] = s[k]
      BY <2>1, <3>2
    <3>4. v \in Seq(T) /\ Len(v) = n - i
      BY <2>1, <3>1, <3>2
    <3>5. \A k \in 1 .. n - i : v[k] = s[i + k]
      BY <2>1, <3>1, <3>2
    <3>. QED BY <3>1, <3>3, <3>4, <3>5, Zenon
  <2>3. PICK c : c = u \o v
    OBVIOUS
  <2>4. c \in Seq(Seq(S)) /\ Len(c) = Len(s) /\ \A k \in 1 .. Len(s) : c[k] = s[k]
    <3>1. /\ c \in Seq(Seq(S)) /\ Len(c) = Len(u) + Len(v)
          /\ \A k \in 1 .. Len(u) + Len(v) : c[k] = IF k <= Len(u) THEN u[k] ELSE v[k - Len(u)]
      BY <2>2, <2>3, ConcatProperties, Zenon
    <3>2. Len(u) + Len(v) = Len(s) /\ Len(s) \in Nat
      BY <2>2
    <3>3. ASSUME NEW k \in 1 .. Len(s) PROVE c[k] = s[k]
      <4>1. c[k] = IF k <= i THEN u[k] ELSE v[k - i]
        BY <2>2, <3>1, <3>2
      <4>2. CASE k <= i
        <5>1. k \in 1 .. i
          BY <4>2
        <5>. QED BY <2>2, <4>1, <4>2, <5>1
      <4>3. CASE k > i
        <5>1. k - i \in 1 .. Len(s) - i /\ i + (k - i) = k /\ ~(k <= i)
          BY <4>3
        <5>. QED BY <2>2, <4>1, <5>1
      <4>. QED BY <4>2, <4>3
    <3>. QED BY <3>1, <3>2, <3>3
  <2>5. c = s
    BY <2>4, SeqEqual
  <2>6. SubSeq(s, 1, i - 1) \in Seq(Seq(S)) /\ s[i] \in Seq(S)
    OBVIOUS
  <2>. QED BY <2>1, <2>2, <2>3, <2>5, <2>6
<1>2. p \in Seq(S) /\ q \in Seq(S) /\ r \in Seq(S)
  BY <1>1, FlattenTyped
<1>3. q = p \o s[i]
  BY FlattenPrefix
<1>4. FlattenSeq(s) = q \o r
  <2>1. PICK u, v : u = SubSeq(s, 1, i) /\ v = SubSeq(s, i + 1, Len(s))
    OBVIOUS
  <2>2. u \in Seq(Seq(S)) /\ v \in Seq(Seq(S)) /\ s = u \o v
    BY <1>1, <2>1
  <2>3. FlattenSeq(u \o v) = FlattenSeq(u) \o FlattenSeq(v)
    BY <2>2, FlattenConcat
  <2>. QED BY <2>1, <2>2, <2>3
<1> HIDE DEF p, q, r
<1>5. PICK e : e = s[i]
  OBVIOUS
<1>6. e \in Seq(S) /\ q = p \o e
  BY <1>1, <1>3, <1>5
<1>7. Len(p) \in Nat /\ Len(q) = Len(p) + Len(e) /\ Len(q \o r) = Len(q) + Len(r) /\ Len(r) \in Nat
      /\ Len(e) \in Nat
  BY <1>2, <1>6
<1>8. ASSUME NEW j \in 1 .. Len(e) PROVE (q \o r)[Len(p) + j] = e[j]
  <2>1. Len(p) + j \in 1 .. Len(q)
    BY <1>7
  <2>2. (q \o r)[Len(p) + j] = q[Len(p) + j]
    BY <1>2, <2>1
  <2>3. (p \o e)[Len(p) + j] = e[j]
    BY <1>2, <1>6
  <2>. QED BY <1>6, <2>2, <2>3
<1>9. /\ Len(p) \in Nat /\ Len(p) + Len(s[i]) = Len(q)
      /\ Len(p) + Len(s[i]) <= Len(FlattenSeq(s))
      /\ \A j \in 1 .. Len(s[i]) : FlattenSeq(s)[Len(p) + j] = s[i][j]
  BY <1>4, <1>5, <1>7, <1>8
<1>. QED BY <1>9, Zenon DEF p, q

Pieces(ls) == [i \in 1 .. Len(ls) |-> ls[i].pieces]
IntsOf(ls) == [i \in 1 .. Len(ls) |-> ls[i].ints]

(* The lines of a file, as the module assumes them.                        *)
LEMMA LinesAre ==
  ASSUME NEW ls \in MultFiles
  PROVE  /\ Len(ls) \in Nat /\ DOMAIN ls = 1 .. Len(ls)
         /\ Pieces(ls) \in Seq(Seq(Seq(Int))) /\ Len(Pieces(ls)) = Len(ls)
         /\ IntsOf(ls) \in Seq(Seq(Int)) /\ Len(IntsOf(ls)) = Len(ls)
         /\ FlattenSeq(Pieces(ls)) \in Seq(Seq(Int))
         /\ \A i \in 1 .. Len(ls) :
              /\ Pieces(ls)[i] = ls[i].pieces /\ IntsOf(ls)[i] = ls[i].ints
              /\ ls[i].pieces \in Seq(Seq(Int)) /\ ls[i].ints \in Seq(Int)
              /\ CutOf(ls[i].ints, ls[i].pieces)
              /\ Len(ls[i].ints) <= (IF i = 1 THEN 1 ELSE 2)
<1>1. /\ ls \in Seq([ints : Seq(Int), pieces : Seq(Seq(Int))])
      /\ \A i \in 1 .. Len(ls) : /\ CutOf(ls[i].ints, ls[i].pieces)
                                 /\ Len(ls[i].ints) <= (IF i = 1 THEN 1 ELSE 2)
  BY MultAssumption
<1>2. Len(ls) \in Nat /\ DOMAIN ls = 1 .. Len(ls)
  BY <1>1
<1>3. \A i \in 1 .. Len(ls) : ls[i].pieces \in Seq(Seq(Int)) /\ ls[i].ints \in Seq(Int)
  <2>1. PICK A, B : A = Seq(Int) /\ B = Seq(Seq(Int))
    OBVIOUS
  <2>2. ls \in Seq([ints : A, pieces : B])
    BY <1>1, <2>1
  <2>3. \A i \in 1 .. Len(ls) : ls[i] \in [ints : A, pieces : B]
    <3>1. PICK R : R = [ints : A, pieces : B]
      OBVIOUS
    <3>2. ls \in Seq(R)
      BY <2>2, <3>1
    <3>3. \A i \in 1 .. Len(ls) : ls[i] \in R
      BY <3>2
    <3>. QED BY <3>1, <3>3, Zenon
  <2>4. \A i \in 1 .. Len(ls) : ls[i].pieces \in B /\ ls[i].ints \in A
    BY <2>3
  <2>. QED BY <2>1, <2>4
<1>4. Pieces(ls) \in Seq(Seq(Seq(Int))) /\ Len(Pieces(ls)) = Len(ls)
  BY <1>2, <1>3 DEF Pieces
<1>5. IntsOf(ls) \in Seq(Seq(Int)) /\ Len(IntsOf(ls)) = Len(ls)
  BY <1>2, <1>3 DEF IntsOf
<1>6. \A i \in 1 .. Len(ls) : Pieces(ls)[i] = ls[i].pieces /\ IntsOf(ls)[i] = ls[i].ints
  BY DEF Pieces, IntsOf
<1>7. FlattenSeq(Pieces(ls)) \in Seq(Seq(Int))
  BY <1>4, FlattenTyped
<1>. QED BY <1>1, <1>2, <1>3, <1>4, <1>5, <1>6, <1>7, Zenon

(* A line whose pieces all pass for lines is not cut.                      *)
LEMMA NotCut ==
  ASSUME NEW ps \in Seq(Seq(Int)), NEW l \in Seq(Int), CutOf(l, ps),
         NEW w \in {1, 2}, Len(l) <= w, Len(ps[1]) >= w,
         \A k \in 2 .. Len(ps) : Len(ps[k]) >= 2
  PROVE  Len(ps) = 1 /\ ps[1] = l
<1>1. Len(ps) >= 1 /\ Len(ps) \in Nat /\ w \in Nat
  BY DEF CutOf
<1>2. Len(FlattenSeq(ps)) >= 2 * (Len(ps) - 1) + w
  BY <1>1, PiecesHold
<1>3. FlattenSeq(ps) \in Seq(Int)
  BY FlattenTyped
<1>4. PICK f, n, m : f = Len(FlattenSeq(ps)) /\ n = Len(ps) /\ m = Len(l)
  OBVIOUS
<1>5. f \in Nat /\ n \in Nat /\ m \in Nat /\ n >= 1
  BY <1>1, <1>3, <1>4
<1>6. f >= 2 * (n - 1) + w /\ f <= m + n - 1 /\ m <= w
  BY <1>2, <1>4 DEF CutOf
<1>7. n = 1
  BY <1>1, <1>5, <1>6
<1>. QED BY <1>4, <1>7 DEF CutOf

(* If all that was read passed for lines, it was the lines.                *)
LEMMA NothingCut ==
  ASSUME NEW ls \in MultFiles, NEW t, t = FlattenSeq(Pieces(ls)), Len(t) >= 1, Len(t[1]) >= 1,
         \A k \in 2 .. Len(t) : Len(t[k]) >= 2
  PROVE  Len(t) = Len(ls) /\ Len(ls) >= 1 /\ \A i \in 1 .. Len(ls) : t[i] = ls[i].ints
<1> DEFINE P == Pieces(ls)
           L == Len(ls)
           Before(i) == Len(FlattenSeq(SubSeq(P, 1, i)))
           Good == {n \in Nat : n <= L => /\ Before(n) = n
                                          /\ \A i \in 1 .. n : t[i] = ls[i].ints}
<1>1. /\ P \in Seq(Seq(Seq(Int))) /\ Len(P) = L /\ L \in Nat
      /\ t \in Seq(Seq(Int)) /\ Len(t) \in Nat
      /\ \A i \in 1 .. L : /\ P[i] = ls[i].pieces /\ P[i] \in Seq(Seq(Int))
                           /\ ls[i].ints \in Seq(Int) /\ CutOf(ls[i].ints, P[i])
                           /\ Len(ls[i].ints) <= (IF i = 1 THEN 1 ELSE 2)
  <2>1. /\ P \in Seq(Seq(Seq(Int))) /\ Len(P) = L /\ L \in Nat /\ t \in Seq(Seq(Int))
        /\ \A i \in 1 .. L : /\ P[i] = ls[i].pieces /\ ls[i].pieces \in Seq(Seq(Int))
                             /\ ls[i].ints \in Seq(Int) /\ CutOf(ls[i].ints, ls[i].pieces)
                             /\ Len(ls[i].ints) <= (IF i = 1 THEN 1 ELSE 2)
    BY LinesAre, Zenon
  <2> HIDE DEF P, L
  <2>2. Len(t) \in Nat
    BY <2>1
  <2>. QED BY <2>1, <2>2, Zenon
<1> HIDE DEF P, L
<1>2. 0 \in Good
  <2>1. SubSeq(P, 1, 0) = <<>>
    BY <1>1
  <2>2. Before(0) = 0
    <3>1. FlattenSeq(SubSeq(P, 1, 0)) = <<>>
      BY <2>1, FlattenEmpty, Zenon
    <3>2. Len(<<>>) = 0
      OBVIOUS
    <3>. QED BY <3>1, <3>2, Zenon
  <2>. QED BY <2>2
<1>3. ASSUME NEW n \in Nat, n \in Good PROVE n + 1 \in Good
  <2> SUFFICES ASSUME n + 1 <= L
               PROVE  /\ Before(n + 1) = n + 1
                      /\ \A i \in 1 .. n + 1 : t[i] = ls[i].ints
    OBVIOUS
  <2>1. Before(n) = n /\ \A i \in 1 .. n : t[i] = ls[i].ints
    BY <1>1, <1>3
  <2> HIDE DEF Before
  <2>2. PICK i, ps, l : i = n + 1 /\ ps = P[i] /\ l = ls[i].ints
    OBVIOUS
  <2>3. /\ i \in 1 .. L /\ i \in 1 .. Len(P) /\ i - 1 = n /\ n \in Nat
        /\ ps \in Seq(Seq(Int)) /\ l \in Seq(Int) /\ CutOf(l, ps)
        /\ Len(l) <= (IF i = 1 THEN 1 ELSE 2)
    BY <1>1, <2>2
  <2>4. /\ n + Len(ps) = Before(n + 1) /\ n + Len(ps) <= Len(t)
        /\ \A j \in 1 .. Len(ps) : t[n + j] = ps[j]
    <3>1. LET b == Len(FlattenSeq(SubSeq(P, 1, i - 1)))
          IN  /\ b \in Nat /\ b + Len(P[i]) = Len(FlattenSeq(SubSeq(P, 1, i)))
              /\ b + Len(P[i]) <= Len(FlattenSeq(P))
              /\ \A j \in 1 .. Len(P[i]) : FlattenSeq(P)[b + j] = P[i][j]
      <4>1. PICK Q : Q = Seq(Int)
        OBVIOUS
      <4>2. P \in Seq(Seq(Q)) /\ i \in 1 .. Len(P)
        BY <1>1, <2>3, <4>1
      <4>. QED BY <4>2, FlattenPlace, Zenon
    <3>2. t = FlattenSeq(P)
      BY DEF P
    <3>3. Len(FlattenSeq(SubSeq(P, 1, i - 1))) = n
      BY <2>1, <2>3 DEF Before
    <3>4. /\ n + Len(P[i]) = Len(FlattenSeq(SubSeq(P, 1, i))) /\ n + Len(P[i]) <= Len(t)
          /\ \A j \in 1 .. Len(P[i]) : t[n + j] = P[i][j]
      BY <3>1, <3>2, <3>3, Zenon
    <3>. QED BY <2>2, <3>4 DEF Before
  <2>5. PICK w \in {1, 2} : w = IF i = 1 THEN 1 ELSE 2
    OBVIOUS
  <2>6. Len(ps) >= 1 /\ Len(ps) \in Nat
    BY <2>3 DEF CutOf
  <2>7. Len(ps[1]) >= w
    <3>1. t[n + 1] = ps[1] /\ n + 1 <= Len(t)
      BY <1>1, <2>4, <2>6
    <3>2. CASE i = 1
      BY <2>2, <2>5, <3>1, <3>2
    <3>3. CASE i # 1
      <4>1. n + 1 \in 2 .. Len(t)
        BY <1>1, <2>2, <3>1, <3>3
      <4>. QED BY <2>5, <3>1, <3>3, <4>1
    <3>. QED BY <3>2, <3>3
  <2>8. ASSUME NEW k \in 2 .. Len(ps) PROVE Len(ps[k]) >= 2
    <3>1. k \in 1 .. Len(ps) /\ n + k \in 2 .. Len(t)
      BY <1>1, <2>4, <2>6
    <3>2. t[n + k] = ps[k]
      BY <2>4, <3>1, Zenon
    <3>3. Len(t[n + k]) >= 2
      BY <3>1
    <3>. QED BY <3>2, <3>3
  <2>9. Len(ps) = 1 /\ ps[1] = l
    <3>1. Len(l) <= w
      BY <2>3, <2>5
    <3>. QED BY <2>3, <2>7, <2>8, <3>1, NotCut
  <2>10. Before(n + 1) = n + 1 /\ t[n + 1] = ls[n + 1].ints
    BY <2>2, <2>4, <2>9
  <2>11. ASSUME NEW j \in 1 .. n + 1 PROVE t[j] = ls[j].ints
    <3>1. j \in 1 .. n \/ j = n + 1
      OBVIOUS
    <3>. QED BY <2>1, <2>10, <3>1
  <2>. QED BY <2>10, <2>11
<1>4. 0 \in Good /\ \A n \in Nat : n \in Good => n + 1 \in Good
  BY <1>2, <1>3
<1>5. L \in Good
  <2> HIDE DEF Good
  <2>. QED BY <1>1, <1>4, NatInductiveSet
<1>6. Before(L) = L /\ \A i \in 1 .. L : t[i] = ls[i].ints
  BY <1>1, <1>5
<1>7. SubSeq(P, 1, L) = P
  BY <1>1
<1>8. Len(t) = L
  BY <1>6, <1>7 DEF P
<1>. QED BY <1>6, <1>8 DEF L

(* So the sum of what was read is the sum of the products.                 *)
LEMMA SumOfFile ==
  ASSUME NEW ls \in MultFiles, NEW t, t = FlattenSeq(Pieces(ls)), Len(t) >= 1, Len(t[1]) >= 1,
         \A k \in 2 .. Len(t) : Len(t[k]) >= 2, NEW s, SumsTo(t, Len(t), s)
  PROVE  /\ Sums(IntsOf(ls))[Len(ls)] \in Int /\ s = Wrap(Sums(IntsOf(ls))[Len(ls)])
         /\ t[1] = ls[1].ints
<1>1. Len(t) = Len(ls) /\ Len(ls) >= 1 /\ \A i \in 1 .. Len(ls) : t[i] = ls[i].ints
  BY NothingCut
<1>2. /\ t \in Seq(Seq(Int)) /\ IntsOf(ls) \in Seq(Seq(Int)) /\ Len(IntsOf(ls)) = Len(ls)
      /\ \A i \in 1 .. Len(ls) : IntsOf(ls)[i] = ls[i].ints
      /\ Len(ls) \in Nat
  BY LinesAre
<1>3. t = IntsOf(ls)
  <2>1. \A i \in 1 .. Len(t) : t[i] = IntsOf(ls)[i]
    BY <1>1, <1>2
  <2>. QED BY <1>1, <1>2, <2>1, SeqEqual
<1>4. 1 \in 1 .. Len(ls)
  BY <1>1, <1>2
<1>5. Sums(t)[Len(t)] \in Int /\ s = Wrap(Sums(t)[Len(t)])
  BY <1>2, SumsAre
<1>. QED BY <1>1, <1>3, <1>4, <1>5

\* The inductive invariant: while no line was refused, the sum is that of
\* the products read so far.
MultInv ==
  /\ prog = "mult" /\ pc \in {"read"} \cup Ended
  /\ lines \in MultFiles /\ text = FlattenSeq(Pieces(lines)) /\ pos \in 0 .. Len(text)
  /\ pc # "exit_error" =>
       /\ pos = 0 => sum = 0 /\ pc = "read"
       /\ pos > 0 => /\ Len(text[1]) >= 1 /\ expected_sum = text[1][1]
                     /\ \A k \in 2 .. pos : Len(text[k]) >= 2
                     /\ SumsTo(text, pos, sum)
  /\ pc = "exit_ok" => (out = <<"correct">>) = (sum = expected_sum)

(* A line more.                                                            *)
LEMMA ReadingKeepsInv ==
  ASSUME MultInv, ReadSum \/ AddProduct
  PROVE  MultInv'
<1>1. /\ text \in Seq(Seq(Int)) /\ Len(text) \in Nat /\ pos \in Nat /\ pos < Len(text)
      /\ pos' = pos + 1 /\ pc = "read" /\ UNCHANGED <<prog, pc, text, lines>>
  BY LinesAre DEF MultInv, ReadSum, AddProduct, ReadsLine, Reading, AtEof
<1>2. pos + 1 \in 0 .. Len(text) /\ pos + 1 > 0 /\ pos + 1 # 0
  BY <1>1
<1>3. CASE ReadSum
  <2>1. pos = 0 /\ sum' = sum /\ sum = 0 /\ text[1] # <<>> /\ expected_sum' = text[1][1]
    BY <1>1, <1>3 DEF MultInv, ReadSum, AtFirstLine, nextline
  <2>2. 1 \in 1 .. Len(text)
    BY <1>1
  <2>3. text[1] \in Seq(Int)
    BY <1>1, <2>2
  <2>4. Len(text[1]) >= 1
    BY <2>1, <2>3
  <2>5. SumsTo(text, 1, sum')
    BY <2>1, SumsStart
  <2>6. pos' = 1 /\ \A k \in 2 .. 1 : Len(text[k]) >= 2
    BY <1>1, <2>1
  <2>. QED BY <1>1, <1>2, <2>1, <2>4, <2>5, <2>6 DEF MultInv
<1>4. CASE AddProduct
  <2>1. /\ pos # 0 /\ Len(text[pos + 1]) >= 2 /\ UNCHANGED expected_sum
        /\ sum' = Wrap(sum + Wrap(text[pos + 1][1] * text[pos + 1][2]))
    BY <1>4 DEF AddProduct, IsProduct, AtFirstLine, nextline
  <2>2. pos >= 1 /\ pos > 0
    BY <1>1, <2>1
  <2>3. /\ Len(text[1]) >= 1 /\ expected_sum = text[1][1] /\ SumsTo(text, pos, sum)
        /\ \A k \in 2 .. pos : Len(text[k]) >= 2
    BY <1>1, <2>2 DEF MultInv
  <2>4. SumsTo(text, pos + 1, sum')
    BY <1>1, <2>1, <2>2, <2>3, SumsGrow
  <2>5. ASSUME NEW k \in 2 .. pos + 1 PROVE Len(text[k]) >= 2
    <3>1. k \in 2 .. pos \/ k = pos + 1
      BY <1>1
    <3>. QED BY <2>1, <2>3, <3>1
  <2>. QED BY <1>1, <1>2, <2>1, <2>3, <2>4, <2>5 DEF MultInv
<1>. QED BY <1>3, <1>4

(* Each of mult-test's steps keeps the invariant.                          *)
LEMMA MultKeepsInv ==
  ASSUME MultInv, MultStep
  PROVE  MultInv'
<1>1. CASE IllegalFormat
  <2>1. /\ pc' = "exit_error" /\ UNCHANGED <<prog, text, lines>>
        /\ pos' = pos \/ (pos' = pos + 1 /\ pos # Len(text))
    BY <1>1 DEF IllegalFormat, ReadsLine, AtEof, multVars
  <2>2. pos' \in 0 .. Len(text)
    <3>1. Len(text) \in Nat /\ pos \in 0 .. Len(text)
      BY LinesAre DEF MultInv
    <3>. QED BY <2>1, <3>1
  <2>. QED BY <2>1, <2>2 DEF MultInv, Ended
<1>2. CASE Verdict
  <2>1. /\ pc = "read" /\ pos # 0 /\ pc' = "exit_ok"
        /\ out' = <<IF sum = expected_sum THEN "correct" ELSE "incorrect">>
        /\ UNCHANGED <<prog, text, pos, lines, expected_sum, sum>>
    BY <1>2 DEF Verdict, Reading, AtFirstLine, multVars
  <2>2. (out' = <<"correct">>) = (sum = expected_sum)
    BY <2>1
  <2>. QED BY <2>1, <2>2 DEF MultInv, Ended
<1>. QED BY <1>1, <1>2, ReadingKeepsInv DEF MultStep

(* Before the first line nothing is added.                                 *)
LEMMA MultStartsRight ==
  ASSUME MultInit
  PROVE  MultInv
<1>1. /\ prog = "mult" /\ pc = "read" /\ pos = 0 /\ sum = 0 /\ lines \in MultFiles
      /\ text = FlattenSeq(Pieces(lines))
  BY DEF MultInit, Opened, Pieces
<1>2. 0 \in 0 .. Len(text)
  BY <1>1, LinesAre
<1>. QED BY <1>1, <1>2 DEF MultInv

(* At the end of the file the sum is that of all lines.                    *)
LEMMA MultEndsRight == MultInv => VerdictIsRight
<1> SUFFICES ASSUME MultInv, pc = "exit_ok", AtEof, ProductsSum \in IntRange
             PROVE  (out = <<"correct">>) = (lines[1].ints[1] = ProductsSum)
  BY DEF VerdictIsRight
<1>1. /\ lines \in MultFiles /\ text = FlattenSeq(Pieces(lines)) /\ pos = Len(text)
      /\ (out = <<"correct">>) = (sum = expected_sum) /\ pos > 0
      /\ Len(text[1]) >= 1 /\ expected_sum = text[1][1]
      /\ \A k \in 2 .. pos : Len(text[k]) >= 2
      /\ SumsTo(text, pos, sum)
  BY LinesAre DEF MultInv, AtEof
<1>2. Len(text) >= 1
  BY <1>1, LinesAre
<1>3. /\ sum = Wrap(Sums(IntsOf(lines))[Len(lines)]) /\ text[1] = lines[1].ints
  BY <1>1, <1>2, SumOfFile
<1>4. ProductsSum = Sums(IntsOf(lines))[Len(lines)]
  BY DEF ProductsSum, IntsOf
<1>5. sum = ProductsSum
  BY <1>3, <1>4, WrapFits
<1>. QED BY <1>1, <1>3, <1>5
-------------------------------------------------------------------------------
(* drive-ls                                                                *)

(* What a boot sector may hold, as far as the addresses need it.           *)
Geometry ==
  /\ boot.BytsPerSec \in Nat \ {0} /\ boot.BytsPerSec < 65536
  /\ boot.SecPerClus \in Nat \ {0}
  /\ boot.RsvdSecCnt \in Nat
  /\ first_data_sector \in Nat

(* A product of two numbers, divided by one of them.                       *)
LEMMA Divides ==
  ASSUME NEW a \in Nat, NEW n \in Nat \ {0}
  PROVE  (a * n) \div n = a
OBVIOUS

(* Division with remainder.                                                *)
LEMMA WithRemainder ==
  ASSUME NEW a \in Nat, NEW n \in Nat \ {0}
  PROVE  /\ a = (a \div n) * n + (a % n)
         /\ a % n \in Nat /\ a % n < n /\ a \div n \in Nat
OBVIOUS
(* drive-ls.c:394-404.  The cell read for a cluster is its own: two bytes  *)
(* per cluster from the start of the FAT, in whatever sector; the rest     *)
(* within the sector is not cut by its 16 bits.                            *)
THEOREM CellOfCluster ==
  ASSUME Geometry, NEW c \in Nat
  PROVE  FatOffset(c) = boot.RsvdSecCnt * boot.BytsPerSec + 2 * c
<1>1. PICK b, r : b = boot.BytsPerSec /\ r = boot.RsvdSecCnt
  OBVIOUS
<1>2. b \in Nat \ {0} /\ b < 65536 /\ r \in Nat
  BY <1>1 DEF Geometry
<1>3. PICK q, m : q = (c * 2) \div b /\ m = (c * 2) % b
  OBVIOUS
<1>4. c * 2 \in Nat /\ b \in Nat \ {0}
  BY <1>2
<1>5. c * 2 = q * b + m /\ m \in Nat /\ m < b /\ q \in Nat
  BY <1>3, <1>4, WithRemainder
<1>6. U16(m) = m
  BY <1>2, <1>5 DEF U16
<1>7. FatOffset(c) = (r + q) * b + U16(m)
  BY <1>1, <1>3 DEF FatOffset, sec_to_offset
<1>8. (r + q) * b = r * b + q * b /\ r * b \in Nat /\ q * b \in Nat
  BY <1>2, <1>5
<1>9. (r + q) * b + m = r * b + 2 * c
  BY <1>2, <1>5, <1>8
<1> QED BY <1>1, <1>6, <1>7, <1>9

(* drive-ls.c:246-251.  new_dir_entry_iterator finds the way back from the *)
(* sector that cluster_to_sec computed to the cluster it was computed      *)
(* from: the chain that is followed is that of the directory.              *)
THEOREM ClusterRoundTrip ==
  ASSUME Geometry, NEW c \in Nat, c >= 2, c < 65536
  PROVE  U16((cluster_to_sec(c) - first_data_sector) \div boot.SecPerClus + 2) = c
<1>1. PICK a, n, d : a = c - 2 /\ n = boot.SecPerClus /\ d = first_data_sector
  OBVIOUS
<1>2. a \in Nat /\ n \in Nat \ {0} /\ d \in Nat
  BY <1>1 DEF Geometry
<1>3. cluster_to_sec(c) = a * n + d
  BY <1>1 DEF cluster_to_sec
<1>4. a * n \in Nat /\ (a * n + d) - d = a * n
  BY <1>2
<1>5. (a * n) \div n = a
  BY <1>2, Divides
<1>6. U16(a + 2) = c
  BY <1>1 DEF U16
<1> QED BY <1>1, <1>3, <1>4, <1>5, <1>6

(* Different data clusters do not overlap, and none overlaps the root      *)
(* directory: each begins a whole cluster behind the one before it.        *)
THEOREM ClustersApart ==
  ASSUME Geometry, NEW c \in Nat, c >= 2
  PROVE  /\ sec_to_offset(cluster_to_sec(c + 1))
              = sec_to_offset(cluster_to_sec(c)) + boot.SecPerClus * boot.BytsPerSec
         /\ sec_to_offset(cluster_to_sec(c)) >= sec_to_offset(first_data_sector)
<1>1. PICK a, n, d, b :
        /\ a = c - 2 /\ n = boot.SecPerClus /\ d = first_data_sector
        /\ b = boot.BytsPerSec
  OBVIOUS
<1>2. a \in Nat /\ n \in Nat \ {0} /\ d \in Nat /\ b \in Nat \ {0}
  BY <1>1 DEF Geometry
<1>3. cluster_to_sec(c) = a * n + d /\ cluster_to_sec(c + 1) = (a + 1) * n + d
  BY <1>1 DEF cluster_to_sec
<1>4. (a + 1) * n + d = (a * n + d) + n
  BY <1>2
<1>5. ((a * n + d) + n) * b = (a * n + d) * b + n * b
  <2>1. PICK k : k = a * n + d
    OBVIOUS
  <2>2. k \in Nat
    BY <1>2, <2>1
  <2> QED BY <1>2, <2>1, <2>2
<1>6. (a * n + d) * b >= d * b
  <2>1. PICK k : k = a * n
    OBVIOUS
  <2>2. k \in Nat
    BY <1>2, <2>1
  <2>3. (k + d) * b = k * b + d * b /\ k * b \in Nat /\ d * b \in Nat
    BY <1>2, <2>2
  <2> QED BY <2>1, <2>3
<1> QED BY <1>1, <1>3, <1>4, <1>5, <1>6 DEF sec_to_offset

\* How many entries a directory may have.
Fits(n) == n \in Nat \ {0} /\ U16(n) = n

(* The numbers of a boot sector that the addresses are computed from.      *)
LEMMA BootIs ==
  ASSUME boot \in Boots
  PROVE  /\ boot.BytsPerSec \in Nat \ {0} /\ boot.SecPerClus \in Nat \ {0}
         /\ boot.RsvdSecCnt \in Nat /\ boot.NumFATs \in Nat
         /\ Fits(boot.RootEntCnt)
         /\ fat_size \in Nat /\ root_dir_sectors \in Nat \ {0} /\ first_root_dir_sec_num \in Nat
<1>1. /\ {boot.RsvdSecCnt, boot.NumFATs, boot.FATSz16, boot.FATSz32[1], boot.FATSz32[2],
          boot.FATSz32[3], boot.FATSz32[4]} \subseteq Nat
      /\ {boot.BytsPerSec, boot.SecPerClus} \subseteq Nat \ {0} /\ boot.BytsPerSec % 32 = 0
      /\ \A n \in {boot.RootEntCnt, (boot.BytsPerSec * boot.SecPerClus) \div 32} : Fits(n)
  BY BootAssumption, Zenon DEF DIR_ENT_BYTES, Fits
<1>1a. /\ boot.RsvdSecCnt \in Nat /\ boot.NumFATs \in Nat /\ boot.FATSz16 \in Nat
       /\ boot.FATSz32[1] \in Nat /\ boot.FATSz32[2] \in Nat /\ boot.FATSz32[3] \in Nat
       /\ boot.BytsPerSec \in Nat \ {0} /\ boot.SecPerClus \in Nat \ {0}
       /\ Fits(boot.RootEntCnt)
  BY <1>1, Zenon
<1>2. PICK b, r, n : b = boot.BytsPerSec /\ r = boot.RootEntCnt /\ n = boot.NumFATs
  OBVIOUS
<1>3. b \in Nat \ {0} /\ Fits(r) /\ n \in Nat
  BY <1>1a, <1>2
<1>5. fat_size \in Nat
  <2>1. boot.FATSz32[1] + 256 * boot.FATSz32[2] \in Nat
    BY <1>1a
  <2>2. boot.FATSz32[2] + 256 * boot.FATSz32[3] \in Nat
    BY <1>1a
  <2>. QED BY <1>1a, <2>1, <2>2 DEF fat_size, read_32, read_16
<1>6. root_dir_sectors \in Nat \ {0}
  <2>1. PICK k, a : k = r * 32 + b - 1 /\ a = k \div b
    OBVIOUS
  <2>2. k \in Nat /\ k >= b
    BY <1>3, <2>1 DEF Fits
  <2>3. k = a * b + (k % b) /\ k % b < b /\ k % b \in Nat /\ a \in Nat
    BY <1>3, <2>1, <2>2, WithRemainder
  <2>4. a # 0
    BY <1>3, <2>2, <2>3
  <2>5. root_dir_sectors = a
    BY <1>2, <2>1 DEF root_dir_sectors
  <2>. QED BY <2>3, <2>4, <2>5
<1>7. first_root_dir_sec_num \in Nat
  <2>1. n * fat_size \in Nat
    BY <1>3, <1>5
  <2>. QED BY <1>1a, <1>2, <2>1 DEF first_root_dir_sec_num
<1>. QED BY <1>1a, <1>5, <1>6, <1>7, Zenon

(* Entries do not lie across sectors, and a cluster has a number of them   *)
(* that fits 16 bits.                                                      *)
LEMMA EntriesFit ==
  ASSUME boot \in Boots
  PROVE  /\ \E q \in Nat : boot.BytsPerSec = q * 32
         /\ Fits((boot.BytsPerSec * boot.SecPerClus) \div 32)
<1>1. /\ boot.BytsPerSec % 32 = 0
      /\ \A n \in {boot.RootEntCnt, (boot.BytsPerSec * boot.SecPerClus) \div 32} : Fits(n)
  BY BootAssumption, Zenon DEF DIR_ENT_BYTES, Fits
<1>2. Fits((boot.BytsPerSec * boot.SecPerClus) \div 32)
  BY <1>1, Zenon
<1>3. PICK b : b = boot.BytsPerSec
  OBVIOUS
<1>4. b \in Nat /\ b % 32 = 0
  BY <1>1, <1>3, BootIs
<1>5. b = (b \div 32) * 32 + (b % 32) /\ b \div 32 \in Nat
  BY <1>4, WithRemainder
<1>6. PICK q \in Nat : q = b \div 32
  BY <1>5, Zenon
<1>7. b = q * 32
  BY <1>4, <1>5, <1>6
<1>. QED BY <1>2, <1>3, <1>7, Zenon

(* How many entries a directory may have, as the iterator has it.          *)
LEMMA SlotsFit ==
  ASSUME boot \in Boots, NEW c
  PROVE  /\ Fits(NrSlots(c))
         /\ NrSlots(c) = IF c = 0 THEN boot.RootEntCnt ELSE dir_ents_per_cluster
<1>1. PICK b, n : b = boot.BytsPerSec /\ n = boot.SecPerClus
  OBVIOUS
<1>2. b \in Nat \ {0} /\ n \in Nat \ {0}
  BY <1>1, BootIs
<1>3. PICK k : k = (b * n) \div 32
  OBVIOUS
<1>4. Fits(k) /\ Fits(boot.RootEntCnt)
  BY <1>1, <1>3, BootIs, EntriesFit, Zenon
<1>5. n * b = b * n
  BY <1>2
<1>6. dir_ents_per_cluster = k
  <2>1. dir_ents_per_cluster = U16(k)
    BY <1>1, <1>3, Zenon DEF dir_ents_per_cluster, DIR_ENT_BYTES
  <2>2. U16(k) = k
    BY <1>4, Zenon DEF Fits
  <2>. QED BY <2>1, <2>2
<1>7. c # 0 => NrSlots(c) = k
  BY <1>1, <1>3, <1>5, Zenon DEF NrSlots, ClusterSize
<1>. QED BY <1>4, <1>6, <1>7 DEF NrSlots

(* The iterator's numbers are those of the directory: how many slots there *)
(* are, where the first one is, and that there is none but slots.          *)
LEMMA DirectoryIs ==
  ASSUME boot \in Boots, fat_size = TrueFatSize, NEW c \in Nat \ {1}
  PROVE  /\ cluster_to_sec(c) = first_root_dir_sec_num <=> c = 0
         /\ sec_to_offset(cluster_to_sec(c)) = Slot(c, 1) /\ Slot(c, 1) \in Nat
         /\ \A i \in Nat : Slot(c, i + 1) = Slot(c, 1) + i * 32 /\ IsEntrySlot(Slot(c, i + 1))
         /\ Fits(NrSlots(c))
         /\ NrSlots(c) = IF c = 0 THEN boot.RootEntCnt ELSE dir_ents_per_cluster
<1>1. PICK b, n, s, d : /\ b = boot.BytsPerSec /\ n = boot.SecPerClus
                        /\ s = first_root_dir_sec_num /\ d = root_dir_sectors
  OBVIOUS
<1>2. b \in Nat \ {0} /\ n \in Nat \ {0} /\ s \in Nat /\ d \in Nat \ {0}
  BY <1>1, BootIs
<1>3. PICK q \in Nat : b = q * 32
  BY <1>1, EntriesFit, Zenon
<1>4. RootStart = s * b
  BY <1>1 DEF RootStart, first_root_dir_sec_num
<1>5. Fits(NrSlots(c)) /\ NrSlots(c) = 
      IF c = 0 THEN boot.RootEntCnt ELSE dir_ents_per_cluster
  BY SlotsFit
<1> DEFINE At(a) == a \in Nat /\ a >= s * b /\ (a - s * b) % 32 = 0
<1>6. \A i \in Nat : At(s * b + i * 32)
  <2>1. PICK y : y = s * b
    OBVIOUS
  <2>2. y \in Nat
    BY <1>2, <2>1
  <2>3. \A i \in Nat : y + i * 32 \in Nat /\ y + i * 32 >= y /\ ((y + i * 32) - y) % 32 = 0
    BY <2>2
  <2>. QED BY <2>1, <2>3
<1>7. CASE c = 0
  <2>1. cluster_to_sec(c) = s
    BY <1>1, <1>7 DEF cluster_to_sec
  <2>2. \A i : Slot(c, i) = s * b + 32 * (i - 1)
    BY <1>4, <1>7 DEF Slot
  <2>3. s * b \in Nat
    BY <1>2
  <2>4. Slot(c, 1) = s * b
    BY <2>2, <2>3
  <2>5. ASSUME NEW i \in Nat PROVE Slot(c, i + 1) = s * b + i * 32
    BY <2>2, <2>3
  <2>6. ASSUME NEW i \in Nat PROVE IsEntrySlot(Slot(c, i + 1))
    BY <1>1, <1>6, <2>5 DEF IsEntrySlot, sec_to_offset, DIR_ENT_BYTES
  <2>. QED BY <1>1, <1>5, <1>7, <2>1, <2>3, <2>4, <2>5, <2>6 DEF sec_to_offset
<1>8. CASE c # 0
  <2>1. PICK a \in Nat : a = c - 2
    <3>1. c - 2 \in Nat
      BY <1>8
    <3>. QED BY <3>1
  <2>2. cluster_to_sec(c) = a * n + (s + d)
    BY <1>1, <1>8, <2>1 DEF cluster_to_sec, first_data_sector
  <2>3. PICK x : x = (d + a * n) * q
    OBVIOUS
  <2>4. a * n \in Nat /\ x \in Nat
    <3>1. a * n \in Nat
      BY <1>2
    <3>2. PICK y : y = d + a * n
      OBVIOUS
    <3>3. y \in Nat
      BY <1>2, <3>1, <3>2
    <3>. QED BY <2>3, <3>1, <3>2, <3>3
  <2>5. cluster_to_sec(c) # s
    BY <1>2, <2>2, <2>4
  <2>6. ClusterStart(c) = s * b + x * 32
    <3>1. ClusterStart(c) = s * b + d * b + a * (n * b)
      BY <1>1, <1>4, <2>1 DEF ClusterStart, ClusterSize
    <3>2. x * 32 = (d + a * n) * b
      <4>1. PICK y : y = d + a * n
        OBVIOUS
      <4>2. y \in Nat
        BY <1>2, <2>4, <4>1
      <4>3. (y * q) * 32 = y * (q * 32)
        BY <4>2
      <4>. QED BY <1>3, <2>3, <4>1, <4>3
    <3>3. (d + a * n) * b = d * b + a * (n * b)
      <4>1. PICK y : y = a * n
        OBVIOUS
      <4>2. y \in Nat /\ (d + y) * b = d * b + y * b
        BY <1>2, <2>4, <4>1
      <4>3. (a * n) * b = a * (n * b)
        BY <1>2, <2>1
      <4>. QED BY <4>1, <4>2, <4>3
    <3>4. s * b \in Nat /\ d * b \in Nat /\ a * (n * b) \in Nat
      <4>1. n * b \in Nat
        BY <1>2
      <4>. QED BY <1>2, <2>1, <4>1
    <3>. QED BY <3>1, <3>2, <3>3, <3>4
  <2>7. sec_to_offset(cluster_to_sec(c)) = ClusterStart(c)
    <3>1. sec_to_offset(cluster_to_sec(c)) = (a * n + (s + d)) * b
      BY <1>1, <2>2 DEF sec_to_offset
    <3>2. PICK y : y = d + a * n
      OBVIOUS
    <3>3. y \in Nat /\ a * n + (s + d) = s + y
      BY <1>2, <2>4, <3>2
    <3>4. (s + y) * b = s * b + y * b
      BY <1>2, <3>3
    <3>5. y * b = x * 32
      <4>1. (y * q) * 32 = y * (q * 32)
        BY <3>3
      <4>. QED BY <1>3, <2>3, <3>2, <4>1
    <3>. QED BY <2>6, <3>1, <3>3, <3>4, <3>5
  <2>8. \A i : Slot(c, i) = s * b + x * 32 + 32 * (i - 1)
    BY <1>8, <2>6 DEF Slot
  <2>9. s * b \in Nat
    BY <1>2
  <2>10. Slot(c, 1) = s * b + x * 32
    BY <2>4, <2>8, <2>9
  <2>11. ASSUME NEW i \in Nat
         PROVE  Slot(c, i + 1) = s * b + x * 32 + i * 32 /\ x + i \in Nat
                /\ Slot(c, i + 1) = s * b + (x + i) * 32
    BY <2>4, <2>8, <2>9
  <2>12. ASSUME NEW i \in Nat PROVE IsEntrySlot(Slot(c, i + 1))
    <3>1. PICK a2, j : a2 = Slot(c, i + 1) /\ j = x + i
      OBVIOUS
    <3>2. a2 = s * b + j * 32 /\ j \in Nat
      BY <2>11, <3>1
    <3>3. At(a2)
      BY <1>6, <3>2
    <3> HIDE DEF At
    <3>4. At(a2) => IsEntrySlot(a2)
      BY <1>1 DEF At, IsEntrySlot, sec_to_offset, DIR_ENT_BYTES
    <3>. QED BY <3>1, <3>3, <3>4
  <2>. QED BY <1>1, <1>5, <1>8, <2>4, <2>5, <2>6, <2>7, <2>9, <2>10, <2>11, <2>12
<1>. QED BY <1>7, <1>8

-------------------------------------------------------------------------------
(* Names.  The first blank of a list is that with none before it.          *)
LEMMA FirstBlank ==
  ASSUME NEW s, Len(s) \in Nat, NEW n \in 1 .. Len(s),
         s[n] = Blank, \A i \in 1 .. n - 1 : s[i] # Blank
  PROVE  BlankIn(s) = n
<1> DEFINE I == {i \in 1 .. Len(s) : s[i] = Blank}
<1>1. I \subseteq Nat /\ n \in I
  OBVIOUS
<1>2. Min(I) \in I /\ \A y \in I : Min(I) <= y
  BY <1>1, MinOfNats
<1>3. Min(I) = n
  BY <1>1, <1>2
<1>4. BlankIn(s) = Min(I)
  BY <1>1 DEF BlankIn, SelectInSeq
<1>. QED BY <1>3, <1>4

(* There is no blank, or there is a first one.                             *)
LEMMA BlankIs ==
  ASSUME NEW s, Len(s) \in Nat
  PROVE  \/ BlankIn(s) = 0 /\ \A i \in 1 .. Len(s) : s[i] # Blank
         \/ /\ BlankIn(s) \in 1 .. Len(s) /\ s[BlankIn(s)] = Blank
            /\ \A i \in 1 .. BlankIn(s) - 1 : s[i] # Blank
<1> DEFINE I == {i \in 1 .. Len(s) : s[i] = Blank}
<1>1. CASE I = {}
  <2>1. BlankIn(s) = 0
    BY <1>1 DEF BlankIn, SelectInSeq
  <2>2. \A i \in 1 .. Len(s) : s[i] # Blank
    BY <1>1
  <2>. QED BY <2>1, <2>2
<1>2. CASE I # {}
  <2>1. Min(I) \in I /\ \A y \in I : Min(I) <= y
    BY <1>2, MinOfNats
  <2>2. BlankIn(s) = Min(I)
    BY <1>2 DEF BlankIn, SelectInSeq
  <2>3. Min(I) \in 1 .. Len(s) /\ s[Min(I)] = Blank
    BY <2>1
  <2>4. ASSUME NEW i \in 1 .. Min(I) - 1 PROVE s[i] # Blank
    <3>1. i \in 1 .. Len(s) /\ ~(Min(I) <= i)
      BY <2>3
    <3>. QED BY <2>1, <3>1
  <2>. QED BY <2>2, <2>3, <2>4
<1>. QED BY <1>1, <1>2

(* A padded list is cut at its first blank by trimming it.                 *)
LEMMA TrimCuts ==
  ASSUME NEW S, NEW s \in Seq(S), Padded(s)
  PROVE  /\ CutAtBlank(s) = Trim(s)
         /\ BlankIn(s) # 0 => Len(Trim(s)) = BlankIn(s) - 1
         /\ BlankIn(s) = 0 => Trim(s) = s
         /\ Trim(s) \in Seq(S) /\ Len(Trim(s)) <= Len(s)
         /\ \A i \in 1 .. Len(Trim(s)) : Trim(s)[i] = s[i] /\ s[i] # Blank
         /\ \A i \in Len(Trim(s)) + 1 .. Len(s) : s[i] = Blank
<1> DEFINE I == {0} \cup {i \in 1 .. Len(s) : s[i] # Blank}
           m == IF BlankIn(s) = 0 THEN Len(s) ELSE BlankIn(s) - 1
<1>0. Len(s) \in Nat
  OBVIOUS
<1>1. m \in 0 .. Len(s)
  BY <1>0, BlankIs
<1>2. \A i \in 1 .. m : s[i] # Blank
  BY <1>0, BlankIs
<1>3. \A i \in m + 1 .. Len(s) : s[i] = Blank
  <2>1. CASE BlankIn(s) = 0
    BY <1>0, <2>1
  <2>2. CASE BlankIn(s) # 0
    <3>1. BlankIn(s) \in 1 .. Len(s) /\ s[BlankIn(s)] = Blank /\ m + 1 = BlankIn(s)
      BY <1>0, <2>2, BlankIs
    <3>2. ASSUME NEW i \in m + 1 .. Len(s) PROVE s[i] = Blank
      <4>1. i = BlankIn(s) \/ (BlankIn(s) < i /\ i \in 1 .. Len(s))
        BY <1>0, <1>1, <3>1
      <4>. QED BY <3>1, <4>1 DEF Padded
    <3>. QED BY <3>2
  <2>. QED BY <2>1, <2>2
<1>4. Max(I) = m
  <2>1. m \in Int /\ m >= 0 /\ (m # 0 => m \in 1 .. Len(s))
    <3> HIDE DEF m
    <3>. QED BY <1>0, <1>1
  <2>2. PICK M : M = m
    OBVIOUS
  <2> HIDE DEF m
  <2>3. M \in I
    BY <1>2, <2>1, <2>2
  <2>4. I \in SUBSET Int
    BY <1>0
  <2>5. ASSUME NEW i \in I PROVE i <= M
    BY <1>0, <1>3, <2>1, <2>2
  <2> HIDE DEF I
  <2>. QED BY <2>2, <2>3, <2>4, <2>5, MaxIs
<1>5. Trim(s) = SubSeq(s, 1, m)
  BY <1>4 DEF Trim
<1>6. /\ SubSeq(s, 1, m) \in Seq(S) /\ Len(SubSeq(s, 1, m)) = m
      /\ \A i \in 1 .. m : SubSeq(s, 1, m)[i] = s[i]
  BY <1>0, <1>1
<1>7. m = Len(s) => SubSeq(s, 1, m) = s
  BY <1>0, <1>6, SeqEqual
<1>8. CutAtBlank(s) = SubSeq(s, 1, m)
  BY <1>0, <1>7 DEF CutAtBlank
<1>. QED BY <1>1, <1>2, <1>3, <1>5, <1>6, <1>7, <1>8

(* sprint_filename gives the name of an entry without blanks, with a dot   *)
(* before the extension if it has one.                                     *)
LEMMA NameIsPretty ==
  ASSUME NEW S, Blank \in S, "." \in S, NEW e,
         e.base \in Seq(S), e.ext \in Seq(S), Padded(e.base), Padded(e.ext), ~NameCrashes(e)
  PROVE  sprint_filename(e) = PrettyName(e)
<1>1. CASE ~HasExt(e)
  <2>1. Trim(e.base) \in Seq(S)
    BY TrimCuts
  <2>2. Trim(e.base) \o <<>> = Trim(e.base)
    BY <2>1
  <2>. QED BY <1>1, <2>2, TrimCuts DEF sprint_filename, PrettyName
<1>2. CASE HasExt(e)
  <2>1. PICK b, x, p, q :
          b = e.base /\ x = <<".">> \o e.ext /\ p = Trim(e.base) /\ q = <<".">> \o Trim(e.ext)
    OBVIOUS
  <2>2. PICK n : n = BlankIn(b)
    OBVIOUS
  <2>3. /\ b \in Seq(S) /\ n \in 1 .. Len(b) /\ Len(b) \in Nat
        /\ p \in Seq(S) /\ Len(p) = n - 1
        /\ \A i \in 1 .. n - 1 : p[i] = b[i] /\ b[i] # Blank
        /\ \A i \in n .. Len(b) : b[i] = Blank
    <3>1. n # 0 /\ Len(b) \in Nat
      BY <1>2, <2>1, <2>2 DEF NameCrashes
    <3>2. n \in 1 .. Len(b)
      BY <2>2, <3>1, BlankIs
    <3>3. Len(p) = n - 1
      BY <2>1, <2>2, <3>1, TrimCuts
    <3>. QED BY <2>1, <2>2, <3>1, <3>2, <3>3, TrimCuts
  <2>4. PICK m : m = Len(q)
    OBVIOUS
  <2>5. /\ x \in Seq(S) /\ q \in Seq(S) /\ Len(x) \in Nat /\ m \in 1 .. Len(x)
        /\ \A i \in 1 .. m : q[i] = x[i] /\ x[i] # Blank
        /\ m < Len(x) => x[m + 1] = Blank
    <3>1. PICK t, u : t = e.ext /\ u = Trim(e.ext)
      OBVIOUS
    <3>2. /\ t \in Seq(S) /\ u \in Seq(S) /\ Len(u) <= Len(t)
          /\ \A i \in 1 .. Len(u) : u[i] = t[i] /\ t[i] # Blank
          /\ \A i \in Len(u) + 1 .. Len(t) : t[i] = Blank
      BY <3>1, TrimCuts
    <3>3. /\ x \in Seq(S) /\ Len(x) = Len(t) + 1 /\ x[1] = "."
          /\ \A i \in 1 .. Len(t) : x[i + 1] = t[i]
      BY <2>1, <3>1, <3>2, Prepended
    <3>4. /\ q \in Seq(S) /\ Len(q) = Len(u) + 1 /\ q[1] = "."
          /\ \A i \in 1 .. Len(u) : q[i + 1] = u[i]
      BY <2>1, <3>1, <3>2, Prepended
    <3>5. Len(u) \in Nat /\ Len(t) \in Nat /\ "." # Blank
      BY <3>2 DEF Blank
    <3>6. ASSUME NEW i \in 1 .. m PROVE q[i] = x[i] /\ x[i] # Blank
      <4>1. CASE i = 1
        BY <3>3, <3>4, <3>5, <4>1
      <4>2. CASE i # 1
        <5>1. PICK j \in 1 .. Len(u) : i = j + 1
          <6>1. i - 1 \in 1 .. Len(u) /\ i = (i - 1) + 1
            BY <2>4, <3>4, <3>5, <4>2
          <6>. QED BY <6>1
        <5>2. j \in 1 .. Len(t)
          BY <3>2, <3>5
        <5>. QED BY <3>2, <3>3, <3>4, <5>1, <5>2
      <4>. QED BY <4>1, <4>2
    <3>7. ASSUME m < Len(x) PROVE x[m + 1] = Blank
      <4>1. m \in Len(u) + 1 .. Len(t) /\ m \in 1 .. Len(t)
        BY <2>4, <3>3, <3>4, <3>5, <3>7
      <4>. QED BY <3>2, <3>3, <4>1
    <3>. QED BY <2>4, <3>2, <3>3, <3>4, <3>5, <3>6, <3>7
  <2>6. PICK o : o = Overlay(b, n, x)
    OBVIOUS
  <2>7. /\ Len(o) = Len(b) + Len(x)
        /\ \A k \in 1 .. Len(b) + Len(x) :
             o[k] = IF k \in n .. n + Len(x) - 1 THEN x[k - n + 1]
                    ELSE IF k <= Len(b) THEN b[k] ELSE Blank
    <3>1. Len(b) + Len(x) \in Nat
      BY <2>3, <2>5
    <3>. QED BY <2>6, <3>1 DEF Overlay
  <2>8. o \in Seq(S)
    <3>1. ASSUME NEW k \in 1 .. Len(b) + Len(x) PROVE o[k] \in S
      <4>1. CASE k \in n .. n + Len(x) - 1
        <5>1. k - n + 1 \in 1 .. Len(x)
          BY <2>3, <2>5, <4>1
        <5>. QED BY <2>5, <2>7, <4>1, <5>1
      <4>2. CASE k \notin n .. n + Len(x) - 1 /\ k <= Len(b)
        <5>1. k \in 1 .. Len(b) /\ o[k] = b[k]
          BY <2>3, <2>7, <4>2
        <5>. QED BY <2>3, <5>1
      <4>3. CASE k \notin n .. n + Len(x) - 1 /\ ~(k <= Len(b))
        BY <2>7, <4>3
      <4>. QED BY <4>1, <4>2, <4>3
    <3>2. o = [k \in 1 .. Len(b) + Len(x) |-> o[k]]
      BY <2>6 DEF Overlay
    <3>3. Len(b) + Len(x) \in Nat
      BY <2>3, <2>5
    <3>. QED BY <3>1, <3>2, <3>3, SeqDef
  <2>9. \A k \in 1 .. n - 1 : k \in 1 .. Len(b) + Len(x) /\ o[k] = b[k]
    BY <2>3, <2>5, <2>7
  <2>10. ASSUME NEW i \in 1 .. m
         PROVE  n + i - 1 \in 1 .. Len(b) + Len(x) /\ o[n + i - 1] = x[i]
    <3>1. n + i - 1 \in n .. n + Len(x) - 1 /\ (n + i - 1) - n + 1 = i
      BY <2>3, <2>5
    <3>2. n + i - 1 \in 1 .. Len(b) + Len(x)
      BY <2>3, <2>5
    <3>. QED BY <2>7, <3>1, <3>2
  <2>11. n + m \in 1 .. Len(b) + Len(x) /\ o[n + m] = Blank
    <3>1. n + m \in 1 .. Len(b) + Len(x)
      BY <2>3, <2>5
    <3>2. CASE m < Len(x)
      <4>1. n + m \in n .. n + Len(x) - 1 /\ (n + m) - n + 1 = m + 1
        BY <2>3, <2>5, <3>2
      <4>. QED BY <2>5, <2>7, <3>1, <3>2, <4>1
    <3>3. CASE ~(m < Len(x))
      <4>1. n + m \notin n .. n + Len(x) - 1 /\ (n + m <= Len(b) => n + m \in n .. Len(b))
        BY <2>3, <2>5, <3>3
      <4>. QED BY <2>3, <2>7, <3>1, <4>1
    <3>. QED BY <3>2, <3>3
  <2>12. BlankIn(o) = n + m
    <3>1. ASSUME NEW k \in 1 .. (n + m) - 1 PROVE o[k] # Blank
      <4>1. CASE k < n
        BY <2>3, <2>9, <4>1
      <4>2. CASE k >= n
        <5>1. PICK i \in 1 .. m : k = n + i - 1
          <6>1. k - n + 1 \in 1 .. m /\ k = n + (k - n + 1) - 1
            BY <2>3, <2>5, <4>2
          <6>. QED BY <6>1
        <5>. QED BY <2>5, <2>10, <5>1
      <4>. QED BY <2>3, <4>1, <4>2
    <3>2. Len(o) \in Nat /\ n + m \in 1 .. Len(o)
      BY <2>3, <2>5, <2>7, <2>11
    <3>. QED BY <2>11, <3>1, <3>2, FirstBlank
  <2>13. CutAtBlank(o) = SubSeq(o, 1, (n + m) - 1)
    BY <2>3, <2>5, <2>12 DEF CutAtBlank
  <2>14. SubSeq(o, 1, (n + m) - 1) = p \o q
    <3>1. PICK r, l : r = SubSeq(o, 1, (n + m) - 1) /\ l = (n + m) - 1
      OBVIOUS
    <3>2. l \in Nat /\ l <= Len(o) /\ Len(o) \in Nat
      BY <2>3, <2>5, <2>7, <2>11, <3>1
    <3>3. r \in Seq(S) /\ Len(r) = l /\ \A k \in 1 .. l : r[k] = o[k]
      BY <2>8, <3>1, <3>2
    <3>4. /\ p \o q \in Seq(S) /\ Len(p \o q) = l
          /\ \A k \in 1 .. l : (p \o q)[k] = IF k <= n - 1 THEN p[k] ELSE q[k - (n - 1)]
      <4>1. Len(p) + Len(q) = l
        BY <2>3, <2>4, <2>5, <3>1
      <4>2. /\ p \o q \in Seq(S) /\ Len(p \o q) = Len(p) + Len(q)
            /\ \A k \in 1 .. Len(p) + Len(q) :
                 (p \o q)[k] = IF k <= Len(p) THEN p[k] ELSE q[k - Len(p)]
        BY <2>3, <2>5, ConcatProperties, Zenon
      <4>3. Len(p) = n - 1
        BY <2>3
      <4>. QED BY <4>1, <4>2, <4>3, Zenon
    <3>5. ASSUME NEW k \in 1 .. l PROVE r[k] = (p \o q)[k]
      <4>1. CASE k <= n - 1
        BY <2>3, <2>9, <3>2, <3>3, <3>4, <4>1
      <4>2. CASE ~(k <= n - 1)
        <5>1. PICK i : i = k - (n - 1)
          OBVIOUS
        <5>2. i \in 1 .. m /\ k = n + i - 1
          BY <2>3, <2>5, <3>1, <4>2, <5>1
        <5>3. r[k] = x[i] /\ x[i] = q[i]
          BY <2>5, <2>10, <3>3, <5>2
        <5>4. (p \o q)[k] = q[k - (n - 1)]
          BY <3>4, <4>2
        <5>. QED BY <5>1, <5>3, <5>4
      <4>. QED BY <4>1, <4>2
    <3>6. r = p \o q
      BY <3>3, <3>4, <3>5, SeqEqual
    <3>. QED BY <3>1, <3>6
  <2>15. sprint_filename(e) = CutAtBlank(o)
    BY <1>2, <2>1, <2>2, <2>6 DEF sprint_filename
  <2>16. PrettyName(e) = p \o q
    BY <1>2, <2>1 DEF PrettyName
  <2>. QED BY <2>13, <2>14, <2>15, <2>16
<1>. QED BY <1>1, <1>2

-------------------------------------------------------------------------------
\* The first n slots of directory c have been seen, and none is the end.
Before(c, n) == \A i \in 1 .. n : Seen(Slot(c, i)) /\ ~EndsAt(Slot(c, i))

\* Slot i of directory c has a directory of this name.
Bears(c, i, name) ==
  /\ InUse(Slot(c, i))
  /\ "directory" \in EntryAt(c, i).attr /\ PrettyName(EntryAt(c, i)) = name

\* The first directory of this name in directory c is d.
Leads(c, name, d) ==
  \E n \in 1 .. NrSlots(c) :
    /\ Before(c, n) /\ Bears(c, n, name) /\ EntryAt(c, n).clus = d
    /\ \A i \in 1 .. n - 1 : ~Bears(c, i, name)

\* s is the list of the names of the entries in the first n slots.
Listed(c, n, s) ==
  \E g : /\ g[0] = <<>> /\ g[n] = s
         /\ \A i \in 1 .. n :
              g[i] = IF InUse(Slot(c, i)) THEN Append(g[i - 1], PrettyName(EntryAt(c, i)))
                     ELSE g[i - 1]

\* The iterator was through directory c after n slots.
Through(c, n) == n \in 0 .. NrSlots(c) /\ (n = NrSlots(c) \/ EndsAt(Slot(c, n + 1)))

\* Nothing that was read of the image is read anew.
Kept == boot' = boot /\ \A o \in DOMAIN dir : o \in DOMAIN dir' /\ dir'[o] = dir[o]

(* Where the slots are does not change.                                    *)
LEMMA SlotsStay ==
  ASSUME boot' = boot
  PROVE  /\ \A c, i : Slot(c, i)' = Slot(c, i)
         /\ \A c : NrSlots(c)' = NrSlots(c) /\ cluster_to_sec(c)' = cluster_to_sec(c)
         /\ \A c : sec_to_offset(c)' = sec_to_offset(c)
         /\ \A o : IsEntrySlot(o)' = IsEntrySlot(o)
         /\ first_root_dir_sec_num' = first_root_dir_sec_num
         /\ fat_size' = fat_size /\ TrueFatSize' = TrueFatSize
<1>1. fat_size' = fat_size /\ TrueFatSize' = TrueFatSize
  BY DEF fat_size, TrueFatSize
<1>2. root_dir_sectors' = root_dir_sectors
  BY DEF root_dir_sectors
<1>3. first_root_dir_sec_num' = first_root_dir_sec_num
  BY <1>1 DEF first_root_dir_sec_num
<1>4. first_data_sector' = first_data_sector
  BY <1>2, <1>3 DEF first_data_sector
<1>5. \A c : cluster_to_sec(c)' = cluster_to_sec(c) /\ sec_to_offset(c)' = sec_to_offset(c)
  BY <1>3, <1>4 DEF cluster_to_sec, sec_to_offset
<1>6. RootStart' = RootStart /\ ClusterSize' = ClusterSize
  BY <1>1 DEF RootStart, ClusterSize
<1>7. \A c : ClusterStart(c)' = ClusterStart(c)
  BY <1>2, <1>6 DEF ClusterStart
<1>8. \A c, i : Slot(c, i)' = Slot(c, i)
  BY <1>6, <1>7 DEF Slot
<1>9. \A c : NrSlots(c)' = NrSlots(c)
  BY <1>6 DEF NrSlots
<1>10. \A o : IsEntrySlot(o)' = IsEntrySlot(o)
  BY <1>3, <1>5 DEF IsEntrySlot
<1>. QED BY <1>1, <1>3, <1>5, <1>8, <1>9, <1>10

(* What was seen of a directory stays.                                     *)
LEMMA SeenStays ==
  ASSUME Kept, NEW c, NEW n, Before(c, n)
  PROVE  /\ Before(c, n)'
         /\ \A i \in 1 .. n :
              /\ InUse(Slot(c, i))' <=> InUse(Slot(c, i))
              /\ EntryAt(c, i)' = EntryAt(c, i)
              /\ \A name : Bears(c, i, name)' <=> Bears(c, i, name)
<1>1. \A i : Slot(c, i)' = Slot(c, i)
  BY SlotsStay DEF Kept
<1>2. ASSUME NEW i \in 1 .. n
      PROVE  /\ Slot(c, i) \in DOMAIN dir /\ Slot(c, i) \in DOMAIN dir'
             /\ dir'[Slot(c, i)] = dir[Slot(c, i)]
  BY DEF Kept, Before, Seen
<1>3. ASSUME NEW i \in 1 .. n
      PROVE  /\ Seen(Slot(c, i))' /\ ~EndsAt(Slot(c, i))'
             /\ InUse(Slot(c, i))' <=> InUse(Slot(c, i))
             /\ EntryAt(c, i)' = EntryAt(c, i)
  <2>1. Seen(Slot(c, i))' /\ Seen(Slot(c, i))
    BY <1>1, <1>2 DEF Seen
  <2>2. EntryAt(c, i)' = EntryAt(c, i)
    BY <1>1, <1>2 DEF EntryAt
  <2>3. EndsAt(Slot(c, i))' <=> EndsAt(Slot(c, i))
    BY <1>1, <1>2, <2>1 DEF EndsAt
  <2>4. InUse(Slot(c, i))' <=> InUse(Slot(c, i))
    BY <1>1, <1>2, <2>1 DEF InUse
  <2>. QED BY <2>1, <2>2, <2>3, <2>4 DEF Before
<1>4. ASSUME NEW i \in 1 .. n, NEW name PROVE Bears(c, i, name)' <=> Bears(c, i, name)
  BY <1>3 DEF Bears
<1>. QED BY <1>3, <1>4 DEF Before

(* So do the directories on the way, and the names.                        *)
LEMMA WayStays ==
  ASSUME Kept, NEW c, NrSlots(c) \in Nat
  PROVE  /\ \A name, d : Leads(c, name, d) => Leads(c, name, d)'
         /\ \A n \in Nat : \A s : Before(c, n) /\ Listed(c, n, s) => Listed(c, n, s)'
<1>1. ASSUME NEW name, NEW d, Leads(c, name, d) PROVE Leads(c, name, d)'
  <2>1. PICK n \in 1 .. NrSlots(c) :
          /\ Before(c, n) /\ Bears(c, n, name) /\ EntryAt(c, n).clus = d
          /\ \A i \in 1 .. n - 1 : ~Bears(c, i, name)
    BY <1>1 DEF Leads
  <2>2. n \in 1 .. n /\ \A i \in 1 .. n - 1 : i \in 1 .. n
    OBVIOUS
  <2>3. /\ Before(c, n)' /\ Bears(c, n, name)' /\ EntryAt(c, n)'.clus = d
        /\ \A i \in 1 .. n - 1 : ~Bears(c, i, name)'
    BY <2>1, <2>2, SeenStays
  <2>4. n \in 1 .. NrSlots(c)'
    BY SlotsStay DEF Kept
  <2>. QED BY <2>3, <2>4 DEF Leads
<1>2. ASSUME NEW n \in Nat, NEW s, Before(c, n), Listed(c, n, s) PROVE Listed(c, n, s)'
  <2>1. PICK g :
          /\ g[0] = <<>> /\ g[n] = s
          /\ \A i \in 1 .. n :
               g[i] = IF InUse(Slot(c, i)) THEN Append(g[i - 1], PrettyName(EntryAt(c, i)))
                      ELSE g[i - 1]
    BY <1>2, Zenon DEF Listed
  <2>2. \A i \in 1 .. n :
          (InUse(Slot(c, i))' <=> InUse(Slot(c, i))) /\ EntryAt(c, i)' = EntryAt(c, i)
    BY <1>2, SeenStays
  <2>3. \A i \in 1 .. n :
          g[i] = IF InUse(Slot(c, i))' THEN Append(g[i - 1], PrettyName(EntryAt(c, i)'))
                 ELSE g[i - 1]
    BY <2>1, <2>2
  <2>. QED BY <2>1, <2>3, Zenon DEF Listed
<1>. QED BY <1>1, <1>2

(* After a step by which a slot more is seen, its entry is listed too.     *)
LEMMA NextSlot ==
  ASSUME NEW c, NEW n \in Nat, Before(c, n)', Seen(Slot(c, n + 1))', ~EndsAt(Slot(c, n + 1))'
  PROVE  /\ Before(c, n + 1)'
         /\ \A s : Listed(c, n, s)' =>
              /\ InUse(Slot(c, n + 1))' =>
                   Listed(c, n + 1, Append(s, PrettyName(EntryAt(c, n + 1))))'
              /\ ~InUse(Slot(c, n + 1))' => Listed(c, n + 1, s)'
<1>1. \A i \in 1 .. n + 1 : i \in 1 .. n \/ i = n + 1
  OBVIOUS
<1>2. Before(c, n + 1)'
  BY <1>1 DEF Before
<1>3. ASSUME NEW s, NEW r, Listed(c, n, s)',
             r = IF InUse(Slot(c, n + 1))' THEN Append(s, PrettyName(EntryAt(c, n + 1)')) ELSE s
      PROVE  Listed(c, n + 1, r)'
  <2>1. PICK g :
          /\ g[0] = <<>> /\ g[n] = s
          /\ \A i \in 1 .. n :
               g[i] = IF InUse(Slot(c, i))' THEN Append(g[i - 1], PrettyName(EntryAt(c, i)'))
                      ELSE g[i - 1]
    BY <1>3, Zenon DEF Listed
  <2> DEFINE h == [i \in 0 .. n + 1 |-> IF i = n + 1 THEN r ELSE g[i]]
  <2>2. h[n + 1] = r /\ \A i \in 0 .. n : h[i] = g[i]
    BY <1>1
  <2>3. /\ 0 \in 0 .. n /\ n \in 0 .. n /\ (n + 1) - 1 = n
        /\ \A i \in 1 .. n : i \in 0 .. n /\ i - 1 \in 0 .. n
    OBVIOUS
  <2> HIDE DEF h
  <2>4. h[0] = <<>> /\ h[n] = s
    BY <2>1, <2>2, <2>3
  <2>5. ASSUME NEW i \in 1 .. n + 1
        PROVE  h[i] = IF InUse(Slot(c, i))' THEN Append(h[i - 1], PrettyName(EntryAt(c, i)'))
                      ELSE h[i - 1]
    <3>1. CASE i = n + 1
      <4>1. h[i - 1] = s /\ h[i] = r
        BY <2>2, <2>3, <2>4, <3>1
      <4>. QED BY <1>3, <3>1, <4>1
    <3>2. CASE i # n + 1
      <4>1. i \in 1 .. n
        BY <1>1, <3>2
      <4>2. h[i] = g[i] /\ h[i - 1] = g[i - 1]
        BY <2>2, <2>3, <4>1
      <4>. QED BY <2>1, <4>1, <4>2
    <3>. QED BY <3>1, <3>2
  <2>. QED BY <2>2, <2>4, <2>5, Zenon DEF Listed
<1>. QED BY <1>2, <1>3

-----------------------------------------------------------------------------
(* Where the next directory is reached, it is the one of the definition.   *)
LEMMA LeadsRight ==
  ASSUME NEW c, NEW name, NEW d, NrSlots(c) \in Nat, Leads(c, name, d)
  PROVE  Named(c, name) # {} /\ EntryAt(c, Min(Named(c, name))).clus = d
<1>1. PICK n \in 1 .. NrSlots(c) :
        /\ Before(c, n) /\ Bears(c, n, name) /\ EntryAt(c, n).clus = d
        /\ \A i \in 1 .. n - 1 : ~Bears(c, i, name)
  BY DEF Leads
<1>2. \A i \in 1 .. n : i \in BeforeEnd(c)
  BY <1>1 DEF BeforeEnd, Before
<1>3. n \in Named(c, name)
  BY <1>1, <1>2 DEF Bears, Named, EntriesOf
<1>4. Named(c, name) \subseteq Nat
  BY DEF Named, EntriesOf, BeforeEnd
<1>5. ASSUME NEW i \in Named(c, name) PROVE n <= i
  <2>1. i \in 1 .. NrSlots(c) /\ Bears(c, i, name)
    BY DEF Bears, Named, EntriesOf, BeforeEnd
  <2>. QED BY <1>1, <2>1
<1>6. Min(Named(c, name)) = n
  <2>1. Min(Named(c, name)) \in Named(c, name) /\ \A y \in Named(c, name) : Min(Named(c, name)) <= y
    BY <1>3, <1>4, MinOfNats
  <2>. QED BY <1>3, <1>4, <1>5, <2>1
<1>. QED BY <1>1, <1>3, <1>6

(* When the iterator is through, it has seen all of the directory.         *)
LEMMA AllWasSeen ==
  ASSUME NEW c, NrSlots(c) \in Nat, NEW n, Through(c, n), Before(c, n)
  PROVE  /\ BeforeEnd(c) = 1 .. n /\ AllSeen(c)
         /\ \A name : (\A i \in 1 .. n : ~Bears(c, i, name)) => Named(c, name) = {}
<1>1. n \in 0 .. NrSlots(c)
  BY DEF Through
<1>2. BeforeEnd(c) = 1 .. n
  <2>1. \A i \in 1 .. n : i \in BeforeEnd(c)
    BY <1>1 DEF BeforeEnd, Before
  <2>2. ASSUME NEW i \in BeforeEnd(c) PROVE i \in 1 .. n
    <3>1. i \in 1 .. NrSlots(c) /\ \A j \in 1 .. i : ~EndsAt(Slot(c, j))
      BY DEF BeforeEnd
    <3>2. CASE i > n
      <4>1. n + 1 \in 1 .. i /\ n # NrSlots(c)
        BY <1>1, <3>1, <3>2
      <4>. QED BY <3>1, <4>1 DEF Through
    <3>. QED BY <1>1, <3>1, <3>2
  <2>. QED BY <2>1, <2>2
<1>3. AllSeen(c)
  BY <1>2 DEF AllSeen, Before
<1>4. ASSUME NEW name, \A i \in 1 .. n : ~Bears(c, i, name) PROVE Named(c, name) = {}
  BY <1>2, <1>4 DEF Named, EntriesOf, Bears
<1>. QED BY <1>2, <1>3, <1>4

(* The definition of the names by recursion is one.                        *)
LEMMA NamesOfIs ==
  ASSUME NEW c, NrSlots(c) \in Nat
  PROVE  /\ NamesOf(c)[0] = <<>>
         /\ \A i \in 1 .. NrSlots(c) :
              NamesOf(c)[i] = IF i \in EntriesOf(c)
                              THEN Append(NamesOf(c)[i - 1], PrettyName(EntryAt(c, i)))
                              ELSE NamesOf(c)[i - 1]
<1> DEFINE n == NrSlots(c)
           X == {PrettyName(EntryAt(c, i)) : i \in 1 .. n}
           Eq(g) == g = [i \in 0 .. n |->
                           IF i = 0 THEN <<>>
                           ELSE IF i \in EntriesOf(c)
                           THEN Append(g[i - 1], PrettyName(EntryAt(c, i))) ELSE g[i - 1]]
           names == CHOOSE g : Eq(g)
           step == [i \in 1 .. n |-> [s \in Seq(X) |->
                      IF i \in EntriesOf(c) THEN Append(s, PrettyName(EntryAt(c, i))) ELSE s]]
<1>1. \A i \in 1 .. n : PrettyName(EntryAt(c, i)) \in X
  OBVIOUS
<1> HIDE DEF X
<1>2. step \in [1 .. n -> [Seq(X) -> Seq(X)]]
  <2>1. \A i \in 1 .. n : \A s \in Seq(X) :
          (IF i \in EntriesOf(c) THEN Append(s, PrettyName(EntryAt(c, i))) ELSE s) \in Seq(X)
    BY <1>1
  <2>. QED BY <2>1
<1>3. \A i \in 1 .. n : \A s \in Seq(X) :
        step[i][s] = IF i \in EntriesOf(c) THEN Append(s, PrettyName(EntryAt(c, i))) ELSE s
  OBVIOUS
<1> HIDE DEF step
<1>4. PICK f \in [0 .. n -> Seq(X)] :
        f[0] = <<>> /\ \A i \in 1 .. n : f[i] = step[i][f[i - 1]]
  <2>1. PICK S, a, l, st : S = Seq(X) /\ a = <<>> /\ l = n /\ st = step
    OBVIOUS
  <2>2. a \in S /\ st \in [1 .. l -> [S -> S]] /\ l \in Nat
    <3>1. <<>> \in Seq(X)
      OBVIOUS
    <3>. QED BY <1>2, <2>1, <3>1, Zenon
  <2>3. \E f \in [0 .. l -> S] : Recursion(f, a, l, st)
    BY <2>2, RecursionAlways, Zenon
  <2>. QED BY <2>1, <2>3, Zenon DEF Recursion
<1>5. Eq(f)
  <2>1. ASSUME NEW i \in 0 .. n
        PROVE  f[i] = IF i = 0 THEN <<>>
                      ELSE IF i \in EntriesOf(c)
                      THEN Append(f[i - 1], PrettyName(EntryAt(c, i))) ELSE f[i - 1]
    <3>1. CASE i # 0
      <4>1. i \in 1 .. n /\ f[i - 1] \in Seq(X)
        BY <1>4, <3>1
      <4>. QED BY <1>3, <1>4, <3>1, <4>1
    <3>. QED BY <1>4, <3>1
  <2>. QED BY <1>4, <2>1
<1>6. Eq(names)
  BY <1>5, Zenon
<1>7. NamesOf(c) = names
  BY Zenon DEF NamesOf, names
<1> HIDE DEF names
<1>8. \A i \in 0 .. n :
        names[i] = IF i = 0 THEN <<>>
                   ELSE IF i \in EntriesOf(c)
                   THEN Append(names[i - 1], PrettyName(EntryAt(c, i))) ELSE names[i - 1]
  BY <1>6, Zenon
<1>9. names[0] = <<>>
  BY <1>8
<1>10. ASSUME NEW i \in 1 .. n
       PROVE  names[i] = IF i \in EntriesOf(c)
                         THEN Append(names[i - 1], PrettyName(EntryAt(c, i))) ELSE names[i - 1]
  <2>1. i \in 0 .. n /\ i # 0
    OBVIOUS
  <2>. QED BY <1>8, <2>1, Zenon
<1>. QED BY <1>7, <1>9, <1>10, Zenon

(* When the iterator is through, the names listed are those of the         *)
(* directory.                                                              *)
LEMMA ListedRight ==
  ASSUME NEW c, NrSlots(c) \in Nat, NEW n, Through(c, n), Before(c, n), NEW s, Listed(c, n, s)
  PROVE  s = NamesOf(c)[NrSlots(c)]
<1>1. PICK g :
        /\ g[0] = <<>> /\ g[n] = s
        /\ \A i \in 1 .. n :
             g[i] = IF InUse(Slot(c, i)) THEN Append(g[i - 1], PrettyName(EntryAt(c, i)))
                    ELSE g[i - 1]
  BY Zenon DEF Listed
<1>2. n \in Nat /\ n <= NrSlots(c)
  BY DEF Through
<1>3. BeforeEnd(c) = 1 .. n
  BY AllWasSeen
<1> DEFINE Good == {i \in Nat : i <= NrSlots(c) =>
                      NamesOf(c)[i] = IF i <= n THEN g[i] ELSE s}
<1>4. 0 \in Good
  BY <1>1, <1>2, NamesOfIs
<1>5. ASSUME NEW i \in Nat, i \in Good PROVE i + 1 \in Good
  <2> SUFFICES ASSUME i + 1 <= NrSlots(c)
               PROVE  NamesOf(c)[i + 1] = IF i + 1 <= n THEN g[i + 1] ELSE s
    OBVIOUS
  <2>1. i + 1 \in 1 .. NrSlots(c) /\ (i + 1) - 1 = i
    OBVIOUS
  <2>2. NamesOf(c)[i] = IF i <= n THEN g[i] ELSE s
    BY <1>5
  <2>3. NamesOf(c)[i + 1] = IF i + 1 \in EntriesOf(c)
                            THEN Append(NamesOf(c)[i], PrettyName(EntryAt(c, i + 1)))
                            ELSE NamesOf(c)[i]
    BY <2>1, NamesOfIs
  <2>4. CASE i + 1 <= n
    <3>1. i + 1 \in 1 .. n /\ i <= n
      BY <1>2, <2>4
    <3>2. i + 1 \in EntriesOf(c) <=> InUse(Slot(c, i + 1))
      BY <1>3, <3>1 DEF EntriesOf
    <3>. QED BY <1>1, <2>1, <2>2, <2>3, <2>4, <3>1, <3>2
  <2>5. CASE ~(i + 1 <= n)
    <3>1. i + 1 \notin EntriesOf(c)
      BY <1>2, <1>3, <2>5 DEF EntriesOf
    <3>2. i <= n => i = n
      BY <1>2, <2>5
    <3>. QED BY <1>1, <2>2, <2>3, <2>5, <3>1, <3>2
  <2>. QED BY <2>4, <2>5
<1> HIDE DEF Good
<1>6. Nat \subseteq Good
  BY <1>4, <1>5, NatInductiveSet
<1>7. NrSlots(c) \in Good /\ NrSlots(c) <= NrSlots(c)
  BY <1>6
<1>8. NamesOf(c)[NrSlots(c)] = IF NrSlots(c) <= n THEN g[NrSlots(c)] ELSE s
  BY <1>7 DEF Good
<1>9. NrSlots(c) <= n => NrSlots(c) = n
  BY <1>2
<1>. QED BY <1>1, <1>8, <1>9

(* The definition of the directories on the way is one, for entries that   *)
(* lead to clusters.                                                       *)
LEMMA ReachedIs ==
  ASSUME Len(asked) \in Nat, \A o \in DOMAIN dir : dir[o].clus \in Nat
  PROVE  /\ Reached[0] = 0
         /\ \A k \in 1 .. Len(asked) :
              Reached[k] =
                IF Reached[k - 1] = Nowhere \/ Named(Reached[k - 1], asked[k]) = {} THEN Nowhere
                ELSE EntryAt(Reached[k - 1], Min(Named(Reached[k - 1], asked[k]))).clus
<1> DEFINE n == Len(asked)
           Onward(d, a) == IF d = Nowhere \/ Named(d, a) = {} THEN Nowhere
                          ELSE EntryAt(d, Min(Named(d, a))).clus
           Eq(g) == g = [k \in 0 .. n |->
                           IF k = 0 THEN 0
                           ELSE IF g[k - 1] = Nowhere \/ Named(g[k - 1], asked[k]) = {} THEN Nowhere
                           ELSE EntryAt(g[k - 1], Min(Named(g[k - 1], asked[k]))).clus]
           r == CHOOSE g : Eq(g)
           D == Nat \cup {Nowhere}
           step == [k \in 1 .. n |-> [d \in D |-> Onward(d, asked[k])]]
<1>1. ASSUME NEW d, NEW a PROVE Onward(d, a) \in D
  <2>1. CASE d = Nowhere \/ Named(d, a) = {}
    BY <2>1
  <2>2. CASE ~(d = Nowhere \/ Named(d, a) = {})
    <3>1. Named(d, a) \subseteq Nat
      BY DEF Named, EntriesOf, BeforeEnd
    <3>2. Min(Named(d, a)) \in Named(d, a)
      BY <2>2, <3>1, MinOfNats
    <3>3. Slot(d, Min(Named(d, a))) \in DOMAIN dir
      BY <3>2 DEF Named, EntriesOf, InUse, Seen
    <3>4. EntryAt(d, Min(Named(d, a))).clus \in Nat
      BY <3>3 DEF EntryAt
    <3>. QED BY <2>2, <3>4
  <2>. QED BY <2>1, <2>2
<1>2. step \in [1 .. n -> [D -> D]]
  <2> HIDE DEF Onward, D
  <2>. QED BY <1>1
<1>3. \A k \in 1 .. n : \A d \in D : step[k][d] = Onward(d, asked[k])
  <2> HIDE DEF Onward, D
  <2>. QED OBVIOUS
<1> HIDE DEF step
<1>4. PICK f \in [0 .. n -> D] : f[0] = 0 /\ \A k \in 1 .. n : f[k] = step[k][f[k - 1]]
  <2>1. 0 \in D
    OBVIOUS
  <2>2. PICK S, a, l, st : S = D /\ a = 0 /\ l = n /\ st = step
    OBVIOUS
  <2> HIDE DEF D
  <2>3. a \in S /\ st \in [1 .. l -> [S -> S]] /\ l \in Nat
    BY <1>2, <2>1, <2>2, Zenon
  <2>4. \E f \in [0 .. l -> S] : Recursion(f, a, l, st)
    BY <2>3, RecursionAlways, Zenon
  <2>. QED BY <2>2, <2>4, Zenon DEF Recursion
<1>5. Eq(f)
  <2>1. ASSUME NEW k \in 0 .. n
        PROVE  f[k] = IF k = 0 THEN 0 ELSE Onward(f[k - 1], asked[k])
    <3> HIDE DEF Onward, D
    <3>1. CASE k # 0
      <4>1. k \in 1 .. n /\ f[k - 1] \in D
        BY <1>4, <3>1
      <4>. QED BY <1>3, <1>4, <3>1, <4>1
    <3>. QED BY <1>4, <3>1
  <2>2. f = [k \in 0 .. n |-> IF k = 0 THEN 0 ELSE Onward(f[k - 1], asked[k])]
    <3> HIDE DEF Onward, D
    <3>. QED BY <1>4, <2>1
  <2>. QED BY <2>2, Zenon
<1>6. Eq(r)
  BY <1>5, Zenon
<1>7. Reached = r
  BY Zenon DEF Reached, r
<1> HIDE DEF r
<1>8. \A k \in 0 .. n : r[k] = IF k = 0 THEN 0 ELSE Onward(r[k - 1], asked[k])
  BY <1>6, Zenon
<1>9. r[0] = 0
  BY <1>8
<1>10. ASSUME NEW k \in 1 .. n PROVE r[k] = Onward(r[k - 1], asked[k])
  <2>1. k \in 0 .. n /\ k # 0
    OBVIOUS
  <2>. QED BY <1>8, <2>1, Zenon
<1>. QED BY <1>7, <1>9, <1>10, Zenon

\* The directories that the first k names of the path lead to.
WayTo(f, k) ==
  /\ f \in [0 .. k -> Nat \ {1}] /\ f[0] = 0
  /\ \A j \in 1 .. k : Leads(f[j - 1], asked[j], f[j])

(* The directories on the way are those of the definition.                 *)
LEMMA WayRight ==
  ASSUME Len(asked) \in Nat, \A o \in DOMAIN dir : dir[o].clus \in Nat,
         \A c \in Nat : NrSlots(c) \in Nat,
         NEW k \in 0 .. Len(asked), NEW f, WayTo(f, k)
  PROVE  \A j \in 0 .. k : Reached[j] = f[j]
<1> DEFINE Good == {j \in Nat : j <= k => Reached[j] = f[j]}
<1>1. 0 \in Good
  BY ReachedIs DEF WayTo
<1>2. ASSUME NEW j \in Nat, j \in Good PROVE j + 1 \in Good
  <2> SUFFICES ASSUME j + 1 <= k PROVE Reached[j + 1] = f[j + 1]
    OBVIOUS
  <2>1. j + 1 \in 1 .. k /\ (j + 1) - 1 = j /\ j \in 0 .. k /\ j + 1 \in 1 .. Len(asked) /\ j <= k
    OBVIOUS
  <2>2. Reached[j] = f[j] /\ f[j] \in Nat /\ Leads(f[j], asked[j + 1], f[j + 1])
    BY <1>2, <2>1 DEF WayTo
  <2>3. PICK c, d, a : c = f[j] /\ d = f[j + 1] /\ a = asked[j + 1]
    OBVIOUS
  <2>4. Reached[j] = c /\ c \in Nat /\ Leads(c, a, d) /\ NrSlots(c) \in Nat
    BY <2>2, <2>3
  <2>5. Named(c, a) # {} /\ EntryAt(c, Min(Named(c, a))).clus = d
    BY <2>4, LeadsRight
  <2>6. c # Nowhere
    BY <2>4 DEF Nowhere
  <2>7. Reached[j + 1] = d
    BY <2>1, <2>3, <2>4, <2>5, <2>6, ReachedIs
  <2>. QED BY <2>3, <2>7
<1> HIDE DEF Good
<1>3. Nat \subseteq Good
  BY <1>1, <1>2, NatInductiveSet
<1>4. ASSUME NEW j \in 0 .. k PROVE Reached[j] = f[j]
  <2>1. j \in Good /\ j <= k
    BY <1>3
  <2>. QED BY <2>1 DEF Good
<1>. QED BY <1>4

\* How many names of the path have been found, and that the rest is left.
Gone == Len(asked) - Len(path)
LsType ==
  /\ boot \in Boots /\ asked \in Seq(Seq(STRING)) /\ path \in Seq(Seq(STRING))
  /\ Gone \in 0 .. Len(asked) /\ \A i \in 1 .. Len(path) : path[i] = asked[Gone + i]
  /\ \A o \in DOMAIN dir : dir[o] \in Entries
  /\ hops \in Nat
  /\ pc \in {"ls", "next", "entry", "exit_ok", "exit_error", "not_found", "crashed"}

\* The iterator is in directory c and has given n entries.
Iterator(c, cluster_nr, n) ==
  [is_root_dir |-> c = 0, max_entry_cnt |-> NrSlots(c), cluster_nr |-> cluster_nr,
   cluster_offset |-> Slot(c, 1), entry_nr |-> n]

\* Of directory c the first n slots have been looked at: their names are
\* printed, or none of them is that of the directory that is sought.
LookedAt(c, n) ==
  /\ n \in 0 .. NrSlots(c) /\ Before(c, n)
  /\ Listing => Listed(c, n, out)
  /\ ~Listing => out = <<>> /\ \A i \in 1 .. n : ~Bears(c, i, Head(path))

\* Where the program is in directory c.
InDirectory(c) ==
  /\ sec_num = cluster_to_sec(c)
  /\ pc = "ls" => out = <<>>
  /\ pc = "next" => \E nr, n : it = Iterator(c, nr, U16(n - 1)) /\ LookedAt(c, n)
  /\ pc = "entry" =>
       \E nr, n : /\ it = Iterator(c, nr, n) /\ n < NrSlots(c) /\ offset = Slot(c, n + 1)
                  /\ LookedAt(c, n)
  /\ pc \in {"exit_ok", "not_found"} => \E n : Through(c, n) /\ LookedAt(c, n)
  /\ pc = "exit_ok" => Listing
  /\ pc = "not_found" => ~Listing

\* The inductive invariant: on an image that is supported the program is in
\* the directory that the names found so far lead to.
LsInv ==
  /\ LsType
  /\ Supported => \E f : WayTo(f, Gone) /\ InDirectory(f[Gone])

(* The names and the cluster of an entry that was read.                    *)
LEMMA EntryIs ==
  ASSUME NEW e \in Entries
  PROVE  e.base \in Seq(STRING) /\ e.ext \in Seq(STRING) /\ e.clus \in Nat
BY DriveAssumption, Zenon

(* The name that is printed of it, or compared.                            *)
LEMMA EntryName ==
  ASSUME NEW e \in Entries, ~NameCrashes(e), Padded(e.base), Padded(e.ext)
  PROVE  sprint_filename(e) = PrettyName(e)
<1>1. PICK S : S = STRING \cup {".", Blank}
  OBVIOUS
<1>2. Blank \in S /\ "." \in S /\ STRING \subseteq S
  BY <1>1
<1>3. PICK T : T = STRING
  OBVIOUS
<1>4. e.base \in Seq(S) /\ e.ext \in Seq(S)
  <2>1. e.base \in Seq(T) /\ e.ext \in Seq(T) /\ T \subseteq S
    BY <1>2, <1>3, EntryIs
  <2>. QED BY <2>1
<1>. QED BY <1>2, <1>4, NameIsPretty

(* Where the program is, it is where the definition says the path leads.   *)
LEMMA WayIs ==
  ASSUME LsInv, Supported
  PROVE  \E f : /\ WayTo(f, Gone) /\ InDirectory(f[Gone]) /\ f[Gone] \in Nat \ {1}
                /\ Reached[Gone] = f[Gone]
<1>1. PICK f : WayTo(f, Gone) /\ InDirectory(f[Gone])
  BY DEF LsInv
<1>2. Gone \in 0 .. Len(asked) /\ Len(asked) \in Nat /\ boot \in Boots
  BY DEF LsInv, LsType
<1>3. \A o \in DOMAIN dir : dir[o].clus \in Nat
  BY EntryIs DEF LsInv, LsType
<1>4. \A c \in Nat : NrSlots(c) \in Nat
  BY <1>2, SlotsFit DEF Fits
<1>5. Gone \in 0 .. Gone
  BY <1>2
<1>6. f[Gone] \in Nat \ {1}
  BY <1>1, <1>5 DEF WayTo
<1>7. Reached[Gone] = f[Gone]
  BY <1>1, <1>2, <1>3, <1>4, <1>5, WayRight
<1>. QED BY <1>1, <1>6, <1>7

\* Steps within a directory.
LsStays == Kept /\ UNCHANGED <<asked, path, sec_num>>

(* What was read stays read.                                               *)
LEMMA LsKeeps ==
  ASSUME LsStep
  PROVE  Kept /\ asked' = asked /\ hops' \in {hops, hops + 1}
<1>1. ASSUME NEW e, ReadEntry(e) PROVE Kept /\ asked' = asked /\ hops' = hops
  BY <1>1 DEF ReadEntry, Kept
<1>2. ASSUME UNCHANGED dir, UNCHANGED boot PROVE Kept
  BY <1>2 DEF Kept
<1>3. CASE NewIterator
  BY <1>2, <1>3 DEF NewIterator, image
<1>4. CASE NextInCluster
  BY <1>2, <1>4 DEF NextInCluster, MoveTo, image
<1>5. CASE EndOfRoot
  BY <1>2, <1>5 DEF EndOfRoot, image
<1>6. CASE EndOfChain
  BY <1>2, <1>6 DEF EndOfChain, ReadLink
<1>7. CASE NextCluster
  BY <1>2, <1>7 DEF NextCluster, ReadLink, MoveTo
<1>8. CASE LsReadFails
  BY <1>2, <1>8 DEF LsReadFails, lsVars, image
<1>9. ASSUME NEW e \in Entries, SkipEntry(e) \/ LastEntry(e) \/ PrintName(e) \/ Compare(e)
      PROVE  ReadEntry(e)
  BY <1>9 DEF SkipEntry, LastEntry, PrintName, Compare
<1>. QED BY <1>1, <1>3, <1>4, <1>5, <1>6, <1>7, <1>8, <1>9 DEF LsStep

(* An image that is supported has been so from the first read on.          *)
LEMMA WasSupported ==
  ASSUME LsType, Kept, hops' \in {hops, hops + 1}, Supported'
  PROVE  Supported /\ hops' = hops
<1>1. hops' = 0 /\ hops \in Nat
  BY DEF Supported, LsType
<1>2. hops' = hops /\ hops = 0
  BY <1>1
<1>3. fat_size = TrueFatSize
  BY SlotsStay DEF Supported, Kept
<1>4. ASSUME NEW o \in DOMAIN dir
      PROVE  /\ ~IsSentinel(dir[o]) /\ ~NameCrashes(dir[o]) /\ dir[o].clus # 1
             /\ Padded(dir[o].base) /\ Padded(dir[o].ext)
             /\ CharIsSigned => dir[o].base[1] # Deleted
             /\ ~(IsEnd(dir[o]) /\ IsVolume(dir[o]))
  <2>1. o \in DOMAIN dir' /\ dir'[o] = dir[o]
    BY DEF Kept
  <2>2. /\ ~IsSentinel(dir'[o]) /\ ~NameCrashes(dir'[o]) /\ dir'[o].clus # 1
        /\ Padded(dir'[o].base) /\ Padded(dir'[o].ext)
        /\ CharIsSigned => dir'[o].base[1] # Deleted
        /\ ~(IsEnd(dir'[o]) /\ IsVolume(dir'[o]))
    BY <2>1 DEF Supported
  <2>. QED BY <2>1, <2>2
<1>. QED BY <1>2, <1>3, <1>4 DEF Supported

(* In its directory the program stays where it is, or the way goes on.     *)
LEMMA Stays ==
  ASSUME LsType, LsStays, NEW f, WayTo(f, Gone), InDirectory(f[Gone])'
  PROVE  (\E g : WayTo(g, Gone) /\ InDirectory(g[Gone]))'
<1>1. Gone' = Gone /\ Gone \in Nat
  BY DEF Gone, LsStays, LsType
<1>2. WayTo(f, Gone)'
  <2>1. ASSUME NEW j \in 1 .. Gone PROVE Leads(f[j - 1], asked[j], f[j])'
    <3>1. PICK c, d, a : c = f[j - 1] /\ d = f[j] /\ a = asked[j]
      OBVIOUS
    <3>2. Leads(c, a, d)
      BY <3>1 DEF WayTo
    <3>3. NrSlots(c) \in Nat
      BY SlotsFit DEF Fits, LsType
    <3>4. Leads(c, a, d)'
      BY <3>2, <3>3, WayStays DEF LsStays
    <3>5. a = asked'[j]
      BY <3>1 DEF LsStays
    <3>. QED BY <3>1, <3>4, <3>5
  <2>. QED BY <1>1, <2>1 DEF WayTo
<1>3. WayTo(f, Gone)' /\ InDirectory(f[Gone])'
  BY <1>2
<1>. QED BY <1>3, Zenon

(* What was looked at of a directory was so.                               *)
LEMMA LookedStays ==
  ASSUME boot \in Boots, Kept, path' = path, out' = out, NEW c, NEW n, LookedAt(c, n)
  PROVE  LookedAt(c, n)'
<1>1. NrSlots(c) \in Nat /\ NrSlots(c)' = NrSlots(c)
  BY SlotsFit, SlotsStay DEF Fits, Kept
<1>2. n \in Nat
  BY <1>1 DEF LookedAt
<1>3. Before(c, n)' /\ \A i \in 1 .. n : \A name : Bears(c, i, name)' <=> Bears(c, i, name)
  BY SeenStays DEF LookedAt
<1>4. Listed(c, n, out) => Listed(c, n, out)'
  <2>1. PICK s : s = out
    OBVIOUS
  <2>2. Listed(c, n, s) => Listed(c, n, s)'
    BY <1>1, <1>2, WayStays DEF LookedAt
  <2>3. s = out'
    BY <2>1
  <2>. QED BY <2>1, <2>2, <2>3
<1>5. Listing' <=> Listing
  BY DEF Listing
<1>. QED BY <1>1, <1>3, <1>4, <1>5 DEF LookedAt

(* The number that is next: it wraps where the iterator begins.            *)
LEMMA NextNrIs ==
  ASSUME NEW n \in Nat, U16(n) = n
  PROVE  U16(U16(n - 1) + 1) = n
<1>1. n < 65536
  BY DEF U16
<1>2. CASE n = 0
  BY <1>2 DEF U16
<1>3. CASE n # 0
  BY <1>1, <1>3 DEF U16
<1>. QED BY <1>2, <1>3

(* Slots have numbers of 16 bits.                                          *)
LEMMA SlotNumber ==
  ASSUME boot \in Boots, NEW c, NEW n \in 0 .. NrSlots(c)
  PROVE  n \in Nat /\ U16(n) = n /\ NrSlots(c) \in Nat
<1>1. NrSlots(c) \in Nat /\ U16(NrSlots(c)) = NrSlots(c)
  BY SlotsFit DEF Fits
<1>2. NrSlots(c) < 65536
  BY <1>1 DEF U16
<1>. QED BY <1>1, <1>2 DEF U16

(* A new iterator is one of the directory that the program is in.          *)
LEMMA NewIteratorStays ==
  ASSUME LsType, fat_size = TrueFatSize, NewIterator, NEW c \in Nat \ {1}, InDirectory(c)
  PROVE  InDirectory(c)'
<1>1. /\ boot \in Boots /\ boot' = boot /\ path' = path /\ out' = out /\ out = <<>>
      /\ sec_num = cluster_to_sec(c) /\ sec_num' = sec_num /\ pc' = "next"
  BY DEF LsType, NewIterator, image, InDirectory
<1>2. /\ \A n : Slot(c, n)' = Slot(c, n)
      /\ NrSlots(c)' = NrSlots(c) /\ cluster_to_sec(c)' = cluster_to_sec(c)
  BY <1>1, SlotsStay
<1>3. \E nr : it' = Iterator(c, nr, FirstNr)
  <2>1. /\ sec_num = first_root_dir_sec_num <=> c = 0
        /\ sec_to_offset(sec_num) = Slot(c, 1)
        /\ NrSlots(c) = IF c = 0 THEN boot.RootEntCnt ELSE dir_ents_per_cluster
    BY <1>1, DirectoryIs
  <2>2. CASE c = 0
    <3>1. it' = Iterator(c, U16(-1), FirstNr)
      BY <2>1, <2>2 DEF NewIterator, Iterator
    <3>. QED BY <3>1, Zenon
  <2>3. CASE c # 0
    <3>1. PICK nr : nr = U16((sec_num - first_data_sector) \div boot.SecPerClus + 2)
      OBVIOUS
    <3>2. it' = Iterator(c, nr, FirstNr)
      BY <2>1, <2>3, <3>1 DEF NewIterator, Iterator
    <3>. QED BY <3>2, Zenon
  <2>. QED BY <2>2, <2>3
<1>4. PICK nr : it' = Iterator(c, nr, FirstNr)
  BY <1>3
<1>5. it' = Iterator(c, nr, U16(0 - 1))'
  <2>1. U16(0 - 1) = FirstNr
    BY DEF U16, FirstNr
  <2>. QED BY <1>2, <1>4, <2>1 DEF Iterator
<1>6. LookedAt(c, 0)'
  <2>1. 0 \in 0 .. NrSlots(c)
    BY <1>1, SlotsFit DEF Fits
  <2>2. Before(c, 0)'
    BY DEF Before
  <2>3. Listed(c, 0, <<>>)'
    <3> DEFINE g == [i \in {0} |-> <<>>]
    <3>1. g[0] = <<>> /\ 1 .. 0 = {}
      OBVIOUS
    <3> HIDE DEF g
    <3>. QED BY <3>1 DEF Listed
  <2>. QED BY <1>1, <1>2, <2>1, <2>2, <2>3 DEF LookedAt
<1>7. sec_num' = cluster_to_sec(c)'
  BY <1>1, <1>2
<1>. QED BY <1>1, <1>5, <1>6, <1>7 DEF InDirectory

(* The next entry is in the next slot, if there is one.                    *)
LEMMA NextStays ==
  ASSUME LsType, fat_size = TrueFatSize, NextInCluster, NEW c \in Nat \ {1}, InDirectory(c)
  PROVE  InDirectory(c)'
<1>1. /\ boot \in Boots /\ Kept /\ path' = path /\ out' = out
      /\ sec_num = cluster_to_sec(c) /\ sec_num' = sec_num /\ pc = "next" /\ pc' = "entry"
  BY DEF LsType, NextInCluster, MoveTo, image, InDirectory, Kept
<1>2. /\ \A n : Slot(c, n)' = Slot(c, n)
      /\ NrSlots(c)' = NrSlots(c) /\ cluster_to_sec(c)' = cluster_to_sec(c)
  BY <1>1, SlotsStay DEF Kept
<1>3. PICK nr, n : it = Iterator(c, nr, U16(n - 1)) /\ LookedAt(c, n)
  BY <1>1 DEF InDirectory
<1>4. n \in 0 .. NrSlots(c) /\ n \in Nat /\ U16(n) = n /\ NrSlots(c) \in Nat
  BY <1>1, <1>3, SlotNumber DEF LookedAt
<1>5. NextNr = n
  <2>1. it.entry_nr = U16(n - 1)
    BY <1>3 DEF Iterator
  <2>. QED BY <1>4, <2>1, NextNrIs DEF NextNr
<1>6. n # NrSlots(c)
  BY <1>1, <1>3, <1>5 DEF NextInCluster, AtMax, Iterator
<1>7. it' = Iterator(c, nr, n) /\ offset' = Slot(c, 1) + n * 32
  <2>1. PICK i : i = [it EXCEPT !.entry_nr = NextNr]
    OBVIOUS
  <2>2. i = Iterator(c, nr, n)
    BY <1>3, <1>5, <2>1 DEF Iterator
  <2>3. it' = i /\ offset' = i.cluster_offset + i.entry_nr * 32
    BY <2>1 DEF NextInCluster, MoveTo, DIR_ENT_BYTES
  <2>. QED BY <2>2, <2>3 DEF Iterator
<1>8. it' = Iterator(c, nr, n)' /\ offset' = Slot(c, n + 1)' /\ n < NrSlots(c)'
  <2>1. Slot(c, n + 1) = Slot(c, 1) + n * 32
    BY <1>1, <1>4, DirectoryIs
  <2>. QED BY <1>2, <1>4, <1>6, <1>7, <2>1 DEF Iterator
<1>9. LookedAt(c, n)'
  BY <1>1, <1>3, LookedStays
<1>10. sec_num' = cluster_to_sec(c)'
  BY <1>1, <1>2
<1>. QED BY <1>1, <1>8, <1>9, <1>10 DEF InDirectory

(* Behind the last slot the iterator is through.                           *)
LEMMA EndStays ==
  ASSUME LsType, fat_size = TrueFatSize, EndOfRoot \/ EndOfChain, NEW c \in Nat \ {1},
         InDirectory(c)
  PROVE  InDirectory(c)'
<1>1. /\ boot \in Boots /\ Kept /\ path' = path /\ out' = out /\ NoMoreEntries
      /\ sec_num = cluster_to_sec(c) /\ sec_num' = sec_num /\ AtMax /\ pc = "next"
  BY DEF LsType, EndOfRoot, EndOfChain, ReadLink, AtMax, image, InDirectory, Kept
<1>2. /\ NrSlots(c)' = NrSlots(c) /\ cluster_to_sec(c)' = cluster_to_sec(c)
  BY <1>1, SlotsStay DEF Kept
<1>3. PICK nr, n : it = Iterator(c, nr, U16(n - 1)) /\ LookedAt(c, n)
  BY <1>1 DEF InDirectory
<1>4. n \in 0 .. NrSlots(c) /\ n \in Nat /\ U16(n) = n /\ NrSlots(c) \in Nat
  BY <1>1, <1>3, SlotNumber DEF LookedAt
<1>5. NextNr = n
  <2>1. it.entry_nr = U16(n - 1)
    BY <1>3 DEF Iterator
  <2>. QED BY <1>4, <2>1, NextNrIs DEF NextNr
<1>6. n = NrSlots(c)
  BY <1>1, <1>3, <1>5 DEF AtMax, Iterator
<1>7. Through(c, n)'
  BY <1>2, <1>4, <1>6 DEF Through
<1>8. LookedAt(c, n)'
  BY <1>1, <1>3, LookedStays
<1>9. /\ pc' = "exit_ok" => Listing'
      /\ pc' = "not_found" => ~Listing'
      /\ pc' \in {"exit_ok", "not_found"}
  BY <1>1 DEF NoMoreEntries, Listing
<1>10. sec_num' = cluster_to_sec(c)'
  BY <1>1, <1>2
<1>. QED BY <1>7, <1>8, <1>9, <1>10 DEF InDirectory

\* The program has read entry e from slot n + 1 of directory c.
HasRead(c, n, e) ==
  /\ n \in Nat /\ U16(n) = n /\ n + 1 \in 1 .. NrSlots(c)
  /\ LookedAt(c, n) /\ Kept
  /\ Seen(Slot(c, n + 1))' /\ EntryAt(c, n + 1)' = e
  /\ ~IsSentinel(e) /\ ~NameCrashes(e) /\ e.clus # 1
  /\ (CharIsSigned => e.base[1] # Deleted) /\ ~(IsEnd(e) /\ IsVolume(e))
  /\ sprint_filename(e) = PrettyName(e)

(* It has read it from its place.                                          *)
LEMMA EntryRead ==
  ASSUME LsType, Supported', NEW e \in Entries, ReadEntry(e), NEW c \in Nat \ {1},
         fat_size = TrueFatSize, InDirectory(c)
  PROVE  \E nr, n : it = Iterator(c, nr, n) /\ HasRead(c, n, e)
<1>1. pc = "entry" /\ boot \in Boots /\ Kept
  BY DEF LsType, ReadEntry, Kept
<1>2. PICK nr, n : /\ it = Iterator(c, nr, n) /\ n < NrSlots(c) /\ offset = Slot(c, n + 1)
                   /\ LookedAt(c, n)
  BY <1>1 DEF InDirectory
<1>3. n \in Nat /\ U16(n) = n /\ NrSlots(c) \in Nat
  BY <1>1, <1>2, SlotNumber DEF LookedAt
<1>4. n + 1 \in 1 .. NrSlots(c)
  BY <1>2, <1>3
<1>5. PICK o : o = Slot(c, n + 1)
  OBVIOUS
<1>6. IsEntrySlot(o)
  BY <1>1, <1>3, <1>5, DirectoryIs
<1>7. o \in DOMAIN dir' /\ dir'[o] = e
  BY <1>2, <1>5, <1>6 DEF ReadEntry
<1>8. o = Slot(c, n + 1)'
  BY <1>1, <1>5, SlotsStay DEF Kept
<1>9. Seen(Slot(c, n + 1))' /\ EntryAt(c, n + 1)' = e
  BY <1>7, <1>8 DEF Seen, EntryAt
<1>10. /\ ~IsSentinel(e) /\ ~NameCrashes(e) /\ e.clus # 1
       /\ Padded(e.base) /\ Padded(e.ext) /\ (CharIsSigned => e.base[1] # Deleted)
       /\ ~(IsEnd(e) /\ IsVolume(e))
  BY <1>7 DEF Supported
<1>11. HasRead(c, n, e)
  BY <1>1, <1>2, <1>3, <1>4, <1>9, <1>10, EntryName DEF HasRead
<1>. QED BY <1>2, <1>11, Zenon

(* An entry that is not the end is looked at, and on goes the iterator.    *)
LEMMA LookedOn ==
  ASSUME LsType, NEW c \in Nat \ {1}, NEW n, NEW e, HasRead(c, n, e), path' = path,
         ~IsEnd(e),
         Listing => out' = IF InUse(Slot(c, n + 1))' THEN Append(out, PrettyName(e)) ELSE out,
         ~Listing => out' = out /\ ~Bears(c, n + 1, Head(path))'
  PROVE  LookedAt(c, n + 1)'
<1>1. boot \in Boots /\ boot' = boot /\ n \in Nat /\ NrSlots(c)' = NrSlots(c) /\ NrSlots(c) \in Nat
  BY SlotsStay, SlotsFit DEF LsType, HasRead, Kept, Fits
<1>2. n + 1 \in 0 .. NrSlots(c)'
  BY <1>1 DEF HasRead
<1>3. EntryAt(c, n + 1)' = e /\ dir'[Slot(c, n + 1)'] = e /\ Seen(Slot(c, n + 1))'
  BY DEF HasRead, EntryAt
<1>4. ~EndsAt(Slot(c, n + 1))'
  BY <1>3 DEF EndsAt
<1>5. Before(c, n) /\ Before(c, n)'
  BY SeenStays DEF HasRead, LookedAt
<1>6. Before(c, n + 1)'
  <2>1. \A i \in 1 .. n + 1 : i \in 1 .. n \/ i = n + 1
    BY <1>1
  <2>. QED BY <1>3, <1>4, <1>5, <2>1 DEF Before
<1>7. ASSUME Listing PROVE Listed(c, n + 1, out)'
  <2>1. PICK s : s = out
    OBVIOUS
  <2>2. Listed(c, n, s)
    BY <1>7, <2>1 DEF HasRead, LookedAt
  <2>3. Listed(c, n, s)'
    BY <1>1, <1>5, <2>2, WayStays DEF HasRead
  <2>4. out' = IF InUse(Slot(c, n + 1))' THEN Append(s, PrettyName(e)) ELSE s
    BY <1>7, <2>1
  <2>5. /\ InUse(Slot(c, n + 1))' => Listed(c, n + 1, Append(s, PrettyName(EntryAt(c, n + 1))))'
        /\ ~InUse(Slot(c, n + 1))' => Listed(c, n + 1, s)'
    BY <1>1, <1>3, <1>4, <1>5, <2>3, NextSlot
  <2>. QED BY <1>3, <2>4, <2>5
<1>8. ASSUME ~Listing PROVE out' = <<>> /\ \A i \in 1 .. n + 1 : ~Bears(c, i, Head(path))'
  <2>1. out = <<>> /\ \A i \in 1 .. n : ~Bears(c, i, Head(path))
    BY <1>8 DEF HasRead, LookedAt
  <2>2. \A i \in 1 .. n : ~Bears(c, i, Head(path))'
    <3>1. PICK a : a = Head(path)
      OBVIOUS
    <3>2. \A i \in 1 .. n : ~Bears(c, i, a)'
      BY <1>5, <2>1, <3>1, SeenStays DEF HasRead
    <3>3. a = Head(path)'
      BY <3>1
    <3>. QED BY <3>2, <3>3
  <2>. QED BY <1>1, <1>8, <2>1, <2>2
<1>9. Listing' <=> Listing
  BY DEF Listing
<1>. QED BY <1>2, <1>6, <1>7, <1>8, <1>9 DEF LookedAt

(* An entry that is skipped is one of those that are not listed.           *)
LEMMA SkipStays ==
  ASSUME LsType, Supported', NEW e \in Entries, SkipEntry(e), NEW c \in Nat \ {1},
         fat_size = TrueFatSize, InDirectory(c)
  PROVE  InDirectory(c)'
<1>1. PICK nr, n : it = Iterator(c, nr, n) /\ HasRead(c, n, e)
  BY EntryRead DEF SkipEntry
<1>2. /\ boot' = boot /\ path' = path /\ out' = out /\ it' = it /\ pc' = "next"
      /\ sec_num' = sec_num /\ sec_num = cluster_to_sec(c)
  BY DEF SkipEntry, ReadEntry, InDirectory
<1>3. EntryAt(c, n + 1)' = e /\ dir'[Slot(c, n + 1)'] = e
  BY <1>1 DEF HasRead, EntryAt
<1>4. ~IsEnd(e) /\ (IsVolume(e) \/ e.base[1] = Deleted)
  BY <1>1 DEF HasRead, SkipEntry, LooksDeleted, IsEnd, Deleted, EndMark
<1>5. ~InUse(Slot(c, n + 1))'
  BY <1>3, <1>4 DEF InUse
<1>6. ~Bears(c, n + 1, Head(path))'
  BY <1>5 DEF Bears
<1>7. LookedAt(c, n + 1)'
  BY <1>1, <1>2, <1>4, <1>5, <1>6, LookedOn
<1>8. it' = Iterator(c, nr, U16((n + 1) - 1))'
  <2>1. (n + 1) - 1 = n /\ U16(n) = n
    BY <1>1 DEF HasRead
  <2>2. Slot(c, 1)' = Slot(c, 1) /\ NrSlots(c)' = NrSlots(c)
    BY <1>2, SlotsStay
  <2>. QED BY <1>1, <1>2, <2>1, <2>2 DEF Iterator
<1>9. sec_num' = cluster_to_sec(c)'
  BY <1>2, SlotsStay
<1>. QED BY <1>2, <1>7, <1>8, <1>9 DEF InDirectory

(* Behind the end mark there is nothing.                                   *)
LEMMA LastStays ==
  ASSUME LsType, Supported', NEW e \in Entries, LastEntry(e), NEW c \in Nat \ {1},
         fat_size = TrueFatSize, InDirectory(c)
  PROVE  InDirectory(c)'
<1>1. PICK nr, n : it = Iterator(c, nr, n) /\ HasRead(c, n, e)
  BY EntryRead DEF LastEntry
<1>2. /\ boot \in Boots /\ boot' = boot /\ path' = path /\ out' = out /\ NoMoreEntries
      /\ sec_num' = sec_num /\ sec_num = cluster_to_sec(c) /\ Kept
  BY <1>1 DEF LsType, LastEntry, ReadEntry, InDirectory, HasRead
<1>3. EntryAt(c, n + 1)' = e /\ dir'[Slot(c, n + 1)'] = e /\ Seen(Slot(c, n + 1))'
  BY <1>1 DEF HasRead, EntryAt
<1>4. ~IsVolume(e) /\ IsEnd(e)
  BY <1>1 DEF LastEntry, HasRead
<1>5. EndsAt(Slot(c, n + 1))'
  BY <1>3, <1>4 DEF EndsAt
<1>6. Through(c, n)'
  <2>1. NrSlots(c)' = NrSlots(c) /\ NrSlots(c) \in Nat
    BY <1>2, SlotsStay, SlotsFit DEF Fits
  <2>. QED BY <1>1, <1>5, <2>1 DEF Through, HasRead
<1>7. LookedAt(c, n)'
  BY <1>1, <1>2, LookedStays DEF HasRead
<1>8. /\ pc' = "exit_ok" => Listing'
      /\ pc' = "not_found" => ~Listing'
      /\ pc' \in {"exit_ok", "not_found"}
  BY <1>2 DEF NoMoreEntries, Listing
<1>9. sec_num' = cluster_to_sec(c)'
  BY <1>2, SlotsStay
<1>. QED BY <1>6, <1>7, <1>8, <1>9 DEF InDirectory

(* An entry that is printed is listed.                                     *)
LEMMA PrintStays ==
  ASSUME LsType, Supported', NEW e \in Entries, PrintName(e), NEW c \in Nat \ {1},
         fat_size = TrueFatSize, InDirectory(c)
  PROVE  InDirectory(c)'
<1>1. PICK nr, n : it = Iterator(c, nr, n) /\ HasRead(c, n, e)
  BY EntryRead DEF PrintName
<1>2. /\ boot' = boot /\ path' = path /\ it' = it /\ pc' = "next" /\ Listing
      /\ sec_num' = sec_num /\ sec_num = cluster_to_sec(c)
      /\ out' = Append(out, PrettyName(e)) /\ ~IsVolume(e) /\ ~IsEnd(e) /\ ~LooksDeleted(e)
  BY <1>1 DEF PrintName, ReadEntry, InDirectory, HasRead, Returned
<1>3. /\ EntryAt(c, n + 1)' = e /\ dir'[Slot(c, n + 1)'] = e /\ Seen(Slot(c, n + 1))'
      /\ CharIsSigned => e.base[1] # Deleted
  BY <1>1 DEF HasRead, EntryAt
<1>4. InUse(Slot(c, n + 1))'
  BY <1>2, <1>3 DEF InUse, LooksDeleted
<1>5. LookedAt(c, n + 1)'
  BY <1>1, <1>2, <1>4, LookedOn
<1>6. it' = Iterator(c, nr, U16((n + 1) - 1))'
  <2>1. (n + 1) - 1 = n /\ U16(n) = n
    BY <1>1 DEF HasRead
  <2>2. Slot(c, 1)' = Slot(c, 1) /\ NrSlots(c)' = NrSlots(c)
    BY <1>2, SlotsStay
  <2>. QED BY <1>1, <1>2, <2>1, <2>2 DEF Iterator
<1>7. sec_num' = cluster_to_sec(c)'
  BY <1>2, SlotsStay
<1>. QED BY <1>2, <1>5, <1>6, <1>7 DEF InDirectory

(* An entry that is not the one sought is passed over.                     *)
LEMMA PassStays ==
  ASSUME LsType, Supported', NEW e \in Entries, Compare(e), ~IsSought(e), NEW c \in Nat \ {1},
         fat_size = TrueFatSize, InDirectory(c)
  PROVE  InDirectory(c)' /\ path' = path /\ sec_num' = sec_num
<1>1. PICK nr, n : it = Iterator(c, nr, n) /\ HasRead(c, n, e)
  BY EntryRead DEF Compare
<1>2. /\ boot' = boot /\ path' = path /\ it' = it /\ pc' = "next" /\ ~Listing
      /\ sec_num' = sec_num /\ sec_num = cluster_to_sec(c) /\ out' = out
      /\ ~IsVolume(e) /\ ~IsEnd(e)
  BY <1>1 DEF Compare, ReadEntry, InDirectory, HasRead, Returned
<1>3. EntryAt(c, n + 1)' = e /\ sprint_filename(e) = PrettyName(e)
  BY <1>1 DEF HasRead
<1>4. ~Bears(c, n + 1, Head(path))'
  BY <1>2, <1>3 DEF Bears, IsSought
<1>5. LookedAt(c, n + 1)'
  BY <1>1, <1>2, <1>4, LookedOn
<1>6. it' = Iterator(c, nr, U16((n + 1) - 1))'
  <2>1. (n + 1) - 1 = n /\ U16(n) = n
    BY <1>1 DEF HasRead
  <2>2. Slot(c, 1)' = Slot(c, 1) /\ NrSlots(c)' = NrSlots(c)
    BY <1>2, SlotsStay
  <2>. QED BY <1>1, <1>2, <2>1, <2>2 DEF Iterator
<1>7. sec_num' = cluster_to_sec(c)'
  BY <1>2, SlotsStay
<1>. QED BY <1>2, <1>5, <1>6, <1>7 DEF InDirectory

(* The one that is sought leads to the next directory of the way.          *)
LEMMA SoughtLeads ==
  ASSUME LsType, Supported', NEW e \in Entries, Compare(e), IsSought(e), NEW c \in Nat \ {1},
         fat_size = TrueFatSize, InDirectory(c), NEW a, a = Head(path)
  PROVE  /\ Leads(c, a, e.clus)' /\ InDirectory(e.clus)'
         /\ e.clus \in Nat \ {1} /\ path' = Tail(path)
<1>1. PICK nr, n : it = Iterator(c, nr, n) /\ HasRead(c, n, e)
  BY EntryRead DEF Compare
<1>2. /\ boot \in Boots /\ boot' = boot /\ pc' = "ls" /\ ~Listing /\ out' = out
      /\ sec_num' = cluster_to_sec(e.clus) /\ path' = Tail(path)
      /\ ~IsVolume(e) /\ ~IsEnd(e) /\ ~LooksDeleted(e)
      /\ "directory" \in e.attr /\ PrettyName(e) = Head(path)
  BY <1>1 DEF LsType, Compare, ReadEntry, HasRead, Returned, IsSought
<1>3. /\ EntryAt(c, n + 1)' = e /\ dir'[Slot(c, n + 1)'] = e /\ Seen(Slot(c, n + 1))'
      /\ CharIsSigned => e.base[1] # Deleted
      /\ n \in Nat /\ n + 1 \in 1 .. NrSlots(c)
      /\ e.clus # 1 /\ LookedAt(c, n) /\ Kept
  BY <1>1 DEF HasRead, EntryAt
<1>4. InUse(Slot(c, n + 1))' /\ ~EndsAt(Slot(c, n + 1))'
  BY <1>2, <1>3 DEF InUse, LooksDeleted, EndsAt
<1>6. Bears(c, n + 1, a)' /\ EntryAt(c, n + 1)'.clus = e.clus
  BY <1>2, <1>3, <1>4 DEF Bears
<1>7. Before(c, n)' /\ \A i \in 1 .. n : ~Bears(c, i, a)'
  BY <1>2, <1>3, SeenStays DEF LookedAt
<1>8. Before(c, n + 1)'
  <2>1. \A i \in 1 .. n + 1 : i \in 1 .. n \/ i = n + 1
    BY <1>3
  <2>. QED BY <1>3, <1>4, <1>7, <2>1 DEF Before
<1>9. Leads(c, a, e.clus)'
  <2>1. n + 1 \in 1 .. NrSlots(c)' /\ (n + 1) - 1 = n
    BY <1>2, <1>3, SlotsStay
  <2>. QED BY <1>6, <1>7, <1>8, <2>1 DEF Leads
<1>10. e.clus \in Nat \ {1}
  BY <1>3, EntryIs
<1>11. InDirectory(e.clus)'
  <2>1. out = <<>>
    BY <1>2, <1>3 DEF LookedAt
  <2>2. sec_num' = cluster_to_sec(e.clus)'
    BY <1>2, SlotsStay
  <2>. QED BY <1>2, <2>1, <2>2 DEF InDirectory
<1>. QED BY <1>2, <1>9, <1>10, <1>11

(* The type of drive-ls's state.                                           *)
LEMMA LsTypeKept ==
  ASSUME LsType, LsStep
  PROVE  LsType'
<1>1. Kept /\ asked' = asked /\ hops' \in {hops, hops + 1}
  BY LsKeeps
<1>2. boot' \in Boots /\ asked' \in Seq(Seq(STRING)) /\ hops' \in Nat
  BY <1>1 DEF LsType, Kept
<1>3. \A o \in DOMAIN dir' : dir'[o] \in Entries
  <2>1. CASE UNCHANGED dir
    BY <2>1 DEF LsType
  <2>2. ASSUME NEW e \in Entries, ReadEntry(e) PROVE \A o \in DOMAIN dir' : dir'[o] \in Entries
    <3>1. CASE IsEntrySlot(offset)
      BY <2>2, <3>1 DEF ReadEntry, LsType
    <3>2. CASE ~IsEntrySlot(offset)
      BY <2>2, <3>2 DEF ReadEntry, LsType
    <3>. QED BY <3>1, <3>2
  <2>. QED BY <2>1, <2>2
       DEF LsStep, NewIterator, NextInCluster, EndOfRoot, EndOfChain, NextCluster, LsReadFails,
           ReadLink, MoveTo, SkipEntry, LastEntry, PrintName, Compare, image, lsVars
<1>4. pc' \in {"ls", "next", "entry", "exit_ok", "exit_error", "not_found", "crashed"}
  BY DEF LsStep, NewIterator, NextInCluster, EndOfRoot, EndOfChain, NextCluster, LsReadFails,
         ReadLink, MoveTo, SkipEntry, LastEntry, PrintName, Compare, NoMoreEntries
<1>5. path' = path \/ (path # <<>> /\ path' = Tail(path))
  BY DEF LsStep, NewIterator, NextInCluster, EndOfRoot, EndOfChain, NextCluster, LsReadFails,
         ReadLink, MoveTo, SkipEntry, LastEntry, PrintName, Compare, lsVars, Listing
<1>6. CASE path' = path
  <2>1. Gone' = Gone
    BY <1>1, <1>6 DEF Gone
  <2>. QED BY <1>1, <1>2, <1>3, <1>4, <1>6, <2>1 DEF LsType
<1>7. CASE path # <<>> /\ path' = Tail(path)
  <2>1. PICK p, a, T : p = path /\ a = asked /\ T = Seq(STRING)
    OBVIOUS
  <2>2. /\ p \in Seq(T) /\ p # <<>> /\ Len(a) - Len(p) \in 0 .. Len(a) /\ a \in Seq(T)
        /\ \A i \in 1 .. Len(p) : p[i] = a[Len(a) - Len(p) + i]
    BY <1>7, <2>1 DEF LsType, Gone
  <2>3. /\ Tail(p) \in Seq(T) /\ Len(Tail(p)) = Len(p) - 1 /\ Len(p) \in Nat \ {0}
        /\ \A i \in 1 .. Len(p) - 1 : Tail(p)[i] = p[i + 1]
    BY <2>2
  <2>4. Len(a) - Len(Tail(p)) \in 0 .. Len(a) /\ Len(a) \in Nat
    BY <2>2, <2>3
  <2>5. ASSUME NEW i \in 1 .. Len(Tail(p)) PROVE Tail(p)[i] = a[Len(a) - Len(Tail(p)) + i]
    <3>1. Tail(p)[i] = p[i + 1] /\ i + 1 \in 1 .. Len(p)
      BY <2>3
    <3>2. Len(a) - Len(p) + (i + 1) = Len(a) - Len(Tail(p)) + i
      BY <2>3, <2>4
    <3>3. p[i + 1] = a[Len(a) - Len(p) + (i + 1)]
      BY <2>2, <3>1
    <3>. QED BY <3>1, <3>2, <3>3
  <2>6. path' = Tail(p) /\ asked' = a
    BY <1>1, <1>7, <2>1
  <2>. QED BY <1>2, <1>3, <1>4, <2>1, <2>3, <2>4, <2>5, <2>6 DEF LsType, Gone
<1>. QED BY <1>5, <1>6, <1>7

(* Each step of drive-ls keeps the invariant.                              *)
LEMMA LsKeepsInv ==
  ASSUME LsInv, LsStep
  PROVE  LsInv'
<1> SUFFICES ASSUME Supported' PROVE (\E f : WayTo(f, Gone) /\ InDirectory(f[Gone]))'
  BY LsTypeKept DEF LsInv
<1>1. LsType /\ Kept /\ asked' = asked /\ hops' \in {hops, hops + 1}
  BY LsKeeps DEF LsInv
<1>2. Supported /\ hops' = hops /\ fat_size = TrueFatSize /\ hops \in Nat
  BY <1>1, WasSupported DEF Supported, LsType
<1>3. PICK f : /\ WayTo(f, Gone) /\ InDirectory(f[Gone]) /\ f[Gone] \in Nat \ {1}
  BY <1>2, WayIs
<1>4. PICK c : c = f[Gone]
  OBVIOUS
<1>5. c \in Nat \ {1} /\ InDirectory(c)
  BY <1>3, <1>4
<1>6. Gone \in Nat /\ Gone \in 0 .. Gone
  BY <1>1 DEF LsType
<1>7. ASSUME path' = path, sec_num' = sec_num, InDirectory(c)'
      PROVE  (\E g : WayTo(g, Gone) /\ InDirectory(g[Gone]))'
  <2>1. c = f[Gone]'
    BY <1>1, <1>4, <1>7 DEF Gone
  <2>2. InDirectory(f[Gone])'
    BY <1>7, <2>1
  <2>. QED BY <1>1, <1>3, <1>7, <2>2, Stays DEF LsStays
<1>8. CASE NewIterator
  BY <1>1, <1>2, <1>5, <1>7, <1>8, NewIteratorStays DEF NewIterator
<1>9. CASE NextInCluster
  BY <1>1, <1>2, <1>5, <1>7, <1>9, NextStays DEF NextInCluster, MoveTo
<1>10. CASE EndOfRoot \/ EndOfChain
  BY <1>1, <1>2, <1>5, <1>7, <1>10, EndStays DEF EndOfRoot, EndOfChain
<1>11. CASE NextCluster
  <2>1. hops' = hops + 1
    BY <1>11 DEF NextCluster
  <2>. QED BY <1>2, <2>1
<1>12. CASE LsReadFails
  <2>1. pc' = "exit_error" /\ path' = path /\ sec_num' = sec_num
    BY <1>12 DEF LsReadFails, lsVars
  <2>2. sec_num' = cluster_to_sec(c)'
    BY <1>1, <1>5, <2>1, SlotsStay DEF InDirectory, Kept
  <2>3. InDirectory(c)'
    BY <2>1, <2>2 DEF InDirectory
  <2>. QED BY <1>7, <2>1, <2>3
<1>13. ASSUME NEW e \in Entries, SkipEntry(e) \/ LastEntry(e) \/ PrintName(e) \/ Compare(e)
       PROVE  (\E g : WayTo(g, Gone) /\ InDirectory(g[Gone]))'
  <2>1. CASE SkipEntry(e)
    BY <1>1, <1>2, <1>5, <1>7, <2>1, SkipStays DEF SkipEntry
  <2>2. CASE LastEntry(e)
    BY <1>1, <1>2, <1>5, <1>7, <2>2, LastStays DEF LastEntry
  <2>3. CASE PrintName(e)
    BY <1>1, <1>2, <1>5, <1>7, <2>3, PrintStays DEF PrintName
  <2>4. CASE Compare(e) /\ ~IsSought(e)
    BY <1>1, <1>2, <1>5, <1>7, <2>4, PassStays
  <2>5. CASE Compare(e) /\ IsSought(e)
    <3>1. PICK a, d : a = Head(path) /\ d = e.clus
      OBVIOUS
    <3>2. Leads(c, a, d)' /\ InDirectory(d)' /\ d \in Nat \ {1} /\ path' = Tail(path)
      BY <1>1, <1>2, <1>5, <2>5, <3>1, SoughtLeads
    <3>3. PICK k : k = Gone
      OBVIOUS
    <3>4. path \in Seq(Seq(STRING)) /\ path # <<>> /\ Len(asked) \in Nat
      BY <1>1, <2>5 DEF LsType, Compare, Listing
    <3>5. Gone' = k + 1 /\ k \in Nat
      <4>1. PICK l, m : l = Len(path) /\ m = Len(asked)
        OBVIOUS
      <4>2. Len(Tail(path)) = l - 1 /\ l \in Nat /\ m \in Nat
        BY <3>4, <4>1
      <4>3. k = m - l /\ Gone' = m - (l - 1)
        BY <1>1, <3>2, <3>3, <4>1, <4>2 DEF Gone
      <4>. QED BY <1>6, <3>3, <4>2, <4>3
    <3>6. a = asked'[k + 1]
      <4>1. 1 \in 1 .. Len(path) /\ Head(path) = path[1]
        BY <3>4
      <4>. QED BY <1>1, <3>1, <3>3, <4>1 DEF LsType
    <3> DEFINE g == [j \in 0 .. k + 1 |-> IF j = k + 1 THEN d ELSE f[j]]
    <3>7. f \in [0 .. k -> Nat \ {1}] /\ f[0] = 0 /\ c = f[k]
      BY <1>3, <1>4, <3>3 DEF WayTo
    <3>8. g \in [0 .. k + 1 -> Nat \ {1}]
      BY <3>2, <3>5, <3>7
    <3>9. g[k + 1] = d /\ \A j \in 0 .. k : g[j] = f[j]
      BY <3>5
    <3> HIDE DEF g
    <3>10. g[0] = 0 /\ g[k] = c
      BY <3>5, <3>7, <3>9
    <3>11. ASSUME NEW j \in 1 .. k + 1 PROVE Leads(g[j - 1], asked[j], g[j])'
      <4>1. CASE j = k + 1
        <5>1. g[j - 1] = c /\ g[j] = d /\ asked'[j] = a
          BY <3>5, <3>6, <3>9, <3>10, <4>1
        <5>. QED BY <3>2, <5>1
      <4>2. CASE j # k + 1
        <5>1. j \in 1 .. k /\ j - 1 \in 0 .. k /\ j \in 0 .. k
          BY <3>5, <4>2
        <5>2. PICK x, y, z : x = f[j - 1] /\ y = asked[j] /\ z = f[j]
          OBVIOUS
        <5>3. Leads(x, y, z)
          BY <1>3, <3>3, <5>1, <5>2 DEF WayTo
        <5>4. NrSlots(x) \in Nat
          BY <1>1, SlotsFit DEF Fits, LsType
        <5>5. Leads(x, y, z)'
          BY <1>1, <5>3, <5>4, WayStays
        <5>6. g[j - 1] = x /\ asked'[j] = y /\ g[j] = z
          BY <1>1, <3>9, <5>1, <5>2
        <5>. QED BY <5>5, <5>6
      <4>. QED BY <4>1, <4>2
    <3>12. WayTo(g, k + 1)'
      BY <3>8, <3>10, <3>11 DEF WayTo
    <3>13. WayTo(g, Gone)' /\ InDirectory(g[Gone])'
      BY <3>2, <3>5, <3>9, <3>12
    <3>. QED BY <3>13, Zenon
  <2>. QED BY <1>13, <2>1, <2>2, <2>3, <2>4, <2>5
<1>. QED BY <1>8, <1>9, <1>10, <1>11, <1>12, <1>13 DEF LsStep

(* And so does a step that changes nothing.                                *)
LEMMA LsStutters ==
  ASSUME LsInv, UNCHANGED <<pc, out, lsVars>>
  PROVE  LsInv'
<1>1. /\ LsType /\ Kept /\ boot \in Boots /\ dir' = dir /\ asked' = asked /\ path' = path
      /\ sec_num' = sec_num /\ it' = it /\ offset' = offset /\ hops' = hops
      /\ pc' = pc /\ out' = out
  BY DEF LsInv, LsType, lsVars, image, Kept
<1>2. LsType'
  <2>1. Gone' = Gone /\ boot' = boot
    BY <1>1 DEF Gone, Kept
  <2>. QED BY <1>1, <2>1 DEF LsType
<1>3. ASSUME Supported' PROVE (\E f : WayTo(f, Gone) /\ InDirectory(f[Gone]))'
  <2>1. Supported
    BY <1>1, <1>3, WasSupported
  <2>2. PICK f : WayTo(f, Gone) /\ InDirectory(f[Gone])
    BY <2>1, WayIs
  <2>3. PICK c : c = f[Gone]
    OBVIOUS
  <2>4. /\ \A i : Slot(c, i)' = Slot(c, i)
        /\ NrSlots(c)' = NrSlots(c) /\ cluster_to_sec(c)' = cluster_to_sec(c)
    BY <1>1, SlotsStay DEF Kept
  <2>5. \A n : LookedAt(c, n) => LookedAt(c, n)'
    BY <1>1, LookedStays
  <2>6. \A n : Through(c, n) => Through(c, n)'
    BY <1>1, <2>4 DEF Through, EndsAt, Seen
  <2>7. \A nr, n : Iterator(c, nr, n)' = Iterator(c, nr, n)
    BY <2>4 DEF Iterator
  <2>8. InDirectory(c)
    BY <2>2, <2>3
  <2>9. pc' = "next" => \E nr, n : it' = Iterator(c, nr, U16(n - 1))' /\ LookedAt(c, n)'
    BY <1>1, <2>5, <2>7, <2>8 DEF InDirectory
  <2>10. pc' = "entry" =>
           \E nr, n : /\ it' = Iterator(c, nr, n)' /\ n < NrSlots(c)' /\ offset' = Slot(c, n + 1)'
                      /\ LookedAt(c, n)'
    BY <1>1, <2>4, <2>5, <2>7, <2>8 DEF InDirectory
  <2>11. pc' \in {"exit_ok", "not_found"} => \E n : Through(c, n)' /\ LookedAt(c, n)'
    BY <1>1, <2>5, <2>6, <2>8 DEF InDirectory
  <2>12. InDirectory(c)'
    BY <1>1, <2>4, <2>8, <2>9, <2>10, <2>11 DEF InDirectory, Listing
  <2>13. InDirectory(f[Gone])'
    <3>1. c = f[Gone]'
      BY <1>1, <2>3 DEF Gone
    <3>. QED BY <2>12, <3>1
  <2>. QED BY <1>1, <2>2, <2>13, Stays DEF LsStays
<1>. QED BY <1>2, <1>3 DEF LsInv

(* It holds when drive-ls starts.                                          *)
LEMMA LsStartsRight ==
  ASSUME LsInit
  PROVE  LsInv
<1>1. /\ pc = "ls" /\ out = <<>> /\ boot \in Boots /\ asked \in Paths /\ path = asked
      /\ sec_num = first_root_dir_sec_num /\ dir = <<>> /\ hops = 0
  BY DEF LsInit, LsStart
<1>2. asked \in Seq(Seq(STRING))
  BY <1>1, DriveAssumption
<1>3. Gone = 0 /\ Len(asked) \in Nat
  BY <1>1, <1>2 DEF Gone
<1>4. LsType
  <2>1. DOMAIN dir = {}
    BY <1>1
  <2>. QED BY <1>1, <1>2, <1>3, <2>1 DEF LsType
<1> DEFINE f == [j \in 0 .. 0 |-> 0]
<1>5. f \in [0 .. 0 -> Nat \ {1}] /\ f[0] = 0 /\ 1 .. 0 = {}
  OBVIOUS
<1> HIDE DEF f
<1>6. WayTo(f, 0)
  BY <1>5 DEF WayTo
<1>7. InDirectory(0)
  BY <1>1 DEF InDirectory, cluster_to_sec
<1>. QED BY <1>3, <1>4, <1>5, <1>6, <1>7 DEF LsInv

(* With the invariant, what drive-ls says at its end is true.              *)
LEMMA LsEndsRight ==
  ASSUME LsInv
  PROVE  ListsTheDirectory /\ (prog = "drive-ls" => NotFoundIsTrue)
<1>1. LsType
  BY DEF LsInv
<1>2. \A c : NrSlots(c) \in Nat
  BY <1>1, SlotsFit DEF Fits, LsType
<1>3. ASSUME pc = "exit_ok", Supported
      PROVE  LET d == Reached[Len(asked)] IN
             d # Nowhere /\ AllSeen(d) /\ out = NamesOf(d)[NrSlots(d)]
  <2>1. PICK f : InDirectory(f[Gone]) /\ f[Gone] \in Nat \ {1} /\ Reached[Gone] = f[Gone]
    BY <1>3, WayIs
  <2>2. PICK c : c = f[Gone]
    OBVIOUS
  <2>3. c \in Nat /\ Listing /\ \E n : Through(c, n) /\ LookedAt(c, n)
    BY <1>3, <2>1, <2>2 DEF InDirectory
  <2>4. PICK n : Through(c, n) /\ Before(c, n) /\ Listed(c, n, out)
    BY <2>3 DEF LookedAt
  <2>5. Gone = Len(asked)
    BY <1>1, <2>3 DEF LsType, Gone, Listing
  <2>6. Reached[Len(asked)] = c
    BY <2>1, <2>2, <2>5
  <2>7. c # Nowhere /\ AllSeen(c)
    BY <1>2, <2>3, <2>4, AllWasSeen DEF Nowhere
  <2>8. out = NamesOf(c)[NrSlots(c)]
    <3>1. PICK s : s = out
      OBVIOUS
    <3>2. s = NamesOf(c)[NrSlots(c)]
      BY <1>2, <2>4, <3>1, ListedRight
    <3>. QED BY <3>1, <3>2
  <2>. QED BY <2>6, <2>7, <2>8
<1>4. ASSUME pc = "not_found", Supported
      PROVE  \E k \in 1 .. Len(asked) :
               Reached[k] = Nowhere /\ Reached[k - 1] # Nowhere /\ AllSeen(Reached[k - 1])
  <2>1. PICK f : InDirectory(f[Gone]) /\ f[Gone] \in Nat \ {1} /\ Reached[Gone] = f[Gone]
    BY <1>4, WayIs
  <2>2. PICK c, k : c = f[Gone] /\ k = Gone + 1
    OBVIOUS
  <2>3. c \in Nat /\ ~Listing /\ \E n : Through(c, n) /\ LookedAt(c, n)
    BY <1>4, <2>1, <2>2 DEF InDirectory
  <2>4. PICK n : Through(c, n) /\ Before(c, n) /\ \A i \in 1 .. n : ~Bears(c, i, Head(path))
    BY <2>3 DEF LookedAt
  <2>5. path \in Seq(Seq(STRING)) /\ path # <<>> /\ Gone \in Nat /\ Len(asked) \in Nat
    BY <1>1, <2>3 DEF LsType, Listing
  <2>6. Len(path) \in Nat \ {0} /\ Head(path) = path[1]
    BY <2>5
  <2>7. k \in 1 .. Len(asked) /\ k - 1 = Gone
    BY <2>2, <2>5, <2>6 DEF Gone
  <2>8. Head(path) = asked[k]
    BY <1>1, <2>2, <2>6 DEF LsType
  <2>9. Reached[k - 1] = c /\ c # Nowhere
    BY <2>1, <2>2, <2>3, <2>7 DEF Nowhere
  <2>10. AllSeen(c) /\ Named(c, asked[k]) = {}
    BY <1>2, <2>4, <2>8, AllWasSeen
  <2>11. \A o \in DOMAIN dir : dir[o].clus \in Nat
    BY <1>1, EntryIs DEF LsType
  <2>12. Reached[k] = Nowhere
    BY <2>5, <2>7, <2>9, <2>10, <2>11, ReachedIs
  <2>. QED BY <2>7, <2>9, <2>10, <2>12
<1>. QED BY <1>3, <1>4 DEF ListsTheDirectory, NotFoundIsTrue
-------------------------------------------------------------------------------
(* All of them                                                             *)

ReadersInv ==
  /\ prog \in {"wc", "cat", "grep", "mult", "drive-ls"}
  /\ prog = "wc" => WcInv
  /\ prog = "cat" => CatInv
  /\ prog = "grep" => GrepInv
  /\ prog = "mult" => MultInv
  /\ prog = "drive-ls" => LsInv

(* The invariant holds of every run of any of the programs.                *)
THEOREM Invariance == Spec => []ReadersInv
<1>1. Init => ReadersInv
  BY WcStartsRight, CatStartsRight, GrepStartsRight, MultStartsRight, LsStartsRight
  DEF Init, WcInit, CatInit, GrepInit, MultInit, LsInit, Opened, ReadersInv
<1>2. ReadersInv /\ [Next]_vars => ReadersInv'
  <2> SUFFICES ASSUME ReadersInv, [Next]_vars PROVE ReadersInv'
    OBVIOUS
  <2>1. CASE Next
    <3>1. prog' = prog
      BY <2>1, OwnStep
    <3>2. prog = "wc" => WcInv'
      <4>1. WcInv => pc \in {"read", "print"} \cup Ended
        BY DEF WcInv
      <4> QED BY <2>1, <4>1, OwnStep, WcKeepsInv DEF ReadersInv
    <3>3. prog = "cat" => CatInv'
      <4>1. CatInv => pc \in {"read", "print"} \cup Ended
        BY DEF CatInv
      <4> QED BY <2>1, <4>1, OwnStep, CatKeepsInv DEF ReadersInv
    <3>4. prog = "grep" => GrepInv'
      <4>1. GrepInv => pc \in {"read", "print"} \cup Ended
        BY DEF GrepInv, GrepType
      <4> QED BY <2>1, <4>1, OwnStep, GrepKeepsInv DEF ReadersInv
    <3>5. prog = "mult" => MultInv'
      <4>1. MultInv => pc \in {"read", "print"} \cup Ended
        BY DEF MultInv
      <4> QED BY <2>1, <4>1, OwnStep, MultKeepsInv DEF ReadersInv
    <3>6. prog = "drive-ls" => LsInv'
      BY <2>1, OwnStep, LsKeepsInv DEF ReadersInv
    <3> QED BY <3>1, <3>2, <3>3, <3>4, <3>5, <3>6 DEF ReadersInv
  <2>2. CASE UNCHANGED vars
    <3>1. WcInv => WcInv'
      BY <2>2 DEF WcInv, CountsFit, vars, streamVars, wcVars
    <3>2. CatInv => CatInv'
      BY <2>2 DEF CatInv, CopiesInOrder, vars, streamVars, catVars
    <3>3. GrepInv => GrepInv'
      BY <2>2 DEF GrepInv, GrepType, Searches, PrintsLine, Fruitless, NeverFound, Start, LineStart,
                  vars, streamVars, grepVars
    <3>4. MultInv => MultInv'
      BY <2>2 DEF MultInv, vars, streamVars, multVars
    <3>5. LsInv => LsInv'
      BY <2>2, LsStutters DEF vars, streamVars
    <3>6. UNCHANGED prog
      BY <2>2 DEF vars, streamVars
    <3> QED BY <3>1, <3>2, <3>3, <3>4, <3>5, <3>6 DEF ReadersInv
  <2> QED BY <2>1, <2>2
<1> QED BY <1>1, <1>2, PTL DEF Spec

(* wc.c:33-37.  What wc prints are the numbers of newlines, words and      *)
(* bytes of the stream, for every stream.                                  *)
THEOREM WcIsRight == Spec => []CountsFit
<1>1. ReadersInv => CountsFit
  BY DEF ReadersInv, WcInv, CountsFit
<1> QED BY <1>1, Invariance, PTL

(* cat.c:10-11 and :42-43.  What cat has written is what it has read, for  *)
(* every list of files without NULs, every length of line and every size   *)
(* of the buffer.                                                          *)
THEOREM CatCopies == Spec => []CopiesInOrder
<1>1. ReadersInv => CopiesInOrder
  BY DEF ReadersInv, CatInv, CopiesInOrder
<1> QED BY <1>1, Invariance, PTL

(* pseudo-grep.c:43.  By the time pseudo-grep has read to its end a stream *)
(* that can seek, it has printed the lines that contain the pattern,       *)
(* whole, once and in order, for every text and every pattern: the one     *)
(* pass over the bytes, with its seeks back, is a search.  Except that,    *)
(* where char is signed, it prints nothing if the pattern has a byte from  *)
(* 0x80 up, be it in the text or not.                                      *)
THEOREM GrepPrintsLines == Spec => []PrintsMatchingLines
<1>1. ReadersInv => PrintsMatchingLines
  BY GrepEndsRight DEF ReadersInv, PrintsMatchingLines
<1> QED BY <1>1, Invariance, PTL

(* mult-test.c:11-13.  Without read failures a verdict of mult-test is     *)
(* right, for files of any length whose lines are cut anywhere and ints of *)
(* any width: a cut adds at most one number, so that a line in pieces has  *)
(* one that is refused, and overflow on the way does not matter.           *)
THEOREM MultIsRight == Spec => []VerdictIsRight
<1>1. ReadersInv => VerdictIsRight
  BY MultEndsRight DEF ReadersInv, VerdictIsRight
<1> QED BY <1>1, Invariance, PTL

(* drive-ls.c:132-133.  On a FAT16 image that the code gets right, what    *)
(* drive-ls prints is the names of the entries of the directory that the   *)
(* path leads to, each once and in order, for every geometry, image and    *)
(* path: the sector numbers and offsets it computes are those of the       *)
(* directory, and the first directory of a name is the one it goes into.   *)
THEOREM LsListsTheDirectory == Spec => []ListsTheDirectory
<1>1. ReadersInv => ListsTheDirectory
  BY LsEndsRight DEF ReadersInv, ListsTheDirectory
<1> QED BY <1>1, Invariance, PTL

(* drive-ls.c:193-196.  On such an image it says that there is no entry    *)
(* of a name only where it has seen the whole directory and there is none. *)
THEOREM LsNotFoundIsTrue == Spec => []NotFoundIsTrue
<1>1. ReadersInv => NotFoundIsTrue
  <2>1. ReadersInv /\ pc = "not_found" => prog = "drive-ls"
    BY DEF ReadersInv, WcInv, CatInv, GrepInv, GrepType, MultInv, Ended
  <2>2. ReadersInv /\ prog = "drive-ls" => NotFoundIsTrue
    BY LsEndsRight DEF ReadersInv
  <2> QED BY <2>1, <2>2 DEF NotFoundIsTrue
<1> QED BY <1>1, Invariance, PTL
===============================================================================
