------------------------------ MODULE PseudoGrep ------------------------------
(***************************************************************************)
(* U06/pseudo-grep.c: print the lines that contain a pattern, by one pass  *)
(* that seeks back after a mismatch and to the start of a matching line.   *)
(***************************************************************************)
EXTENDS Stream

CONSTANTS GrepTexts, Patterns
\* pseudo-grep.c:58: patterns contain no newline; an empty one is read past
\* its end.
ASSUME GrepAssumption ==
  /\ GrepTexts \subseteq Seq(Bytes \ {Nul})
  /\ Patterns \subseteq Seq(Bytes \ {Newline, Nul}) \ {<<>>}

Sources == {"file", "stdin", "pipe"}    \* standard input may be a file, too

VARIABLES
  pattern, source,
  matched_chars, from_linestart
grepVars == <<pattern, source, matched_chars, from_linestart>>

GrepZero == matched_chars = 0 /\ from_linestart = 0
GrepIdle == pattern = <<>> /\ source = "file" /\ GrepZero
GrepInit ==
  /\ Opened("grep")
  /\ text \in GrepTexts /\ pattern \in Patterns /\ source \in Sources
  /\ GrepZero

\* The int that a char of the pattern is compared as: a signed one from 0x80
\* up is negative, which cur_char, an int from fgetc, is not.
AsInt(ch) == IF CharIsSigned /\ ch \in HighBytes THEN "negative" ELSE ch

(* One pass of the loop reads cur_char.                                    *)
cur_char     == text[pos + 1]
LineOffset   == IF cur_char = Newline THEN 0 ELSE from_linestart + 1
ReadsOn      == Reading("grep") /\ ~AtEof
NextMatches  == cur_char = AsInt(pattern[matched_chars + 1])
LastOfPattern == matched_chars + 1 = Len(pattern)

MatchOne ==
  /\ ReadsOn /\ NextMatches /\ ~LastOfPattern
  /\ matched_chars' = matched_chars + 1
  /\ from_linestart' = LineOffset
  /\ pos' = pos + 1
  /\ UNCHANGED <<prog, pc, text, out, pattern, source>>

MatchLast ==
  /\ ReadsOn /\ NextMatches /\ LastOfPattern /\ source # "pipe"
  /\ pos' = pos + 1 - LineOffset
  /\ matched_chars' = 0 /\ from_linestart' = 0
  /\ pc' = "print"
  /\ UNCHANGED <<prog, text, out, pattern, source>>

\* (Variants: no rewinding at all, and by one byte too much.)
NoRewind   == 0
RewindMore == matched_chars + 1
Rewind     == matched_chars

Mismatch ==
  /\ ReadsOn /\ ~NextMatches /\ (matched_chars = 0 \/ source # "pipe")
  /\ pos' = pos + 1 - Rewind
  /\ from_linestart' = LineOffset - Rewind
  /\ matched_chars' = 0
  /\ UNCHANGED <<prog, pc, text, out, pattern, source>>

\* A pipe cannot seek, not even by 0.  The first message is left on stdout.
SeekFails ==
  /\ ReadsOn /\ source = "pipe"
  /\ \/ NextMatches /\ LastOfPattern /\ out' = Append(out, LineOffset)
     \/ ~NextMatches /\ matched_chars > 0 /\ UNCHANGED out
  /\ pc' = "exit_error"
  /\ UNCHANGED <<prog, text, pos, grepVars>>

PrintByte ==
  /\ prog = "grep" /\ pc = "print" /\ ~AtEof
  /\ out' = Append(out, cur_char)
  /\ pos' = pos + 1
  /\ pc' = IF cur_char = Newline THEN "read" ELSE "print"
  /\ UNCHANGED <<prog, text, grepVars>>

PrintEof ==
  /\ prog = "grep" /\ pc = "print" /\ AtEof
  /\ pc' = "read"
  /\ UNCHANGED <<prog, text, pos, out, grepVars>>

\* Having searched standard input, main goes on to fopen(NULL), which fails.
SearchDone ==
  /\ Reading("grep") /\ AtEof
  /\ pc' = IF source = "file" THEN "exit_ok" ELSE "exit_error"
  /\ UNCHANGED <<prog, text, pos, out, grepVars>>

GrepStep ==
  \/ MatchOne \/ MatchLast \/ Mismatch \/ SeekFails
  \/ PrintByte \/ PrintEof \/ SearchDone
  \/ ReadFails("grep") /\ UNCHANGED grepVars

GrepSpec == GrepInit /\ [][GrepStep]_<<streamVars, grepVars>>
-------------------------------------------------------------------------------
(* Two positions of t are on one line if no newline lies before the later  *)
(* one; the newline that ends a line belongs to it.  A position matches if *)
(* p occurs somewhere on its line.                                         *)
SameLine(t, i, j) ==
  \A k \in 1 .. Len(t) : t[k] = Newline => ~(i <= k /\ k < j) /\ ~(j <= k /\ k < i)
OccursAt(t, p, j) ==
  j + Len(p) - 1 <= Len(t) /\ \A k \in 1 .. Len(p) : t[j + k - 1] = p[k]
Matching(t, p, i) == \E j \in 1 .. Len(t) : OccursAt(t, p, j) /\ SameLine(t, i, j)

\* Of the first n bytes of t, those on lines that contain p.
MatchingBytes(t, p) ==
  LET bytes[n \in 0 .. Len(t)] ==
        IF n = 0 THEN <<>>
        ELSE IF Matching(t, p, n) THEN Append(bytes[n - 1], t[n]) ELSE bytes[n - 1]
  IN  bytes

\* Patterns that a build never finds.
NeverFound(p) == CharIsSigned /\ \E k \in DOMAIN p : p[k] \in HighBytes

(* pseudo-grep.c:43, "Prints every line of *stream containing pattern to   *)
(* stdout": those lines, whole, once and in order, and nothing else, by    *)
(* the time a stream that can seek has been read to its end.  Where char   *)
(* is signed, that is so of patterns without bytes from 0x80 up; of one    *)
(* with such a byte nothing is printed, whatever the text.                 *)
PrintsMatchingLines ==
  prog = "grep" /\ pc = "read" /\ AtEof /\ source # "pipe" =>
    out = IF NeverFound(pattern) THEN <<>> ELSE MatchingBytes(text, pattern)[Len(text)]
===============================================================================
