---------------------------------- MODULE Wc ----------------------------------
(***************************************************************************)
(* U06/wc.c: count newlines, words and bytes in one pass over a stream.    *)
(***************************************************************************)
EXTENDS Stream

CONSTANT WcTexts    \* the streams it is given
ASSUME WcAssumption == WcTexts \subseteq Seq(Bytes)

VARIABLES newline_cnt, word_cnt, byte_cnt, in_word
wcVars == <<newline_cnt, word_cnt, byte_cnt, in_word>>

WcZero == newline_cnt = 0 /\ word_cnt = 0 /\ byte_cnt = 0 /\ in_word = FALSE
WcInit == Opened("wc") /\ text \in WcTexts /\ WcZero

is_whitespace(character) == character \in Whitespace

\* (Variant: a word is counted where it ends, so that the last one is missed.)
WordEnds(character)   == in_word /\ is_whitespace(character)
WordBegins(character) == ~in_word /\ ~is_whitespace(character)

CountByte ==
  LET cur_char == text[pos + 1] IN
  /\ Reading("wc") /\ ~AtEof
  /\ pos' = pos + 1
  /\ byte_cnt' = byte_cnt + 1
  /\ newline_cnt' = IF cur_char = Newline THEN newline_cnt + 1 ELSE newline_cnt
  /\ word_cnt' = IF WordBegins(cur_char) THEN word_cnt + 1 ELSE word_cnt
  /\ in_word' = ~is_whitespace(cur_char)
  /\ UNCHANGED <<prog, pc, text, out>>

Summary ==
  /\ Reading("wc") /\ AtEof
  /\ out' = <<newline_cnt, word_cnt, byte_cnt>>
  /\ pc' = "exit_ok"
  /\ UNCHANGED <<prog, text, pos, wcVars>>

WcStep ==
  \/ CountByte \/ Summary
  \/ ReadFails("wc") /\ UNCHANGED wcVars

WcSpec == WcInit /\ [][WcStep]_<<streamVars, wcVars>>
-------------------------------------------------------------------------------
(* wc.c:33-37.  A word is a maximal run of bytes that are not whitespace;  *)
(* it is counted by its first byte.                                        *)
NewlinesIn(t, n) == {i \in 1 .. n : t[i] = Newline}
WordsIn(t, n) ==
  {i \in 1 .. n : ~is_whitespace(t[i]) /\ (i > 1 => is_whitespace(t[i - 1]))}

(* What wc prints are the numbers of newlines, words and bytes of the      *)
(* whole stream, whether or not its last line and word are terminated.     *)
CountsFit ==
  prog = "wc" /\ pc = "exit_ok" =>
    out = <<Cardinality(NewlinesIn(text, Len(text))),
            Cardinality(WordsIn(text, Len(text))), Len(text)>>
===============================================================================
