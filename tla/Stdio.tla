--------------------------------- MODULE Stdio --------------------------------
(***************************************************************************)
(* The C library's side of the programs that read lines: bytes, as far as  *)
(* the programs tell them apart, and the calls they read and print with.   *)
(***************************************************************************)
EXTENDS Integers, SequencesExt, FiniteSetsExt

Newline    == "nl"
Nul        == "nul"
Letters    == {"a", "b"}
Whitespace == {"nl", "blank", "tab"}
HighBytes  == {"umlaut"}    \* those from 0x80 up
Bytes      == Letters \cup Whitespace \cup HighBytes \cup {Nul}

\* What fgets(buffer, size, ...) reads of text from pos on: through the next
\* newline, until the buffer is full but for a NUL or the text ends.
Fgets(text, pos, size) ==
  LET n == Min({k \in 1 .. Len(text) - pos :
                  k = size - 1 \/ text[pos + k] = Newline \/ pos + k = Len(text)})
  IN  SubSeq(text, pos + 1, pos + n)

\* What fputs(s, stdout) writes of s: up to its first NUL.
UpToNul(s) ==
  IF Nul \in ToSet(s) THEN SubSeq(s, 1, SelectInSeq(s, LAMBDA ch : ch = Nul) - 1) ELSE s
===============================================================================
