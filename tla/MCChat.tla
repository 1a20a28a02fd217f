--------------------------------- MODULE MCChat -------------------------------
(* Chat on small instances. *)
EXTENDS Chat

\* Lines below, at and above the size of the buffer, a NUL in a line, an
\* unterminated line, a longer line before a shorter one.
MCInputs ==
  {<<"a", "nl", "b", "nl">>, <<"a", "a", "nl", "nl">>, <<"b", "b", "b", "b", "nl">>,
   <<"b", "nul", "nl">>, <<"a">>, <<>>}
===============================================================================
