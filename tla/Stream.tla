-------------------------------- MODULE Stream --------------------------------
(***************************************************************************)
(* What the programs of U01, U06 and U07 have in common: each reads stdio  *)
(* streams (U07: at offsets of its own) and writes to standard output.     *)
(* One program runs at a time; Readers lets any of them run.               *)
(***************************************************************************)
EXTENDS Stdio

CONSTANT CharIsSigned    \* the build's type char: signed on x86, unsigned on ARM
ASSUME CharAssumption == CharIsSigned \in BOOLEAN

VARIABLES
  prog,   \* the program that runs
  pc,     \* "read"; "print" (grep); "ls", "next", "entry" (drive-ls); how it ended
  text,   \* the contents of the stream
  pos,    \* its position: how much of the text is behind it
  out     \* standard output

streamVars == <<prog, pc, text, pos, out>>

\* The program has opened its stream and read nothing yet.
Opened(name) == prog = name /\ pc = "read" /\ pos = 0 /\ out = <<>>

Reading(name) == prog = name /\ pc = "read"
AtEof         == pos = Len(text)

\* The stream could not be opened, or ferror(stream): a read has failed.
ReadFails(name) ==
  /\ prog = name /\ pc \in {"read", "print"}
  /\ pc' = "exit_error"
  /\ UNCHANGED <<prog, text, pos, out>>
===============================================================================
