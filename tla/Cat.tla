---------------------------------- MODULE Cat ---------------------------------
(***************************************************************************)
(* U06/cat.c: copy files to standard output, one after another, in pieces  *)
(* that fgets cuts at newlines and at the size of the buffer.              *)
(***************************************************************************)
EXTENDS Stream

CONSTANTS
  CatFiles,   \* the lists of files it is given (standard input: one file)
  BufSize     \* BUFSIZE
ASSUME CatAssumption == CatFiles \subseteq Seq(Seq(Bytes)) \ {<<>>} /\ BufSize \in Nat /\ BufSize > 1

VARIABLES files, file_nr
catVars == <<files, file_nr>>

CatIdle == files = <<>> /\ file_nr = 0
CatInit == Opened("cat") /\ files \in CatFiles /\ file_nr = 1 /\ text = files[1]

\* (Variant: the NUL takes the place of a full buffer's last byte.)
RoomForNul(s) == IF Len(s) = BufSize - 1 THEN Front(s) ELSE s
Printed(s)    == UpToNul(s)

CopyPiece ==
  LET buffer == Fgets(text, pos, BufSize) IN
  /\ Reading("cat") /\ ~AtEof
  /\ out' = out \o Printed(buffer)
  /\ pos' = pos + Len(buffer)
  /\ UNCHANGED <<prog, pc, text, catVars>>

\* The next file is opened, or cannot be; or there is none.
NextFile ==
  /\ Reading("cat") /\ AtEof
  /\ \/ /\ file_nr < Len(files)
        /\ file_nr' = file_nr + 1
        /\ text' = files[file_nr + 1] /\ pos' = 0
        /\ UNCHANGED pc
     \/ /\ file_nr < Len(files) /\ pc' = "exit_error"
        /\ UNCHANGED <<text, pos, file_nr>>
     \/ /\ file_nr = Len(files) /\ pc' = "exit_ok"
        /\ UNCHANGED <<text, pos, file_nr>>
  /\ UNCHANGED <<prog, out, files>>

CatStep ==
  \/ CopyPiece \/ NextFile
  \/ ReadFails("cat") /\ UNCHANGED catVars
-------------------------------------------------------------------------------
(* cat.c:10-11 and :42-43.  Whatever the lengths of lines and however it   *)
(* ends, what was written are the files read completely and of the current *)
(* one what was read, if none holds a NUL, where fputs would stop.         *)
CopiesInOrder ==
  prog = "cat" /\ (\A i \in 1 .. Len(files) : Nul \notin ToSet(files[i])) =>
    out = FlattenSeq(SubSeq(files, 1, file_nr - 1)) \o SubSeq(text, 1, pos)
===============================================================================
