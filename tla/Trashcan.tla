------------------------------- MODULE Trashcan -------------------------------
(***************************************************************************)
(* U02/trashcan.c: "put" moves a file into ~/.ti3_trash, "get" moves it    *)
(* back into the current directory, "remove" deletes it from the trash.    *)
(* Moving is copying and then unlinking the source, in separate system     *)
(* calls, so commands that run at the same time interleave and a command   *)
(* that is killed or fails half-way leaves both files behind.              *)
(*                                                                         *)
(* All commands are about files of one name, which is all they can         *)
(* interfere through: one entry per working directory and one in the       *)
(* trash.  A file is a document, i.e. the contents some file of the user   *)
(* had, and how many of its BUFFSIZE blocks it holds.                      *)
(***************************************************************************)
EXTENDS Integers, FiniteSetsExt

CONSTANTS
  Procs,         \* processes, each of which runs one command after another
  Dirs,          \* working directories
  Docs,          \* documents the user saves under the name
  Blocks,        \* the length of every document in blocks
  Commands,      \* which of "put", "get" and "remove" are run
  Crossing       \* whether any two commands may overlap

Trash  == "trash"
Places == Dirs \cup {Trash}
Inodes == 1 .. Cardinality(Places) + 2 * Cardinality(Procs)
Nothing == 0     \* no inode: no such entry, or not opened

ASSUME TrashAssumption ==
  /\ IsFiniteSet(Procs) /\ IsFiniteSet(Dirs) /\ Trash \notin Dirs
  /\ Blocks \in Nat \ {0}
  /\ Commands \subseteq {"put", "get", "remove"} /\ Crossing \in BOOLEAN
  /\ "nobody" \notin Docs /\ "none" \notin Dirs

VARIABLES
  dirent,    \* the inode each place's entry of the name refers to
  file,      \* the contents of each inode: a document, and how much of it
  pc, mode, cwd, in_fd, out_fd,   \* per process
  unsaved,   \* documents the user has not saved yet
  live       \* history: documents saved and not removed from the trash

procVars == <<pc, mode, cwd, in_fd, out_fd>>
userVars == <<unsaved, live>>
vars     == <<dirent, file, procVars, userVars>>
-------------------------------------------------------------------------------
IsFree(i) ==
  /\ \A pl \in Places : dirent[pl] # i
  /\ \A p \in Procs : i \notin {in_fd[p], out_fd[p]}
NewInode == Min({i \in Inodes : IsFree(i)})

Source(p) == IF mode[p] = "put" THEN cwd[p] ELSE Trash
Target(p) == IF mode[p] = "put" THEN Trash ELSE cwd[p]

Init ==
  /\ dirent = [pl \in Places |-> Nothing]
  /\ file = [i \in Inodes |-> [doc |-> "nobody", len |-> 0]]
  /\ pc = [p \in Procs |-> "idle"]
  /\ mode = [p \in Procs |-> "none"] /\ cwd = [p \in Procs |-> "none"]
  /\ in_fd = [p \in Procs |-> Nothing] /\ out_fd = [p \in Procs |-> Nothing]
  /\ unsaved = Docs /\ live = {}

\* The process ends, in success or not; its descriptors are closed.
Exit(p) ==
  /\ pc' = [pc EXCEPT ![p] = "idle"]
  /\ in_fd' = [in_fd EXCEPT ![p] = Nothing]
  /\ out_fd' = [out_fd EXCEPT ![p] = Nothing]
  /\ mode' = [mode EXCEPT ![p] = "none"] /\ cwd' = [cwd EXCEPT ![p] = "none"]

Goto(p, label) == pc' = [pc EXCEPT ![p] = label]

Running(p) == pc[p] # "idle"

\* A user who takes care has only puts and gets in one directory overlap.
MayOverlap(q, m, d) == cwd[q] = d /\ "remove" \notin {m, mode[q]}

Start(p, m, d) ==
  /\ ~Running(p)
  /\ Crossing \/ \A q \in Procs : Running(q) => MayOverlap(q, m, d)
  /\ mode' = [mode EXCEPT ![p] = m]
  /\ cwd' = [cwd EXCEPT ![p] = d]
  /\ Goto(p, CASE m = "put" -> "mkdir" [] m = "get" -> "open_in" [] m = "remove" -> "delete")
  /\ UNCHANGED <<dirent, file, in_fd, out_fd, userVars>>

\* opt_mktrashdir: the directory is there afterwards (or the command fails).
MakeTrashDir(p) ==
  /\ pc[p] = "mkdir"
  /\ Goto(p, "open_in")
  /\ UNCHANGED <<dirent, file, mode, cwd, in_fd, out_fd, userVars>>

\* filecopy opens its input ...
OpenIn(p) ==
  /\ pc[p] = "open_in"
  /\ IF dirent[Source(p)] = Nothing
     THEN Exit(p)
     ELSE /\ in_fd' = [in_fd EXCEPT ![p] = dirent[Source(p)]]
          /\ Goto(p, "open_out")
          /\ UNCHANGED <<mode, cwd, out_fd>>
  /\ UNCHANGED <<dirent, file, userVars>>

\* ... and creates its output, which must not exist yet (O_EXCL).
\* (TruncatesExisting is what open does without O_EXCL.)
TruncatesExisting(pl) == IF dirent[pl] = Nothing THEN NewInode ELSE dirent[pl]
CreatesAt(pl)         == IF dirent[pl] = Nothing THEN NewInode ELSE Nothing

OpenOut(p) ==
  LET new == CreatesAt(Target(p)) IN
  /\ pc[p] = "open_out"
  /\ IF new = Nothing
     THEN Exit(p) /\ UNCHANGED <<dirent, file>>
     ELSE /\ dirent' = [dirent EXCEPT ![Target(p)] = new]
          /\ file' = [file EXCEPT ![new] = [doc |-> file[in_fd[p]].doc, len |-> 0]]
          /\ out_fd' = [out_fd EXCEPT ![p] = new]
          /\ Goto(p, "copy")
          /\ UNCHANGED <<mode, cwd, in_fd>>
  /\ UNCHANGED userVars

\* read meets the end of the input as it is now, even if it is still growing.
\* (OneBlockRead ends the loop too early.)
Copied(p)       == file[out_fd[p]].len
OneBlockRead(p) == Copied(p) >= 1
AtEnd(p)        == Copied(p) >= file[in_fd[p]].len

CopyBlock(p) ==
  /\ pc[p] = "copy" /\ ~AtEnd(p)
  /\ file' = [file EXCEPT ![out_fd[p]].len = @ + 1]
  /\ UNCHANGED <<dirent, procVars, userVars>>

CopyDone(p) ==
  /\ pc[p] = "copy" /\ AtEnd(p)
  /\ Goto(p, "unlink")
  /\ in_fd' = [in_fd EXCEPT ![p] = Nothing]
  /\ UNCHANGED <<dirent, file, mode, cwd, out_fd, userVars>>

\* Remove what the source's name refers to by now, if anything.
UnlinkSource(p) ==
  /\ pc[p] = "unlink"
  /\ dirent' = [dirent EXCEPT ![Source(p)] = Nothing]
  /\ Exit(p)
  /\ UNCHANGED <<file, userVars>>

FinallyDelete(p) ==
  /\ pc[p] = "delete"
  /\ dirent' = [dirent EXCEPT ![Trash] = Nothing]
  /\ live' = IF dirent[Trash] = Nothing THEN live ELSE live \ {file[dirent[Trash]].doc}
  /\ Exit(p)
  /\ UNCHANGED <<file, unsaved>>

(* The command ends early: mkdir, fstat, open, read or close fails, a      *)
(* short write fails the assertion, or the process is killed.              *)
Fail(p) ==
  /\ Running(p)
  /\ Exit(p)
  /\ UNCHANGED <<dirent, file, userVars>>

\* The user saves a document under the name, where there is none.
Save(d, doc) ==
  /\ doc \in unsaved
  /\ dirent[d] = Nothing
  /\ dirent' = [dirent EXCEPT ![d] = NewInode]
  /\ file' = [file EXCEPT ![NewInode] = [doc |-> doc, len |-> Blocks]]
  /\ unsaved' = unsaved \ {doc}
  /\ live' = live \cup {doc}
  /\ UNCHANGED procVars
-------------------------------------------------------------------------------
ProcStep(p) ==
  \/ \E m \in Commands, d \in Dirs : Start(p, m, d)
  \/ MakeTrashDir(p) \/ OpenIn(p) \/ OpenOut(p) \/ CopyBlock(p) \/ CopyDone(p)
  \/ UnlinkSource(p) \/ FinallyDelete(p) \/ Fail(p)

Next ==
  \/ \E p \in Procs : ProcStep(p)
  \/ \E d \in Dirs, doc \in Docs : Save(d, doc)

Spec == Init /\ [][Next]_vars
-------------------------------------------------------------------------------
Holds(pl, doc) == dirent[pl] # Nothing /\ file[dirent[pl]] = [doc |-> doc, len |-> Blocks]

(* Whatever commands run, fail or are killed, in whatever order: each      *)
(* document is somewhere in full, unless a copy of it was removed from the *)
(* trash.                                                                  *)
NothingLost == \A doc \in live : \E pl \in Places : Holds(pl, doc)

(* No command writes to a file that was there before: the contents of a    *)
(* complete file stay as long as its entry does.                           *)
NeverOverwrites ==
  [][\A pl \in Places, doc \in Docs :
       Holds(pl, doc) /\ dirent'[pl] = dirent[pl] => file'[dirent[pl]] = file[dirent[pl]]]_vars

(* trashcan.c:71 and :89, "Remove the original file": what unlink is about *)
(* to remove, if anything, is the document that was copied, and if that is *)
(* complete by then, so is the copy.                                       *)
RemovesTheOriginal ==
  \A p \in Procs : pc[p] = "unlink" /\ dirent[Source(p)] # Nothing =>
    LET original == file[dirent[Source(p)]] IN
    /\ original.doc = file[out_fd[p]].doc
    /\ original.len = Blocks => Copied(p) = Blocks
===============================================================================
