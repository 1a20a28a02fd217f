----------------------------- MODULE TrashcanInv ------------------------------
(***************************************************************************)
(* The inductive invariants behind the theorems of TrashcanProofs.         *)
(***************************************************************************)
EXTENDS Trashcan

(* The types of the variables.                                            *)
TypeOK ==
  /\ dirent \in [Places -> Inodes \cup {Nothing}]
  /\ file \in [Inodes -> [doc : Docs \cup {"nobody"}, len : 0 .. Blocks]]
  /\ pc \in [Procs -> {"idle", "mkdir", "open_in", "open_out", "copy", "unlink", "delete"}]
  /\ mode \in [Procs -> {"none", "put", "get", "remove"}]
  /\ cwd \in [Procs -> Dirs \cup {"none"}]
  /\ in_fd \in [Procs -> Inodes \cup {Nothing}]
  /\ out_fd \in [Procs -> Inodes \cup {Nothing}]
  /\ unsaved \in SUBSET Docs /\ live \in SUBSET Docs

(* A process that copies, or is about to unlink.                           *)
Mover(p) == pc[p] \in {"copy", "unlink"}

(* What the steps of a command rely on.                                    *)
CommandInv ==
  \A p \in Procs :
    /\ Running(p) => cwd[p] \in Dirs
    /\ pc[p] \in {"mkdir", "open_in", "open_out", "copy", "unlink"} => mode[p] \in {"put", "get"}
    /\ pc[p] = "delete" => mode[p] = "remove"
    /\ pc[p] \in {"open_out", "copy"} => in_fd[p] # Nothing
    /\ Mover(p) <=> out_fd[p] # Nothing

(* No file has two entries.                                                *)
EntriesApart ==
  \A a, b \in Places : dirent[a] = dirent[b] /\ dirent[a] # Nothing => a = b

BaseInv == TypeOK /\ CommandInv /\ EntriesApart
-------------------------------------------------------------------------------
(* The rest holds while the user lets only puts and gets of one directory  *)
(* overlap.                                                                *)
Together ==
  \A p, q \in Procs :
    Running(p) /\ Running(q) /\ p # q => cwd[p] = cwd[q] /\ mode[p] # "remove"

(* One of them moves a file at a time: as long as it does, both places are *)
(* taken.                                                                  *)
OneMover == \A p, q \in Procs : Mover(p) /\ Mover(q) => p = q

(* It copies what is still the source's entry, to the target's.            *)
MovesRightly(p) ==
  /\ dirent[Target(p)] = out_fd[p] /\ dirent[Source(p)] # Nothing
  /\ pc[p] = "copy" =>
       /\ in_fd[p] # out_fd[p] /\ file[in_fd[p]] = file[dirent[Source(p)]]
       /\ file[out_fd[p]].doc = file[in_fd[p]].doc
       /\ file[out_fd[p]].len <= file[in_fd[p]].len
  /\ pc[p] = "unlink" => file[out_fd[p]] = file[dirent[Source(p)]]
MoverInv == \A p \in Procs : Mover(p) => MovesRightly(p)

(* What a process has opened to copy is, or is equal to, a file that has   *)
(* an entry in one of the two places, even if its own entry is gone; and   *)
(* equal only to one that nobody is writing.                               *)
Written(i) == \E m \in Procs : Mover(m) /\ out_fd[m] = i
OpenedIn(p, pl) ==
  /\ dirent[pl] # Nothing
  /\ \/ in_fd[p] = dirent[pl]
     \/ /\ file[in_fd[p]] = file[dirent[pl]]
        /\ ~Written(in_fd[p]) /\ ~Written(dirent[pl])
ReaderInv ==
  \A p \in Procs : pc[p] = "open_out" => \E pl \in {cwd[p], Trash} : OpenedIn(p, pl)

MoveInv == Together /\ OneMover /\ MoverInv /\ ReaderInv /\ NothingLost
===============================================================================
