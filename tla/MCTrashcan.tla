------------------------------ MODULE MCTrashcan ------------------------------
(* Trashcan on small instances. *)
EXTENDS Trashcan, TLC

Symmetry == Permutations(Procs) \cup Permutations(Dirs) \cup Permutations(Docs)

\* Only inodes in use matter, and what refers to each, but not their numbers.
UsedInodes  == {i \in Inodes : ~IsFree(i)}
Referrers(i) == <<{pl \in Places : dirent[pl] = i},
                  {p \in Procs : in_fd[p] = i}, {p \in Procs : out_fd[p] = i}>>
View == <<{<<Referrers(i), file[i]>> : i \in UsedInodes}, pc, mode, cwd, userVars>>
===============================================================================
