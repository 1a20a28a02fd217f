---------------------------- MODULE TrashcanProofs ----------------------------
(***************************************************************************)
(* Proofs about U02/trashcan.c for any numbers of processes, directories   *)
(* and documents of any length: no command ever writes to a file that was  *)
(* there before, and as long as the user lets only puts and gets of one    *)
(* directory overlap, nothing is lost.                                     *)
(***************************************************************************)
EXTENDS TrashcanInv, ListLemmas, FiniteSetTheorems

USE TrashAssumption

(* A function takes no more values than it has arguments.                  *)
LEMMA ValuesAtMost ==
  ASSUME NEW S, IsFiniteSet(S), NEW T, NEW f \in [S -> T], NEW V,
         \A v \in V : \E x \in S : v = f[x]
  PROVE  IsFiniteSet(V) /\ Cardinality(V) \in Nat /\ Cardinality(V) <= Cardinality(S)
<1> DEFINE W == {f[x] : x \in S}
<1>1. f \in Surjection(S, W)
  BY DEF Surjection
<1>2. IsFiniteSet(W) /\ Cardinality(W) <= Cardinality(S)
  BY ONLY <1>1, IsFiniteSet(S), FS_Surjection
<1>3. V \in SUBSET W
  OBVIOUS
<1> HIDE DEF W
<1>4. IsFiniteSet(V) /\ Cardinality(V) <= Cardinality(W)
  BY ONLY <1>2, <1>3, FS_Subset
<1>5. Cardinality(V) \in Nat /\ Cardinality(W) \in Nat /\ Cardinality(S) \in Nat
  BY <1>2, <1>4, FS_CardinalityType
<1>. QED BY <1>2, <1>4, <1>5

(* Where an entry can be made there is an inode to make it of, and nobody  *)
(* else has it.                                                            *)
LEMMA FreeInode ==
  ASSUME TypeOK, NEW d \in Places, dirent[d] = Nothing
  PROVE  NewInode \in Inodes /\ IsFree(NewInode)
<1> DEFINE Others  == Places \ {d}
           entries == [pl \in Others |-> dirent[pl]]
           E       == {entries[pl] : pl \in Others}
           I       == {in_fd[p] : p \in Procs}
           O       == {out_fd[p] : p \in Procs}
           nd      == Cardinality(Places)
           np      == Cardinality(Procs)
<1>1. IsFiniteSet(Places) /\ nd \in Nat /\ np \in Nat
  BY FS_AddElement, FS_CardinalityType DEF Places
<1>2. IsFiniteSet(Others) /\ Cardinality(Others) = nd - 1
  BY <1>1, FS_RemoveElement
<1>3. IsFiniteSet(E) /\ Cardinality(E) \in Nat /\ Cardinality(E) <= nd - 1
  <2>1. entries \in [Others -> Inodes \cup {Nothing}]
    BY DEF TypeOK
  <2>2. \A v \in E : \E pl \in Others : v = entries[pl]
    OBVIOUS
  <2> HIDE DEF entries, Others, E
  <2>3. IsFiniteSet(E) /\ Cardinality(E) \in Nat /\ Cardinality(E) <= Cardinality(Others)
    BY ONLY <1>2, <2>1, <2>2, ValuesAtMost
  <2>. QED BY <1>2, <2>3
<1>4. IsFiniteSet(I) /\ Cardinality(I) \in Nat /\ Cardinality(I) <= np
  <2>1. in_fd \in [Procs -> Inodes \cup {Nothing}] /\ IsFiniteSet(Procs)
    BY DEF TypeOK
  <2>2. \A v \in I : \E p \in Procs : v = in_fd[p]
    OBVIOUS
  <2> HIDE DEF I
  <2>. QED BY <2>1, <2>2, ValuesAtMost
<1>5. IsFiniteSet(O) /\ Cardinality(O) \in Nat /\ Cardinality(O) <= np
  <2>1. out_fd \in [Procs -> Inodes \cup {Nothing}] /\ IsFiniteSet(Procs)
    BY DEF TypeOK
  <2>2. \A v \in O : \E p \in Procs : v = out_fd[p]
    OBVIOUS
  <2> HIDE DEF O
  <2>. QED BY <2>1, <2>2, ValuesAtMost
<1> HIDE DEF nd, np
<1>6. IsFiniteSet(Inodes) /\ Cardinality(Inodes) = nd + 2 * np
  <2>1. Inodes = 1 .. nd + 2 * np /\ nd + 2 * np \in Int /\ nd + 2 * np >= 0
    BY <1>1 DEF Inodes, nd, np
  <2>. QED BY <2>1, FS_Interval
<1>7. IsFiniteSet(E \cup (I \cup O)) /\ Cardinality(E \cup (I \cup O)) < nd + 2 * np
  <2> HIDE DEF E, I, O
  <2>1. /\ IsFiniteSet(I \cup O)
        /\ Cardinality(I \cup O) = Cardinality(I) + Cardinality(O) - Cardinality(I \cap O)
    BY <1>4, <1>5, FS_Union
  <2>2. Cardinality(I \cap O) \in Nat /\ Cardinality(I \cup O) \in Nat
    BY <1>4, <2>1, FS_Intersection, FS_CardinalityType
  <2>3. /\ IsFiniteSet(E \cup (I \cup O))
        /\ Cardinality(E \cup (I \cup O))
             = Cardinality(E) + Cardinality(I \cup O) - Cardinality(E \cap (I \cup O))
    BY <1>3, <2>1, FS_Union
  <2>4. Cardinality(E \cap (I \cup O)) \in Nat
    BY <1>3, FS_Intersection, FS_CardinalityType
  <2>. QED BY <1>1, <1>3, <1>4, <1>5, <2>1, <2>2, <2>3, <2>4
<1>8. ~ (Inodes \subseteq E \cup (I \cup O))
  <2> HIDE DEF E, I, O
  <2>1. ASSUME Inodes \subseteq E \cup (I \cup O) PROVE FALSE
    <3>1. Cardinality(Inodes) <= Cardinality(E \cup (I \cup O))
      BY <1>7, <2>1, FS_Subset
    <3>2. Cardinality(E \cup (I \cup O)) \in Nat
      BY <1>7, FS_CardinalityType
    <3>. QED BY <1>1, <1>6, <1>7, <3>1, <3>2
  <2>. QED BY <2>1
<1>9. PICK i \in Inodes : i \notin E \cup (I \cup O)
  BY <1>8
<1>10. IsFree(i)
  <2>1. i # Nothing
    BY <1>1 DEF Inodes, Nothing
  <2>2. \A pl \in Places : dirent[pl] # i
    BY <1>9, <2>1
  <2>. QED BY <1>9, <2>2 DEF IsFree
<1>11. {j \in Inodes : IsFree(j)} # {} /\ {j \in Inodes : IsFree(j)} \subseteq Nat
  BY <1>1, <1>10 DEF Inodes
<1>. QED BY <1>11, MinOfNats DEF NewInode
-------------------------------------------------------------------------------
(* Initially there is no file and no command.                              *)
LEMMA InitBase == Init => BaseInv
<1>. SUFFICES ASSUME Init PROVE BaseInv
  OBVIOUS
<1>1. TypeOK
  BY DEF Init, TypeOK
<1>2. CommandInv
  BY DEF Init, CommandInv, Running, Mover
<1>3. EntriesApart
  BY DEF Init, EntriesApart
<1>. QED BY <1>1, <1>2, <1>3 DEF BaseInv

(* A command that ends leaves nothing of its own behind.                   *)
LEMMA ExitCommand ==
  ASSUME TypeOK, CommandInv, NEW p \in Procs, Exit(p)
  PROVE  /\ pc' \in [Procs -> {"idle", "mkdir", "open_in", "open_out", "copy", "unlink", "delete"}]
         /\ mode' \in [Procs -> {"none", "put", "get", "remove"}]
         /\ cwd' \in [Procs -> Dirs \cup {"none"}]
         /\ in_fd' \in [Procs -> Inodes \cup {Nothing}]
         /\ out_fd' \in [Procs -> Inodes \cup {Nothing}]
         /\ CommandInv'
         /\ ~Running(p)' /\ ~Mover(p)'
         /\ \A q \in Procs : q # p =>
              /\ pc'[q] = pc[q] /\ mode'[q] = mode[q] /\ cwd'[q] = cwd[q]
              /\ in_fd'[q] = in_fd[q] /\ out_fd'[q] = out_fd[q]
BY DEF Exit, TypeOK, CommandInv, Running, Mover

(* Every step keeps the types.                                             *)
LEMMA StepType == BaseInv /\ [Next]_vars => TypeOK'
<1>. SUFFICES ASSUME TypeOK, CommandInv, [Next]_vars PROVE TypeOK'
  BY DEF BaseInv
<1>0. Blocks \in Nat /\ 0 \in 0 .. Blocks /\ Blocks \in 0 .. Blocks
  OBVIOUS
<1>1. ASSUME NEW p \in Procs, NEW m \in Commands, NEW d \in Dirs, Start(p, m, d) PROVE TypeOK'
  BY <1>1 DEF TypeOK, Start, Goto, userVars
<1>2. ASSUME NEW p \in Procs, MakeTrashDir(p) PROVE TypeOK'
  BY <1>2 DEF TypeOK, MakeTrashDir, Goto, userVars
<1>3. ASSUME NEW p \in Procs, OpenIn(p) PROVE TypeOK'
  <2>1. CASE dirent[Source(p)] = Nothing
    BY <1>3, <2>1, ExitCommand DEF TypeOK, OpenIn, userVars
  <2>2. CASE dirent[Source(p)] # Nothing
    <3>1. Source(p) \in Places
      BY <1>3 DEF TypeOK, CommandInv, OpenIn, Source, Running, Places
    <3>. QED BY <1>3, <2>2, <3>1 DEF TypeOK, OpenIn, Goto, userVars
  <2>. QED BY <2>1, <2>2
<1>4. ASSUME NEW p \in Procs, OpenOut(p) PROVE TypeOK'
  <2>1. Target(p) \in Places /\ in_fd[p] \in Inodes
    BY <1>4 DEF TypeOK, CommandInv, OpenOut, Target, Running, Places
  <2>2. CASE CreatesAt(Target(p)) = Nothing
    BY <1>4, <2>2, ExitCommand DEF TypeOK, OpenOut, userVars
  <2>3. CASE CreatesAt(Target(p)) # Nothing
    <3>1. CreatesAt(Target(p)) \in Inodes
      BY <2>1, <2>3, FreeInode DEF CreatesAt
    <3>2. file[in_fd[p]].doc \in Docs \cup {"nobody"}
      BY <2>1 DEF TypeOK
    <3> DEFINE new   == CreatesAt(Target(p))
               empty == [doc |-> file[in_fd[p]].doc, len |-> 0]
    <3>3. empty \in [doc : Docs \cup {"nobody"}, len : 0 .. Blocks]
      BY <1>0, <3>2
    <3>4. /\ dirent' = [dirent EXCEPT ![Target(p)] = new]
          /\ file' = [file EXCEPT ![new] = empty]
          /\ out_fd' = [out_fd EXCEPT ![p] = new]
          /\ pc' = [pc EXCEPT ![p] = "copy"]
          /\ UNCHANGED <<mode, cwd, in_fd, unsaved, live>>
      BY <1>4, <2>3 DEF OpenOut, Goto, userVars
    <3> HIDE DEF new, empty
    <3>. QED BY <2>1, <3>1, <3>3, <3>4 DEF TypeOK, new
  <2>. QED BY <2>2, <2>3
<1>5. ASSUME NEW p \in Procs, CopyBlock(p) PROVE TypeOK'
  <2>1. in_fd[p] \in Inodes /\ out_fd[p] \in Inodes
    BY <1>5 DEF TypeOK, CommandInv, CopyBlock, Mover
  <2>2. file[in_fd[p]].len \in 0 .. Blocks /\ file[out_fd[p]].len \in 0 .. Blocks
    BY <2>1 DEF TypeOK
  <2>3. file[out_fd[p]].len + 1 \in 0 .. Blocks
    BY <1>0, <1>5, <2>2 DEF CopyBlock, AtEnd, Copied
  <2>4. file' = [file EXCEPT ![out_fd[p]].len = file[out_fd[p]].len + 1]
    BY <1>5 DEF CopyBlock
  <2>. QED BY <1>5, <2>1, <2>3, <2>4 DEF TypeOK, CopyBlock, procVars, userVars
<1>6. ASSUME NEW p \in Procs, CopyDone(p) PROVE TypeOK'
  BY <1>6 DEF TypeOK, CopyDone, Goto, userVars
<1>7. ASSUME NEW p \in Procs, UnlinkSource(p) PROVE TypeOK'
  BY <1>7, ExitCommand DEF TypeOK, UnlinkSource, userVars
<1>8. ASSUME NEW p \in Procs, FinallyDelete(p) PROVE TypeOK'
  BY <1>8, ExitCommand DEF TypeOK, FinallyDelete
<1>9. ASSUME NEW p \in Procs, Fail(p) PROVE TypeOK'
  BY <1>9, ExitCommand DEF TypeOK, Fail, userVars
<1>10. ASSUME NEW d \in Dirs, NEW doc \in Docs, Save(d, doc) PROVE TypeOK'
  <2>1. NewInode \in Inodes
    BY <1>10, FreeInode DEF Save, Places
  <2>. QED BY <1>0, <1>10, <2>1 DEF TypeOK, Save, procVars
<1>11. CASE UNCHANGED vars
  BY <1>11 DEF TypeOK, vars, procVars, userVars
<1>. QED
  BY <1>1, <1>2, <1>3, <1>4, <1>5, <1>6, <1>7, <1>8, <1>9, <1>10, <1>11 DEF Next, ProcStep

(* Every step keeps what the commands rely on.                             *)
LEMMA StepCommand == BaseInv /\ [Next]_vars => CommandInv'
<1>. SUFFICES ASSUME TypeOK, CommandInv, [Next]_vars PROVE CommandInv'
  BY DEF BaseInv
<1>0. Nothing \notin Inodes
  <2>1. Inodes = 1 .. Cardinality(Places) + 2 * Cardinality(Procs)
    BY DEF Inodes
  <2>. QED BY <2>1 DEF Nothing
<1>1. ASSUME NEW p \in Procs, NEW m \in Commands, NEW d \in Dirs, Start(p, m, d)
      PROVE  CommandInv'
  <2>1. m \in {"put", "get", "remove"}
    OBVIOUS
  <2>. QED BY <1>1, <2>1 DEF TypeOK, CommandInv, Start, Goto, Running, Mover
<1>2. ASSUME NEW p \in Procs, MakeTrashDir(p) PROVE CommandInv'
  BY <1>2 DEF TypeOK, CommandInv, MakeTrashDir, Goto, Running, Mover
<1>3. ASSUME NEW p \in Procs, OpenIn(p) PROVE CommandInv'
  <2>1. CASE dirent[Source(p)] = Nothing
    BY <1>3, <2>1, ExitCommand DEF OpenIn
  <2>2. CASE dirent[Source(p)] # Nothing
    BY <1>3, <2>2 DEF TypeOK, CommandInv, OpenIn, Goto, Running, Mover
  <2>. QED BY <2>1, <2>2
<1>4. ASSUME NEW p \in Procs, OpenOut(p) PROVE CommandInv'
  <2>1. CASE CreatesAt(Target(p)) = Nothing
    BY <1>4, <2>1, ExitCommand DEF OpenOut
  <2>2. CASE CreatesAt(Target(p)) # Nothing
    BY <1>4, <2>2 DEF TypeOK, CommandInv, OpenOut, Goto, Running, Mover
  <2>. QED BY <2>1, <2>2
<1>5. ASSUME NEW p \in Procs, CopyBlock(p) PROVE CommandInv'
  BY <1>5 DEF CommandInv, CopyBlock, procVars, Running, Mover
<1>6. ASSUME NEW p \in Procs, CopyDone(p) PROVE CommandInv'
  BY <1>6 DEF TypeOK, CommandInv, CopyDone, Goto, Running, Mover
<1>7. ASSUME NEW p \in Procs, UnlinkSource(p) \/ FinallyDelete(p) \/ Fail(p)
      PROVE  CommandInv'
  BY <1>7, ExitCommand DEF UnlinkSource, FinallyDelete, Fail
<1>8. ASSUME NEW d \in Dirs, NEW doc \in Docs, Save(d, doc) PROVE CommandInv'
  BY <1>8 DEF CommandInv, Save, procVars, Running, Mover
<1>9. CASE UNCHANGED vars
  BY <1>9 DEF CommandInv, vars, procVars, Running, Mover
<1>. QED
  BY <1>1, <1>2, <1>3, <1>4, <1>5, <1>6, <1>7, <1>8, <1>9 DEF Next, ProcStep

(* What a command that opens its output makes, and where.                  *)
LEMMA OpensOutput ==
  ASSUME BaseInv, NEW p \in Procs, pc[p] = "open_out", CreatesAt(Target(p)) # Nothing
  PROVE  /\ Target(p) \in Places /\ dirent[Target(p)] = Nothing
         /\ CreatesAt(Target(p)) \in Inodes /\ IsFree(CreatesAt(Target(p)))
<1>1. Target(p) \in Places
  BY DEF BaseInv, TypeOK, CommandInv, Target, Running, Places
<1>. QED BY <1>1, FreeInode DEF BaseInv, CreatesAt

(* Every step keeps the entries apart: only a free inode gets one.         *)
LEMMA StepApart == BaseInv /\ [Next]_vars => EntriesApart'
<1>. SUFFICES ASSUME BaseInv, [Next]_vars PROVE EntriesApart'
  OBVIOUS
<1>0. TypeOK /\ CommandInv /\ EntriesApart
  BY DEF BaseInv
<1>1. ASSUME UNCHANGED dirent PROVE EntriesApart'
  BY <1>0, <1>1 DEF EntriesApart
<1>2. ASSUME NEW pl \in Places, dirent' = [dirent EXCEPT ![pl] = Nothing] PROVE EntriesApart'
  BY <1>0, <1>2 DEF EntriesApart, TypeOK
<1>3. ASSUME NEW pl \in Places, NEW new \in Inodes, IsFree(new),
             dirent' = [dirent EXCEPT ![pl] = new]
      PROVE  EntriesApart'
  BY <1>0, <1>3 DEF EntriesApart, TypeOK, IsFree
<1>4. ASSUME NEW p \in Procs, OpenOut(p) PROVE EntriesApart'
  <2>1. CASE CreatesAt(Target(p)) = Nothing
    BY <1>1, <1>4, <2>1 DEF OpenOut
  <2>2. CASE CreatesAt(Target(p)) # Nothing
    BY <1>3, <1>4, <2>2, OpensOutput DEF OpenOut
  <2>. QED BY <2>1, <2>2
<1>5. ASSUME NEW p \in Procs, UnlinkSource(p) PROVE EntriesApart'
  <2>1. Source(p) \in Places
    BY <1>0, <1>5 DEF TypeOK, CommandInv, UnlinkSource, Source, Running, Places
  <2>. QED BY <1>2, <1>5, <2>1 DEF UnlinkSource
<1>6. ASSUME NEW p \in Procs, FinallyDelete(p) PROVE EntriesApart'
  BY <1>2, <1>6 DEF FinallyDelete, Places
<1>7. ASSUME NEW d \in Dirs, NEW doc \in Docs, Save(d, doc) PROVE EntriesApart'
  <2>1. d \in Places /\ NewInode \in Inodes /\ IsFree(NewInode)
    BY <1>0, <1>7, FreeInode DEF Save, Places
  <2>. QED BY <1>3, <1>7, <2>1 DEF Save
<1>8. ASSUME NEW p \in Procs,
             \/ \E m \in Commands, d \in Dirs : Start(p, m, d)
             \/ MakeTrashDir(p) \/ OpenIn(p) \/ CopyBlock(p) \/ CopyDone(p) \/ Fail(p)
      PROVE  EntriesApart'
  BY <1>1, <1>8 DEF Start, MakeTrashDir, OpenIn, CopyBlock, CopyDone, Fail
<1>9. CASE UNCHANGED vars
  BY <1>1, <1>9 DEF vars
<1>. QED BY <1>4, <1>5, <1>6, <1>7, <1>8, <1>9 DEF Next, ProcStep

(* The bookkeeping of commands is right whatever commands overlap.         *)
THEOREM BaseInvariance == Spec => []BaseInv
<1>1. BaseInv /\ [Next]_vars => BaseInv'
  BY StepType, StepCommand, StepApart DEF BaseInv
<1>. QED BY InitBase, <1>1, PTL DEF Spec
-------------------------------------------------------------------------------
\* A step of p is the other processes' business only by what it does to files.
LeavesAlone(q) ==
  /\ pc'[q] = pc[q] /\ mode'[q] = mode[q] /\ cwd'[q] = cwd[q]
  /\ in_fd'[q] = in_fd[q] /\ out_fd'[q] = out_fd[q]

(* Initially nothing is running and nothing is saved.                      *)
LEMMA InitMove == Init => MoveInv
BY DEF Init, MoveInv, Together, OneMover, MoverInv, ReaderInv, NothingLost, Mover, Running

(* Commands stay together if p's, once started, stays what it is.          *)
LEMMA StaysTogether ==
  ASSUME Together, NEW p \in Procs, \A q \in Procs \ {p} : LeavesAlone(q),
         Running(p)' => Running(p) /\ mode'[p] = mode[p] /\ cwd'[p] = cwd[p]
  PROVE  Together'
BY DEF Together, LeavesAlone, Running

(* A step of a process that then copies nothing and changes no file; it    *)
(* may have opened an entry to copy.                                       *)
LEMMA QuietStep ==
  ASSUME MoveInv, NEW p \in Procs, \A q \in Procs \ {p} : LeavesAlone(q),
         UNCHANGED <<dirent, file, live>>, ~Mover(p)',
         pc'[p] = "open_out" =>
           \E pl \in {cwd'[p], Trash} : dirent[pl] # Nothing /\ in_fd'[p] = dirent[pl]
  PROVE  OneMover' /\ MoverInv' /\ ReaderInv' /\ NothingLost'
<1>0. OneMover /\ MoverInv /\ ReaderInv /\ NothingLost
  BY DEF MoveInv
<1>1. \A q \in Procs \ {p} : LeavesAlone(q) /\ (Mover(q)' <=> Mover(q))
  BY DEF LeavesAlone, Mover
<1>2. OneMover'
  BY <1>0, <1>1 DEF OneMover
<1>3. ASSUME NEW q \in Procs, Mover(q)' PROVE q \in Procs \ {p} /\ Mover(q)
  BY <1>1, <1>3
<1>4. MoverInv'
  <2>. SUFFICES ASSUME NEW q \in Procs, Mover(q)' PROVE MovesRightly(q)'
    BY DEF MoverInv
  <2>1. MovesRightly(q) /\ LeavesAlone(q)
    BY <1>0, <1>1, <1>3 DEF MoverInv
  <2>. QED BY <2>1 DEF MovesRightly, LeavesAlone, Source, Target
<1>5. ReaderInv'
  <2>. SUFFICES ASSUME NEW q \in Procs, pc'[q] = "open_out"
                PROVE  \E pl \in {cwd'[q], Trash} : OpenedIn(q, pl)'
    BY DEF ReaderInv
  <2>1. CASE q = p
    BY <2>1 DEF OpenedIn
  <2>2. CASE q # p
    <3>1. PICK pl \in {cwd[q], Trash} : OpenedIn(q, pl)
      BY <1>0, <1>1, <2>2 DEF ReaderInv, LeavesAlone
    <3>2. \A i : Written(i)' => Written(i)
      BY <1>1, <1>3 DEF Written, LeavesAlone
    <3>. QED BY <1>1, <2>2, <3>1, <3>2 DEF OpenedIn, LeavesAlone
  <2>. QED BY <2>1, <2>2
<1>6. NothingLost'
  BY <1>0 DEF NothingLost, Holds
<1>. QED BY <1>2, <1>4, <1>5, <1>6

(* A command that ends loses nothing, if it changes no file.               *)
LEMMA ExitKeeps ==
  ASSUME BaseInv, MoveInv, NEW p \in Procs, Exit(p), UNCHANGED <<dirent, file, userVars>>
  PROVE  MoveInv'
<1>1. ~Running(p)' /\ ~Mover(p)' /\ pc'[p] # "open_out" /\ \A q \in Procs \ {p} : LeavesAlone(q)
  BY ExitCommand DEF BaseInv, LeavesAlone, Running
<1>2. Together'
  BY <1>1, StaysTogether DEF MoveInv
<1>. QED BY <1>1, <1>2, QuietStep DEF MoveInv, userVars

(* A careful user starts a command only where it fits those that run.      *)
LEMMA StartKeeps ==
  ASSUME ~Crossing, BaseInv, MoveInv,
         NEW p \in Procs, NEW m \in Commands, NEW d \in Dirs, Start(p, m, d)
  PROVE  MoveInv'
<1>1. TypeOK /\ CommandInv /\ m \in {"put", "get", "remove"}
  BY DEF BaseInv
<1>2. /\ pc'[p] \in {"mkdir", "open_in", "delete"} /\ mode'[p] = m /\ cwd'[p] = d
      /\ \A q \in Procs \ {p} : LeavesAlone(q)
  BY <1>1 DEF TypeOK, Start, Goto, LeavesAlone
<1>3. Together'
  <2>1. \A q \in Procs : Running(q) => cwd[q] = d /\ "remove" \notin {m, mode[q]}
    BY DEF Start, MayOverlap
  <2>. QED BY <1>2, <2>1 DEF MoveInv, Together, LeavesAlone, Running
<1>4. ~Mover(p)' /\ pc'[p] # "open_out"
  BY <1>2 DEF Mover
<1>. QED BY <1>2, <1>3, <1>4, QuietStep DEF MoveInv, Start, userVars

(* Making the directory touches no file.                                  *)
LEMMA MakeTrashDirKeeps ==
  ASSUME BaseInv, MoveInv, NEW p \in Procs, MakeTrashDir(p)
  PROVE  MoveInv'
<1>1. /\ pc[p] = "mkdir" /\ pc'[p] = "open_in" /\ mode'[p] = mode[p] /\ cwd'[p] = cwd[p]
      /\ \A q \in Procs \ {p} : LeavesAlone(q)
  BY DEF BaseInv, TypeOK, MakeTrashDir, Goto, LeavesAlone
<1>2. Together' /\ ~Mover(p)' /\ pc'[p] # "open_out"
  BY <1>1, StaysTogether DEF MoveInv, Running, Mover
<1>. QED BY <1>1, <1>2, QuietStep DEF MoveInv, MakeTrashDir, userVars

(* Source and target are the two places a command is about.                *)
LEMMA SourceAndTarget ==
  ASSUME BaseInv, NEW p \in Procs, Running(p)
  PROVE  /\ Source(p) \in Places /\ Target(p) \in Places /\ Source(p) # Target(p)
         /\ {Source(p), Target(p)} = {cwd[p], Trash}
<1>1. cwd[p] \in Dirs
  BY DEF BaseInv, CommandInv
<1>2. cwd[p] # Trash
  BY <1>1
<1>. QED BY <1>1, <1>2 DEF Source, Target, Places

(* What a command opens is the entry of its source at this moment.         *)
LEMMA OpenInKeeps ==
  ASSUME BaseInv, MoveInv, NEW p \in Procs, OpenIn(p)
  PROVE  MoveInv'
<1>1. CASE dirent[Source(p)] = Nothing
  BY <1>1, ExitKeeps DEF OpenIn
<1>2. CASE dirent[Source(p)] # Nothing
  <2>1. /\ pc[p] = "open_in" /\ pc'[p] = "open_out" /\ mode'[p] = mode[p] /\ cwd'[p] = cwd[p]
        /\ in_fd'[p] = dirent[Source(p)] /\ \A q \in Procs \ {p} : LeavesAlone(q)
    BY <1>2 DEF BaseInv, TypeOK, OpenIn, Goto, LeavesAlone
  <2>2. Together' /\ ~Mover(p)'
    BY <2>1, StaysTogether DEF MoveInv, Running, Mover
  <2>3. Source(p) \in {cwd'[p], Trash}
    BY <2>1 DEF Source
  <2>. QED BY <1>2, <2>1, <2>2, <2>3, QuietStep DEF MoveInv, OpenIn, userVars
<1>. QED BY <1>1, <1>2

(* While a file is moved nobody else can open an output: both places are   *)
(* taken.                                                                  *)
LEMMA NobodyMoves ==
  ASSUME BaseInv, MoveInv, NEW p \in Procs, Running(p), dirent[Target(p)] = Nothing
  PROVE  \A q \in Procs \ {p} : ~Mover(q)
<1>1. SUFFICES ASSUME NEW q \in Procs \ {p}, Mover(q) PROVE FALSE
  OBVIOUS
<1>2. Running(q)
  BY <1>1 DEF Mover, Running
<1>3. cwd[q] = cwd[p]
  BY <1>2 DEF MoveInv, Together
<1>4. dirent[Source(q)] # Nothing /\ dirent[Target(q)] # Nothing
  BY <1>1 DEF MoveInv, MoverInv, MovesRightly, BaseInv, CommandInv
<1>5. Target(p) \in {Source(q), Target(q)}
  BY <1>2, <1>3, SourceAndTarget
<1>. QED BY <1>4, <1>5

(* The target being free, what a command has opened is, or is equal to,    *)
(* the source's entry, and it is the only one to copy.                     *)
LEMMA OpenOutKeeps ==
  ASSUME BaseInv, MoveInv, NEW p \in Procs, OpenOut(p)
  PROVE  MoveInv'
<1>1. CASE CreatesAt(Target(p)) = Nothing
  BY <1>1, ExitKeeps DEF OpenOut
<1>2. CASE CreatesAt(Target(p)) # Nothing
  <2> DEFINE new == CreatesAt(Target(p))
             src == Source(p)
             tgt == Target(p)
  <2>0. TypeOK /\ CommandInv /\ MoverInv /\ ReaderInv /\ NothingLost /\ Running(p)
    BY DEF BaseInv, MoveInv, OpenOut, Running
  <2>1. /\ tgt \in Places /\ src \in Places /\ src # tgt /\ {src, tgt} = {cwd[p], Trash}
        /\ dirent[tgt] = Nothing /\ new \in Inodes /\ IsFree(new) /\ new # Nothing
    BY <1>2, <2>0, OpensOutput, SourceAndTarget DEF OpenOut
  <2>2. \A q \in Procs \ {p} : ~Mover(q)
    BY <2>0, <2>1, NobodyMoves
  <2>3. ~Mover(p) /\ in_fd[p] \in Inodes
    BY <2>0 DEF OpenOut, Mover, TypeOK, CommandInv
  <2>4. /\ pc[p] = "open_out" /\ pc'[p] = "copy" /\ mode'[p] = mode[p] /\ cwd'[p] = cwd[p]
        /\ in_fd'[p] = in_fd[p] /\ out_fd'[p] = new /\ \A q \in Procs \ {p} : LeavesAlone(q)
    BY <1>2, <2>0 DEF TypeOK, OpenOut, Goto, LeavesAlone
  <2>5. dirent' = [dirent EXCEPT ![tgt] = new]
    BY <1>2 DEF OpenOut
  <2>6. file' = [file EXCEPT ![new] = [doc |-> file[in_fd[p]].doc, len |-> 0]]
    BY <1>2 DEF OpenOut
  <2>7. dirent'[tgt] = new /\ \A pl \in Places \ {tgt} : dirent'[pl] = dirent[pl]
    BY <2>0, <2>1, <2>5 DEF TypeOK
  <2>8. /\ file'[new].doc = file[in_fd[p]].doc /\ file'[new].len = 0
        /\ \A i \in Inodes \ {new} : file'[i] = file[i]
    BY <2>0, <2>1, <2>6 DEF TypeOK
  <2>9. \A pl \in Places \ {tgt} : dirent[pl] # new
    BY <2>1 DEF IsFree
  <2>10. \A q \in Procs : in_fd[q] # new
    BY <2>1 DEF IsFree
  <2> HIDE DEF new, src, tgt
  <2>11. Together'
    BY <2>4, StaysTogether DEF MoveInv, Running
  <2>12. OneMover' /\ \A q \in Procs : Mover(q)' => q = p
    BY <2>2, <2>4 DEF OneMover, Mover, LeavesAlone
  <2>13. PICK pl \in {cwd[p], Trash} : OpenedIn(p, pl)
    BY <2>0, <2>4 DEF ReaderInv
  <2>14. pl = src
    BY <2>1, <2>13 DEF OpenedIn
  <2>15. dirent[src] # Nothing /\ file[in_fd[p]] = file[dirent[src]] /\ dirent[src] \in Inodes
    BY <2>0, <2>1, <2>13, <2>14 DEF OpenedIn, TypeOK
  <2>16. MovesRightly(p)'
    <3>1. Source(p)' = src /\ Target(p)' = tgt
      BY <2>4 DEF Source, Target, src, tgt
    <3>2. dirent'[src] = dirent[src] /\ dirent[src] # new
      BY <2>1, <2>7, <2>9
    <3>3. file'[in_fd[p]] = file[in_fd[p]] /\ file'[dirent[src]] = file[dirent[src]]
      BY <2>3, <2>8, <2>10, <2>15, <3>2
    <3>4. file[in_fd[p]].len \in 0 .. Blocks
      BY <2>0, <2>3 DEF TypeOK
    <3>5. file'[new].len <= file'[in_fd[p]].len
      BY <2>8, <3>3, <3>4
    <3>. QED BY <2>4, <2>7, <2>8, <2>10, <2>15, <3>1, <3>2, <3>3, <3>5 DEF MovesRightly
  <2>17. MoverInv'
    BY <2>12, <2>16 DEF MoverInv
  <2>18. ReaderInv'
    <3>. SUFFICES ASSUME NEW q \in Procs, pc'[q] = "open_out"
                  PROVE  \E place \in {cwd'[q], Trash} : OpenedIn(q, place)'
      BY DEF ReaderInv
    <3>1. q # p /\ LeavesAlone(q)
      BY <2>4
    <3>2. PICK place \in {cwd[q], Trash} : OpenedIn(q, place)
      BY <2>0, <3>1 DEF ReaderInv, LeavesAlone
    <3>3. place \in Places \ {tgt}
      BY <2>0, <2>1, <3>1, <3>2 DEF OpenedIn, CommandInv, Running, LeavesAlone, Places
    <3>4. in_fd[q] \in Inodes \ {new} /\ dirent[place] \in Inodes \ {new}
      BY <2>0, <2>9, <2>10, <3>1, <3>2, <3>3 DEF OpenedIn, TypeOK, CommandInv, LeavesAlone
    <3>5. \A i : Written(i)' => i = new
      BY <2>4, <2>12 DEF Written
    <3>6. /\ dirent'[place] = dirent[place] /\ in_fd'[q] = in_fd[q] /\ cwd'[q] = cwd[q]
          /\ file'[in_fd[q]] = file[in_fd[q]] /\ file'[dirent[place]] = file[dirent[place]]
      BY <2>7, <2>8, <3>1, <3>3, <3>4 DEF LeavesAlone
    <3>7. ~Written(in_fd[q])' /\ ~Written(dirent[place])'
      BY <3>4, <3>5, <3>6 DEF Written
    <3>. QED BY <3>2, <3>6, <3>7 DEF OpenedIn
  <2>19. NothingLost'
    <3>. SUFFICES ASSUME NEW doc \in live PROVE \E place \in Places : Holds(place, doc)'
      BY DEF NothingLost, OpenOut, userVars
    <3>1. PICK place \in Places : Holds(place, doc)
      BY <2>0 DEF NothingLost
    <3>2. place \in Places \ {tgt} /\ dirent[place] \in Inodes \ {new}
      BY <2>0, <2>1, <2>9, <3>1 DEF Holds, TypeOK
    <3>. QED BY <2>7, <2>8, <3>1, <3>2 DEF Holds
  <2>. QED BY <2>11, <2>12, <2>17, <2>18, <2>19 DEF MoveInv
<1>. QED BY <1>1, <1>2

(* The copy grows, and nobody relies on what it holds meanwhile.           *)
LEMMA CopyBlockKeeps ==
  ASSUME BaseInv, MoveInv, NEW p \in Procs, CopyBlock(p)
  PROVE  MoveInv'
<1> DEFINE new == out_fd[p]
<1>0. TypeOK /\ CommandInv /\ OneMover /\ MoverInv /\ ReaderInv /\ NothingLost
  BY DEF BaseInv, MoveInv
<1>1. /\ UNCHANGED <<dirent, pc, mode, cwd, in_fd, out_fd, unsaved, live>>
      /\ pc[p] = "copy" /\ Mover(p)
      /\ file' = [file EXCEPT ![new].len = file[new].len + 1]
  BY DEF CopyBlock, procVars, userVars, Mover
<1>2. new \in Inodes /\ in_fd[p] \in Inodes
  BY <1>0, <1>1 DEF TypeOK, CommandInv
<1>3. file[new].len \in 0 .. Blocks /\ file[in_fd[p]].len \in 0 .. Blocks
  BY <1>0, <1>2 DEF TypeOK
<1>4. file[new].len < file[in_fd[p]].len
  BY <1>3 DEF CopyBlock, AtEnd, Copied
<1>5. /\ file'[new].doc = file[new].doc /\ file'[new].len = file[new].len + 1
      /\ \A i \in Inodes \ {new} : file'[i] = file[i]
  BY <1>0, <1>1, <1>2 DEF TypeOK
<1>6. file[new].len # Blocks
  BY <1>3, <1>4
<1> HIDE DEF new
<1>7. Together' /\ OneMover' /\ \A i : Written(i)' <=> Written(i)
  BY <1>1 DEF MoveInv, Together, OneMover, Written, Running, Mover
<1>8. Written(new) /\ \A q \in Procs : Mover(q) => q = p
  BY <1>0, <1>1 DEF Written, OneMover, new
<1>9. MovesRightly(p)'
  <2>1. /\ dirent[Target(p)] = new /\ dirent[Source(p)] # Nothing
        /\ in_fd[p] # new /\ file[in_fd[p]] = file[dirent[Source(p)]]
        /\ file[new].doc = file[in_fd[p]].doc
    BY <1>0, <1>1 DEF MoverInv, MovesRightly, new
  <2>2. Source(p)' = Source(p) /\ Target(p)' = Target(p)
    BY <1>1 DEF Source, Target
  <2>3. Source(p) \in Places /\ Target(p) \in Places /\ Source(p) # Target(p)
    BY <1>1, SourceAndTarget DEF Running
  <2>4. dirent[Source(p)] \in Inodes \ {new}
    BY <1>0, <2>1, <2>3 DEF TypeOK, EntriesApart, BaseInv
  <2>5. file'[in_fd[p]] = file[in_fd[p]] /\ file'[dirent[Source(p)]] = file[dirent[Source(p)]]
    BY <1>2, <1>5, <2>1, <2>4
  <2>6. file'[new].len <= file'[in_fd[p]].len
    BY <1>3, <1>4, <1>5, <2>5
  <2>7. out_fd'[p] = new
    BY <1>1 DEF new
  <2>. QED BY <1>1, <1>5, <2>1, <2>2, <2>5, <2>6, <2>7 DEF MovesRightly
<1>10. MoverInv'
  BY <1>1, <1>8, <1>9 DEF MoverInv, Mover
<1>11. ReaderInv'
  <2>. SUFFICES ASSUME NEW q \in Procs, pc[q] = "open_out"
                PROVE  \E pl \in {cwd[q], Trash} : OpenedIn(q, pl)'
    BY <1>1 DEF ReaderInv
  <2>1. PICK pl \in {cwd[q], Trash} : OpenedIn(q, pl)
    BY <1>0 DEF ReaderInv
  <2>2. pl \in Places
    BY <1>0 DEF CommandInv, Running, Places
  <2>3. CASE in_fd[q] = dirent[pl]
    BY <1>1, <2>1, <2>3 DEF OpenedIn
  <2>4. CASE /\ file[in_fd[q]] = file[dirent[pl]]
             /\ ~Written(in_fd[q]) /\ ~Written(dirent[pl])
    <3>1. in_fd[q] \in Inodes \ {new} /\ dirent[pl] \in Inodes \ {new}
      BY <1>0, <1>8, <2>1, <2>2, <2>4 DEF OpenedIn, TypeOK, CommandInv
    <3>. QED BY <1>1, <1>5, <1>7, <2>1, <2>4, <3>1 DEF OpenedIn
  <2>. QED BY <2>1, <2>3, <2>4 DEF OpenedIn
<1>12. NothingLost'
  <2>. SUFFICES ASSUME NEW doc \in live PROVE \E pl \in Places : Holds(pl, doc)'
    BY <1>1 DEF NothingLost
  <2>1. PICK pl \in Places : Holds(pl, doc)
    BY <1>0 DEF NothingLost
  <2>2. dirent[pl] \in Inodes \ {new}
    BY <1>0, <1>6, <2>1 DEF Holds, TypeOK
  <2>. QED BY <1>1, <1>5, <2>1, <2>2 DEF Holds
<1>. QED BY <1>7, <1>10, <1>11, <1>12 DEF MoveInv

(* At the end of the input the copy is equal to the source.                *)
LEMMA CopyDoneKeeps ==
  ASSUME BaseInv, MoveInv, NEW p \in Procs, CopyDone(p)
  PROVE  MoveInv'
<1>0. TypeOK /\ CommandInv /\ OneMover /\ MoverInv /\ ReaderInv /\ NothingLost
  BY DEF BaseInv, MoveInv
<1>1. /\ UNCHANGED <<dirent, file, mode, cwd, out_fd, unsaved, live>>
      /\ pc[p] = "copy" /\ pc'[p] = "unlink" /\ Mover(p)
      /\ \A q \in Procs \ {p} : LeavesAlone(q)
  BY <1>0 DEF CopyDone, Goto, TypeOK, userVars, LeavesAlone, Mover
<1>2. \A q \in Procs : Mover(q)' <=> Mover(q)
  BY <1>1 DEF Mover, LeavesAlone
<1>3. Together' /\ OneMover' /\ \A i : Written(i)' <=> Written(i)
  <2>1. Together'
    BY <1>1, StaysTogether DEF MoveInv, Running
  <2>. QED BY <1>0, <1>1, <1>2, <2>1 DEF OneMover, Written
<1>4. MovesRightly(p)'
  <2>1. MovesRightly(p)
    BY <1>0, <1>1 DEF MoverInv
  <2>2. Source(p)' = Source(p) /\ Target(p)' = Target(p)
    BY <1>1 DEF Source, Target
  <2>3. in_fd[p] \in Inodes /\ out_fd[p] \in Inodes
    BY <1>0, <1>1 DEF TypeOK, CommandInv
  <2>4. /\ file[in_fd[p]] \in [doc : Docs \cup {"nobody"}, len : 0 .. Blocks]
        /\ file[out_fd[p]] \in [doc : Docs \cup {"nobody"}, len : 0 .. Blocks]
    BY <1>0, <2>3 DEF TypeOK
  <2>5. file[out_fd[p]].len = file[in_fd[p]].len
    <3>1. file[out_fd[p]].len >= file[in_fd[p]].len
      BY DEF CopyDone, AtEnd, Copied
    <3>2. file[out_fd[p]].len <= file[in_fd[p]].len
      BY <1>1, <2>1 DEF MovesRightly
    <3>. QED BY <2>4, <3>1, <3>2
  <2>6. file[out_fd[p]] = file[in_fd[p]]
    BY <1>1, <2>1, <2>4, <2>5 DEF MovesRightly
  <2>. QED BY <1>1, <2>1, <2>2, <2>6 DEF MovesRightly
<1>5. MoverInv'
  BY <1>0, <1>1, <1>2, <1>4 DEF MoverInv, OneMover
<1>6. ReaderInv'
  <2>. SUFFICES ASSUME NEW q \in Procs, pc'[q] = "open_out"
                PROVE  \E pl \in {cwd'[q], Trash} : OpenedIn(q, pl)'
    BY DEF ReaderInv
  <2>1. q # p /\ LeavesAlone(q)
    BY <1>1
  <2>. QED BY <1>0, <1>1, <1>3, <2>1 DEF ReaderInv, OpenedIn, LeavesAlone
<1>7. NothingLost'
  BY <1>0, <1>1 DEF NothingLost, Holds
<1>. QED BY <1>3, <1>5, <1>6, <1>7 DEF MoveInv

(* What is left of the pair when the source goes is a file equal to it.    *)
LEMMA UnlinkSourceKeeps ==
  ASSUME BaseInv, MoveInv, NEW p \in Procs, UnlinkSource(p)
  PROVE  MoveInv'
<1>0. TypeOK /\ CommandInv /\ OneMover /\ MoverInv /\ ReaderInv /\ NothingLost
  BY DEF BaseInv, MoveInv
<1>1. pc[p] = "unlink" /\ Mover(p) /\ Running(p) /\ Exit(p) /\ UNCHANGED <<file, unsaved, live>>
  BY DEF UnlinkSource, userVars, Mover, Running
<1>2. PICK src \in Places, tgt \in Places :
        src = Source(p) /\ tgt = Target(p) /\ src # tgt /\ {src, tgt} = {cwd[p], Trash}
  BY <1>1, SourceAndTarget
<1>3. \A pl \in Places \ {src} : dirent'[pl] = dirent[pl]
  BY <1>0, <1>2 DEF UnlinkSource, TypeOK
<1>4. dirent[tgt] # Nothing /\ file[dirent[tgt]] = file[dirent[src]]
  BY <1>0, <1>1, <1>2 DEF MoverInv, MovesRightly, CommandInv
<1>5. ~Running(p)' /\ ~Mover(p)' /\ pc'[p] # "open_out" /\ \A q \in Procs \ {p} : LeavesAlone(q)
  BY <1>0, <1>1, ExitCommand DEF LeavesAlone, Running
<1>6. Together'
  BY <1>5, StaysTogether DEF MoveInv
<1>7. (\A q \in Procs : ~Mover(q)') /\ (\A i : ~Written(i)')
  <2>1. \A q \in Procs : ~Mover(q)'
    BY <1>0, <1>1, <1>5 DEF OneMover, Mover, LeavesAlone
  <2>. QED BY <2>1 DEF Written
<1>8. OneMover' /\ MoverInv'
  BY <1>7 DEF OneMover, MoverInv
<1>9. ReaderInv'
  <2>. SUFFICES ASSUME NEW q \in Procs, pc'[q] = "open_out"
                PROVE  \E pl \in {cwd'[q], Trash} : OpenedIn(q, pl)'
    BY DEF ReaderInv
  <2>1. q # p /\ LeavesAlone(q)
    BY <1>5
  <2>2. PICK pl \in {cwd[q], Trash} : OpenedIn(q, pl)
    BY <1>0, <2>1 DEF ReaderInv, LeavesAlone
  <2>3. cwd[q] = cwd[p]
    BY <1>1, <2>1 DEF MoveInv, Together, Running, LeavesAlone
  <2>4. CASE pl = src
    <3>1. file[in_fd[q]] = file[dirent[tgt]]
      BY <1>4, <2>2, <2>4 DEF OpenedIn
    <3>2. OpenedIn(q, tgt)'
      BY <1>1, <1>2, <1>3, <1>4, <1>7, <2>1, <3>1 DEF OpenedIn, LeavesAlone
    <3>. QED BY <1>2, <2>1, <2>3, <3>2 DEF LeavesAlone
  <2>5. CASE pl = tgt
    <3>1. OpenedIn(q, tgt)'
      BY <1>1, <1>2, <1>3, <1>7, <2>1, <2>2, <2>5 DEF OpenedIn, LeavesAlone
    <3>. QED BY <1>2, <2>1, <2>3, <3>1 DEF LeavesAlone
  <2>. QED BY <1>2, <2>2, <2>3, <2>4, <2>5
<1>10. NothingLost'
  <2>. SUFFICES ASSUME NEW doc \in live PROVE \E pl \in Places : Holds(pl, doc)'
    BY <1>1 DEF NothingLost
  <2>1. PICK pl \in Places : Holds(pl, doc)
    BY <1>0 DEF NothingLost
  <2>2. CASE pl = src
    BY <1>1, <1>2, <1>3, <1>4, <2>1, <2>2 DEF Holds
  <2>3. CASE pl # src
    BY <1>1, <1>3, <2>1, <2>3 DEF Holds
  <2>. QED BY <2>2, <2>3
<1>. QED BY <1>6, <1>8, <1>9, <1>10 DEF MoveInv

(* Nothing else runs when a file is deleted, and what is deleted is no     *)
(* longer wanted.                                                          *)
LEMMA FinallyDeleteKeeps ==
  ASSUME BaseInv, MoveInv, NEW p \in Procs, FinallyDelete(p)
  PROVE  MoveInv'
<1>0. TypeOK /\ CommandInv /\ NothingLost /\ Running(p) /\ mode[p] = "remove"
  BY DEF BaseInv, MoveInv, FinallyDelete, CommandInv, Running
<1>1. ~Running(p)' /\ ~Mover(p)' /\ pc'[p] # "open_out" /\ \A q \in Procs \ {p} : LeavesAlone(q)
  BY <1>0, ExitCommand DEF FinallyDelete, LeavesAlone, Running
<1>2. \A q \in Procs : ~Running(q)'
  BY <1>0, <1>1 DEF MoveInv, Together, Running, LeavesAlone
<1>3. Together' /\ OneMover' /\ MoverInv' /\ ReaderInv'
  BY <1>2 DEF Together, OneMover, MoverInv, ReaderInv, Mover, Running
<1>4. NothingLost'
  <2>. SUFFICES ASSUME NEW doc \in live' PROVE \E pl \in Places : Holds(pl, doc)'
    BY DEF NothingLost
  <2>1. /\ doc \in live
        /\ dirent[Trash] # Nothing => file[dirent[Trash]].doc # doc
    BY DEF FinallyDelete
  <2>2. PICK pl \in Places : Holds(pl, doc)
    BY <1>0, <2>1 DEF NothingLost
  <2>3. pl # Trash
    BY <2>1, <2>2 DEF Holds
  <2>. QED BY <1>0, <2>2, <2>3 DEF Holds, FinallyDelete, TypeOK
<1>. QED BY <1>3, <1>4 DEF MoveInv

(* A saved file is one nobody has opened, where no command works.          *)
LEMMA SaveKeeps ==
  ASSUME BaseInv, MoveInv, NEW d \in Dirs, NEW saved \in Docs, Save(d, saved)
  PROVE  MoveInv'
<1> DEFINE new == NewInode
<1>0. TypeOK /\ CommandInv /\ MoverInv /\ ReaderInv /\ NothingLost
  BY DEF BaseInv, MoveInv
<1>1. d \in Places /\ dirent[d] = Nothing /\ new \in Inodes /\ IsFree(new)
  BY <1>0, FreeInode DEF Save, Places
<1>2. new # Nothing
  <2>1. Inodes = 1 .. Cardinality(Places) + 2 * Cardinality(Procs)
    BY DEF Inodes
  <2>. QED BY <1>1, <2>1 DEF Nothing
<1>3. /\ UNCHANGED <<pc, mode, cwd, in_fd, out_fd>>
      /\ dirent' = [dirent EXCEPT ![d] = new]
      /\ file' = [file EXCEPT ![new] = [doc |-> saved, len |-> Blocks]]
      /\ live' = live \cup {saved}
  BY DEF Save, procVars
<1>4. dirent'[d] = new /\ \A pl \in Places \ {d} : dirent'[pl] = dirent[pl]
  BY <1>0, <1>1, <1>3 DEF TypeOK
<1>5. /\ file'[new] = [doc |-> saved, len |-> Blocks]
      /\ \A i \in Inodes \ {new} : file'[i] = file[i]
  BY <1>0, <1>1, <1>3 DEF TypeOK
<1>6. /\ \A pl \in Places : dirent[pl] # new
      /\ \A q \in Procs : in_fd[q] # new /\ out_fd[q] # new
  BY <1>1 DEF IsFree
<1> HIDE DEF new
<1>7. Together' /\ OneMover' /\ \A i : Written(i)' <=> Written(i)
  BY <1>3 DEF MoveInv, Together, OneMover, Written, Running, Mover
<1>8. MoverInv'
  <2>. SUFFICES ASSUME NEW q \in Procs, Mover(q) PROVE MovesRightly(q)'
    BY <1>3 DEF MoverInv, Mover
  <2>1. MovesRightly(q) /\ out_fd[q] \in Inodes \ {new} /\ out_fd[q] # Nothing
    BY <1>0, <1>6 DEF MoverInv, TypeOK, CommandInv
  <2>2. Source(q)' = Source(q) /\ Target(q)' = Target(q)
    BY <1>3 DEF Source, Target
  <2>3. Source(q) \in Places \ {d} /\ Target(q) \in Places \ {d}
    BY <1>1, <2>1, SourceAndTarget DEF MovesRightly, Mover, Running
  <2>4. dirent[Source(q)] \in Inodes \ {new}
    BY <1>0, <1>6, <2>1, <2>3 DEF MovesRightly, TypeOK
  <2>5. pc[q] = "copy" => in_fd[q] \in Inodes \ {new}
    BY <1>0, <1>6 DEF TypeOK, CommandInv
  <2>. QED BY <1>3, <1>4, <1>5, <2>1, <2>2, <2>3, <2>4, <2>5 DEF MovesRightly
<1>9. ReaderInv'
  <2>. SUFFICES ASSUME NEW q \in Procs, pc[q] = "open_out"
                PROVE  \E pl \in {cwd[q], Trash} : OpenedIn(q, pl)'
    BY <1>3 DEF ReaderInv
  <2>1. PICK pl \in {cwd[q], Trash} : OpenedIn(q, pl)
    BY <1>0 DEF ReaderInv
  <2>2. pl \in Places \ {d}
    BY <1>0, <1>1, <2>1 DEF OpenedIn, CommandInv, Running, Places
  <2>3. in_fd[q] \in Inodes \ {new} /\ dirent[pl] \in Inodes \ {new}
    BY <1>0, <1>6, <2>1, <2>2 DEF OpenedIn, TypeOK, CommandInv
  <2>4. OpenedIn(q, pl)'
    BY <1>3, <1>4, <1>5, <1>7, <2>1, <2>2, <2>3 DEF OpenedIn
  <2>. QED BY <2>4
<1>10. NothingLost'
  <2>. SUFFICES ASSUME NEW doc \in live \cup {saved} PROVE \E pl \in Places : Holds(pl, doc)'
    BY <1>3 DEF NothingLost
  <2>1. CASE doc = saved
    BY <1>1, <1>2, <1>4, <1>5, <2>1 DEF Holds
  <2>2. CASE doc \in live
    <3>1. PICK pl \in Places : Holds(pl, doc)
      BY <1>0, <2>2 DEF NothingLost
    <3>2. pl \in Places \ {d} /\ dirent[pl] \in Inodes \ {new}
      BY <1>0, <1>1, <1>6, <3>1 DEF Holds, TypeOK
    <3>. QED BY <1>4, <1>5, <3>1, <3>2 DEF Holds
  <2>. QED BY <2>1, <2>2
<1>. QED BY <1>7, <1>8, <1>9, <1>10 DEF MoveInv

(* While the user takes care, every step keeps the movers in order.        *)
LEMMA StepMove == ASSUME ~Crossing PROVE BaseInv /\ MoveInv /\ [Next]_vars => MoveInv'
<1>. SUFFICES ASSUME BaseInv, MoveInv, [Next]_vars PROVE MoveInv'
  OBVIOUS
<1>1. ASSUME NEW p \in Procs, ProcStep(p) PROVE MoveInv'
  <2>1. ASSUME Fail(p) PROVE MoveInv'
    BY <2>1, ExitKeeps DEF Fail
  <2>. QED
    BY <1>1, <2>1, StartKeeps, MakeTrashDirKeeps, OpenInKeeps, OpenOutKeeps, CopyBlockKeeps,
       CopyDoneKeeps, UnlinkSourceKeeps, FinallyDeleteKeeps DEF ProcStep
<1>2. CASE UNCHANGED vars
  BY <1>2 DEF MoveInv, Together, OneMover, MoverInv, MovesRightly, ReaderInv, OpenedIn, Written,
     NothingLost, Holds, Mover, Running, Source, Target, vars, procVars, userVars
<1>. QED BY <1>1, <1>2, SaveKeeps DEF Next
-------------------------------------------------------------------------------
(* trashcan.c:131: no command writes to a file that was there before,      *)
(* whatever commands overlap, fail or are killed: O_EXCL makes each start  *)
(* from a file of its own.                                                 *)
THEOREM NothingOverwritten == Spec => NeverOverwrites
<1>1. ASSUME BaseInv, [Next]_vars, NEW pl \in Places, NEW doc \in Docs,
             Holds(pl, doc), dirent'[pl] = dirent[pl]
      PROVE  file'[dirent[pl]] = file[dirent[pl]]
  <2> DEFINE kept == dirent[pl]
  <2>0. TypeOK /\ CommandInv /\ kept \in Inodes /\ file[kept].len = Blocks
    BY <1>1 DEF BaseInv, Holds, TypeOK
  <2>1. ASSUME NEW i \in Inodes, NEW c, i # kept, file' = [file EXCEPT ![i] = c]
        PROVE  file'[kept] = file[kept]
    BY <2>0, <2>1 DEF TypeOK
  <2>2. ASSUME NEW p \in Procs, OpenOut(p) PROVE file'[kept] = file[kept]
    <3>1. CASE CreatesAt(Target(p)) = Nothing
      BY <2>2, <3>1 DEF OpenOut
    <3>2. CASE CreatesAt(Target(p)) # Nothing
      <4>1. CreatesAt(Target(p)) \in Inodes /\ CreatesAt(Target(p)) # kept
        BY <1>1, <2>2, <3>2, OpensOutput DEF OpenOut, IsFree
      <4>. QED BY <2>1, <2>2, <3>2, <4>1 DEF OpenOut
    <3>. QED BY <3>1, <3>2
  <2>3. ASSUME NEW p \in Procs, CopyBlock(p) PROVE file'[kept] = file[kept]
    <3>1. in_fd[p] \in Inodes /\ out_fd[p] \in Inodes
      BY <2>0, <2>3 DEF TypeOK, CommandInv, CopyBlock, Mover
    <3>2. file[in_fd[p]].len \in 0 .. Blocks /\ file[out_fd[p]].len \in 0 .. Blocks
      BY <2>0, <3>1 DEF TypeOK
    <3>3. file[out_fd[p]].len # Blocks
      BY <2>3, <3>2 DEF CopyBlock, AtEnd, Copied
    <3>4. out_fd[p] # kept
      BY <2>0, <3>3
    <3>. QED BY <2>1, <2>3, <3>1, <3>4 DEF CopyBlock
  <2>4. ASSUME NEW d \in Dirs, NEW saved \in Docs, Save(d, saved) PROVE file'[kept] = file[kept]
    <3>1. NewInode \in Inodes /\ NewInode # kept
      BY <2>0, <2>4, FreeInode DEF Save, Places, IsFree
    <3>. QED BY <2>1, <2>4, <3>1 DEF Save
  <2>5. ASSUME NEW p \in Procs,
               \/ \E m \in Commands, d \in Dirs : Start(p, m, d)
               \/ MakeTrashDir(p) \/ OpenIn(p) \/ CopyDone(p) \/ UnlinkSource(p)
               \/ FinallyDelete(p) \/ Fail(p)
        PROVE  file'[kept] = file[kept]
    BY <2>5 DEF Start, MakeTrashDir, OpenIn, CopyDone, UnlinkSource, FinallyDelete, Fail
  <2>. QED BY <1>1, <2>2, <2>3, <2>4, <2>5 DEF Next, ProcStep, vars
<1>2. BaseInv /\ [Next]_vars =>
        [\A pl \in Places, doc \in Docs :
           Holds(pl, doc) /\ dirent'[pl] = dirent[pl] => file'[dirent[pl]] = file[dirent[pl]]]_vars
  BY <1>1
<1>. QED BY <1>2, BaseInvariance, PTL DEF Spec, NeverOverwrites

(* As long as only puts and gets of one directory overlap, the movers stay *)
(* in order.                                                               *)
LEMMA MoveInvariance == ASSUME ~Crossing PROVE Spec => []MoveInv
<1>1. BaseInv /\ MoveInv /\ [Next]_vars => MoveInv'
  BY StepMove
<1>. QED BY <1>1, InitMove, BaseInvariance, PTL DEF Spec

(* Then each document is somewhere in full until it is removed from the    *)
(* trash, however the commands interleave and wherever they fail.          *)
THEOREM NothingEverLost == ASSUME ~Crossing PROVE Spec => []NothingLost
<1>1. MoveInv => NothingLost
  BY DEF MoveInv
<1>. QED BY <1>1, MoveInvariance, PTL

(* trashcan.c:71 and :89: then "Remove the original file" removes what was *)
(* copied, and only once the copy is complete.                             *)
THEOREM TheOriginalIsRemoved == ASSUME ~Crossing PROVE Spec => []RemovesTheOriginal
<1>1. MoveInv => RemovesTheOriginal
  <2>. SUFFICES ASSUME MoveInv, NEW p \in Procs, pc[p] = "unlink"
                PROVE  file[out_fd[p]] = file[dirent[Source(p)]]
    BY DEF RemovesTheOriginal, Copied
  <2>. QED BY DEF MoveInv, MoverInv, MovesRightly, Mover
<1>. QED BY <1>1, MoveInvariance, PTL
===============================================================================
