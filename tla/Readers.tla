-------------------------------- MODULE Readers -------------------------------
(***************************************************************************)
(* The programs of U01, U06 and U07: any one of them is run on any input.  *)
(***************************************************************************)
EXTENDS Wc, Cat, PseudoGrep, MultTest, DriveLs

vars == <<streamVars, wcVars, catVars, grepVars, multVars, lsVars>>

Init ==
  \/ WcInit   /\ CatIdle /\ GrepIdle /\ MultIdle /\ LsIdle
  \/ CatInit  /\ WcZero  /\ GrepIdle /\ MultIdle /\ LsIdle
  \/ GrepInit /\ WcZero  /\ CatIdle  /\ MultIdle /\ LsIdle
  \/ MultInit /\ WcZero  /\ CatIdle  /\ GrepIdle /\ LsIdle
  \/ LsInit   /\ WcZero  /\ CatIdle  /\ GrepIdle /\ MultIdle

Next ==
  \/ WcStep   /\ UNCHANGED <<catVars, grepVars, multVars, lsVars>>
  \/ CatStep  /\ UNCHANGED <<wcVars, grepVars, multVars, lsVars>>
  \/ GrepStep /\ UNCHANGED <<wcVars, catVars, multVars, lsVars>>
  \/ MultStep /\ UNCHANGED <<wcVars, catVars, grepVars, lsVars>>
  \/ LsStep   /\ UNCHANGED <<wcVars, catVars, grepVars, multVars>>

Spec == Init /\ [][Next]_vars /\ WF_vars(Next)

(* Every run ends: grep goes back in its stream again and again, but no    *)
(* input makes it read the same bytes for ever; directories of an image    *)
(* may contain each other, and chains of clusters be as long as they like, *)
(* but for a chain that is a cycle, which drive-ls may follow for ever.    *)
EveryRunEnds ==
  pc \in {"read", "print", "ls", "next", "entry"} ~>
    pc \in {"exit_ok", "exit_error", "not_found", "crashed"} \/ GoesRound
===============================================================================
