------------------------------ MODULE MCPseudoTr ------------------------------
(* PseudoTr on a short route. *)
EXTENDS PseudoTr
===============================================================================
