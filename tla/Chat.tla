---------------------------------- MODULE Chat --------------------------------
(***************************************************************************)
(* The programs of U08: either the TCP or the Unix-domain pair is run.     *)
(***************************************************************************)
EXTENDS TcpChat, UdsChat

\* The other pair is never started.
TcpOff == TcpStart(MaxRuns)
UdsOff == UdsStart(MaxServers, "done") /\ stdin = [c \in Senders |-> <<>>]

Init ==
  \/ TcpInit /\ UdsOff
  \/ UdsInit /\ TcpOff

Next ==
  \/ TcpNext /\ UNCHANGED udsVars
  \/ UdsNext /\ UNCHANGED tcpVars

Spec == Init /\ [][Next]_<<tcpVars, udsVars>> /\ TcpFairness /\ UdsFairness
===============================================================================
