------------------------------- MODULE PseudoTr -------------------------------
(***************************************************************************)
(* U11/pseudo-tr.c: a traceroute of two processes.  The parent sends one   *)
(* UDP packet per TTL; its child prints the sender of every ICMP packet    *)
(* that arrives and exits when the destination was among them; SIGCHLD     *)
(* tells the parent to stop.                                               *)
(*                                                                         *)
(* Modelled around them: a network that answers each probe at any later    *)
(* time or not at all, and other ICMP traffic to the host.  A router is    *)
(* known by its distance; Distance is the destination's.                   *)
(***************************************************************************)
EXTENDS Integers, SequencesExt

CONSTANTS
  MaxTtl,     \* MAX_TTL
  Distance,   \* hops to the destination
  Strangers,  \* senders of other ICMP traffic: hosts, perhaps the destination
  MaxStray,   \* bound: packets of other traffic
  Failing     \* which calls may fail: "socket", "recv", "send"

ASSUME TrAssumption ==
  /\ MaxTtl \in Nat \ {0} /\ Distance \in Nat \ {0} /\ MaxStray \in Nat
  /\ Failing \subseteq {"socket", "recv", "send"}

Hops == 1 .. Distance

VARIABLES
  canonical,  \* the argument is the address as inet_ntoa prints it; 127.1 is not
  \* the parent
  parent, ttl, got_SIGCHLD,
  late,       \* history: probes sent after the child has exited
  \* the child
  child, printed,
  \* the network
  probes,     \* TTLs of the probes on their way
  inbox,      \* senders of the packets queued at the child's raw socket
  stray       \* packets of other traffic so far

parentVars == <<parent, ttl, got_SIGCHLD, late>>
childVars  == <<child, printed>>
netVars    == <<probes, inbox, stray>>
vars       == <<canonical, parentVars, childVars, netVars>>

\* After fork.  The child has a socket to open, the parent a handler to install.
Init ==
  /\ canonical \in BOOLEAN
  /\ parent = "handler" /\ ttl = 1 /\ got_SIGCHLD = 0 /\ late = 0
  /\ child = "socket" /\ printed = <<>>
  /\ probes = {} /\ inbox = <<>> /\ stray = 0

ParentEnded == parent \in {"stopped", "done", "error"}
ChildEnded  == child \in {"reached", "error"}
-------------------------------------------------------------------------------
(* The parent.                                                             *)
InstallHandler ==
  /\ parent = "handler"
  /\ parent' = "socket"
  /\ UNCHANGED <<ttl, got_SIGCHLD, late, childVars, netVars>>

OpenOutSock ==
  /\ parent = "socket"
  /\ parent' \in {"check"} \cup (IF "socket" \in Failing THEN {"error"} ELSE {})
  /\ UNCHANGED <<ttl, got_SIGCHLD, late, childVars, netVars>>

\* The head of the loop: the last TTL, then the flag.
\* (FlagIgnored and OneMoreTtl are a loop without the test and one that ends
\* late.)
FlagIgnored == FALSE
ToldToStop  == got_SIGCHLD = 1
OneMoreTtl  == ttl > MaxTtl + 1
PastMaxTtl  == ttl > MaxTtl
CheckLoop ==
  /\ parent = "check"
  /\ parent' = IF PastMaxTtl THEN "done" ELSE IF ToldToStop THEN "stopped" ELSE "send"
  /\ UNCHANGED <<ttl, got_SIGCHLD, late, childVars, netVars>>

SendProbe ==
  /\ parent = "send"
  /\ \/ /\ probes' = probes \cup {ttl}
        /\ late' = IF ChildEnded THEN late + 1 ELSE late
        /\ parent' = "sleep"
     \/ /\ "send" \in Failing
        /\ parent' = "error"
        /\ UNCHANGED <<probes, late>>
  /\ UNCHANGED <<ttl, got_SIGCHLD, childVars, inbox, stray>>

\* sleep(1), which SIGCHLD cuts short.
Wake ==
  /\ parent = "sleep"
  /\ ttl' = ttl + 1
  /\ parent' = "check"
  /\ UNCHANGED <<got_SIGCHLD, late, childVars, netVars>>
-------------------------------------------------------------------------------
(* The child.  Its exit raises SIGCHLD in the parent, which ignores the    *)
(* signal until its handler is installed.                                  *)
\* (OnlyInSleep is a handler that is installed around sleep alone.)
OnlyInSleep      == parent = "sleep"
HandlerInstalled == parent # "handler"

ChildExit(how) ==
  /\ child' = how
  /\ got_SIGCHLD' = IF HandlerInstalled THEN 1 ELSE got_SIGCHLD

OpenInSock ==
  /\ child = "socket"
  /\ \/ child' = "recv" /\ UNCHANGED got_SIGCHLD
     \/ "socket" \in Failing /\ ChildExit("error")
  /\ UNCHANGED <<parent, ttl, late, printed, netVars>>

\* Print the sender, stop if it is the destination: its address, printed, is
\* compared with the argument as text.  (IsOther reads the result of strcmp the
\* other way round.)
IsOther(from)       == ~(canonical /\ from = Distance)
IsDestination(from) == canonical /\ from = Distance
Receive ==
  /\ child = "recv" /\ inbox # <<>>
  /\ inbox' = Tail(inbox)
  /\ printed' = Append(printed, Head(inbox))
  /\ IF IsDestination(Head(inbox)) THEN ChildExit("reached")
     ELSE UNCHANGED <<child, got_SIGCHLD>>
  /\ UNCHANGED <<parent, ttl, late, probes, stray>>

\* The length passed to the first recvfrom is not initialised: with a
\* negative one the call fails although a packet was there.
ReceiveFails ==
  /\ child = "recv" /\ inbox # <<>> /\ printed = <<>>
  /\ "recv" \in Failing
  /\ ChildExit("error")
  /\ UNCHANGED <<parent, ttl, late, printed, netVars>>
-------------------------------------------------------------------------------
(* The network.  The kernel queues ICMP packets for an open raw socket.    *)
Deliver(from) == inbox' = IF child = "recv" THEN Append(inbox, from) ELSE inbox

Answer(t) ==
  /\ t \in probes
  /\ probes' = probes \ {t}
  /\ Deliver(Min({t, Distance}))
  /\ UNCHANGED <<parentVars, childVars, stray>>

Lose(t) ==
  /\ t \in probes
  /\ probes' = probes \ {t}
  /\ UNCHANGED <<parentVars, childVars, inbox, stray>>

OtherTraffic(from) ==
  /\ stray < MaxStray
  /\ stray' = stray + 1
  /\ Deliver(from)
  /\ UNCHANGED <<parentVars, childVars, probes>>
-------------------------------------------------------------------------------
ParentStep ==
  /\ InstallHandler \/ OpenOutSock \/ CheckLoop \/ SendProbe \/ Wake
  /\ UNCHANGED canonical
ChildStep ==
  /\ OpenInSock \/ Receive \/ ReceiveFails
  /\ UNCHANGED canonical
Network ==
  /\ \/ \E t \in probes : Answer(t) \/ Lose(t)
     \/ \E from \in Strangers : OtherTraffic(from)
  /\ UNCHANGED canonical

Next == ParentStep \/ ChildStep \/ Network

Spec     == Init /\ [][Next]_vars
\* The scheduler runs both processes; the network owes nothing.
FairSpec == Spec /\ WF_vars(ParentStep) /\ WF_vars(ChildStep)
-------------------------------------------------------------------------------
Senders == Hops \cup Strangers

TypeOK ==
  /\ canonical \in BOOLEAN
  /\ parent \in {"handler", "socket", "check", "send", "sleep", "stopped", "done", "error"}
  /\ ttl \in 1 .. MaxTtl + 1 /\ got_SIGCHLD \in {0, 1} /\ late \in Nat
  /\ child \in {"socket", "recv", "reached", "error"}
  /\ printed \in Seq(Senders)
  /\ probes \in SUBSET (1 .. MaxTtl)
  /\ inbox \in Seq(Senders) /\ stray \in 0 .. MaxStray

(* Whenever the child was able to tell the parent, the parent sends at     *)
(* most the one probe it was about to send when the child exited.          *)
AtMostOneMoreProbe == got_SIGCHLD = 1 => late <= 1

(* The parent does not miss that the child has reached the destination,    *)
(* although the handler is installed only after fork: unless other traffic *)
(* ends the child, a probe must have been sent before, with a large enough *)
(* TTL.                                                                    *)
ReachedIsNoticed ==
  child = "reached" /\ Distance \notin Strangers =>
    got_SIGCHLD = 1 /\ ttl >= Distance

(* Once the destination's answer to a probe is queued, both processes end, *)
(* the parent after one probe more at most than it had sent when the child *)
(* did, if the argument is spelled as inet_ntoa would; the child waits for *)
(* ever if it is not.                                                      *)
AnswerEndsBoth ==
  canonical /\ Distance \in ToSet(inbox) ~> ParentEnded /\ ChildEnded /\ late <= 1
===============================================================================
