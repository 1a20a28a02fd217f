---------------------------- MODULE PseudoTrProofs ----------------------------
(***************************************************************************)
(* Theorems about PseudoTr, for every length of the route, every TTL limit *)
(* and whatever calls fail.                                                *)
(***************************************************************************)
EXTENDS PseudoTr, ListLemmas

(* Probes are sent by a parent with a handler, with the TTLs so far.       *)
ProbesInv ==
  /\ \A t \in probes : t <= ttl /\ HandlerInstalled
  /\ ttl <= MaxTtl + 1 /\ (parent \in {"send", "sleep"} => ttl <= MaxTtl)

(* A packet of the destination in the queue answers one of these probes.   *)
AnswersInv ==
  Distance \notin Strangers =>
    \A i \in DOMAIN inbox : inbox[i] = Distance => ttl >= Distance /\ HandlerInstalled

(* What the exit of the child means to the parent: until then no probe is  *)
(* late, and one that is late was being sent already.                      *)
ExitInv ==
  /\ ~ChildEnded => late = 0 /\ got_SIGCHLD = 0
  /\ got_SIGCHLD = 1 => late <= 1 /\ (parent = "send" => late = 0)

IInv == TypeOK /\ ProbesInv /\ AnswersInv /\ ExitInv /\ ReachedIsNoticed
-------------------------------------------------------------------------------
(* The lesser of a TTL and the distance is a hop, and the destination only *)
(* if the TTL was large enough.                                            *)
LEMMA AnsweringHop ==
  ASSUME NEW t \in Nat \ {0}
  PROVE  Min({t, Distance}) \in Hops /\ (Min({t, Distance}) = Distance => t >= Distance)
BY MinOfNats, TrAssumption DEF Hops

(* The initial state satisfies the invariant.                              *)
LEMMA InitIInv == Init => IInv
<1>1. Init => TypeOK
  BY TrAssumption DEF Init, TypeOK
<1>2. Init => ProbesInv /\ AnswersInv
  BY TrAssumption DEF Init, ProbesInv, AnswersInv
<1>3. Init => ExitInv /\ ReachedIsNoticed
  BY DEF Init, ExitInv, ReachedIsNoticed, ChildEnded
<1>. QED BY <1>1, <1>2, <1>3 DEF IInv

(* Packets that join the queue: those of other traffic are not the         *)
(* destination's unless it is a stranger.                                  *)
LEMMA Delivery ==
  ASSUME IInv, NEW from \in Senders, Deliver(from)
  PROVE  /\ inbox' \in Seq(Senders)
         /\ \A i \in DOMAIN inbox' : inbox'[i] = from \/ (i \in DOMAIN inbox /\ inbox'[i] = inbox[i])
<1>1. inbox \in Seq(Senders)
  BY DEF IInv, TypeOK
<1>2. CASE child = "recv"
  BY <1>1, <1>2 DEF Deliver
<1>3. CASE child # "recv"
  BY <1>1, <1>3 DEF Deliver
<1>. QED BY <1>2, <1>3

(* The parent's steps keep the invariant.                                  *)
LEMMA ParentKeepsIInv ==
  ASSUME IInv, ParentStep
  PROVE  IInv'
<1>. USE TrAssumption
<1>0. canonical' = canonical /\ canonical \in BOOLEAN
  BY DEF ParentStep, IInv, TypeOK
<1>1. CASE InstallHandler
  BY <1>0, <1>1 DEF InstallHandler, childVars, netVars, IInv, TypeOK, ProbesInv, AnswersInv, ExitInv,
     ReachedIsNoticed, ChildEnded, HandlerInstalled
<1>2. CASE OpenOutSock
  BY <1>0, <1>2 DEF OpenOutSock, childVars, netVars, IInv, TypeOK, ProbesInv, AnswersInv, ExitInv,
     ReachedIsNoticed, ChildEnded, HandlerInstalled
<1>3. CASE CheckLoop
  BY <1>0, <1>3 DEF CheckLoop, ToldToStop, PastMaxTtl, childVars, netVars, IInv, TypeOK, ProbesInv,
     AnswersInv, ExitInv, ReachedIsNoticed, ChildEnded, HandlerInstalled
<1>4. CASE SendProbe
  <2>0. /\ ttl \in 1 .. MaxTtl /\ late \in Nat /\ parent' \in {"sleep", "error"}
        /\ probes' \in {probes, probes \cup {ttl}} /\ late' \in {late, late + 1}
    BY <1>4 DEF SendProbe, IInv, TypeOK, ProbesInv
  <2>1. TypeOK'
    <3>1. probes' \in SUBSET (1 .. MaxTtl)
      BY <2>0 DEF IInv, TypeOK
    <3>. QED BY <1>0, <1>4, <2>0, <3>1 DEF SendProbe, childVars, IInv, TypeOK
  <2>2. ProbesInv'
    <3>1. \A t \in probes' : t <= ttl /\ HandlerInstalled'
      BY <1>4, <2>0 DEF SendProbe, IInv, ProbesInv, HandlerInstalled
    <3>. QED BY <1>4, <2>0, <3>1 DEF SendProbe, ProbesInv
  <2>3. AnswersInv'
    BY <1>4 DEF SendProbe, IInv, AnswersInv, HandlerInstalled
  <2>4. ExitInv'
    BY <1>4 DEF SendProbe, childVars, IInv, TypeOK, ExitInv, ChildEnded
  <2>5. ReachedIsNoticed'
    BY <1>4 DEF SendProbe, childVars, IInv, ReachedIsNoticed
  <2>. QED BY <2>1, <2>2, <2>3, <2>4, <2>5 DEF IInv
<1>5. CASE Wake
  BY <1>0, <1>5 DEF Wake, childVars, netVars, IInv, TypeOK, ProbesInv,
     AnswersInv, ExitInv, ReachedIsNoticed, ChildEnded, HandlerInstalled
<1>. QED BY <1>1, <1>2, <1>3, <1>4, <1>5 DEF ParentStep

(* The child's steps keep it: it stops at the destination's packet, which  *)
(* answers a probe that was sent by a parent with a handler.               *)
LEMMA ChildKeepsIInv ==
  ASSUME IInv, ChildStep
  PROVE  IInv'
<1>. USE TrAssumption
<1>0. canonical' = canonical /\ canonical \in BOOLEAN
  BY DEF ChildStep, IInv, TypeOK
<1>1. CASE OpenInSock
  BY <1>0, <1>1 DEF OpenInSock, ChildExit, netVars, IInv, TypeOK, ProbesInv, AnswersInv, ExitInv,
     ReachedIsNoticed, ChildEnded, HandlerInstalled
<1>2. CASE Receive
  <2>1. inbox \in Seq(Senders) /\ inbox # <<>> /\ inbox' = Tail(inbox)
    BY <1>2 DEF Receive, IInv, TypeOK
  <2>2. Head(inbox) \in Senders /\ Head(inbox) = inbox[1] /\ 1 \in DOMAIN inbox
    BY <2>1
  <2>3. inbox' \in Seq(Senders) /\ \A i \in DOMAIN inbox' : i + 1 \in DOMAIN inbox /\ inbox'[i] = inbox[i + 1]
    BY <2>1
  <2>4. printed' \in Seq(Senders)
    BY <1>2, <2>2 DEF Receive, IInv, TypeOK
  <2>5. TypeOK'
    BY <1>0, <1>2, <2>3, <2>4 DEF Receive, ChildExit, IInv, TypeOK, Senders
  <2>6. ProbesInv'
    BY <1>2 DEF Receive, IInv, ProbesInv, HandlerInstalled
  <2>7. AnswersInv'
    BY <1>2, <2>3 DEF Receive, IInv, AnswersInv, HandlerInstalled
  <2>8. ExitInv'
    BY <1>2 DEF Receive, ChildExit, IInv, ExitInv, ChildEnded, TypeOK
  <2>9. ReachedIsNoticed'
    BY <1>2, <2>2 DEF Receive, ChildExit, IsDestination, IInv, AnswersInv, ReachedIsNoticed
  <2>. QED BY <2>5, <2>6, <2>7, <2>8, <2>9 DEF IInv
<1>3. CASE ReceiveFails
  BY <1>0, <1>3 DEF ReceiveFails, ChildExit, netVars, IInv, TypeOK, ProbesInv, AnswersInv, ExitInv,
     ReachedIsNoticed, ChildEnded, HandlerInstalled
<1>. QED BY <1>1, <1>2, <1>3 DEF ChildStep

(* The network keeps it: what it delivers for the destination answers a    *)
(* probe with a large enough TTL.                                          *)
LEMMA NetworkKeepsIInv ==
  ASSUME IInv, Network
  PROVE  IInv'
<1>. USE TrAssumption
<1>0. canonical' = canonical /\ canonical \in BOOLEAN
  BY DEF Network, IInv, TypeOK
<1>1. ASSUME NEW t \in probes, Answer(t) PROVE IInv'
  <2>1. t \in Nat \ {0} /\ t <= ttl /\ HandlerInstalled /\ ttl \in Nat
    BY <1>1 DEF IInv, TypeOK, ProbesInv
  <2>2. /\ Min({t, Distance}) \in Senders
        /\ Min({t, Distance}) = Distance => t >= Distance
    BY <2>1, AnsweringHop DEF Senders
  <2>3. /\ inbox' \in Seq(Senders)
        /\ \A i \in DOMAIN inbox' :
             inbox'[i] = Min({t, Distance}) \/ (i \in DOMAIN inbox /\ inbox'[i] = inbox[i])
    BY <1>1, <2>2, Delivery DEF Answer
  <2>4. TypeOK'
    BY <1>0, <1>1, <2>3 DEF Answer, parentVars, childVars, IInv, TypeOK, Senders
  <2>5. ProbesInv'
    BY <1>1 DEF Answer, parentVars, IInv, ProbesInv, HandlerInstalled
  <2>6. AnswersInv'
    <3>1. SUFFICES ASSUME Distance \notin Strangers, NEW i \in DOMAIN inbox', inbox'[i] = Distance
                   PROVE  ttl >= Distance /\ HandlerInstalled
      BY <1>1 DEF Answer, parentVars, AnswersInv, HandlerInstalled
    <3>2. CASE inbox'[i] = Min({t, Distance})
      BY <2>1, <2>2, <3>1, <3>2
    <3>3. CASE i \in DOMAIN inbox /\ inbox'[i] = inbox[i]
      BY <3>1, <3>3 DEF IInv, AnswersInv
    <3>. QED BY <2>3, <3>2, <3>3
  <2>7. ExitInv' /\ ReachedIsNoticed'
    BY <1>1 DEF Answer, parentVars, childVars, IInv, ExitInv, ReachedIsNoticed, ChildEnded
  <2>. QED BY <2>4, <2>5, <2>6, <2>7 DEF IInv
<1>2. ASSUME NEW t \in probes, Lose(t) PROVE IInv'
  BY <1>0, <1>2 DEF Lose, parentVars, childVars, IInv, TypeOK, ProbesInv, AnswersInv, ExitInv,
     ReachedIsNoticed, ChildEnded, HandlerInstalled
<1>3. ASSUME NEW from \in Strangers, OtherTraffic(from) PROVE IInv'
  <2>1. /\ inbox' \in Seq(Senders)
        /\ \A i \in DOMAIN inbox' :
             inbox'[i] = from \/ (i \in DOMAIN inbox /\ inbox'[i] = inbox[i])
    BY <1>3, Delivery DEF OtherTraffic, Senders
  <2>2. TypeOK'
    BY <1>0, <1>3, <2>1 DEF OtherTraffic, parentVars, childVars, IInv, TypeOK, Senders
  <2>3. ProbesInv'
    BY <1>3 DEF OtherTraffic, parentVars, IInv, ProbesInv, HandlerInstalled
  <2>4. AnswersInv'
    BY <1>3, <2>1 DEF OtherTraffic, parentVars, IInv, AnswersInv, HandlerInstalled
  <2>5. ExitInv' /\ ReachedIsNoticed'
    BY <1>3 DEF OtherTraffic, parentVars, childVars, IInv, ExitInv, ReachedIsNoticed, ChildEnded
  <2>. QED BY <2>2, <2>3, <2>4, <2>5 DEF IInv
<1>. QED BY <1>1, <1>2, <1>3 DEF Network

(* IInv is inductive.                                                      *)
THEOREM Invariance == Spec => []IInv
<1>1. ASSUME IInv, UNCHANGED vars PROVE IInv'
  BY <1>1 DEF vars, parentVars, childVars, netVars, IInv, TypeOK, ProbesInv, AnswersInv, ExitInv,
     ReachedIsNoticed, ChildEnded, HandlerInstalled
<1>2. IInv /\ [Next]_vars => IInv'
  BY <1>1, ParentKeepsIInv, ChildKeepsIInv, NetworkKeepsIInv DEF Next
<1>. QED BY InitIInv, <1>2, PTL DEF Spec

(* Every variable keeps its type; no TTL beyond MAX_TTL is sent.           *)
THEOREM TypeCorrect == Spec => []TypeOK
<1>1. IInv => TypeOK
  BY DEF IInv
<1>. QED BY Invariance, <1>1, PTL

(* Once it is told to stop, the parent sends one more probe at most.       *)
THEOREM StopsInTime == Spec => []AtMostOneMoreProbe
<1>1. IInv => AtMostOneMoreProbe
  BY DEF IInv, ExitInv, AtMostOneMoreProbe
<1>. QED BY Invariance, <1>1, PTL

(* Installing the handler after fork cannot make the parent miss that the  *)
(* destination was reached.                                                *)
THEOREM SignalNotMissed == Spec => []ReachedIsNoticed
<1>1. IInv => ReachedIsNoticed
  BY DEF IInv
<1>. QED BY Invariance, <1>1, PTL
===============================================================================
