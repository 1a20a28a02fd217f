--------------------------- MODULE HttpServerProofs ---------------------------
(***************************************************************************)
(* Theorems about U09/http-server.c for every number of connections, every *)
(* MAX_CLIENT_CNT, backlog and descriptor limit: IInv is inductive, and    *)
(* the safety properties of HttpServerProps follow from it.                *)
(***************************************************************************)
EXTENDS HttpServerInv, ListLemmas

(* What the assumptions on the constants give: connections are none of the *)
(* other values in their columns, and descriptors are natural numbers.     *)
LEMMA ConstFacts ==
  /\ SockFd \in Fds /\ NoFd \notin Fds /\ Fds \subseteq Nat /\ Fds \subseteq Int
  /\ \A c \in Conns : c \notin {"free", "listener", "file", "nobody", "garbage"}
  /\ MaxClientCnt \in Nat \ {0} /\ MaxChunks \in Nat
  /\ \A c \in Conns : Asks[c] \subseteq AllKinds
  /\ StackHolds \subseteq {"nobody", "garbage"}
<1>1. SockFd \in Fds /\ NoFd \notin Fds /\ Fds \subseteq Nat /\ Fds \subseteq Int
  BY ConstAssumption DEF SockFd, NoFd, Fds
<1>2. \A c \in Conns : c \notin {"free", "listener", "file", "nobody", "garbage"}
  BY ConstAssumption
<1>3. MaxClientCnt \in Nat \ {0} /\ MaxChunks \in Nat /\ StackHolds \subseteq {"nobody", "garbage"}
  BY ConstAssumption
<1>4. \A c \in Conns : Asks[c] \subseteq AllKinds
  BY ConstAssumption
<1>. QED BY <1>1, <1>2, <1>3, <1>4

(* Whole requests are requests. *)
LEMMA WholeAreKinds == WholeKinds \subseteq AllKinds
BY ConstFacts DEF WholeKinds

(* The descriptor that accept and fopen return is free.                    *)
LEMMA LowestFdIsFree ==
  FreeFds # {} => LowestFd \in FreeFds
BY ConstFacts, MinOfNats DEF FreeFds, LowestFd

(* Removing a client from a list of distinct descriptors leaves the others.*)
LEMMA RemovalFromDistinct ==
  ASSUME NEW s \in Seq(Fds \cup {NoFd}), Distinct(s), NEW fd \in Fds, fd \in ToSet(s)
  PROVE  /\ RemoveFirst(s, fd) \in Seq(Fds \cup {NoFd})
         /\ Len(RemoveFirst(s, fd)) = Len(s) - 1
         /\ ToSet(RemoveFirst(s, fd)) = ToSet(s) \ {fd}
         /\ Distinct(RemoveFirst(s, fd))
<1>1. fd # NoFd
  BY ConstFacts
<1>2. DistinctBut(NoFd, s)
  BY DEF Distinct, DistinctBut
<1>3. /\ RemoveFirst(s, fd) \in Seq(Fds \cup {NoFd})
      /\ Len(RemoveFirst(s, fd)) = Len(s) - 1
      /\ ToSet(RemoveFirst(s, fd)) = ToSet(s) \ {fd}
      /\ DistinctBut(NoFd, RemoveFirst(s, fd))
  BY <1>1, <1>2, RemoveFirstElements
<1>. QED BY <1>3 DEF Distinct, DistinctBut

-------------------------------------------------------------------------------
(* What holds when the walk looks at a readable client: it is a registered *)
(* connection, and the nodes behind it are other clients.                  *)
LEMMA VisitFacts ==
  ASSUME IInv, pc = "visit", NEW fd \in Fds, IsReady(fd)
  PROVE  /\ to_visit # <<>> /\ Head(to_visit) = fd
         /\ fd \in ToSet(client_fds) /\ fdtab[fd] \in Conns
         /\ Distinct(Tail(to_visit)) /\ fd \notin ToSet(Tail(to_visit))
         /\ ToSet(Tail(to_visit)) \subseteq ToSet(to_visit)
<1>1. to_visit # <<>> /\ Head(to_visit) = fd
  BY DEF IsReady
<1>2. to_visit \in Seq(Fds \cup {NoFd})
  BY DEF IInv, TypeOK
<1>3. Distinct(to_visit) /\ ToSet(to_visit) \subseteq ToSet(client_fds)
  BY DEF IInv, WalkInv, WalkableFrom, Remaining, InHandler
<1>4. fd \in ToSet(to_visit)
  BY <1>1, <1>2 DEF ToSet
<1>5. fdtab[fd] \in Conns
  BY <1>3, <1>4, ConstFacts DEF IInv, ListInv, Clients, Running
<1>6. /\ Len(Tail(to_visit)) = Len(to_visit) - 1
      /\ \A i \in 1 .. Len(to_visit) - 1 : Tail(to_visit)[i] = to_visit[i + 1]
      /\ Tail(to_visit) \in Seq(Fds \cup {NoFd})
  BY <1>1, <1>2
<1>7. Distinct(Tail(to_visit))
  BY <1>2, <1>3, <1>6 DEF Distinct
<1>8. ToSet(Tail(to_visit)) \subseteq ToSet(to_visit)
  BY <1>2, <1>6 DEF ToSet
<1>9. fd \notin ToSet(Tail(to_visit))
  BY <1>1, <1>2, <1>3, <1>6, ConstFacts DEF ToSet, Distinct
<1>. QED BY <1>1, <1>3, <1>4, <1>5, <1>7, <1>8, <1>9
-------------------------------------------------------------------------------
(* A send leaves a record of messages behind, whether it succeeds or not.  *)
LEMMA SendType ==
  ASSUME TypeOK, NEW what \in {"header", "chunk", "status"},
         SendOk(what) \/ SendFails
  PROVE  reply' \in [Conns -> Seq({"header", "chunk", "status"})]
<1>1. reply \in [Conns -> Seq({"header", "chunk", "status"})]
  BY DEF TypeOK
<1>2. CASE SendFails
  BY <1>1, <1>2 DEF SendFails
<1>3. CASE SendOk(what)
  BY <1>1, <1>3 DEF SendOk
<1>. QED BY <1>2, <1>3

(* Every variable keeps its type. *)
LEMMA TypeStep ==
  ASSUME IInv, [Next]_vars
  PROVE  TypeOK'
<1> USE DEF TypeOK, procVars, handlerVars, netVars
<1> TypeOK
  BY DEF IInv
<1>1. CASE Register
  BY <1>1, ConstFacts DEF Register, Watched, ToSet
<1>2. CASE PselectReady
  BY <1>2 DEF PselectReady, Selected
<1>3. CASE PselectInterrupted
  BY <1>3 DEF PselectInterrupted
<1>4. CASE Shutdown
  BY <1>4 DEF Shutdown
<1>5. CASE AcceptClient
  <2>1. SockFd \in readfds /\ fdtab[SockFd] = "listener" /\ backlog # <<>>
    BY <1>5, ConstFacts
    DEF AcceptClient, MayAccept, ShuttingDown, IInv, WalkInv, KernelInv, Readable, Running
  <2> DEFINE fd == IF FreeFds = {} THEN NoFd ELSE LowestFd
  <2>2. fd \in Fds \cup {NoFd} /\ fd \in Int /\ (FreeFds # {} => fd \in Fds)
    <3>1. FreeFds # {} => LowestFd \in Fds
      <4>1. FreeFds \subseteq Fds
        BY DEF FreeFds
      <4>. QED BY <4>1, LowestFdIsFree
    <3>2. NoFd \in Int
      BY DEF NoFd
    <3>. QED BY <3>1, <3>2, ConstFacts
  <2>3. client_fds' \in Seq(Fds \cup {NoFd}) /\ client_fds' = <<fd>> \o client_fds
    BY <1>5, <2>2 DEF AcceptClient
  <2>4. max_fd' \in Fds
    <3>1. max_fd \in Fds /\ max_fd \in Int /\ SockFd \in Int /\ max_fd >= SockFd
      BY ConstFacts DEF Fds, SockFd
    <3>2. max_fd' = Max({max_fd, fd})
      BY <1>5 DEF AcceptClient, HighestFd
    <3>3. max_fd' \in {max_fd, fd} /\ max_fd' >= max_fd
      BY <2>2, <3>1, <3>2, MaxOfTwo
    <3>. QED BY <2>2, <3>1, <3>3 DEF NoFd, SockFd
  <2>5. /\ fdtab' \in [Fds -> Conns \cup {"free", "listener", "file"}]
        /\ backlog' \in Seq(Conns)
    <3>1. CASE FreeFds = {}
      BY <1>5, <3>1 DEF AcceptClient
    <3>2. CASE FreeFds # {}
      <4>1. fd \in Fds /\ fd # NoFd /\ fd = LowestFd
        BY <2>2, <3>2, ConstFacts
      <4>2. fdtab' = [fdtab EXCEPT ![fd] = Head(backlog)] /\ backlog' = Tail(backlog)
        BY <1>5, <3>2, <4>1 DEF AcceptClient
      <4>. QED BY <2>1, <4>1, <4>2
    <3>. QED BY <3>1, <3>2
  <2>6. to_visit' = client_fds' /\ client_cnt' \in Int /\ pc' = "visit"
    BY <1>5 DEF AcceptClient
  <2>. QED BY <1>5, <2>3, <2>4, <2>5, <2>6 DEF AcceptClient
<1>6. CASE AcceptNobody
  BY <1>6 DEF AcceptNobody
<1>7. CASE EndPass
  BY <1>7 DEF EndPass
<1>8. CASE SkipClient
  BY <1>8 DEF SkipClient
<1>9. ASSUME NEW fd \in Fds, ReadEof(fd) PROVE TypeOK'
  BY <1>9 DEF ReadEof, IsReady
<1>10. ASSUME NEW fd \in Fds, ReadRequest(fd) PROVE TypeOK'
  <2>1. /\ client_fds' \in Seq(Fds \cup {NoFd}) /\ client_cnt' \in Int
        /\ fdtab[fd] \in Conns /\ request[fdtab[fd]] \in AllKinds
    <3>1. /\ pc = "visit" /\ IsReady(fd) /\ fdtab[fd] \in unread
          /\ client_fds' = RemoveFirst(client_fds, fd) /\ client_cnt' = client_cnt - 1
      BY <1>10 DEF ReadRequest, Forget
    <3>2. fd \in ToSet(client_fds) /\ fdtab[fd] \in Conns
      BY <3>1, VisitFacts
    <3>3. client_fds' \in Seq(Fds \cup {NoFd})
      BY <3>1, <3>2, RemovalFromDistinct DEF IInv, ListInv
    <3>4. request[fdtab[fd]] \in AllKinds
      BY <3>1, ConstFacts DEF IInv, KernelInv
    <3>. QED BY <3>1, <3>2, <3>3, <3>4
  <2>2. req' \in AllKinds /\ pc' \in {"parse", "respond"}
    BY <1>10, <2>1, WholeAreKinds DEF ReadRequest, LineIs, NoLine
  <2>3. line_from' \in Conns \cup {"nobody", "garbage"}
    BY <1>10 DEF ReadRequest
  <2>. QED BY <1>10, <2>1, <2>2, <2>3 DEF ReadRequest
<1>11. ASSUME NEW fd \in Fds, ReadError(fd) PROVE TypeOK'
  <2>1. /\ client_fds' \in Seq(Fds \cup {NoFd}) /\ client_cnt' \in Int
    BY <1>11, VisitFacts, RemovalFromDistinct
    DEF ReadError, Forget, IInv, ListInv
  <2>2. req' \in AllKinds /\ pc' \in {"parse", "respond"}
    BY <1>11, WholeAreKinds DEF ReadError, LineIs, NoLine
  <2>. QED BY <1>11, <2>1, <2>2 DEF ReadError, CloseFd
<1>12. CASE Advance
  <2>1. to_visit # <<>>
    BY <1>12 DEF Advance, IInv, WalkInv, InHandler
  <2>2. to_visit' \in Seq(Fds \cup {NoFd}) /\ pc' \in {"visit", "died"}
    <3>1. CASE to_visit' = Tail(to_visit) /\ pc' = "visit"
      BY <2>1, <3>1
    <3>2. CASE to_visit' = <<>> /\ pc' = "visit"
      BY <3>2
    <3>3. CASE to_visit' = to_visit /\ pc' = "died"
      BY <3>3
    <3>. QED BY <1>12, <3>1, <3>2, <3>3 DEF Advance, NextNodes
  <2>. QED BY <1>12, <2>2 DEF Advance
<1>13. CASE Parse
  <2>1. pc' \in {"respond", "header", "died"}
    BY <1>13 DEF Parse
  <2>2. line_from' \in Conns \cup {"nobody", "garbage"}
    BY <1>13 DEF Parse
  <2>3. UNCHANGED <<client_fds, client_cnt, max_fd, readfds, to_visit, client_fd, infile,
                    req, left, serving, fdtab, backlog, peer, request, unread, sigint, reply>>
    BY <1>13 DEF Parse
  <2>. QED BY <2>1, <2>2, <2>3
<1>14. CASE SendHeader
  BY <1>14, SendType DEF SendHeader
<1>15. CASE OpenFile
  <2>1. FreeFds # {} => LowestFd \in Fds
    <3>1. FreeFds \subseteq Fds
      BY DEF FreeFds
    <3>. QED BY <3>1, LowestFdIsFree
  <2>2. /\ infile' \in Fds \cup {NoFd} /\ left' \in Nat /\ pc' \in {"body", "respond"}
        /\ fdtab' \in [Fds -> Conns \cup {"free", "listener", "file"}]
    <3>1. CASE OpenFailed
      BY <1>15, <3>1 DEF OpenFile, OpenFailed
    <3>2. ASSUME FreeFds # {}, infile' = LowestFd, left' \in 0 .. MaxChunks, pc' = "body",
                 fdtab' = [fdtab EXCEPT ![LowestFd] = "file"]
          PROVE  <2>2!1
      BY <2>1, <3>2, ConstFacts
    <3>. QED BY <1>15, <3>1, <3>2 DEF OpenFile
  <2>. QED BY <1>15, <2>2 DEF OpenFile
<1>16. CASE SendChunk
  BY <1>16, SendType DEF SendChunk
<1>17. CASE EndFile
  BY <1>17 DEF EndFile
<1>18. CASE Respond
  BY <1>18, SendType DEF Respond, CloseFd
<1>19. CASE Finish
  BY <1>19 DEF Finish, CloseBoth, InfileReset, CloseFd
<1>20. CASE SigPipe
  BY <1>20 DEF SigPipe
<1>21. CASE Environment
  <2>1. CASE Interrupt
    BY <2>1 DEF Interrupt
  <2>2. ASSUME NEW c \in Conns, Connect(c) PROVE TypeOK'
    <3>1. /\ peer' = [peer EXCEPT ![c] = "up"] /\ backlog' = Append(backlog, c)
          /\ request' = [request EXCEPT ![c] = "none"] /\ unread' = unread \ {c}
          /\ reply' = [reply EXCEPT ![c] = <<>>]
          /\ UNCHANGED <<pc, procVars, handlerVars, fdtab, sigint>>
      BY <2>2 DEF Connect
    <3>2. <<>> \in Seq({"header", "chunk", "status"})
      OBVIOUS
    <3>. QED BY <3>1, <3>2
  <2>3. ASSUME NEW c \in Conns, HalfClose(c) \/ Reset(c) \/ Stall(c) \/ Resume(c)
        PROVE  TypeOK'
    BY <2>3 DEF HalfClose, Reset, Stall, Resume, PeerMove
  <2>4. ASSUME NEW c \in Conns, NEW k \in Asks[c], SendRequest(c, k) PROVE TypeOK'
    BY <2>4, ConstFacts DEF SendRequest
  <2>. QED BY <1>21, <2>1, <2>2, <2>3, <2>4 DEF Environment
<1>22. CASE UNCHANGED vars
  BY <1>22 DEF vars
<1>. QED
  BY <1>1, <1>2, <1>3, <1>4, <1>5, <1>6, <1>7, <1>8, <1>9, <1>10, <1>11, <1>12,
     <1>13, <1>14, <1>15, <1>16, <1>17, <1>18, <1>19, <1>20, <1>21, <1>22
  DEF Next, ServerStep
-------------------------------------------------------------------------------
(* The kernel's tables stay consistent.                                    *)

\* A step that leaves the tables alone.
LEMMA KernelFrame ==
  ASSUME KernelInv, UNCHANGED <<fdtab, backlog, peer, request>>, unread' \subseteq unread,
         Running' => Running
  PROVE  KernelInv'
BY DEF KernelInv, IsOpen

\* A step that only closes descriptors other than the listening socket's.
LEMMA KernelClose ==
  ASSUME TypeOK, KernelInv, UNCHANGED <<backlog, peer, request>>, unread' \subseteq unread,
         Running' => Running,
         NEW closed \in SUBSET Fds, Running' => SockFd \notin closed,
         fdtab' = [fd \in Fds |-> IF fd \in closed THEN "free" ELSE fdtab[fd]]
  PROVE  KernelInv'
BY ConstFacts DEF KernelInv, IsOpen, TypeOK

\* accept finds a connection waiting: pselect reported the listening socket.
LEMMA AcceptFacts ==
  ASSUME IInv, AcceptClient
  PROVE  SockFd \in readfds /\ fdtab[SockFd] = "listener" /\ backlog # <<>>
<1>1. SockFd \in readfds /\ pc = "dispatch" /\ sigint # "caught"
  BY DEF AcceptClient, MayAccept, ShuttingDown
<1>. QED BY <1>1, ConstFacts DEF IInv, TypeOK, WalkInv, KernelInv, Readable, Running

(* Every step keeps KernelInv.                                             *)
LEMMA KernelStep ==
  ASSUME IInv, [Next]_vars
  PROVE  KernelInv'
<1> USE DEF procVars, handlerVars, netVars
<1> TypeOK /\ KernelInv
  BY DEF IInv
<1>1. ASSUME \/ Register \/ PselectReady \/ PselectInterrupted \/ AcceptNobody \/ EndPass
             \/ SkipClient \/ (\E fd \in Fds : ReadEof(fd)) \/ Advance \/ Parse
             \/ SendHeader \/ SendChunk \/ EndFile \/ SigPipe \/ Interrupt \/ UNCHANGED vars
      PROVE  KernelInv'
  <2>1. UNCHANGED <<fdtab, backlog, peer, request>> /\ unread' \subseteq unread
    BY <1>1 DEF Register, PselectReady, PselectInterrupted, AcceptNobody, EndPass,
      SkipClient, ReadEof, Advance, Parse, SendHeader, SendChunk, EndFile, SigPipe,
      Interrupt, vars
  <2>2. Running' => Running
    BY <1>1 DEF Register, PselectReady, PselectInterrupted, AcceptNobody, EndPass,
      SkipClient, ReadEof, Advance, Parse, SendHeader, SendChunk, EndFile, SigPipe,
      Interrupt, vars, Running
  <2>. QED BY <2>1, <2>2, KernelFrame
<1>2. CASE Shutdown
  <2> DEFINE closed == ClosedAtExit \cap Fds
  <2>1. fdtab' = [fd \in Fds |-> IF fd \in closed THEN "free" ELSE fdtab[fd]]
    BY <1>2 DEF Shutdown
  <2>2. ~Running' /\ UNCHANGED <<backlog, peer, request, unread>>
    BY <1>2 DEF Shutdown, Running
  <2> HIDE DEF closed
  <2>3. closed \in SUBSET Fds
    BY DEF closed
  <2>. QED BY <2>1, <2>2, <2>3, KernelClose
<1>3. CASE AcceptClient
  <2>1. backlog # <<>> /\ Running /\ Running'
    BY <1>3, AcceptFacts DEF AcceptClient, Running
  <2>2. UNCHANGED <<peer, request, unread>>
    BY <1>3 DEF AcceptClient
  <2>3. CASE FreeFds = {}
    <3>1. UNCHANGED <<fdtab, backlog>>
      BY <1>3, <2>3 DEF AcceptClient
    <3>. QED BY <2>1, <2>2, <3>1, KernelFrame
  <2>4. CASE FreeFds # {}
    <3>1. LowestFd \in Fds /\ fdtab[LowestFd] = "free" /\ LowestFd # NoFd
      BY <2>4, LowestFdIsFree, ConstFacts DEF FreeFds
    <3>2. /\ fdtab' = [fdtab EXCEPT ![LowestFd] = Head(backlog)]
          /\ backlog' = Tail(backlog)
      BY <1>3, <2>4, <3>1 DEF AcceptClient
    <3>3. /\ backlog \in Seq(Conns) /\ Head(backlog) = backlog[1] /\ 1 \in DOMAIN backlog
          /\ \A i \in DOMAIN backlog' : i + 1 \in DOMAIN backlog
                                      /\ i + 1 # 1 /\ backlog'[i] = backlog[i + 1]
          /\ \A i, j \in DOMAIN backlog' : i + 1 = j + 1 => i = j
      BY <2>1, <3>2 DEF TypeOK
    <3>4. Head(backlog) \in Conns /\ ~IsOpen(Head(backlog)) /\ peer[Head(backlog)] # "away"
      BY <3>3 DEF KernelInv
    <3>5. \A i, j \in DOMAIN backlog' : backlog'[i] = backlog'[j] => i = j
      BY <3>3 DEF KernelInv
    <3>6. \A i \in DOMAIN backlog' :
             backlog'[i] # Head(backlog) /\ ~IsOpen(backlog'[i]) /\ peer[backlog'[i]] # "away"
      BY <3>3 DEF KernelInv
    <3>7. \A c : IsOpen(c)' => c = Head(backlog) \/ IsOpen(c)
      BY <3>2 DEF IsOpen, TypeOK
    <3>8. \A fd \in Fds : fdtab'[fd] = IF fd = LowestFd THEN Head(backlog) ELSE fdtab[fd]
      BY <3>2 DEF TypeOK
    <3>9. \A fd \in Fds : fdtab'[fd] = "listener" => fd = SockFd
      BY <3>4, <3>8, ConstFacts DEF KernelInv
    <3>10. fdtab'[SockFd] = "listener"
      BY <2>1, <3>1, <3>8, ConstFacts DEF KernelInv
    <3>11. \A f, g \in Fds : fdtab'[f] \in Conns /\ fdtab'[f] = fdtab'[g] => f = g
      BY <3>4, <3>8 DEF KernelInv, IsOpen
    <3>12. \A fd \in Fds : fdtab'[fd] \in Conns => peer'[fdtab'[fd]] # "away"
      BY <2>2, <3>4, <3>8 DEF KernelInv
    <3>. QED BY <2>2, <3>5, <3>6, <3>7, <3>9, <3>10, <3>11, <3>12 DEF KernelInv
  <2>. QED BY <2>3, <2>4
<1>4. ASSUME NEW fd \in Fds, ReadRequest(fd) PROVE KernelInv'
  BY <1>4, KernelFrame DEF ReadRequest, Running, LineIs, NoLine
<1>5. ASSUME NEW fd \in Fds, ReadError(fd) PROVE KernelInv'
  <2>1. /\ fdtab[fd] \in Conns /\ UNCHANGED <<backlog, peer, request, unread>>
        /\ Running /\ fdtab' = [f \in Fds |-> IF f \in {fd} THEN "free" ELSE fdtab[f]]
    BY <1>5 DEF ReadError, CloseFd, TypeOK, Running
  <2>2. SockFd \notin {fd}
    BY <2>1, ConstFacts DEF KernelInv
  <2>. QED BY <2>1, <2>2, KernelClose
<1>6. CASE OpenFile
  <2>1. CASE OpenFailed
    BY <1>6, <2>1, KernelFrame DEF OpenFile, OpenFailed, Running
  <2>2. CASE FreeFds # {} /\ fdtab' = [fdtab EXCEPT ![LowestFd] = "file"]
    <3>1. LowestFd \in Fds /\ fdtab[LowestFd] = "free"
      BY <2>2, LowestFdIsFree DEF FreeFds
    <3>2. UNCHANGED <<backlog, peer, request, unread>> /\ Running
      BY <1>6 DEF OpenFile, Running
    <3>3. \A fd \in Fds : fdtab'[fd] = IF fd = LowestFd THEN "file" ELSE fdtab[fd]
      BY <2>2 DEF TypeOK
    <3>4. \A c \in Conns : IsOpen(c)' => IsOpen(c)
      BY <3>3, ConstFacts DEF IsOpen
    <3>5. \A i \in DOMAIN backlog : backlog[i] \in Conns
      BY DEF TypeOK
    <3>6. fdtab'[SockFd] = "listener" /\ \A fd \in Fds : fdtab'[fd] = "listener" => fd = SockFd
      BY <3>1, <3>2, <3>3, ConstFacts DEF KernelInv
    <3>. QED BY <3>2, <3>3, <3>4, <3>5, <3>6, ConstFacts DEF KernelInv
  <2>. QED BY <1>6, <2>1, <2>2 DEF OpenFile
<1>7. CASE Respond
  <2>1. /\ client_fd \in Fds /\ fdtab[client_fd] # "listener"
        /\ UNCHANGED <<backlog, peer, request, unread>>
        /\ Running /\ fdtab' = [f \in Fds |-> IF f \in {client_fd} THEN "free" ELSE fdtab[f]]
    BY <1>7, ConstFacts
    DEF Respond, CloseFd, TypeOK, Running, IInv, HandlerInv, InHandler
  <2>2. SockFd \notin {client_fd}
    BY <2>1 DEF KernelInv
  <2>. QED BY <2>1, <2>2, KernelClose
<1>8. CASE Finish
  <2>1. /\ client_fd \in Fds /\ fdtab[client_fd] # "listener"
        /\ infile \in Fds /\ fdtab[infile] # "listener"
    BY <1>8, ConstFacts DEF Finish, TypeOK, Running, IInv, HandlerInv, InHandler
  <2>2. /\ UNCHANGED <<backlog, peer, request, unread>> /\ Running
        /\ fdtab' = [f \in Fds |-> IF f \in {client_fd, infile} THEN "free" ELSE fdtab[f]]
    BY <1>8, <2>1 DEF Finish, CloseBoth, CloseFd, TypeOK, Running
  <2>3. SockFd \notin {client_fd, infile} /\ {client_fd, infile} \in SUBSET Fds
    BY <2>1, <2>2 DEF KernelInv
  <2>. QED BY <2>2, <2>3, KernelClose
<1>9. ASSUME NEW c \in Conns, Connect(c) PROVE KernelInv'
  <2>1. /\ ~Connected(c) /\ peer' = [peer EXCEPT ![c] = "up"] /\ backlog' = Append(backlog, c)
        /\ unread' = unread \ {c} /\ request' = [request EXCEPT ![c] = "none"]
        /\ UNCHANGED <<fdtab, pc>>
    BY <1>9 DEF Connect, Fresh
  <2>2. /\ backlog \in Seq(Conns)
        /\ \A i \in DOMAIN backlog' :
             \/ i \in DOMAIN backlog /\ backlog'[i] = backlog[i]
             \/ i = Len(backlog) + 1 /\ backlog'[i] = c
    BY <2>1 DEF TypeOK
  <2>3. ~IsOpen(c) /\ \A i \in DOMAIN backlog : backlog[i] # c
    BY <2>1 DEF Connected, ToSet
  <2>4. \A d \in Conns : peer[d] # "away" => peer'[d] # "away"
    BY <2>1 DEF TypeOK
  <2>5. peer'[c] # "away" /\ \A d \in Conns : IsOpen(d)' <=> IsOpen(d)
    BY <2>1 DEF TypeOK, IsOpen
  <2>6. \A i, j \in DOMAIN backlog' : backlog'[i] = backlog'[j] => i = j
    BY <2>2, <2>3 DEF KernelInv
  <2>7. ASSUME NEW i \in DOMAIN backlog'
        PROVE  /\ backlog'[i] \in Conns /\ peer'[backlog'[i]] # "away"
               /\ ~ \E fd \in Fds : fdtab'[fd] = backlog'[i]
    <3>1. CASE i \in DOMAIN backlog /\ backlog'[i] = backlog[i]
      <4>1. backlog[i] \in Conns
        BY <2>2, <3>1
      <4>. QED BY <2>1, <2>4, <3>1, <4>1 DEF KernelInv, IsOpen
    <3>2. CASE backlog'[i] = c
      BY <2>1, <2>3, <2>5, <3>2 DEF IsOpen
    <3>. QED BY <2>2, <3>1, <3>2
  <2>8. \A d \in unread' : request'[d] \in Asks[d]
    BY <2>1 DEF KernelInv, TypeOK
  <2>. QED BY <2>1, <2>4, <2>6, <2>7, <2>8 DEF KernelInv, Running, IsOpen, TypeOK
<1>10. ASSUME NEW c \in Conns, NEW k \in Asks[c], SendRequest(c, k) PROVE KernelInv'
  BY <1>10 DEF SendRequest, KernelInv, IsOpen, Running, TypeOK
<1>11. ASSUME NEW c \in Conns, HalfClose(c) \/ Reset(c) \/ Stall(c) \/ Resume(c)
       PROVE  KernelInv'
  BY <1>11 DEF HalfClose, Reset, Stall, Resume, PeerMove, KernelInv, IsOpen, Running, TypeOK
<1>. QED
  BY <1>1, <1>2, <1>3, <1>4, <1>5, <1>6, <1>7, <1>8, <1>9, <1>10, <1>11
  DEF Next, ServerStep, Environment
-------------------------------------------------------------------------------
(* The list of clients stays a list of distinct, open, watched connections *)
(* with a correct count.                                                   *)

\* A step that leaves the list alone and closes no registered descriptor.
LEMMA ListFrame ==
  ASSUME ListInv, UNCHANGED <<client_fds, client_cnt, max_fd>>, Running' => Running,
         \A fd \in Clients : Running' /\ fdtab[fd] \in Conns => fdtab'[fd] \in Conns
  PROVE  ListInv'
BY DEF ListInv, CountMatchesList, EveryClientWatched, Clients

\* The handler takes the client it has read from off the list.
LEMMA ListForget ==
  ASSUME TypeOK, ListInv, NEW fd \in Fds, fd \in ToSet(client_fds), Forget(fd),
         UNCHANGED max_fd, Running,
         \A f \in Fds : f # fd => fdtab'[f] = fdtab[f]
  PROVE  /\ ListInv' /\ ToSet(client_fds') = ToSet(client_fds) \ {fd}
<1>1. /\ Len(client_fds') = Len(client_fds) - 1
      /\ ToSet(client_fds') = ToSet(client_fds) \ {fd}
      /\ Distinct(client_fds')
  BY RemovalFromDistinct DEF TypeOK, ListInv, Forget
<1>2. client_cnt' = Len(client_fds') /\ client_cnt' <= MaxClientCnt
  BY <1>1, ConstFacts DEF TypeOK, ListInv, CountMatchesList, Forget
<1>3. /\ Clients' = Clients \ {fd} /\ Clients' \subseteq Fds /\ Clients' \subseteq Clients
  <2>1. ToSet(client_fds) \subseteq Fds \cup {NoFd}
    BY DEF TypeOK, ToSet
  <2>. QED BY <1>1, <2>1 DEF Clients
<1>4. \A f \in Clients' : fdtab'[f] \in Conns
  BY <1>3 DEF ListInv
<1>5. EveryClientWatched'
  BY <1>3 DEF ListInv, EveryClientWatched
<1>. QED BY <1>1, <1>2, <1>4, <1>5 DEF ListInv, CountMatchesList

(* Every step keeps ListInv.                                               *)
LEMMA ListStep ==
  ASSUME IInv, [Next]_vars
  PROVE  ListInv'
<1> USE DEF procVars, handlerVars, netVars
<1> TypeOK /\ ListInv /\ HandlerInv
  BY DEF IInv
<1>0. Clients \subseteq Fds /\ ToSet(client_fds) \subseteq Fds \cup {NoFd}
  BY DEF TypeOK, ToSet, Clients
<1>1. ASSUME \/ Register \/ PselectReady \/ PselectInterrupted \/ AcceptNobody \/ EndPass
             \/ SkipClient \/ (\E fd \in Fds : ReadEof(fd)) \/ Advance \/ Parse
             \/ SendHeader \/ SendChunk \/ EndFile \/ SigPipe \/ Environment \/ UNCHANGED vars
      PROVE  ListInv'
  <2>1. UNCHANGED <<fdtab, client_fds, client_cnt, max_fd>> /\ (Running' => Running)
    BY <1>1 DEF Register, PselectReady, PselectInterrupted, AcceptNobody, EndPass,
      SkipClient, ReadEof, Advance, Parse, SendHeader, SendChunk, EndFile, SigPipe,
      Environment, Interrupt, Connect, SendRequest, HalfClose, Reset, Stall, Resume, PeerMove,
      vars, Running
  <2>. QED BY <2>1, ListFrame
<1>2. CASE Shutdown
  BY <1>2, ListFrame DEF Shutdown, Running
<1>3. CASE AcceptClient
  <2> DEFINE fd == IF FreeFds = {} THEN NoFd ELSE LowestFd
  <2>1. /\ client_fds' = <<fd>> \o client_fds /\ client_cnt' = client_cnt + 1
        /\ max_fd' = Max({max_fd, fd}) /\ client_cnt < MaxClientCnt /\ Running
    BY <1>3 DEF AcceptClient, HighestFd, MayAccept, Running
  <2>2. /\ fd \in Fds \cup {NoFd} /\ fd \in Int
        /\ fd # NoFd => fdtab[fd] = "free" /\ fdtab' = [fdtab EXCEPT ![fd] = Head(backlog)]
        /\ fd = NoFd => UNCHANGED fdtab
    <3>1. CASE FreeFds = {}
      BY <1>3, <3>1 DEF AcceptClient, NoFd
    <3>2. CASE FreeFds # {}
      <4>1. LowestFd \in Fds /\ fdtab[LowestFd] = "free" /\ LowestFd # NoFd /\ fd = LowestFd
        BY <3>2, LowestFdIsFree, ConstFacts DEF FreeFds
      <4>. QED BY <1>3, <3>2, <4>1, ConstFacts DEF AcceptClient
    <3>. QED BY <3>1, <3>2
  <2> HIDE DEF fd
  <2>3. backlog # <<>> /\ Head(backlog) \in Conns
    BY <1>3, AcceptFacts DEF TypeOK
  <2>4. fd \notin Clients
    <3>1. CASE fd = NoFd
      BY <3>1 DEF Clients
    <3>2. CASE fd # NoFd
      BY <2>1, <2>2, <3>2, ConstFacts DEF ListInv
    <3>. QED BY <3>1, <3>2
  <2>5. /\ client_fds \in Seq(Fds \cup {NoFd})
        /\ Len(client_fds') = Len(client_fds) + 1
        /\ \A i \in DOMAIN client_fds' :
             \/ i = 1 /\ client_fds'[i] = fd
             \/ i # 1 /\ i - 1 \in DOMAIN client_fds /\ client_fds'[i] = client_fds[i - 1]
        /\ DOMAIN client_fds' = 1 .. Len(client_fds) + 1
    BY <2>1, <2>2 DEF TypeOK
  <2>6. \A x \in ToSet(client_fds') : x = fd \/ x \in ToSet(client_fds)
    BY <2>5 DEF ToSet
  <2>7. Distinct(client_fds')
    <3>1. SUFFICES ASSUME NEW i \in DOMAIN client_fds', NEW j \in DOMAIN client_fds',
                          client_fds'[i] = client_fds'[j], client_fds'[i] # NoFd
                   PROVE  i = j
      BY DEF Distinct
    <3>2. \A k \in DOMAIN client_fds : client_fds[k] # NoFd => client_fds[k] \in Clients
      BY <2>5 DEF Clients, ToSet
    <3>3. CASE i = 1 \/ j = 1
      BY <2>4, <2>5, <3>1, <3>2, <3>3
    <3>4. CASE i # 1 /\ j # 1
      <4>1. i - 1 = j - 1
        BY <2>5, <3>1, <3>4 DEF ListInv, Distinct
      <4>. QED BY <2>5, <4>1
    <3>. QED BY <3>3, <3>4
  <2>8. \A f \in Clients' : fdtab'[f] \in Conns
    <3>1. ASSUME NEW f \in Clients', f = fd PROVE fdtab'[f] \in Conns
      BY <2>2, <2>3, <3>1 DEF Clients, TypeOK
    <3>2. ASSUME NEW f \in Clients', f # fd PROVE fdtab'[f] \in Conns
      <4>1. f \in Clients /\ f \in Fds
        BY <1>0, <2>6, <3>2 DEF Clients
      <4>2. fdtab'[f] = fdtab[f]
        BY <2>2, <3>2, <4>1 DEF TypeOK
      <4>. QED BY <2>1, <4>1, <4>2 DEF ListInv
    <3>. QED BY <3>1, <3>2
  <2>9. CountMatchesList'
    BY <2>1, <2>5, ConstFacts DEF ListInv, CountMatchesList, TypeOK
  <2>10. EveryClientWatched'
    <3>1. max_fd \in Int /\ max_fd' >= max_fd /\ max_fd' >= fd /\ max_fd' \in Int
      <4>1. max_fd \in Int /\ fd \in Int
        BY <2>2, ConstFacts DEF TypeOK
      <4>2. max_fd' \in {max_fd, fd} /\ max_fd' >= max_fd /\ max_fd' >= fd
        BY <2>1, <4>1, MaxOfTwo
      <4>. QED BY <4>1, <4>2
    <3>2. \A f \in Clients' : f \in Int /\ (f = fd \/ f <= max_fd)
      BY <2>2, <2>6, <1>0, ConstFacts DEF ListInv, EveryClientWatched, Clients
    <3>. QED BY <2>2, <3>1, <3>2 DEF EveryClientWatched
  <2>. QED BY <2>7, <2>8, <2>9, <2>10 DEF ListInv
<1>4. ASSUME NEW fd \in Fds, ReadRequest(fd) PROVE ListInv'
  <2>1. fd \in ToSet(client_fds)
    BY <1>4, VisitFacts DEF ReadRequest
  <2>2. Forget(fd) /\ UNCHANGED <<max_fd, fdtab>> /\ Running
    BY <1>4 DEF ReadRequest, Running
  <2>. QED BY <2>1, <2>2, ListForget
<1>5. ASSUME NEW fd \in Fds, ReadError(fd) PROVE ListInv'
  <2>1. fd \in ToSet(client_fds)
    BY <1>5, VisitFacts DEF ReadError
  <2>2. Forget(fd) /\ UNCHANGED max_fd /\ Running /\ \A f \in Fds : f # fd => fdtab'[f] = fdtab[f]
    BY <1>5 DEF ReadError, Running, CloseFd, TypeOK
  <2>. QED BY <2>1, <2>2, ListForget
<1>6. CASE OpenFile
  <2>1. UNCHANGED <<client_fds, client_cnt, max_fd>> /\ Running
    BY <1>6 DEF OpenFile, Running
  <2>2. \A fd \in Fds : fdtab[fd] # "free" => fdtab'[fd] = fdtab[fd]
    <3>1. CASE OpenFailed
      BY <3>1 DEF OpenFailed
    <3>2. CASE FreeFds # {} /\ fdtab' = [fdtab EXCEPT ![LowestFd] = "file"]
      BY <3>2, LowestFdIsFree DEF FreeFds, TypeOK
    <3>. QED BY <1>6, <3>1, <3>2 DEF OpenFile
  <2>. QED BY <2>1, <2>2, <1>0, ListFrame, ConstFacts
<1>7. CASE Respond
  <2>1. UNCHANGED <<client_fds, client_cnt, max_fd>> /\ Running
    BY <1>7 DEF Respond, Running
  <2>2. client_fd \notin Clients /\ \A fd \in Fds : fd # client_fd => fdtab'[fd] = fdtab[fd]
    BY <1>7 DEF Respond, HandlerInv, InHandler, CloseFd, TypeOK
  <2>. QED BY <2>1, <2>2, <1>0, ListFrame
<1>8. CASE Finish
  <2>1. UNCHANGED <<client_fds, client_cnt, max_fd>> /\ Running
    BY <1>8 DEF Finish, Running
  <2>2. /\ client_fd \notin Clients /\ fdtab[infile] = "file"
        /\ \A fd \in Fds : fd \notin {client_fd, infile} => fdtab'[fd] = fdtab[fd]
    BY <1>8, <2>1 DEF Finish, HandlerInv, InHandler, CloseBoth, CloseFd, TypeOK
  <2>. QED BY <2>1, <2>2, <1>0, ListFrame, ConstFacts
<1>. QED
  BY <1>1, <1>2, <1>3, <1>4, <1>5, <1>6, <1>7, <1>8 DEF Next, ServerStep
-------------------------------------------------------------------------------
(* Closing the handler's socket, and its file, touches nobody else.         *)
LEMMA HandlerCloses ==
  ASSUME IInv, InHandler, Running, UNCHANGED <<client_fds, client_fd, serving, peer>>,
         pc' \in {"advance", "finish"},
         \A f \in Fds : fdtab'[f] = fdtab[f] \/ (fdtab'[f] = "free" /\ fdtab[f] = "file")
                                           \/ (fdtab'[f] = "free" /\ f = client_fd),
         fdtab'[client_fd] = "free",
         infile' \in {NoFd, infile}, infile' = NoFd <=> pc' = "advance",
         infile' # NoFd => fdtab[infile'] = "file" /\ fdtab'[infile'] = "file"
  PROVE  HandlerInv'
<1> TypeOK /\ HandlerInv
  BY DEF IInv
<1>1. /\ client_fd \in Fds /\ client_fd \notin Clients /\ serving \in Conns
      /\ \A f \in Fds : fdtab[f] = serving => f = client_fd
  BY DEF HandlerInv
<1>2. Clients \subseteq Fds /\ Clients' = Clients
  BY DEF TypeOK, Clients, ToSet
<1>3. \A f \in Fds, c \in Conns : fdtab'[f] = c <=> fdtab[f] = c /\ f # client_fd
  BY <1>1, ConstFacts
<1>4. InHandler' /\ \A f \in Fds : fdtab'[f] = serving' => f = client_fd'
  BY <1>1, <1>3 DEF InHandler
<1>5. NoLeakWithoutReset'
  <2> SUFFICES ASSUME NEW c \in Conns, NEW g \in Fds, fdtab'[g] = c
               PROVE  (\E f \in Clients : fdtab'[f] = c) \/ peer[c] = "rst"
    BY <1>2 DEF NoLeakWithoutReset, IsOpen
  <2>1. fdtab[g] = c /\ c # serving
    BY <1>1, <1>3
  <2>2. (\E f \in Clients : fdtab[f] = c) \/ peer[c] = "rst"
    BY <2>1 DEF HandlerInv, NoLeakWithoutReset, IsOpen
  <2>. QED BY <1>1, <1>2, <1>3, <2>2
<1>6. fdtab'[client_fd'] # serving'
  BY <1>1, ConstFacts
<1>. QED BY <1>1, <1>2, <1>4, <1>5, <1>6 DEF HandlerInv

(* The handler keeps to its own socket and file.                           *)
LEMMA HandlerStep ==
  ASSUME IInv, [Next]_vars
  PROVE  HandlerInv'
<1> USE DEF procVars, handlerVars, netVars
<1> TypeOK /\ HandlerInv
  BY DEF IInv
<1> USE DEF HandlerInv, InHandler, Running, NoLeakWithoutReset, Clients, IsOpen
<1>1. ASSUME \/ Register \/ PselectReady \/ PselectInterrupted \/ AcceptNobody
             \/ EndPass \/ SkipClient \/ (\E fd \in Fds : ReadEof(fd))
      PROVE  HandlerInv'
  <2>1. UNCHANGED <<client_fds, infile, fdtab, peer>>
    BY <1>1 DEF Register, PselectReady, PselectInterrupted, AcceptNobody, EndPass, SkipClient, ReadEof
  <2>2. /\ pc \in {"register", "pselect", "dispatch", "visit"}
        /\ pc' \in {"register", "pselect", "dispatch", "visit", "died"}
    BY <1>1 DEF Register, PselectReady, PselectInterrupted, AcceptNobody, EndPass, SkipClient, ReadEof
  <2>. QED BY <2>1, <2>2
<1>2. CASE Shutdown
  BY <1>2 DEF Shutdown
<1>3. CASE AcceptClient
  <2>1. /\ pc = "dispatch" /\ pc' = "visit" /\ UNCHANGED <<peer, infile, client_fd, serving>>
        /\ client_fds \in Seq(Fds \cup {NoFd})
    BY <1>3 DEF AcceptClient, TypeOK
  <2>2. NoLeakWithoutReset'
    <3>1. CASE FreeFds = {}
      <4>1. client_fds' = <<NoFd>> \o client_fds /\ UNCHANGED fdtab
        BY <1>3, <3>1 DEF AcceptClient
      <4>2. ToSet(client_fds) \subseteq ToSet(client_fds')
        BY <2>1, <4>1, PrependElements
      <4>. QED BY <2>1, <4>1, <4>2
    <3>2. CASE FreeFds # {}
      <4>1. LowestFd \in Fds /\ fdtab[LowestFd] = "free" /\ LowestFd # NoFd
        BY <3>2, LowestFdIsFree, ConstFacts DEF FreeFds
      <4>2. /\ client_fds' = <<LowestFd>> \o client_fds
            /\ fdtab' = [fdtab EXCEPT ![LowestFd] = Head(backlog)]
        BY <1>3, <3>2, <4>1 DEF AcceptClient
      <4>3. ToSet(client_fds) \subseteq ToSet(client_fds') /\ LowestFd \in ToSet(client_fds')
        BY <2>1, <4>1, <4>2, PrependElements
      <4>4. \A f \in Fds : fdtab'[f] = IF f = LowestFd THEN Head(backlog) ELSE fdtab[f]
        BY <4>2 DEF TypeOK
      <4>5. \A f \in Clients : fdtab[f] \in Conns => f # LowestFd /\ f \in Clients'
        BY <4>1, <4>3, ConstFacts
      <4>6. ToSet(client_fds) \subseteq Fds \cup {NoFd}
        BY DEF TypeOK, ToSet
      <4>. QED BY <2>1, <4>1, <4>3, <4>4, <4>5, <4>6
    <3>. QED BY <3>1, <3>2
  <2>. QED BY <2>1, <2>2
<1>4. ASSUME NEW fd \in Fds, ReadRequest(fd) PROVE HandlerInv'
  <2>1. /\ pc = "visit" /\ pc' \in {"parse", "respond"} /\ client_fd' = fd
        /\ serving' = fdtab[fd] /\ serving' \in Conns /\ UNCHANGED <<peer, infile>>
        /\ IsReady(fd) /\ Forget(fd) /\ Running
    BY <1>4 DEF ReadRequest, LineIs, NoLine
  <2>2. fd \in ToSet(client_fds)
    BY <2>1, VisitFacts
  <2>3. ToSet(client_fds') = ToSet(client_fds) \ {fd}
    BY <2>1, <2>2, RemovalFromDistinct DEF Forget, TypeOK, IInv, ListInv
  <2>4. UNCHANGED fdtab
    BY <1>4 DEF ReadRequest
  <2>5. \A g \in Fds : fdtab[g] = fdtab[fd] => g = fd
    BY <2>1 DEF IInv, KernelInv
  <2>. QED BY <2>1, <2>3, <2>4, <2>5
<1>5. ASSUME NEW fd \in Fds, ReadError(fd) PROVE HandlerInv'
  <2>1. /\ pc = "visit" /\ pc' \in {"parse", "respond"} /\ client_fd' = fd
        /\ serving' = fdtab[fd] /\ serving' \in Conns /\ UNCHANGED <<peer, infile>>
        /\ IsReady(fd) /\ Forget(fd) /\ Running
    BY <1>5 DEF ReadError, LineIs, NoLine
  <2>2. fd \in ToSet(client_fds)
    BY <2>1, VisitFacts
  <2>3. ToSet(client_fds') = ToSet(client_fds) \ {fd}
    BY <2>1, <2>2, RemovalFromDistinct DEF Forget, TypeOK, IInv, ListInv
  <2>4. \A f \in Fds : fdtab'[f] = IF f = fd THEN "free" ELSE fdtab[f]
    BY <1>5 DEF ReadError, CloseFd, TypeOK
  <2>5. ToSet(client_fds) \subseteq Fds \cup {NoFd}
    BY DEF TypeOK, ToSet
  <2>6. \A g \in Fds : fdtab[g] = fdtab[fd] => g = fd
    BY <2>1 DEF IInv, KernelInv
  <2>7. \A f \in Fds : fdtab'[f] = serving' => f = client_fd'
    BY <2>1, <2>4, <2>6, ConstFacts
  <2>8. infile' = NoFd /\ client_fd' \notin Clients' /\ fdtab'[client_fd'] = "free"
    BY <2>1, <2>3, <2>4
  <2>9. NoLeakWithoutReset'
    <3>1. ASSUME NEW c \in Conns, NEW g \in Fds, fdtab'[g] = c
          PROVE  (\E f \in Clients' : fdtab'[f] = c) \/ peer'[c] = "rst"
      <4>1. g # fd /\ fdtab[g] = c
        BY <2>4, <3>1, ConstFacts
      <4>2. (\E f \in Clients : fdtab[f] = c) \/ peer[c] = "rst"
        BY <2>1, <4>1
      <4>3. \A f \in Clients : fdtab[f] = c => f \in Clients' /\ fdtab'[f] = c
        BY <2>3, <2>4, <2>5, <2>6, <4>1
      <4>. QED BY <2>1, <4>2, <4>3
    <3>. QED BY <3>1
  <2>. QED BY <2>1, <2>7, <2>8, <2>9
<1>6. CASE Parse
  BY <1>6 DEF Parse
<1>7. CASE SendHeader
  BY <1>7, ConstFacts DEF SendHeader, SendOk, SendFails
<1>8. CASE OpenFile
  <2>1. /\ pc = "open" /\ UNCHANGED <<client_fds, client_fd, serving, peer>>
        /\ fdtab[client_fd] = serving /\ infile = NoFd
    BY <1>8 DEF OpenFile
  <2>2. CASE OpenFailed
    BY <2>1, <2>2 DEF OpenFailed
  <2>3. CASE /\ FreeFds # {} /\ infile' = LowestFd /\ pc' = "body"
             /\ fdtab' = [fdtab EXCEPT ![LowestFd] = "file"]
    <3>1. LowestFd \in Fds /\ fdtab[LowestFd] = "free" /\ LowestFd # NoFd
      BY <2>3, LowestFdIsFree, ConstFacts DEF FreeFds
    <3>2. \A f \in Fds : fdtab'[f] = IF f = LowestFd THEN "file" ELSE fdtab[f]
      BY <2>3 DEF TypeOK
    <3>3. ToSet(client_fds) \subseteq Fds \cup {NoFd}
      BY DEF TypeOK, ToSet
    <3>. QED BY <2>1, <2>3, <3>1, <3>2, <3>3, ConstFacts
  <2>. QED BY <1>8, <2>2, <2>3 DEF OpenFile
<1>9. CASE SendChunk
  BY <1>9 DEF SendChunk
<1>10. CASE EndFile
  BY <1>10 DEF EndFile
<1>11. CASE Respond
  <2>1. /\ pc = "respond" /\ pc' = IF infile = NoFd THEN "advance" ELSE "finish"
        /\ UNCHANGED <<client_fds, client_fd, serving, peer, infile>>
        /\ \A f \in Fds : fdtab'[f] = IF f = client_fd THEN "free" ELSE fdtab[f]
    BY <1>11 DEF Respond, CloseFd, TypeOK
  <2>2. client_fd \in Fds /\ fdtab[client_fd] # "file"
    BY <2>1, ConstFacts
  <2>3. infile # NoFd => fdtab[infile] = "file" /\ fdtab'[infile] = "file"
    BY <2>1, <2>2 DEF TypeOK
  <2> HIDE DEF HandlerInv, NoLeakWithoutReset, Clients, IsOpen
  <2>. QED BY <2>1, <2>2, <2>3, HandlerCloses
<1>12. CASE Finish
  <2>1. /\ pc = "finish" /\ pc' = "advance" /\ infile' = NoFd
        /\ UNCHANGED <<client_fds, client_fd, serving, peer>>
        /\ \A f \in Fds : fdtab'[f] = IF f \in {client_fd, infile} THEN "free" ELSE fdtab[f]
    BY <1>12 DEF Finish, CloseBoth, CloseFd, InfileReset, TypeOK
  <2>2. client_fd \in Fds /\ fdtab[infile] = "file"
    BY <2>1
  <2> HIDE DEF HandlerInv, NoLeakWithoutReset, Clients, IsOpen
  <2>. QED BY <2>1, <2>2, HandlerCloses
<1>13. CASE Advance
  <2>1. /\ pc = "advance" /\ pc' \in {"visit", "died"}
        /\ UNCHANGED <<client_fds, infile, fdtab, peer>>
    BY <1>13 DEF Advance
  <2>2. NoLeakWithoutReset'
    <3>1. \A f \in Fds : fdtab[f] = serving => peer[serving] = "rst"
      BY <2>1
    <3>. QED BY <2>1, <3>1
  <2>. QED BY <2>1, <2>2
<1>14. CASE SigPipe
  BY <1>14 DEF SigPipe
<1>15. CASE Environment
  <2>1. UNCHANGED <<pc, client_fds, client_fd, serving, infile, fdtab>>
    BY <1>15 DEF Environment, Interrupt, Connect, SendRequest, HalfClose, Reset, Stall,
      Resume, PeerMove
  <2>2. \A c \in Conns : (c = serving \/ IsOpen(c)) /\ peer[c] = "rst" => peer'[c] = "rst"
    BY <1>15 DEF Environment, Interrupt, Connect, Fresh, Connected, SendRequest, HalfClose,
      Reset, Stall, Resume, PeerMove, TypeOK
  <2>. QED BY <2>1, <2>2
<1>16. CASE UNCHANGED vars
  BY <1>16 DEF vars
<1>. QED
  BY <1>1, <1>2, <1>3, <1>4, <1>5, <1>6, <1>7, <1>8, <1>9, <1>10, <1>11, <1>12, <1>13,
     <1>14, <1>15, <1>16
  DEF Next, ServerStep
-------------------------------------------------------------------------------
(* The walk stays safe to continue.                                        *)

\* What is reported readable stays so as long as its connection stays open
\* and loses no input.
LEMMA WalkableKept ==
  ASSUME TypeOK, ListInv, Running, NEW list, WalkableFrom(list),
         readfds' = readfds, ToSet(list) \subseteq ToSet(client_fds'),
         \A fd \in Fds \cap ToSet(list) : fdtab'[fd] = fdtab[fd],
         \A fd \in Fds \cap ToSet(list) :
           fdtab[fd] \in Conns /\ HasInput(fdtab[fd]) => HasInput(fdtab[fd])'
  PROVE  /\ Distinct(list) /\ ToSet(list) \subseteq ToSet(client_fds')
         /\ \A fd \in readfds' \cap ToSet(list) : Readable(fd)'
<1>1. Distinct(list) /\ ToSet(list) \subseteq ToSet(client_fds')
  BY DEF WalkableFrom
<1>2. ASSUME NEW fd \in readfds' \cap ToSet(list) PROVE Readable(fd)'
  <2>1. fd \in Fds /\ fdtab[fd] \in Conns /\ Readable(fd)
    BY <1>2, ConstFacts DEF WalkableFrom, TypeOK, ListInv, Clients
  <2>2. HasInput(fdtab[fd])
    BY <2>1, ConstFacts DEF Readable
  <2>. QED BY <1>2, <2>1, <2>2 DEF Readable, HasInput
<1>. QED BY <1>1, <1>2

\* Passing over the first node leaves a walk that is safe to continue.
LEMMA WalkableTail ==
  ASSUME NEW list \in Seq(Fds \cup {NoFd}), list # <<>>, WalkableFrom(list)
  PROVE  WalkableFrom(Tail(list))
<1>1. /\ Tail(list) \in Seq(Fds \cup {NoFd})
      /\ \A i \in DOMAIN Tail(list) : i + 1 \in DOMAIN list /\ Tail(list)[i] = list[i + 1]
      /\ \A i, j \in DOMAIN Tail(list) : i + 1 = j + 1 => i = j
  OBVIOUS
<1>2. Distinct(Tail(list))
  BY <1>1 DEF WalkableFrom, Distinct
<1>3. ToSet(Tail(list)) \subseteq ToSet(list)
  BY <1>1 DEF ToSet
<1>. QED BY <1>2, <1>3 DEF WalkableFrom

(* Every step keeps WalkInv.                                               *)
LEMMA WalkStep ==
  ASSUME IInv, [Next]_vars
  PROVE  WalkInv'
<1> USE DEF procVars, handlerVars, netVars
<1> TypeOK /\ KernelInv /\ ListInv /\ HandlerInv /\ WalkInv
  BY DEF IInv
<1>1. CASE Register \/ PselectReady \/ PselectInterrupted \/ Shutdown \/ EndPass \/ SigPipe
  BY <1>1 DEF Register, PselectReady, PselectInterrupted, Shutdown, EndPass, SigPipe,
     WalkInv, InHandler, Selected, Readable, HasInput
<1>0. to_visit \in Seq(Fds \cup {NoFd})
  BY DEF TypeOK
<1>2. CASE AcceptClient
  <2> DEFINE fd == IF FreeFds = {} THEN NoFd ELSE LowestFd
  <2>1. /\ pc = "dispatch" /\ sigint # "caught" /\ pc' = "visit" /\ to_visit' = client_fds'
        /\ client_fds' = <<fd>> \o client_fds /\ UNCHANGED <<readfds, peer, unread>>
    BY <1>2 DEF AcceptClient, ShuttingDown
  <2>2. Distinct(client_fds')
    BY ListStep DEF ListInv
  <2>3. \A f \in Fds : fdtab[f] # "free" => f # fd /\ fdtab'[f] = fdtab[f]
    <3>1. CASE FreeFds = {}
      BY <1>2, <3>1, ConstFacts DEF AcceptClient
    <3>2. CASE FreeFds # {}
      <4>1. LowestFd \in Fds /\ fdtab[LowestFd] = "free" /\ LowestFd # NoFd
        BY <3>2, LowestFdIsFree, ConstFacts DEF FreeFds
      <4>2. fdtab' = [fdtab EXCEPT ![LowestFd] = Head(backlog)] /\ fd = LowestFd
        BY <1>2, <3>2, <4>1 DEF AcceptClient
      <4>. QED BY <4>1, <4>2 DEF TypeOK
    <3>. QED BY <3>1, <3>2
  <2>4. fd \in Fds \cup {NoFd}
    <3>1. FreeFds # {} => LowestFd \in Fds
      BY LowestFdIsFree, FreeFds \subseteq Fds DEF FreeFds
    <3>. QED BY <3>1
  <2> HIDE DEF fd
  <2>5. \A f \in ToSet(client_fds') : f = fd \/ f \in ToSet(client_fds)
    <3>1. /\ DOMAIN client_fds' = 1 .. Len(client_fds) + 1
          /\ \A i \in 1 .. Len(client_fds) + 1 :
               \/ client_fds'[i] = fd
               \/ i - 1 \in DOMAIN client_fds /\ client_fds'[i] = client_fds[i - 1]
      BY <2>1, <2>4 DEF TypeOK
    <3>. QED BY <3>1 DEF ToSet
  <2>6. ASSUME NEW f \in readfds \cap ToSet(client_fds') PROVE Readable(f)'
    <3>1. f \in Fds /\ Readable(f) /\ fdtab[f] # "free"
      BY <2>1, <2>6, ConstFacts DEF TypeOK, WalkInv, Readable
    <3>2. f \in Clients /\ fdtab[f] \in Conns /\ fdtab'[f] = fdtab[f]
      BY <2>1, <2>3, <2>5, <2>6, <3>1, ConstFacts DEF Clients, ListInv, Running
    <3>. QED BY <2>1, <3>1, <3>2, ConstFacts DEF Readable, HasInput
  <2>7. WalkableFrom(to_visit)'
    BY <2>1, <2>2, <2>6 DEF WalkableFrom
  <2>. QED BY <2>1, <2>7 DEF WalkInv, Remaining, InHandler
<1>3. CASE AcceptNobody
  <2>1. /\ pc = "dispatch" /\ sigint # "caught" /\ pc' = "visit" /\ to_visit' = client_fds
        /\ UNCHANGED <<client_fds, readfds, fdtab, backlog, peer, unread>>
    BY <1>3 DEF AcceptNobody, ShuttingDown
  <2>2. WalkableFrom(to_visit)'
    BY <2>1 DEF WalkableFrom, WalkInv, ListInv, Readable, HasInput
  <2>. QED BY <2>1, <2>2 DEF WalkInv, Remaining, InHandler
<1>4. ASSUME SkipClient \/ \E fd \in Fds : ReadEof(fd) PROVE WalkInv'
  <2>1. /\ pc = "visit" /\ pc' = "visit" /\ to_visit # <<>> /\ to_visit' = Tail(to_visit)
        /\ UNCHANGED <<client_fds, readfds, fdtab, backlog, peer, unread>>
    BY <1>4 DEF SkipClient, ReadEof, IsReady
  <2>2. WalkableFrom(Tail(to_visit))
    BY <1>0, <2>1, WalkableTail DEF WalkInv, Remaining, InHandler
  <2>3. WalkableFrom(to_visit)'
    BY <2>1, <2>2 DEF WalkableFrom, Readable, HasInput
  <2>. QED BY <2>1, <2>3 DEF WalkInv, Remaining, InHandler
<1>5. ASSUME NEW fd \in Fds, ReadRequest(fd) \/ ReadError(fd) PROVE WalkInv'
  <2>1. /\ pc = "visit" /\ IsReady(fd) /\ Forget(fd) /\ pc' \in {"parse", "respond"}
        /\ client_fd' = fd /\ UNCHANGED <<readfds, to_visit, backlog, peer>>
        /\ unread' \in {unread, unread \ {fdtab[fd]}}
        /\ \A f \in Fds : f # fd => fdtab'[f] = fdtab[f]
    BY <1>5 DEF ReadRequest, ReadError, LineIs, NoLine, CloseFd, TypeOK
  <2> DEFINE list == Tail(to_visit)
  <2>2. /\ to_visit # <<>> /\ Head(to_visit) = fd /\ fd \in ToSet(client_fds)
        /\ fdtab[fd] \in Conns /\ fd \notin ToSet(list)
    BY <2>1, VisitFacts
  <2>3. ToSet(client_fds') = ToSet(client_fds) \ {fd}
    BY <2>1, <2>2, RemovalFromDistinct DEF Forget, TypeOK, ListInv
  <2>4. WalkableFrom(list)
    BY <1>0, <2>1, <2>2, WalkableTail DEF WalkInv, Remaining, InHandler
  <2> HIDE DEF list
  <2>5. ToSet(list) \subseteq ToSet(client_fds')
    BY <2>2, <2>3, <2>4 DEF WalkableFrom
  <2>6. \A f \in Fds \cap ToSet(list) : fdtab'[f] = fdtab[f]
    BY <2>1, <2>2
  <2>7. \A f \in Fds \cap ToSet(list) :
           fdtab[f] \in Conns /\ HasInput(fdtab[f]) => HasInput(fdtab[f])'
    <3>1. \A f \in Fds \cap ToSet(list) : fdtab[f] # fdtab[fd]
      BY <2>2 DEF KernelInv
    <3>. QED BY <2>1, <2>6, <3>1 DEF HasInput
  <2>8. /\ Distinct(list) /\ \A f \in readfds' \cap ToSet(list) : Readable(f)'
    BY <2>1, <2>4, <2>5, <2>6, <2>7, WalkableKept DEF Running
  <2>9. list = Remaining'
    BY <2>1 DEF Remaining, InHandler, list
  <2>10. WalkableFrom(Remaining)'
    BY <2>5, <2>8, <2>9 DEF WalkableFrom
  <2>. QED BY <2>1, <2>2, <2>10 DEF WalkInv, InHandler
<1>6. CASE Parse \/ SendHeader \/ OpenFile \/ SendChunk \/ EndFile \/ Respond \/ Finish
  <2>1. /\ InHandler /\ pc' \in {"parse", "header", "open", "body", "respond", "finish", "advance", "died"}
        /\ UNCHANGED <<client_fds, readfds, to_visit, client_fd, backlog, peer, unread>>
    BY <1>6 DEF Parse, SendHeader, OpenFile, OpenFailed, SendChunk, EndFile, Respond,
       Finish, InHandler
  <2>2. \A f \in Clients : fdtab'[f] = fdtab[f]
    <3>1. \A f \in Clients : f \in Fds /\ f # client_fd /\ fdtab[f] \in Conns
      BY <2>1 DEF HandlerInv, ListInv, Running, InHandler, Clients, TypeOK, ToSet
    <3>2. CASE OpenFile
      <4>1. FreeFds # {} => LowestFd \in Fds /\ fdtab[LowestFd] = "free"
        BY LowestFdIsFree DEF FreeFds
      <4>2. \/ UNCHANGED fdtab
            \/ FreeFds # {} /\ fdtab' = [fdtab EXCEPT ![LowestFd] = "file"]
        BY <3>2 DEF OpenFile, OpenFailed
      <4>. QED BY <3>1, <4>1, <4>2, ConstFacts DEF TypeOK
    <3>3. CASE Finish
      <4>1. fdtab[infile] = "file"
        BY <3>3 DEF Finish, HandlerInv, Running
      <4>2. \A f \in Clients : f # infile
        BY <3>1, <4>1, ConstFacts
      <4>3. fdtab' = CloseFd(CloseFd(fdtab, infile), client_fd)
        BY <3>3 DEF Finish, CloseBoth
      <4>. QED BY <3>1, <4>2, <4>3 DEF CloseFd, TypeOK
    <3>4. CASE Parse \/ SendHeader \/ SendChunk \/ EndFile \/ Respond
      BY <3>1, <3>4 DEF Parse, SendHeader, SendChunk, EndFile, Respond, CloseFd, TypeOK
    <3>. QED BY <1>6, <3>2, <3>3, <3>4
  <2> DEFINE list == Tail(to_visit)
  <2>3. WalkableFrom(list)
    BY <2>1 DEF WalkInv, Remaining
  <2> HIDE DEF list
  <2>4. ToSet(list) \subseteq ToSet(client_fds') /\ Fds \cap ToSet(list) \subseteq Clients
    BY <2>1, <2>3, ConstFacts DEF WalkableFrom, Clients
  <2>5. /\ Distinct(list) /\ \A f \in readfds' \cap ToSet(list) : Readable(f)'
    BY <2>1, <2>2, <2>3, <2>4, WalkableKept DEF Running, InHandler, HasInput
  <2>6. WalkableFrom(list)'
    <3>1. list' = list
      BY <2>1 DEF list
    <3>. QED BY <2>4, <2>5, <3>1 DEF WalkableFrom
  <2>. QED BY <2>1, <2>6 DEF WalkInv, Remaining, InHandler, list
<1>7. CASE Advance
  <2>1. /\ InHandler /\ pc' \in {"visit", "died"} /\ (pc' = "visit" => to_visit' \in {Tail(to_visit), <<>>})
        /\ UNCHANGED <<client_fds, readfds, fdtab, backlog, peer, unread>>
    BY <1>7 DEF Advance, NextNodes, InHandler
  <2>2. WalkableFrom(Tail(to_visit)) /\ WalkableFrom(<<>>)
    <3>1. WalkableFrom(Tail(to_visit))
      BY <2>1 DEF WalkInv, Remaining
    <3>2. Distinct(<<>>)
      BY DEF Distinct
    <3>3. ToSet(<<>>) = {}
      BY DEF ToSet
    <3>. QED BY <3>1, <3>2, <3>3 DEF WalkableFrom
  <2>3. pc' = "visit" => WalkableFrom(to_visit)'
    BY <2>1, <2>2 DEF WalkableFrom, Readable, HasInput
  <2>. QED BY <2>1, <2>3 DEF WalkInv, Remaining, InHandler
<1>8. CASE Environment \/ UNCHANGED vars
  <2>1. UNCHANGED <<pc, client_fds, readfds, to_visit, client_fd, fdtab>>
    BY <1>8 DEF vars, Environment, Interrupt, Connect, SendRequest, HalfClose, Reset,
       Stall, Resume, PeerMove
  <2>2. sigint' # "caught" => sigint # "caught"
    BY <1>8 DEF vars, Environment, Interrupt, Connect, SendRequest, HalfClose, Reset,
       Stall, Resume, PeerMove
  <2>3. backlog # <<>> => backlog' # <<>>
    BY <1>8 DEF vars, Environment, Interrupt, Connect, SendRequest, HalfClose, Reset,
       Stall, Resume, PeerMove, TypeOK
  <2>4. \A c \in Conns : IsOpen(c) => (c \in unread => c \in unread')
    BY <1>8 DEF vars, Environment, Interrupt, Connect, Fresh, Connected, SendRequest,
       HalfClose, Reset, Stall, Resume, PeerMove
  <2>5. \A c \in Conns : IsOpen(c) => (peer[c] \in {"fin", "rst"} => peer'[c] \in {"fin", "rst"})
    BY <1>8 DEF vars, Environment, Interrupt, Connect, Fresh, Connected, SendRequest,
       HalfClose, Reset, Stall, Resume, PeerMove, TypeOK
  <2>6. \A f \in Fds : Readable(f) => Readable(f)'
    BY <2>1, <2>3, <2>4, <2>5 DEF Readable, HasInput, IsOpen
  <2>7. readfds \subseteq Fds
    BY DEF TypeOK
  <2>. QED BY <2>1, <2>2, <2>6, <2>7 DEF WalkInv, WalkableFrom, Remaining, InHandler
<1>. QED
  BY <1>1, <1>2, <1>3, <1>4, <1>5, <1>6, <1>7, <1>8 DEF Next, ServerStep
-------------------------------------------------------------------------------
(* The server starts with its tables, list and handler in order.           *)
LEMMA InitIInv == Init => IInv
<1> SUFFICES ASSUME Init PROVE IInv
  OBVIOUS
<1>1. TypeOK
  BY ConstFacts DEF Init, TypeOK, AllKinds
<1>2. \A fd \in Fds : fdtab[fd] = (IF fd = SockFd THEN "listener" ELSE "free")
  BY DEF Init
<1>3. KernelInv
  BY <1>2, ConstFacts DEF Init, KernelInv, IsOpen
<1>4. ToSet(client_fds) = {}
  BY DEF Init, ToSet
<1>5. ListInv
  BY <1>4, ConstFacts
  DEF Init, ListInv, Distinct, CountMatchesList, EveryClientWatched, Clients
<1>6. HandlerInv
  BY <1>2, ConstFacts DEF Init, HandlerInv, InHandler, NoLeakWithoutReset, IsOpen
<1>7. WalkInv
  BY DEF Init, WalkInv, InHandler
<1>. QED BY <1>1, <1>3, <1>5, <1>6, <1>7 DEF IInv

(* IInv is inductive.                                                      *)
THEOREM Invariance == Spec => []IInv
<1>1. IInv /\ [Next]_vars => IInv'
  BY TypeStep, KernelStep, ListStep, HandlerStep, WalkStep DEF IInv
<1>. QED BY InitIInv, <1>1, PTL DEF Spec

(* The types of the variables, including that no descriptor is ever used   *)
(* outside its table and no list is taken apart when it is empty.          *)
THEOREM TypeCorrect == Spec => []TypeOK
<1>1. IInv => TypeOK
  BY DEF IInv
<1>. QED BY Invariance, <1>1, PTL

(* client_fds holds distinct descriptors of open connections only.         *)
THEOREM RegisteredOpen == Spec => []RegisteredAreOpen
<1>1. IInv => RegisteredAreOpen
  <2> SUFFICES ASSUME IInv, Running, NEW i \in DOMAIN client_fds, NEW j \in DOMAIN client_fds,
                      client_fds[i] # NoFd
               PROVE  /\ fdtab[client_fds[i]] \in Conns
                      /\ client_fds[i] = client_fds[j] => i = j
    BY DEF RegisteredAreOpen
  <2>1. client_fds[i] \in Clients
    BY DEF IInv, TypeOK, Clients, ToSet
  <2>. QED BY <2>1 DEF IInv, ListInv, Distinct
<1>. QED BY Invariance, <1>1, PTL

(* client_cnt is the length of the list and respects MAX_CLIENT_CNT.       *)
THEOREM CountCorrect == Spec => []CountMatchesList
<1>1. IInv => CountMatchesList
  BY DEF IInv, ListInv
<1>. QED BY Invariance, <1>1, PTL

(* pselect's first argument covers every registered client.                *)
THEOREM ClientsWatched == Spec => []EveryClientWatched
<1>1. IInv => EveryClientWatched
  BY DEF IInv, ListInv
<1>. QED BY Invariance, <1>1, PTL

(* No read of the walk can block the server.                               *)
THEOREM NoBlockingRead == Spec => []ReadNeverBlocks
<1>1. IInv => ReadNeverBlocks
  BY DEF IInv, WalkInv, WalkableFrom, Remaining, InHandler, ReadNeverBlocks
<1>. QED BY Invariance, <1>1, PTL

(* Sockets leak only when their peers reset them.                          *)
THEOREM NoLeak == Spec => []NoLeakWithoutReset
<1>1. IInv => NoLeakWithoutReset
  BY DEF IInv, HandlerInv
<1>. QED BY Invariance, <1>1, PTL

(* The handler never closes another client's connection, although it may   *)
(* close its own descriptor twice.                                         *)
THEOREM ClosesOwn == Spec => ClosesOnlyItsOwn
<1>1. IInv /\ [Next]_vars =>
        [InHandler => \A c \in Conns : IsOpen(c) /\ ~IsOpen(c)' => c = serving]_vars
  <2> USE DEF procVars, handlerVars, netVars
  <2> SUFFICES ASSUME IInv, Next, InHandler, NEW c \in Conns, IsOpen(c), ~IsOpen(c)'
               PROVE  c = serving
    BY DEF vars
  <2> TypeOK /\ HandlerInv
    BY DEF IInv
  <2>1. PICK fd \in Fds : fdtab[fd] = c /\ fdtab'[fd] # c
    BY DEF IsOpen
  <2>2. CASE Respond
    BY <2>1, <2>2, ConstFacts DEF Respond, CloseFd, TypeOK, HandlerInv
  <2>3. CASE Finish
    <3>1. fdtab[infile] = "file"
      BY <2>3 DEF Finish, HandlerInv, Running
    <3>2. fd \in {client_fd, infile}
      BY <2>1, <2>3 DEF Finish, CloseBoth, CloseFd, TypeOK
    <3>. QED BY <2>1, <3>1, <3>2, ConstFacts DEF HandlerInv
  <2>4. CASE OpenFile
    <3>1. FreeFds # {} => fdtab[LowestFd] = "free"
      BY LowestFdIsFree DEF FreeFds
    <3>2. \/ UNCHANGED fdtab
          \/ FreeFds # {} /\ fdtab' = [fdtab EXCEPT ![LowestFd] = "file"]
      BY <2>4 DEF OpenFile, OpenFailed
    <3>. QED BY <2>1, <3>1, <3>2, ConstFacts DEF TypeOK
  <2>5. CASE Parse \/ SendHeader \/ SendChunk \/ EndFile \/ Advance \/ SigPipe \/ Environment
    BY <2>1, <2>5
    DEF Parse, SendHeader, SendChunk, EndFile, Advance, SigPipe, Environment, Interrupt,
      Connect, SendRequest, HalfClose, Reset, Stall, Resume, PeerMove
  <2>6. ~ (Register \/ PselectReady \/ PselectInterrupted \/ Shutdown \/ AcceptClient
           \/ AcceptNobody \/ EndPass \/ SkipClient
           \/ \E f \in Fds : ReadEof(f) \/ ReadRequest(f) \/ ReadError(f))
    BY DEF InHandler, Register, PselectReady, PselectInterrupted, Shutdown, AcceptClient,
      AcceptNobody, EndPass, SkipClient, ReadEof, ReadRequest, ReadError
  <2>. QED BY <2>2, <2>3, <2>4, <2>5, <2>6 DEF Next, ServerStep
<1>. QED BY Invariance, <1>1, PTL DEF Spec, ClosesOnlyItsOwn
-------------------------------------------------------------------------------
(* What HttpRefinementProofs needs of the end of the server.               *)

\* What a clean exit leaves open is a connection that its peer has reset.
ClosedButReset == pc = "exit_ok" => \A c \in Conns : IsOpen(c) => peer[c] = "rst"

(* After Shutdown there is no more step.                                   *)
LEMMA ExitIsFinal ==
  ASSUME Next, pc = "exit_ok"
  PROVE  FALSE
BY DEF Next, ServerStep, Environment, Register, PselectReady, PselectInterrupted, Shutdown,
   AcceptClient, AcceptNobody, EndPass, SkipClient, ReadEof, ReadRequest, ReadError, Parse,
   SendHeader, OpenFile, SendChunk, EndFile, Respond, Finish, Advance, SigPipe, Interrupt,
   Connect, HalfClose, Reset, Stall, Resume, PeerMove, SendRequest, Running

(* Only Shutdown exits cleanly.                                            *)
LEMMA OnlyShutdownExits ==
  ASSUME Next, pc' = "exit_ok"
  PROVE  Shutdown
<1> USE DEF procVars, handlerVars, netVars
<1>1. ASSUME ServerStep PROVE Shutdown
  BY <1>1 DEF ServerStep, Register, PselectReady, PselectInterrupted, AcceptClient, AcceptNobody,
     EndPass, SkipClient, ReadEof, ReadRequest, ReadError, LineIs, NoLine, Parse, SendHeader,
     OpenFile, OpenFailed, SendChunk, EndFile, Respond, Finish, Advance, SigPipe
<1>2. ASSUME Environment PROVE FALSE
  BY <1>2, ExitIsFinal DEF Next, Environment, Interrupt, Connect, HalfClose, Reset, Stall,
     Resume, PeerMove, SendRequest, Running
<1>. QED BY <1>1, <1>2 DEF Next

(* It closes every connection that is registered; the others leaked.       *)
LEMMA ShutdownCloses ==
  ASSUME IInv, Shutdown
  PROVE  ClosedButReset'
<1> SUFFICES ASSUME NEW c \in Conns, IsOpen(c)' PROVE peer'[c] = "rst"
  BY DEF ClosedButReset
<1>1. /\ pc = "dispatch" /\ peer' = peer
      /\ fdtab' = [fd \in Fds |-> IF fd \in ToSet(client_fds) \cup {SockFd}
                                   THEN "free" ELSE fdtab[fd]]
  BY DEF Shutdown, ClosedAtExit, netVars
<1>2. PICK fd \in Fds : fdtab'[fd] = c
  BY DEF IsOpen
<1>3. c # "free"
  BY ConstFacts
<1>4. fdtab[fd] = c /\ fd \notin ToSet(client_fds)
  BY <1>1, <1>2, <1>3
<1>5. IsOpen(c) /\ Running /\ ~InHandler
  BY <1>1, <1>4 DEF IsOpen, Running, InHandler
<1>6. ASSUME NEW f \in Clients, fdtab[f] = c PROVE FALSE
  <2>1. f \in Fds
    BY DEF Clients, IInv, TypeOK, ToSet
  <2>2. f = fd
    BY <1>4, <1>6, <2>1 DEF IInv, KernelInv
  <2>. QED BY <1>4, <2>2 DEF Clients
<1>. QED BY <1>1, <1>5, <1>6 DEF IInv, HandlerInv, NoLeakWithoutReset
===============================================================================
