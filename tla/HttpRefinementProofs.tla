------------------------- MODULE HttpRefinementProofs -------------------------
(***************************************************************************)
(* U09/http-server.c implements ConnectionService, for every value of the  *)
(* constants: each of its steps is a step of the service or changes        *)
(* nothing the service speaks of.  And when it exits with EXIT_OK, whom it *)
(* has sent anything it has disconnected.                                  *)
(***************************************************************************)
EXTENDS HttpServerProofs, SequenceTheorems

(* An open connection has left the accept queue and is not away.           *)
LEMMA OpenStage ==
  ASSUME IInv, NEW c \in Conns, IsOpen(c)
  PROVE  Stage(c) = "open" /\ peer[c] # "away" /\ c \notin ToSet(backlog)
<1>1. peer[c] # "away" /\ c \notin ToSet(backlog)
  BY DEF IInv, KernelInv, IsOpen, ToSet
<1>. QED BY <1>1 DEF Stage

(* The connection being answered is one to which something may be sent.    *)
LEMMA ServedIsNotUnanswered ==
  ASSUME IInv, InHandler, fdtab[client_fd] = serving
  PROVE  serving \in Conns /\ IsOpen(serving) /\ ~Unanswered(serving)
<1>1. serving \in Conns /\ client_fd \in Fds /\ client_fd \notin Clients
      /\ \A fd \in Fds : fdtab[fd] = serving => fd = client_fd
  BY DEF IInv, HandlerInv
<1>2. IsOpen(serving)
  BY <1>1 DEF IsOpen
<1>3. Clients \subseteq Fds
  BY DEF IInv, TypeOK, Clients, ToSet
<1>. QED BY <1>1, <1>2, <1>3, OpenStage DEF Unanswered

(* A header or a status is added to the answer of the connection served.   *)
LEMMA SendEffect ==
  ASSUME IInv, InHandler, NEW what \in {"header", "status"}, SendOk(what)
  PROVE  /\ fdtab[client_fd] = serving
         /\ reply' = [reply EXCEPT ![serving] = Append(@, what)]
<1>1. fdtab[client_fd] = serving
  BY ConstFacts DEF SendOk, IInv, HandlerInv
<1>. QED BY <1>1 DEF SendOk

(* A chunk is recorded once, however many there are.                       *)
LEMMA ChunkEffect ==
  ASSUME IInv, AnswerInv, pc = "body", SendOk("chunk")
  PROVE  /\ fdtab[client_fd] = serving
         /\ reply'[serving] = <<"header", "chunk">>
         /\ \A c \in Conns : c # serving => reply'[c] = reply[c]
         /\ \/ reply' = reply
            \/ /\ reply[serving] = <<"header">>
               /\ reply' = [reply EXCEPT ![serving] = Append(@, "chunk")]
<1>1. fdtab[client_fd] = serving /\ serving \in Conns
  BY DEF IInv, HandlerInv, InHandler
<1>2. reply \in [Conns -> Seq({"header", "chunk", "status"})]
  BY DEF IInv, TypeOK
<1>3. reply' = [reply EXCEPT ![serving] =
        IF @ # <<>> /\ Last(@) = "chunk" THEN @ ELSE Append(@, "chunk")]
  BY <1>1 DEF SendOk
<1>4. CASE reply[serving] = <<"header">>
  <2>1. Last(reply[serving]) = "header"
    BY <1>4 DEF Last
  <2>2. Append(<<"header">>, "chunk") = <<"header", "chunk">>
    <3> DEFINE s == Append(<<"header">>, "chunk")
    <3> DEFINE t == <<"header", "chunk">>
    <3>1. s \in Seq({"header", "chunk"}) /\ Len(s) = 2
      OBVIOUS
    <3>2. t \in Seq({"header", "chunk"}) /\ Len(t) = 2
      OBVIOUS
    <3>3. s[1] = t[1] /\ s[2] = t[2]
      OBVIOUS
    <3> HIDE DEF s, t
    <3>4. \A i \in 1 .. Len(s) : s[i] = t[i]
      BY <3>1, <3>3
    <3>5. s = t
      BY <3>1, <3>2, <3>4, SeqEqual
    <3>. QED BY <3>5 DEF s, t
  <2>. QED BY <1>1, <1>2, <1>3, <1>4, <2>1, <2>2
<1>5. CASE reply[serving] = <<"header", "chunk">>
  <2>1. reply[serving] # <<>> /\ Last(reply[serving]) = "chunk"
    BY <1>5 DEF Last
  <2>. QED BY <1>1, <1>2, <1>3, <1>5, <2>1
<1>. QED BY <1>1, <1>4, <1>5 DEF AnswerInv
-------------------------------------------------------------------------------
(* No step makes a connection wait for its answer again, but one that      *)
(* takes the place of another and has not been sent anything.              *)
LEMMA UnansweredShrinks ==
  ASSUME IInv, [Next]_vars, NEW c \in Conns, Unanswered(c)'
  PROVE  Unanswered(c) \/ reply'[c] = <<>>
<1> USE DEF procVars, handlerVars, netVars
<1> TypeOK /\ KernelInv /\ ListInv /\ HandlerInv
  BY DEF IInv
<1>1. CASE AcceptClient
  <2>1. backlog # <<>> /\ UNCHANGED peer /\ backlog \in Seq(Conns)
    BY <1>1, AcceptFacts DEF AcceptClient, TypeOK
  <2> DEFINE fd == IF FreeFds = {} THEN NoFd ELSE LowestFd
  <2>2. /\ fd \in Fds \cup {NoFd} /\ (FreeFds = {} => fd = NoFd)
        /\ FreeFds # {} => fd \in Fds /\ fdtab[fd] = "free"
    BY LowestFdIsFree DEF FreeFds
  <2>3. client_fds' = <<fd>> \o client_fds
    BY <1>1 DEF AcceptClient
  <2>4. \/ FreeFds = {} /\ UNCHANGED <<fdtab, backlog>>
        \/ /\ FreeFds # {} /\ backlog' = Tail(backlog)
           /\ fdtab' = [fdtab EXCEPT ![fd] = Head(backlog)]
    BY <1>1, <2>2, ConstFacts DEF AcceptClient
  <2> HIDE DEF fd
  <2>5. Head(backlog) \in ToSet(backlog) /\ ToSet(Tail(backlog)) \subseteq ToSet(backlog)
    <3>1. /\ Head(backlog) = backlog[1] /\ 1 \in DOMAIN backlog
          /\ \A i \in DOMAIN Tail(backlog) : i + 1 \in DOMAIN backlog
                                           /\ Tail(backlog)[i] = backlog[i + 1]
      BY <2>1
    <3>. QED BY <3>1 DEF ToSet
  <2>6. \A f \in ToSet(client_fds') : f = fd \/ f \in ToSet(client_fds)
    <3>1. /\ DOMAIN client_fds' = 1 .. Len(client_fds) + 1
          /\ \A i \in 1 .. Len(client_fds) + 1 :
               \/ client_fds'[i] = fd
               \/ i - 1 \in DOMAIN client_fds /\ client_fds'[i] = client_fds[i - 1]
      BY <2>3, <2>2 DEF TypeOK
    <3>. QED BY <3>1 DEF ToSet
  <2>7. ASSUME NEW f \in Clients', fdtab'[f] = c PROVE Unanswered(c)
    <3>1. f # NoFd /\ (f = fd \/ f \in Clients)
      BY <2>6, <2>7 DEF Clients
    <3>2. CASE f = fd
      <4>1. fd \in Fds /\ FreeFds # {}
        BY <2>2, <3>1, <3>2
      <4>2. FreeFds # {} /\ fdtab'[fd] = Head(backlog)
        BY <2>4, <4>1 DEF TypeOK
      <4>. QED BY <2>5, <2>7, <3>2, <4>2 DEF Unanswered
    <3>3. CASE f \in Clients /\ f # fd
      <4>1. f \in Fds
        BY <3>3 DEF TypeOK, Clients, ToSet
      <4>2. fdtab'[f] = fdtab[f]
        BY <2>4, <3>3, <4>1 DEF TypeOK
      <4>. QED BY <2>7, <3>3, <4>2 DEF Unanswered
    <3>. QED BY <3>1, <3>2, <3>3
  <2>. QED BY <2>1, <2>4, <2>5, <2>7 DEF Unanswered
<1>2. ASSUME Connect(c) PROVE reply'[c] = <<>>
  BY <1>2 DEF Connect, TypeOK
<1>3. ASSUME NEW d \in Conns, d # c, Connect(d) PROVE Unanswered(c)
  <2>1. UNCHANGED <<client_fds, fdtab>> /\ backlog' = Append(backlog, d) /\ peer'[c] = peer[c]
    BY <1>3 DEF Connect, TypeOK
  <2>2. /\ DOMAIN backlog' = 1 .. Len(backlog) + 1 /\ DOMAIN backlog = 1 .. Len(backlog)
        /\ \A i \in 1 .. Len(backlog) + 1 :
             (i \in DOMAIN backlog /\ backlog'[i] = backlog[i]) \/ backlog'[i] = d
    BY <2>1 DEF TypeOK
  <2>3. c \in ToSet(backlog') => c \in ToSet(backlog)
    BY <1>3, <2>2 DEF ToSet
  <2>. QED BY <2>1, <2>3 DEF Unanswered, Clients
<1>4. ASSUME NEW fd \in Fds, ReadRequest(fd) \/ ReadError(fd) PROVE Unanswered(c)
  <2>1. /\ pc = "visit" /\ IsReady(fd) /\ Forget(fd) /\ UNCHANGED <<backlog, peer>>
        /\ fdtab' \in {fdtab, CloseFd(fdtab, fd)}
    BY <1>4 DEF ReadRequest, ReadError
  <2>2. ToSet(client_fds') = ToSet(client_fds) \ {fd}
    BY <2>1, VisitFacts, RemovalFromDistinct DEF Forget, TypeOK, ListInv
  <2>3. \A f \in Clients' : f \in Clients /\ f # fd
    BY <2>2 DEF Clients
  <2>4. \A f \in Clients' : fdtab'[f] = fdtab[f]
    <3>1. Clients \subseteq Fds
      BY DEF TypeOK, Clients, ToSet
    <3>. QED BY <2>1, <2>3, <3>1 DEF CloseFd, TypeOK
  <2>. QED BY <2>1, <2>3, <2>4 DEF Unanswered
<1>5. CASE OpenFile
  <2>1. UNCHANGED <<client_fds, backlog, peer>>
    BY <1>5 DEF OpenFile
  <2>2. FreeFds # {} => LowestFd \in Fds /\ fdtab[LowestFd] = "free"
    BY LowestFdIsFree DEF FreeFds
  <2>3. \A f \in Fds : fdtab'[f] = c => fdtab[f] = c
    BY <1>5, <2>2, ConstFacts DEF OpenFile, OpenFailed, TypeOK
  <2>4. Clients \subseteq Fds
    BY DEF TypeOK, Clients, ToSet
  <2>. QED BY <2>1, <2>3, <2>4 DEF Unanswered, Clients
<1>6. CASE Shutdown \/ Respond \/ Finish
  <2>1. UNCHANGED <<client_fds, backlog, peer>>
    BY <1>6 DEF Shutdown, Respond, Finish
  <2>2. \A f \in Fds : fdtab'[f] = c => fdtab[f] = c
    BY <1>6, ConstFacts DEF Shutdown, Respond, Finish, CloseBoth, CloseFd, TypeOK
  <2>3. Clients \subseteq Fds
    BY DEF TypeOK, Clients, ToSet
  <2>. QED BY <2>1, <2>2, <2>3 DEF Unanswered, Clients
<1>7. ASSUME \/ Register \/ PselectReady \/ PselectInterrupted \/ AcceptNobody \/ EndPass
             \/ SkipClient \/ (\E fd \in Fds : ReadEof(fd)) \/ Advance \/ Parse
             \/ SendHeader \/ SendChunk \/ EndFile \/ SigPipe \/ Interrupt \/ UNCHANGED vars
      PROVE  Unanswered(c)
  <2>1. UNCHANGED <<client_fds, fdtab, backlog, peer>>
    BY <1>7 DEF Register, PselectReady, PselectInterrupted, AcceptNobody, EndPass,
      SkipClient, ReadEof, Advance, Parse, SendHeader, SendChunk, EndFile, SigPipe,
      Interrupt, vars
  <2>. QED BY <2>1 DEF Unanswered, Clients
<1>8. ASSUME NEW d \in Conns, NEW k \in Asks[d], SendRequest(d, k)
      PROVE  Unanswered(c)
  <2>1. UNCHANGED <<client_fds, fdtab, backlog>> /\ (peer'[c] = "away" => peer[c] = "away")
    BY <1>8 DEF SendRequest
  <2>. QED BY <2>1 DEF Unanswered, Clients
<1>9. ASSUME NEW d \in Conns, HalfClose(d) \/ Reset(d) \/ Stall(d) \/ Resume(d)
      PROVE  Unanswered(c)
  <2>1. UNCHANGED <<client_fds, fdtab, backlog>> /\ (peer'[c] = "away" => peer[c] = "away")
    BY <1>9 DEF HalfClose, Reset, Stall, Resume, PeerMove, TypeOK
  <2>. QED BY <2>1 DEF Unanswered, Clients
<1>. QED
  BY <1>1, <1>2, <1>3, <1>4, <1>5, <1>6, <1>7, <1>8, <1>9 DEF Next, ServerStep, Environment
-------------------------------------------------------------------------------
(* What the connections have been sent fits where the handler stands.      *)
LEMMA AnswerStep ==
  ASSUME IInv, IInv', AnswerInv, [Next]_vars
  PROVE  AnswerInv'
<1> USE DEF procVars, handlerVars, netVars
<1> TypeOK
  BY DEF IInv
<1>1. ASSUME \A c \in Conns :
         (c = serving /\ ~Unanswered(c)) \/ reply'[c] \in {reply[c], <<>>}
      PROVE  \A c \in Conns : Unanswered(c)' => reply'[c] = <<>>
  BY <1>1, UnansweredShrinks DEF AnswerInv
<1>2. CASE \/ Register \/ PselectReady \/ PselectInterrupted \/ Shutdown \/ AcceptClient
           \/ AcceptNobody \/ EndPass \/ SkipClient \/ (\E fd \in Fds : ReadEof(fd))
           \/ Finish \/ Advance \/ SigPipe
  <2>1. /\ pc' \notin {"parse", "header", "open", "body", "respond"} /\ UNCHANGED reply
    BY <1>2 DEF Register, PselectReady, PselectInterrupted, Shutdown, AcceptClient,
      AcceptNobody, EndPass, SkipClient, ReadEof, Finish, Advance, SigPipe
  <2>2. \A c \in Conns : Unanswered(c)' => reply'[c] = <<>>
    BY <1>1, <2>1
  <2>. QED BY <2>1, <2>2 DEF AnswerInv, Unanswered
<1>3. ASSUME NEW fd \in Fds, ReadRequest(fd) \/ ReadError(fd) PROVE AnswerInv'
  <2>1. /\ pc = "visit" /\ IsReady(fd) /\ UNCHANGED reply
        /\ pc' \in {"parse", "respond"} /\ serving' = fdtab[fd]
    BY <1>3 DEF ReadRequest, ReadError, LineIs, NoLine
  <2>2. fd \in Clients /\ fdtab[fd] \in Conns
    BY <2>1, VisitFacts, ConstFacts DEF Clients
  <2>3. reply'[serving'] = <<>>
    BY <2>1, <2>2 DEF AnswerInv, Unanswered
  <2>4. \A c \in Conns : Unanswered(c)' => reply'[c] = <<>>
    BY <1>1, <2>1
  <2>. QED BY <2>1, <2>3, <2>4 DEF AnswerInv, Unanswered
<1>4. CASE Parse \/ OpenFile \/ EndFile
  <2>1. UNCHANGED <<reply, serving, client_fd>>
    BY <1>4 DEF Parse, OpenFile, OpenFailed, EndFile
  <2>2. \A c \in Conns : Unanswered(c)' => reply'[c] = <<>>
    BY <1>1, <2>1
  <2>3. /\ pc = "parse" => pc' \in {"header", "respond", "died"}
        /\ pc = "open" => pc' \in {"body", "respond"}
        /\ pc = "body" => pc' \in {"finish", "respond"}
        /\ pc \in {"parse", "open", "body"}
    BY <1>4 DEF Parse, OpenFile, OpenFailed, EndFile
  <2>. QED BY <2>1, <2>2, <2>3 DEF AnswerInv, Unanswered
<1>5. CASE SendHeader
  <2>1. pc = "header" /\ InHandler /\ UNCHANGED serving
    BY <1>5 DEF SendHeader, InHandler
  <2>2. CASE SendFails /\ pc' = "advance"
    <3>1. \A c \in Conns : Unanswered(c)' => reply'[c] = <<>>
      BY <1>1, <2>2 DEF SendFails
    <3>. QED BY <2>2, <3>1 DEF AnswerInv, Unanswered
  <2>3. CASE SendOk("header") /\ pc' = "open"
    <3>1. fdtab[client_fd] = serving /\ reply' = [reply EXCEPT ![serving] = Append(@, "header")]
      BY <2>1, <2>3, SendEffect
    <3>2. serving \in Conns /\ ~Unanswered(serving)
      BY <2>1, <3>1, ServedIsNotUnanswered
    <3>3. reply'[serving] = <<"header">>
      <4>1. reply[serving] = <<>>
        BY <2>1 DEF AnswerInv
      <4>2. Append(<<>>, "header") = <<"header">>
        OBVIOUS
      <4>. QED BY <3>1, <3>2, <4>1, <4>2 DEF TypeOK
    <3>4. \A c \in Conns : Unanswered(c)' => reply'[c] = <<>>
      BY <1>1, <3>1, <3>2 DEF TypeOK
    <3>. QED BY <2>1, <2>3, <3>3, <3>4 DEF AnswerInv, Unanswered
  <2>. QED BY <1>5, <2>2, <2>3 DEF SendHeader
<1>6. CASE SendChunk
  <2>1. pc = "body" /\ pc' = "body" /\ InHandler /\ UNCHANGED serving
    BY <1>6 DEF SendChunk, InHandler
  <2>2. CASE SendFails
    <3>1. \A c \in Conns : Unanswered(c)' => reply'[c] = <<>>
      BY <1>1, <2>2 DEF SendFails
    <3>. QED BY <2>1, <2>2, <3>1 DEF AnswerInv, Unanswered, SendFails
  <2>3. CASE SendOk("chunk")
    <3>1. /\ fdtab[client_fd] = serving /\ reply'[serving] = <<"header", "chunk">>
          /\ \A c \in Conns : c # serving => reply'[c] = reply[c]
      BY <2>1, <2>3, ChunkEffect
    <3>2. serving \in Conns /\ ~Unanswered(serving)
      BY <2>1, <3>1, ServedIsNotUnanswered
    <3>3. \A c \in Conns : Unanswered(c)' => reply'[c] = <<>>
      BY <1>1, <3>1, <3>2
    <3>. QED BY <2>1, <3>1, <3>3 DEF AnswerInv, Unanswered
  <2>. QED BY <1>6, <2>2, <2>3 DEF SendChunk
<1>7. CASE Respond
  <2>1. pc = "respond" /\ pc' \in {"advance", "finish"} /\ InHandler
    BY <1>7 DEF Respond, InHandler
  <2>2. \A c \in Conns : (c = serving /\ ~Unanswered(c)) \/ reply'[c] = reply[c]
    <3>1. CASE SendFails
      BY <3>1 DEF SendFails
    <3>2. CASE SendOk("status")
      BY <2>1, <3>2, SendEffect, ServedIsNotUnanswered DEF TypeOK
    <3>. QED BY <1>7, <3>1, <3>2 DEF Respond
  <2>3. \A c \in Conns : Unanswered(c)' => reply'[c] = <<>>
    BY <1>1, <2>2
  <2>. QED BY <2>1, <2>3 DEF AnswerInv, Unanswered
<1>8. CASE Environment \/ UNCHANGED vars
  <2>1. /\ UNCHANGED <<pc, client_fd, serving, fdtab>>
        /\ \A c \in Conns : reply'[c] = reply[c] \/ (c # serving /\ reply'[c] = <<>>)
    BY <1>8 DEF vars, Environment, Interrupt, Connect, Fresh, SendRequest, HalfClose, Reset,
       Stall, Resume, PeerMove, TypeOK
  <2>2. \A c \in Conns : Unanswered(c)' => reply'[c] = <<>>
    BY <1>1, <2>1
  <2>3. pc \in {"parse", "header", "open", "body", "respond"} => reply'[serving] = reply[serving]
    <3>1. InHandler => serving \in Conns
      BY DEF IInv, HandlerInv
    <3>. QED BY <2>1, <3>1 DEF InHandler
  <2>. QED BY <2>1, <2>2, <2>3 DEF AnswerInv, Unanswered
<1>. QED
  BY <1>2, <1>3, <1>4, <1>5, <1>6, <1>7, <1>8 DEF Next, ServerStep
-------------------------------------------------------------------------------
(* A step that keeps the queue, the answers and who is open is no step of  *)
(* the service.                                                            *)
LEMMA SilentStep ==
  ASSUME UNCHANGED <<backlog, reply>>,
         \A c \in Conns : /\ peer'[c] = "away" <=> peer[c] = "away"
                          /\ IsOpen(c)' <=> IsOpen(c)
  PROVE  UNCHANGED Service!serviceVars
<1>1. \A c \in Conns : Stage(c)' = Stage(c)
  BY DEF Stage
<1>. QED BY <1>1 DEF Service!serviceVars

(* A step that opens and closes nothing but one open connection closes it. *)
LEMMA CloseStep ==
  ASSUME IInv, UNCHANGED <<backlog, peer, reply>>, NEW c \in Conns, IsOpen(c), ~IsOpen(c)',
         \A d \in Conns : d # c => (IsOpen(d)' <=> IsOpen(d))
  PROVE  Service!Close(c)
<1>1. \A d \in Conns : d # c => Stage(d)' = Stage(d)
  BY DEF Stage
<1>2. Stage(c) = "open" /\ Stage(c)' = "closed"
  BY OpenStage DEF Stage
<1>. QED BY <1>1, <1>2 DEF Service!Close

(* The stages before and after a send that may close the connection.       *)
LEMMA SendStep ==
  ASSUME IInv, UNCHANGED <<backlog, peer>>, NEW c \in Conns, IsOpen(c),
         \A d \in Conns : d # c => (IsOpen(d)' <=> IsOpen(d)),
         NEW what \in {"header", "chunk", "status"},
         Service!MaySend(reply[c], what), reply' = [reply EXCEPT ![c] = Append(@, what)]
  PROVE  Service!Send(c, what)
<1>1. \A d \in Conns : d # c => Stage(d)' = Stage(d)
  BY DEF Stage
<1>2. Stage(c) = "open" /\ Stage(c)' \in {"open", "closed"}
  BY OpenStage DEF Stage
<1>3. \/ UNCHANGED [d \in Conns |-> Stage(d)]
      \/ [d \in Conns |-> Stage(d)]' = [[d \in Conns |-> Stage(d)] EXCEPT ![c] = "closed"]
  BY <1>1, <1>2
<1>. QED BY <1>2, <1>3 DEF Service!Send

(* Every step of the server is one of the service or none.                 *)
LEMMA ServiceStep ==
  ASSUME IInv, AnswerInv, [Next]_vars
  PROVE  [Service!Next]_(Service!serviceVars)
<1> USE DEF procVars, handlerVars, netVars
<1> TypeOK /\ KernelInv /\ ListInv /\ HandlerInv
  BY DEF IInv
<1>1. CASE \/ Register \/ PselectReady \/ PselectInterrupted \/ AcceptNobody \/ EndPass
           \/ SkipClient \/ (\E fd \in Fds : ReadEof(fd) \/ ReadRequest(fd)) \/ Advance
           \/ Parse \/ EndFile \/ SigPipe \/ Interrupt \/ UNCHANGED vars
  <2>1. UNCHANGED <<fdtab, backlog, peer, reply>>
    BY <1>1 DEF Register, PselectReady, PselectInterrupted, AcceptNobody, EndPass,
      SkipClient, ReadEof, ReadRequest, Advance, Parse, EndFile, SigPipe, Interrupt, vars
  <2>. QED BY <2>1, SilentStep DEF IsOpen
<1>2. ASSUME NEW c \in Conns, HalfClose(c) \/ Reset(c) \/ Stall(c) \/ Resume(c)
      PROVE  UNCHANGED Service!serviceVars
  <2>1. /\ UNCHANGED <<fdtab, backlog, reply>> /\ peer[c] # "away"
        /\ \E to \in {"up", "fin", "rst", "stalled"} : peer' = [peer EXCEPT ![c] = to]
    BY <1>2 DEF HalfClose, Reset, Stall, Resume, PeerMove
  <2>2. \A d \in Conns : peer'[d] = "away" <=> peer[d] = "away"
    BY <2>1 DEF TypeOK
  <2>. QED BY <2>1, <2>2, SilentStep DEF IsOpen
<1>3. ASSUME NEW c \in Conns, NEW k \in Asks[c], SendRequest(c, k)
      PROVE  UNCHANGED Service!serviceVars
  <2>1. UNCHANGED <<fdtab, backlog, peer, reply>>
    BY <1>3 DEF SendRequest
  <2>. QED BY <2>1, SilentStep DEF IsOpen
<1>4. ASSUME NEW c \in Conns, Connect(c) PROVE Service!Enqueue(c)
  <2>1. /\ ~Connected(c) /\ peer' = [peer EXCEPT ![c] = "up"]
        /\ backlog' = Append(backlog, c) /\ UNCHANGED fdtab
        /\ reply' = [reply EXCEPT ![c] = <<>>]
    BY <1>4 DEF Connect, Fresh
  <2>2. /\ DOMAIN backlog' = 1 .. Len(backlog) + 1 /\ DOMAIN backlog = 1 .. Len(backlog)
        /\ \A i \in 1 .. Len(backlog) : backlog'[i] = backlog[i]
        /\ backlog'[Len(backlog) + 1] = c /\ Len(backlog) \in Nat
    BY <2>1 DEF TypeOK
  <2>3. c \in ToSet(backlog') /\ \A d : d # c => (d \in ToSet(backlog') <=> d \in ToSet(backlog))
    BY <2>2 DEF ToSet
  <2>4. Stage(c) \in {"away", "closed"} /\ Stage(c)' = "queued"
    BY <2>1, <2>3 DEF Stage, Connected, TypeOK
  <2>5. \A d \in Conns : d # c => Stage(d)' = Stage(d)
    BY <2>1, <2>3 DEF Stage, TypeOK, IsOpen
  <2>. QED BY <2>1, <2>4, <2>5 DEF Service!Enqueue
<1>5. ASSUME AcceptClient PROVE [Service!Next]_(Service!serviceVars)
  <2>1. backlog # <<>> /\ UNCHANGED <<peer, reply>>
    BY <1>5, AcceptFacts DEF AcceptClient
  <2>2. CASE FreeFds = {}
    <3>1. UNCHANGED <<fdtab, backlog>>
      BY <1>5, <2>2 DEF AcceptClient
    <3>. QED BY <2>1, <3>1, SilentStep DEF IsOpen
  <2>3. CASE FreeFds # {}
    <3>1. LowestFd \in Fds /\ fdtab[LowestFd] = "free" /\ LowestFd # NoFd
      BY <2>3, LowestFdIsFree, ConstFacts DEF FreeFds
    <3>2. PICK c \in Conns : c = Head(backlog)
      BY <2>1 DEF TypeOK
    <3>3. fdtab' = [fdtab EXCEPT ![LowestFd] = c] /\ backlog' = Tail(backlog)
      BY <1>5, <2>3, <3>1, <3>2 DEF AcceptClient
    <3>4. /\ backlog \in Seq(Conns) /\ c = backlog[1] /\ 1 \in DOMAIN backlog
          /\ \A i \in DOMAIN backlog' : i + 1 \in DOMAIN backlog /\ i + 1 # 1
                                       /\ backlog'[i] = backlog[i + 1]
          /\ \A i \in DOMAIN backlog : i = 1 \/ i - 1 \in DOMAIN backlog'
      BY <2>1, <3>2, <3>3 DEF TypeOK
    <3>5. ~IsOpen(c) /\ peer[c] # "away" /\ c \in ToSet(backlog) /\ c \notin ToSet(backlog')
      BY <3>4 DEF KernelInv, ToSet
    <3>6. \A d : d # c => (d \in ToSet(backlog') <=> d \in ToSet(backlog))
      <4>1. \A i \in DOMAIN backlog' : backlog'[i] \in ToSet(backlog)
        BY <3>4 DEF ToSet
      <4>2. \A i \in DOMAIN backlog :
               i # 1 => i - 1 \in DOMAIN backlog' /\ backlog'[i - 1] = backlog[i]
        BY <3>4 DEF TypeOK
      <4>. QED BY <3>4, <4>1, <4>2 DEF ToSet
    <3>7. IsOpen(c)' /\ \A d \in Conns : d # c => (IsOpen(d)' <=> IsOpen(d))
      <4>1. \A fd \in Fds : fdtab'[fd] = IF fd = LowestFd THEN c ELSE fdtab[fd]
        BY <3>3 DEF TypeOK
      <4>2. \A d \in Conns : d # fdtab[LowestFd]
        BY <3>1, ConstFacts
      <4>. QED BY <3>1, <4>1, <4>2 DEF IsOpen
    <3>8. Stage(c) = "queued" /\ Stage(c)' = "open"
      BY <2>1, <3>5, <3>7 DEF Stage
    <3>9. \A d \in Conns : d # c => Stage(d)' = Stage(d)
      BY <2>1, <3>6, <3>7 DEF Stage
    <3>10. Service!Accept
      BY <2>1, <3>2, <3>3, <3>8, <3>9 DEF Service!Accept
    <3>. QED BY <3>10 DEF Service!Next
  <2>. QED BY <2>2, <2>3
<1>6. ASSUME Shutdown PROVE Service!Shutdown
  <2>1. UNCHANGED <<backlog, peer, reply>>
    BY <1>6 DEF Shutdown
  <2>2. \A c \in Conns : IsOpen(c)' => IsOpen(c)
    BY <1>6, ConstFacts DEF Shutdown, IsOpen, TypeOK
  <2> DEFINE S == {c \in Conns : IsOpen(c) /\ ~IsOpen(c)'}
  <2>3. \A c \in S : Stage(c) = "open" /\ Stage(c)' = "closed"
    BY <2>1, OpenStage DEF Stage
  <2>4. \A c \in Conns \ S : Stage(c)' = Stage(c)
    BY <2>1, <2>2 DEF Stage
  <2> HIDE DEF S
  <2>5. S \in SUBSET {c \in Conns : [d \in Conns |-> Stage(d)][c] = "open"}
    BY <2>3 DEF S
  <2>6. [c \in Conns |-> Stage(c)]' =
        [c \in Conns |-> IF c \in S THEN "closed" ELSE [d \in Conns |-> Stage(d)][c]]
    BY <2>3, <2>4, <2>5
  <2>. QED BY <2>1, <2>5, <2>6 DEF Service!Shutdown
<1>7. ASSUME NEW fd \in Fds, ReadError(fd) PROVE \E c \in Conns : Service!Close(c)
  <2>1. /\ pc = "visit" /\ IsReady(fd) /\ UNCHANGED <<backlog, peer, reply>>
        /\ fdtab' = CloseFd(fdtab, fd)
    BY <1>7 DEF ReadError
  <2>2. PICK c \in Conns : c = fdtab[fd]
    BY <2>1, VisitFacts
  <2>3. IsOpen(c) /\ ~IsOpen(c)' /\ \A d \in Conns : d # c => (IsOpen(d)' <=> IsOpen(d))
    BY <2>1, <2>2, ConstFacts DEF CloseFd, IsOpen, TypeOK, KernelInv
  <2>. QED BY <2>1, <2>3, CloseStep
<1>8. ASSUME OpenFile PROVE UNCHANGED Service!serviceVars
  <2>1. UNCHANGED <<backlog, peer, reply>>
    BY <1>8 DEF OpenFile
  <2>2. FreeFds # {} => LowestFd \in Fds /\ fdtab[LowestFd] = "free"
    BY LowestFdIsFree DEF FreeFds
  <2>3. \A f \in Fds, d \in Conns : fdtab'[f] = d <=> fdtab[f] = d
    BY <1>8, <2>2, ConstFacts DEF OpenFile, OpenFailed, TypeOK
  <2>. QED BY <2>1, <2>3, SilentStep DEF IsOpen
<1>9. ASSUME SendHeader PROVE [Service!Next]_(Service!serviceVars)
  <2>1. pc = "header" /\ InHandler /\ UNCHANGED <<fdtab, backlog, peer>>
    BY <1>9 DEF SendHeader, InHandler
  <2>2. CASE SendFails
    BY <2>1, <2>2, SilentStep DEF SendFails, IsOpen
  <2>3. CASE SendOk("header")
    <3>1. fdtab[client_fd] = serving /\ reply' = [reply EXCEPT ![serving] = Append(@, "header")]
      BY <2>1, <2>3, SendEffect
    <3>2. PICK c \in Conns : c = serving /\ IsOpen(c) /\ reply[c] = <<>>
      BY <2>1, <3>1, ServedIsNotUnanswered DEF AnswerInv
    <3>3. Service!Send(c, "header")
      BY <2>1, <3>1, <3>2, SendStep DEF IsOpen, Service!MaySend
    <3>. QED BY <3>3 DEF Service!Next
  <2>. QED BY <1>9, <2>2, <2>3 DEF SendHeader
<1>10. ASSUME SendChunk PROVE [Service!Next]_(Service!serviceVars)
  <2>1. pc = "body" /\ InHandler /\ UNCHANGED <<fdtab, backlog, peer>>
    BY <1>10 DEF SendChunk, InHandler
  <2>2. CASE reply' = reply
    BY <2>1, <2>2, SilentStep DEF IsOpen
  <2>3. CASE SendOk("chunk") /\ reply' # reply
    <3>1. /\ fdtab[client_fd] = serving /\ reply[serving] = <<"header">>
          /\ reply' = [reply EXCEPT ![serving] = Append(@, "chunk")]
      BY <2>1, <2>3, ChunkEffect
    <3>2. PICK c \in Conns : c = serving /\ IsOpen(c)
      BY <2>1, <3>1, ServedIsNotUnanswered
    <3>3. Service!Send(c, "chunk")
      BY <2>1, <3>1, <3>2, SendStep DEF IsOpen, Service!MaySend
    <3>. QED BY <3>3 DEF Service!Next
  <2>. QED BY <1>10, <2>2, <2>3 DEF SendChunk, SendFails
<1>11. ASSUME Respond \/ Finish PROVE [Service!Next]_(Service!serviceVars)
  <2>1. /\ InHandler /\ UNCHANGED <<backlog, peer>> /\ client_fd \in Fds
        /\ \A fd \in Fds : fdtab[fd] = serving => fd = client_fd
        /\ fdtab[client_fd] \in {serving, "free"} /\ serving \in Conns
    BY <1>11 DEF Respond, Finish, InHandler, HandlerInv
  <2>2. PICK c \in Conns : c = serving
    BY <2>1
  <2>3. ~IsOpen(c)' /\ \A d \in Conns : d # c => (IsOpen(d)' <=> IsOpen(d))
    <3>1. Finish => fdtab[infile] = "file"
      BY DEF Finish, HandlerInv, Running
    <3>2. \A fd \in Fds : \/ fd # client_fd /\ fdtab'[fd] = fdtab[fd]
                          \/ fdtab'[fd] = "free" /\ fdtab[fd] \in {c, "free", "file"}
      BY <1>11, <2>1, <2>2, <3>1 DEF Respond, Finish, CloseBoth, CloseFd, TypeOK
    <3>. QED BY <2>1, <2>2, <3>2, ConstFacts DEF IsOpen
  <2>4. CASE UNCHANGED reply
    <3>1. CASE IsOpen(c)
      BY <2>1, <2>3, <2>4, <3>1, CloseStep DEF Service!Next
    <3>2. CASE ~IsOpen(c)
      BY <2>1, <2>3, <2>4, <3>2, SilentStep
    <3>. QED BY <3>1, <3>2
  <2>5. CASE Respond /\ SendOk("status")
    <3>1. fdtab[client_fd] = serving /\ reply' = [reply EXCEPT ![serving] = Append(@, "status")]
      BY <2>1, <2>5, SendEffect
    <3>2. IsOpen(c) /\ reply[c] \in {<<>>, <<"header">>, <<"header", "chunk">>}
      BY <2>1, <2>2, <2>5, <3>1, ServedIsNotUnanswered DEF AnswerInv, Respond
    <3>3. Service!Send(c, "status")
      BY <2>1, <2>2, <2>3, <3>1, <3>2, SendStep DEF Service!MaySend
    <3>. QED BY <3>3 DEF Service!Next
  <2>. QED BY <1>11, <2>4, <2>5 DEF Respond, Finish, SendFails
<1>. QED
  BY <1>1, <1>2, <1>3, <1>4, <1>5, <1>6, <1>7, <1>8, <1>9, <1>10, <1>11
  DEF Next, ServerStep, Environment, Service!Next

(* The answers hold what the handler's place says, in every state.         *)
THEOREM AnswersFit == Spec => []AnswerInv
<1>1. Init => AnswerInv
  <2> SUFFICES ASSUME Init PROVE AnswerInv
    OBVIOUS
  <2>. QED BY DEF Init, AnswerInv
<1>2. AnswerInv /\ IInv /\ IInv' /\ [Next]_vars => AnswerInv'
  BY AnswerStep
<1>. QED BY Invariance, <1>1, <1>2, PTL DEF Spec

(* The server implements the service it promises.                          *)
THEOREM Refinement == Spec => ImplementsService
<1>1. Init => Service!Init
  <2> SUFFICES ASSUME Init PROVE Service!Init
    OBVIOUS
  <2>. QED BY DEF Init, Service!Init, Stage
<1>2. IInv /\ AnswerInv /\ [Next]_vars => [Service!Next]_(Service!serviceVars)
  BY ServiceStep
<1>. QED BY Invariance, AnswersFit, <1>1, <1>2, PTL DEF Spec, ImplementsService, Service!Spec
-------------------------------------------------------------------------------
(* Nothing is sent to a connection that then stays open unattended.        *)
LEMMA SentStep ==
  ASSUME IInv, AnswerInv, SentInv, [Next]_vars
  PROVE  SentInv'
<1> USE DEF procVars, handlerVars, netVars
<1> TypeOK /\ KernelInv /\ HandlerInv
  BY DEF IInv
<1>1. ASSUME \/ Register \/ PselectReady \/ PselectInterrupted \/ AcceptNobody \/ EndPass
             \/ SkipClient \/ (\E fd \in Fds : ReadEof(fd))
      PROVE  SentInv'
  <2>1. UNCHANGED <<fdtab, reply>> /\ ~InHandler /\ pc' # "advance" /\ Running
    BY <1>1 DEF Register, PselectReady, PselectInterrupted, AcceptNobody, EndPass, SkipClient,
      ReadEof, InHandler, Running
  <2>. QED BY <2>1 DEF SentInv, IsOpen
<1>2. CASE Shutdown \/ SigPipe
  BY <1>2 DEF Shutdown, SigPipe, SentInv, Running
<1>3. CASE AcceptClient
  <2>1. /\ backlog # <<>> /\ backlog \in Seq(Conns) /\ UNCHANGED reply
        /\ ~InHandler /\ pc' = "visit" /\ Running
    BY <1>3, AcceptFacts DEF AcceptClient, TypeOK, InHandler, Running
  <2>2. reply[Head(backlog)] = <<>>
    <3>1. Head(backlog) = backlog[1] /\ 1 \in DOMAIN backlog /\ Head(backlog) \in Conns
      BY <2>1
    <3>. QED BY <3>1 DEF AnswerInv, Unanswered, ToSet
  <2>3. \A c \in Conns : IsOpen(c)' => c = Head(backlog) \/ IsOpen(c)
    <3>1. FreeFds # {} => LowestFd # NoFd
      BY LowestFdIsFree, ConstFacts DEF FreeFds
    <3>2. UNCHANGED fdtab \/ fdtab' = [fdtab EXCEPT ![LowestFd] = Head(backlog)]
      BY <1>3, <3>1 DEF AcceptClient
    <3>. QED BY <3>2 DEF IsOpen, TypeOK
  <2>. QED BY <2>1, <2>2, <2>3 DEF SentInv
<1>4. ASSUME NEW fd \in Fds, ReadRequest(fd) \/ ReadError(fd) PROVE SentInv'
  <2>1. /\ UNCHANGED reply /\ ~InHandler /\ Running /\ pc' \in {"parse", "respond"}
        /\ fdtab' \in {fdtab, CloseFd(fdtab, fd)}
    BY <1>4 DEF ReadRequest, ReadError, LineIs, NoLine, InHandler, Running
  <2>2. \A c \in Conns : IsOpen(c)' => IsOpen(c)
    BY <2>1, ConstFacts DEF CloseFd, IsOpen, TypeOK
  <2>. QED BY <2>1, <2>2 DEF SentInv
<1>5. CASE Parse \/ SendHeader \/ OpenFile \/ SendChunk \/ EndFile \/ Respond \/ Finish
  <2>1. InHandler /\ Running /\ UNCHANGED <<serving, client_fd>> /\ serving \in Conns
    BY <1>5 DEF Parse, SendHeader, OpenFile, OpenFailed, SendChunk, EndFile, Respond, Finish,
      InHandler, Running, HandlerInv
  <2>2. Running' => InHandler'
    BY <1>5 DEF Parse, SendHeader, OpenFile, OpenFailed, SendChunk, EndFile, Respond, Finish,
      InHandler, Running
  <2>3. \A c \in Conns : IsOpen(c)' => IsOpen(c)
    <3>1. FreeFds # {} => LowestFd \in Fds /\ fdtab[LowestFd] = "free"
      BY LowestFdIsFree DEF FreeFds
    <3>2. \A f \in Fds, d \in Conns : fdtab'[f] = d => fdtab[f] = d
      BY <1>5, <3>1, ConstFacts DEF Parse, SendHeader, OpenFile, OpenFailed, SendChunk, EndFile,
        Respond, Finish, CloseBoth, CloseFd, TypeOK
    <3>. QED BY <3>2 DEF IsOpen
  <2>4. \A c \in Conns : c # serving => reply'[c] = reply[c]
    <3>1. ASSUME NEW what \in {"header", "chunk", "status"}, SendOk(what) \/ SendFails
          PROVE  \A c \in Conns : c # serving => reply'[c] = reply[c]
      <4>1. fdtab[client_fd] \in {serving, "free"}
        BY <2>1 DEF HandlerInv
      <4>. QED BY <3>1, <4>1, ConstFacts DEF SendOk, SendFails, TypeOK
    <3>. QED BY <1>5, <3>1 DEF Parse, SendHeader, OpenFile, OpenFailed, SendChunk, EndFile,
           Respond, Finish
  <2>5. pc' = "advance" /\ fdtab'[client_fd] = serving => reply'[serving] = <<>>
    <3>1. CASE SendHeader
      BY <3>1 DEF SendHeader, SendFails, AnswerInv
    <3>2. CASE Respond \/ Finish
      <4>1. fdtab'[client_fd] = "free"
        BY <2>1, <3>2 DEF Respond, Finish, CloseBoth, CloseFd, TypeOK, HandlerInv
      <4>. QED BY <2>1, <4>1, ConstFacts
    <3>3. CASE Parse \/ OpenFile \/ SendChunk \/ EndFile
      BY <3>3 DEF Parse, OpenFile, OpenFailed, SendChunk, EndFile
    <3>. QED BY <1>5, <3>1, <3>2, <3>3
  <2>. QED BY <2>1, <2>2, <2>3, <2>4, <2>5 DEF SentInv
<1>6. CASE Advance
  <2>1. /\ UNCHANGED <<fdtab, reply>> /\ pc' \in {"visit", "died"} /\ pc = "advance"
        /\ InHandler /\ Running
    BY <1>6 DEF Advance, InHandler, Running
  <2>2. IsOpen(serving) => reply[serving] = <<>>
    BY <2>1 DEF HandlerInv, IsOpen, SentInv
  <2>. QED BY <2>1, <2>2 DEF SentInv, IsOpen
<1>7. CASE Environment \/ UNCHANGED vars
  <2>1. /\ UNCHANGED <<pc, client_fd, serving, fdtab>>
        /\ \A c \in Conns : reply'[c] = reply[c] \/ (c # serving /\ reply'[c] = <<>>)
    BY <1>7 DEF vars, Environment, Interrupt, Connect, Fresh, SendRequest, HalfClose, Reset,
       Stall, Resume, PeerMove, TypeOK
  <2>2. InHandler => serving \in Conns
    BY DEF HandlerInv
  <2>. QED BY <2>1, <2>2 DEF SentInv, InHandler, Running, IsOpen
<1>. QED
  BY <1>1, <1>2, <1>3, <1>4, <1>5, <1>6, <1>7 DEF Next, ServerStep

(* A connection that is open and not being served has been sent nothing.   *)
THEOREM SentAreServed == Spec => []SentInv
<1>1. Init => SentInv
  BY DEF Init, SentInv
<1>. QED BY <1>1, SentStep, Invariance, AnswersFit, PTL DEF Spec

(* http-server.c:142.  "Depending on whether all sockets were closed       *)
(* properly": what a clean exit leaves open are connections that their     *)
(* peers had reset and that had been sent nothing, in spite of resets at   *)
(* any moment and of descriptors that are used again.                      *)
THEOREM CleanExit == Spec => []CleanExitClosedAnswered
<1>1. Init => CleanExitClosedAnswered
  BY DEF Init, CleanExitClosedAnswered
<1>2. IInv /\ SentInv /\ CleanExitClosedAnswered /\ [Next]_vars => CleanExitClosedAnswered'
  <2>1. ASSUME CleanExitClosedAnswered, UNCHANGED vars PROVE CleanExitClosedAnswered'
    BY <2>1 DEF CleanExitClosedAnswered, IsOpen, vars, netVars
  <2>2. ASSUME IInv, SentInv, Shutdown PROVE CleanExitClosedAnswered'
    <3>1. pc = "dispatch" /\ UNCHANGED reply
      BY <2>2 DEF Shutdown
    <3>2. \A c \in Conns : IsOpen(c)' => IsOpen(c)
      BY <2>2, ConstFacts DEF Shutdown, IsOpen, IInv, TypeOK
    <3>3. \A c \in Conns : IsOpen(c)' => reply'[c] = <<>>
      BY <2>2, <3>1, <3>2 DEF SentInv, Running, InHandler
    <3>4. ClosedButReset'
      BY <2>2, ShutdownCloses
    <3>. QED BY <3>3, <3>4 DEF CleanExitClosedAnswered, ClosedButReset
  <2>3. ASSUME IInv, SentInv, Next PROVE CleanExitClosedAnswered'
    BY <2>2, <2>3, OnlyShutdownExits DEF CleanExitClosedAnswered
  <2>. QED BY <2>1, <2>3
<1>. QED BY <1>1, <1>2, Invariance, SentAreServed, PTL DEF Spec
===============================================================================
