------------------------------ MODULE ChatProofs ------------------------------
(***************************************************************************)
(* Theorems about Chat.  The TCP pair, for any number of clients, length   *)
(* of the message and number of runs: what the log on disk tells.  The     *)
(* Unix-domain pair, for any number of clients, inputs, sizes of buffer    *)
(* and queue and number of runs: what the server prints.                   *)
(***************************************************************************)
EXTENDS Chat, ListLemmas
-------------------------------------------------------------------------------
(* The TCP pair.                                                           *)

(* The loop knows whom it serves.                                          *)
ServesClient ==
  /\ pc \in {"log", "flush", "send", "close"} => client_sock_fd \in Clients
  /\ Running => run \in 1 .. MaxRuns

(* On its way to send, the entry of the client served is in the stream's   *)
(* buffer and then on the disk; so it is on the disk for all who were sent *)
(* something.                                                              *)
HasEntry(s, c) == \E i \in 1 .. Len(s) : s[i].client = c
EntryAhead ==
  /\ pc = "flush" => HasEntry(buffered, client_sock_fd)
  /\ pc = "send"  => HasEntry(log, client_sock_fd)

TcpInv == TypeOK /\ ServesClient /\ EntryAhead /\ ToldIsLogged
-------------------------------------------------------------------------------
(* An entry stays in a list that is extended, and in a flushed one.        *)
LEMMA EntryStays ==
  ASSUME NEW S, NEW s \in Seq(S), NEW t \in Seq(S), NEW c
  PROVE  /\ HasEntry(s, c) => HasEntry(s \o t, c)
         /\ HasEntry(t, c) => HasEntry(s \o t, c)
<1>1. /\ Len(s) \in Nat /\ Len(t) \in Nat /\ Len(s \o t) = Len(s) + Len(t)
      /\ \A i \in 1 .. Len(s) : (s \o t)[i] = s[i]
      /\ \A i \in 1 .. Len(t) : (s \o t)[Len(s) + i] = t[i]
  OBVIOUS
<1>2. ASSUME NEW i \in 1 .. Len(s), s[i].client = c PROVE HasEntry(s \o t, c)
  BY <1>1, <1>2 DEF HasEntry
<1>3. ASSUME NEW i \in 1 .. Len(t), t[i].client = c PROVE HasEntry(s \o t, c)
  <2>1. Len(s) + i \in 1 .. Len(s \o t) /\ (s \o t)[Len(s) + i].client = c
    BY <1>1, <1>3
  <2> QED BY <2>1 DEF HasEntry
<1> QED BY <1>2, <1>3 DEF HasEntry

(* What a step may do to the log: nothing, add an entry to the buffer,     *)
(* write the buffer out, or lose it when the process dies.                 *)
Keeps   == log' = log /\ buffered' = buffered
Prints  == /\ pc = "log" /\ pc' = "flush" /\ log' = log
           /\ \E a \in LoggedAddress :
                buffered' = Append(buffered, [client |-> client_sock_fd, addr |-> a, run |-> run])
Flushes == log' = log \o buffered /\ buffered' = <<>>
Loses   == pc' = "died" /\ log' = log /\ buffered' = <<>>

(* Whatever ends the process, the buffer is written out or lost.           *)
LEMMA EndEffect ==
  ASSUME NEW how, EndAs(how)
  PROVE  Flushes \/ Loses
BY DEF EndAs, Flushes, Loses

(* No step does anything else to the log.                                  *)
LEMMA LogSteps ==
  ASSUME TcpNext
  PROVE  Keeps \/ Prints \/ Flushes \/ Loses
<1>1. CASE ServerStep
  BY <1>1, EndEffect DEF ServerStep, InstallHandler, OpenLog, CreateSocket, BindAndListen,
     CallFails, Accept, PrintLog, FlushLog, Flushed, Send, SendFails, CloseClient, ShutDownLog,
     CloseLog, ShutDownSocket, Keeps, Prints, Flushes, serverVars
<1>2. CASE Environment
  BY <1>2, EndEffect DEF Environment, StartServer, AcceptFails, Interrupt, Kill, Connect,
     KillClient, Keeps, serverVars
<1>3. ASSUME NEW c \in Clients, ClientStep(c) PROVE Keeps
  BY <1>3 DEF ClientStep, RecvEof, RecvFails, Recv, Keeps, serverVars
<1> QED BY <1>1, <1>2, <1>3 DEF TcpNext

(* An exit, a failing call or a kill: types.                               *)
LEMMA EndTypes ==
  ASSUME TypeOK, NEW how \in {"exit_ok", "exit_error", "died"}, EndAs(how)
  PROVE  TypeOK' /\ ~Running'
<1>1. conn' \in [Clients -> {"none", "open", "fin", "rst", "gone"}]
  BY DEF EndAs, ConnsAfterEnd, TypeOK
<1>2. log' \in Seq(Entry) /\ buffered' \in Seq(Entry)
  BY DEF EndAs, TypeOK
<1>3. pc' \in Ended
  BY DEF EndAs, Ended
<1> QED BY <1>1, <1>2, <1>3 DEF EndAs, clientVars, TypeOK, Running

(* Types, and the client that is served, over the steps of the server ...  *)
LEMMA ServerTypes ==
  ASSUME TypeOK, ServesClient, ServerStep
  PROVE  TypeOK' /\ ServesClient'
<1> USE TcpAssumption
<1>1. CASE InstallHandler \/ OpenLog \/ CreateSocket \/ BindAndListen
  BY <1>1 DEF InstallHandler, OpenLog, CreateSocket, BindAndListen, serverVars, clientVars, netVars,
     TypeOK, ServesClient, Running, Ended
<1>2. CASE CallFails
  BY <1>2, EndTypes DEF CallFails, ServesClient, EndAs, Ended
<1>3. CASE Accept
  <2>1. Head(backlog) \in Clients /\ Tail(backlog) \in Seq(Clients)
    BY <1>3 DEF Accept, TypeOK
  <2> QED BY <1>3, <2>1 DEF Accept, clientVars, TypeOK, ServesClient, Running, Ended
<1>4. CASE PrintLog
  <2>1. PICK a \in LoggedAddress :
          buffered' = Append(buffered, [client |-> client_sock_fd, addr |-> a, run |-> run])
    BY <1>4 DEF PrintLog
  <2>2. [client |-> client_sock_fd, addr |-> a, run |-> run] \in Entry
    BY <1>4, <2>1 DEF PrintLog, LoggedAddress, Entry, ServesClient, Running, Ended
  <2>3. buffered' \in Seq(Entry)
    BY <2>1, <2>2 DEF TypeOK
  <2> QED BY <1>4, <2>3 DEF PrintLog, LenAfterAccept, clientVars, netVars, TypeOK, ServesClient,
             Running, Ended
<1>5. CASE FlushLog
  <2>1. log' \in Seq(Entry) /\ buffered' \in Seq(Entry)
    BY <1>5 DEF FlushLog, Flushed, TypeOK
  <2> QED BY <1>5, <2>1 DEF FlushLog, clientVars, netVars, TypeOK, ServesClient, Running, Ended
<1>6. CASE Send
  <2>1. wire' \in [Clients -> 0 .. MsgLen]
    <3>1. MsgLen \in 0 .. MsgLen
      OBVIOUS
    <3>2. wire \in [Clients -> 0 .. MsgLen] /\ wire' = [wire EXCEPT ![client_sock_fd] = MsgLen]
      BY <1>6 DEF Send, TypeOK
    <3> QED BY ONLY <3>1, <3>2
  <2> QED BY <1>6, <2>1 DEF Send, serverVars, clientVars, TypeOK, ServesClient, Running, Ended
<1>7. CASE SendFails
  BY <1>7, EndTypes DEF SendFails, ServesClient, EndAs, Ended
<1>8. CASE CloseClient
  <2>1. conn' \in [Clients -> {"none", "open", "fin", "rst", "gone"}]
    BY <1>8 DEF CloseClient, ClosedByServer, TypeOK
  <2> QED BY <1>8, <2>1 DEF CloseClient, clientVars, TypeOK, ServesClient, Running, Ended
<1>9. CASE ShutDownLog
  <2>1. CASE logfile = "none" /\ EndAs("died")
    BY <2>1, EndTypes DEF ServesClient, EndAs, Ended
  <2>2. CASE ~(logfile = "none" /\ EndAs("died"))
    <3>1. log' \in Seq(Entry) /\ buffered' \in Seq(Entry)
      <4>1. log' = log \o buffered /\ buffered' = <<>>
        BY <1>9, <2>2 DEF ShutDownLog, CloseLog
      <4> QED BY <4>1 DEF TypeOK
    <3> QED BY <1>9, <2>2, <3>1 DEF ShutDownLog, CloseLog, clientVars, netVars, TypeOK,
               ServesClient, Running, Ended
  <2> QED BY <2>1, <2>2
<1>10. CASE ShutDownSocket
  BY <1>10, EndTypes DEF ShutDownSocket, ServesClient, EndAs, Ended
<1> QED BY <1>1, <1>2, <1>3, <1>4, <1>5, <1>6, <1>7, <1>8, <1>9, <1>10 DEF ServerStep

(* ... of the user and of clients that come and are killed ...             *)
LEMMA EnvironmentTypes ==
  ASSUME TypeOK, ServesClient, Environment
  PROVE  TypeOK' /\ ServesClient'
<1> USE TcpAssumption
<1>1. CASE StartServer
  BY <1>1 DEF StartServer, clientVars, netVars, TypeOK, ServesClient, Running, Ended
<1>2. CASE AcceptFails \/ Kill
  BY <1>2, EndTypes DEF AcceptFails, Kill, ServesClient, EndAs, Ended
<1>3. CASE Interrupt
  <2>1. CASE EndAs("died")
    BY <2>1, EndTypes DEF ServesClient, EndAs, Ended
  <2>2. CASE ~EndAs("died")
    BY <1>3, <2>2 DEF Interrupt, serverVars, clientVars, netVars, TypeOK, ServesClient,
       Running, Ended
  <2> QED BY <2>1, <2>2
<1>4. ASSUME NEW c \in Clients, Connect(c) PROVE TypeOK' /\ ServesClient'
  <2>1. backlog' \in Seq(Clients)
    BY <1>4 DEF Connect, TypeOK
  <2>2. client' \in [Clients -> {"away", "recv", "done", "failed"}]
        /\ conn' \in [Clients -> {"none", "open", "fin", "rst", "gone"}]
    BY <1>4 DEF Connect, TypeOK
  <2> QED BY <1>4, <2>1, <2>2 DEF Connect, serverVars, TypeOK, ServesClient, Running, Ended
<1>5. ASSUME NEW c \in Clients, KillClient(c) PROVE TypeOK' /\ ServesClient'
  <2>1. client' \in [Clients -> {"away", "recv", "done", "failed"}]
        /\ conn' \in [Clients -> {"none", "open", "fin", "rst", "gone"}]
    BY <1>5 DEF KillClient, TypeOK
  <2> QED BY <1>5, <2>1 DEF KillClient, serverVars, TypeOK, ServesClient, Running, Ended
<1> QED BY <1>1, <1>2, <1>3, <1>4, <1>5 DEF Environment

(* ... and of the clients.                                                 *)
LEMMA ClientTypes ==
  ASSUME TypeOK, ServesClient, NEW c \in Clients, ClientStep(c)
  PROVE  TypeOK' /\ ServesClient'
<1> USE TcpAssumption
<1>1. CASE RecvEof(c) \/ RecvFails(c)
  <2>1. client' \in [Clients -> {"away", "recv", "done", "failed"}]
    BY <1>1 DEF RecvEof, RecvFails, TypeOK
  <2>2. shown' \in [Clients -> Seq({"message", "fragment", "closed"})]
    <3>1. shown' = shown \/ shown' = [shown EXCEPT ![c] = Append(shown[c], "closed")]
      BY <1>1 DEF RecvEof, RecvFails
    <3>2. shown \in [Clients -> Seq({"message", "fragment", "closed"})]
      BY DEF TypeOK
    <3>3. Append(shown[c], "closed") \in Seq({"message", "fragment", "closed"})
      BY <3>2
    <3> QED BY <3>1, <3>2, <3>3
  <2>3. UNCHANGED <<pc, serverVars, got, log, netVars, run, sigint>>
    BY <1>1 DEF RecvEof, RecvFails
  <2>4. TypeOK'
    BY <2>1, <2>2, <2>3 DEF serverVars, netVars, TypeOK
  <2> QED BY <2>3, <2>4 DEF serverVars, ServesClient, Running
<1>2. ASSUME NEW n \in 1 .. MsgLen, Recv(c, n) PROVE TypeOK' /\ ServesClient'
  <2>1. got' \in [Clients -> 0 .. MsgLen]
    <3>1. got[c] \in 0 .. MsgLen /\ wire[c] \in 0 .. MsgLen /\ n <= wire[c] - got[c]
      BY <1>2 DEF Recv, TypeOK
    <3>2. got[c] + n \in 0 .. MsgLen
      BY <3>1
    <3> QED BY <1>2, <3>2 DEF Recv, TypeOK
  <2>2. shown' \in [Clients -> Seq({"message", "fragment", "closed"})]
    <3> DEFINE printed == IF n = MsgLen THEN "message" ELSE "fragment"
    <3>1. printed \in {"message", "fragment", "closed"}
      OBVIOUS
    <3>2. shown[c] \in Seq({"message", "fragment", "closed"})
      BY DEF TypeOK
    <3>3. Append(shown[c], printed) \in Seq({"message", "fragment", "closed"})
      BY <3>1, <3>2
    <3>4. shown' = [shown EXCEPT ![c] = Append(shown[c], printed)]
      BY <1>2 DEF Recv
    <3>5. shown \in [Clients -> Seq({"message", "fragment", "closed"})]
      BY DEF TypeOK
    <3> HIDE DEF printed
    <3> QED BY <3>3, <3>4, <3>5
  <2> QED BY <1>2, <2>1, <2>2 DEF Recv, serverVars, netVars, TypeOK, ServesClient, Running, Ended
<1> QED BY <1>1, <1>2 DEF ClientStep

(* Every step keeps the types and whom the server serves.                  *)
LEMMA StepTypes ==
  ASSUME TypeOK, ServesClient, [TcpNext]_tcpVars
  PROVE  TypeOK' /\ ServesClient'
<1>1. CASE UNCHANGED tcpVars
  BY <1>1 DEF tcpVars, serverVars, clientVars, netVars, TypeOK, ServesClient, Running, Ended
<1> QED BY <1>1, ServerTypes, EnvironmentTypes, ClientTypes DEF TcpNext

(* They hold at the start.                                                 *)
LEMMA InitTypes ==
  ASSUME NEW n \in 0 .. MaxRuns, TcpStart(n)
  PROVE  TypeOK /\ ServesClient
BY TcpAssumption DEF TcpStart, TypeOK, ServesClient, Running, Ended
-------------------------------------------------------------------------------
(* Where the loop is: nothing but PrintLog enters "flush", FlushLog        *)
(* "send", Send writes to a connection; nothing else happens to whom is    *)
(* served in between.                                                      *)
LEMMA EntersFlush ==
  ASSUME TcpNext, pc' = "flush"
  PROVE  (Prints \/ (pc = "flush" /\ Keeps)) /\ client_sock_fd' = client_sock_fd
<1> USE DEF Prints, Keeps
<1>1. CASE ServerStep
  BY <1>1 DEF ServerStep, InstallHandler, OpenLog, CreateSocket, BindAndListen, CallFails, Accept,
     PrintLog, FlushLog, Send, SendFails, CloseClient, ShutDownLog, CloseLog, ShutDownSocket, EndAs
<1>2. CASE Environment
  BY <1>2 DEF Environment, StartServer, AcceptFails, Interrupt, Kill, Connect, KillClient, EndAs,
     serverVars
<1>3. ASSUME NEW c \in Clients, ClientStep(c)
      PROVE  (pc = "flush" /\ Keeps) /\ client_sock_fd' = client_sock_fd
  BY <1>3 DEF ClientStep, RecvEof, RecvFails, Recv, serverVars
<1> QED BY <1>1, <1>2, <1>3 DEF TcpNext

(* Likewise for "send".                                                    *)
LEMMA EntersSend ==
  ASSUME TcpNext, pc' = "send"
  PROVE  ((pc = "flush" /\ Flushes) \/ (pc = "send" /\ Keeps)) /\ client_sock_fd' = client_sock_fd
<1> USE DEF Flushes, Keeps
<1>1. CASE ServerStep
  BY <1>1 DEF ServerStep, InstallHandler, OpenLog, CreateSocket, BindAndListen, CallFails, Accept,
     PrintLog, FlushLog, Flushed, Send, SendFails, CloseClient, ShutDownLog, CloseLog,
     ShutDownSocket, EndAs
<1>2. CASE Environment
  BY <1>2 DEF Environment, StartServer, AcceptFails, Interrupt, Kill, Connect, KillClient, EndAs,
     serverVars
<1>3. ASSUME NEW c \in Clients, ClientStep(c)
      PROVE  (pc = "send" /\ Keeps) /\ client_sock_fd' = client_sock_fd
  BY <1>3 DEF ClientStep, RecvEof, RecvFails, Recv, serverVars
<1> QED BY <1>1, <1>2, <1>3 DEF TcpNext

(* Only Send puts anything on the wire, for the client served.             *)
LEMMA WritesToOne ==
  ASSUME TcpNext
  PROVE  \/ wire' = wire
         \/ pc = "send" /\ Keeps /\ wire' = [wire EXCEPT ![client_sock_fd] = MsgLen]
<1> USE DEF Keeps
<1>1. CASE ServerStep
  BY <1>1 DEF ServerStep, InstallHandler, OpenLog, CreateSocket, BindAndListen, CallFails, Accept,
     PrintLog, FlushLog, Send, SendFails, CloseClient, ShutDownLog, ShutDownSocket, EndAs,
     serverVars, netVars
<1>2. CASE Environment
  BY <1>2 DEF Environment, StartServer, AcceptFails, Interrupt, Kill, Connect, KillClient, EndAs,
     netVars
<1>3. ASSUME NEW c \in Clients, ClientStep(c) PROVE wire' = wire
  BY <1>3 DEF ClientStep, RecvEof, RecvFails, Recv, netVars
<1> QED BY <1>1, <1>2, <1>3 DEF TcpNext

(* The invariant holds from the start ...                                  *)
LEMMA InitTcpInv ==
  ASSUME NEW n \in 0 .. MaxRuns, TcpStart(n)
  PROVE  TcpInv
<1>1. EntryAhead /\ ToldIsLogged
  BY DEF TcpStart, EntryAhead, ToldIsLogged
<1> QED BY <1>1, InitTypes DEF TcpInv

(* ... and no entry that is on the disk goes away.                         *)
LEMMA LoggedStays ==
  ASSUME TypeOK, TcpNext, NEW c
  PROVE  HasEntry(log, c) => HasEntry(log', c)
<1>1. log \in Seq(Entry) /\ buffered \in Seq(Entry)
  BY DEF TypeOK
<1>2. log' = log \/ log' = log \o buffered
  BY LogSteps DEF Keeps, Prints, Flushes, Loses
<1> QED BY <1>1, <1>2, EntryStays

(* The entry of the client served stays ahead of the message.              *)
LEMMA StepKeepsEntry ==
  ASSUME TypeOK, ServesClient, EntryAhead, TcpNext
  PROVE  EntryAhead'
<1>0. log \in Seq(Entry) /\ buffered \in Seq(Entry)
  BY DEF TypeOK
<1>1. ASSUME pc' = "flush" PROVE HasEntry(buffered', client_sock_fd')
  <2>1. CASE Prints
    <3>1. PICK a \in LoggedAddress :
            buffered' = Append(buffered, [client |-> client_sock_fd, addr |-> a, run |-> run])
      BY <2>1 DEF Prints
    <3>2. /\ Len(buffered') = Len(buffered) + 1 /\ Len(buffered) \in Nat
          /\ buffered'[Len(buffered) + 1] = [client |-> client_sock_fd, addr |-> a, run |-> run]
      BY <1>0, <3>1
    <3>3. Len(buffered) + 1 \in 1 .. Len(buffered') /\ client_sock_fd' = client_sock_fd
      BY <1>1, <3>2, EntersFlush
    <3> QED BY <3>2, <3>3 DEF HasEntry
  <2>2. CASE pc = "flush" /\ Keeps
    BY <1>1, <2>2, EntersFlush DEF EntryAhead, Keeps
  <2> QED BY <1>1, <2>1, <2>2, EntersFlush
<1>2. ASSUME pc' = "send" PROVE HasEntry(log', client_sock_fd')
  <2>1. CASE pc = "flush" /\ Flushes
    <3>1. HasEntry(log \o buffered, client_sock_fd)
      BY <1>0, <2>1, EntryStays DEF EntryAhead
    <3> QED BY <1>2, <2>1, <3>1, EntersSend DEF Flushes
  <2>2. CASE pc = "send" /\ Keeps
    BY <1>2, <2>2, EntersSend DEF EntryAhead, Keeps
  <2> QED BY <1>2, <2>1, <2>2, EntersSend
<1> QED BY <1>1, <1>2 DEF EntryAhead

(* Who is sent something is in the log already.                            *)
LEMMA StepKeepsTold ==
  ASSUME TcpInv, TcpNext
  PROVE  ToldIsLogged'
<1>0. wire \in [Clients -> 0 .. MsgLen]
  BY DEF TcpInv, TypeOK
<1>1. SUFFICES ASSUME NEW c \in Clients, wire'[c] > 0 PROVE HasEntry(log', c)
  BY DEF ToldIsLogged, IsLogged, HasEntry
<1>2. CASE wire'[c] = wire[c]
  <2>1. HasEntry(log, c)
    BY <1>1, <1>2 DEF TcpInv, ToldIsLogged, IsLogged, HasEntry
  <2> QED BY <2>1, LoggedStays DEF TcpInv
<1>3. CASE wire'[c] # wire[c]
  <2>1. pc = "send" /\ c = client_sock_fd
    BY <1>0, <1>3, WritesToOne
  <2>2. HasEntry(log, c)
    BY <2>1 DEF TcpInv, EntryAhead
  <2> QED BY <2>2, LoggedStays DEF TcpInv
<1> QED BY <1>2, <1>3

(* Every step keeps the invariant.                                         *)
LEMMA StepKeepsTcpInv ==
  ASSUME TcpInv, [TcpNext]_tcpVars
  PROVE  TcpInv'
<1>1. CASE TcpNext
  BY <1>1, StepTypes, StepKeepsEntry, StepKeepsTold DEF TcpInv
<1>2. CASE UNCHANGED tcpVars
  <2>1. EntryAhead' /\ ToldIsLogged'
    BY <1>2 DEF TcpInv, EntryAhead, HasEntry, ToldIsLogged, IsLogged, tcpVars, serverVars, netVars
  <2> QED BY <1>2, <2>1, StepTypes DEF TcpInv
<1> QED BY <1>1, <1>2

(* Chat starts and goes on like the TCP pair, or leaves it alone.          *)
LEMMA TcpPart ==
  /\ Init => \E n \in 0 .. MaxRuns : TcpStart(n)
  /\ [Next]_<<tcpVars, udsVars>> => [TcpNext]_tcpVars
<1>1. 0 \in 0 .. MaxRuns /\ MaxRuns \in 0 .. MaxRuns
  BY TcpAssumption
<1>2. Init => TcpStart(0) \/ TcpStart(MaxRuns)
  BY DEF Init, TcpInit, TcpOff
<1>3. [Next]_<<tcpVars, udsVars>> => [TcpNext]_tcpVars
  BY DEF Next
<1> QED BY <1>1, <1>2, <1>3

(* TcpInv is an inductive invariant of both programs and what surrounds    *)
(* them.                                                                   *)
THEOREM Invariance == Spec => []TcpInv
<1>1. Init => TcpInv
  BY TcpPart, InitTcpInv
<1>2. TcpInv /\ [Next]_<<tcpVars, udsVars>> => TcpInv'
  BY TcpPart, StepKeepsTcpInv
<1> QED BY <1>1, <1>2, PTL DEF Spec

(* tcp-server.c:104-113.  Whoever was sent the message is in the log on    *)
(* disk, whatever happened to the server since.                            *)
THEOREM ToldAreLogged == Spec => []ToldIsLogged
<1>1. TcpInv => ToldIsLogged
  BY DEF TcpInv
<1> QED BY <1>1, Invariance, PTL
-------------------------------------------------------------------------------
(* A list is a prefix of what it is extended to.                           *)
LEMMA PrefixOfConcat ==
  ASSUME NEW S, NEW s \in Seq(S), NEW t \in Seq(S)
  PROVE  IsPrefix(s, s \o t) /\ IsPrefix(s, s)
<1>1. /\ Len(s) \in Nat /\ Len(t) \in Nat /\ Len(s \o t) = Len(s) + Len(t)
      /\ s \o t \in Seq(S)
  OBVIOUS
<1>2. SubSeq(s \o t, 1, Len(s)) = s
  BY SubSeqOfConcat1, SubSeqFull, <1>1
<1>3. SubSeq(s, 1, Len(s)) = s
  BY SubSeqFull
<1> QED BY <1>1, <1>2, <1>3 DEF IsPrefix

(* What a step keeps of the log, and of the log and its buffer.            *)
LEMMA StepKeepsLog ==
  ASSUME TypeOK, TcpNext
  PROVE  /\ IsPrefix(log, log')
         /\ pc' # "died" => IsPrefix(log \o buffered, log' \o buffered')
<1>0. log \in Seq(Entry) /\ buffered \in Seq(Entry) /\ log \o buffered \in Seq(Entry)
  BY DEF TypeOK
<1>1. CASE Keeps
  BY <1>0, <1>1, PrefixOfConcat DEF Keeps
<1>2. CASE Prints
  <2>1. PICK a \in LoggedAddress :
          buffered' = Append(buffered, [client |-> client_sock_fd, addr |-> a, run |-> run])
    BY <1>2 DEF Prints
  <2> DEFINE e == [client |-> client_sock_fd, addr |-> a, run |-> run]
  <2>2. /\ log \in Seq(Entry \cup {e}) /\ buffered \in Seq(Entry \cup {e})
        /\ <<e>> \in Seq(Entry \cup {e})
    BY <1>0, SeqMonotonic
  <2> HIDE DEF e
  <2>3. log \o Append(buffered, e) = (log \o buffered) \o <<e>>
    BY <2>2, AppendIsConcat, ConcatAssociative
  <2>4. log \o buffered \in Seq(Entry \cup {e})
    BY <2>2
  <2>5. log' = log /\ log' \o buffered' = (log \o buffered) \o <<e>>
    BY <1>2, <2>1, <2>3 DEF Prints, e
  <2> QED BY <1>0, <2>2, <2>4, <2>5, PrefixOfConcat
<1>3. CASE Flushes
  <2>1. log' \o buffered' = log \o buffered
    BY <1>0, <1>3 DEF Flushes
  <2> QED BY <1>0, <1>3, <2>1, PrefixOfConcat DEF Flushes
<1>4. CASE Loses
  BY <1>0, <1>4, PrefixOfConcat DEF Loses
<1> QED BY <1>1, <1>2, <1>3, <1>4, LogSteps

(* tcp-server.c:29.  No step takes an entry from the log, and none that    *)
(* was printed gets lost unless the process is killed or crashes.          *)
THEOREM KeepsTheLog == Spec => LogIsKept
<1>1. TcpInv /\ [Next]_<<tcpVars, udsVars>> =>
        [/\ IsPrefix(log, log')
         /\ pc' # "died" => IsPrefix(log \o buffered, log' \o buffered')]_tcpVars
  BY TcpPart, StepKeepsLog DEF TcpInv
<1> QED BY <1>1, Invariance, PTL DEF Spec, LogIsKept
-------------------------------------------------------------------------------
(* Entries of earlier runs are never added to, and the current run has     *)
(* none as long as accept has not yet set sockaddrlen.                     *)
FirstsTorn(s) ==
  \A i, j \in 1 .. Len(s) : i < j /\ s[i].run = s[j].run => s[j].addr = "true"
NotAfter(s, r) == \A i \in 1 .. Len(s) : s[i].run <= r
NoneIn(s, r)   == \A i \in 1 .. Len(s) : s[i].run # r
TornInv ==
  /\ FirstsTorn(log \o buffered) /\ NotAfter(log \o buffered, run)
  /\ Running /\ sockaddrlen = "short" => NoneIn(log \o buffered, run)

(* All this stays true of a part of the list.                              *)
LEMMA TornInPart ==
  ASSUME NEW s \in Seq(Entry), NEW t \in Seq(Entry), NEW r
  PROVE  /\ FirstsTorn(s \o t) => FirstsTorn(s)
         /\ NotAfter(s \o t, r) => NotAfter(s, r)
         /\ NoneIn(s \o t, r) => NoneIn(s, r)
<1>1. /\ Len(s) \in Nat /\ Len(t) \in Nat /\ Len(s \o t) = Len(s) + Len(t)
      /\ \A i \in 1 .. Len(s) : (s \o t)[i] = s[i] /\ i \in 1 .. Len(s \o t)
  OBVIOUS
<1> QED BY <1>1 DEF FirstsTorn, NotAfter, NoneIn

(* An entry of the current run may be added, if it is true or the first.   *)
LEMMA TornWithOneMore ==
  ASSUME NEW s \in Seq(Entry), NEW e \in Entry, FirstsTorn(s), NotAfter(s, e.run),
         e.addr = "true" \/ NoneIn(s, e.run)
  PROVE  FirstsTorn(Append(s, e)) /\ NotAfter(Append(s, e), e.run)
<1>1. /\ Len(s) \in Nat /\ Len(Append(s, e)) = Len(s) + 1
      /\ Append(s, e)[Len(s) + 1] = e
      /\ \A i \in 1 .. Len(s) : Append(s, e)[i] = s[i]
  OBVIOUS
<1>2. \A i \in 1 .. Len(Append(s, e)) : i \in 1 .. Len(s) \/ i = Len(s) + 1
  BY <1>1
<1>3. ASSUME NEW i \in 1 .. Len(Append(s, e)), NEW j \in 1 .. Len(Append(s, e)), i < j,
             Append(s, e)[i].run = Append(s, e)[j].run
      PROVE  Append(s, e)[j].addr = "true"
  <2>1. i \in 1 .. Len(s)
    BY <1>1, <1>2, <1>3
  <2>2. CASE j \in 1 .. Len(s)
    BY <1>1, <1>3, <2>1, <2>2 DEF FirstsTorn
  <2>3. CASE j = Len(s) + 1
    <3>1. s[i].run = e.run
      BY <1>1, <1>3, <2>1, <2>3
    <3> QED BY <1>1, <2>1, <2>3, <3>1 DEF NoneIn
  <2> QED BY <1>2, <2>2, <2>3
<1>4. e.run <= e.run
  BY DEF Entry
<1>5. NotAfter(Append(s, e), e.run)
  BY <1>1, <1>2, <1>4 DEF NotAfter
<1> QED BY <1>3, <1>5 DEF FirstsTorn
(* How run and sockaddrlen change together with the log.                   *)
Prints1 == Prints /\ run' = run /\ sockaddrlen' = "full"
Starts  == Keeps /\ run' = run + 1 /\ sockaddrlen' = "short"
Stays   == /\ Keeps \/ Flushes \/ Loses
           /\ run' = run /\ sockaddrlen' = sockaddrlen /\ (Running' => Running)

(* A step that ends the process starts nothing and adds no entry.          *)
LEMMA EndStays ==
  ASSUME NEW how \in Ended, EndAs(how)
  PROVE  Stays
<1>1. ~Running'
  BY DEF EndAs, Running
<1> QED BY <1>1, EndEffect DEF EndAs, Stays

(* Every step prints an entry, starts a run, or does neither.              *)
LEMMA RunSteps ==
  ASSUME TcpNext
  PROVE  Prints1 \/ Starts \/ Stays
<1>1. CASE InstallHandler \/ OpenLog \/ CreateSocket \/ BindAndListen
  BY <1>1 DEF InstallHandler, OpenLog, CreateSocket, BindAndListen, serverVars, Stays, Keeps,
     Running, Ended
<1>2. CASE CallFails \/ SendFails \/ ShutDownSocket \/ AcceptFails \/ Kill
  BY <1>2, EndStays DEF CallFails, SendFails, ShutDownSocket, AcceptFails, Kill, Ended
<1>3. CASE Accept \/ Send \/ CloseClient
  BY <1>3 DEF Accept, Send, CloseClient, serverVars, Stays, Keeps, Running, Ended
<1>4. CASE PrintLog
  BY <1>4 DEF PrintLog, LenAfterAccept, Prints1, Prints
<1>5. CASE FlushLog
  BY <1>5 DEF FlushLog, Flushed, Stays, Flushes, Running, Ended
<1>6. CASE ShutDownLog
  <2>1. CASE EndAs("died")
    BY <2>1, EndStays DEF Ended
  <2>2. CASE ~EndAs("died")
    BY <1>6, <2>2 DEF ShutDownLog, CloseLog, Stays, Flushes, Running, Ended
  <2> QED BY <2>1, <2>2
<1>7. CASE StartServer
  BY <1>7 DEF StartServer, Starts, Keeps
<1>8. CASE Interrupt
  <2>1. CASE EndAs("died")
    BY <2>1, EndStays DEF Ended
  <2>2. CASE ~EndAs("died")
    BY <1>8, <2>2 DEF Interrupt, serverVars, Stays, Keeps, Running, Ended
  <2> QED BY <2>1, <2>2
<1>9. ASSUME NEW c \in Clients, Connect(c) \/ KillClient(c) \/ ClientStep(c) PROVE Stays
  BY <1>9 DEF Connect, KillClient, ClientStep, RecvEof, RecvFails, Recv, serverVars, Stays, Keeps,
     Running, Ended
<1> QED BY <1>1, <1>2, <1>3, <1>4, <1>5, <1>6, <1>7, <1>8, <1>9
        DEF TcpNext, ServerStep, Environment

(* TornInv holds at the start ...                                          *)
LEMMA InitTornInv ==
  ASSUME NEW n \in 0 .. MaxRuns, TcpStart(n)
  PROVE  TornInv
<1>1. log \o buffered = <<>> /\ Len(log \o buffered) = 0
  BY DEF TcpStart
<1>2. \A i \in 1 .. Len(log \o buffered) : FALSE
  BY <1>1
<1> QED BY <1>2 DEF TornInv, FirstsTorn, NotAfter, NoneIn

(* ... and every step keeps it.                                            *)
LEMMA StepKeepsTornInv ==
  ASSUME TcpInv, TornInv, TcpNext
  PROVE  TornInv'
<1>0. /\ log \in Seq(Entry) /\ buffered \in Seq(Entry) /\ log \o buffered \in Seq(Entry)
      /\ run \in Int /\ sockaddrlen \in {"short", "full"}
  BY DEF TcpInv, TypeOK
<1>1. CASE Starts
  <2>1. NoneIn(log \o buffered, run + 1) /\ NotAfter(log \o buffered, run + 1)
    <3>1. ASSUME NEW i \in 1 .. Len(log \o buffered)
          PROVE  (log \o buffered)[i].run < run + 1
      <4>1. (log \o buffered)[i] \in Entry
        BY <1>0
      <4>2. (log \o buffered)[i].run \in Int /\ (log \o buffered)[i].run <= run
        BY <4>1 DEF TornInv, NotAfter, Entry
      <4> QED BY <1>0, <4>2
    <3>2. ASSUME NEW i \in 1 .. Len(log \o buffered)
          PROVE  (log \o buffered)[i].run # run + 1 /\ (log \o buffered)[i].run <= run + 1
      <4>1. (log \o buffered)[i] \in Entry
        BY <1>0
      <4>2. (log \o buffered)[i].run \in Int
        BY <4>1 DEF Entry
      <4> QED BY <1>0, <3>1, <4>2
    <3> QED BY <3>2 DEF NoneIn, NotAfter
  <2> QED BY <1>1, <2>1 DEF Starts, Keeps, TornInv
<1>2. CASE Prints1
  <2>1. PICK a \in LoggedAddress :
          buffered' = Append(buffered, [client |-> client_sock_fd, addr |-> a, run |-> run])
    BY <1>2 DEF Prints1, Prints
  <2>2. PICK e : e = [client |-> client_sock_fd, addr |-> a, run |-> run]
    OBVIOUS
  <2>3. pc = "log" /\ Running /\ client_sock_fd \in Clients /\ run \in 1 .. MaxRuns
    BY <1>2 DEF Prints1, Prints, TcpInv, ServesClient, Running, Ended
  <2>4. e \in Entry /\ e.run = run /\ e.addr = a
    BY <2>1, <2>2, <2>3 DEF LoggedAddress, Entry
  <2>5. e.addr = "true" \/ NoneIn(log \o buffered, e.run)
    BY <1>0, <2>1, <2>3, <2>4 DEF LoggedAddress, TornInv
  <2>6. log' \o buffered' = Append(log \o buffered, e)
    <3>1. log' = log /\ buffered' = Append(buffered, e)
      BY <1>2, <2>1, <2>2 DEF Prints1, Prints
    <3>2. log \o Append(buffered, e) = Append(log \o buffered, e)
      BY <1>0, <2>4, AppendIsConcat, ConcatAssociative
    <3> QED BY <3>1, <3>2
  <2>7. FirstsTorn(Append(log \o buffered, e)) /\ NotAfter(Append(log \o buffered, e), e.run)
    BY <1>0, <2>4, <2>5, TornWithOneMore DEF TornInv
  <2> QED BY <1>2, <2>4, <2>6, <2>7 DEF TornInv, Prints1
<1>3. CASE Stays
  <2>1. log' \o buffered' = log \o buffered \/ log' \o buffered' = log
    <3>1. log \o <<>> = log /\ (log \o buffered) \o <<>> = log \o buffered
      BY <1>0, ConcatEmptySeq
    <3> QED BY <1>3, <3>1 DEF Stays, Keeps, Flushes, Loses
  <2>2. /\ FirstsTorn(log' \o buffered') /\ NotAfter(log' \o buffered', run)
        /\ NoneIn(log \o buffered, run) => NoneIn(log' \o buffered', run)
    BY <1>0, <2>1, TornInPart DEF TornInv
  <2> QED BY <1>3, <2>2 DEF TornInv, Stays
<1> QED BY <1>1, <1>2, <1>3, RunSteps

(* tcp-server.c:81.  accept's length argument is wrong only the first      *)
(* time: in each run all entries but the first tell the client's address.  *)
THEOREM OnlyFirstTorn == Spec => []OnlyFirstAddressTorn
<1>1. Init => TornInv
  BY TcpPart, InitTornInv
<1>2. TcpInv /\ TornInv /\ [Next]_<<tcpVars, udsVars>> => TornInv'
  <2>1. ASSUME TornInv, UNCHANGED tcpVars PROVE TornInv'
    BY <2>1 DEF TornInv, FirstsTorn, NotAfter, NoneIn, Running, tcpVars, serverVars
  <2> QED BY <2>1, StepKeepsTornInv, TcpPart
<1>3. TcpInv /\ TornInv => OnlyFirstAddressTorn
  <2>1. ASSUME TcpInv, TornInv PROVE FirstsTorn(log)
    <3>1. log \in Seq(Entry) /\ buffered \in Seq(Entry)
      BY <2>1 DEF TcpInv, TypeOK
    <3> QED BY <2>1, <3>1, TornInPart DEF TornInv
  <2> QED BY <2>1 DEF FirstsTorn, OnlyFirstAddressTorn
<1> QED BY <1>1, <1>2, <1>3, Invariance, PTL DEF Spec
-------------------------------------------------------------------------------
(* The Unix-domain pair.                                                   *)

(* What buffers hold: bytes, and what was in memory before.                *)
BufBytes == Bytes \cup {"garbage"}
Taken    == [from : Senders, line : Seq(Bytes)]
Datagram == [from : Senders, line : Seq(Bytes), data : Seq(BufBytes)]

UdsTypeOK ==
  /\ sbuf \in Seq(BufBytes) /\ Len(sbuf) = BufSize
  /\ stdout \in Seq(BufBytes)
  /\ queue \in Seq(Datagram) /\ taken \in Seq(Taken) /\ lost \in BOOLEAN
  /\ stdin \in [Senders -> Seq(Bytes)] /\ line \in [Senders -> Seq(Bytes)]
  /\ read_cnt \in [Senders -> Nat] /\ \A c \in Senders : read_cnt[c] <= Len(stdin[c])
  /\ buffer \in [Senders -> Seq(BufBytes)] /\ \A c \in Senders : Len(buffer[c]) = BufSize
  /\ sender \in [Senders -> {"off", "fgets", "sendto", "failed", "done"}]

(* A whole buffer is sent, and it begins with the line that was read last. *)
Carries(d) == Len(d.data) = BufSize /\ UpToNul(d.data) = UpToNul(d.line)
BuffersHoldLines ==
  /\ \A c \in Senders : sender[c] = "sendto" => UpToNul(buffer[c]) = UpToNul(line[c])
  /\ \A i \in 1 .. Len(queue) : Carries(queue[i])

UdsInv == UdsTypeOK /\ BuffersHoldLines /\ PrintsOnlyLines /\ NoLineSkipped
-------------------------------------------------------------------------------
(* Behind the NUL that ends a text nothing matters.                        *)
LEMMA NothingBehindNul ==
  ASSUME NEW s \in Seq(BufBytes), NEW r \in Seq(BufBytes)
  PROVE  UpToNul(Append(s, Nul) \o r) = UpToNul(s)
<1> DEFINE t == Append(s, Nul) \o r
<1>1. Nul \in BufBytes
  BY DEF BufBytes, Bytes
<1>2. /\ t \in Seq(BufBytes) /\ Len(t) = Len(s) + 1 + Len(r)
      /\ Len(s) \in Nat /\ Len(r) \in Nat /\ t[Len(s) + 1] = Nul
      /\ \A i \in 1 .. Len(s) : t[i] = s[i]
  BY <1>1
<1>3. Nul \in ToSet(t)
  <2>1. Len(s) + 1 \in DOMAIN t
    BY <1>2
  <2> QED BY <1>2, <2>1 DEF ToSet
<1> HIDE DEF t
<1>4. PICK p \in 1 .. Len(t) : /\ t[p] = Nul /\ \A i \in 1 .. p - 1 : t[i] # Nul
                               /\ UpToNul(t) = SubSeq(t, 1, p - 1)
  BY <1>2, <1>3, CutAtNul
<1>5. CASE Nul \in ToSet(s)
  <2>1. PICK q \in 1 .. Len(s) : /\ s[q] = Nul /\ \A i \in 1 .. q - 1 : s[i] # Nul
                                 /\ UpToNul(s) = SubSeq(s, 1, q - 1)
    BY <1>5, CutAtNul
  <2>2. t[q] = Nul /\ q \in 1 .. Len(t) /\ \A i \in 1 .. q - 1 : t[i] # Nul
    <3>1. q \in 1 .. Len(t) /\ \A i \in 1 .. q - 1 : i \in 1 .. Len(s)
      BY <1>2
    <3> QED BY <1>2, <2>1, <3>1
  <2>3. p = q
    BY <1>2, <1>4, <2>2
  <2>4. SubSeq(t, 1, p - 1) = SubSeq(s, 1, p - 1)
    BY <1>2, <2>1, <2>3
  <2> QED BY <1>4, <2>1, <2>3, <2>4 DEF t
<1>6. CASE Nul \notin ToSet(s)
  <2>1. UpToNul(s) = s
    BY <1>6, CutAtNul
  <2>2. \A i \in 1 .. Len(s) : t[i] # Nul
    BY <1>2, <1>6 DEF ToSet
  <2>3. p = Len(s) + 1
    BY <1>2, <1>4, <2>2
  <2>4. SubSeq(t, 1, p - 1) = s
    BY <1>2, <2>3
  <2> QED BY <1>4, <2>1, <2>4 DEF t
<1> QED BY <1>5, <1>6

(* A full buffer takes the place of another one, a line stands in front of *)
(* what remains of it.                                                     *)
LEMMA Filling ==
  ASSUME NEW buf \in Seq(BufBytes), Len(buf) = BufSize, NEW d \in Seq(BufBytes)
  PROVE  /\ Len(d) = BufSize => Fill(buf, d) = d
         /\ Len(d) <= BufSize => /\ Fill(buf, d) \in Seq(BufBytes)
                                 /\ Len(Fill(buf, d)) = BufSize
                                 /\ \E r \in Seq(BufBytes) : Fill(buf, d) = d \o r
<1>1. BufSize \in Nat
  BY UdsAssumption
<1>2. CASE Len(d) <= BufSize
  <2> DEFINE r == SubSeq(buf, Len(d) + 1, BufSize)
  <2>1. r \in Seq(BufBytes) /\ Len(r) = BufSize - Len(d)
    BY <1>1, <1>2
  <2> HIDE DEF r
  <2>2. d \o r \in Seq(BufBytes) /\ Len(d \o r) = Len(d) + Len(r)
    BY <2>1, ConcatProperties
  <2>3. Len(d \o r) = BufSize
    BY <1>1, <2>1, <2>2
  <2>4. Len(d) = BufSize => r = <<>>
    BY <1>1, <2>1
  <2>5. d \o <<>> = d
    OBVIOUS
  <2> QED BY <1>1, <2>1, <2>2, <2>3, <2>4, <2>5 DEF Fill, r
<1> QED BY <1>1, <1>2

(* The lines of a list that grows at its end, or shrinks at its head.      *)
Lines(c, s) == [i \in 1 .. Len(s) |-> IF s[i].from = c THEN s[i].line ELSE <<>>]
Part(c, d)  == IF d.from = c THEN d.line ELSE <<>>

(* A datagram more adds its line to its sender's lines.                    *)
LEMMA LinesGrow ==
  ASSUME NEW S, NEW s \in Seq(S), NEW e \in S, NEW c,
         \A d \in S : d.line \in Seq(Bytes)
  PROVE  /\ LinesFrom(c, s) \in Seq(Bytes) /\ Part(c, e) \in Seq(Bytes)
         /\ LinesFrom(c, Append(s, e)) = LinesFrom(c, s) \o Part(c, e)
<1>1. /\ Len(Append(s, e)) = Len(s) + 1 /\ Len(s) \in Nat
      /\ Append(s, e)[Len(s) + 1] = e
      /\ \A i \in 1 .. Len(s) : Append(s, e)[i] = s[i] /\ s[i] \in S
  OBVIOUS
<1>2. \A d \in S : Part(c, d) \in Seq(Bytes)
  BY DEF Part
<1>3. Lines(c, s) = [i \in 1 .. Len(s) |-> Part(c, s[i])]
  BY DEF Lines, Part
<1>4. Lines(c, s) \in Seq(Seq(Bytes)) /\ Len(Lines(c, s)) = Len(s)
  BY <1>1, <1>2, <1>3
<1>5. Lines(c, Append(s, e)) = Append(Lines(c, s), Part(c, e))
  <2>1. Lines(c, Append(s, e)) = [i \in 1 .. Len(s) + 1 |-> Part(c, Append(s, e)[i])]
    BY <1>1 DEF Lines, Part
  <2>2. \A i \in 1 .. Len(s) + 1 : Part(c, Append(s, e)[i]) \in Seq(Bytes)
    BY <1>2
  <2>3. /\ Lines(c, Append(s, e)) \in Seq(Seq(Bytes))
        /\ Len(Lines(c, Append(s, e))) = Len(Lines(c, s)) + 1
    BY <1>1, <1>4, <2>1, <2>2
  <2>4. Lines(c, Append(s, e))[Len(Lines(c, s)) + 1] = Part(c, e)
    BY <1>1, <1>4, <2>1
  <2>5. \A i \in 1 .. Len(Lines(c, s)) : Lines(c, Append(s, e))[i] = Lines(c, s)[i]
    BY <1>1, <1>3, <1>4, <2>1
  <2> QED BY <1>2, <1>4, <2>3, <2>4, <2>5, AppendIs
<1>6. \A t : LinesFrom(c, t) = FlattenSeq(Lines(c, t))
  BY DEF LinesFrom, Lines
<1>7. /\ FlattenSeq(Lines(c, s)) \in Seq(Bytes)
      /\ FlattenSeq(Append(Lines(c, s), Part(c, e))) = FlattenSeq(Lines(c, s)) \o Part(c, e)
  BY <1>2, <1>4, FlattenAppend
<1> QED BY <1>2, <1>5, <1>6, <1>7

(* The lines of a sender, one after the other, are a text.                 *)
LEMMA LinesAreTexts ==
  ASSUME NEW S, S \in {Taken, Datagram}, NEW s \in Seq(S), NEW c
  PROVE  LinesFrom(c, s) \in Seq(Bytes)
<1>1. \A d \in S : d.line \in Seq(Bytes)
  <2>1. CASE S = Taken
    BY <2>1 DEF Taken
  <2>2. CASE S = Datagram
    BY <2>2 DEF Datagram
  <2> QED BY <2>1, <2>2
<1>2. Lines(c, s) \in Seq(Seq(Bytes))
  <2>1. \A i \in 1 .. Len(s) : s[i].line \in Seq(Bytes)
    BY <1>1
  <2> QED BY <2>1 DEF Lines
<1>3. LinesFrom(c, s) = FlattenSeq(Lines(c, s))
  BY DEF LinesFrom, Lines
<1>4. <<>> \in Seq(Bytes)
  OBVIOUS
<1> QED BY <1>2, <1>3, <1>4, FlattenAppend

(* The lines of a list are that of its head and those of its tail.         *)
LEMMA LinesShrink ==
  ASSUME NEW S, NEW s \in Seq(S), s # <<>>, NEW c,
         \A d \in S : d.line \in Seq(Bytes)
  PROVE  /\ Head(s) \in S /\ Tail(s) \in Seq(S)
         /\ LinesFrom(c, Tail(s)) \in Seq(Bytes) /\ Part(c, Head(s)) \in Seq(Bytes)
         /\ LinesFrom(c, s) = Part(c, Head(s)) \o LinesFrom(c, Tail(s))
<1>1. /\ Head(s) \in S /\ Head(s) = s[1] /\ Tail(s) \in Seq(S) /\ Len(s) \in Nat \ {0}
      /\ Len(Tail(s)) = Len(s) - 1 /\ \A i \in 1 .. Len(s) - 1 : Tail(s)[i] = s[i + 1]
      /\ \A i \in 1 .. Len(s) : s[i] \in S
  OBVIOUS
<1>2. \A d \in S : Part(c, d) \in Seq(Bytes)
  BY DEF Part
<1> DEFINE L == Lines(c, s)
           T == Lines(c, Tail(s))
           h == Part(c, Head(s))
<1>3. L = [i \in 1 .. Len(s) |-> Part(c, s[i])] /\ T = [i \in 1 .. Len(s) - 1 |-> Part(c, s[i + 1])]
  BY <1>1 DEF Lines, Part
<1>4. /\ h \in Seq(Bytes)
      /\ L \in Seq(Seq(Bytes)) /\ Len(L) = Len(s) /\ L[1] = h
  BY <1>1, <1>2, <1>3
<1>5. T \in Seq(Seq(Bytes)) /\ Len(T) = Len(s) - 1
  <2>1. Len(s) - 1 \in Nat /\ \A i \in 1 .. Len(s) - 1 : i + 1 \in 1 .. Len(s)
    BY <1>1
  <2>2. \A i \in 1 .. Len(s) - 1 : Part(c, s[i + 1]) \in Seq(Bytes)
    BY <1>1, <1>2, <2>1
  <2> QED BY <1>3, <2>1, <2>2
<1>6. \A i \in 1 .. Len(s) - 1 : T[i] = L[i + 1]
  BY <1>1, <1>3
<1>7. \A q : LinesFrom(c, q) = FlattenSeq(Lines(c, q))
  BY DEF LinesFrom, Lines
<1> HIDE DEF L, T, h
<1>8. L = <<h>> \o T
  <2>1. Len(L) = Len(T) + 1 /\ \A i \in 1 .. Len(T) : L[i + 1] = T[i]
    BY <1>1, <1>4, <1>5, <1>6
  <2> QED BY <1>4, <1>5, <2>1, PrependIs
<1>9. FlattenSeq(T) \in Seq(Bytes)
  BY <1>4, <1>5, FlattenAppend
<1>10. FlattenSeq(<<h>> \o T) = h \o FlattenSeq(T)
  BY <1>4, <1>5, FlattenPrepend
<1> QED BY <1>1, <1>4, <1>7, <1>8, <1>9, <1>10 DEF L, T, h

(* What is printed of a list of datagrams that grows at its end.           *)
Printed(s) == [i \in 1 .. Len(s) |-> UpToNul(s[i].line)]

(* A datagram more adds what is printed of its line.                       *)
LEMMA PrintedGrows ==
  ASSUME NEW s \in Seq(Taken), NEW e \in Taken
  PROVE  FlattenSeq(Printed(Append(s, e))) = FlattenSeq(Printed(s)) \o UpToNul(e.line)
<1>1. /\ Len(Append(s, e)) = Len(s) + 1 /\ Len(s) \in Nat
      /\ Append(s, e)[Len(s) + 1] = e /\ Append(s, e) \in Seq(Taken)
      /\ \A i \in 1 .. Len(s) : Append(s, e)[i] = s[i] /\ s[i] \in Taken
      /\ \A i \in 1 .. Len(s) + 1 : Append(s, e)[i] \in Taken
  OBVIOUS
<1>2. \A d \in Taken : UpToNul(d.line) \in Seq(Bytes)
  BY CutAtNul DEF Taken
<1>3. Printed(s) \in Seq(Seq(Bytes)) /\ Len(Printed(s)) = Len(s)
  BY <1>1, <1>2 DEF Printed
<1>4. /\ Printed(Append(s, e)) \in Seq(Seq(Bytes))
      /\ Len(Printed(Append(s, e))) = Len(Printed(s)) + 1
  BY <1>1, <1>2, <1>3 DEF Printed
<1>5. Printed(Append(s, e))[Len(Printed(s)) + 1] = UpToNul(e.line)
  BY <1>1, <1>3 DEF Printed
<1>6. \A i \in 1 .. Len(Printed(s)) : Printed(Append(s, e))[i] = Printed(s)[i]
  BY <1>1, <1>3 DEF Printed
<1>7. UpToNul(e.line) \in Seq(Bytes)
  BY <1>2
<1>8. Printed(Append(s, e)) = Append(Printed(s), UpToNul(e.line))
  BY <1>3, <1>4, <1>5, <1>6, <1>7, AppendIs
<1> QED BY <1>3, <1>7, <1>8, FlattenAppend
-------------------------------------------------------------------------------
(* A client's step.                                                        *)
LEMMA ReadKeepsInv ==
  ASSUME UdsInv, NEW c \in Senders, ReadLine(c)
  PROVE  UdsInv'
<1> DEFINE str == Fgets(stdin[c], read_cnt[c], BufSize)
<1>1. /\ sender[c] = "fgets" /\ read_cnt[c] \in Nat /\ read_cnt[c] < Len(stdin[c])
      /\ stdin[c] \in Seq(Bytes) /\ buffer[c] \in Seq(BufBytes) /\ Len(buffer[c]) = BufSize
      /\ buffer' = [buffer EXCEPT ![c] = Fill(buffer[c], Append(str, Nul))]
      /\ read_cnt' = [read_cnt EXCEPT ![c] = read_cnt[c] + Len(str)]
      /\ line' = [line EXCEPT ![c] = str]
      /\ sender' = [sender EXCEPT ![c] = "sendto"]
      /\ UNCHANGED <<server, sbuf, stdout, servers, sockfile, queue, stdin, taken, lost>>
  BY DEF ReadLine, UdsInv, UdsTypeOK, serverSide
<1>2. BufSize \in Nat /\ BufSize > 1
  BY UdsAssumption
<1>3. PICK n \in 1 .. Len(stdin[c]) - read_cnt[c] :
        /\ n < BufSize /\ str \in Seq(Bytes) /\ Len(str) = n
        /\ SubSeq(stdin[c], 1, read_cnt[c]) \o str = SubSeq(stdin[c], 1, read_cnt[c] + n)
  <2>1. PICK t, q : t = stdin[c] /\ q = read_cnt[c]
    OBVIOUS
  <2>2. t \in Seq(Bytes) /\ q \in Nat /\ q < Len(t) /\ str = Fgets(t, q, BufSize)
    BY <1>1, <2>1
  <2>3. /\ Fgets(t, q, BufSize) \in Seq(Bytes)
        /\ \E n \in 1 .. Len(t) - q : n < BufSize /\ Behind(t, q, n, Fgets(t, q, BufSize))
    BY <1>2, <2>2, FgetsReads
  <2> QED BY <2>1, <2>2, <2>3 DEF Behind
<1> HIDE DEF str
<1>4. /\ str \in Seq(BufBytes) /\ Append(str, Nul) \in Seq(BufBytes)
      /\ Len(Append(str, Nul)) = n + 1 /\ n + 1 <= BufSize
  <2>1. Bytes \subseteq BufBytes /\ Nul \in BufBytes
    BY DEF BufBytes, Bytes
  <2>2. str \in Seq(BufBytes)
    BY <1>3, <2>1, SeqMonotonic
  <2> QED BY <1>2, <1>3, <2>1, <2>2
<1> DEFINE new == Fill(buffer[c], Append(str, Nul))
<1>5. new \in Seq(BufBytes) /\ Len(new) = BufSize /\ UpToNul(new) = UpToNul(str)
  <2>1. PICK buf, d : buf = buffer[c] /\ d = Append(str, Nul)
    OBVIOUS
  <2>2. buf \in Seq(BufBytes) /\ Len(buf) = BufSize /\ d \in Seq(BufBytes) /\ Len(d) <= BufSize
    BY <1>1, <1>4, <2>1
  <2>3. /\ Fill(buf, d) \in Seq(BufBytes) /\ Len(Fill(buf, d)) = BufSize
        /\ \E r \in Seq(BufBytes) : Fill(buf, d) = d \o r
    BY <2>2, Filling
  <2>4. UpToNul(Fill(buf, d)) = UpToNul(str)
    BY <1>4, <2>1, <2>3, NothingBehindNul
  <2> QED BY <2>1, <2>3, <2>4
<1> HIDE DEF new
<1>6. buffer' = [buffer EXCEPT ![c] = new]
  BY <1>1 DEF new
<1>7. read_cnt[c] + n \in Nat /\ read_cnt[c] + n <= Len(stdin[c])
  BY <1>1, <1>3
<1>8. UdsTypeOK'
  <2>1. buffer' \in [Senders -> Seq(BufBytes)] /\ \A d \in Senders : Len(buffer'[d]) = BufSize
    BY <1>5, <1>6 DEF UdsInv, UdsTypeOK
  <2>2. /\ read_cnt' \in [Senders -> Nat]
        /\ \A d \in Senders : read_cnt'[d] <= Len(stdin'[d])
    BY <1>1, <1>3, <1>7 DEF UdsInv, UdsTypeOK
  <2>3. /\ line' \in [Senders -> Seq(Bytes)]
        /\ sender' \in [Senders -> {"off", "fgets", "sendto", "failed", "done"}]
    BY <1>1, <1>3 DEF UdsInv, UdsTypeOK
  <2> QED BY <1>1, <2>1, <2>2, <2>3 DEF UdsInv, UdsTypeOK
<1>9. BuffersHoldLines'
  <2>1. ASSUME NEW d \in Senders, sender'[d] = "sendto"
        PROVE  UpToNul(buffer'[d]) = UpToNul(line'[d])
    BY <1>1, <1>5, <1>6, <2>1 DEF UdsInv, UdsTypeOK, BuffersHoldLines
  <2>2. \A i \in 1 .. Len(queue') : Carries(queue'[i])
    BY <1>1 DEF UdsInv, BuffersHoldLines
  <2> QED BY <2>1, <2>2 DEF BuffersHoldLines
<1>10. PrintsOnlyLines'
  BY <1>1 DEF UdsInv, PrintsOnlyLines
<1>11. NoLineSkipped'
  <2> SUFFICES ASSUME ~lost', NEW d \in Senders
               PROVE  LinesFrom(d, taken) \o LinesFrom(d, queue)
                        \o (IF sender'[d] \in {"sendto", "failed"} THEN line'[d] ELSE <<>>)
                      = SubSeq(stdin[d], 1, read_cnt'[d])
    BY <1>1 DEF NoLineSkipped
  <2>1. LinesFrom(d, taken) \o LinesFrom(d, queue)
          \o (IF sender[d] \in {"sendto", "failed"} THEN line[d] ELSE <<>>)
        = SubSeq(stdin[d], 1, read_cnt[d])
    BY <1>1 DEF UdsInv, NoLineSkipped
  <2>2. CASE d # c
    BY <1>1, <2>1, <2>2 DEF UdsInv, UdsTypeOK
  <2>3. CASE d = c
    <3>1. /\ sender'[c] = "sendto" /\ line'[c] = str /\ read_cnt'[c] = read_cnt[c] + n
          /\ sender[c] \notin {"sendto", "failed"}
      BY <1>1, <1>3 DEF UdsInv, UdsTypeOK
    <3>2. LinesFrom(c, taken) \in Seq(Bytes) /\ LinesFrom(c, queue) \in Seq(Bytes)
      BY LinesAreTexts DEF UdsInv, UdsTypeOK
    <3>3. LinesFrom(c, taken) \o LinesFrom(c, queue) = SubSeq(stdin[c], 1, read_cnt[c])
      <4>1. (LinesFrom(c, taken) \o LinesFrom(c, queue)) \o <<>>
              = LinesFrom(c, taken) \o LinesFrom(c, queue)
        BY <3>2
      <4> QED BY <2>1, <2>3, <3>1, <4>1
    <3> QED BY <1>3, <2>3, <3>1, <3>3
  <2> QED BY <2>2, <2>3
<1> QED BY <1>8, <1>9, <1>10, <1>11 DEF UdsInv

(* A client sends its buffer.                                              *)
LEMMA SendKeepsInv ==
  ASSUME UdsInv, NEW c \in Senders, Sendto(c)
  PROVE  UdsInv'
<1> DEFINE e == [from |-> c, line |-> line[c], data |-> buffer[c]]
<1>1. /\ sender[c] = "sendto" /\ queue' = Append(queue, e)
      /\ sender' = [sender EXCEPT ![c] = "fgets"]
      /\ UNCHANGED <<server, sbuf, stdout, servers, sockfile, stdin, read_cnt, buffer, line,
                     taken, lost>>
  BY DEF Sendto, Payload, serverSide
<1>2. /\ e \in Datagram /\ e.line = line[c] /\ Carries(e) /\ e.from = c /\ e.line \in Seq(Bytes)
  BY <1>1 DEF UdsInv, UdsTypeOK, BuffersHoldLines, Datagram, Carries
<1> HIDE DEF e
<1>3. /\ queue' \in Seq(Datagram) /\ Len(queue') = Len(queue) + 1 /\ Len(queue) \in Nat
      /\ queue'[Len(queue) + 1] = e /\ \A i \in 1 .. Len(queue) : queue'[i] = queue[i]
  BY <1>1, <1>2 DEF UdsInv, UdsTypeOK
<1>4. UdsTypeOK'
  <2>1. sender' \in [Senders -> {"off", "fgets", "sendto", "failed", "done"}]
    BY <1>1 DEF UdsInv, UdsTypeOK
  <2> QED BY <1>1, <1>3, <2>1 DEF UdsInv, UdsTypeOK
<1>5. BuffersHoldLines'
  <2>1. ASSUME NEW d \in Senders, sender'[d] = "sendto"
        PROVE  UpToNul(buffer'[d]) = UpToNul(line'[d])
    BY <1>1, <2>1 DEF UdsInv, UdsTypeOK, BuffersHoldLines
  <2>2. \A i \in 1 .. Len(queue') : Carries(queue'[i])
    BY <1>2, <1>3 DEF UdsInv, BuffersHoldLines
  <2> QED BY <2>1, <2>2 DEF BuffersHoldLines
<1>6. PrintsOnlyLines'
  BY <1>1 DEF UdsInv, PrintsOnlyLines
<1>7. NoLineSkipped'
  <2> SUFFICES ASSUME ~lost', NEW d \in Senders
               PROVE  LinesFrom(d, taken) \o LinesFrom(d, queue')
                        \o (IF sender'[d] \in {"sendto", "failed"} THEN line[d] ELSE <<>>)
                      = SubSeq(stdin[d], 1, read_cnt[d])
    BY <1>1 DEF NoLineSkipped
  <2>1. LinesFrom(d, taken) \o LinesFrom(d, queue)
          \o (IF sender[d] \in {"sendto", "failed"} THEN line[d] ELSE <<>>)
        = SubSeq(stdin[d], 1, read_cnt[d])
    BY <1>1 DEF UdsInv, NoLineSkipped
  <2>2. PICK a, b : a = LinesFrom(d, taken) /\ b = LinesFrom(d, queue)
    OBVIOUS
  <2>3. a \in Seq(Bytes) /\ b \in Seq(Bytes)
    BY <2>2, LinesAreTexts DEF UdsInv, UdsTypeOK
  <2>4. LinesFrom(d, queue') = b \o Part(d, e)
    <3>1. queue \in Seq(Datagram) /\ \A g \in Datagram : g.line \in Seq(Bytes)
      BY DEF UdsInv, UdsTypeOK, Datagram
    <3> QED BY <1>1, <1>2, <2>2, <3>1, LinesGrow
  <2>5. CASE d # c
    <3>1. Part(d, e) = <<>> /\ sender'[d] = sender[d]
      BY <1>1, <1>2, <2>5 DEF Part, UdsInv, UdsTypeOK
    <3>2. b \o <<>> = b
      BY <2>3
    <3> QED BY <2>1, <2>2, <2>4, <3>1, <3>2
  <2>6. CASE d = c
    <3>1. Part(c, e) = line[c] /\ sender'[c] = "fgets" /\ line[c] \in Seq(Bytes)
      BY <1>1, <1>2 DEF Part, UdsInv, UdsTypeOK
    <3>2. (a \o b) \o line[c] = SubSeq(stdin[c], 1, read_cnt[c])
      BY <1>1, <2>1, <2>2, <2>6
    <3>3. (a \o b) \o line[c] = a \o (b \o line[c])
      <4>1. PICK l \in Seq(Bytes) : l = line[c]
        BY <3>1
      <4>2. (a \o b) \o l = a \o (b \o l)
        BY <2>3, ConcatAssociative
      <4> QED BY <4>1, <4>2
    <3>4. (a \o (b \o line[c])) \o <<>> = a \o (b \o line[c])
      <4>1. a \o (b \o line[c]) \in Seq(Bytes)
        BY <2>3, <3>1, ConcatProperties
      <4> QED BY <4>1, ConcatEmptySeq
    <3> QED BY <2>2, <2>4, <2>6, <3>1, <3>2, <3>3, <3>4
  <2> QED BY <2>5, <2>6
<1> QED BY <1>4, <1>5, <1>6, <1>7 DEF UdsInv

\* A client is started, ends, or fails: it neither reads nor sends.
LEMMA OtherClientStepKeepsInv ==
  ASSUME UdsInv, NEW c \in Senders,
         StartClient(c) \/ EndOfInput(c) \/ InputFails(c) \/ SendtoFails(c)
  PROVE  UdsInv'
<1>1. /\ UNCHANGED <<server, sbuf, stdout, servers, sockfile, queue, stdin, read_cnt, buffer,
                     line, taken, lost>>
      /\ \/ sender[c] # "sendto" /\ \E w \in {"fgets", "done"} :
              sender' = [sender EXCEPT ![c] = w] /\ sender[c] \notin {"sendto", "failed"}
         \/ sender[c] = "sendto" /\ sender' = [sender EXCEPT ![c] = "failed"]
  BY DEF StartClient, EndOfInput, InputFails, SendtoFails, AfterFailure, serverSide
<1>2. sender \in [Senders -> {"off", "fgets", "sendto", "failed", "done"}]
  BY DEF UdsInv, UdsTypeOK
<1>3. /\ sender' \in [Senders -> {"off", "fgets", "sendto", "failed", "done"}]
      /\ \A d \in Senders : sender'[d] = "sendto" => sender[d] = "sendto"
      /\ \A d \in Senders : sender'[d] \in {"sendto", "failed"}
                              <=> sender[d] \in {"sendto", "failed"}
  BY <1>1, <1>2
<1>4. UdsTypeOK'
  BY <1>1, <1>3 DEF UdsInv, UdsTypeOK
<1>5. BuffersHoldLines'
  BY <1>1, <1>3 DEF UdsInv, BuffersHoldLines
<1>6. PrintsOnlyLines'
  BY <1>1 DEF UdsInv, PrintsOnlyLines
<1>7. NoLineSkipped'
  BY <1>1, <1>3 DEF UdsInv, NoLineSkipped
<1> QED BY <1>4, <1>5, <1>6, <1>7 DEF UdsInv
-------------------------------------------------------------------------------
(* The server receives a datagram.                                         *)
LEMMA ReceiveKeepsInv ==
  ASSUME UdsInv, Receive
  PROVE  UdsInv'
<1> DEFINE h == Head(queue)
           e == [from |-> h.from, line |-> h.line]
<1>1. /\ queue # <<>> /\ queue \in Seq(Datagram) /\ taken \in Seq(Taken)
      /\ sbuf \in Seq(BufBytes) /\ Len(sbuf) = BufSize
      /\ sbuf' = Fill(sbuf, h.data)
      /\ stdout' = stdout \o UpToNul(sbuf') /\ stdout \in Seq(BufBytes)
      /\ queue' = Tail(queue) /\ taken' = Append(taken, e)
      /\ UNCHANGED <<server, servers, sockfile, sender, stdin, read_cnt, buffer, line, lost>>
  BY DEF Receive, UdsInv, UdsTypeOK, clientSide
<1>2. /\ h \in Datagram /\ h = queue[1] /\ 1 \in 1 .. Len(queue)
      /\ queue' \in Seq(Datagram) /\ Len(queue') = Len(queue) - 1
      /\ \A i \in 1 .. Len(queue') : queue'[i] = queue[i + 1] /\ i + 1 \in 1 .. Len(queue)
  BY <1>1
<1>3. Carries(h) /\ \A i \in 1 .. Len(queue') : Carries(queue'[i])
  BY <1>2 DEF UdsInv, BuffersHoldLines
<1>4. h.from \in Senders /\ h.line \in Seq(Bytes) /\ h.data \in Seq(BufBytes)
  BY <1>2 DEF Datagram
<1>5. e \in Taken /\ e.line = h.line /\ e.from = h.from
  BY <1>4 DEF Taken
<1> HIDE DEF h, e
<1>6. sbuf' = h.data /\ UpToNul(sbuf') = UpToNul(h.line)
  BY <1>1, <1>3, <1>4, Filling DEF Carries
<1>7. taken' \in Seq(Taken)
  BY <1>1, <1>5
<1>8. UdsTypeOK'
  <2>1. UpToNul(sbuf') \in Seq(BufBytes)
    BY <1>4, <1>6, CutAtNul
  <2>2. stdout' \in Seq(BufBytes)
    BY <1>1, <2>1, ConcatProperties
  <2> QED BY <1>1, <1>2, <1>3, <1>4, <1>6, <1>7, <2>2 DEF UdsInv, UdsTypeOK, Carries
<1>9. BuffersHoldLines'
  BY <1>1, <1>3 DEF UdsInv, BuffersHoldLines
<1>10. PrintsOnlyLines'
  <2>1. stdout = FlattenSeq(Printed(taken))
    BY DEF UdsInv, PrintsOnlyLines, Printed
  <2>2. stdout' = FlattenSeq(Printed(taken'))
    BY <1>1, <1>5, <1>6, <2>1, PrintedGrows
  <2> QED BY <2>2 DEF PrintsOnlyLines, Printed
<1>11. NoLineSkipped'
  <2> SUFFICES ASSUME ~lost', NEW d \in Senders
               PROVE  LinesFrom(d, taken') \o LinesFrom(d, queue')
                        \o (IF sender[d] \in {"sendto", "failed"} THEN line[d] ELSE <<>>)
                      = SubSeq(stdin[d], 1, read_cnt[d])
    BY <1>1 DEF NoLineSkipped
  <2>1. LinesFrom(d, taken) \o LinesFrom(d, queue)
          \o (IF sender[d] \in {"sendto", "failed"} THEN line[d] ELSE <<>>)
        = SubSeq(stdin[d], 1, read_cnt[d])
    BY <1>1 DEF UdsInv, NoLineSkipped
  <2>2. /\ LinesFrom(d, taken') = LinesFrom(d, taken) \o Part(d, e)
        /\ LinesFrom(d, taken) \in Seq(Bytes)
    <3>1. \A g \in Taken : g.line \in Seq(Bytes)
      BY DEF Taken
    <3> QED BY <1>1, <1>5, <3>1, LinesGrow
  <2>3. /\ LinesFrom(d, queue) = Part(d, h) \o LinesFrom(d, queue')
        /\ LinesFrom(d, queue') \in Seq(Bytes) /\ Part(d, h) \in Seq(Bytes)
    <3>1. \A g \in Datagram : g.line \in Seq(Bytes)
      BY DEF Datagram
    <3> QED BY <1>1, <3>1, LinesShrink DEF h
  <2>4. Part(d, e) = Part(d, h)
    BY <1>5 DEF Part
  <2>5. (LinesFrom(d, taken) \o Part(d, h)) \o LinesFrom(d, queue')
          = LinesFrom(d, taken) \o (Part(d, h) \o LinesFrom(d, queue'))
    BY <2>2, <2>3, ConcatAssociative
  <2> QED BY <2>1, <2>2, <2>3, <2>4, <2>5
<1> QED BY <1>8, <1>9, <1>10, <1>11 DEF UdsInv

(* Starting and ending, binding, removing the file: the queue is kept, or  *)
(* lost with its datagrams.                                                *)
LEMMA OtherServerStepKeepsInv ==
  ASSUME UdsInv, StartUds \/ Bind \/ EndServer \/ RemoveFile
  PROVE  UdsInv'
<1>1. /\ UNCHANGED <<stdout, sender, stdin, read_cnt, buffer, line, taken>>
      /\ \/ queue' = queue /\ lost' = lost
         \/ queue' = <<>> /\ lost' = (lost \/ queue # <<>>)
      /\ sbuf' \in {sbuf, Uninitialised}
  BY DEF StartUds, Bind, EndServer, RemoveFile, clientSide, serverSide
<1>2. Uninitialised \in Seq(BufBytes) /\ Len(Uninitialised) = BufSize
  BY UdsAssumption DEF Uninitialised, BufBytes
<1>3. lost' \in BOOLEAN /\ queue' \in Seq(Datagram) /\ (~lost' => queue' = queue /\ ~lost)
  <2>1. lost \in BOOLEAN /\ queue \in Seq(Datagram) /\ <<>> \in Seq(Datagram)
    BY DEF UdsInv, UdsTypeOK
  <2>2. CASE queue' = queue /\ lost' = lost
    BY <2>1, <2>2, Zenon
  <2>3. CASE queue' = <<>> /\ lost' = (lost \/ queue # <<>>)
    BY <2>1, <2>3, Zenon
  <2> QED BY <1>1, <2>2, <2>3, Zenon
<1>4. UdsTypeOK'
  BY <1>1, <1>2, <1>3 DEF UdsInv, UdsTypeOK
<1>5. BuffersHoldLines'
  <2>1. \A i \in 1 .. Len(queue') : Carries(queue'[i])
    BY <1>1 DEF UdsInv, BuffersHoldLines
  <2> QED BY <1>1, <2>1 DEF UdsInv, BuffersHoldLines
<1>6. PrintsOnlyLines'
  BY <1>1 DEF UdsInv, PrintsOnlyLines
<1>7. NoLineSkipped'
  BY <1>1, <1>3 DEF UdsInv, NoLineSkipped
<1> QED BY <1>4, <1>5, <1>6, <1>7 DEF UdsInv

(* Every step keeps the invariant.                                         *)
LEMMA UdsStepKeepsInv ==
  ASSUME UdsInv, UdsNext
  PROVE  UdsInv'
BY ReadKeepsInv, SendKeepsInv, OtherClientStepKeepsInv, ReceiveKeepsInv,
   OtherServerStepKeepsInv DEF UdsNext, UdsServerStep, SenderStep

(* It holds at the start, whether the pair is run or not.                  *)
LEMMA UdsInitInv ==
  ASSUME NEW n, NEW where \in {"off", "done"}, UdsStart(n, where),
         stdin \in [Senders -> Seq(Bytes)]
  PROVE  UdsInv
<1>1. /\ sbuf = Uninitialised /\ stdout = <<>> /\ queue = <<>> /\ taken = <<>> /\ lost = FALSE
      /\ sender = [c \in Senders |-> where] /\ read_cnt = [c \in Senders |-> 0]
      /\ buffer = [c \in Senders |-> Uninitialised] /\ line = [c \in Senders |-> <<>>]
  BY DEF UdsStart
<1>2. Uninitialised \in Seq(BufBytes) /\ Len(Uninitialised) = BufSize
  BY UdsAssumption DEF Uninitialised, BufBytes
<1>3. UdsTypeOK
  <2>1. sbuf \in Seq(BufBytes) /\ Len(sbuf) = BufSize /\ stdout \in Seq(BufBytes)
    BY <1>1, <1>2
  <2>2. queue \in Seq(Datagram) /\ taken \in Seq(Taken)
    BY <1>1
  <2>7. lost \in BOOLEAN
    BY <1>1, Zenon
  <2>3. line \in [Senders -> Seq(Bytes)]
    BY <1>1
  <2>4. read_cnt \in [Senders -> Nat] /\ \A c \in Senders : read_cnt[c] <= Len(stdin[c])
    <3>1. \A c \in Senders : stdin[c] \in Seq(Bytes) /\ Len(stdin[c]) \in Nat
      OBVIOUS
    <3> QED BY <1>1, <3>1
  <2>5. buffer \in [Senders -> Seq(BufBytes)] /\ \A c \in Senders : Len(buffer[c]) = BufSize
    BY <1>1, <1>2
  <2>6. sender \in [Senders -> {"off", "fgets", "sendto", "failed", "done"}]
    BY <1>1
  <2> QED BY <2>1, <2>2, <2>3, <2>4, <2>5, <2>6, <2>7 DEF UdsTypeOK
<1>4. BuffersHoldLines
  BY <1>1 DEF BuffersHoldLines
<1>5. Printed(<<>>) = <<>> /\ \A c : Lines(c, <<>>) = <<>>
  BY DEF Printed, Lines
<1>6. PrintsOnlyLines
  BY <1>1, <1>5, FlattenEmpty DEF PrintsOnlyLines, Printed
<1>7. NoLineSkipped
  <2>1. \A c : LinesFrom(c, <<>>) = <<>>
    BY <1>5, FlattenEmpty DEF LinesFrom, Lines
  <2>2. ASSUME NEW c \in Senders PROVE SubSeq(stdin[c], 1, 0) = <<>>
    OBVIOUS
  <2>3. <<>> \o <<>> \o <<>> = <<>>
    OBVIOUS
  <2> QED BY <1>1, <2>1, <2>2, <2>3 DEF NoLineSkipped
<1> QED BY <1>3, <1>4, <1>6, <1>7 DEF UdsInv

(* UdsInv is an inductive invariant of the clients, the server, its        *)
(* restarts and the socket's file.                                         *)
THEOREM UdsInvariance == Spec => []UdsInv
<1>1. Init => UdsInv
  <2>1. ASSUME TcpInit, UdsOff PROVE UdsInv
    <3>1. stdin \in [Senders -> Seq(Bytes)]
      BY <2>1 DEF UdsOff
    <3> QED BY <2>1, <3>1, UdsInitInv DEF UdsOff
  <2>2. ASSUME UdsInit PROVE UdsInv
    <3>1. stdin \in [Senders -> Seq(Bytes)]
      BY <2>2, UdsAssumption DEF UdsInit
    <3> QED BY <2>2, <3>1, UdsInitInv DEF UdsInit
  <2> QED BY <2>1, <2>2 DEF Init
<1>2. UdsInv /\ [Next]_<<tcpVars, udsVars>> => UdsInv'
  <2>1. ASSUME UdsInv, UNCHANGED udsVars PROVE UdsInv'
    BY <2>1 DEF UdsInv, UdsTypeOK, BuffersHoldLines, PrintsOnlyLines, NoLineSkipped,
       udsVars, serverSide, clientSide
  <2>2. ASSUME UdsInv, UdsNext PROVE UdsInv'
    BY <2>2, UdsStepKeepsInv
  <2> QED BY <2>1, <2>2 DEF Next
<1> QED BY <1>1, <1>2, PTL DEF Spec

(* uds-server.c:41-47 and uds-client.c:31-52.  Of each datagram the server *)
(* prints the line it was sent for, whatever its size and what the buffers *)
(* on both sides held before.                                              *)
THEOREM UdsPrintsOnlyLines == Spec => []PrintsOnlyLines
<1>1. UdsInv => PrintsOnlyLines
  BY DEF UdsInv
<1> QED BY <1>1, UdsInvariance, PTL

(* uds-client.c:31-52.  Until a server ends with datagrams in its queue,   *)
(* nothing that a client read is skipped, doubled or overtaken.            *)
THEOREM UdsSkipsNothing == Spec => []NoLineSkipped
<1>1. UdsInv => NoLineSkipped
  BY DEF UdsInv
<1> QED BY <1>1, UdsInvariance, PTL
===============================================================================
