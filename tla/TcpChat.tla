-------------------------------- MODULE TcpChat -------------------------------
(***************************************************************************)
(* U08/tcp-server.c and tcp-client.c.  The server logs where each          *)
(* connection comes from, sends it one message and closes it; SIGINT shuts *)
(* it down at whatever point it is.  The client prints what it receives    *)
(* until the server closes.                                                *)
(*                                                                         *)
(* Around them: the network, which delivers a message in parts, clients    *)
(* that are killed, a server that is killed or fails and is started again. *)
(* Each step ends at a call at which others can act.                       *)
(***************************************************************************)
EXTENDS Integers, SequencesExt

CONSTANTS
  Clients,      \* client processes, each of which connects once
  BacklogSize,  \* BACKLOG_SIZE
  MsgLen,       \* strlen(SERVER_CANCEL) + 1 <= MAX_MSG_LEN
  MaxRuns       \* bound: how often the server is started

ASSUME TcpAssumption ==
  /\ BacklogSize \in Nat \ {0} /\ MsgLen \in Nat \ {0, 1} /\ MaxRuns \in Nat
  /\ "nobody" \notin Clients

VARIABLES
  \* the server
  pc, logfile, sock_fd, client_sock_fd, sockaddrlen,
  buffered,     \* what logfile's buffer holds
  \* the clients
  client,       \* where each client is
  shown,        \* what it has printed
  got,          \* how many bytes of the message it has received
  \* the system
  log,          \* the log file's contents on disk
  backlog, conn, wire, run, sigint

serverVars == <<logfile, sock_fd, client_sock_fd, sockaddrlen, buffered>>
clientVars == <<client, shown, got>>
netVars    == <<backlog, conn, wire>>
tcpVars == <<pc, serverVars, clientVars, log, netVars, run, sigint>>

Ended   == {"off", "exit_ok", "exit_error", "died"}
Running == pc \notin Ended

TcpStart(runs) ==
  /\ pc = "off" /\ logfile = "none" /\ sock_fd = "none" /\ client_sock_fd = "nobody"
  /\ sockaddrlen = "short" /\ buffered = <<>> /\ log = <<>>
  /\ client = [c \in Clients |-> "away"] /\ shown = [c \in Clients |-> <<>>]
  /\ got = [c \in Clients |-> 0]
  /\ backlog = <<>> /\ conn = [c \in Clients |-> "none"] /\ wire = [c \in Clients |-> 0]
  /\ run = runs /\ sigint = "none"
TcpInit == TcpStart(0)
-------------------------------------------------------------------------------
(* When the process ends the kernel closes its connection in order and     *)
(* resets those that wait.  exit and return write out the log's buffer;    *)
(* a signal that kills the process does not.                               *)
ConnsAfterEnd ==
  [c \in Clients |-> IF c \in ToSet(backlog) THEN "rst"
                     ELSE IF c = client_sock_fd /\ conn[c] = "open" THEN "fin" ELSE conn[c]]
EndAs(how) ==
  /\ pc' = how
  /\ conn' = ConnsAfterEnd /\ backlog' = <<>>
  /\ log' = IF how = "died" THEN log ELSE log \o buffered
  /\ buffered' = <<>> /\ logfile' = "none" /\ sock_fd' = "none"
  /\ client_sock_fd' = "nobody"
  /\ UNCHANGED <<sockaddrlen, clientVars, wire, run, sigint>>

(* Setting up.                                                             *)
StartServer ==
  /\ pc \in Ended /\ run < MaxRuns
  /\ pc' = "sigaction" /\ run' = run + 1 /\ sigint' = "none"
  /\ sockaddrlen' = "short"
  /\ UNCHANGED <<logfile, sock_fd, client_sock_fd, buffered, clientVars, log, netVars>>

InstallHandler ==
  /\ pc = "sigaction" /\ pc' = "fopen"
  /\ UNCHANGED <<serverVars, clientVars, log, netVars, run, sigint>>

OpenLog ==
  /\ pc = "fopen" /\ pc' = "socket"
  /\ logfile' = "open"
  /\ UNCHANGED <<sock_fd, client_sock_fd, sockaddrlen, buffered, clientVars, log,
                 netVars, run, sigint>>

CreateSocket ==
  /\ pc = "socket" /\ pc' = "listen"
  /\ sock_fd' = "open"
  /\ UNCHANGED <<logfile, client_sock_fd, sockaddrlen, buffered, clientVars, log,
                 netVars, run, sigint>>

BindAndListen ==
  /\ pc = "listen" /\ pc' = "accept"
  /\ sock_fd' = "listening"
  /\ UNCHANGED <<logfile, client_sock_fd, sockaddrlen, buffered, clientVars, log,
                 netVars, run, sigint>>

\* err() after a failing call, among them a bind to an address still in use.
CallFails ==
  /\ pc \in {"sigaction", "fopen", "socket", "listen", "close", "close_sock"}
  /\ EndAs("exit_error")

(* The loop.                                                               *)
Accept ==
  /\ pc = "accept" /\ backlog # <<>>
  /\ client_sock_fd' = Head(backlog) /\ backlog' = Tail(backlog)
  /\ pc' = "log"
  /\ UNCHANGED <<logfile, sock_fd, sockaddrlen, buffered, clientVars, log, conn, wire,
                 run, sigint>>

\* accept fails: main returns 0.
AcceptFails == pc = "accept" /\ EndAs("exit_ok")

(* accept writes no more of the address than sockaddrlen says, and sets it *)
(* to the length of the whole address.  It starts as the length of a       *)
(* sockaddr, which is too short for IPv6: the rest is uninitialised.       *)
(* (Variant: sockaddrlen is set anew for every accept.)                    *)
LenAlwaysShort == "short"
LenAfterAccept == "full"
LoggedAddress  == IF sockaddrlen = "full" THEN {"true"} ELSE {"true", "torn"}

PrintLog ==
  /\ pc = "log" /\ pc' = "flush"
  /\ \E a \in LoggedAddress :
       buffered' = Append(buffered, [client |-> client_sock_fd, addr |-> a, run |-> run])
  /\ sockaddrlen' = LenAfterAccept
  /\ UNCHANGED <<logfile, sock_fd, client_sock_fd, clientVars, log, netVars, run, sigint>>

\* (Variant: the log is left to its buffer.)
LeaveBuffered == UNCHANGED <<log, buffered>>
Flushed       == log' = log \o buffered /\ buffered' = <<>>

FlushLog ==
  /\ pc = "flush" /\ pc' = "send"
  /\ Flushed
  /\ UNCHANGED <<logfile, sock_fd, client_sock_fd, sockaddrlen, clientVars,
                 netVars, run, sigint>>

Send ==
  /\ pc = "send"
  /\ wire' = [wire EXCEPT ![client_sock_fd] = MsgLen]
  /\ pc' = "close"
  /\ UNCHANGED <<serverVars, clientVars, log, backlog, conn, run, sigint>>

\* The client is gone and its side has reset the connection: an error or
\* SIGPIPE, either of which ends the server.
SendFails ==
  /\ pc = "send" /\ conn[client_sock_fd] = "gone"
  /\ EndAs("exit_error") \/ EndAs("died")

\* (Variant: the connection is left open.)
LeaveOpen   == conn
ClosedByServer ==
  [conn EXCEPT ![client_sock_fd] = IF @ = "open" THEN "fin" ELSE @]

CloseClient ==
  /\ pc = "close" /\ pc' = "accept"
  /\ conn' = ClosedByServer
  /\ client_sock_fd' = "nobody"
  /\ UNCHANGED <<logfile, sock_fd, sockaddrlen, buffered, clientVars, log, backlog, wire,
                 run, sigint>>
-------------------------------------------------------------------------------
(* SIGINT, wherever the program is: fatal before sigaction; after it       *)
(* shut_down runs, during which a second one is blocked.  The log may not  *)
(* be open yet, so that fclose(NULL) crashes; closing a socket that does   *)
(* not exist yet closes standard input instead.                            *)
Interrupt ==
  /\ Running /\ sigint = "none"
  /\ \/ pc = "sigaction" /\ EndAs("died")
     \/ /\ pc # "sigaction"
        /\ sigint' = "caught" /\ pc' = "shut_down"
        /\ UNCHANGED <<serverVars, clientVars, log, netVars, run>>

\* (Variant: the file is closed, but not the stream with its buffer.)
CloseDescriptor ==
  /\ buffered' = <<>> /\ UNCHANGED log
  /\ logfile' = "closed" /\ pc' = "close_sock"
CloseLog ==
  /\ log' = log \o buffered /\ buffered' = <<>>
  /\ logfile' = "closed" /\ pc' = "close_sock"

ShutDownLog ==
  /\ pc = "shut_down"
  /\ \/ logfile = "none" /\ EndAs("died")
     \/ /\ logfile = "open" /\ CloseLog
        /\ UNCHANGED <<sock_fd, client_sock_fd, sockaddrlen, clientVars, netVars, run, sigint>>

ShutDownSocket == pc = "close_sock" /\ EndAs("exit_ok")

\* SIGKILL.
Kill == Running /\ EndAs("died")
-------------------------------------------------------------------------------
(* The client.                                                             *)
Connect(c) ==
  /\ client[c] = "away" /\ sock_fd = "listening" /\ Len(backlog) < BacklogSize
  /\ client' = [client EXCEPT ![c] = "recv"]
  /\ conn' = [conn EXCEPT ![c] = "open"]
  /\ backlog' = Append(backlog, c)
  /\ UNCHANGED <<pc, serverVars, shown, got, log, wire, run, sigint>>

\* recv returns n bytes; puts prints the buffer up to its first NUL.  If all
\* of the message came at once this is the message; else it is a part of it,
\* followed by what the buffer held, or its end.
Recv(c, n) ==
  /\ client[c] = "recv" /\ conn[c] \in {"open", "fin"}
  /\ n \in 1 .. wire[c] - got[c]
  /\ got' = [got EXCEPT ![c] = @ + n]
  /\ shown' = [shown EXCEPT ![c] = Append(@, IF n = MsgLen THEN "message" ELSE "fragment")]
  /\ UNCHANGED <<pc, serverVars, client, log, netVars, run, sigint>>

RecvEof(c) ==
  /\ client[c] = "recv" /\ conn[c] = "fin" /\ got[c] = wire[c]
  /\ client' = [client EXCEPT ![c] = "done"]
  /\ shown' = [shown EXCEPT ![c] = Append(@, "closed")]
  /\ UNCHANGED <<pc, serverVars, got, log, netVars, run, sigint>>

RecvFails(c) ==
  /\ client[c] = "recv" /\ conn[c] = "rst"
  /\ client' = [client EXCEPT ![c] = "failed"]
  /\ UNCHANGED <<pc, serverVars, shown, got, log, netVars, run, sigint>>

\* The client is killed; the server may find out when it sends.
KillClient(c) ==
  /\ client[c] = "recv" /\ conn[c] = "open"
  /\ client' = [client EXCEPT ![c] = "failed"]
  /\ conn' = [conn EXCEPT ![c] = "gone"]
  /\ UNCHANGED <<pc, serverVars, shown, got, log, backlog, wire, run, sigint>>
-------------------------------------------------------------------------------
ServerStep ==
  \/ InstallHandler \/ OpenLog \/ CreateSocket \/ BindAndListen \/ CallFails
  \/ Accept \/ PrintLog \/ FlushLog \/ Send \/ SendFails \/ CloseClient
  \/ ShutDownLog \/ ShutDownSocket
ClientStep(c) == RecvEof(c) \/ RecvFails(c) \/ \E n \in 1 .. MsgLen : Recv(c, n)
Environment ==
  \/ StartServer \/ AcceptFails \/ Interrupt \/ Kill
  \/ \E c \in Clients : Connect(c) \/ KillClient(c)

TcpNext == ServerStep \/ Environment \/ \E c \in Clients : ClientStep(c)

TcpFairness == WF_tcpVars(ServerStep) /\ \A c \in Clients : WF_tcpVars(ClientStep(c))
-------------------------------------------------------------------------------
Entry == [client : Clients, addr : {"true", "torn"}, run : 1 .. MaxRuns]

(* Types, and which descriptors a handler or an exit may rely on.          *)
TypeOK ==
  /\ pc \in Ended \cup {"sigaction", "fopen", "socket", "listen", "accept", "log", "flush",
                        "send", "close", "shut_down", "close_sock"}
  /\ logfile \in {"none", "open", "closed"} /\ sock_fd \in {"none", "open", "listening"}
  /\ client_sock_fd \in Clients \cup {"nobody"} /\ sockaddrlen \in {"short", "full"}
  /\ buffered \in Seq(Entry) /\ log \in Seq(Entry)
  /\ client \in [Clients -> {"away", "recv", "done", "failed"}]
  /\ shown \in [Clients -> Seq({"message", "fragment", "closed"})]
  /\ got \in [Clients -> 0 .. MsgLen] /\ wire \in [Clients -> 0 .. MsgLen]
  /\ backlog \in Seq(Clients) /\ conn \in [Clients -> {"none", "open", "fin", "rst", "gone"}]
  /\ run \in 0 .. MaxRuns /\ sigint \in {"none", "caught"}

IsLogged(c) == \E i \in 1 .. Len(log) : log[i].client = c

(* Whoever was sent the message has an entry in the log on disk, whenever  *)
(* the server is interrupted, killed, fails or is started again.           *)
ToldIsLogged == \A c \in Clients : wire[c] > 0 => IsLogged(c)

(* tcp-server.c:29, "Shut down properly on SIGINT", and the "a" in fopen:  *)
(* no step takes an entry from the log, and what was printed to it gets to *)
(* the disk unless the process is killed or crashes.                       *)
LogIsKept ==
  [][/\ IsPrefix(log, log')
     /\ pc' # "died" => IsPrefix(log \o buffered, log' \o buffered')]_tcpVars

(* Of each run of the server only the first entry may tell a wrong address.*)
OnlyFirstAddressTorn ==
  \A i, j \in 1 .. Len(log) :
    i < j /\ log[i].run = log[j].run => log[j].addr = "true"

(* Every client that connects is told something in the end, by the server, *)
(* or by the kernel when the server ends; none waits in recv for ever.     *)
ClientsEnd == \A c \in Clients : client[c] = "recv" ~> client[c] \in {"done", "failed"}
===============================================================================
