-------------------------------- MODULE UdsChat -------------------------------
(***************************************************************************)
(* U08/uds-server.c and uds-client.c.  Clients read lines from standard    *)
(* input and send each in a datagram to a socket in the file system; the   *)
(* server prints what it receives.  A client always sends its whole        *)
(* buffer, so a datagram is a line, a NUL and what the buffer held before. *)
(*                                                                         *)
(* The socket's file outlives a server that ends, however it ends; no      *)
(* server binds to it again before somebody removes it.                    *)
(***************************************************************************)
EXTENDS Stdio

CONSTANTS
  Senders,     \* client processes
  Inputs,      \* what may be on a client's standard input
  BufSize,     \* BUFSIZE
  QueueLen,    \* datagrams that wait at a socket at most
  MaxServers   \* bound: how often the server is started

ASSUME UdsAssumption ==
  /\ Inputs \subseteq Seq(Bytes)
  /\ BufSize \in Nat /\ BufSize > 1 /\ QueueLen \in Nat \ {0} /\ MaxServers \in Nat

VARIABLES
  server, sbuf, stdout, servers,     \* the server, its buffer, what it has printed
  sockfile, queue,                   \* the socket in the file system
  sender, stdin, read_cnt, buffer,   \* the clients; how much they have read
  line,     \* history: what each client has read last
  taken,    \* history: the lines, as they were read, of the datagrams received
  lost      \* history: a server has ended with datagrams in its queue

serverSide == <<server, sbuf, stdout, servers>>
clientSide == <<sender, stdin, read_cnt, buffer, line>>
udsVars    == <<serverSide, sockfile, queue, clientSide, taken, lost>>

Uninitialised == [i \in 1 .. BufSize |-> "garbage"]

UdsStart(started, where) ==
  /\ server = "off" /\ sbuf = Uninitialised /\ stdout = <<>> /\ servers = started
  /\ sockfile = "absent" /\ queue = <<>>
  /\ sender = [c \in Senders |-> where]
  /\ read_cnt = [c \in Senders |-> 0] /\ buffer = [c \in Senders |-> Uninitialised]
  /\ line = [c \in Senders |-> <<>>]
  /\ taken = <<>> /\ lost = FALSE
UdsInit == UdsStart(0, "off") /\ stdin \in [Senders -> Inputs]

\* A call writes data to the front of a buffer.
Fill(buf, data) == data \o SubSeq(buf, Len(data) + 1, BufSize)
-------------------------------------------------------------------------------
StartUds ==
  /\ server \in {"off", "ended"} /\ servers < MaxServers
  /\ server' = "bind" /\ servers' = servers + 1 /\ sbuf' = Uninitialised
  /\ UNCHANGED <<stdout, sockfile, queue, clientSide, taken, lost>>

\* bind creates the socket's file, or fails because there is one.
Bind ==
  /\ server = "bind"
  /\ IF sockfile = "absent"
     THEN server' = "recv" /\ sockfile' = "bound"
     ELSE server' = "ended" /\ UNCHANGED sockfile
  /\ UNCHANGED <<sbuf, stdout, servers, queue, clientSide, taken, lost>>

Receive ==
  /\ server = "recv" /\ queue # <<>>
  /\ sbuf' = Fill(sbuf, Head(queue).data)
  /\ stdout' = stdout \o UpToNul(sbuf')
  /\ queue' = Tail(queue)
  /\ taken' = Append(taken, [from |-> Head(queue).from, line |-> Head(queue).line])
  /\ UNCHANGED <<server, servers, sockfile, clientSide, lost>>

\* (Variant: senders are not told that the receiver is gone.)
StillBound == sockfile
FileLeft   == "stale"

\* recv fails or the process is killed.  Nobody unlinks the file.
EndServer ==
  /\ server = "recv"
  /\ server' = "ended" /\ sockfile' = FileLeft
  /\ queue' = <<>> /\ lost' = (lost \/ queue # <<>>)
  /\ UNCHANGED <<sbuf, stdout, servers, clientSide, taken>>

\* The user removes the file that is left.
RemoveFile ==
  /\ sockfile = "stale" /\ sockfile' = "absent"
  /\ UNCHANGED <<serverSide, queue, clientSide, taken, lost>>
-------------------------------------------------------------------------------
StartClient(c) ==
  /\ sender[c] = "off"
  /\ sender' = [sender EXCEPT ![c] = "fgets"]
  /\ UNCHANGED <<serverSide, sockfile, queue, stdin, read_cnt, buffer, line, taken, lost>>

ReadLine(c) ==
  LET str == Fgets(stdin[c], read_cnt[c], BufSize) IN
  /\ sender[c] = "fgets" /\ read_cnt[c] < Len(stdin[c])
  /\ buffer' = [buffer EXCEPT ![c] = Fill(@, Append(str, Nul))]
  /\ read_cnt' = [read_cnt EXCEPT ![c] = @ + Len(str)]
  /\ line' = [line EXCEPT ![c] = str]
  /\ sender' = [sender EXCEPT ![c] = "sendto"]
  /\ UNCHANGED <<serverSide, sockfile, queue, stdin, taken, lost>>

EndOfInput(c) ==
  /\ sender[c] = "fgets" /\ read_cnt[c] = Len(stdin[c])
  /\ sender' = [sender EXCEPT ![c] = "done"]
  /\ UNCHANGED <<serverSide, sockfile, queue, stdin, read_cnt, buffer, line, taken, lost>>

\* ferror(stdin): a client whose input cannot be read ends without the rest.
InputFails(c) ==
  /\ sender[c] = "fgets"
  /\ sender' = [sender EXCEPT ![c] = "done"]
  /\ UNCHANGED <<serverSide, sockfile, queue, stdin, read_cnt, buffer, line, taken, lost>>

\* (Variant: only the line is sent, without the NUL behind it.)
LineOnly(c) == UpToNul(buffer[c])
Payload(c)  == buffer[c]

\* sendto waits while the queue is full.
Sendto(c) ==
  /\ sender[c] = "sendto" /\ sockfile = "bound" /\ Len(queue) < QueueLen
  /\ queue' = Append(queue, [from |-> c, line |-> line[c], data |-> Payload(c)])
  /\ sender' = [sender EXCEPT ![c] = "fgets"]
  /\ UNCHANGED <<serverSide, sockfile, stdin, read_cnt, buffer, line, taken, lost>>

\* (Variant: the result of sendto is not looked at.)
GoesOn       == "fgets"
AfterFailure == "failed"

SendtoFails(c) ==
  /\ sender[c] = "sendto" /\ sockfile # "bound"
  /\ sender' = [sender EXCEPT ![c] = AfterFailure]
  /\ UNCHANGED <<serverSide, sockfile, queue, stdin, read_cnt, buffer, line, taken, lost>>
-------------------------------------------------------------------------------
UdsServerStep == Bind \/ Receive
SenderStep(c) ==
  ReadLine(c) \/ EndOfInput(c) \/ InputFails(c) \/ Sendto(c) \/ SendtoFails(c)
UdsNext ==
  \/ StartUds \/ UdsServerStep \/ EndServer \/ RemoveFile
  \/ \E c \in Senders : StartClient(c) \/ SenderStep(c)

UdsFairness == WF_udsVars(UdsServerStep) /\ \A c \in Senders : WF_udsVars(SenderStep(c))
-------------------------------------------------------------------------------
(* What the server prints of each datagram is the line it was sent for     *)
(* (up to a NUL in the line), and nothing of the bytes that the client's   *)
(* buffer or its own held before.                                          *)
PrintsOnlyLines ==
  stdout = FlattenSeq([i \in 1 .. Len(taken) |-> UpToNul(taken[i].line)])

(* As long as no server ended with datagrams in its queue, everything a    *)
(* client has read is printed, queued, or still to be sent: no part of a   *)
(* line is skipped, doubled or overtaken, however long the lines are.      *)
LinesFrom(c, s) ==
  FlattenSeq([i \in 1 .. Len(s) |-> IF s[i].from = c THEN s[i].line ELSE <<>>])
NoLineSkipped ==
  ~lost => \A c \in Senders :
    LinesFrom(c, taken) \o LinesFrom(c, queue)
      \o (IF sender[c] \in {"sendto", "failed"} THEN line[c] ELSE <<>>)
    = SubSeq(stdin[c], 1, read_cnt[c])

(* Every client ends, having sent all its lines or having failed: none     *)
(* waits for ever for a full queue or for a server that has ended.         *)
SendersFinish ==
  \A c \in Senders : sender[c] # "off" ~> sender[c] \in {"done", "failed"}
===============================================================================
