------------------------------ MODULE HttpServer ------------------------------
(***************************************************************************)
(* U09/http-server.c: a single-threaded HTTP/1.0 server around pselect.    *)
(*                                                                         *)
(* The process registers its listening socket and its clients, waits in    *)
(* pselect, accepts at most one connection per wake-up, then walks its     *)
(* list of clients, reads a request line from each readable one, answers   *)
(* it and closes it.  SIGINT is blocked except inside pselect.             *)
(*                                                                         *)
(* Modelled around it, from how the process uses them: the kernel's table  *)
(* of descriptors, the accept queue, the peers of the connections, who     *)
(* send, half-close, reset or stop reading at any moment, and the outcomes *)
(* of stat, fopen and fread.  Each program step ends where another party   *)
(* could act in between, i.e. at the system calls.                         *)
(***************************************************************************)
EXTENDS Integers, SequencesExt

CONSTANTS
  Conns,         \* bound: connections that peers have at a time
  Returning,     \* those of them that may be opened again after they have ended
  MaxClientCnt,  \* MAX_CLIENT_CNT
  BacklogSize,   \* BACKLOG_SIZE: connections waiting to be accepted
  FdLimit,       \* the process's limit on descriptor numbers (RLIMIT_NOFILE)
  MaxChunks,     \* bound: a file has at most this many BUFSIZE chunks
  Asks,          \* Asks[c]: which of AllKinds the peer of connection c sends
  PeerEvents,    \* which of AllEvents the environment produces
  AfterFree,     \* what a build may read from a list node that was just freed
  StackHolds     \* whose line feed the uninitialised request_line may hold: nobody's
                 \* or garbage

(* What the first read of a connection may return, as far as the code      *)
(* tells requests apart: a GET of an .html, .jpeg or .gif file; a GET of a *)
(* file with another extension or with no dot; a method or version the     *)
(* server rejects; a line without the '/', ' ' or '.' whose position the   *)
(* code takes unchecked; a read that ends before the line feed.            *)
AllKinds  == {"get", "otherext", "nodot", "unsupported", "malformed", "fragment"}
AllEvents == {"fin", "rst", "stall", "sigint"}

SockFd == 3    \* the listening socket: the first descriptor after stderr
NoFd   == -1   \* what a failing accept returns
Fds    == SockFd .. FdLimit - 1

ASSUME ConstAssumption ==
  /\ MaxClientCnt \in Nat \ {0} /\ BacklogSize \in Nat \ {0} /\ MaxChunks \in Nat
  /\ FdLimit \in Nat /\ FdLimit > SockFd
  /\ Returning \subseteq Conns /\ Asks \in [Conns -> SUBSET AllKinds] /\ PeerEvents \subseteq AllEvents
  /\ AfterFree \subseteq {"next", "null", "garbage"}
  /\ StackHolds \subseteq {"nobody", "garbage"}
  /\ Conns \cap {"free", "listener", "file", "nobody", "garbage"} = {}

VARIABLES
  \* the process
  pc, client_fds, client_cnt, max_fd, readfds,
  to_visit,      \* the nodes from cur_client to the end of the list
  client_fd, infile,
  req,           \* what the handler found in request_line
  line_from,     \* whose line feed the buffer request_line still holds
  left,          \* chunks of infile not sent yet
  \* the kernel and the peers
  fdtab,         \* what each descriptor of the process denotes
  backlog, sigint, peer, request, unread, reply,
  serving        \* history: the connection the handler read its request from

procVars == <<client_fds, client_cnt, max_fd, readfds, to_visit>>
handlerVars == <<client_fd, infile, req, line_from, left, serving>>
netVars  == <<backlog, peer, request, unread>>
vars     == <<pc, procVars, handlerVars, fdtab, netVars, sigint, reply>>
-------------------------------------------------------------------------------
(* The kernel's side of the calls the server makes.                        *)
FreeFds   == {fd \in Fds : fdtab[fd] = "free"}
LowestFd  == Min(FreeFds)
CloseFd(tab, fd) == [tab EXCEPT ![fd] = "free"]      \* EBADF changes nothing
IsOpen(c) == \E fd \in Fds : fdtab[fd] = c
Running   == pc \notin {"exit_ok", "exit_error", "died"}

\* A read returns at once: data, end of file or an error.
HasInput(c) == c \in unread \/ peer[c] \in {"fin", "rst"}
Readable(fd) ==
  \/ fdtab[fd] = "listener" /\ backlog # <<>>
  \/ fdtab[fd] \in Conns /\ HasInput(fdtab[fd])

\* send(client_fd, ...) of one message.  Only a file's contents are long
\* enough to wait for a peer that stopped reading.
SendOk(what) ==
  LET c == fdtab[client_fd] IN
  /\ c \in Conns
  /\ peer[c] # "rst"
  /\ what = "chunk" => peer[c] # "stalled"
  /\ reply' = [reply EXCEPT ![c] =
       IF what = "chunk" /\ @ # <<>> /\ Last(@) = "chunk" THEN @ ELSE Append(@, what)]
\* send returns -1: the descriptor is closed already or the peer has reset.
SendFails ==
  /\ fdtab[client_fd] \in Conns => peer[fdtab[client_fd]] = "rst"
  /\ UNCHANGED reply
\* Writing to a reset connection may instead raise SIGPIPE, which is not handled.
SigPipe ==
  /\ pc \in {"header", "body", "respond"}
  /\ fdtab[client_fd] \in Conns /\ peer[fdtab[client_fd]] = "rst"
  /\ pc' = "died"
  /\ UNCHANGED <<procVars, handlerVars, fdtab, netVars, sigint, reply>>
-------------------------------------------------------------------------------
Init ==
  /\ pc = "register"
  /\ client_fds = <<>> /\ client_cnt = 0 /\ max_fd = SockFd
  /\ readfds = {} /\ to_visit = <<>>
  /\ client_fd = NoFd /\ infile = NoFd /\ req = "fragment" /\ left = 0
  /\ line_from \in StackHolds
  /\ fdtab = [fd \in Fds |-> IF fd = SockFd THEN "listener" ELSE "free"]
  /\ backlog = <<>> /\ sigint = "none"
  /\ peer = [c \in Conns |-> "away"] /\ request = [c \in Conns |-> "none"]
  /\ unread = {} /\ reply = [c \in Conns |-> <<>>]
  /\ serving = "nobody"

\* (Variant: the clients are left out.)
ListenerOnly == {SockFd}
(* FD_SET of the listening socket and of all clients.  FD_SET(-1), after a *)
(* failed accept, writes outside the set: the process dies or another bit, *)
(* which no client watches, is set.                                        *)
Watched == {SockFd} \cup (ToSet(client_fds) \ {NoFd})

Register ==
  /\ pc = "register"
  /\ readfds' = Watched
  /\ pc' \in IF NoFd \in ToSet(client_fds) THEN {"pselect", "died"} ELSE {"pselect"}
  /\ UNCHANGED <<client_fds, client_cnt, max_fd, to_visit, handlerVars,
                 fdtab, netVars, sigint, reply>>

\* pselect returns the readable descriptors up to max_fd; it reports them
\* even while a SIGINT is pending.
Selected == {fd \in readfds : fd <= max_fd /\ Readable(fd)}

PselectReady ==
  /\ pc = "pselect"
  /\ Selected # {}
  /\ readfds' = Selected
  /\ pc' = "dispatch"
  /\ UNCHANGED <<client_fds, client_cnt, max_fd, to_visit, handlerVars,
                 fdtab, netVars, sigint, reply>>

\* pselect returns -1 with EINTR and leaves readfds as it was.
PselectInterrupted ==
  /\ pc = "pselect"
  /\ sigint = "pending"
  /\ sigint' = "caught"
  /\ pc' = "dispatch"
  /\ UNCHANGED <<procVars, handlerVars, fdtab, netVars, reply>>

\* (Variant: the flag that the signal handler sets is not looked at.)
SignalIgnored == FALSE
\* Close the registered clients and the listening socket; exit with an
\* error if a close failed.
ShuttingDown  == sigint = "caught"
ClosedAtExit  == ToSet(client_fds) \cup {SockFd}

Shutdown ==
  /\ pc = "dispatch"
  /\ ShuttingDown
  /\ fdtab' = [fd \in Fds |-> IF fd \in ClosedAtExit THEN "free" ELSE fdtab[fd]]
  /\ pc' = IF \A fd \in ClosedAtExit : fd \in Fds /\ fdtab[fd] # "free"
           THEN "exit_ok" ELSE "exit_error"
  /\ UNCHANGED <<procVars, handlerVars, netVars, sigint, reply>>

\* (Variants: the limit is off by one; max_fd follows the last descriptor.)
OneTooMany == SockFd \in readfds /\ client_cnt <= MaxClientCnt
LastFd(fd) == fd
MayAccept  == SockFd \in readfds /\ client_cnt < MaxClientCnt
HighestFd(fd) == Max({max_fd, fd})

\* accept would wait for a connection, and its result is used unchecked: -1
\* joins the list as a client.
AcceptClient ==
  /\ pc = "dispatch" /\ ~ShuttingDown
  /\ MayAccept
  /\ FreeFds # {} => backlog # <<>>
  /\ LET fd == IF FreeFds = {} THEN NoFd ELSE LowestFd IN
     /\ client_fds' = <<fd>> \o client_fds
     /\ max_fd' = HighestFd(fd)
     /\ IF fd = NoFd
        THEN UNCHANGED <<fdtab, backlog>>
        ELSE /\ fdtab' = [fdtab EXCEPT ![fd] = Head(backlog)]
             /\ backlog' = Tail(backlog)
  /\ client_cnt' = client_cnt + 1
  /\ to_visit' = client_fds'
  /\ pc' = "visit"
  /\ UNCHANGED <<readfds, handlerVars, peer, request, unread, sigint, reply>>

AcceptNobody ==
  /\ pc = "dispatch" /\ ~ShuttingDown
  /\ ~MayAccept
  /\ to_visit' = client_fds
  /\ pc' = "visit"
  /\ UNCHANGED <<client_fds, client_cnt, max_fd, readfds, handlerVars,
                 fdtab, netVars, sigint, reply>>
-------------------------------------------------------------------------------
(* The walk over the clients.                                              *)
EndPass ==
  /\ pc = "visit" /\ to_visit = <<>>
  /\ pc' = "register"
  /\ UNCHANGED <<procVars, handlerVars, fdtab, netVars, sigint, reply>>

IsReady(fd)  == to_visit # <<>> /\ fd = Head(to_visit) /\ fd \in readfds
\* (Variant: the client is not removed from the list.)
ForgetCountOnly(fd) == UNCHANGED client_fds /\ client_cnt' = client_cnt - 1
\* g_slist_remove of the client and the decrement that follows it.
Forget(fd) ==
  /\ client_fds' = RemoveFirst(client_fds, fd)
  /\ client_cnt' = client_cnt - 1

SkipClient ==
  /\ pc = "visit" /\ to_visit # <<>>
  /\ ~IsReady(Head(to_visit))
  /\ to_visit' = Tail(to_visit)
  /\ UNCHANGED <<pc, client_fds, client_cnt, max_fd, readfds, handlerVars,
                 fdtab, netVars, sigint, reply>>

\* read returned 0: the client stays registered.
ReadEof(fd) ==
  /\ pc = "visit" /\ IsReady(fd)
  /\ fdtab[fd] \in Conns
  /\ peer[fdtab[fd]] = "fin" /\ fdtab[fd] \notin unread
  /\ to_visit' = Tail(to_visit)
  /\ UNCHANGED <<pc, client_fds, client_cnt, max_fd, readfds, handlerVars,
                 fdtab, netVars, sigint, reply>>

\* The line found in the buffer: a complete request of kind k, or none (400).
LineIs(k)  == req' = k /\ pc' = "parse"
NoLine     == pc' = "respond" /\ UNCHANGED req
WholeKinds == UNION {Asks[c] : c \in Conns} \ {"fragment"}

(* read returned data.  The buffer is terminated at its end, not after the *)
(* data read, so a fragment may be completed by the line feed that an      *)
(* earlier read left further on.                                           *)
ReadRequest(fd) ==
  LET c == fdtab[fd] IN
  /\ pc = "visit" /\ IsReady(fd)
  /\ c \in Conns /\ c \in unread
  /\ unread' = unread \ {c}
  /\ client_fd' = fd /\ serving' = c
  /\ Forget(fd)
  /\ \/ /\ request[c] # "fragment"
        /\ LineIs(request[c]) /\ line_from' = c
     \/ /\ request[c] = "fragment"
        /\ NoLine /\ line_from' \in {line_from, "nobody"}
     \/ /\ request[c] = "fragment" /\ line_from # "nobody"
        /\ \E k \in WholeKinds : LineIs(k)
        /\ UNCHANGED line_from
  /\ UNCHANGED <<max_fd, readfds, to_visit, infile, left,
                 fdtab, backlog, peer, request, sigint, reply>>

(* read returned -1: the socket is closed, but the handler goes on with    *)
(* the buffer as it is, whose first line an earlier parse has cut with a   *)
(* NUL unless the buffer was never written.                                *)
ReadError(fd) ==
  LET c == fdtab[fd] IN
  /\ pc = "visit" /\ IsReady(fd)
  /\ c \in Conns /\ peer[c] = "rst"
  /\ fdtab' = CloseFd(fdtab, fd)
  /\ client_fd' = fd /\ serving' = c
  /\ Forget(fd)
  /\ \/ NoLine
     \/ line_from = "garbage" /\ \E k \in WholeKinds : LineIs(k)
  /\ UNCHANGED <<max_fd, readfds, to_visit, infile, left, line_from,
                 netVars, sigint, reply>>

\* (Variant: the walk ends with the first client that was served.)
EndsHere(nodes)  == <<>>
NextNodes(nodes) == Tail(nodes)
(* g_slist_next of a node that was freed when the client was removed: the  *)
(* old link, NULL (the walk ends) or a wild pointer.                       *)
Advance ==
  /\ pc = "advance"
  /\ \/ "next" \in AfterFree /\ to_visit' = NextNodes(to_visit) /\ pc' = "visit"
     \/ "null" \in AfterFree /\ to_visit' = <<>> /\ pc' = "visit"
     \/ "garbage" \in AfterFree /\ UNCHANGED to_visit /\ pc' = "died"
  /\ client_fd' = NoFd /\ serving' = "nobody"
  /\ UNCHANGED <<client_fds, client_cnt, max_fd, readfds, infile, req, line_from,
                 left, fdtab, netVars, sigint, reply>>
-------------------------------------------------------------------------------
(* Answering one request.                                                  *)

\* From the request line to the header: reject it, stat the file, guess the
\* MIME type.  Cutting the version may overwrite the line feed.
Parse ==
  /\ pc = "parse"
  /\ \/ req \in {"unsupported", "otherext"} /\ pc' = "respond"
     \/ req \in {"get", "nodot"} /\ pc' = "respond"    \* stat fails: 404 or 500
     \/ req = "get" /\ pc' = "header"
     \/ req \in {"malformed", "nodot"} /\ pc' = "died" \* strchr, strrchr gave NULL
  /\ line_from' \in {line_from, "nobody"}
  /\ UNCHANGED <<procVars, client_fd, infile, req, left, serving,
                 fdtab, netVars, sigint, reply>>

SendHeader ==
  /\ pc = "header"
  /\ \/ SendOk("header") /\ pc' = "open"
     \/ SendFails /\ pc' = "advance"         \* the socket is not closed
  /\ UNCHANGED <<procVars, handlerVars, fdtab, netVars, sigint>>

\* (Variant: a failed fopen starts the answer over.)
OpenRetried == pc' = "header" /\ UNCHANGED <<infile, fdtab, left>>
OpenFailed  == pc' = "respond" /\ UNCHANGED <<infile, fdtab, left>>

OpenFile ==
  /\ pc = "open"
  /\ \/ /\ FreeFds # {}
        /\ infile' = LowestFd
        /\ fdtab' = [fdtab EXCEPT ![LowestFd] = "file"]
        /\ left' \in 0 .. MaxChunks
        /\ pc' = "body"
     \/ OpenFailed                           \* it has disappeared, or EMFILE
  /\ UNCHANGED <<procVars, client_fd, req, line_from, serving, netVars, sigint, reply>>

\* A chunk that cannot be sent is only warned about.
SendChunk ==
  /\ pc = "body" /\ left > 0
  /\ SendOk("chunk") \/ SendFails
  /\ left' = left - 1
  /\ UNCHANGED <<pc, procVars, client_fd, infile, req, line_from, serving,
                 fdtab, netVars, sigint>>

\* fread meets the end of the file, or an error, which is answered as well.
EndFile ==
  /\ pc = "body"
  /\ \/ left = 0 /\ pc' = "finish"
     \/ pc' = "respond"
  /\ UNCHANGED <<procVars, handlerVars, fdtab, netVars, sigint, reply>>

\* respond(): send a status line, then close the socket.
Respond ==
  /\ pc = "respond"
  /\ SendOk("status") \/ SendFails
  /\ fdtab' = CloseFd(fdtab, client_fd)
  /\ pc' = IF infile = NoFd THEN "advance" ELSE "finish"
  /\ UNCHANGED <<procVars, handlerVars, netVars, sigint>>

\* (Variants: the socket is not closed; infile still denotes the closed file.)
CloseFileOnly == CloseFd(fdtab, infile)
InfileKept    == infile
\* fclose(infile), then close(client_fd), even if respond() closed it before.
CloseBoth     == CloseFd(CloseFd(fdtab, infile), client_fd)
InfileReset   == NoFd

Finish ==
  /\ pc = "finish"
  /\ fdtab' = CloseBoth
  /\ infile' = InfileReset
  /\ pc' = "advance"
  /\ UNCHANGED <<procVars, client_fd, req, line_from, left, serving,
                 netVars, sigint, reply>>
-------------------------------------------------------------------------------
(* The peers and the user.  What a peer does after the server has closed   *)
(* its connection reaches nobody and is left out.                          *)
Connected(c) == c \in ToSet(backlog) \/ IsOpen(c)

\* A connection that is over leaves its place in Conns to another one.
Fresh(c) ==
  /\ ~Connected(c) /\ c # serving
  /\ peer[c] = "away" \/ c \in Returning

Connect(c) ==
  /\ Running /\ Fresh(c) /\ Len(backlog) < BacklogSize
  /\ peer' = [peer EXCEPT ![c] = "up"]
  /\ backlog' = Append(backlog, c)
  /\ request' = [request EXCEPT ![c] = "none"]
  /\ unread' = unread \ {c}
  /\ reply' = [reply EXCEPT ![c] = <<>>]
  /\ UNCHANGED <<pc, procVars, handlerVars, fdtab, sigint>>

SendRequest(c, k) ==
  /\ Running /\ Connected(c) /\ peer[c] = "up" /\ c \notin unread
  /\ request' = [request EXCEPT ![c] = k]
  /\ unread' = unread \cup {c}
  /\ UNCHANGED <<pc, procVars, handlerVars, fdtab, backlog, peer, sigint, reply>>

PeerMove(c, from, to) ==
  /\ Running /\ Connected(c) /\ peer[c] \in from
  /\ peer' = [peer EXCEPT ![c] = to]
  /\ UNCHANGED <<pc, procVars, handlerVars, fdtab, backlog, request, unread, sigint, reply>>

HalfClose(c) == "fin" \in PeerEvents /\ PeerMove(c, {"up"}, "fin")
Reset(c)     == "rst" \in PeerEvents /\ PeerMove(c, {"up", "stalled", "fin"}, "rst")
\* That a peer does not read makes no difference before it is sent a file.
Stall(c)     ==
  "stall" \in PeerEvents /\ reply[c] # <<>> /\ PeerMove(c, {"up"}, "stalled")
Resume(c)    == PeerMove(c, {"stalled"}, "up")

Interrupt ==
  /\ "sigint" \in PeerEvents /\ Running /\ sigint = "none"
  /\ sigint' = "pending"
  /\ UNCHANGED <<pc, procVars, handlerVars, fdtab, netVars, reply>>
-------------------------------------------------------------------------------
ServerStep ==
  \/ Register \/ PselectReady \/ PselectInterrupted \/ Shutdown
  \/ AcceptClient \/ AcceptNobody \/ EndPass \/ SkipClient
  \/ \E fd \in Fds : ReadEof(fd) \/ ReadRequest(fd) \/ ReadError(fd)
  \/ Parse \/ SendHeader \/ OpenFile \/ SendChunk \/ EndFile \/ Respond \/ Finish
  \/ Advance \/ SigPipe

Environment ==
  \/ Interrupt
  \/ \E c \in Conns :
       \/ Connect(c) \/ HalfClose(c) \/ Reset(c) \/ Stall(c) \/ Resume(c)
       \/ \E k \in Asks[c] : SendRequest(c, k)

Next == ServerStep \/ Environment

Spec     == Init /\ [][Next]_vars
\* The scheduler keeps running a process that can run; peers owe nothing.
FairSpec == Spec /\ WF_vars(ServerStep)
===============================================================================
