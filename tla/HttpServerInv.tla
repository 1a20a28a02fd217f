---------------------------- MODULE HttpServerInv ----------------------------
(***************************************************************************)
(* The inductive invariant behind the theorems of HttpServerProofs: what   *)
(* the kernel's tables, the list of clients, the handler and the walk must *)
(* agree on between any two steps for the properties of HttpServerProps to *)
(* survive every step.                                                     *)
(***************************************************************************)
EXTENDS HttpServerProps

\* No two positions of a list hold the same descriptor (-1 may repeat).
Distinct(list) ==
  \A i, j \in DOMAIN list : list[i] = list[j] /\ list[i] # NoFd => i = j

(* The kernel's side: the listening socket keeps its descriptor, and each  *)
(* connection is in one place only: not opened, queued once, or behind one *)
(* descriptor.                                                             *)
KernelInv ==
  /\ \A fd \in Fds : fdtab[fd] = "listener" => fd = SockFd
  /\ Running => fdtab[SockFd] = "listener"
  /\ \A f, g \in Fds : fdtab[f] \in Conns /\ fdtab[f] = fdtab[g] => f = g
  /\ \A i, j \in DOMAIN backlog : backlog[i] = backlog[j] => i = j
  /\ \A i \in DOMAIN backlog : ~IsOpen(backlog[i]) /\ peer[backlog[i]] # "away"
  /\ \A fd \in Fds : fdtab[fd] \in Conns => peer[fdtab[fd]] # "away"
  /\ \A c \in unread : request[c] \in Asks[c]

(* The list of clients: distinct open connections, counted, watched.       *)
ListInv ==
  /\ Distinct(client_fds)
  /\ Running => \A fd \in Clients : fdtab[fd] \in Conns
  /\ CountMatchesList
  /\ EveryClientWatched

(* The handler owns client_fd, which has left the list, and infile; the    *)
(* socket stays open until it answers, unless read failed.                 *)
HandlerInv ==
  /\ InHandler =>
       /\ client_fd \in Fds /\ client_fd \notin Clients
       /\ serving \in Conns
       /\ fdtab[client_fd] \in {serving, "free"}
       /\ \A fd \in Fds : fdtab[fd] = serving => fd = client_fd
  /\ pc \in {"open", "body"} => fdtab[client_fd] = serving
  /\ pc = "advance" /\ fdtab[client_fd] = serving => peer[serving] = "rst"
  /\ infile # NoFd => fdtab[infile] = "file" \/ ~Running
  /\ pc \in {"body", "finish"} => infile # NoFd
  /\ infile # NoFd => pc \in {"body", "respond", "finish", "died"}
  /\ NoLeakWithoutReset

\* The nodes still to visit after the one whose request is being answered.
Remaining == IF InHandler THEN Tail(to_visit) ELSE to_visit

\* Registered clients, each of them ahead only once, and those that pselect
\* reported still have something to read.
WalkableFrom(list) ==
  /\ Distinct(list)
  /\ ToSet(list) \subseteq ToSet(client_fds)
  /\ \A fd \in readfds \cap ToSet(list) : Readable(fd)

(* The walk can trust readfds for the nodes ahead of it, whatever has been *)
(* accepted, closed or opened since pselect returned.                      *)
WalkInv ==
  /\ pc = "dispatch" /\ sigint # "caught" => \A fd \in readfds : Readable(fd)
  /\ InHandler => to_visit # <<>> /\ Head(to_visit) = client_fd
  /\ InHandler \/ pc = "visit" => WalkableFrom(Remaining)

IInv == TypeOK /\ KernelInv /\ ListInv /\ HandlerInv /\ WalkInv

(* What has been answered: nothing to a connection that is not open yet or *)
(* still registered, and to the one being served what the handler's place  *)
(* in the code says.                                                       *)
Unanswered(c) ==
  peer[c] = "away" \/ c \in ToSet(backlog) \/ \E fd \in Clients : fdtab[fd] = c

AnswerInv ==
  /\ \A c \in Conns : Unanswered(c) => reply[c] = <<>>
  /\ pc \in {"parse", "header"} => reply[serving] = <<>>
  /\ pc = "open" => reply[serving] = <<"header">>
  /\ pc = "body" => reply[serving] \in {<<"header">>, <<"header", "chunk">>}
  /\ pc = "respond" /\ fdtab[client_fd] = serving =>
       reply[serving] \in {<<>>, <<"header">>, <<"header", "chunk">>}

(* Who has been sent anything is being served or closed: a socket that the *)
(* handler leaves behind has been sent nothing.                            *)
SentInv ==
  /\ Running => \A c \in Conns : IsOpen(c) /\ ~(InHandler /\ serving = c) => reply[c] = <<>>
  /\ pc = "advance" /\ fdtab[client_fd] = serving => reply[serving] = <<>>
===============================================================================
