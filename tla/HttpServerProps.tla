--------------------------- MODULE HttpServerProps ---------------------------
(***************************************************************************)
(* What U09/http-server.c must guarantee, stated over the states and steps *)
(* of HttpServer.                                                          *)
(***************************************************************************)
EXTENDS HttpServer

InHandler == pc \in {"parse", "header", "open", "body", "respond", "finish", "advance"}
Clients   == ToSet(client_fds) \ {NoFd}

(* Every variable has its type (the domains of the C variables, and what   *)
(* the kernel's table and the peers may hold).                             *)
TypeOK ==
  /\ pc \in {"register", "pselect", "dispatch", "visit", "parse", "header", "open",
             "body", "respond", "finish", "advance", "exit_ok", "exit_error", "died"}
  /\ client_fds \in Seq(Fds \cup {NoFd})
  /\ client_cnt \in Int
  /\ max_fd \in Fds
  /\ readfds \in SUBSET Fds
  /\ to_visit \in Seq(Fds \cup {NoFd})
  /\ client_fd \in Fds \cup {NoFd}
  /\ infile \in Fds \cup {NoFd}
  /\ req \in AllKinds
  /\ line_from \in Conns \cup {"nobody", "garbage"}
  /\ left \in Nat
  /\ fdtab \in [Fds -> Conns \cup {"free", "listener", "file"}]
  /\ backlog \in Seq(Conns)
  /\ sigint \in {"none", "pending", "caught"}
  /\ peer \in [Conns -> {"away", "up", "fin", "rst", "stalled"}]
  /\ request \in [Conns -> AllKinds \cup {"none"}]
  /\ unread \in SUBSET Conns
  /\ reply \in [Conns -> Seq({"header", "chunk", "status"})]
  /\ serving \in Conns \cup {"nobody"}

(* While the server runs, each registered descriptor denotes an open       *)
(* connection, no two of them the same one: a descriptor that was closed   *)
(* (and may since denote something else) never lingers in client_fds.      *)
RegisteredAreOpen ==
  Running =>
    \A i, j \in DOMAIN client_fds : client_fds[i] # NoFd =>
      /\ fdtab[client_fds[i]] \in Conns
      /\ client_fds[i] = client_fds[j] => i = j

(* client_cnt, which limits how many connections are accepted, counts the  *)
(* list it is kept apart from, and never passes MAX_CLIENT_CNT.            *)
CountMatchesList == client_cnt = Len(client_fds) /\ client_cnt <= MaxClientCnt

(* pselect is told of no descriptor above max_fd: every client is watched. *)
EveryClientWatched == \A fd \in Clients : fd <= max_fd

(* The walk reads only from descriptors that have something to read: the   *)
(* readiness pselect reported is not stale by the time it is used (a stale *)
(* one would block the only thread of the server in read).                 *)
ReadNeverBlocks ==
  pc = "visit" => \A fd \in readfds \cap ToSet(to_visit) : Readable(fd)

(* An accepted connection that is still open is registered or being        *)
(* answered, unless its peer has reset it: no other socket leaks.          *)
NoLeakWithoutReset ==
  Running =>
    \A c \in Conns : IsOpen(c) =>
      \/ \E fd \in Clients : fdtab[fd] = c
      \/ InHandler /\ serving = c
      \/ peer[c] = "rst"

(* The handler closes no connection but the one whose request it read,     *)
(* even where it closes a descriptor twice.                                *)
ClosesOnlyItsOwn ==
  [][InHandler => \A c \in Conns : IsOpen(c) /\ ~IsOpen(c)' => c = serving]_vars

(* The server implements the service of ConnectionService: accepts in      *)
(* order, one answer per connection, nothing to or from a closed one.      *)
Stage(c) ==
  IF peer[c] = "away" THEN "away"
  ELSE IF c \in ToSet(backlog) THEN "queued"
  ELSE IF IsOpen(c) THEN "open" ELSE "closed"

Service == INSTANCE ConnectionService WITH
  queue <- backlog, stage <- [c \in Conns |-> Stage(c)], answer <- reply
ImplementsService == Service!Spec
-------------------------------------------------------------------------------
(* http-server.c:142 exits with EXIT_OK "depending on whether all sockets  *)
(* were closed properly".  It does not know of all: those that were reset  *)
(* before their header could be sent are left open.  All others, and every *)
(* one that was sent anything, have been closed by a clean exit.           *)
CleanExitClosedAnswered ==
  pc = "exit_ok" => \A c \in Conns : IsOpen(c) => peer[c] = "rst" /\ reply[c] = <<>>

(* http-server.c:189: the loop is to "go through all registered clients";  *)
(* when it ends, no client whose request pselect reported is still unread. *)
WalkVisitsAll ==
  pc = "visit" /\ to_visit = <<>> =>
    \A fd \in Clients \cap readfds : fdtab[fd] \notin unread

(* http-server.c:229: "check whether we received the whole request line":  *)
(* a line that is parsed was received from the client being answered.      *)
LineIsOwn == pc = "parse" => line_from = serving

(* A peer that stops reading holds up the only thread of the server, and  *)
(* with it everybody else, until it reads on or its connection ends.       *)
NobodyStalls == \A d \in Conns : Connected(d) => peer[d] # "stalled"

(* A client that is registered and has sent its request is disconnected in *)
(* the end (or the server ends), if no peer stops reading for ever.  Other *)
(* clients may connect all the time: they are put in front of it.          *)
RequestsAreServed ==
  <>[]NobodyStalls =>
    \A c \in Conns : (c \in unread /\ IsOpen(c)) ~> (~IsOpen(c) \/ ~Running)

\* pselect prefers readable descriptors to a pending signal.
NobodyComes == [][\A c \in Conns : ~Connect(c)]_vars

(* http-server.c:128: "shut down gracefully on SIGINT", under the same     *)
(* condition and if there is an end to new clients.                        *)
ShutsDownOnSigint ==
  <>[]NobodyStalls /\ <>NobodyComes => (sigint = "pending" ~> ~Running)
===============================================================================
