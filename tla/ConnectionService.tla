-------------------------- MODULE ConnectionService --------------------------
(***************************************************************************)
(* What U09/http-server.c promises to the peers, without descriptors,      *)
(* lists or a program counter: connections are accepted in the order in    *)
(* which they were queued, each one once; each is sent at most one answer, *)
(* only while it is open; and a closed connection stays closed, though     *)
(* another one may take its place in Conns.                                *)
(***************************************************************************)
EXTENDS Sequences

CONSTANT Conns

VARIABLES
  queue,    \* connections waiting to be accepted
  stage,    \* stage[c]: how far connection c has come
  answer    \* answer[c]: what it has been sent

serviceVars == <<queue, stage, answer>>

Init ==
  /\ queue = <<>>
  /\ stage = [c \in Conns |-> "away"]
  /\ answer = [c \in Conns |-> <<>>]

Enqueue(c) ==
  /\ stage[c] \in {"away", "closed"}
  /\ stage' = [stage EXCEPT ![c] = "queued"]
  /\ queue' = Append(queue, c)
  /\ answer' = [answer EXCEPT ![c] = <<>>]

Accept ==
  /\ queue # <<>>
  /\ stage' = [stage EXCEPT ![Head(queue)] = "open"]
  /\ queue' = Tail(queue)
  /\ UNCHANGED answer

\* One answer: a header and chunks of a file (a run of them counts as one),
\* which an error status may end, or the status alone.
MaySend(sent, what) ==
  CASE what = "header" -> sent = <<>>
    [] what = "chunk"  -> sent = <<"header">>
    [] what = "status" -> sent \in {<<>>, <<"header">>, <<"header", "chunk">>}

Send(c, what) ==
  /\ stage[c] = "open" /\ MaySend(answer[c], what)
  /\ answer' = [answer EXCEPT ![c] = Append(@, what)]
  /\ \/ UNCHANGED stage
     \/ stage' = [stage EXCEPT ![c] = "closed"]
  /\ UNCHANGED queue

Close(c) ==
  /\ stage[c] = "open"
  /\ stage' = [stage EXCEPT ![c] = "closed"]
  /\ UNCHANGED <<queue, answer>>

\* The service ends and closes whatever it still knows of.
Shutdown ==
  /\ \E S \in SUBSET {c \in Conns : stage[c] = "open"} :
       stage' = [c \in Conns |-> IF c \in S THEN "closed" ELSE stage[c]]
  /\ UNCHANGED <<queue, answer>>

Next ==
  \/ Accept \/ Shutdown
  \/ \E c \in Conns :
       \/ Enqueue(c) \/ Close(c)
       \/ \E what \in {"header", "chunk", "status"} : Send(c, what)

Spec == Init /\ [][Next]_serviceVars
===============================================================================
