\* Two TCP clients and a server that is started twice; two datagram clients and
\* a server that is started twice.
CONSTANTS
  Clients = {c1, c2}
  BacklogSize = 2
  MsgLen = 3
  MaxRuns = 2
  Senders = {s1, s2}
  Inputs <- MCInputs
  BufSize = 4
  QueueLen = 1
  MaxServers = 2
SPECIFICATION Spec
INVARIANTS ToldIsLogged OnlyFirstAddressTorn PrintsOnlyLines NoLineSkipped
PROPERTIES LogIsKept ClientsEnd SendersFinish
CHECK_DEADLOCK FALSE
