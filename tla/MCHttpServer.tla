---------------------------- MODULE MCHttpServer ----------------------------
(* HttpServer on small instances. *)
EXTENDS HttpServerInv

ConnSymmetry == Permutations(Conns)

\* What the peers send: all of them the same, or only one asks for a file.
AllAsk(kinds) == [c \in Conns |-> kinds]
SafetyAsks == AllAsk({"get", "malformed", "fragment"})
LimitsAsks == AllAsk({"get", "unsupported"})
LiveAsks == [c \in Conns |-> IF c \in Returning THEN {"unsupported"} ELSE {"get"}]
WalkAsks == AllAsk({"get"})
LineAsks == AllAsk({"unsupported", "fragment"})
===============================================================================
