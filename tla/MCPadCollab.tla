---------------------------- MODULE MCPadCollab -----------------------------
(* TLC instances of PadCollab and SteadyPad. *)
EXTENDS SteadyPad

CONSTANTS c1, c2, a1, a2

TwoClients == {c1, c2}
OwnAuthor == [c \in {c1, c2} |-> IF c = c1 THEN a1 ELSE a2]
SameAuthor == [c \in {c1, c2} |-> a1]
=============================================================================
