------------------------------- MODULE MCConfig -------------------------------
(***************************************************************************)
(* Small instances of Dashboard and ConfigCache for TLC.  The tab and the  *)
(* other clients call p1; p2 only shares the database, and restarts.       *)
(***************************************************************************)
EXTENDS Dashboard, TLC

CONSTANTS c1, c2, p1, p2

\* The calls differ in nothing.
Clients == Permutations({c1, c2})

PodOfCall == [c \in Calls |-> p1]
Seeded == [mode |-> "ENFORCE", tools |-> "t0"]

\* What other clients ask for: tools that are no list, which a reset or a start
\* takes back, and a new rule.
NoTools == [kind |-> "config", key |-> "tools", value |-> "text"]
Creation == [kind |-> "create", id |-> "r3"]
OtherClients == {NoTools, Creation}

=============================================================================
