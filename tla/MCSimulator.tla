----------------------------- MODULE MCSimulator ------------------------------
(***************************************************************************)
(* Small instances of Simulator for TLC.                                   *)
(***************************************************************************)
EXTENDS Simulator, TLC

CONSTANTS a1, a2, a3, q1, q2, v1, p1

\* The tab submits q1; other clients post q1 too, and q2.
AllReqs == (a1 :> q1) @@ (a2 :> q1) @@ (a3 :> q2)
ReqOfCall == [g \in Calls |-> AllReqs[g]]
OnePod == [c \in Calls \cup Reviewers |-> p1]

=============================================================================
