------------------------------ MODULE MCSentinel ------------------------------
(***************************************************************************)
(* Small instances of Sentinel for TLC.                                    *)
(***************************************************************************)
EXTENDS Sentinel, TLC

CONSTANTS a1, a2, a3, a4, q1, q2, q3, v1, v2, p1, p2

\* q1 is posted twice.
AllReqs == (a1 :> q1) @@ (a2 :> q1) @@ (a3 :> q2) @@ (a4 :> q3)
ReqOfCall == [g \in Calls |-> AllReqs[g]]

\* Everything in one process, or q2 and the second reviewer in another.
OnePod == [c \in Calls \cup Reviewers |-> p1]
TwoPods == [c \in Calls \cup Reviewers |-> IF c \in {a3, v2} THEN p2 ELSE p1]

=============================================================================
