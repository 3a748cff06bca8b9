---------------------------- MODULE MCAuditLedger ----------------------------
(***************************************************************************)
(* Small instances of AuditLedger for TLC.                                 *)
(***************************************************************************)
EXTENDS LedgerHistoryProofs, TLC

CONSTANTS c1, c2, c3, n1, n2

\* One API process with two or three concurrent calls.
OnePod2 == (c1 :> n1) @@ (c2 :> n1)
OnePod3 == (c1 :> n1) @@ (c2 :> n1) @@ (c3 :> n1)

\* Two API processes on one database, a call in each.
TwoPods == (c1 :> n1) @@ (c2 :> n2)

Symmetry == Permutations(Requests) \cup Permutations(Contents)

=============================================================================
