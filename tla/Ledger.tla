-------------------------------- MODULE Ledger --------------------------------
(***************************************************************************)
(* What AuditService promises its callers, with no hashes, Mutex or        *)
(* database calls in sight: an append-only list of entries whose places    *)
(* never change, whose contents change only by amendment, and which always *)
(* passes verification.  AuditLedger implements this when one process      *)
(* serves every call and nothing fails.                                    *)
(***************************************************************************)
EXTENDS Integers, FiniteSets

CONSTANTS Requests, Contents

VARIABLES
  entries,  \* the request ids appended so far, each with its place and content
  verdict   \* the answer of the last verification

Known == DOMAIN entries

Append(r, x) ==
  /\ r \notin Known
  /\ entries' = [q \in Known \cup {r} |->
                   IF q = r THEN [idx |-> Cardinality(Known), content |-> x]
                            ELSE entries[q]]
  /\ UNCHANGED verdict

Amend(r, x) ==
  /\ r \in Known
  /\ entries' = [entries EXCEPT ![r].content = x]
  /\ UNCHANGED verdict

Verify == verdict' = "verified" /\ UNCHANGED entries

Init == entries = [q \in {} |-> {}] /\ verdict = "none"

Next ==
  \/ \E r \in Requests, x \in Contents : Append(r, x) \/ Amend(r, x)
  \/ Verify

Spec == Init /\ [][Next]_<<entries, verdict>>

=============================================================================
