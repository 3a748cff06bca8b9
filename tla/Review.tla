-------------------------------- MODULE Review --------------------------------
(***************************************************************************)
(* ReviewService.submitDecision(): a human approves or rejects an open      *)
(* ticket.  The ticket is checked once, at the start; the tool runs on the  *)
(* parameters read then, before either table is written.                    *)
(***************************************************************************)
EXTENDS SentinelState

ReviewStates == {"idle", "ticket", "audit"}

Decision == [pc : ReviewStates \ {"idle"}, req : Requests, choice : {"APPROVE", "REJECT"}]

NoDecision == [pc |-> "idle"]

Deciding(v, r) == review[v].pc # "idle" /\ review[v].req = r

reviewUnchanged == UNCHANGED <<queue, mode, gateway, worker, resetting>>

\* Variant: the status of the ticket is not checked.
MayDecideAgain(r) ==
  /\ r \in Ticketed
  /\ r \in Recorded
  /\ EagerReview \/ records[r].verdict # "PENDING"

\* Without EagerReview, reviewers decide only what the status endpoint already
\* reports as decided: a person is slower than the worker's next write.
MayDecide(r) ==
  /\ r \in Ticketed /\ tickets[r].status = "PENDING"
  /\ r \in Recorded
  /\ EagerReview \/ records[r].verdict # "PENDING"

\* Reading the ticket with its record, and the tool run of an approval.
OpenTicket(v) ==
  /\ review[v].pc = "idle"
  /\ \E r \in Requests, choice \in {"APPROVE", "REJECT"} :
       /\ MayDecide(r)
       /\ review' = [review EXCEPT ![v] = [pc |-> "ticket", req |-> r, choice |-> choice]]
       /\ IF choice = "APPROVE" THEN Run(r, records[r].parsed) ELSE UNCHANGED runs
  /\ UNCHANGED <<records, tickets, faults>> /\ reviewUnchanged

\* Variant: every decided ticket is approved.
StoreApproved(v) == tickets' = [tickets EXCEPT ![review[v].req].status = "APPROVED"]

StoreTicket(v) ==
  LET d == review[v] IN
  tickets' = [tickets EXCEPT ![d.req].status =
                IF d.choice = "APPROVE" THEN "APPROVED" ELSE "REJECTED"]

\* Variant: the decision is stored as the reviewer sent it.
StoreChoice(v) ==
  LET d == review[v] IN
  Amend(d.req, d.choice, "reviewer", IF d.choice = "APPROVE" THEN "done" ELSE "refused",
        records[d.req].parsed)

\* Variant: every reviewed request ends approved.
StoreApproval(v) ==
  LET d == review[v] IN
  Amend(d.req, "APPROVE", "reviewer", IF d.choice = "APPROVE" THEN "done" ELSE "refused",
        records[d.req].parsed)

StoreOutcome(v) ==
  LET d == review[v] IN
  Amend(d.req, IF d.choice = "APPROVE" THEN "APPROVE" ELSE "BLOCK", "reviewer",
        IF d.choice = "APPROVE" THEN "done" ELSE "refused", records[d.req].parsed)

EndReview(v) == review' = [review EXCEPT ![v] = NoDecision]

\* The update does not look at the status again; a deleted ticket throws.
UpdateTicket(v) ==
  /\ review[v].pc = "ticket"
  /\ IF review[v].req \in Ticketed
     THEN StoreTicket(v) /\ review' = [review EXCEPT ![v].pc = "audit"]
     ELSE UNCHANGED tickets /\ EndReview(v)
  /\ UNCHANGED <<records, runs, faults>> /\ reviewUnchanged

UpdateOutcome(v) ==
  /\ review[v].pc = "audit"
  /\ IF review[v].req \in Recorded THEN StoreOutcome(v) ELSE UNCHANGED records
  /\ EndReview(v)
  /\ UNCHANGED <<tickets, runs, faults>> /\ reviewUnchanged

\* A database call rejects, applied or not: the reviewer gets an error.
ReviewFails(v) ==
  /\ Fault("db")
  /\ \/ review[v].pc # "idle" /\ UNCHANGED <<records, tickets>>
     \/ /\ review[v].pc = "ticket" /\ review[v].req \in Ticketed
        /\ StoreTicket(v) /\ UNCHANGED records
     \/ /\ review[v].pc = "audit" /\ review[v].req \in Recorded
        /\ StoreOutcome(v) /\ UNCHANGED tickets
  /\ EndReview(v)
  /\ UNCHANGED runs /\ reviewUnchanged

ReviewStep(v) == UpdateTicket(v) \/ UpdateOutcome(v)

=============================================================================
