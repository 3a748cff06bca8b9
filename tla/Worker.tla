-------------------------------- MODULE Worker --------------------------------
(***************************************************************************)
(* JobWorkerService: one loop per process that pops a job, decides it, runs *)
(* the tool or opens a review ticket, and stores the outcome; any error on  *)
(* the way stores a fallback BLOCK instead.                                 *)
(***************************************************************************)
EXTENDS SentinelState

WorkerStates == {"idle", "decide", "count", "ticket", "update", "notify", "fallback"}

\* What processJob() holds: the verdict, the form of the request it works on,
\* and the ticket number.
Job == [pc : WorkerStates \ {"idle"}, req : Requests, verdict : Verdicts \cup {"PENDING"},
        parsed : Forms, number : Nat]
Waiting == [pc |-> "idle"]

Handling(p, r) == worker[p].pc # "idle" /\ worker[p].req = r

workerUnchanged == UNCHANGED <<mode, gateway, review, resetting>>

\* The job goes on at pc; nothing else of it changes.
Proceed(p, pc) == worker' = [worker EXCEPT ![p].pc = pc]

EndJob(p) == worker' = [worker EXCEPT ![p] = Waiting]

\* BRPOP removes the job from Redis before anything is done about it.
PopJob(p) ==
  /\ worker[p].pc = "idle"
  /\ queue # <<>>
  /\ queue' = Tail(queue)
  /\ worker' = [worker EXCEPT ![p] =
       [pc |-> "decide", req |-> Head(queue), verdict |-> "PENDING",
        parsed |-> "raw", number |-> 0]]
  /\ UNCHANGED <<records, tickets, runs, faults>> /\ workerUnchanged

\* A request with parse errors is blocked and comes back as it is; any other is
\* ruled on, redacted when its tool requires that and as it came when not.
Rulings(r) ==
  IF r \in Malformed THEN {[verdict |-> "BLOCK", parsed |-> "raw"]}
  ELSE [verdict : Verdicts, parsed : {IF r \in Exempt THEN "raw" ELSE "redacted"}]

Effective(p, verdict) == IF mode[p] = "OBSERVE" THEN "APPROVE" ELSE verdict

\* validate(), decide(), and the OBSERVE override.  Reading the mode and running
\* an approved tool follow in the same turn of the event loop.
Decide(p) ==
  /\ worker[p].pc = "decide"
  /\ \E ruling \in Rulings(worker[p].req) :
       LET verdict == Effective(p, ruling.verdict) IN
       /\ worker' = [worker EXCEPT ![p] = [@ EXCEPT
            !.verdict = verdict, !.parsed = ruling.parsed,
            !.pc = IF verdict = "ESCALATE" THEN "count" ELSE "update"]]
       /\ IF verdict = "APPROVE" THEN Run(worker[p].req, ruling.parsed) ELSE UNCHANGED runs
  /\ UNCHANGED <<records, tickets, queue, faults>> /\ workerUnchanged

\* Variant: only the open tickets are counted.
OpenNumber == Cardinality({r \in Ticketed : tickets[r].status = "PENDING"}) + 1

\* escalate() numbers the ticket by how many there are.
NextNumber == Cardinality(Ticketed) + 1

CountTickets(p) ==
  /\ worker[p].pc = "count"
  /\ worker' = [worker EXCEPT ![p] = [@ EXCEPT
       !.pc = "ticket", !.number = NextNumber]]
  /\ UNCHANGED <<records, tickets, queue, runs, faults>> /\ workerUnchanged

\* The ticket needs its audit record; its request id and number are unique.
TicketAllowed(r, number) ==
  /\ r \in Recorded
  /\ r \notin Ticketed
  /\ \A q \in Ticketed : tickets[q].number # number

NewTicket(p) ==
  tickets' = With(tickets, worker[p].req, [status |-> "PENDING", number |-> worker[p].number])

CreateTicket(p) ==
  /\ worker[p].pc = "ticket"
  /\ IF TicketAllowed(worker[p].req, worker[p].number)
     THEN NewTicket(p) /\ Proceed(p, "update")
     ELSE UNCHANGED tickets /\ Proceed(p, "fallback")
  /\ UNCHANGED <<records, queue, runs, faults>> /\ workerUnchanged

\* Variant: the tool result is not passed on.
StoreNoResult(p) ==
  Amend(worker[p].req, worker[p].verdict, "worker", "none", worker[p].parsed)

\* Variant: the redacted request is not passed on.
StoreUnredacted(p) ==
  LET j == worker[p] IN
  Amend(j.req, j.verdict, "worker", IF j.verdict = "APPROVE" THEN "done" ELSE "none",
        records[j.req].parsed)

StoreVerdict(p) ==
  LET j == worker[p] IN
  Amend(j.req, j.verdict, "worker", IF j.verdict = "APPROVE" THEN "done" ELSE "none", j.parsed)

StoreFallback(p) ==
  Amend(worker[p].req, "BLOCK", "fallback", "none", records[worker[p].req].parsed)

UpdateAudit(p) ==
  /\ worker[p].pc = "update"
  /\ IF worker[p].req \in Recorded
     THEN StoreVerdict(p) /\ Proceed(p, "notify")
     ELSE UNCHANGED records /\ Proceed(p, "fallback")
  /\ UNCHANGED <<tickets, queue, runs, faults>> /\ workerUnchanged

\* Webhooks and metrics; failing deliveries are swallowed.
Notify(p) ==
  /\ worker[p].pc = "notify"
  /\ EndJob(p)
  /\ UNCHANGED <<records, tickets, queue, runs, faults>> /\ workerUnchanged

\* Variant: the failure is only logged.
FallbackDropped(p) ==
  /\ worker[p].pc = "fallback"
  /\ EndJob(p)
  /\ UNCHANGED <<records, tickets, queue, runs, faults>> /\ workerUnchanged

Fallback(p) ==
  /\ worker[p].pc = "fallback"
  /\ IF worker[p].req \in Recorded THEN StoreFallback(p) ELSE UNCHANGED records
  /\ EndJob(p)
  /\ UNCHANGED <<tickets, queue, runs, faults>> /\ workerUnchanged

\* A database call of the job rejects, applied or not: the fallback takes
\* over; when the fallback's own write fails that is only logged.  (A rule whose
\* query rejects only adds a failure: Decide covers what is then ruled.)
JobFails(p) ==
  /\ Fault("db")
  /\ \/ /\ worker[p].pc \in {"count", "ticket", "update"}
        /\ UNCHANGED <<records, tickets>> /\ Proceed(p, "fallback")
     \/ /\ worker[p].pc = "ticket" /\ TicketAllowed(worker[p].req, worker[p].number)
        /\ NewTicket(p) /\ UNCHANGED records /\ Proceed(p, "fallback")
     \/ /\ worker[p].pc = "update" /\ worker[p].req \in Recorded
        /\ StoreVerdict(p) /\ UNCHANGED tickets /\ Proceed(p, "fallback")
     \/ /\ worker[p].pc = "fallback"
        /\ UNCHANGED <<records, tickets>> /\ EndJob(p)
  /\ UNCHANGED <<queue, runs>> /\ workerUnchanged

\* notifyVerdict() throws on a webhook_urls value that is not a list.
NotifyFails(p) ==
  /\ worker[p].pc = "notify"
  /\ Fault("notify")
  /\ Proceed(p, "fallback")
  /\ UNCHANGED <<records, tickets, queue, runs>> /\ workerUnchanged

\* The connection drops after BRPOP was applied: its answer is lost.
JobLost(p) ==
  /\ worker[p].pc = "idle"
  /\ queue # <<>>
  /\ Fault("redis")
  /\ queue' = Tail(queue)
  /\ UNCHANGED <<records, tickets, runs, worker>> /\ workerUnchanged

WorkerStep(p) ==
  \/ PopJob(p) \/ Decide(p) \/ CountTickets(p) \/ CreateTicket(p)
  \/ UpdateAudit(p) \/ Notify(p) \/ Fallback(p)
WorkerFault(p) == JobFails(p) \/ NotifyFails(p) \/ JobLost(p)

=============================================================================
