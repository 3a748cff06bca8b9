------------------------------- MODULE Sentinel -------------------------------
(***************************************************************************)
(* Mini-Sentinel as a whole: API processes (pods) that accept requests,    *)
(* work through the job list and serve the review desk, over one database  *)
(* and one Redis.  An administrator changes the execution mode or resets   *)
(* the database; a pod may crash and restart.                              *)
(***************************************************************************)
EXTENDS Gateway, Worker, Review

-----------------------------------------------------------------------------
(* Administration and restarts *)

\* updateConfig() stores the mode and reloads the cache of the pod that serves
\* the call; the other pods keep theirs.
SetMode(p) ==
  /\ \E m \in Modes : mode' = [mode EXCEPT ![p] = m]
  /\ UNCHANGED <<records, tickets, queue, runs, gateway, worker, review, resetting, faults>>

\* The first deletion of resetDatabase().
PurgeTickets(p) ==
  /\ p \notin resetting
  /\ Fault("reset")
  /\ tickets' = [r \in {} |-> {}]
  /\ resetting' = resetting \cup {p}
  /\ UNCHANGED <<records, queue, mode, runs, gateway, worker, review>>

\* The second: a ticket made in between keeps its record, and the call throws.
\* Otherwise the configuration is seeded and loaded anew.
PurgeRecords(p) ==
  /\ p \in resetting
  /\ resetting' = resetting \ {p}
  /\ IF Ticketed = {}
     THEN /\ records' = [r \in {} |-> {}]
          /\ mode' = [mode EXCEPT ![p] = "ENFORCE"]
     ELSE UNCHANGED <<records, mode>>
  /\ UNCHANGED <<tickets, queue, runs, gateway, worker, review, faults>>

\* The process dies with its calls; the database and Redis live on, and the
\* restarted process seeds the configuration anew.
Crash(p) ==
  /\ Fault("crash")
  /\ mode' = [mode EXCEPT ![p] = "ENFORCE"]
  /\ gateway' = [g \in Calls |->
       IF PodOf[g] = p /\ gateway[g] = "push" THEN "lost" ELSE gateway[g]]
  /\ worker' = [worker EXCEPT ![p] = Waiting]
  /\ review' = [v \in Reviewers |-> IF PodOf[v] = p THEN NoDecision ELSE review[v]]
  /\ resetting' = resetting \ {p}
  /\ UNCHANGED <<records, tickets, queue, runs>>

-----------------------------------------------------------------------------
Init ==
  /\ records = [r \in {} |-> {}]
  /\ tickets = [r \in {} |-> {}]
  /\ queue = <<>>
  /\ mode = [p \in Pods |-> "ENFORCE"]
  /\ runs = [r \in Requests |-> <<>>]
  /\ gateway = [g \in Calls |-> "idle"]
  /\ worker = [p \in Pods |-> Waiting]
  /\ review = [v \in Reviewers |-> NoDecision]
  /\ resetting = {}
  /\ faults = 0

Next ==
  \/ \E g \in Calls : GatewayStep(g) \/ GatewayFault(g)
  \/ \E p \in Pods : WorkerStep(p) \/ WorkerFault(p)
  \/ \E v \in Reviewers : OpenTicket(v) \/ ReviewStep(v) \/ ReviewFails(v)
  \/ \E p \in Pods : SetMode(p) \/ PurgeTickets(p) \/ PurgeRecords(p) \/ Crash(p)

Spec == Init /\ [][Next]_vars

\* A call that began goes on and the worker loop keeps polling.  Nothing makes
\* a client, a reviewer or an administrator act.
FairSpec ==
  /\ Spec
  /\ \A g \in Calls : WF_vars(PushJob(g))
  /\ \A p \in Pods : WF_vars(WorkerStep(p))
  /\ \A v \in Reviewers : WF_vars(ReviewStep(v))

-----------------------------------------------------------------------------
(* Properties *)

\* Every variable has its type.
TypeOK ==
  /\ Recorded \subseteq Requests /\ records \in [Recorded -> Record]
  /\ Ticketed \subseteq Requests /\ tickets \in [Ticketed -> Ticket]
  /\ queue \in Seq(Requests)
  /\ mode \in [Pods -> {"ENFORCE", "OBSERVE"}]
  /\ runs \in [Requests -> Seq(Forms)]
  /\ gateway \in [Calls -> GatewayStates]
  /\ worker \in [Pods -> Job \cup {Waiting}]
  /\ review \in [Reviewers -> Decision \cup {NoDecision}]
  /\ resetting \in SUBSET Pods
  /\ faults \in 0..MaxFaults

Queued(r) == \E i \in 1..Len(queue) : queue[i] = r
Pushing(r) == \E g \in Calls : gateway[g] = "push" /\ ReqOf[g] = r
Worked(r) == \E p \in Pods : Handling(p, r)
Reviewed(r) == \E v \in Reviewers : Deciding(v, r)
Settled(r) == ~(Queued(r) \/ Pushing(r) \/ Worked(r) \/ Reviewed(r))

\* Each request has one bearer: its PENDING record is about to be queued,
\* queued once, or in the hands of one worker, and never two of these.  So a
\* repeated POST never gets a request processed twice, and no request waits
\* for a verdict that nobody will give.
OneBearer ==
  \A r \in Recorded :
    LET bearers == Cardinality({g \in Calls : gateway[g] = "push" /\ ReqOf[g] = r})
                   + Cardinality({i \in 1..Len(queue) : queue[i] = r})
                   + Cardinality({p \in Pods : Handling(p, r)}) IN
    bearers <= 1 /\ (records[r].verdict = "PENDING" => bearers = 1)

\* The tool runs at most once for a request, whether the worker approves it or
\* a reviewer does, however often the client posts it.
RunOnce == \A r \in Requests : Len(runs[r]) <= 1

\* The audit trail and the world agree: once nobody works on a request, its
\* record says APPROVE with a tool result exactly when the tool has run.
LoggedRuns ==
  \A r \in Recorded : Settled(r) =>
    /\ (runs[r] # <<>>) <=> (records[r].exec = "done")
    /\ (records[r].verdict = "APPROVE") <=> (records[r].exec = "done")

\* The review desk and the audit trail agree: once nobody works on a request,
\* its ticket is open exactly when its verdict is ESCALATE, and a closed one
\* says what the reviewer's verdict in the record says.
TicketAgrees ==
  \A r \in Recorded : Settled(r) =>
    IF r \in Ticketed
    THEN \/ tickets[r].status = "PENDING" /\ records[r].verdict = "ESCALATE"
         \/ /\ records[r].by = "reviewer"
            /\ \/ tickets[r].status = "APPROVED" /\ records[r].verdict = "APPROVE"
               \/ tickets[r].status = "REJECTED" /\ records[r].verdict = "BLOCK"
    ELSE records[r].by = "worker" /\ records[r].verdict # "ESCALATE"

\* No request is blocked as an "Internal processing error" unless something
\* failed: a ticket number is never taken, a record never missing.
NoSpuriousBlock == \A r \in Recorded : records[r].by # "fallback"

\* A tool that requires redaction runs on redacted parameters, also when a
\* reviewer approves: the record that is read back holds the redacted request by
\* then.  Left out are the requests validate() hands back as they came: those of
\* an exempt tool (the seeded loan-underwriter), and those with parse errors,
\* which run under OBSERVE.
RunRedacted ==
  \A r \in Requests \ (Malformed \cup Exempt) : \A i \in 1..Len(runs[r]) : runs[r][i] = "redacted"

\* Nothing is recorded as executed that was not: even when steps fail, crash or
\* repeat, an approval in the audit trail or on a ticket is of a run that took
\* place.
NoPhantomRun ==
  \A r \in Requests :
    \/ r \in Recorded /\ (records[r].verdict = "APPROVE" \/ records[r].exec = "done")
    \/ r \in Ticketed /\ tickets[r].status = "APPROVED"
    => runs[r] # <<>>

\* A verdict only moves from PENDING to the worker's, and from ESCALATE to the
\* reviewer's; after APPROVE or BLOCK neither verdict nor record changes.
VerdictOrder ==
  [][\A r \in Recorded : r \in Recorded' /\ records'[r] # records[r] =>
       \/ records[r].verdict = "PENDING" /\ records'[r].by = "worker"
       \/ /\ records[r].verdict = "ESCALATE"
          /\ records'[r].by = "reviewer"
          /\ records'[r].verdict \in {"APPROVE", "BLOCK"}]_vars

\* A verdict a human gave stays: nothing overwrites a record a reviewer's
\* decision wrote.
HumanVerdictKept ==
  [][\A r \in Recorded : records[r].by = "reviewer" /\ r \in Recorded' =>
       records'[r] = records[r]]_vars

\* A request whose stored verdict is BLOCK is never executed afterwards.
BlockedNotRun ==
  [][\A r \in Recorded : records[r].verdict = "BLOCK" => runs'[r] = runs[r]]_vars

\* A client that was answered 202 and polls finds a verdict other than PENDING.
Answered ==
  \A g \in Calls : gateway[g] = "accepted" ~>
    (ReqOf[g] \in Recorded /\ Status(ReqOf[g]) # "PENDING")

=============================================================================
