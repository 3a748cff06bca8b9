------------------------ MODULE SentinelOutcomeProofs ------------------------
(***************************************************************************)
(* What the record, the ticket and the tool runs of a request say while it *)
(* is worked on and in the end.  Each theorem names the hypotheses it      *)
(* needs: what may fail, whether a ticket is decided only after its        *)
(* verdict is stored, one reviewer at a time, one API process.             *)
(***************************************************************************)
EXTENDS SentinelProofs

\* Nothing fails.
Faultless == FaultKinds \subseteq {"poll"}

\* Processes do not die, webhook deliveries do not throw.
NoCrash == "crash" \notin FaultKinds
Notified == "notify" \notin FaultKinds

\* A person is slower than the worker's next write.
Patient == ~EagerReview

\* One decision is processed at a time.
OneReviewer == \A u, v \in Reviewers : u = v

\* One API process.
SinglePod == \A p, q \in Pods : p = q

-----------------------------------------------------------------------------
(* The rows of a request, whatever is lost *)

\* Recorded and not decided: nothing but the record of intercept() exists.
Fresh(r) == r \in Recorded /\ records[r] = NewRecord /\ r \notin Ticketed

\* Redacted, unless the tool requires no redaction.
Presented(r, form) == r \notin Exempt => form = "redacted"

\* A job is undecided until its update; an escalated one has its final form, and gets
\* its ticket before its record says so.
JobRows(p) ==
  LET j == worker[p] IN
  /\ j.pc \in {"decide", "count", "ticket"} => Fresh(j.req)
  /\ j.pc = "fallback" => Fresh(j.req) \/ (~Notified /\ records[j.req].verdict # "PENDING")
  /\ j.pc \in {"count", "ticket"} => j.verdict = "ESCALATE"
  /\ j.pc \in {"count", "ticket", "update"} /\ j.verdict = "ESCALATE"
       => Presented(j.req, j.parsed)
  /\ j.pc = "update" =>
       /\ Patient => records[j.req] = NewRecord
       /\ j.req \in Ticketed <=> j.verdict = "ESCALATE"

WaitingFresh == \A r \in Requests : Pushing(r) \/ Queued(r) => Fresh(r)

\* A reviewer works on a ticket, and has closed it before the record is next.
TicketRows ==
  /\ Ticketed \subseteq Recorded
  /\ \A v \in Reviewers : review[v].pc # "idle" =>
       /\ review[v].req \in Ticketed
       /\ review[v].pc = "audit" => tickets[review[v].req].status # "PENDING"

\* The review desk shows decided requests as they must be, and works on no others.
PatientRows ==
  /\ \A r \in Ticketed : records[r].verdict # "PENDING" => Presented(r, records[r].parsed)
  /\ \A v \in Reviewers : review[v].pc # "idle" => records[review[v].req].verdict # "PENDING"
  /\ RunRedacted

RowInv == WaitingFresh /\ (\A p \in Pods : JobRows(p)) /\ TicketRows /\ (Patient => PatientRows)

\* A step leaves the rows and the runs of q alone.
Untouched(q) ==
  /\ q \in Recorded' <=> q \in Recorded
  /\ q \in Recorded => records'[q] = records[q]
  /\ q \in Ticketed' <=> q \in Ticketed
  /\ q \in Ticketed => tickets'[q] = tickets[q]
  /\ runs'[q] = runs[q]

-----------------------------------------------------------------------------
(* Steps and what they touch *)

\* A step that at most ends calls, jobs and reviews, or moves a request on.
Dropping ==
  /\ UNCHANGED <<records, tickets, runs>>
  /\ \A r : Pushing(r)' \/ Queued(r)' => Pushing(r) \/ Queued(r)
  /\ \A p \in Pods : worker'[p] = worker[p] \/ (~NoCrash /\ worker'[p].pc = "idle")
  /\ \A v \in Reviewers : review'[v] = review[v] \/ (~NoCrash /\ review'[v].pc = "idle")

\* Putting an element into the queue, or not, adds no other one.
LEMMA QueueDrops ==
  ASSUME TypeOK, NEW g \in Calls, gateway[g] = "push",
         NEW s \in GatewayStates \ {"push"}, gateway' = [gateway EXCEPT ![g] = s],
         queue' = queue \/ queue' = Append(queue, ReqOf[g]),
         UNCHANGED <<records, tickets, runs, worker, review>>
  PROVE  Dropping
<1> DEFINE r == ReqOf[g]
<1>0. /\ r \in Requests /\ gateway \in [Calls -> GatewayStates] /\ queue \in Seq(Requests)
      /\ Pushing(r)
  BY SentinelAssumption DEF TypeOK, Pushing
<1>1. \A q : In(Append(queue, r), q) <=> In(queue, q) \/ q = r
  BY <1>0, JoinProperties
<1>2. \A q : Queued(q)' => Queued(q) \/ q = r
  BY <1>1 DEF In, Queued
<1>3. \A q : Pushing(q)' => Pushing(q)
  BY <1>0 DEF Pushing
<1> QED
  BY <1>0, <1>2, <1>3 DEF Dropping

\* Every step that may happen records a request, moves a job or a review on, or
\* drops something.
LEMMA StepKinds ==
  ASSUME Lossy, TypeInv, AloneInv, [Next]_vars
  PROVE  \/ Dropping
         \/ \E g \in Calls : ReqOf[g] \notin Recorded /\ Intercept(g)
         \/ \E p \in Pods : WorkerStep(p) \/ NotifyFails(p)
         \/ \E v \in Reviewers : OpenTicket(v) \/ UpdateTicket(v) \/ UpdateOutcome(v)
<1>0. /\ TypeOK /\ resetting = {} /\ gateway \in [Calls -> GatewayStates]
      /\ queue \in Seq(Requests)
  BY DEF TypeInv, TypeOK, AloneInv
<1>1. ASSUME NEW g \in Calls, PushJob(g) \/ PushFails(g)
      PROVE  Dropping
  BY <1>0, <1>1, QueueDrops DEF PushJob, PushFails, gatewayUnchanged, GatewayStates
<1>2. ASSUME NEW g \in Calls, ReqOf[g] \in Recorded, Intercept(g)
      PROVE  Dropping
  BY <1>0, <1>2 DEF Intercept, gatewayUnchanged, Dropping, Pushing, Queued
<1>3. ASSUME NEW p \in Pods, JobLost(p)
      PROVE  Dropping
  <2>1. \A q : In(queue', q) => In(queue, q)
    BY <1>0, <1>3, LeaveProperties DEF JobLost
  <2>2. \A q : (Queued(q)' => Queued(q)) /\ (Pushing(q)' => Pushing(q))
    BY <1>3, <2>1 DEF In, Queued, Pushing, JobLost, workerUnchanged
  <2> QED
    BY <1>3, <2>2 DEF JobLost, workerUnchanged, Dropping
<1>4. ASSUME NEW p \in Pods, Crash(p)
      PROVE  Dropping
  <2>1. /\ UNCHANGED <<records, tickets, runs, queue>> /\ ~NoCrash
        /\ \A g \in Calls : gateway'[g] = "push" => gateway[g] = "push"
        /\ \A q \in Pods : worker'[q] = worker[q] \/ worker'[q].pc = "idle"
        /\ \A v \in Reviewers : review'[v] = review[v] \/ review'[v].pc = "idle"
    BY <1>0, <1>4 DEF Crash, TypeOK, Waiting, NoDecision, Fault, NoCrash
  <2> QED
    BY <2>1 DEF Dropping, Pushing, Queued
<1>5. UNCHANGED <<records, tickets, runs, queue, gateway, worker, review>> => Dropping
  BY DEF Dropping, Pushing, Queued
<1> QED
  BY <1>0, <1>1, <1>2, <1>3, <1>4, <1>5, LossySteps DEF SetMode, vars

\* A worker touches the request it holds and no other.
LEMMA WorkerTouches ==
  ASSUME TypeInv, NEW p \in Pods, worker[p].pc # "idle", WorkerStep(p) \/ NotifyFails(p)
  PROVE  /\ UNCHANGED <<queue, gateway, review, resetting, mode>>
         /\ \A q \in Pods \ {p} : worker'[q] = worker[q]
         /\ worker'[p].pc # "idle" => worker'[p].req = worker[p].req
         /\ \A q \in Requests \ {worker[p].req} : Untouched(q)
<1> DEFINE r == worker[p].req
<1>0. /\ TypeOK /\ worker[p] \in Job /\ r \in Requests /\ NextNumber \in Nat
      /\ records \in [Recorded -> Record]
  BY HeldTypes, NextNumberType DEF TypeInv, TypeOK, Job
<1>1. CASE Decide(p)
  <2>1. PICK ruling \in Rulings(r) :
          /\ worker'[p].req = r
          /\ \A q \in Pods \ {p} : worker'[q] = worker[q]
          /\ \A q \in Requests \ {r} : runs'[q] = runs[q]
    BY <1>0, <1>1, DecideProperties
  <2> QED
    BY <1>1, <2>1 DEF Decide, workerUnchanged, Untouched, Recorded, Ticketed
<1>2. CASE CountTickets(p)
  <2>1. worker'[p].req = r /\ \A q \in Pods \ {p} : worker'[q] = worker[q]
    BY <1>0, <1>2, CountProperties
  <2> QED
    BY <1>2, <2>1 DEF CountTickets, workerUnchanged, Untouched, Recorded, Ticketed
<1>3. CASE CreateTicket(p)
  <2>1. worker'[p].req = r /\ \A q \in Pods \ {p} : worker'[q] = worker[q]
    BY <1>0, <1>3, ProceedProperties DEF CreateTicket, WorkerStates
  <2>2. CASE UNCHANGED tickets
    BY <1>3, <2>1, <2>2 DEF CreateTicket, workerUnchanged, Untouched, Recorded, Ticketed
  <2>3. CASE NewTicket(p)
    <3>1. /\ Ticketed' = Ticketed \cup {r}
          /\ \A q \in Ticketed \ {r} : tickets'[q] = tickets[q]
      BY <1>0, <2>3, NewTicketType
    <3> QED
      BY <1>3, <2>1, <3>1 DEF CreateTicket, workerUnchanged, Untouched, Recorded
  <2> QED
    BY <1>3, <2>2, <2>3 DEF CreateTicket
<1>4. CASE UpdateAudit(p)
  <2>1. worker'[p].req = r /\ \A q \in Pods \ {p} : worker'[q] = worker[q]
    BY <1>0, <1>4, ProceedProperties DEF UpdateAudit, WorkerStates
  <2>2. Recorded' = Recorded /\ \A q \in Recorded \ {r} : records'[q] = records[q]
    BY <1>0, <1>4 DEF UpdateAudit, StoreVerdict, Amend, Recorded
  <2> QED
    BY <1>4, <2>1, <2>2 DEF UpdateAudit, workerUnchanged, Untouched, Ticketed
<1>5. CASE Notify(p)
  <2>1. worker'[p].pc = "idle" /\ \A q \in Pods \ {p} : worker'[q] = worker[q]
    BY <1>0, <1>5, EndJobProperties DEF Notify
  <2> QED
    BY <1>5, <2>1 DEF Notify, workerUnchanged, Untouched, Recorded, Ticketed
<1>6. CASE Fallback(p)
  <2>1. worker'[p].pc = "idle" /\ \A q \in Pods \ {p} : worker'[q] = worker[q]
    BY <1>0, <1>6, EndJobProperties DEF Fallback
  <2>2. Recorded' = Recorded /\ \A q \in Recorded \ {r} : records'[q] = records[q]
    BY <1>0, <1>6 DEF Fallback, StoreFallback, Amend, Recorded
  <2> QED
    BY <1>6, <2>1, <2>2 DEF Fallback, workerUnchanged, Untouched, Ticketed
<1>7. CASE NotifyFails(p)
  <2>1. worker'[p].req = r /\ \A q \in Pods \ {p} : worker'[q] = worker[q]
    BY <1>0, <1>7, ProceedProperties DEF NotifyFails, WorkerStates
  <2> QED
    BY <1>7, <2>1 DEF NotifyFails, workerUnchanged, Untouched, Recorded, Ticketed
<1>8. ~PopJob(p)
  BY DEF PopJob
<1> QED
  BY <1>1, <1>2, <1>3, <1>4, <1>5, <1>6, <1>7, <1>8 DEF WorkerStep

\* What a worker holds is recorded, held by no other worker, and not waiting.
LEMMA HeldAlone ==
  ASSUME TypeOK, AloneInv, NEW p \in Pods, worker[p].pc # "idle"
  PROVE  /\ worker[p] \in Job /\ worker[p].req \in Requests /\ worker[p].req \in Recorded
         /\ ~Pushing(worker[p].req) /\ ~Queued(worker[p].req)
         /\ \A q \in Pods \ {p} : worker[q].pc # "idle" => worker[q].req # worker[p].req
<1>1. worker[p] \in Job /\ worker[p].req \in Requests /\ Worked(worker[p].req)
  BY HeldTypes DEF Job, Worked, Handling
<1> QED
  BY <1>1 DEF AloneInv, BearerRecorded, Borne, OnePlace, WorkOnce

\* What a step does not touch keeps its rows.
LEMMA FreshKept ==
  ASSUME NEW r, Untouched(r)
  PROVE  Fresh(r)' <=> Fresh(r)
  BY DEF Untouched, Fresh

\* The worker's step keeps the rows of every other request.
LEMMA RowsKept ==
  ASSUME TypeInv, AloneInv, RowInv, NEW p \in Pods, worker[p].pc # "idle",
         WorkerStep(p) \/ NotifyFails(p), NEW r, r = worker[p].req,
         JobRows(p)', r \in Recorded',
         r \in Ticketed => r \in Ticketed' /\ tickets'[r] = tickets[r],
         records'[r].verdict = "PENDING" => records[r].verdict = "PENDING",
         Patient /\ r \in Ticketed' /\ records'[r].verdict # "PENDING"
           => Presented(r, records'[r].parsed),
         Patient => RunRedacted'
  PROVE  RowInv'
<1>0. /\ TypeOK /\ WaitingFresh /\ (\A q \in Pods : JobRows(q)) /\ TicketRows
      /\ Patient => PatientRows
      /\ r \in Requests /\ r \in Recorded /\ ~Pushing(r) /\ ~Queued(r)
      /\ \A q \in Pods \ {p} : worker[q].pc # "idle" => worker[q].req # r /\ worker[q].req \in Requests
      /\ Ticketed \subseteq Requests
  BY HeldAlone DEF TypeInv, RowInv, TypeOK
<1>1. /\ UNCHANGED <<queue, gateway, review>>
      /\ \A q \in Pods \ {p} : worker'[q] = worker[q]
      /\ \A q \in Requests \ {r} : Untouched(q)
  BY WorkerTouches
<1>2. WaitingFresh'
  <2> SUFFICES ASSUME NEW q \in Requests, Pushing(q)' \/ Queued(q)'
               PROVE  Fresh(q)'
    BY DEF WaitingFresh
  <2>1. Pushing(q) \/ Queued(q)
    BY <1>1 DEF Pushing, Queued
  <2>2. q # r /\ Fresh(q)
    BY <1>0, <2>1 DEF WaitingFresh
  <2> QED
    BY <1>1, <2>2, FreshKept
<1>3. ASSUME NEW q \in Pods
      PROVE  JobRows(q)'
  <2>1. CASE q = p
    BY <2>1
  <2>2. CASE q # p /\ worker[q].pc = "idle"
    BY <1>1, <2>2 DEF JobRows
  <2>3. CASE q # p /\ worker[q].pc # "idle"
    <3>1. worker'[q] = worker[q] /\ Untouched(worker[q].req)
      BY <1>0, <1>1, <2>3
    <3>2. Fresh(worker[q].req)' <=> Fresh(worker[q].req)
      BY <3>1, FreshKept
    <3>3. worker[q].req \in Recorded
      BY <1>0, <2>3, HeldAlone
    <3>4. /\ JobRows(q)
          /\ worker[q].req \in Ticketed' <=> worker[q].req \in Ticketed
          /\ records'[worker[q].req] = records[worker[q].req]
      BY <1>0, <3>1, <3>3 DEF Untouched
    <3> QED
      BY <3>1, <3>2, <3>4 DEF JobRows
  <2> QED
    BY <2>1, <2>2, <2>3
<1>4. Ticketed' \subseteq Requests /\ Ticketed' \subseteq Recorded'
  <2>1. Ticketed' \subseteq Requests
    BY WorkerStepType, WorkerFaultType DEF TypeInv, TypeOK, WorkerFault
  <2> QED
    BY <1>0, <1>1, <2>1 DEF TicketRows, Untouched
<1>5. TicketRows'
  <2> SUFFICES ASSUME NEW v \in Reviewers, review'[v].pc # "idle"
               PROVE  /\ review'[v].req \in Ticketed'
                      /\ review'[v].pc = "audit" => tickets'[review'[v].req].status # "PENDING"
    BY <1>4 DEF TicketRows
  <2> DEFINE q == review[v].req
  <2>1. /\ review'[v] = review[v] /\ q \in Ticketed
        /\ review[v].pc = "audit" => tickets[q].status # "PENDING"
    BY <1>0, <1>1 DEF TicketRows
  <2>2. q \in Ticketed' /\ tickets'[q] = tickets[q]
    BY <1>0, <1>1, <2>1 DEF Untouched
  <2> QED
    BY <2>1, <2>2
<1>6. ASSUME Patient
      PROVE  PatientRows'
  <2>1. ASSUME NEW q \in Ticketed', records'[q].verdict # "PENDING"
        PROVE  Presented(q, records'[q].parsed)
    <3>1. CASE q = r
      BY <1>6, <2>1, <3>1
    <3>2. CASE q # r
      BY <1>0, <1>1, <1>4, <1>6, <2>1, <3>2 DEF PatientRows, TicketRows, Untouched
    <3> QED
      BY <3>1, <3>2
  <2>2. ASSUME NEW v \in Reviewers, review'[v].pc # "idle"
        PROVE  records'[review'[v].req].verdict # "PENDING"
    <3> DEFINE q == review[v].req
    <3>1. review'[v] = review[v] /\ q \in Ticketed /\ q \in Recorded
          /\ records[q].verdict # "PENDING"
      BY <1>0, <1>1, <1>6, <2>2 DEF TicketRows, PatientRows
    <3>2. CASE q = r
      BY <3>1, <3>2
    <3>3. CASE q # r
      BY <1>0, <1>1, <3>1, <3>3 DEF Untouched
    <3> QED
      BY <3>1, <3>2, <3>3
  <2> QED
    BY <1>6, <2>1, <2>2 DEF PatientRows
<1> QED
  BY <1>2, <1>3, <1>5, <1>6 DEF RowInv

-----------------------------------------------------------------------------
(* The rows, step by step *)

\* One more redacted run.
LEMMA AppendRedacted ==
  ASSUME NEW s \in Seq(Forms), \A i \in 1..Len(s) : s[i] = "redacted"
  PROVE  LET t == Append(s, "redacted") IN \A i \in 1..Len(t) : t[i] = "redacted"
<1> DEFINE t == Append(s, "redacted")
<1>1. "redacted" \in Forms
  BY DEF Forms
<1>2. /\ Len(s) \in Nat /\ Len(t) = Len(s) + 1 /\ t[Len(s) + 1] = "redacted"
      /\ \A i \in 1..Len(s) : t[i] = s[i]
  BY <1>1
<1> HIDE DEF t
<1>3. \A i \in 1..Len(t) : i \in 1..Len(s) \/ i = Len(s) + 1
  BY <1>2
<1>4. \A i \in 1..Len(t) : t[i] = "redacted"
  BY <1>2, <1>3
<1> QED
  BY <1>4 DEF t

\* Only requests with parse errors, which are never escalated, and those of exempt
\* tools are ruled on as they came.
LEMMA RulingRedacts ==
  ASSUME NEW p, NEW r, NEW ruling \in Rulings(r)
  PROVE  /\ r \notin Malformed => Presented(r, ruling.parsed)
         /\ Effective(p, ruling.verdict) = "ESCALATE" => Presented(r, ruling.parsed)
<1>1. CASE r \in Malformed
  <2>1. ruling = [verdict |-> "BLOCK", parsed |-> "raw"]
    BY <1>1 DEF Rulings
  <2> QED
    BY <1>1, <2>1 DEF Effective
<1>2. CASE r \notin Malformed
  <2>1. ruling \in [verdict : Verdicts, parsed : {IF r \in Exempt THEN "raw" ELSE "redacted"}]
    BY <1>2 DEF Rulings
  <2> QED
    BY <2>1 DEF Presented
<1> QED
  BY <1>1, <1>2

\* Each step of a worker on the request it holds.
LEMMA WorkerRowsStep ==
  ASSUME TypeInv, AloneInv, RowInv, NEW p \in Pods, worker[p].pc # "idle",
         WorkerStep(p) \/ NotifyFails(p)
  PROVE  RowInv'
<1> DEFINE r == worker[p].req
           j == worker[p]
           Redacted == Patient /\ r \in Ticketed /\ records[r].verdict # "PENDING"
                         => Presented(r, records[r].parsed)
<1>0. /\ TypeOK /\ JobRows(p) /\ TicketRows /\ j \in Job
      /\ Patient => PatientRows
      /\ r \in Requests /\ r \in Recorded /\ Redacted
      /\ records \in [Recorded -> Record] /\ NextNumber \in Nat
  BY HeldAlone, NextNumberType DEF TypeInv, RowInv, TypeOK, PatientRows
<1>1. UNCHANGED runs => (Patient => RunRedacted')
  BY <1>0 DEF RunRedacted, PatientRows
<1>2. NewRecord.verdict = "PENDING"
  BY DEF NewRecord
<1>3. CASE Decide(p)
  <2>1. PICK ruling \in Rulings(r) :
          LET verdict == Effective(p, ruling.verdict) IN
          /\ ruling.parsed \in Forms
          /\ worker'[p].pc = (IF verdict = "ESCALATE" THEN "count" ELSE "update")
          /\ worker'[p].req = r /\ worker'[p].verdict = verdict
          /\ worker'[p].parsed = ruling.parsed
          /\ runs'[r] = IF verdict = "APPROVE" THEN Append(runs[r], ruling.parsed)
                                               ELSE runs[r]
          /\ \A q \in Requests \ {r} : runs'[q] = runs[q]
    BY <1>0, <1>3, DecideProperties
  <2>2. Fresh(r) /\ UNCHANGED <<records, tickets>> /\ Recorded' = Recorded /\ Ticketed' = Ticketed
    BY <1>0, <1>3 DEF Decide, JobRows, Recorded, Ticketed
  <2>3. Fresh(r)'
    BY <2>1, <2>2 DEF Fresh
  <2>4. JobRows(p)'
    BY <2>1, <2>2, <2>3, RulingRedacts DEF JobRows, Fresh
  <2>5. Patient => RunRedacted'
    <3> SUFFICES ASSUME Patient, NEW q \in Requests \ (Malformed \cup Exempt),
                        NEW i \in 1..Len(runs'[q])
                 PROVE  runs'[q][i] = "redacted"
      BY DEF RunRedacted
    <3>1. runs[q] \in Seq(Forms) /\ \A k \in 1..Len(runs[q]) : runs[q][k] = "redacted"
      BY <1>0 DEF TypeOK, RunRedacted, PatientRows
    <3>2. CASE runs'[q] = runs[q]
      BY <3>1, <3>2
    <3>3. CASE q = r /\ runs'[q] = Append(runs[q], ruling.parsed)
      <4>1. ruling.parsed = "redacted"
        BY <3>3, RulingRedacts DEF Presented
      <4> QED
        BY <3>1, <3>3, <4>1, AppendRedacted
    <3> QED
      BY <2>1, <3>2, <3>3
  <2> QED
    BY <1>0, <1>3, <2>2, <2>4, <2>5, RowsKept
<1>4. CASE CountTickets(p)
  <2>1. /\ worker'[p].pc = "ticket" /\ worker'[p].req = r
        /\ worker'[p].verdict = j.verdict /\ worker'[p].parsed = j.parsed
    BY <1>0, <1>4, CountProperties
  <2>2. /\ j.pc = "count" /\ UNCHANGED <<records, tickets, runs>>
        /\ Recorded' = Recorded /\ Ticketed' = Ticketed
    BY <1>4 DEF CountTickets, Recorded, Ticketed
  <2>3. Fresh(r)' /\ j.verdict = "ESCALATE" /\ Presented(r, j.parsed)
    BY <1>0, <2>1, <2>2 DEF JobRows, Fresh
  <2>4. JobRows(p)'
    BY <2>1, <2>3 DEF JobRows
  <2> QED
    BY <1>0, <1>1, <2>2, <2>4, RowsKept
<1>5. CASE CreateTicket(p) /\ TicketAllowed(r, j.number)
  <2>1. /\ j.pc = "ticket" /\ NewTicket(p) /\ Proceed(p, "update")
        /\ UNCHANGED <<records, runs>> /\ Recorded' = Recorded
    BY <1>5 DEF CreateTicket, Recorded
  <2>2. /\ worker'[p].pc = "update" /\ worker'[p].req = r
        /\ worker'[p].verdict = j.verdict /\ worker'[p].parsed = j.parsed
    BY <1>0, <2>1, ProceedProperties DEF WorkerStates
  <2>3. Ticketed' = Ticketed \cup {r}
    BY <1>0, <2>1, NewTicketType
  <2>4. Fresh(r) /\ j.verdict = "ESCALATE" /\ Presented(r, j.parsed)
    BY <1>0, <2>1 DEF JobRows
  <2>5. JobRows(p)' /\ records'[r].verdict = "PENDING" /\ r \notin Ticketed
    BY <1>2, <2>1, <2>2, <2>3, <2>4 DEF JobRows, Fresh
  <2> QED
    BY <1>0, <1>1, <2>1, <2>5, RowsKept
<1>6. CASE CreateTicket(p) /\ ~TicketAllowed(r, j.number)
  <2>1. /\ j.pc = "ticket" /\ Proceed(p, "fallback") /\ UNCHANGED <<records, tickets, runs>>
        /\ Recorded' = Recorded /\ Ticketed' = Ticketed
    BY <1>6 DEF CreateTicket, Recorded, Ticketed
  <2>2. worker'[p].pc = "fallback" /\ worker'[p].req = r
    BY <1>0, <2>1, ProceedProperties DEF WorkerStates
  <2>3. JobRows(p)'
    BY <1>0, <2>1, <2>2 DEF JobRows, Fresh
  <2> QED
    BY <1>0, <1>1, <2>1, <2>3, RowsKept
<1>7. CASE UpdateAudit(p)
  <2>1. /\ j.pc = "update" /\ StoreVerdict(p) /\ Proceed(p, "notify")
        /\ UNCHANGED <<tickets, runs>> /\ Ticketed' = Ticketed
    BY <1>0, <1>7 DEF UpdateAudit, Ticketed
  <2>2. worker'[p].pc = "notify"
    BY <1>0, <2>1, ProceedProperties DEF WorkerStates
  <2>3. /\ Recorded' = Recorded /\ records'[r].parsed = j.parsed
        /\ records'[r].verdict # "PENDING"
    BY <1>0, <2>1 DEF StoreVerdict, Amend, Recorded, AloneInv, VerdictGiven
  <2>4. JobRows(p)' /\ (r \in Ticketed' => Presented(r, records'[r].parsed))
    BY <1>0, <2>1, <2>2, <2>3 DEF JobRows
  <2> QED
    BY <1>0, <1>1, <2>1, <2>3, <2>4, RowsKept
<1>8. CASE Notify(p)
  <2>1. UNCHANGED <<records, tickets, runs>> /\ Recorded' = Recorded /\ Ticketed' = Ticketed
    BY <1>8 DEF Notify, Recorded, Ticketed
  <2>2. worker'[p].pc = "idle"
    BY <1>0, <1>8, EndJobProperties DEF Notify
  <2>3. JobRows(p)'
    BY <2>2 DEF JobRows
  <2> QED
    BY <1>0, <1>1, <2>1, <2>3, RowsKept
<1>9. CASE Fallback(p)
  <2>1. /\ j.pc = "fallback" /\ StoreFallback(p) /\ UNCHANGED <<tickets, runs>>
        /\ Ticketed' = Ticketed
    BY <1>0, <1>9 DEF Fallback, Ticketed
  <2>2. worker'[p].pc = "idle"
    BY <1>0, <1>9, EndJobProperties DEF Fallback
  <2>3. /\ Recorded' = Recorded /\ records'[r].verdict = "BLOCK"
        /\ records'[r].parsed = records[r].parsed
    BY <1>0, <2>1 DEF StoreFallback, Amend, Recorded
  <2>4. JobRows(p)' /\ (r \in Ticketed => records[r].verdict # "PENDING")
    BY <1>0, <2>1, <2>2 DEF JobRows, Fresh
  <2> QED
    BY <1>0, <1>1, <2>1, <2>3, <2>4, RowsKept
<1>10. CASE NotifyFails(p)
  <2>1. /\ j.pc = "notify" /\ Proceed(p, "fallback") /\ UNCHANGED <<records, tickets, runs>>
        /\ Recorded' = Recorded /\ Ticketed' = Ticketed /\ ~Notified
    BY <1>10 DEF NotifyFails, Fault, Notified, Recorded, Ticketed
  <2>2. worker'[p].pc = "fallback" /\ worker'[p].req = r
    BY <1>0, <2>1, ProceedProperties DEF WorkerStates
  <2>3. JobRows(p)'
    BY <1>0, <2>1, <2>2 DEF JobRows, AloneInv, VerdictGiven
  <2> QED
    BY <1>0, <1>1, <2>1, <2>3, RowsKept
<1>11. ~PopJob(p)
  BY DEF PopJob
<1> QED
  BY <1>3, <1>4, <1>5, <1>6, <1>7, <1>8, <1>9, <1>10, <1>11 DEF WorkerStep, CreateTicket

\* A popped request is fresh.
LEMMA PopRows ==
  ASSUME TypeInv, AloneInv, RowInv, NEW p \in Pods, PopJob(p)
  PROVE  RowInv'
<1> DEFINE r == Head(queue)
<1>0. /\ TypeOK /\ WaitingFresh /\ (\A q \in Pods : JobRows(q)) /\ TicketRows
      /\ Patient => PatientRows
      /\ UNCHANGED <<records, tickets, runs, gateway, review>>
      /\ Recorded' = Recorded /\ Ticketed' = Ticketed
      /\ queue \in Seq(Requests) /\ queue # <<>> /\ queue' = Tail(queue)
  BY DEF TypeInv, TypeOK, RowInv, PopJob, workerUnchanged, Recorded, Ticketed
<1>1. /\ worker'[p] = [pc |-> "decide", req |-> r, verdict |-> "PENDING",
                       parsed |-> "raw", number |-> 0]
      /\ \A q \in Pods \ {p} : worker'[q] = worker[q]
  BY <1>0, PopJobProperties
<1>2. worker'[p].pc = "decide" /\ worker'[p].req = r
  BY <1>1
<1>3. r \in Requests /\ In(queue, r) /\ \A d : In(queue', d) => In(queue, d)
  BY <1>0, LeaveProperties
<1>4. Fresh(r)
  BY <1>0, <1>3 DEF WaitingFresh, In, Queued
<1> HIDE DEF r
<1>5. \A q \in Pods : JobRows(q)'
  BY <1>0, <1>1, <1>2, <1>4 DEF JobRows, Fresh
<1>6. WaitingFresh'
  BY <1>0, <1>3 DEF WaitingFresh, Fresh, Pushing, Queued, In
<1>7. TicketRows' /\ (Patient => PatientRows')
  BY <1>0 DEF TicketRows, PatientRows, RunRedacted
<1> QED
  BY <1>5, <1>6, <1>7 DEF RowInv

\* A new record is fresh: an unrecorded request has no ticket.
LEMMA GatewayRows ==
  ASSUME TypeInv, AloneInv, RowInv, NEW g \in Calls, ReqOf[g] \notin Recorded, Intercept(g)
  PROVE  RowInv'
<1> DEFINE r == ReqOf[g]
<1>0. /\ TypeOK /\ WaitingFresh /\ (\A q \in Pods : JobRows(q)) /\ TicketRows
      /\ Patient => PatientRows
      /\ UNCHANGED <<tickets, runs, worker, review>> /\ Ticketed' = Ticketed
      /\ r \in Requests /\ gateway \in [Calls -> GatewayStates]
  BY SentinelAssumption DEF TypeInv, TypeOK, RowInv, Intercept, gatewayUnchanged, Ticketed
<1>1. /\ UNCHANGED queue /\ gateway[g] = "idle"
      /\ gateway' = [gateway EXCEPT ![g] = "push"]
      /\ records' = With(records, r, NewRecord)
  BY DEF Intercept
<1>2. /\ Recorded' = Recorded \cup {r} /\ records'[r] = NewRecord
      /\ \A q \in Recorded : records'[q] = records[q]
  BY <1>1 DEF With, Recorded
<1>3. Fresh(r)' /\ \A q : Fresh(q) => Fresh(q)'
  BY <1>0, <1>2 DEF Fresh, TicketRows
<1>4. WaitingFresh'
  BY <1>0, <1>1, <1>3 DEF WaitingFresh, Pushing, Queued
<1>5. ASSUME NEW p \in Pods
      PROVE  JobRows(p)'
  <2>1. \A q : /\ q \in Recorded /\ q \in Recorded' => records'[q] = records[q]
               /\ Fresh(q) => Fresh(q)'
    BY <1>2, <1>3
  <2>2. CASE worker[p].pc = "idle"
    BY <1>0, <2>2 DEF JobRows
  <2>3. CASE worker[p].pc # "idle"
    <3>1. worker[p].req \in Recorded
      BY <1>0, <2>3, HeldAlone
    <3> QED
      BY <1>0, <1>2, <2>1, <3>1 DEF JobRows
  <2> QED
    BY <2>2, <2>3
<1>6. TicketRows'
  BY <1>0, <1>2 DEF TicketRows
<1>7. Patient => PatientRows'
  BY <1>0, <1>2 DEF TicketRows, PatientRows, RunRedacted
<1> QED
  BY <1>4, <1>5, <1>6, <1>7 DEF RowInv

\* What is only dropped leaves the rows as they are.
LEMMA DropRows ==
  ASSUME TypeInv, RowInv, Dropping
  PROVE  RowInv'
<1>0. /\ TypeOK /\ WaitingFresh /\ (\A p \in Pods : JobRows(p)) /\ TicketRows
      /\ Patient => PatientRows
      /\ UNCHANGED <<records, tickets, runs>> /\ Recorded' = Recorded /\ Ticketed' = Ticketed
      /\ \A p \in Pods : worker'[p] = worker[p] \/ worker'[p].pc = "idle"
      /\ \A v \in Reviewers : review'[v] = review[v] \/ review'[v].pc = "idle"
  BY DEF TypeInv, RowInv, Dropping, Recorded, Ticketed
<1>1. \A r : Fresh(r)' <=> Fresh(r)
  BY <1>0 DEF Fresh
<1>2. WaitingFresh'
  BY <1>0, <1>1 DEF Dropping, WaitingFresh
<1>3. \A p \in Pods : JobRows(p)'
  BY <1>0, <1>1 DEF JobRows
<1>4. TicketRows'
  BY <1>0 DEF TicketRows
<1>5. Patient => PatientRows'
  BY <1>0 DEF PatientRows, RunRedacted
<1> QED
  BY <1>2, <1>3, <1>4, <1>5 DEF RowInv

\* Reviewers work on tickets; patient ones run and close decided requests only,
\* and keep them redacted.
LEMMA ReviewRowsStep ==
  ASSUME TypeInv, AloneInv, RowInv, NEW v \in Reviewers,
         OpenTicket(v) \/ UpdateTicket(v) \/ UpdateOutcome(v)
  PROVE  RowInv'
<1> DEFINE r == review[v].req
<1>0. /\ TypeOK /\ WaitingFresh /\ (\A q \in Pods : JobRows(q)) /\ TicketRows
      /\ Patient => PatientRows
      /\ UNCHANGED <<queue, gateway, worker>>
      /\ NewRecord.verdict = "PENDING" /\ Ticketed \subseteq Requests
      /\ runs \in [Requests -> Seq(Forms)]
  BY DEF TypeInv, TypeOK, RowInv, OpenTicket, UpdateTicket, UpdateOutcome, reviewUnchanged,
         NewRecord
<1>1. CASE OpenTicket(v)
  <2>1. PICK q \in Requests, choice \in {"APPROVE", "REJECT"} :
          /\ MayDecide(q)
          /\ review'[v] = [pc |-> "ticket", req |-> q, choice |-> choice]
          /\ \A u \in Reviewers \ {v} : review'[u] = review[u]
          /\ runs'[q] = IF choice = "APPROVE" THEN Append(runs[q], records[q].parsed)
                                              ELSE runs[q]
          /\ \A d \in Requests \ {q} : runs'[d] = runs[d]
    BY <1>0, <1>1, OpenTicketProperties
  <2>2. /\ review'[v].req = q /\ review'[v].pc = "ticket" /\ q \in Ticketed
        /\ Patient => records[q].verdict # "PENDING"
    BY <2>1 DEF MayDecide, Patient
  <2>3. UNCHANGED <<records, tickets>> /\ Recorded' = Recorded /\ Ticketed' = Ticketed
    BY <1>1 DEF OpenTicket, Recorded, Ticketed
  <2>4. TicketRows'
    BY <1>0, <2>1, <2>2, <2>3 DEF TicketRows
  <2>5. ASSUME Patient
        PROVE  PatientRows'
    <3>1. Presented(q, records[q].parsed)
      BY <1>0, <2>2, <2>5 DEF PatientRows
    <3>2. RunRedacted'
      <4> SUFFICES ASSUME NEW d \in Requests \ (Malformed \cup Exempt),
                          NEW i \in 1..Len(runs'[d])
                   PROVE  runs'[d][i] = "redacted"
        BY DEF RunRedacted
      <4>1. runs[d] \in Seq(Forms) /\ \A k \in 1..Len(runs[d]) : runs[d][k] = "redacted"
        BY <1>0, <2>5 DEF PatientRows, RunRedacted
      <4>2. CASE runs'[d] = runs[d]
        BY <4>1, <4>2
      <4>3. CASE d = q /\ runs'[d] = Append(runs[d], records[q].parsed)
        BY <3>1, <4>1, <4>3, AppendRedacted DEF Presented
      <4> QED
        BY <2>1, <4>2, <4>3
    <3> QED
      BY <1>0, <2>1, <2>2, <2>3, <2>5, <3>2 DEF PatientRows
  <2>6. \A d : Fresh(d)' <=> Fresh(d)
    BY <2>3 DEF Fresh
  <2>7. WaitingFresh' /\ \A p \in Pods : JobRows(p)'
    BY <1>0, <2>3, <2>6 DEF WaitingFresh, JobRows, Pushing, Queued
  <2> QED
    BY <2>4, <2>5, <2>7 DEF RowInv
<1>2. CASE UpdateTicket(v)
  <2>1. /\ review[v].pc # "idle" /\ r \in Ticketed
        /\ StoreTicket(v) /\ review' = [review EXCEPT ![v].pc = "audit"]
        /\ UNCHANGED <<records, runs>> /\ Recorded' = Recorded
    BY <1>0, <1>2 DEF UpdateTicket, TicketRows, Recorded
  <2>2. /\ Ticketed' = Ticketed /\ tickets'[r].status # "PENDING"
        /\ \A q \in Ticketed \ {r} : tickets'[q] = tickets[q]
    BY <1>0, <2>1, StoreTicketProperties
  <2>3. /\ review'[v].req = r
        /\ \A u \in Reviewers \ {v} : review'[u] = review[u]
    BY <1>0, <2>1, DecisionProperties
  <2>4. TicketRows'
    <3> SUFFICES ASSUME NEW u \in Reviewers, review'[u].pc # "idle"
                 PROVE  /\ review'[u].req \in Ticketed
                        /\ review'[u].pc = "audit" => tickets'[review'[u].req].status # "PENDING"
      BY <1>0, <2>1, <2>2 DEF TicketRows
    <3>1. CASE u = v
      BY <2>1, <2>2, <2>3, <3>1
    <3>2. CASE u # v
      BY <1>0, <2>2, <2>3, <3>2 DEF TicketRows
    <3> QED
      BY <3>1, <3>2
  <2>5. Patient => PatientRows'
    BY <1>0, <2>1, <2>2, <2>3 DEF PatientRows, RunRedacted
  <2>6. \A d : Fresh(d)' <=> Fresh(d)
    BY <2>1, <2>2 DEF Fresh
  <2>7. WaitingFresh' /\ \A p \in Pods : JobRows(p)'
    BY <1>0, <2>1, <2>2, <2>6 DEF WaitingFresh, JobRows, Pushing, Queued
  <2> QED
    BY <2>4, <2>5, <2>7 DEF RowInv
<1>3. CASE UpdateOutcome(v)
  <2>1. /\ review[v].pc # "idle" /\ r \in Ticketed /\ r \in Recorded
        /\ Patient => records[r].verdict # "PENDING"
        /\ StoreOutcome(v) /\ EndReview(v)
        /\ UNCHANGED <<tickets, runs>> /\ Ticketed' = Ticketed
    BY <1>0, <1>3 DEF UpdateOutcome, TicketRows, PatientRows, Ticketed
  <2>2. /\ Recorded' = Recorded
        /\ records'[r] =
             [verdict |-> IF review[v].choice = "APPROVE" THEN "APPROVE" ELSE "BLOCK",
              by |-> "reviewer",
              exec |-> IF review[v].choice = "APPROVE" THEN "done" ELSE "refused",
              parsed |-> records[r].parsed]
        /\ \A q \in Recorded \ {r} : records'[q] = records[q]
    BY <1>0, <2>1, StoreOutcomeProperties
  <2>3. records'[r].verdict # "PENDING" /\ records'[r].parsed = records[r].parsed
    BY <2>2
  <2>4. review'[v].pc = "idle" /\ \A u \in Reviewers \ {v} : review'[u] = review[u]
    BY <1>0, <2>1, DecisionProperties
  <2>5. TicketRows'
    BY <1>0, <2>1, <2>2, <2>4 DEF TicketRows
  <2>6. ASSUME Patient
        PROVE  PatientRows'
    <3>1. \A q \in Ticketed : /\ records'[q].verdict # "PENDING" <=> records[q].verdict # "PENDING"
                              /\ records'[q].parsed = records[q].parsed
      BY <1>0, <2>1, <2>2, <2>3, <2>6 DEF TicketRows
    <3>2. ASSUME NEW u \in Reviewers, review'[u].pc # "idle"
          PROVE  records'[review'[u].req].verdict # "PENDING"
      BY <1>0, <2>4, <2>6, <3>1, <3>2 DEF TicketRows, PatientRows
    <3> QED
      BY <1>0, <2>1, <2>6, <3>1, <3>2 DEF PatientRows, RunRedacted
  <2>7. \A q : q # r => (Fresh(q) => Fresh(q)')
    BY <2>1, <2>2 DEF Fresh
  <2>8. ~Fresh(r)
    BY <2>1 DEF Fresh
  <2>9. WaitingFresh'
    BY <1>0, <2>7, <2>8 DEF WaitingFresh, Pushing, Queued
  <2>10. \A p \in Pods : JobRows(p)'
    <3> SUFFICES ASSUME NEW p \in Pods
                 PROVE  JobRows(p)'
      OBVIOUS
    <3> DEFINE d == worker[p].req
    <3>1. JobRows(p) /\ worker'[p] = worker[p]
      BY <1>0
    <3>2. CASE worker[p].pc = "idle"
      BY <3>1, <3>2 DEF JobRows
    <3>3. CASE worker[p].pc # "idle" /\ d # r
      <4>1. records'[d] = records[d] /\ (Fresh(d) => Fresh(d)')
        BY <1>0, <2>2, <2>7, <3>1, <3>3, HeldAlone
      <4> QED
        BY <2>1, <3>1, <4>1 DEF JobRows
    <3>4. CASE worker[p].pc # "idle" /\ d = r
      <4>1. Patient => records[d] # NewRecord
        BY <1>0, <2>1, <3>4
      <4> QED
        BY <2>1, <2>3, <2>8, <3>1, <3>4, <4>1 DEF JobRows
    <3> QED
      BY <3>2, <3>3, <3>4
  <2> QED
    BY <2>5, <2>6, <2>9, <2>10 DEF RowInv
<1> QED
  BY <1>1, <1>2, <1>3

\* Every step keeps the rows right.
LEMMA RowStep ==
  ASSUME Lossy, TypeInv, AloneInv, RowInv, [Next]_vars
  PROVE  RowInv'
<1>1. ASSUME NEW p \in Pods, WorkerStep(p) \/ NotifyFails(p)
      PROVE  RowInv'
  <2>1. CASE worker[p].pc = "idle"
    BY <1>1, <2>1, PopRows DEF WorkerStep, Decide, CountTickets, CreateTicket, UpdateAudit,
       Notify, NotifyFails, Fallback
  <2> QED
    BY <1>1, <2>1, WorkerRowsStep
<1> QED
  BY <1>1, StepKinds, DropRows, GatewayRows, ReviewRowsStep

\* Nothing is there to be wrong at first.
LEMMA RowInit ==
  ASSUME Init
  PROVE  RowInv
  BY DEF Init, RowInv, WaitingFresh, JobRows, TicketRows, PatientRows, RunRedacted, Pushing,
     Queued, Recorded, Ticketed, Waiting, NoDecision

\* A tool that requires redaction sees raw parameters only of a request with
\* parse errors, whatever Redis loses, whichever process dies or webhook throws,
\* for any number of pods and of reviewers deciding at the same time.
THEOREM RunRedactedHolds ==
  ASSUME Lossy, Patient
  PROVE  Spec => []RunRedacted
<1>1. Init => TypeInv /\ AloneInv /\ RowInv
  BY TypeInit, BearerInit, RowInit DEF BearerInv
<1>2. TypeInv /\ AloneInv /\ RowInv /\ [Next]_vars => TypeInv' /\ AloneInv' /\ RowInv'
  BY TypeStep, AloneStep, RowStep
<1>3. RowInv => RunRedacted
  BY DEF RowInv, PatientRows
<1> QED
  BY <1>1, <1>2, <1>3, PTL DEF Spec

-----------------------------------------------------------------------------
(* What a step may write *)

Rows == TypeInv /\ AloneInv /\ RowInv

\* The rows are right from the start and stay so, whatever is lost.
LEMMA RowsInvariant ==
  ASSUME Lossy
  PROVE  Spec => []Rows
<1>1. Init => Rows
  BY TypeInit, BearerInit, RowInit DEF BearerInv, Rows
<1>2. Rows /\ [Next]_vars => Rows'
  BY TypeStep, AloneStep, RowStep DEF Rows
<1> QED
  BY <1>1, <1>2, PTL DEF Spec

\* At most one row of a table is written, and by whom.  Only the record of r:
Amends(r) ==
  /\ r \in Recorded /\ Recorded' = Recorded
  /\ UNCHANGED tickets /\ Ticketed' = Ticketed
  /\ \A q \in Recorded \ {r} : records'[q] = records[q]

\* The PENDING record of a new request.
Records(g) ==
  /\ ReqOf[g] \notin Recorded /\ Recorded' = Recorded \cup {ReqOf[g]}
  /\ records'[ReqOf[g]] = NewRecord
  /\ UNCHANGED <<tickets, review>> /\ Ticketed' = Ticketed
  /\ \A q \in Recorded : records'[q] = records[q]

\* The worker's ticket, its verdict, and its fallback.
Opens(p) ==
  LET r == worker[p].req IN
  /\ Fresh(r) /\ UNCHANGED <<records, review>> /\ Recorded' = Recorded
  /\ Ticketed' = Ticketed \cup {r} /\ tickets'[r].status = "PENDING"
  /\ \A q \in Ticketed : tickets'[q] = tickets[q]

Decides(p) ==
  LET j == worker[p] IN
  /\ Amends(j.req) /\ UNCHANGED review
  /\ Patient => records[j.req] = NewRecord
  /\ j.req \in Ticketed <=> j.verdict = "ESCALATE"
  /\ records'[j.req].verdict = j.verdict /\ j.verdict # "PENDING"
  /\ records'[j.req].by = "worker"

GivesUp(p) ==
  LET r == worker[p].req IN
  /\ worker[p].pc = "fallback" /\ Amends(r) /\ UNCHANGED review
  /\ Notified => Fresh(r)
  /\ records'[r].verdict = "BLOCK" /\ records'[r].by = "fallback"

\* The reviewer's decision on the ticket and in the record.
Closes(v) ==
  LET r == review[v].req IN
  /\ review[v].pc # "idle" /\ review'[v].req = r /\ r \in Ticketed
  /\ \A u \in Reviewers \ {v} : review'[u] = review[u]
  /\ UNCHANGED records /\ Recorded' = Recorded
  /\ Ticketed' = Ticketed /\ tickets'[r].status # "PENDING"
  /\ \A q \in Ticketed \ {r} : tickets'[q] = tickets[q]

Concludes(v) ==
  LET r == review[v].req IN
  /\ review[v].pc # "idle" /\ review'[v].pc = "idle" /\ Amends(r)
  /\ \A u \in Reviewers \ {v} : review'[u] = review[u]
  /\ r \in Ticketed /\ tickets[r].status # "PENDING"
  /\ records'[r].verdict \in {"APPROVE", "BLOCK"} /\ records'[r].by = "reviewer"

\* There are no other writes.
LEMMA TableSteps ==
  ASSUME Lossy, Rows, [Next]_vars
  PROVE  \/ /\ UNCHANGED <<records, tickets>>
            /\ \A v \in Reviewers : review'[v] = review[v] \/ review'[v].pc = "idle"
         \/ \E g \in Calls : Records(g)
         \/ \E p \in Pods : Opens(p) \/ Decides(p) \/ GivesUp(p)
         \/ \E v \in Reviewers : OpenTicket(v) \/ Closes(v) \/ Concludes(v)
<1>0. /\ TypeInv /\ AloneInv /\ RowInv /\ TypeOK /\ TicketRows
      /\ (\A p \in Pods : JobRows(p)) /\ NextNumber \in Nat
      /\ records \in [Recorded -> Record]
  BY NextNumberType DEF Rows, TypeInv, TypeOK, RowInv
<1>1. ASSUME NEW g \in Calls, ReqOf[g] \notin Recorded, Intercept(g)
      PROVE  Records(g)
  BY <1>1 DEF Intercept, gatewayUnchanged, With, Records, Recorded, Ticketed
<1>2. ASSUME NEW p \in Pods, CreateTicket(p)
      PROVE  Opens(p) \/ UNCHANGED <<records, tickets, review>>
  <2>1. CASE NewTicket(p)
    <3>1. worker[p] \in Job /\ Fresh(worker[p].req) /\ UNCHANGED <<records, review>>
      BY <1>0, <1>2, HeldTypes DEF CreateTicket, JobRows, workerUnchanged
    <3> QED
      <4> DEFINE r == worker[p].req
      <4>1. /\ Ticketed' = Ticketed \cup {r}
            /\ tickets'[r] = [status |-> "PENDING", number |-> worker[p].number]
            /\ \A q \in Ticketed \ {r} : tickets'[q] = tickets[q]
        BY <1>0, <2>1, <3>1, NewTicketType
      <4>2. tickets'[r].status = "PENDING" /\ r \notin Ticketed
        BY <3>1, <4>1 DEF Fresh
      <4> QED
        BY <3>1, <4>1, <4>2 DEF Opens, Recorded
  <2> QED
    BY <1>2, <2>1 DEF CreateTicket, workerUnchanged
<1>3. ASSUME NEW p \in Pods, UpdateAudit(p)
      PROVE  Decides(p)
  <2> DEFINE j == worker[p]
  <2>1. /\ j.pc = "update" /\ j.req \in Recorded /\ j.verdict # "PENDING"
        /\ JobRows(p) /\ UNCHANGED <<tickets, review>> /\ Ticketed' = Ticketed
        /\ StoreVerdict(p)
    BY <1>0, <1>3, HeldAlone DEF UpdateAudit, workerUnchanged, AloneInv, VerdictGiven, Ticketed
  <2>2. /\ Recorded' = Recorded
        /\ records'[j.req].verdict = j.verdict /\ records'[j.req].by = "worker"
        /\ \A q \in Recorded \ {j.req} : records'[q] = records[q]
    BY <1>0, <2>1 DEF StoreVerdict, Amend, Recorded
  <2> QED
    BY <2>1, <2>2 DEF Decides, Amends, JobRows
<1>4. ASSUME NEW p \in Pods, Fallback(p)
      PROVE  GivesUp(p)
  <2> DEFINE r == worker[p].req
  <2>1. /\ worker[p].pc = "fallback" /\ r \in Recorded
        /\ JobRows(p) /\ UNCHANGED <<tickets, review>> /\ Ticketed' = Ticketed
        /\ StoreFallback(p)
    BY <1>0, <1>4, HeldAlone DEF Fallback, workerUnchanged, Ticketed
  <2>2. /\ Recorded' = Recorded
        /\ records'[r].verdict = "BLOCK" /\ records'[r].by = "fallback"
        /\ \A q \in Recorded \ {r} : records'[q] = records[q]
    BY <1>0, <2>1 DEF StoreFallback, Amend, Recorded
  <2> QED
    BY <2>1, <2>2 DEF GivesUp, Amends, JobRows
<1>5. ASSUME NEW v \in Reviewers, UpdateTicket(v)
      PROVE  Closes(v)
  <2>1. /\ review[v].pc # "idle" /\ review[v].req \in Ticketed
        /\ UNCHANGED records /\ StoreTicket(v) /\ review' = [review EXCEPT ![v].pc = "audit"]
    BY <1>0, <1>5 DEF UpdateTicket, TicketRows
  <2> QED
    BY <1>0, <2>1, StoreTicketProperties, DecisionProperties DEF Closes, Recorded
<1>6. ASSUME NEW v \in Reviewers, UpdateOutcome(v)
      PROVE  Concludes(v)
  <2> DEFINE r == review[v].req
  <2>1. /\ review[v].pc # "idle" /\ r \in Ticketed /\ r \in Recorded
        /\ tickets[r].status # "PENDING"
        /\ UNCHANGED tickets /\ Ticketed' = Ticketed /\ StoreOutcome(v)
    BY <1>0, <1>6 DEF UpdateOutcome, TicketRows, Ticketed
  <2>2. /\ Recorded' = Recorded
        /\ records'[r] =
             [verdict |-> IF review[v].choice = "APPROVE" THEN "APPROVE" ELSE "BLOCK",
              by |-> "reviewer",
              exec |-> IF review[v].choice = "APPROVE" THEN "done" ELSE "refused",
              parsed |-> records[r].parsed]
        /\ \A q \in Recorded \ {r} : records'[q] = records[q]
    BY <1>0, <2>1, StoreOutcomeProperties
  <2>3. records'[r].verdict \in {"APPROVE", "BLOCK"} /\ records'[r].by = "reviewer"
    BY <2>2
  <2>4. review'[v].pc = "idle" /\ \A u \in Reviewers \ {v} : review'[u] = review[u]
    BY <1>0, <1>6, <2>1, DecisionProperties DEF UpdateOutcome
  <2> QED
    BY <2>1, <2>2, <2>3, <2>4 DEF Concludes, Amends
<1>7. \/ Dropping
      \/ \E g \in Calls : ReqOf[g] \notin Recorded /\ Intercept(g)
      \/ \E p \in Pods : WorkerStep(p) \/ NotifyFails(p)
      \/ \E v \in Reviewers : OpenTicket(v) \/ UpdateTicket(v) \/ UpdateOutcome(v)
  BY <1>0, StepKinds
<1>8. ASSUME NEW p \in Pods, WorkerStep(p) \/ NotifyFails(p)
      PROVE  \/ Opens(p) \/ Decides(p) \/ GivesUp(p)
             \/ UNCHANGED <<records, tickets, review>>
  <2>1. CASE PopJob(p) \/ Decide(p) \/ CountTickets(p) \/ Notify(p) \/ NotifyFails(p)
    BY <2>1, Zenon DEF PopJob, Decide, CountTickets, Notify, NotifyFails, workerUnchanged
  <2> QED
    BY <1>2, <1>3, <1>4, <1>8, <2>1 DEF WorkerStep
<1>9. Dropping => /\ UNCHANGED <<records, tickets>>
                  /\ \A v \in Reviewers : review'[v] = review[v] \/ review'[v].pc = "idle"
  BY DEF Dropping
<1> QED
  BY <1>1, <1>5, <1>6, <1>7, <1>8, <1>9

-----------------------------------------------------------------------------
(* How often a tool runs *)

\* Nobody has ruled on the request.
Early(r) ==
  \/ r \notin Recorded \/ Pushing(r) \/ Queued(r)
  \/ \E p \in Pods : worker[p].pc \in {"decide", "count", "ticket"} /\ worker[p].req = r

\* What may still be run has not been run: neither what the worker has not
\* ruled on, nor what waits for a reviewer.
RunsInv ==
  /\ \A r \in Requests : Early(r) => runs[r] = <<>>
  /\ \A r \in Ticketed : tickets[r].status = "PENDING" /\ ~Reviewed(r) => runs[r] = <<>>
  /\ RunOnce

\* The first run is one.
LEMMA AtMostOne ==
  ASSUME NEW s \in Seq(Forms), NEW t, NEW e \in Forms, s = <<>>, t = s \/ t = Append(s, e)
  PROVE  Len(t) <= 1
<1>1. CASE t = s
  BY <1>1
<1>2. CASE t = Append(s, e)
  <2>1. Len(t) = Len(s) + 1 /\ Len(s) = 0
    BY <1>2
  <2> QED
    BY <2>1
<1> QED
  BY <1>1, <1>2

\* A ticketed request is past its ruling.
LEMMA TicketedLate ==
  ASSUME Rows, NEW r \in Ticketed
  PROVE  r \in Requests /\ r \in Recorded /\ ~Early(r)
<1>1. TypeOK /\ WaitingFresh /\ (\A p \in Pods : JobRows(p)) /\ TicketRows
  BY DEF Rows, TypeInv, RowInv
<1> QED
  BY <1>1 DEF TypeOK, WaitingFresh, JobRows, TicketRows, Early, Fresh

\* Runs stay, and a request is early or open only if it was: nothing to show.
LEMMA RunsKept ==
  ASSUME RunsInv, UNCHANGED runs,
         \A r \in Requests : Early(r)' => Early(r),
         \A r \in Ticketed' : tickets'[r].status = "PENDING" /\ ~Reviewed(r)' =>
           \/ runs[r] = <<>>
           \/ r \in Ticketed /\ tickets[r].status = "PENDING" /\ ~Reviewed(r)
  PROVE  RunsInv'
  BY DEF RunsInv, RunOnce

\* A worker rules once.
LEMMA WorkerRunsStep ==
  ASSUME Rows, RunsInv, NEW p \in Pods, worker[p].pc # "idle",
         WorkerStep(p) \/ NotifyFails(p), NEW r, r = worker[p].req
  PROVE  RunsInv'
<1>0. /\ TypeInv /\ TypeOK /\ AloneInv /\ JobRows(p) /\ worker[p] \in Job
      /\ r \in Requests /\ r \in Recorded /\ ~Pushing(r) /\ ~Queued(r)
      /\ \A q \in Pods \ {p} : worker[q].pc # "idle" => worker[q].req # r
      /\ runs \in [Requests -> Seq(Forms)] /\ NextNumber \in Nat
  BY HeldAlone, NextNumberType DEF Rows, TypeInv, TypeOK, RowInv
<1>1. /\ UNCHANGED <<queue, gateway, review>>
      /\ \A q \in Pods \ {p} : worker'[q] = worker[q]
      /\ worker'[p].pc # "idle" => worker'[p].req = r
      /\ \A q \in Requests \ {r} : Untouched(q)
  BY <1>0, WorkerTouches
<1>2. \A q : /\ Pushing(q)' <=> Pushing(q)
             /\ Queued(q)' <=> Queued(q)
             /\ Reviewed(q)' <=> Reviewed(q)
  BY <1>1 DEF Pushing, Queued, Reviewed, Deciding
<1>3. ASSUME NEW q \in Requests \ {r}, Early(q)'
      PROVE  Early(q)
  BY <1>1, <1>2, <1>3 DEF Early, Untouched
<1>4. CASE Decide(p)
  <2>1. PICK ruling \in Rulings(r) :
          LET verdict == Effective(p, ruling.verdict) IN
          /\ ruling.parsed \in Forms
          /\ worker'[p].pc = (IF verdict = "ESCALATE" THEN "count" ELSE "update")
          /\ runs'[r] = IF verdict = "APPROVE" THEN Append(runs[r], ruling.parsed)
                                               ELSE runs[r]
    BY <1>0, <1>4, DecideProperties
  <2>2. /\ Early(r) /\ Fresh(r) /\ UNCHANGED <<records, tickets>>
        /\ Recorded' = Recorded /\ Ticketed' = Ticketed
    BY <1>0, <1>4 DEF Decide, JobRows, Early, Recorded, Ticketed
  <2>3. runs[r] = <<>>
    BY <1>0, <2>2 DEF RunsInv
  <2>4. Len(runs'[r]) <= 1
    BY <1>0, <2>1, <2>3, AtMostOne
  <2>5. Early(r)' => runs'[r] = <<>>
    <3>1. Early(r)' => worker'[p].pc \in {"decide", "count", "ticket"}
      BY <1>0, <1>1, <1>2, <2>2 DEF Early
    <3> QED
      BY <2>1, <2>3, <3>1
  <2>6. \A q \in Requests \ {r} : runs'[q] = runs[q]
    BY <1>1 DEF Untouched
  <2>7. \A q \in Requests : Early(q)' => runs'[q] = <<>>
    BY <1>3, <2>5, <2>6 DEF RunsInv
  <2>8. \A q \in Ticketed' : tickets'[q].status = "PENDING" /\ ~Reviewed(q)' => runs'[q] = <<>>
    BY <1>0, <1>2, <2>2, <2>6 DEF RunsInv, Fresh, TypeOK
  <2>9. RunOnce'
    BY <2>4, <2>6 DEF RunsInv, RunOnce
  <2> QED
    BY <2>7, <2>8, <2>9 DEF RunsInv
<1>5. CASE CreateTicket(p)
  <2>1. UNCHANGED <<records, runs>> /\ Recorded' = Recorded /\ worker[p].pc = "ticket" /\ Early(r)
    BY <1>5 DEF CreateTicket, Recorded, Early
  <2>2. runs[r] = <<>>
    BY <1>0, <2>1 DEF RunsInv
  <2>3. \A q \in Ticketed' : q # r => q \in Ticketed /\ tickets'[q] = tickets[q]
    <3>1. CASE NewTicket(p)
      <4>1. /\ Ticketed' = Ticketed \cup {r}
            /\ \A q \in Ticketed \ {r} : tickets'[q] = tickets[q]
        BY <1>0, <3>1, NewTicketType
      <4> QED
        BY <4>1
    <3>2. CASE UNCHANGED tickets
      BY <3>2 DEF Ticketed
    <3> QED
      BY <1>5, <3>1, <3>2 DEF CreateTicket
  <2> QED
    BY <1>2, <1>3, <2>1, <2>2, <2>3, RunsKept
<1>6. CASE ~Decide(p) /\ ~CreateTicket(p)
  <2>1. UNCHANGED <<tickets, runs>> /\ Ticketed' = Ticketed
    BY <1>6 DEF WorkerStep, NotifyFails, PopJob, CountTickets, UpdateAudit, Notify, Fallback,
       Ticketed
  <2>2. Early(r)' => Early(r)
    <3>1. r \in Recorded'
      BY <1>0, <1>6 DEF WorkerStep, NotifyFails, PopJob, CountTickets, UpdateAudit, Notify,
         Fallback, StoreVerdict, StoreFallback, Amend, Recorded, TypeOK
    <3>2. Early(r)' => worker'[p].pc \in {"decide", "count", "ticket"}
      BY <1>0, <1>1, <1>2, <3>1 DEF Early
    <3>3. worker'[p].pc \in {"decide", "count", "ticket"} => worker[p].pc = "count"
      BY <1>0, <1>6, ProceedProperties, EndJobProperties
         DEF WorkerStep, NotifyFails, PopJob, CountTickets, UpdateAudit, Notify, Fallback,
             WorkerStates
    <3> QED
      BY <3>2, <3>3 DEF Early
  <2> QED
    BY <1>2, <1>3, <2>1, <2>2, RunsKept
<1> QED
  BY <1>4, <1>5, <1>6

\* A reviewer runs what has not been run and closes the ticket before anyone
\* else reads it.
LEMMA ReviewRunsStep ==
  ASSUME OneReviewer, Rows, RunsInv, NEW v \in Reviewers,
         OpenTicket(v) \/ UpdateTicket(v) \/ UpdateOutcome(v)
  PROVE  RunsInv'
<1>0. /\ TypeOK /\ TicketRows /\ UNCHANGED <<queue, gateway, worker>>
      /\ runs \in [Requests -> Seq(Forms)] /\ records \in [Recorded -> Record]
      /\ \A u \in Reviewers : u = v
  BY DEF Rows, TypeInv, TypeOK, RowInv, OneReviewer, OpenTicket, UpdateTicket,
     UpdateOutcome, reviewUnchanged
<1>1. Recorded' = Recorded => \A q : Early(q)' <=> Early(q)
  BY <1>0 DEF Early, Pushing, Queued
<1>2. CASE OpenTicket(v)
  <2>1. PICK r \in Requests, choice \in {"APPROVE", "REJECT"} :
          /\ MayDecide(r)
          /\ review'[v] = [pc |-> "ticket", req |-> r, choice |-> choice]
          /\ runs'[r] = IF choice = "APPROVE" THEN Append(runs[r], records[r].parsed)
                                              ELSE runs[r]
          /\ \A q \in Requests \ {r} : runs'[q] = runs[q]
    BY <1>0, <1>2, OpenTicketProperties
  <2>2. /\ review[v].pc = "idle" /\ UNCHANGED <<records, tickets>>
        /\ Recorded' = Recorded /\ Ticketed' = Ticketed
    BY <1>2 DEF OpenTicket, Recorded, Ticketed
  <2>3. /\ r \in Ticketed /\ r \in Recorded /\ tickets[r].status = "PENDING"
        /\ records[r].parsed \in Forms
    BY <1>0, <2>1 DEF MayDecide, Record
  <2>4. \A q : ~Reviewed(q)
    BY <1>0, <2>2 DEF Reviewed, Deciding
  <2>5. runs[r] = <<>> /\ ~Early(r)
    BY <2>3, <2>4, TicketedLate DEF RunsInv
  <2>6. Len(runs'[r]) <= 1
    BY <1>0, <2>1, <2>3, <2>5, AtMostOne
  <2>7. review'[v].pc = "ticket" /\ review'[v].req = r
    BY <2>1
  <2>8. Reviewed(r)'
    BY <2>7 DEF Reviewed, Deciding
  <2>9. RunOnce'
    BY <2>1, <2>6 DEF RunsInv, RunOnce
  <2>10. \A q \in Requests : Early(q)' => runs'[q] = <<>>
    BY <1>1, <2>1, <2>2, <2>5 DEF RunsInv
  <2>11. \A q \in Ticketed' : tickets'[q].status = "PENDING" /\ ~Reviewed(q)' => runs'[q] = <<>>
    BY <1>0, <2>1, <2>2, <2>4, <2>8 DEF RunsInv, TypeOK
  <2> QED
    BY <2>9, <2>10, <2>11 DEF RunsInv
<1>3. CASE UpdateTicket(v)
  <2> DEFINE r == review[v].req
  <2>1. /\ review[v].pc # "idle" /\ r \in Ticketed
        /\ StoreTicket(v) /\ review' = [review EXCEPT ![v].pc = "audit"]
        /\ UNCHANGED <<records, runs>> /\ Recorded' = Recorded
    BY <1>0, <1>3 DEF UpdateTicket, TicketRows, Recorded
  <2>2. /\ Ticketed' = Ticketed /\ tickets'[r].status # "PENDING"
        /\ \A q \in Ticketed \ {r} : tickets'[q] = tickets[q]
    BY <1>0, <2>1, StoreTicketProperties
  <2>3. \A q : q # r => ~Reviewed(q)
    BY <1>0 DEF Reviewed, Deciding
  <2> QED
    BY <1>1, <2>1, <2>2, <2>3, RunsKept
<1>4. CASE UpdateOutcome(v)
  <2> DEFINE r == review[v].req
  <2>1. /\ review[v].pc # "idle" /\ r \in Recorded /\ tickets[r].status # "PENDING"
        /\ UNCHANGED <<tickets, runs>> /\ Ticketed' = Ticketed /\ StoreOutcome(v)
    BY <1>0, <1>4 DEF UpdateOutcome, TicketRows, Ticketed
  <2>2. Recorded' = Recorded
    BY <1>0, <2>1, StoreOutcomeProperties
  <2>3. \A q : q # r => ~Reviewed(q)
    BY <1>0 DEF Reviewed, Deciding
  <2> QED
    BY <1>1, <2>1, <2>2, <2>3, RunsKept
<1> QED
  BY <1>2, <1>3, <1>4

\* Every step runs a request at most once, as long as no process dies between
\* the run and the write that reports it.
LEMMA RunsStep ==
  ASSUME Lossy, NoCrash, OneReviewer, Rows, RunsInv, [Next]_vars
  PROVE  RunsInv'
<1>0. /\ TypeInv /\ TypeOK /\ AloneInv /\ RowInv
  BY DEF Rows, TypeInv
<1>1. CASE Dropping
  <2>1. /\ \A v \in Reviewers : review'[v] = review[v]
        /\ UNCHANGED <<runs, tickets>> /\ Recorded' = Recorded /\ Ticketed' = Ticketed
    BY <1>1 DEF Dropping, Recorded, Ticketed
  <2>2. \A r : Reviewed(r)' <=> Reviewed(r)
    BY <2>1 DEF Reviewed, Deciding
  <2>3. \A r : Early(r)' => Early(r)
    BY <1>1, <2>1 DEF Dropping, Early
  <2> QED
    BY <2>1, <2>2, <2>3, RunsKept
<1>2. ASSUME NEW g \in Calls, ReqOf[g] \notin Recorded, Intercept(g)
      PROVE  RunsInv'
  <2>1. /\ UNCHANGED <<queue, tickets, runs, worker, review>> /\ Ticketed' = Ticketed
        /\ gateway' = [gateway EXCEPT ![g] = "push"] /\ Recorded' = Recorded \cup {ReqOf[g]}
    BY <1>2 DEF Intercept, gatewayUnchanged, With, Recorded, Ticketed
  <2>2. gateway \in [Calls -> GatewayStates]
    BY <1>0 DEF TypeOK
  <2>3. \A r : Early(r)' => Early(r)
    BY <1>2, <2>1, <2>2 DEF Early, Pushing, Queued
  <2>4. \A r : Reviewed(r)' <=> Reviewed(r)
    BY <2>1 DEF Reviewed, Deciding
  <2> QED
    BY <2>1, <2>3, <2>4, RunsKept
<1>3. ASSUME NEW p \in Pods, PopJob(p)
      PROVE  RunsInv'
  <2>1. /\ UNCHANGED <<records, tickets, runs, gateway, review>>
        /\ Recorded' = Recorded /\ Ticketed' = Ticketed
        /\ queue \in Seq(Requests) /\ queue # <<>> /\ queue' = Tail(queue)
    BY <1>0, <1>3 DEF TypeOK, PopJob, workerUnchanged, Recorded, Ticketed
  <2>2. /\ worker'[p] = [pc |-> "decide", req |-> Head(queue), verdict |-> "PENDING",
                         parsed |-> "raw", number |-> 0]
        /\ \A q \in Pods \ {p} : worker'[q] = worker[q]
    BY <1>0, <1>3, PopJobProperties
  <2>3. worker'[p].req = Head(queue)
    BY <2>2
  <2>4. In(queue, Head(queue)) /\ \A d : In(queue', d) => In(queue, d)
    BY <2>1, LeaveProperties
  <2>5. Queued(Head(queue)) /\ \A d : Queued(d)' => Queued(d)
    BY <2>4 DEF In, Queued
  <2>6. \A r : Early(r)' => Early(r)
    BY <2>1, <2>2, <2>3, <2>5 DEF Early, Pushing
  <2>7. \A r : Reviewed(r)' <=> Reviewed(r)
    BY <2>1 DEF Reviewed, Deciding
  <2> QED
    BY <2>1, <2>6, <2>7, RunsKept
<1>4. ASSUME NEW p \in Pods, WorkerStep(p) \/ NotifyFails(p)
      PROVE  RunsInv'
  <2>1. CASE worker[p].pc = "idle"
    BY <1>3, <1>4, <2>1 DEF WorkerStep, Decide, CountTickets, CreateTicket, UpdateAudit,
       Notify, NotifyFails, Fallback
  <2> QED
    BY <1>4, <2>1, WorkerRunsStep
<1> QED
  BY <1>0, <1>1, <1>2, <1>4, StepKinds, ReviewRunsStep

\* With one decision at a time and as long as no process dies, the tool runs at
\* most once for a request, however often it is posted and whoever approves it,
\* whatever Redis loses or webhook throws, for any number of pods.
THEOREM RunOnceHolds ==
  ASSUME Lossy, NoCrash, OneReviewer
  PROVE  Spec => []RunOnce
<1>1. Init => RunsInv
  <2>1. Len(<<>>) <= 1
    OBVIOUS
  <2> QED
    BY <2>1 DEF Init, RunsInv, RunOnce, Ticketed
<1>2. Rows /\ RunsInv /\ [Next]_vars => RunsInv'
  BY RunsStep
<1>3. RunsInv => RunOnce
  BY DEF RunsInv
<1> QED
  BY <1>1, <1>2, <1>3, RowsInvariant, PTL DEF Spec

-----------------------------------------------------------------------------
(* Nothing blocked is run *)

\* A ticket beside a blocked record is closed: nobody may approve it any more.
BlockInv == \A r \in Ticketed : records[r].verdict = "BLOCK" => tickets[r].status # "PENDING"

\* A worker does not block what it has opened a ticket for, a reviewer closes
\* the ticket first.
LEMMA BlockStep ==
  ASSUME Lossy, Notified, Rows, BlockInv, [Next]_vars
  PROVE  BlockInv'
<1>0. Ticketed \subseteq Recorded /\ NewRecord.verdict = "PENDING"
  BY DEF Rows, RowInv, TicketRows, NewRecord
<1>1. CASE UNCHANGED <<records, tickets>>
  BY <1>1 DEF BlockInv, Ticketed
<1>2. ASSUME NEW g \in Calls, Records(g)
      PROVE  BlockInv'
  BY <1>0, <1>2 DEF Records, BlockInv
<1>3. ASSUME NEW p \in Pods, Opens(p)
      PROVE  BlockInv'
  BY <1>0, <1>3 DEF Opens, Fresh, BlockInv
<1>4. ASSUME NEW p \in Pods, Decides(p)
      PROVE  BlockInv'
  BY <1>0, <1>4 DEF Decides, Amends, BlockInv
<1>5. ASSUME NEW p \in Pods, GivesUp(p)
      PROVE  BlockInv'
  BY <1>0, <1>5 DEF GivesUp, Amends, Fresh, BlockInv
<1>6. ASSUME NEW v \in Reviewers, OpenTicket(v) \/ Closes(v) \/ Concludes(v)
      PROVE  BlockInv'
  BY <1>0, <1>6 DEF OpenTicket, Closes, Concludes, Amends, BlockInv, Ticketed
<1> QED
  BY <1>1, <1>2, <1>3, <1>4, <1>5, <1>6, TableSteps

\* As long as no webhook delivery throws, a request whose stored verdict is
\* BLOCK is never executed afterwards, for any number of pods and of reviewers
\* deciding at the same time, early or late.
THEOREM BlockedNotRunHolds ==
  ASSUME Lossy, Notified
  PROVE  Spec => BlockedNotRun
<1>1. Init => BlockInv
  BY DEF Init, BlockInv, Ticketed
<1>2. Rows /\ BlockInv /\ [Next]_vars => BlockInv'
  BY BlockStep
<1>3. ASSUME Rows, BlockInv, [Next]_vars, NEW r \in Recorded, records[r].verdict = "BLOCK"
      PROVE  runs'[r] = runs[r]
  <2>0. TypeInv /\ TypeOK /\ AloneInv /\ RowInv /\ r \in Requests /\ NewRecord.verdict = "PENDING"
    BY <1>3 DEF Rows, TypeInv, TypeOK, NewRecord
  <2>1. ASSUME NEW p \in Pods, Decide(p)
        PROVE  runs'[r] = runs[r]
    <3>1. records[worker[p].req] = NewRecord
      BY <2>0, <2>1 DEF Decide, RowInv, JobRows, Fresh
    <3>2. \A q \in Requests \ {worker[p].req} : runs'[q] = runs[q]
      BY <2>0, <2>1, DecideProperties
    <3> QED
      BY <1>3, <2>0, <3>1, <3>2
  <2>2. ASSUME NEW v \in Reviewers, OpenTicket(v)
        PROVE  runs'[r] = runs[r]
    <3>1. PICK q \in Requests, choice \in {"APPROVE", "REJECT"} :
            MayDecide(q) /\ \A d \in Requests \ {q} : runs'[d] = runs[d]
      BY <2>0, <2>2, OpenTicketProperties
    <3>2. records[q].verdict # "BLOCK"
      BY <1>3, <3>1 DEF MayDecide, BlockInv
    <3> QED
      BY <1>3, <2>0, <3>1, <3>2
  <2>3. CASE UNCHANGED runs
    BY <2>3
  <2> QED
    BY <1>3, <2>0, <2>1, <2>2, <2>3, StepKinds
       DEF Dropping, Intercept, gatewayUnchanged, WorkerStep, PopJob, CountTickets,
           CreateTicket, UpdateAudit, Notify, NotifyFails, Fallback, UpdateTicket, UpdateOutcome
<1>4. Rows /\ BlockInv /\ [Next]_vars
        => \A r \in Recorded : records[r].verdict = "BLOCK" => runs'[r] = runs[r]
  BY <1>3
<1> QED
  BY <1>1, <1>2, <1>4, RowsInvariant, PTL DEF Spec, BlockedNotRun

-----------------------------------------------------------------------------
(* The fallback.  With one process, nobody opens a ticket between the count *)
(* and the creation of another: its number is the next one, every ticket's  *)
(* is smaller, and no step of a job fails.                                  *)

NumberInv ==
  /\ \A r \in Ticketed : tickets[r].number <= Cardinality(Ticketed)
  /\ \A p \in Pods : /\ worker[p].pc = "ticket" => worker[p].number = NextNumber
                     /\ worker[p].pc # "fallback"
  /\ NoSpuriousBlock

\* A ticket is opened under a number no other ticket has.
LEMMA CreateNumbered ==
  ASSUME SinglePod, Rows, NumberInv, NEW p \in Pods, CreateTicket(p)
  PROVE  NumberInv'
<1> DEFINE r == worker[p].req
           n == Cardinality(Ticketed)
<1>0. /\ TypeOK /\ IsFiniteSet(Ticketed) /\ worker[p].pc = "ticket" /\ worker[p] \in Job
      /\ n \in Nat /\ worker[p].number = n + 1 /\ UNCHANGED records
  BY HeldTypes, FS_CardinalityType
     DEF Rows, TypeInv, RowInv, JobRows, CreateTicket, NumberInv, NextNumber
<1>1. Fresh(r)
  BY <1>0 DEF Rows, RowInv, JobRows
<1>2. tickets \in [Ticketed -> Ticket] /\ \A q \in Ticketed : tickets[q].number \in Nat
  BY <1>0 DEF TypeOK, Ticket
<1>3. TicketAllowed(r, worker[p].number)
  BY <1>0, <1>1, <1>2 DEF TicketAllowed, Fresh, NumberInv
<1>4. NewTicket(p) /\ Proceed(p, "update")
  BY <1>3 DEF CreateTicket
<1>5. /\ Ticketed' = Ticketed \cup {r}
      /\ tickets'[r] = [status |-> "PENDING", number |-> worker[p].number]
      /\ \A q \in Ticketed \ {r} : tickets'[q] = tickets[q]
  BY <1>0, <1>4, NewTicketType
<1>6. Cardinality(Ticketed') = n + 1
  BY <1>0, <1>1, <1>5, FS_AddElement DEF Fresh
<1>7. worker'[p].pc = "update" /\ \A q \in Pods : q = p
  BY <1>0, <1>4, ProceedProperties DEF WorkerStates, SinglePod
<1>8. ASSUME NEW q \in Ticketed'
      PROVE  tickets'[q].number <= n + 1
  <2>1. CASE q = r
    BY <1>0, <1>5, <2>1
  <2>2. CASE q # r
    <3>1. q \in Ticketed /\ tickets'[q] = tickets[q] /\ tickets[q].number <= n
      BY <1>5, <2>2 DEF NumberInv
    <3> QED
      BY <1>0, <1>2, <3>1
  <2> QED
    BY <2>1, <2>2
<1>9. NoSpuriousBlock'
  BY <1>0 DEF NumberInv, NoSpuriousBlock, Recorded
<1> QED
  BY <1>6, <1>7, <1>8, <1>9 DEF NumberInv

\* Any other step opens no ticket and takes no fallback.
LEMMA NumbersKept ==
  ASSUME Rows, NumberInv, Ticketed' = Ticketed,
         \A q \in Ticketed : tickets'[q].number = tickets[q].number,
         \A q \in Pods : \/ worker'[q] = worker[q]
                         \/ /\ worker'[q].pc \in {"idle", "decide", "count", "update", "notify"}
                         \/ /\ worker'[q].pc = "ticket" /\ worker'[q].number = NextNumber,
         \A q \in Recorded' : records'[q].by = "fallback"
                                => q \in Recorded /\ records[q].by = "fallback"
  PROVE  NumberInv'
<1>1. NextNumber' = NextNumber
  BY DEF NextNumber
<1> QED
  BY <1>1 DEF NumberInv, NoSpuriousBlock

\* Every step keeps the numbers right and the fallback out of reach.
LEMMA NumberStep ==
  ASSUME Lossy, Notified, SinglePod, Rows, NumberInv, [Next]_vars
  PROVE  NumberInv'
<1>0. /\ TypeInv /\ TypeOK /\ AloneInv /\ RowInv /\ TicketRows
      /\ (\A p \in Pods : worker[p].pc # "fallback") /\ NextNumber \in Nat
  BY NextNumberType DEF Rows, TypeInv, RowInv, NumberInv
<1>1. ASSUME NEW p \in Pods, WorkerStep(p)
      PROVE  NumberInv'
  <2>1. CASE CreateTicket(p)
    BY <2>1, CreateNumbered
  <2>2. CASE PopJob(p)
    <3>1. /\ worker'[p] = [pc |-> "decide", req |-> Head(queue), verdict |-> "PENDING",
                           parsed |-> "raw", number |-> 0]
          /\ \A q \in Pods \ {p} : worker'[q] = worker[q]
          /\ UNCHANGED <<records, tickets>>
      BY <1>0, <2>2, PopJobProperties DEF PopJob
    <3>2. worker'[p].pc = "decide"
      BY <3>1
    <3> QED
      BY <3>1, <3>2, NumbersKept DEF Recorded, Ticketed
  <2>3. CASE Decide(p)
    <3>1. PICK ruling \in Rulings(worker[p].req) :
            /\ worker'[p].pc = (IF Effective(p, ruling.verdict) = "ESCALATE"
                                THEN "count" ELSE "update")
            /\ \A q \in Pods \ {p} : worker'[q] = worker[q]
      BY <1>0, <2>3, DecideProperties
    <3>2. UNCHANGED <<records, tickets>> /\ worker'[p].pc \in {"count", "update"}
      BY <2>3, <3>1 DEF Decide
    <3> QED
      BY <3>1, <3>2, NumbersKept DEF Recorded, Ticketed
  <2>4. CASE CountTickets(p)
    <3>1. /\ worker'[p].pc = "ticket" /\ worker'[p].number = NextNumber
          /\ \A q \in Pods \ {p} : worker'[q] = worker[q]
          /\ UNCHANGED <<records, tickets>>
      BY <1>0, <2>4, CountProperties DEF CountTickets
    <3> QED
      BY <3>1, NumbersKept DEF Recorded, Ticketed
  <2>5. CASE UpdateAudit(p)
    <3>1. /\ worker[p].pc = "update" /\ worker[p].req \in Recorded /\ StoreVerdict(p)
          /\ Proceed(p, "notify") /\ UNCHANGED tickets
      BY <1>0, <2>5, HeldAlone DEF UpdateAudit
    <3>2. worker'[p].pc = "notify" /\ \A q \in Pods \ {p} : worker'[q] = worker[q]
      BY <1>0, <3>1, ProceedProperties DEF WorkerStates
    <3>3. /\ Recorded' = Recorded /\ records'[worker[p].req].by = "worker"
          /\ \A q \in Recorded \ {worker[p].req} : records'[q] = records[q]
      BY <1>0, <3>1 DEF StoreVerdict, Amend, TypeOK, Recorded
    <3>4. \A q \in Recorded' : records'[q].by = "fallback"
                                 => q \in Recorded /\ records[q].by = "fallback"
      BY <3>3
    <3> QED
      BY <3>1, <3>2, <3>4, NumbersKept DEF Ticketed
  <2>6. CASE Notify(p)
    <3>1. /\ worker'[p].pc = "idle" /\ \A q \in Pods \ {p} : worker'[q] = worker[q]
          /\ UNCHANGED <<records, tickets>>
      BY <1>0, <2>6, EndJobProperties DEF Notify
    <3> QED
      BY <3>1, NumbersKept DEF Recorded, Ticketed
  <2> QED
    BY <1>0, <1>1, <2>1, <2>2, <2>3, <2>4, <2>5, <2>6 DEF WorkerStep, Fallback
<1>2. ASSUME NEW g \in Calls, Intercept(g)
      PROVE  NumberInv'
  <2>1. /\ UNCHANGED <<worker, tickets>>
        /\ UNCHANGED records \/ records' = With(records, ReqOf[g], NewRecord)
    BY <1>2 DEF Intercept, gatewayUnchanged
  <2>2. \A q \in Recorded' : records'[q].by = "fallback"
                               => q \in Recorded /\ records[q].by = "fallback"
    BY <2>1 DEF With, Recorded, NewRecord
  <2> QED
    BY <2>1, <2>2, NumbersKept DEF Ticketed
<1>3. ASSUME NEW v \in Reviewers, OpenTicket(v) \/ UpdateTicket(v) \/ UpdateOutcome(v)
      PROVE  NumberInv'
  <2>1. UNCHANGED worker
    BY <1>3 DEF OpenTicket, UpdateTicket, UpdateOutcome, reviewUnchanged
  <2>2. /\ Ticketed' = Ticketed
        /\ \A q \in Ticketed : tickets'[q].number = tickets[q].number
    <3>1. CASE UNCHANGED tickets
      BY <3>1 DEF Ticketed
    <3>2. CASE review[v].pc # "idle" /\ review[v].req \in Ticketed /\ StoreTicket(v)
      BY <1>0, <3>2, StoreTicketProperties
    <3> QED
      BY <1>0, <1>3, <3>1, <3>2 DEF OpenTicket, UpdateTicket, UpdateOutcome, TicketRows
  <2>3. \A q \in Recorded' : records'[q].by = "fallback"
                               => q \in Recorded /\ records[q].by = "fallback"
    <3>1. CASE UNCHANGED records
      BY <3>1 DEF Recorded
    <3>2. CASE review[v].pc # "idle" /\ review[v].req \in Recorded /\ StoreOutcome(v)
      <4> DEFINE r == review[v].req
      <4>1. /\ Recorded' = Recorded
            /\ records'[r] =
                 [verdict |-> IF review[v].choice = "APPROVE" THEN "APPROVE" ELSE "BLOCK",
                  by |-> "reviewer",
                  exec |-> IF review[v].choice = "APPROVE" THEN "done" ELSE "refused",
                  parsed |-> records[r].parsed]
            /\ \A q \in Recorded \ {r} : records'[q] = records[q]
        BY <1>0, <3>2, StoreOutcomeProperties
      <4>2. records'[r].by = "reviewer"
        BY <4>1
      <4> QED
        BY <4>1, <4>2
    <3> QED
      BY <1>0, <1>3, <3>1, <3>2 DEF OpenTicket, UpdateTicket, UpdateOutcome, TicketRows
  <2> QED
    BY <2>1, <2>2, <2>3, NumbersKept
<1>4. CASE Dropping
  <2>1. /\ UNCHANGED <<records, tickets>> /\ Recorded' = Recorded /\ Ticketed' = Ticketed
        /\ \A p \in Pods : worker'[p] = worker[p] \/ worker'[p].pc = "idle"
    BY <1>4 DEF Dropping, Recorded, Ticketed
  <2> QED
    BY <2>1, NumbersKept
<1> QED
  BY <1>0, <1>1, <1>2, <1>3, <1>4, StepKinds DEF NotifyFails, Fault, Notified

\* Both invariants hold together.
LEMMA NumberInvariant ==
  ASSUME Lossy, Notified, SinglePod
  PROVE  Spec => [](Rows /\ NumberInv)
<1>1. Init => NumberInv
  BY DEF Init, NumberInv, NoSpuriousBlock, Recorded, Ticketed, Waiting
<1>2. Rows /\ NumberInv /\ [Next]_vars => NumberInv'
  BY NumberStep
<1>3. Spec => []Rows
  BY RowsInvariant
<1> QED
  BY <1>1, <1>2, <1>3, PTL DEF Spec

\* With one process, and webhook deliveries that do not throw, no request is
\* blocked as an internal error: a ticket number is never taken, a record never
\* missing.  It makes no difference what Redis loses, how often the process
\* dies, or how many reviewers decide at the same time.
THEOREM NoSpuriousBlockHolds ==
  ASSUME Lossy, Notified, SinglePod
  PROVE  Spec => []NoSpuriousBlock
<1>1. NumberInv => NoSpuriousBlock
  BY DEF NumberInv
<1>2. Spec => [](Rows /\ NumberInv)
  BY NumberInvariant
<1> QED
  BY <1>1, <1>2, PTL

-----------------------------------------------------------------------------
(* The order of the verdicts *)

\* A ticket is open until a reviewer has decided, a review is of an escalated
\* request, and a verdict by a reviewer is final.
OrderInv ==
  /\ \A r \in Ticketed : tickets[r].status = "PENDING"
                           => records[r].verdict \in {"PENDING", "ESCALATE"}
  /\ \A v \in Reviewers : review[v].pc # "idle" => records[review[v].req].verdict = "ESCALATE"
  /\ \A r \in Recorded : records[r].by = "reviewer" => records[r].verdict \in {"APPROVE", "BLOCK"}

\* Every step keeps the order; with one decision at a time, or the second would
\* be of a request the first one has approved.
LEMMA OrderStep ==
  ASSUME Lossy, Notified, Patient, OneReviewer, Rows, OrderInv, [Next]_vars
  PROVE  OrderInv'
<1>0. /\ TypeOK /\ TicketRows /\ PatientRows
      /\ NewRecord.verdict = "PENDING" /\ NewRecord.by = "gateway"
  BY DEF Rows, TypeInv, RowInv, NewRecord
<1>1. CASE /\ UNCHANGED <<records, tickets>>
           /\ \A v \in Reviewers : review'[v] = review[v] \/ review'[v].pc = "idle"
  BY <1>1 DEF OrderInv, Recorded, Ticketed
<1>2. ASSUME NEW g \in Calls, Records(g)
      PROVE  OrderInv'
  BY <1>0, <1>2 DEF Records, OrderInv, TicketRows
<1>3. ASSUME NEW p \in Pods, Opens(p)
      PROVE  OrderInv'
  BY <1>0, <1>3 DEF Opens, OrderInv, Fresh
<1>4. ASSUME NEW p \in Pods, Decides(p)
      PROVE  OrderInv'
  <2>1. \A v \in Reviewers : review[v].pc # "idle" => review[v].req # worker[p].req
    BY <1>0, <1>4 DEF Decides, PatientRows
  <2> QED
    BY <1>0, <1>4, <2>1 DEF Decides, Amends, OrderInv, TicketRows
<1>5. ASSUME NEW p \in Pods, GivesUp(p)
      PROVE  OrderInv'
  BY <1>0, <1>5 DEF GivesUp, Amends, Fresh, OrderInv, TicketRows
<1>6. ASSUME NEW v \in Reviewers, OpenTicket(v)
      PROVE  OrderInv'
  <2>1. PICK r \in Requests, choice \in {"APPROVE", "REJECT"} :
          /\ MayDecide(r)
          /\ review'[v] = [pc |-> "ticket", req |-> r, choice |-> choice]
    BY <1>0, <1>6, OpenTicketProperties
  <2>2. review'[v].req = r /\ records[r].verdict = "ESCALATE"
    BY <2>1 DEF MayDecide, Patient, OrderInv
  <2>3. UNCHANGED <<records, tickets>> /\ Recorded' = Recorded /\ Ticketed' = Ticketed
    BY <1>6 DEF OpenTicket, Recorded, Ticketed
  <2>4. \A u \in Reviewers : u = v
    BY DEF OneReviewer
  <2> QED
    BY <2>2, <2>3, <2>4 DEF OrderInv
<1>7. ASSUME NEW v \in Reviewers, Closes(v)
      PROVE  OrderInv'
  BY <1>7 DEF Closes, OrderInv, OneReviewer
<1>8. ASSUME NEW v \in Reviewers, Concludes(v)
      PROVE  OrderInv'
  <2> DEFINE d == review[v].req
  <2>1. /\ d \in Ticketed /\ d \in Recorded /\ tickets[d].status # "PENDING"
        /\ UNCHANGED tickets /\ Ticketed' = Ticketed /\ Recorded' = Recorded
        /\ records'[d].verdict \in {"APPROVE", "BLOCK"}
        /\ \A q \in Recorded \ {d} : records'[q] = records[q]
    BY <1>8 DEF Concludes, Amends
  <2>2. \A u \in Reviewers : review'[u].pc = "idle"
    BY <1>8 DEF Concludes, OneReviewer
  <2> HIDE DEF d
  <2> QED
    BY <1>0, <2>1, <2>2 DEF OrderInv, TicketRows
<1> QED
  BY <1>1, <1>2, <1>3, <1>4, <1>5, <1>6, <1>7, <1>8, TableSteps

\* It holds from the start.
LEMMA OrderInvariant ==
  ASSUME Lossy, Notified, Patient, OneReviewer
  PROVE  Spec => [](Rows /\ OrderInv)
<1>1. Init => OrderInv
  BY DEF Init, OrderInv, Recorded, Ticketed, NoDecision
<1>2. Rows /\ OrderInv /\ [Next]_vars => OrderInv'
  BY OrderStep
<1> QED
  BY <1>1, <1>2, RowsInvariant, PTL DEF Spec

\* A verdict a human gave stays, when a ticket is decided only after its verdict
\* is stored, with one decision at a time and webhook deliveries that do not
\* throw: for any number of pods, whichever die and whatever Redis loses.
THEOREM HumanVerdictKeptHolds ==
  ASSUME Lossy, Notified, Patient, OneReviewer
  PROVE  Spec => HumanVerdictKept
<1> DEFINE Kept(r) == records[r].by = "reviewer" /\ r \in Recorded' => records'[r] = records[r]
<1>0. NewRecord.by = "gateway"
  BY DEF NewRecord
<1>1. ASSUME Rows, OrderInv, [Next]_vars, NEW r \in Recorded
      PROVE  Kept(r)
  <2>1. CASE UNCHANGED records
    BY <2>1
  <2>2. ASSUME NEW g \in Calls, Records(g)
        PROVE  Kept(r)
    BY <1>1, <2>2 DEF Records
  <2>3. ASSUME NEW p \in Pods, Decides(p) \/ GivesUp(p)
        PROVE  Kept(r)
    BY <1>0, <1>1, <2>3 DEF Decides, GivesUp, Amends, Fresh
  <2>4. ASSUME NEW v \in Reviewers, Concludes(v)
        PROVE  Kept(r)
    BY <1>1, <2>4 DEF Concludes, Amends, OrderInv
  <2> QED
    BY <1>1, <2>1, <2>2, <2>3, <2>4, TableSteps DEF Opens, OpenTicket, Closes
<1>2. Rows /\ OrderInv /\ [Next]_vars => \A r \in Recorded : Kept(r)
  BY <1>1
<1> QED
  BY <1>2, OrderInvariant, PTL DEF Spec, HumanVerdictKept

\* With one process as well, a record only moves from PENDING to the worker's
\* verdict and from ESCALATE to the reviewer's.
THEOREM VerdictOrderHolds ==
  ASSUME Lossy, Notified, Patient, OneReviewer, SinglePod
  PROVE  Spec => VerdictOrder
<1> DEFINE Ordered(r) ==
      r \in Recorded' /\ records'[r] # records[r] =>
        \/ records[r].verdict = "PENDING" /\ records'[r].by = "worker"
        \/ /\ records[r].verdict = "ESCALATE"
           /\ records'[r].by = "reviewer"
           /\ records'[r].verdict \in {"APPROVE", "BLOCK"}
<1>0. NewRecord.verdict = "PENDING"
  BY DEF NewRecord
<1>1. ASSUME Rows, OrderInv, NumberInv, [Next]_vars, NEW r \in Recorded
      PROVE  Ordered(r)
  <2>1. CASE UNCHANGED records
    BY <2>1
  <2>2. ASSUME NEW g \in Calls, Records(g)
        PROVE  Ordered(r)
    BY <1>1, <2>2 DEF Records
  <2>3. ASSUME NEW p \in Pods, Decides(p)
        PROVE  Ordered(r)
    BY <1>0, <1>1, <2>3 DEF Decides, Amends
  <2>4. ASSUME NEW v \in Reviewers, Concludes(v)
        PROVE  Ordered(r)
    BY <1>1, <2>4 DEF Concludes, Amends, OrderInv
  <2>5. \A p \in Pods : ~GivesUp(p)
    BY <1>1 DEF GivesUp, NumberInv
  <2> HIDE DEF Ordered
  <2> QED
    BY <1>1, <2>1, <2>2, <2>3, <2>4, <2>5, TableSteps DEF Opens, OpenTicket, Closes
<1>2. Rows /\ OrderInv /\ NumberInv /\ [Next]_vars => \A r \in Recorded : Ordered(r)
  BY <1>1
<1> QED
  BY <1>2, OrderInvariant, NumberInvariant, PTL DEF Spec, VerdictOrder

-----------------------------------------------------------------------------
(* The outcome of a request.  Two reviewers who read the same open ticket   *)
(* run the tool twice, and a process that dies between a run and the write  *)
(* that reports it leaves both unlike: the rest is about one decision at a  *)
(* time and processes that live.                                            *)

\* What the tables and the world say of a request that is decided and not
\* under review: five possible outcomes and no other combination.
Outcome(r) ==
  LET d == records[r] IN
  \/ /\ d.verdict = "ESCALATE" /\ d.by = "worker" /\ d.exec = "none"
     /\ r \in Ticketed /\ tickets[r].status = "PENDING" /\ runs[r] = <<>>
  \/ /\ d.verdict = "APPROVE" /\ d.by = "worker" /\ d.exec = "done"
     /\ r \notin Ticketed /\ Len(runs[r]) = 1
  \/ /\ d.verdict = "BLOCK" /\ d.by \in {"worker", "fallback"} /\ d.exec = "none"
     /\ r \notin Ticketed /\ runs[r] = <<>>
  \/ /\ d.verdict = "APPROVE" /\ d.by = "reviewer" /\ d.exec = "done"
     /\ r \in Ticketed /\ tickets[r].status = "APPROVED" /\ Len(runs[r]) = 1
  \/ /\ d.verdict = "BLOCK" /\ d.by = "reviewer" /\ d.exec = "refused"
     /\ r \in Ticketed /\ tickets[r].status = "REJECTED" /\ runs[r] = <<>>

\* A job has run its request exactly if it is about to store an approval.
JobRuns(p) ==
  LET j == worker[p] IN
  /\ j.pc \in {"decide", "count", "ticket", "fallback"} => runs[j.req] = <<>>
  /\ j.pc = "update" =>
       /\ j.verdict = "APPROVE" => Len(runs[j.req]) = 1
       /\ j.verdict # "APPROVE" => runs[j.req] = <<>>
       /\ j.verdict = "ESCALATE" => tickets[j.req].status = "PENDING"

\* A reviewer has run the request exactly if it is an approval, and the record
\* is still the worker's.
ReviewRows(v) ==
  LET d == review[v] IN
  d.pc # "idle" =>
    /\ records[d.req].verdict = "ESCALATE" /\ records[d.req].by = "worker"
    /\ IF d.choice = "APPROVE" THEN Len(runs[d.req]) = 1 ELSE runs[d.req] = <<>>
    /\ d.pc = "ticket" => tickets[d.req].status = "PENDING"
    /\ d.pc = "audit" => tickets[d.req].status =
                           IF d.choice = "APPROVE" THEN "APPROVED" ELSE "REJECTED"

\* Without a record, or while no worker has it, an undecided request has not
\* run, and its record says so.
UnworkedUnrun ==
  /\ \A r \in Requests : r \notin Recorded => runs[r] = <<>>
  /\ \A r \in Recorded : records[r].verdict = "PENDING" =>
       records[r].exec = "none" /\ (Worked(r) \/ runs[r] = <<>>)

DecidedRight ==
  \A r \in Recorded : records[r].verdict # "PENDING" /\ ~Reviewed(r) => Outcome(r)

OutcomeInv ==
  /\ UnworkedUnrun /\ DecidedRight
  /\ \A p \in Pods : JobRuns(p)
  /\ \A v \in Reviewers : ReviewRows(v)

\* What a step does not touch keeps its outcome.
LEMMA OutcomeKept ==
  ASSUME NEW r, r \in Recorded, Untouched(r)
  PROVE  Outcome(r)' <=> Outcome(r)
  BY DEF Untouched, Outcome

\* A first run makes one.
LEMMA FirstRun ==
  ASSUME NEW e \in Forms
  PROVE  Len(Append(<<>>, e)) = 1
  OBVIOUS

\* A worker's step keeps the outcome of every other request, and a reviewer's
\* request is never the one a worker still decides.
LEMMA OutcomesKept ==
  ASSUME Patient, Notified, TypeInv, AloneInv, RowInv, OutcomeInv, NEW p \in Pods, worker[p].pc # "idle",
         WorkerStep(p), JobRuns(p)', NEW r, r = worker[p].req,
         records[r].verdict = "PENDING" \/ UNCHANGED <<records, tickets, runs>>,
         r \in Recorded',
         records'[r].verdict = "PENDING" => UNCHANGED records /\ worker'[p].pc # "idle",
         records'[r].verdict # "PENDING" /\ ~Reviewed(r) => Outcome(r)'
  PROVE  OutcomeInv'
<1>0. /\ TypeOK /\ UnworkedUnrun /\ DecidedRight /\ (\A q \in Pods : JobRuns(q))
      /\ (\A v \in Reviewers : ReviewRows(v)) /\ TicketRows /\ (\A q \in Pods : JobRows(q))
      /\ r \in Requests /\ r \in Recorded /\ ~Pushing(r) /\ ~Queued(r)
      /\ \A q \in Pods \ {p} : worker[q].pc # "idle" => worker[q].req # r /\ worker[q].req \in Requests
      /\ Ticketed \subseteq Requests /\ Recorded \subseteq Requests
  BY HeldAlone DEF TypeInv, RowInv, TypeOK, OutcomeInv
<1>1. /\ UNCHANGED <<queue, gateway, review>>
      /\ \A q \in Pods \ {p} : worker'[q] = worker[q]
      /\ worker'[p].pc # "idle" => worker'[p].req = r
      /\ \A q \in Requests \ {r} : Untouched(q)
      /\ Recorded' \subseteq Requests
  BY WorkerTouches, WorkerStepType DEF TypeInv, TypeOK
<1>2. UnworkedUnrun'
  <2>1. ASSUME NEW q \in Requests, q \notin Recorded'
        PROVE  runs'[q] = <<>>
    <3>1. q # r /\ Untouched(q)
      BY <1>1, <2>1
    <3> QED
      BY <1>0, <2>1, <3>1 DEF UnworkedUnrun, Untouched
  <2>2. ASSUME NEW q \in Recorded', records'[q].verdict = "PENDING"
        PROVE  records'[q].exec = "none" /\ (Worked(q)' \/ runs'[q] = <<>>)
    <3>1. CASE q = r
      <4>1. Worked(r)' /\ UNCHANGED records
        BY <1>1, <2>2, <3>1 DEF Worked, Handling
      <4> QED
        BY <1>0, <2>2, <3>1, <4>1 DEF UnworkedUnrun
    <3>2. CASE q # r
      <4>1. Untouched(q) /\ q \in Recorded /\ records'[q] = records[q] /\ runs'[q] = runs[q]
        BY <1>1, <2>2, <3>2 DEF Untouched
      <4>2. Worked(q) => Worked(q)'
        BY <1>0, <1>1, <3>2 DEF Worked, Handling
      <4> QED
        BY <1>0, <2>2, <4>1, <4>2 DEF UnworkedUnrun
    <3> QED
      BY <3>1, <3>2
  <2> QED
    BY <2>1, <2>2 DEF UnworkedUnrun
<1>3. DecidedRight'
  <2> SUFFICES ASSUME NEW q \in Recorded', records'[q].verdict # "PENDING", ~Reviewed(q)'
               PROVE  Outcome(q)'
    BY DEF DecidedRight
  <2>1. ~Reviewed(q)
    BY <1>1 DEF Reviewed, Deciding
  <2>2. CASE q = r
    BY <2>1, <2>2 DEF Reviewed, Deciding
  <2>3. CASE q # r
    <3>1. Untouched(q) /\ q \in Recorded /\ records[q].verdict # "PENDING"
      BY <1>1, <2>3 DEF Untouched
    <3> QED
      BY <1>0, <2>1, <3>1, OutcomeKept DEF DecidedRight
  <2> QED
    BY <2>2, <2>3
<1>4. ASSUME NEW q \in Pods
      PROVE  JobRuns(q)'
  <2>1. CASE q = p
    BY <2>1
  <2>2. CASE q # p /\ worker[q].pc = "idle"
    BY <1>1, <2>2 DEF JobRuns
  <2>3. CASE q # p /\ worker[q].pc # "idle"
    <3>1. worker'[q] = worker[q] /\ Untouched(worker[q].req)
      BY <1>0, <1>1, <2>3
    <3> QED
      BY <1>0, <3>1 DEF JobRuns, JobRows, Untouched
  <2> QED
    BY <2>1, <2>2, <2>3
<1>5. ASSUME NEW v \in Reviewers
      PROVE  ReviewRows(v)'
  <2> DEFINE q == review[v].req
  <2>1. review'[v] = review[v]
    BY <1>1
  <2>2. CASE review[v].pc = "idle"
    BY <2>1, <2>2 DEF ReviewRows
  <2>3. CASE review[v].pc # "idle" /\ q = r
    <3>1. UNCHANGED <<records, tickets, runs>>
      BY <2>3 DEF RowInv, PatientRows
    <3> QED
      BY <1>0, <1>1, <3>1 DEF ReviewRows
  <2>4. CASE review[v].pc # "idle" /\ q # r
    <3>1. q \in Ticketed /\ q \in Recorded /\ Untouched(q)
      BY <1>0, <1>1, <2>4 DEF TicketRows
    <3> QED
      BY <1>0, <2>1, <3>1 DEF ReviewRows, Untouched
  <2> QED
    BY <2>2, <2>3, <2>4
<1> QED
  BY <1>2, <1>3, <1>4, <1>5 DEF OutcomeInv

\* Each step of a worker towards the outcome of the request it holds.
LEMMA WorkerOutcome ==
  ASSUME Patient, Notified, TypeInv, AloneInv, RowInv, OutcomeInv, NEW p \in Pods, worker[p].pc # "idle",
         WorkerStep(p), NEW r, r = worker[p].req
  PROVE  OutcomeInv'
<1> DEFINE j == worker[p]
<1>0. /\ TypeOK /\ JobRows(p) /\ JobRuns(p) /\ j \in Job /\ DecidedRight
      /\ r \in Requests /\ r \in Recorded
      /\ records \in [Recorded -> Record] /\ NextNumber \in Nat
      /\ j.pc = "update" => j.verdict \in Verdicts
  BY HeldAlone, NextNumberType DEF TypeInv, RowInv, TypeOK, OutcomeInv, AloneInv,
     VerdictGiven, Job
<1>2. NewRecord.verdict = "PENDING"
  BY DEF NewRecord
<1>3. CASE Decide(p)
  <2>1. PICK ruling \in Rulings(r) :
          LET verdict == Effective(p, ruling.verdict) IN
          /\ ruling.parsed \in Forms
          /\ worker'[p].pc = (IF verdict = "ESCALATE" THEN "count" ELSE "update")
          /\ worker'[p].req = r /\ worker'[p].verdict = verdict
          /\ runs'[r] = IF verdict = "APPROVE" THEN Append(runs[r], ruling.parsed)
                                               ELSE runs[r]
    BY <1>0, <1>3, DecideProperties
  <2>2. /\ runs[r] = <<>> /\ records[r].verdict = "PENDING" /\ UNCHANGED records
        /\ Recorded' = Recorded
    BY <1>0, <1>2, <1>3 DEF Decide, JobRows, JobRuns, Fresh, Recorded
  <2>3. JobRuns(p)' /\ worker'[p].pc # "idle"
    BY <2>1, <2>2, FirstRun DEF JobRuns
  <2> QED
    BY <1>0, <1>3, <2>2, <2>3, OutcomesKept
<1>4. CASE CountTickets(p)
  <2>1. worker'[p].pc = "ticket" /\ worker'[p].req = r
    BY <1>0, <1>4, CountProperties
  <2>2. /\ j.pc = "count" /\ UNCHANGED <<records, tickets, runs>> /\ Recorded' = Recorded
    BY <1>4 DEF CountTickets, Recorded
  <2>3. JobRuns(p)' /\ records[r].verdict = "PENDING"
    BY <1>0, <1>2, <2>1, <2>2 DEF JobRuns, JobRows, Fresh
  <2> QED
    BY <1>0, <1>4, <2>1, <2>2, <2>3, OutcomesKept
<1>5. CASE CreateTicket(p) /\ TicketAllowed(r, j.number)
  <2>1. /\ j.pc = "ticket" /\ NewTicket(p) /\ Proceed(p, "update")
        /\ UNCHANGED <<records, runs>> /\ Recorded' = Recorded
    BY <1>5 DEF CreateTicket, Recorded
  <2>2. /\ worker'[p].pc = "update" /\ worker'[p].req = r /\ worker'[p].verdict = j.verdict
    BY <1>0, <2>1, ProceedProperties DEF WorkerStates
  <2>3. tickets'[r] = [status |-> "PENDING", number |-> j.number]
    BY <1>0, <2>1, NewTicketType
  <2>4. j.verdict = "ESCALATE" /\ runs[r] = <<>> /\ records[r].verdict = "PENDING"
    BY <1>0, <1>2, <2>1 DEF JobRows, JobRuns, Fresh
  <2>5. JobRuns(p)'
    BY <2>1, <2>2, <2>3, <2>4 DEF JobRuns
  <2> QED
    BY <1>0, <1>5, <2>1, <2>2, <2>4, <2>5, OutcomesKept
<1>6. CASE CreateTicket(p) /\ ~TicketAllowed(r, j.number)
  <2>1. /\ j.pc = "ticket" /\ Proceed(p, "fallback") /\ UNCHANGED <<records, tickets, runs>>
        /\ Recorded' = Recorded
    BY <1>6 DEF CreateTicket, Recorded
  <2>2. worker'[p].pc = "fallback" /\ worker'[p].req = r
    BY <1>0, <2>1, ProceedProperties DEF WorkerStates
  <2>3. JobRuns(p)' /\ records[r].verdict = "PENDING"
    BY <1>0, <1>2, <2>1, <2>2 DEF JobRows, JobRuns, Fresh
  <2> QED
    BY <1>0, <1>6, <2>1, <2>2, <2>3, OutcomesKept
<1>7. CASE UpdateAudit(p)
  <2>1. /\ j.pc = "update" /\ StoreVerdict(p) /\ Proceed(p, "notify")
        /\ UNCHANGED <<tickets, runs>> /\ Ticketed' = Ticketed
    BY <1>0, <1>7 DEF UpdateAudit, Ticketed
  <2>2. worker'[p].pc = "notify"
    BY <1>0, <2>1, ProceedProperties DEF WorkerStates
  <2>3. /\ Recorded' = Recorded
        /\ records'[r].verdict = j.verdict /\ records'[r].by = "worker"
        /\ records'[r].exec = IF j.verdict = "APPROVE" THEN "done" ELSE "none"
    BY <1>0, <2>1 DEF StoreVerdict, Amend, Recorded
  <2>4. JobRuns(p)' /\ records[r].verdict = "PENDING"
    BY <1>0, <1>2, <2>1, <2>2 DEF JobRows, JobRuns
  <2>5. /\ r \in Ticketed <=> j.verdict = "ESCALATE"
        /\ j.verdict = "APPROVE" => Len(runs[r]) = 1
        /\ j.verdict # "APPROVE" => runs[r] = <<>>
        /\ j.verdict = "ESCALATE" => tickets[r].status = "PENDING"
        /\ j.verdict \in {"APPROVE", "BLOCK", "ESCALATE"}
    BY <1>0, <2>1 DEF JobRows, JobRuns, Verdicts
  <2>6. worker'[p].req = r
    BY <1>0, <2>1, ProceedProperties DEF WorkerStates
  <2>7. Outcome(r)'
    BY <2>1, <2>3, <2>5, <2>6 DEF Outcome
  <2> QED
    BY <1>0, <1>7, <2>2, <2>3, <2>4, <2>5, <2>6, <2>7, OutcomesKept
<1>8. CASE Notify(p)
  <2>1. UNCHANGED <<records, tickets, runs>> /\ Recorded' = Recorded /\ Ticketed' = Ticketed
    BY <1>8 DEF Notify, Recorded, Ticketed
  <2>2. worker'[p].pc = "idle"
    BY <1>0, <1>8, EndJobProperties DEF Notify
  <2>3. JobRuns(p)' /\ records[r].verdict # "PENDING"
    BY <1>0, <1>8, <2>2 DEF JobRuns, Notify, AloneInv, VerdictGiven
  <2> QED
    BY <1>0, <1>8, <2>1, <2>3, OutcomesKept DEF DecidedRight, Outcome
<1>9. CASE Fallback(p)
  <2>1. /\ j.pc = "fallback" /\ StoreFallback(p) /\ UNCHANGED <<tickets, runs>>
        /\ Ticketed' = Ticketed
    BY <1>0, <1>9 DEF Fallback, Ticketed
  <2>2. worker'[p].pc = "idle"
    BY <1>0, <1>9, EndJobProperties DEF Fallback
  <2>3. /\ Recorded' = Recorded /\ records'[r].verdict = "BLOCK"
        /\ records'[r].by = "fallback" /\ records'[r].exec = "none"
    BY <1>0, <2>1 DEF StoreFallback, Amend, Recorded
  <2>4. /\ JobRuns(p)' /\ records[r].verdict = "PENDING" /\ r \notin Ticketed
        /\ runs[r] = <<>>
    BY <1>0, <1>2, <2>1, <2>2 DEF JobRows, JobRuns, Fresh
  <2> QED
    BY <1>0, <1>9, <2>1, <2>3, <2>4, OutcomesKept DEF Outcome
<1>10. ~PopJob(p)
  BY DEF PopJob
<1> QED
  BY <1>3, <1>4, <1>5, <1>6, <1>7, <1>8, <1>9, <1>10 DEF WorkerStep, CreateTicket

\* A popped request has not run.
LEMMA PopOutcome ==
  ASSUME TypeInv, AloneInv, RowInv, OutcomeInv, NEW p \in Pods, PopJob(p)
  PROVE  OutcomeInv'
<1> DEFINE r == Head(queue)
<1>0. /\ TypeOK /\ UnworkedUnrun /\ DecidedRight /\ (\A q \in Pods : JobRuns(q))
      /\ (\A v \in Reviewers : ReviewRows(v))
      /\ UNCHANGED <<records, tickets, runs, gateway, review>>
      /\ Recorded' = Recorded /\ Ticketed' = Ticketed
      /\ queue \in Seq(Requests) /\ queue # <<>> /\ queue' = Tail(queue)
  BY DEF TypeInv, TypeOK, OutcomeInv, PopJob, workerUnchanged, Recorded, Ticketed
<1>1. /\ worker'[p] = [pc |-> "decide", req |-> r, verdict |-> "PENDING",
                       parsed |-> "raw", number |-> 0]
      /\ \A q \in Pods \ {p} : worker'[q] = worker[q]
  BY <1>0, PopJobProperties
<1>2. worker'[p].pc = "decide" /\ worker'[p].req = r
  BY <1>1
<1>3. r \in Requests /\ In(queue, r) /\ \A d : In(queue', d) => In(queue, d)
  BY <1>0, LeaveProperties
<1>4. runs[r] = <<>>
  <2>1. Queued(r) /\ Fresh(r) /\ NewRecord.verdict = "PENDING"
    BY <1>3 DEF RowInv, WaitingFresh, In, Queued, NewRecord
  <2>2. ~Worked(r)
    BY <1>3, <2>1 DEF AloneInv, OnePlace
  <2> QED
    BY <1>0, <2>1, <2>2 DEF UnworkedUnrun, Fresh
<1> HIDE DEF r
<1>5. \A q \in Pods : JobRuns(q)'
  BY <1>0, <1>1, <1>2, <1>4 DEF JobRuns
<1>6. UnworkedUnrun'
  <2>1. worker[p].pc = "idle"
    BY DEF PopJob
  <2>2. \A q : Worked(q) => Worked(q)'
    BY <1>1, <2>1 DEF Worked, Handling
  <2> QED
    BY <1>0, <2>2 DEF UnworkedUnrun
<1> QED
  BY <1>0, <1>5, <1>6 DEF OutcomeInv, DecidedRight, Outcome, Reviewed, Deciding, ReviewRows

\* A new record is pending and has not run.
LEMMA GatewayOutcome ==
  ASSUME TypeInv, RowInv, OutcomeInv, NEW g \in Calls, ReqOf[g] \notin Recorded, Intercept(g)
  PROVE  OutcomeInv'
<1> DEFINE r == ReqOf[g]
<1>0. /\ UnworkedUnrun /\ DecidedRight /\ (\A q \in Pods : JobRuns(q))
      /\ (\A v \in Reviewers : ReviewRows(v)) /\ TicketRows
      /\ UNCHANGED <<tickets, runs, worker, review>> /\ Ticketed' = Ticketed
      /\ r \in Requests
  BY SentinelAssumption DEF RowInv, OutcomeInv, Intercept, gatewayUnchanged, Ticketed
<1>1. /\ Recorded' = Recorded \cup {r} /\ records'[r] = NewRecord
      /\ \A q \in Recorded : records'[q] = records[q]
  BY DEF Intercept, With, Recorded
<1>2. records'[r].verdict = "PENDING" /\ records'[r].exec = "none" /\ runs[r] = <<>>
  BY <1>0, <1>1 DEF NewRecord, UnworkedUnrun
<1>3. UnworkedUnrun'
  BY <1>0, <1>1, <1>2 DEF UnworkedUnrun, Worked, Handling
<1>4. DecidedRight'
  BY <1>0, <1>1, <1>2 DEF DecidedRight, Outcome, Reviewed, Deciding
<1>5. \A v \in Reviewers : ReviewRows(v)'
  BY <1>0, <1>1 DEF ReviewRows, TicketRows
<1>6. \A p \in Pods : JobRuns(p)'
  BY <1>0 DEF JobRuns
<1> QED
  BY <1>3, <1>4, <1>5, <1>6 DEF OutcomeInv

\* As long as no process dies, what is dropped is no job and no review.
LEMMA DropOutcome ==
  ASSUME NoCrash, OutcomeInv, Dropping
  PROVE  OutcomeInv'
<1>1. /\ UNCHANGED <<records, tickets, runs>> /\ Recorded' = Recorded /\ Ticketed' = Ticketed
      /\ \A p \in Pods : worker'[p] = worker[p]
      /\ \A v \in Reviewers : review'[v] = review[v]
  BY DEF Dropping, Recorded, Ticketed
<1>2. \A r : /\ Worked(r)' <=> Worked(r)
             /\ Reviewed(r)' <=> Reviewed(r)
             /\ Outcome(r)' <=> Outcome(r)
  BY <1>1 DEF Worked, Handling, Reviewed, Deciding, Outcome
<1>3. UnworkedUnrun' /\ DecidedRight'
  BY <1>1, <1>2 DEF OutcomeInv, UnworkedUnrun, DecidedRight
<1>4. /\ \A p \in Pods : JobRuns(p)'
      /\ \A v \in Reviewers : ReviewRows(v)'
  BY <1>1 DEF OutcomeInv, JobRuns, ReviewRows
<1> QED
  BY <1>3, <1>4 DEF OutcomeInv

\* A reviewer's step leaves alone whatever is waiting or still worked on.
LEMMA ReviewSpares ==
  ASSUME Patient, Notified, TypeInv, AloneInv, RowInv, OutcomeInv, NEW r \in Requests, r \in Recorded,
         records[r].verdict # "PENDING", records'[r].verdict # "PENDING",
         Recorded' = Recorded,
         UNCHANGED <<queue, gateway, worker>>, \A q \in Requests \ {r} : Untouched(q)
  PROVE  UnworkedUnrun' /\ \A p \in Pods : JobRuns(p)'
<1>0. /\ TypeOK /\ UnworkedUnrun /\ (\A q \in Pods : JobRuns(q)) /\ (\A q \in Pods : JobRows(q))
      /\ Recorded \subseteq Requests
  BY DEF TypeInv, TypeOK, RowInv, OutcomeInv
<1>1. UnworkedUnrun'
  <2>1. \A q : Worked(q)' <=> Worked(q)
    BY DEF Worked, Handling
  <2>2. ASSUME NEW q \in Requests, q \notin Recorded' \/ records'[q].verdict = "PENDING"
        PROVE  q # r /\ Untouched(q)
    BY <2>2
  <2> QED
    BY <1>0, <2>1, <2>2 DEF UnworkedUnrun, Untouched
<1>2. ASSUME NEW p \in Pods
      PROVE  JobRuns(p)'
  <2>1. CASE worker[p].pc \in {"decide", "count", "ticket", "fallback", "update"}
    <3>1. worker[p].pc # "idle" /\ worker[p].req \in Requests /\ worker[p].req # r
      BY <1>0, <2>1, HeldTypes DEF JobRows, Fresh, Job, NewRecord
    <3>2. Untouched(worker[p].req)
      BY <3>1
    <3> QED
      BY <1>0, <2>1, <3>2 DEF JobRuns, JobRows, Untouched
  <2>2. CASE worker[p].pc \notin {"decide", "count", "ticket", "fallback", "update"}
    BY <2>2 DEF JobRuns
  <2> QED
    BY <2>1, <2>2
<1> QED
  BY <1>1, <1>2

\* An open ticket is executed by an approval and by nothing else, its record
\* and its ticket end as the reviewer chose.
LEMMA ReviewOutcome ==
  ASSUME Patient, Notified, OneReviewer, TypeInv, AloneInv, RowInv, OutcomeInv,
         NEW v \in Reviewers, OpenTicket(v) \/ UpdateTicket(v) \/ UpdateOutcome(v)
  PROVE  OutcomeInv'
<1>0. /\ TypeOK /\ DecidedRight /\ ReviewRows(v) /\ TicketRows
      /\ UNCHANGED <<queue, gateway, worker>> /\ Ticketed \subseteq Requests
      /\ Recorded \subseteq Requests /\ records \in [Recorded -> Record]
      /\ \A u \in Reviewers : u = v
  BY DEF TypeInv, TypeOK, RowInv, OutcomeInv, OneReviewer, OpenTicket, UpdateTicket,
     UpdateOutcome, reviewUnchanged
<1>1. CASE OpenTicket(v)
  <2>1. PICK r \in Requests, choice \in {"APPROVE", "REJECT"} :
          /\ MayDecide(r)
          /\ review'[v] = [pc |-> "ticket", req |-> r, choice |-> choice]
          /\ runs'[r] = IF choice = "APPROVE" THEN Append(runs[r], records[r].parsed)
                                              ELSE runs[r]
          /\ \A q \in Requests \ {r} : runs'[q] = runs[q]
    BY <1>0, <1>1, OpenTicketProperties
  <2>2. /\ review[v].pc = "idle" /\ UNCHANGED <<records, tickets>>
        /\ Recorded' = Recorded /\ Ticketed' = Ticketed
    BY <1>1 DEF OpenTicket, Recorded, Ticketed
  <2>3. /\ r \in Ticketed /\ r \in Recorded /\ tickets[r].status = "PENDING"
        /\ records[r].verdict # "PENDING" /\ records[r].parsed \in Forms
    BY <1>0, <2>1 DEF MayDecide, Patient, Record
  <2>4. \A q \in Requests : ~Reviewed(q)
    BY <1>0, <2>2 DEF Reviewed, Deciding
  <2>5. /\ records[r].verdict = "ESCALATE" /\ records[r].by = "worker" /\ runs[r] = <<>>
    BY <1>0, <2>3, <2>4 DEF DecidedRight, Outcome
  <2>6. \A q \in Requests \ {r} : Untouched(q)
    BY <2>1, <2>2 DEF Untouched
  <2>7. review'[v].pc = "ticket" /\ review'[v].req = r /\ review'[v].choice = choice
    BY <2>1
  <2>8. ReviewRows(v)'
    BY <2>1, <2>2, <2>3, <2>5, <2>7, FirstRun DEF ReviewRows
  <2>9. DecidedRight'
    <3> SUFFICES ASSUME NEW q \in Recorded', records'[q].verdict # "PENDING", ~Reviewed(q)'
                 PROVE  Outcome(q)'
      BY DEF DecidedRight
    <3>1. q # r /\ q \in Requests /\ q \in Recorded
      BY <1>0, <2>2, <2>7 DEF Reviewed, Deciding
    <3> QED
      BY <1>0, <2>2, <2>4, <2>6, <3>1, OutcomeKept DEF DecidedRight
  <2> QED
    BY <1>0, <2>2, <2>3, <2>6, <2>8, <2>9, ReviewSpares DEF OutcomeInv
<1>2. ASSUME UpdateTicket(v) \/ UpdateOutcome(v), NEW r, r = review[v].req,
             \A q \in Requests \ {r} : Untouched(q), Recorded' = Recorded,
             ReviewRows(v)', Reviewed(r)' \/ Outcome(r)', records'[r].verdict # "PENDING"
      PROVE  OutcomeInv'
  <2>1. /\ review[v].pc # "idle" /\ r \in Requests /\ r \in Recorded
        /\ records[r].verdict # "PENDING"
    BY <1>0, <1>2 DEF UpdateTicket, UpdateOutcome, TicketRows, RowInv, PatientRows
  <2>2. DecidedRight'
    <3> SUFFICES ASSUME NEW q \in Recorded', records'[q].verdict # "PENDING", ~Reviewed(q)',
                        q # r
                 PROVE  Outcome(q)'
      BY <1>2 DEF DecidedRight
    <3>1. q \in Recorded /\ Untouched(q) /\ ~Reviewed(q)
      BY <1>0, <1>2 DEF Reviewed, Deciding
    <3> QED
      BY <1>0, <3>1, OutcomeKept DEF DecidedRight, Untouched
  <2> QED
    BY <1>0, <1>2, <2>1, <2>2, ReviewSpares DEF OutcomeInv
<1>3. CASE UpdateTicket(v)
  <2>1. PICK r : r = review[v].req
    OBVIOUS
  <2>2. /\ review[v].pc = "ticket" /\ r \in Ticketed
        /\ StoreTicket(v) /\ review' = [review EXCEPT ![v].pc = "audit"]
        /\ UNCHANGED <<records, runs>> /\ Recorded' = Recorded
    BY <1>0, <1>3, <2>1 DEF UpdateTicket, TicketRows, Recorded
  <2>3. /\ Ticketed' = Ticketed
        /\ tickets'[r].status = IF review[v].choice = "APPROVE" THEN "APPROVED" ELSE "REJECTED"
        /\ \A q \in Ticketed \ {r} : tickets'[q] = tickets[q]
    BY <1>0, <2>1, <2>2, StoreTicketProperties
  <2>4. review'[v].pc = "audit" /\ review'[v].req = r /\ review'[v].choice = review[v].choice
    BY <1>0, <2>1, <2>2, DecisionProperties
  <2>5. ReviewRows(v)' /\ Reviewed(r)'
    BY <1>0, <2>1, <2>2, <2>3, <2>4 DEF ReviewRows, Reviewed, Deciding
  <2>6. \A q \in Requests \ {r} : Untouched(q)
    BY <2>2, <2>3 DEF Untouched
  <2>7. records'[r].verdict # "PENDING"
    BY <2>1, <2>2 DEF RowInv, PatientRows
  <2> QED
    BY <1>2, <1>3, <2>1, <2>2, <2>5, <2>6, <2>7
<1>4. CASE UpdateOutcome(v)
  <2>1. PICK r : r = review[v].req
    OBVIOUS
  <2>2. /\ review[v].pc = "audit" /\ r \in Ticketed /\ r \in Recorded
        /\ StoreOutcome(v) /\ EndReview(v)
        /\ UNCHANGED <<tickets, runs>> /\ Ticketed' = Ticketed
    BY <1>0, <1>4, <2>1 DEF UpdateOutcome, TicketRows, Ticketed
  <2>3. /\ Recorded' = Recorded
        /\ records'[r] =
             [verdict |-> IF review[v].choice = "APPROVE" THEN "APPROVE" ELSE "BLOCK",
              by |-> "reviewer",
              exec |-> IF review[v].choice = "APPROVE" THEN "done" ELSE "refused",
              parsed |-> records[r].parsed]
        /\ \A q \in Recorded \ {r} : records'[q] = records[q]
    BY <1>0, <2>1, <2>2, StoreOutcomeProperties
  <2>4. review'[v].pc = "idle"
    BY <1>0, <2>2, DecisionProperties
  <2>5. Outcome(r)'
    <3>1. CASE review[v].choice = "APPROVE"
      <4>1. /\ records'[r].verdict = "APPROVE" /\ records'[r].by = "reviewer"
            /\ records'[r].exec = "done"
        BY <2>3, <3>1
      <4> QED
        BY <1>0, <2>1, <2>2, <3>1, <4>1 DEF ReviewRows, Outcome
    <3>2. CASE review[v].choice # "APPROVE"
      <4>1. /\ records'[r].verdict = "BLOCK" /\ records'[r].by = "reviewer"
            /\ records'[r].exec = "refused"
        BY <2>3, <3>2
      <4> QED
        BY <1>0, <2>1, <2>2, <3>2, <4>1 DEF ReviewRows, Outcome
    <3> QED
      BY <3>1, <3>2
  <2>6. ReviewRows(v)'
    BY <2>4 DEF ReviewRows
  <2>7. \A q \in Requests \ {r} : Untouched(q)
    BY <2>2, <2>3 DEF Untouched
  <2> QED
    BY <1>2, <1>4, <2>1, <2>3, <2>5, <2>6, <2>7
<1> QED
  BY <1>1, <1>3, <1>4

\* Every step keeps the outcomes right.
LEMMA OutcomeStep ==
  ASSUME Lossy, NoCrash, Notified, Patient, OneReviewer,
         TypeInv, AloneInv, RowInv, OutcomeInv, [Next]_vars
  PROVE  OutcomeInv'
<1>1. ASSUME NEW p \in Pods, WorkerStep(p)
      PROVE  OutcomeInv'
  <2>1. CASE worker[p].pc = "idle"
    BY <1>1, <2>1, PopOutcome DEF WorkerStep, Decide, CountTickets, CreateTicket, UpdateAudit,
       Notify, Fallback
  <2> QED
    BY <1>1, <2>1, WorkerOutcome
<1>2. \A p \in Pods : ~NotifyFails(p)
  BY DEF NotifyFails, Fault, Notified
<1> QED
  BY <1>1, <1>2, StepKinds, DropOutcome, GatewayOutcome, ReviewOutcome

\* Nobody has done anything at first.
LEMMA OutcomeInit ==
  ASSUME Init
  PROVE  OutcomeInv
  BY DEF Init, OutcomeInv, UnworkedUnrun, DecidedRight, JobRuns, ReviewRows, Recorded,
     Waiting, NoDecision

\* The outcomes stay right together with the rows.
LEMMA OutcomeInvariant ==
  ASSUME Lossy, NoCrash, Notified, Patient, OneReviewer
  PROVE  Spec => [](Rows /\ OutcomeInv)
<1>1. Init => OutcomeInv
  BY OutcomeInit
<1>2. Rows /\ OutcomeInv /\ [Next]_vars => OutcomeInv'
  BY OutcomeStep DEF Rows
<1> QED
  BY <1>1, <1>2, RowsInvariant, PTL DEF Spec

\* A sequence of length one is not the empty one.
LEMMA LengthOne ==
  ASSUME NEW s, Len(s) = 1
  PROVE  s # <<>>
<1>1. Len(<<>>) = 0
  OBVIOUS
<1> QED
  BY <1>1

\* Once nobody works on a request, its record says APPROVE with a tool result
\* exactly when the tool has run: with one decision at a time, of stored
\* verdicts, processes that live and webhooks that do not throw, whatever Redis
\* loses and for any number of pods.
THEOREM LoggedRunsHolds ==
  ASSUME Lossy, NoCrash, Notified, Patient, OneReviewer
  PROVE  Spec => []LoggedRuns
<1>1. Rows /\ OutcomeInv => LoggedRuns
  <2> SUFFICES ASSUME OutcomeInv, NEW r \in Recorded, Settled(r)
               PROVE  /\ (runs[r] # <<>>) <=> (records[r].exec = "done")
                      /\ (records[r].verdict = "APPROVE") <=> (records[r].exec = "done")
    BY DEF LoggedRuns
  <2>1. CASE records[r].verdict = "PENDING"
    BY <2>1 DEF OutcomeInv, UnworkedUnrun, Settled
  <2>2. CASE records[r].verdict # "PENDING"
    <3>1. Outcome(r)
      BY <2>2 DEF OutcomeInv, DecidedRight, Settled
    <3> QED
      BY <3>1, LengthOne DEF Outcome
  <2> QED
    BY <2>1, <2>2
<1> QED
  BY <1>1, OutcomeInvariant, PTL

\* With one process, nothing failing, and one decision at a time, of stored
\* verdicts: once nobody works on a request its ticket is open exactly when its
\* verdict is ESCALATE, and a closed one agrees with it.
THEOREM TicketAgreesHolds ==
  ASSUME Faultless, Patient, OneReviewer, SinglePod
  PROVE  Spec => []TicketAgrees
<1>1. Lossy /\ Reliable /\ NoCrash /\ Notified
  BY DEF Faultless, Lossy, Reliable, NoCrash, Notified
<1>2. ASSUME OutcomeInv, NumberInv, PendingBorne, NEW r \in Recorded, Settled(r)
      PROVE  IF r \in Ticketed
             THEN \/ tickets[r].status = "PENDING" /\ records[r].verdict = "ESCALATE"
                  \/ /\ records[r].by = "reviewer"
                     /\ \/ tickets[r].status = "APPROVED" /\ records[r].verdict = "APPROVE"
                        \/ tickets[r].status = "REJECTED" /\ records[r].verdict = "BLOCK"
             ELSE records[r].by = "worker" /\ records[r].verdict # "ESCALATE"
  <2>1. records[r].verdict # "PENDING" /\ ~Reviewed(r)
    BY <1>2 DEF PendingBorne, Borne, Settled
  <2>2. Outcome(r) /\ records[r].by # "fallback"
    BY <1>2, <2>1 DEF OutcomeInv, DecidedRight, NumberInv, NoSpuriousBlock
  <2> QED
    BY <2>2 DEF Outcome
<1>3. OutcomeInv /\ NumberInv /\ PendingBorne => TicketAgrees
  BY <1>2 DEF TicketAgrees
<1>4. Init => BearerInv
  BY BearerInit
<1>5. Rows /\ BearerInv /\ [Next]_vars => BearerInv'
  BY <1>1, BearerStep DEF Rows
<1>6. BearerInv => PendingBorne
  BY DEF BearerInv
<1>7. Spec => [](Rows /\ OutcomeInv) /\ [](Rows /\ NumberInv)
  BY <1>1, OutcomeInvariant, NumberInvariant
<1> QED
  BY <1>3, <1>4, <1>5, <1>6, <1>7, PTL DEF Spec

=============================================================================
