--------------------------- MODULE SentinelProofs ----------------------------
(***************************************************************************)
(* Theorems about Sentinel, for every set of requests, calls, reviewers    *)
(* and pods.                                                               *)
(***************************************************************************)
EXTENDS Sentinel, FiniteSetTheorems, TLAPS

-----------------------------------------------------------------------------
(* Tables and queues *)

\* Writing one row into a table keeps its shape and every other row.
LEMMA WithProperties ==
  ASSUME NEW S, NEW V, NEW t, DOMAIN t \subseteq S, t \in [DOMAIN t -> V],
         NEW r \in S, NEW v \in V
  PROVE  /\ DOMAIN With(t, r, v) = DOMAIN t \cup {r}
         /\ DOMAIN With(t, r, v) \subseteq S
         /\ With(t, r, v) \in [DOMAIN With(t, r, v) -> V]
         /\ With(t, r, v)[r] = v
         /\ \A q \in DOMAIN t \ {r} : With(t, r, v)[q] = t[q]
  BY DEF With

\* Amending a record keeps the shape of the table and every other row.
LEMMA AmendProperties ==
  ASSUME TypeOK, NEW r \in Recorded, NEW verdict, NEW by, NEW exec, NEW parsed,
         [verdict |-> verdict, by |-> by, exec |-> exec, parsed |-> parsed] \in Record,
         Amend(r, verdict, by, exec, parsed)
  PROVE  /\ Recorded' = Recorded
         /\ records' \in [Recorded -> Record]
         /\ records'[r] = [verdict |-> verdict, by |-> by, exec |-> exec, parsed |-> parsed]
         /\ \A q \in Recorded \ {r} : records'[q] = records[q]
  BY DEF TypeOK, Amend, Recorded

\* The tool runs once more for one request, and no run is ever forgotten.
LEMMA RunProperties ==
  ASSUME TypeOK, NEW r \in Requests, NEW parsed \in Forms, Run(r, parsed)
  PROVE  /\ runs' \in [Requests -> Seq(Forms)]
         /\ runs'[r] = Append(runs[r], parsed)
         /\ \A q \in Requests \ {r} : runs'[q] = runs[q]
  BY DEF TypeOK, Run

\* An appended sequence is not empty.
LEMMA AppendNotEmpty ==
  ASSUME NEW S, NEW s \in Seq(S), NEW e \in S
  PROVE  Append(s, e) \in Seq(S) /\ Append(s, e) # <<>>
<1>1. Append(s, e) \in Seq(S) /\ Len(Append(s, e)) = Len(s) + 1 /\ Len(s) \in Nat
  OBVIOUS
<1>2. Len(<<>>) = 0
  OBVIOUS
<1> QED
  BY <1>1, <1>2

-----------------------------------------------------------------------------
(* Typing *)

\* What a job holds is typed, and so is what a reviewer holds.
LEMMA HeldTypes ==
  ASSUME TypeOK
  PROVE  /\ \A p \in Pods : worker[p].pc # "idle" => worker[p] \in Job
         /\ \A v \in Reviewers : review[v].pc # "idle" => review[v] \in Decision
  BY DEF TypeOK, Waiting, NoDecision

\* A fault counts.
LEMMA FaultType ==
  ASSUME TypeOK, NEW kind, Fault(kind)
  PROVE  faults' \in 0..MaxFaults
  BY SentinelAssumption DEF TypeOK, Fault

\* The calls of intercept() keep every type, failing ones too.
LEMMA GatewayType ==
  ASSUME TypeOK, NEW g \in Calls, GatewayStep(g) \/ GatewayFault(g)
  PROVE  TypeOK'
<1> DEFINE r == ReqOf[g]
<1>1. r \in Requests /\ NewRecord \in Record
  BY SentinelAssumption DEF NewRecord, Record, Forms
<1>2. ASSUME UNCHANGED records \/ records' = With(records, r, NewRecord)
      PROVE  (Recorded \subseteq Requests)' /\ (records \in [Recorded -> Record])'
  <2>1. CASE UNCHANGED records
    BY <2>1 DEF TypeOK, Recorded
  <2>2. CASE records' = With(records, r, NewRecord)
    <3>1. DOMAIN records \subseteq Requests /\ records \in [DOMAIN records -> Record]
      BY DEF TypeOK, Recorded
    <3>2. /\ DOMAIN With(records, r, NewRecord) \subseteq Requests
          /\ With(records, r, NewRecord) \in [DOMAIN With(records, r, NewRecord) -> Record]
      BY <1>1, <3>1, WithProperties
    <3> QED
      BY <2>2, <3>2 DEF Recorded
  <2> QED
    BY <1>2, <2>1, <2>2
<1>3. queue \in Seq(Requests) /\ Append(queue, r) \in Seq(Requests)
      /\ queue \o <<r, r>> \in Seq(Requests)
  BY <1>1 DEF TypeOK
<1>4. gateway' \in [Calls -> GatewayStates] /\ faults' \in 0..MaxFaults
  BY FaultType DEF TypeOK, GatewayStep, GatewayFault, Intercept, PushJob,
     InterceptFails, PushFails, PushTwice, GatewayStates
<1>5. (Recorded \subseteq Requests)' /\ (records \in [Recorded -> Record])'
  BY <1>2 DEF GatewayStep, GatewayFault, Intercept, PushJob, InterceptFails, PushFails, PushTwice
<1>6. queue' \in Seq(Requests)
  BY <1>3 DEF GatewayStep, GatewayFault, Intercept, PushJob, InterceptFails, PushFails, PushTwice
<1>7. UNCHANGED <<tickets, mode, runs, worker, review, resetting>>
  BY DEF GatewayStep, GatewayFault, Intercept, PushJob, InterceptFails, PushFails,
     PushTwice, gatewayUnchanged
<1> QED
  BY <1>4, <1>5, <1>6, <1>7 DEF TypeOK, Ticketed

\* A ruling is a verdict and a form, and so is what the mode makes of it.
LEMMA RulingType ==
  ASSUME NEW r, NEW p, NEW ruling \in Rulings(r)
  PROVE  ruling.verdict \in Verdicts /\ ruling.parsed \in Forms
         /\ Effective(p, ruling.verdict) \in Verdicts
  BY DEF Rulings, Effective, Verdicts, Forms

\* The worker's two writes of a record.
LEMMA StoreType ==
  ASSUME TypeOK, NEW p \in Pods, worker[p] \in Job, worker[p].req \in Recorded,
         StoreVerdict(p) \/ StoreFallback(p)
  PROVE  Recorded' = Recorded /\ records' \in [Recorded -> Record]
<1> DEFINE j == worker[p]
<1>0. /\ j.req \in Recorded /\ j.verdict \in Verdicts \cup {"PENDING"} /\ j.parsed \in Forms
      /\ records[j.req].parsed \in Forms
  BY DEF TypeOK, Job, Record
<1> HIDE DEF j
<1>1. CASE StoreVerdict(p)
  <2> DEFINE exec == IF j.verdict = "APPROVE" THEN "done" ELSE "none"
  <2>1. Amend(j.req, j.verdict, "worker", exec, j.parsed)
    BY <1>1 DEF StoreVerdict, j
  <2>2. [verdict |-> j.verdict, by |-> "worker", exec |-> exec, parsed |-> j.parsed] \in Record
    BY <1>0 DEF Record
  <2> HIDE DEF exec
  <2> QED
    BY <1>0, <2>1, <2>2, AmendProperties
<1>2. CASE StoreFallback(p)
  <2>1. Amend(j.req, "BLOCK", "fallback", "none", records[j.req].parsed)
    BY <1>2 DEF StoreFallback, j
  <2>2. [verdict |-> "BLOCK", by |-> "fallback", exec |-> "none",
         parsed |-> records[j.req].parsed] \in Record
    BY <1>0 DEF Record, Verdicts
  <2> QED
    BY <1>0, <2>1, <2>2, AmendProperties
<1> QED
  BY <1>1, <1>2

\* A new ticket is typed and is the only change of the table.
LEMMA NewTicketType ==
  ASSUME TypeOK, NEW p \in Pods, worker[p] \in Job, NewTicket(p)
  PROVE  /\ Ticketed' = Ticketed \cup {worker[p].req} /\ Ticketed' \subseteq Requests
         /\ tickets' \in [Ticketed' -> Ticket]
         /\ tickets'[worker[p].req] = [status |-> "PENDING", number |-> worker[p].number]
         /\ \A q \in Ticketed \ {worker[p].req} : tickets'[q] = tickets[q]
<1> DEFINE t == [status |-> "PENDING", number |-> worker[p].number]
<1> DEFINE n == worker[p].req
<1>1. t \in Ticket /\ n \in Requests
  BY DEF Job, Ticket
<1>2. DOMAIN tickets \subseteq Requests /\ tickets \in [DOMAIN tickets -> Ticket]
  BY DEF TypeOK, Ticketed
<1>3. tickets' = With(tickets, n, t)
  BY DEF NewTicket
<1> HIDE DEF t, n
<1> DEFINE w == With(tickets, n, t)
<1>4. /\ DOMAIN w = DOMAIN tickets \cup {n}
      /\ DOMAIN w \subseteq Requests
      /\ w \in [DOMAIN w -> Ticket]
      /\ w[n] = t
      /\ \A q \in DOMAIN tickets \ {n} : w[q] = tickets[q]
  BY <1>1, <1>2 DEF With
<1>5. tickets' = w
  BY <1>3
<1> HIDE DEF w
<1>6. /\ DOMAIN tickets' = DOMAIN tickets \cup {n}
      /\ DOMAIN tickets' \subseteq Requests /\ tickets' \in [DOMAIN tickets' -> Ticket]
      /\ tickets'[n] = t
      /\ \A q \in DOMAIN tickets \ {n} : tickets'[q] = tickets[q]
  BY <1>4, <1>5
<1> QED
  BY <1>6 DEF Ticketed, t, n

\* A job that goes on at pc keeps everything else it holds.
LEMMA ProceedProperties ==
  ASSUME TypeOK, NEW p \in Pods, worker[p].pc # "idle",
         NEW pc \in WorkerStates \ {"idle"}, Proceed(p, pc)
  PROVE  /\ worker' \in [Pods -> Job \cup {Waiting}]
         /\ worker'[p].pc = pc
         /\ worker'[p].req = worker[p].req /\ worker'[p].verdict = worker[p].verdict
         /\ worker'[p].parsed = worker[p].parsed /\ worker'[p].number = worker[p].number
         /\ \A q \in Pods \ {p} : worker'[q] = worker[q]
<1> DEFINE j == [worker[p] EXCEPT !.pc = pc]
<1>1. worker[p] \in Job /\ worker \in [Pods -> Job \cup {Waiting}]
  BY HeldTypes DEF TypeOK
<1>2. j \in Job
  BY <1>1 DEF Job
<1>3. worker' = [worker EXCEPT ![p] = j]
  BY DEF Proceed
<1>4. /\ j.pc = pc /\ j.req = worker[p].req /\ j.verdict = worker[p].verdict
      /\ j.parsed = worker[p].parsed /\ j.number = worker[p].number
  BY <1>1 DEF Job
<1> HIDE DEF j
<1> QED
  BY <1>1, <1>2, <1>3, <1>4

\* A worker that ends its job waits, and the other workers go on.
LEMMA EndJobProperties ==
  ASSUME TypeOK, NEW p \in Pods, EndJob(p)
  PROVE  /\ worker' \in [Pods -> Job \cup {Waiting}]
         /\ worker'[p].pc = "idle"
         /\ \A q \in Pods \ {p} : worker'[q] = worker[q]
  BY DEF TypeOK, EndJob, Waiting

\* The job a worker pops is the oldest one, not decided yet.
LEMMA PopJobProperties ==
  ASSUME TypeOK, NEW p \in Pods, PopJob(p)
  PROVE  /\ worker' \in [Pods -> Job \cup {Waiting}]
         /\ queue' \in Seq(Requests) /\ Head(queue) \in Requests
         /\ worker'[p] = [pc |-> "decide", req |-> Head(queue), verdict |-> "PENDING",
                          parsed |-> "raw", number |-> 0]
         /\ \A q \in Pods \ {p} : worker'[q] = worker[q]
<1> DEFINE j == [pc |-> "decide", req |-> Head(queue), verdict |-> "PENDING",
                 parsed |-> "raw", number |-> 0]
<1>1. /\ queue \in Seq(Requests) /\ queue # <<>>
      /\ worker \in [Pods -> Job \cup {Waiting}]
  BY DEF TypeOK, PopJob
<1>2. Head(queue) \in Requests /\ Tail(queue) \in Seq(Requests)
  BY <1>1
<1>3. j \in Job
  BY <1>2 DEF Job, WorkerStates, Verdicts, Forms
<1>4. worker' = [worker EXCEPT ![p] = j] /\ queue' = Tail(queue)
  BY DEF PopJob
<1> HIDE DEF j
<1>5. worker' \in [Pods -> Job \cup {Waiting}] /\ worker'[p] = j
      /\ \A q \in Pods \ {p} : worker'[q] = worker[q]
  BY <1>1, <1>3, <1>4
<1> QED
  BY <1>2, <1>4, <1>5 DEF j

\* What Decide leaves behind: the effective verdict, and a run for an approval.
LEMMA DecideProperties ==
  ASSUME TypeOK, NEW p \in Pods, Decide(p)
  PROVE  \E ruling \in Rulings(worker[p].req) :
           LET verdict == Effective(p, ruling.verdict)
               r == worker[p].req IN
           /\ verdict \in Verdicts /\ ruling.parsed \in Forms /\ r \in Requests
           /\ worker' \in [Pods -> Job \cup {Waiting}]
           /\ worker'[p].pc = (IF verdict = "ESCALATE" THEN "count" ELSE "update")
           /\ worker'[p].req = r /\ worker'[p].verdict = verdict
           /\ worker'[p].parsed = ruling.parsed
           /\ \A q \in Pods \ {p} : worker'[q] = worker[q]
           /\ runs' \in [Requests -> Seq(Forms)]
           /\ runs'[r] = IF verdict = "APPROVE" THEN Append(runs[r], ruling.parsed)
                                                ELSE runs[r]
           /\ \A q \in Requests \ {r} : runs'[q] = runs[q]
<1>1. PICK ruling \in Rulings(worker[p].req) :
        LET verdict == Effective(p, ruling.verdict) IN
        /\ worker' = [worker EXCEPT ![p] = [@ EXCEPT
             !.verdict = verdict, !.parsed = ruling.parsed,
             !.pc = IF verdict = "ESCALATE" THEN "count" ELSE "update"]]
        /\ IF verdict = "APPROVE" THEN Run(worker[p].req, ruling.parsed) ELSE UNCHANGED runs
  BY DEF Decide
<1> DEFINE verdict == Effective(p, ruling.verdict)
           pc == IF verdict = "ESCALATE" THEN "count" ELSE "update"
           r == worker[p].req
           j == [worker[p] EXCEPT !.verdict = verdict, !.parsed = ruling.parsed, !.pc = pc]
<1>2. /\ worker[p] \in Job /\ worker \in [Pods -> Job \cup {Waiting}]
      /\ runs \in [Requests -> Seq(Forms)]
  BY HeldTypes DEF TypeOK, Decide
<1>3. verdict \in Verdicts /\ ruling.parsed \in Forms /\ r \in Requests
      /\ pc \in WorkerStates \ {"idle"}
  BY <1>2, RulingType DEF Job, WorkerStates
<1>4. /\ worker' = [worker EXCEPT ![p] = j]
      /\ IF verdict = "APPROVE" THEN Run(r, ruling.parsed) ELSE UNCHANGED runs
  BY <1>1
<1> HIDE DEF verdict, pc, r
<1>5. /\ j \in Job /\ j.pc = pc /\ j.req = worker[p].req /\ j.verdict = verdict
      /\ j.parsed = ruling.parsed
  BY <1>2, <1>3 DEF Job
<1> HIDE DEF j
<1>6. /\ worker' \in [Pods -> Job \cup {Waiting}] /\ worker'[p] = j
      /\ \A q \in Pods \ {p} : worker'[q] = worker[q]
  BY <1>2, <1>4, <1>5
<1>7. /\ runs' \in [Requests -> Seq(Forms)]
      /\ runs'[r] = IF verdict = "APPROVE" THEN Append(runs[r], ruling.parsed) ELSE runs[r]
      /\ \A q \in Requests \ {r} : runs'[q] = runs[q]
  BY <1>2, <1>3, <1>4, RunProperties
<1> QED
  BY <1>3, <1>5, <1>6, <1>7 DEF verdict, pc, r

\* A numbered ticket is a number.
LEMMA CountProperties ==
  ASSUME TypeOK, NEW p \in Pods, CountTickets(p), NextNumber \in Nat
  PROVE  /\ worker' \in [Pods -> Job \cup {Waiting}]
         /\ worker'[p].pc = "ticket" /\ worker'[p].number = NextNumber
         /\ worker'[p].req = worker[p].req /\ worker'[p].verdict = worker[p].verdict
         /\ worker'[p].parsed = worker[p].parsed
         /\ \A q \in Pods \ {p} : worker'[q] = worker[q]
<1> DEFINE j == [worker[p] EXCEPT !.pc = "ticket", !.number = NextNumber]
<1>1. worker[p] \in Job /\ worker \in [Pods -> Job \cup {Waiting}]
  BY HeldTypes DEF TypeOK, CountTickets
<1>2. j \in Job
  BY <1>1 DEF Job, WorkerStates
<1>3. worker' = [worker EXCEPT ![p] = j]
  BY DEF CountTickets
<1>4. /\ j.pc = "ticket" /\ j.number = NextNumber /\ j.req = worker[p].req
      /\ j.verdict = worker[p].verdict /\ j.parsed = worker[p].parsed
  BY <1>1 DEF Job
<1> HIDE DEF j
<1> QED
  BY <1>1, <1>2, <1>3, <1>4

-----------------------------------------------------------------------------
(* Type correctness.  The number of a new ticket is a count of the open     *)
(* and closed ones, which is a number as long as they are finitely many.    *)

TypeInv == TypeOK /\ IsFiniteSet(Ticketed)

\* The number of a ticket is a number.
LEMMA NextNumberType ==
  ASSUME IsFiniteSet(Ticketed)
  PROVE  NextNumber \in Nat
  BY FS_CardinalityType DEF NextNumber

\* A new ticket is one more.
LEMMA NewTicketFinite ==
  ASSUME TypeInv, NEW p \in Pods, worker[p] \in Job, NewTicket(p)
  PROVE  IsFiniteSet(Ticketed)'
<1>1. Ticketed' = Ticketed \cup {worker[p].req}
  BY NewTicketType DEF TypeInv
<1> QED
  BY <1>1, FS_AddElement DEF TypeInv

\* Every step of a worker keeps every type.
LEMMA WorkerStepType ==
  ASSUME TypeInv, NEW p \in Pods, WorkerStep(p)
  PROVE  TypeInv'
<1>0. TypeOK /\ IsFiniteSet(Ticketed)
  BY DEF TypeInv
<1>1. CASE PopJob(p)
  <2>1. worker' \in [Pods -> Job \cup {Waiting}] /\ queue' \in Seq(Requests)
    BY <1>0, <1>1, PopJobProperties
  <2> QED
    BY <1>0, <1>1, <2>1 DEF TypeInv, TypeOK, PopJob, workerUnchanged, Recorded, Ticketed
<1>2. CASE Decide(p)
  <2>1. worker' \in [Pods -> Job \cup {Waiting}] /\ runs' \in [Requests -> Seq(Forms)]
    BY <1>0, <1>2, DecideProperties
  <2> QED
    BY <1>0, <1>2, <2>1 DEF TypeInv, TypeOK, Decide, workerUnchanged, Recorded, Ticketed
<1>3. CASE CountTickets(p)
  <2>1. worker' \in [Pods -> Job \cup {Waiting}]
    BY <1>0, <1>3, CountProperties, NextNumberType
  <2> QED
    BY <1>0, <1>3, <2>1 DEF TypeInv, TypeOK, CountTickets, workerUnchanged, Recorded, Ticketed
<1>4. CASE CreateTicket(p)
  <2>1. worker' \in [Pods -> Job \cup {Waiting}]
    BY <1>0, <1>4, ProceedProperties DEF CreateTicket, WorkerStates
  <2>2. worker[p] \in Job
    BY <1>0, <1>4, HeldTypes DEF CreateTicket
  <2>3. /\ (Ticketed \subseteq Requests)' /\ (tickets \in [Ticketed -> Ticket])'
        /\ IsFiniteSet(Ticketed)'
    <3>1. CASE UNCHANGED tickets
      BY <1>0, <3>1 DEF TypeOK, Ticketed
    <3>2. CASE NewTicket(p)
      BY <1>0, <2>2, <3>2, NewTicketType, NewTicketFinite DEF TypeInv
    <3> QED
      BY <1>4, <3>1, <3>2 DEF CreateTicket
  <2> QED
    BY <1>0, <1>4, <2>1, <2>3 DEF TypeInv, TypeOK, CreateTicket, workerUnchanged, Recorded
<1>5. CASE UpdateAudit(p)
  <2>1. worker' \in [Pods -> Job \cup {Waiting}]
    BY <1>0, <1>5, ProceedProperties DEF UpdateAudit, WorkerStates
  <2>2. worker[p] \in Job
    BY <1>0, <1>5, HeldTypes DEF UpdateAudit
  <2>3. (Recorded \subseteq Requests)' /\ (records \in [Recorded -> Record])'
    BY <1>0, <1>5, <2>2, StoreType DEF UpdateAudit, TypeOK, Recorded
  <2> QED
    BY <1>0, <1>5, <2>1, <2>3 DEF TypeInv, TypeOK, UpdateAudit, workerUnchanged, Ticketed
<1>6. CASE Notify(p)
  <2>1. worker' \in [Pods -> Job \cup {Waiting}]
    BY <1>0, <1>6, EndJobProperties DEF Notify
  <2> QED
    BY <1>0, <1>6, <2>1 DEF TypeInv, TypeOK, Notify, workerUnchanged, Recorded, Ticketed
<1>7. CASE Fallback(p)
  <2>1. worker' \in [Pods -> Job \cup {Waiting}]
    BY <1>0, <1>7, EndJobProperties DEF Fallback
  <2>2. worker[p] \in Job
    BY <1>0, <1>7, HeldTypes DEF Fallback
  <2>3. (Recorded \subseteq Requests)' /\ (records \in [Recorded -> Record])'
    BY <1>0, <1>7, <2>2, StoreType DEF Fallback, TypeOK, Recorded
  <2> QED
    BY <1>0, <1>7, <2>1, <2>3 DEF TypeInv, TypeOK, Fallback, workerUnchanged, Ticketed
<1> QED
  BY <1>1, <1>2, <1>3, <1>4, <1>5, <1>6, <1>7 DEF WorkerStep

\* So does every failing one, whatever of it was applied.
LEMMA WorkerFaultType ==
  ASSUME TypeInv, NEW p \in Pods, WorkerFault(p)
  PROVE  TypeInv'
<1>0. TypeOK /\ IsFiniteSet(Ticketed)
  BY DEF TypeInv
<1>1. CASE JobFails(p)
  <2>1. faults' \in 0..MaxFaults
    BY <1>0, <1>1, FaultType DEF JobFails
  <2>2. worker[p].pc # "idle" /\ worker[p] \in Job
    BY <1>0, <1>1, HeldTypes DEF JobFails
  <2>3. worker' \in [Pods -> Job \cup {Waiting}]
    <3>1. Proceed(p, "fallback") \/ EndJob(p)
      BY <1>1 DEF JobFails
    <3> QED
      BY <1>0, <2>2, <3>1, ProceedProperties, EndJobProperties DEF WorkerStates
  <2>4. (Recorded \subseteq Requests)' /\ (records \in [Recorded -> Record])'
    <3>1. UNCHANGED records \/ (worker[p].req \in Recorded /\ StoreVerdict(p))
      BY <1>1 DEF JobFails
    <3> QED
      BY <1>0, <2>2, <3>1, StoreType DEF TypeOK, Recorded
  <2>5. /\ (Ticketed \subseteq Requests)' /\ (tickets \in [Ticketed -> Ticket])'
        /\ IsFiniteSet(Ticketed)'
    <3>1. UNCHANGED tickets \/ NewTicket(p)
      BY <1>1 DEF JobFails
    <3> QED
      BY <1>0, <2>2, <3>1, NewTicketType, NewTicketFinite DEF TypeInv, TypeOK, Ticketed
  <2>6. UNCHANGED <<queue, runs, mode, gateway, review, resetting>>
    BY <1>1 DEF JobFails, workerUnchanged
  <2> QED
    BY <1>0, <2>1, <2>3, <2>4, <2>5, <2>6 DEF TypeInv, TypeOK
<1>2. CASE NotifyFails(p)
  <2>1. worker' \in [Pods -> Job \cup {Waiting}] /\ faults' \in 0..MaxFaults
    BY <1>0, <1>2, ProceedProperties, FaultType DEF NotifyFails, WorkerStates
  <2> QED
    BY <1>0, <1>2, <2>1 DEF TypeInv, TypeOK, NotifyFails, workerUnchanged, Recorded, Ticketed
<1>3. CASE JobLost(p)
  <2>1. queue' \in Seq(Requests) /\ faults' \in 0..MaxFaults
    BY <1>0, <1>3, FaultType DEF JobLost, TypeOK
  <2> QED
    BY <1>0, <1>3, <2>1 DEF TypeInv, TypeOK, JobLost, workerUnchanged, Recorded, Ticketed
<1> QED
  BY <1>1, <1>2, <1>3 DEF WorkerFault

-----------------------------------------------------------------------------
(* The review desk *)

\* Opening a ticket takes the decision down, and runs the tool for an approval.
LEMMA OpenTicketProperties ==
  ASSUME TypeOK, NEW v \in Reviewers, OpenTicket(v)
  PROVE  \E r \in Requests, choice \in {"APPROVE", "REJECT"} :
           /\ MayDecide(r)
           /\ review' \in [Reviewers -> Decision \cup {NoDecision}]
           /\ review'[v] = [pc |-> "ticket", req |-> r, choice |-> choice]
           /\ \A u \in Reviewers \ {v} : review'[u] = review[u]
           /\ runs' \in [Requests -> Seq(Forms)]
           /\ runs'[r] = IF choice = "APPROVE" THEN Append(runs[r], records[r].parsed)
                                               ELSE runs[r]
           /\ \A q \in Requests \ {r} : runs'[q] = runs[q]
<1>1. PICK r \in Requests, choice \in {"APPROVE", "REJECT"} :
        /\ MayDecide(r)
        /\ review' = [review EXCEPT ![v] = [pc |-> "ticket", req |-> r, choice |-> choice]]
        /\ IF choice = "APPROVE" THEN Run(r, records[r].parsed) ELSE UNCHANGED runs
  BY DEF OpenTicket
<1> DEFINE d == [pc |-> "ticket", req |-> r, choice |-> choice]
<1>2. d \in Decision
  BY DEF Decision, ReviewStates
<1>3. r \in Recorded /\ records[r].parsed \in Forms
  BY <1>1 DEF MayDecide, TypeOK, Record
<1>4. /\ review \in [Reviewers -> Decision \cup {NoDecision}]
      /\ review' = [review EXCEPT ![v] = d] /\ runs \in [Requests -> Seq(Forms)]
  BY <1>1 DEF TypeOK
<1> HIDE DEF d
<1>5. /\ review' \in [Reviewers -> Decision \cup {NoDecision}] /\ review'[v] = d
      /\ \A u \in Reviewers \ {v} : review'[u] = review[u]
  BY <1>2, <1>4
<1>6. /\ runs' \in [Requests -> Seq(Forms)]
      /\ runs'[r] = IF choice = "APPROVE" THEN Append(runs[r], records[r].parsed)
                                          ELSE runs[r]
      /\ \A q \in Requests \ {r} : runs'[q] = runs[q]
  BY <1>1, <1>3, <1>4, RunProperties
<1> QED
  BY <1>1, <1>5, <1>6 DEF d

\* The reviewer's two writes: the ticket keeps its number.
LEMMA StoreTicketProperties ==
  ASSUME TypeOK, NEW v \in Reviewers, review[v].pc # "idle", review[v].req \in Ticketed,
         StoreTicket(v)
  PROVE  /\ Ticketed' = Ticketed /\ tickets' \in [Ticketed -> Ticket]
         /\ tickets'[review[v].req].status =
              IF review[v].choice = "APPROVE" THEN "APPROVED" ELSE "REJECTED"
         /\ \A q \in Ticketed : tickets'[q].number = tickets[q].number
         /\ \A q \in Ticketed \ {review[v].req} : tickets'[q] = tickets[q]
<1> DEFINE r == review[v].req
           s == IF review[v].choice = "APPROVE" THEN "APPROVED" ELSE "REJECTED"
           t == [tickets[r] EXCEPT !.status = s]
<1>1. tickets \in [Ticketed -> Ticket] /\ r \in Ticketed
  BY DEF TypeOK
<1>2. t \in Ticket /\ t.status = s /\ t.number = tickets[r].number
  BY <1>1 DEF Ticket
<1>3. tickets' = [tickets EXCEPT ![r] = t]
  BY DEF StoreTicket
<1> HIDE DEF t, r, s
<1>4. Ticketed' = Ticketed /\ tickets' \in [Ticketed -> Ticket] /\ tickets'[r] = t
      /\ \A q \in Ticketed \ {r} : tickets'[q] = tickets[q]
  BY <1>1, <1>2, <1>3 DEF Ticketed
<1> QED
  BY <1>2, <1>4 DEF r, s

\* The record says what the reviewer decided.
LEMMA StoreOutcomeProperties ==
  ASSUME TypeOK, NEW v \in Reviewers, review[v].pc # "idle", review[v].req \in Recorded,
         StoreOutcome(v)
  PROVE  /\ Recorded' = Recorded /\ records' \in [Recorded -> Record]
         /\ records'[review[v].req] =
              [verdict |-> IF review[v].choice = "APPROVE" THEN "APPROVE" ELSE "BLOCK",
               by |-> "reviewer",
               exec |-> IF review[v].choice = "APPROVE" THEN "done" ELSE "refused",
               parsed |-> records[review[v].req].parsed]
         /\ \A q \in Recorded \ {review[v].req} : records'[q] = records[q]
<1> DEFINE r == review[v].req
           verdict == IF review[v].choice = "APPROVE" THEN "APPROVE" ELSE "BLOCK"
           exec == IF review[v].choice = "APPROVE" THEN "done" ELSE "refused"
<1>1. records[r].parsed \in Forms
  BY DEF TypeOK, Record
<1>2. verdict \in Verdicts /\ exec \in {"done", "refused"}
  BY DEF Verdicts
<1>3. Amend(r, verdict, "reviewer", exec, records[r].parsed)
  BY DEF StoreOutcome
<1> HIDE DEF verdict, exec, r
<1> DEFINE parsed == records[r].parsed
<1>4. [verdict |-> verdict, by |-> "reviewer", exec |-> exec, parsed |-> parsed] \in Record
  BY <1>1, <1>2 DEF Record
<1>5. r \in Recorded
  BY DEF r
<1> HIDE DEF parsed
<1>6. Amend(r, verdict, "reviewer", exec, parsed)
  BY <1>3 DEF parsed
<1>7. /\ Recorded' = Recorded
      /\ records' \in [Recorded -> Record]
      /\ records'[r] = [verdict |-> verdict, by |-> "reviewer", exec |-> exec, parsed |-> parsed]
      /\ \A q \in Recorded \ {r} : records'[q] = records[q]
  BY <1>4, <1>5, <1>6, AmendProperties
<1> QED
  BY <1>7 DEF verdict, exec, r, parsed

\* A decision that goes on, and one that is over.
LEMMA DecisionProperties ==
  ASSUME TypeOK, NEW v \in Reviewers, review[v].pc # "idle"
  PROVE  /\ review' = [review EXCEPT ![v].pc = "audit"] =>
              /\ review' \in [Reviewers -> Decision \cup {NoDecision}]
              /\ review'[v].pc = "audit" /\ review'[v].req = review[v].req
              /\ review'[v].choice = review[v].choice
              /\ \A u \in Reviewers \ {v} : review'[u] = review[u]
         /\ EndReview(v) =>
              /\ review' \in [Reviewers -> Decision \cup {NoDecision}]
              /\ review'[v].pc = "idle"
              /\ \A u \in Reviewers \ {v} : review'[u] = review[u]
<1>1. review[v] \in Decision /\ review \in [Reviewers -> Decision \cup {NoDecision}]
  BY HeldTypes DEF TypeOK
<1>2. ASSUME review' = [review EXCEPT ![v].pc = "audit"]
      PROVE  /\ review' \in [Reviewers -> Decision \cup {NoDecision}]
             /\ review'[v].pc = "audit" /\ review'[v].req = review[v].req
             /\ review'[v].choice = review[v].choice
             /\ \A u \in Reviewers \ {v} : review'[u] = review[u]
  <2> DEFINE d == [review[v] EXCEPT !.pc = "audit"]
  <2>1. d \in Decision /\ d.pc = "audit" /\ d.req = review[v].req /\ d.choice = review[v].choice
    BY <1>1 DEF Decision, ReviewStates
  <2>2. review' = [review EXCEPT ![v] = d]
    BY <1>2
  <2> HIDE DEF d
  <2> QED
    BY <1>1, <2>1, <2>2
<1>3. EndReview(v) => /\ review' \in [Reviewers -> Decision \cup {NoDecision}]
                      /\ review'[v].pc = "idle"
                      /\ \A u \in Reviewers \ {v} : review'[u] = review[u]
  BY <1>1 DEF EndReview, NoDecision
<1> QED
  BY <1>2, <1>3

\* Every step of a reviewer keeps every type, failing ones too.
LEMMA ReviewType ==
  ASSUME TypeInv, NEW v \in Reviewers, OpenTicket(v) \/ ReviewStep(v) \/ ReviewFails(v)
  PROVE  TypeInv'
<1>0. TypeOK /\ IsFiniteSet(Ticketed)
  BY DEF TypeInv
<1>1. CASE OpenTicket(v)
  <2>1. /\ review' \in [Reviewers -> Decision \cup {NoDecision}]
        /\ runs' \in [Requests -> Seq(Forms)]
    BY <1>0, <1>1, OpenTicketProperties
  <2> QED
    BY <1>0, <1>1, <2>1 DEF TypeInv, TypeOK, OpenTicket, reviewUnchanged, Recorded, Ticketed
<1>2. CASE UpdateTicket(v)
  <2>1. review' \in [Reviewers -> Decision \cup {NoDecision}]
    BY <1>0, <1>2, DecisionProperties DEF UpdateTicket
  <2>2. Ticketed' = Ticketed /\ tickets' \in [Ticketed -> Ticket]
    BY <1>0, <1>2, StoreTicketProperties DEF UpdateTicket, TypeOK, Ticketed
  <2> QED
    BY <1>0, <1>2, <2>1, <2>2 DEF TypeInv, TypeOK, UpdateTicket, reviewUnchanged, Recorded
<1>3. CASE UpdateOutcome(v)
  <2>1. review' \in [Reviewers -> Decision \cup {NoDecision}]
    BY <1>0, <1>3, DecisionProperties DEF UpdateOutcome
  <2>2. Recorded' = Recorded /\ records' \in [Recorded -> Record]
    BY <1>0, <1>3, StoreOutcomeProperties DEF UpdateOutcome, TypeOK, Recorded
  <2> QED
    BY <1>0, <1>3, <2>1, <2>2 DEF TypeInv, TypeOK, UpdateOutcome, reviewUnchanged, Ticketed
<1>4. CASE ReviewFails(v)
  <2>1. review[v].pc # "idle" /\ EndReview(v)
    BY <1>4 DEF ReviewFails
  <2>2. review' \in [Reviewers -> Decision \cup {NoDecision}] /\ faults' \in 0..MaxFaults
    BY <1>0, <1>4, <2>1, DecisionProperties, FaultType DEF ReviewFails
  <2>3. UNCHANGED tickets \/ (review[v].req \in Ticketed /\ StoreTicket(v))
    BY <1>4 DEF ReviewFails
  <2>4. Ticketed' = Ticketed /\ tickets' \in [Ticketed -> Ticket]
    BY <1>0, <2>1, <2>3, StoreTicketProperties DEF TypeOK, Ticketed
  <2>5. UNCHANGED records \/ (review[v].req \in Recorded /\ StoreOutcome(v))
    BY <1>4 DEF ReviewFails
  <2>6. Recorded' = Recorded /\ records' \in [Recorded -> Record]
    BY <1>0, <2>1, <2>5, StoreOutcomeProperties DEF TypeOK, Recorded
  <2>7. UNCHANGED <<queue, mode, runs, gateway, worker, resetting>>
    BY <1>4 DEF ReviewFails, reviewUnchanged
  <2> QED
    BY <1>0, <2>2, <2>4, <2>6, <2>7 DEF TypeInv, TypeOK
<1> QED
  BY <1>1, <1>2, <1>3, <1>4 DEF ReviewStep

-----------------------------------------------------------------------------
(* Administration *)

\* Every administrative step and every crash keeps every type.
LEMMA AdminType ==
  ASSUME TypeInv, NEW p \in Pods,
         SetMode(p) \/ PurgeTickets(p) \/ PurgeRecords(p) \/ Crash(p)
  PROVE  TypeInv'
<1>0. TypeOK /\ IsFiniteSet(Ticketed)
  BY DEF TypeInv
<1>1. CASE SetMode(p)
  <2>1. mode' \in [Pods -> {"ENFORCE", "OBSERVE"}]
    BY <1>0, <1>1, SentinelAssumption DEF SetMode, TypeOK
  <2> QED
    BY <1>0, <1>1, <2>1 DEF TypeInv, TypeOK, SetMode, Recorded, Ticketed
<1>2. CASE PurgeTickets(p)
  <2>1. tickets' \in [Ticketed' -> Ticket] /\ Ticketed' = {}
    BY <1>2 DEF PurgeTickets, Ticketed
  <2>2. faults' \in 0..MaxFaults /\ resetting' \in SUBSET Pods
    BY <1>0, <1>2, FaultType DEF PurgeTickets, TypeOK
  <2> QED
    BY <1>0, <1>2, <2>1, <2>2, FS_EmptySet DEF TypeInv, TypeOK, PurgeTickets, Recorded
<1>3. CASE PurgeRecords(p)
  <2>1. (Recorded \subseteq Requests)' /\ (records \in [Recorded -> Record])'
    BY <1>0, <1>3 DEF PurgeRecords, Recorded, TypeOK
  <2>2. mode' \in [Pods -> {"ENFORCE", "OBSERVE"}] /\ resetting' \in SUBSET Pods
    BY <1>0, <1>3 DEF PurgeRecords, TypeOK
  <2> QED
    BY <1>0, <1>3, <2>1, <2>2 DEF TypeInv, TypeOK, PurgeRecords, Ticketed
<1>4. CASE Crash(p)
  <2>1. mode' \in [Pods -> {"ENFORCE", "OBSERVE"}] /\ resetting' \in SUBSET Pods
    BY <1>0, <1>4 DEF Crash, TypeOK
  <2>2. /\ gateway' \in [Calls -> GatewayStates]
        /\ worker' \in [Pods -> Job \cup {Waiting}]
        /\ review' \in [Reviewers -> Decision \cup {NoDecision}]
    BY <1>0, <1>4 DEF Crash, TypeOK, GatewayStates
  <2>3. faults' \in 0..MaxFaults
    BY <1>0, <1>4, FaultType DEF Crash
  <2> QED
    BY <1>0, <1>4, <2>1, <2>2, <2>3 DEF TypeInv, TypeOK, Crash, Recorded, Ticketed
<1> QED
  BY <1>1, <1>2, <1>3, <1>4

\* The system starts typed.
LEMMA TypeInit ==
  ASSUME Init
  PROVE  TypeInv
<1>1. Recorded = {} /\ Ticketed = {}
  BY DEF Init, Recorded, Ticketed
<1>2. records \in [Recorded -> Record] /\ tickets \in [Ticketed -> Ticket]
  BY <1>1 DEF Init
<1>3. queue \in Seq(Requests) /\ runs \in [Requests -> Seq(Forms)]
  BY DEF Init
<1> QED
  BY <1>1, <1>2, <1>3, FS_EmptySet, SentinelAssumption
     DEF Init, TypeInv, TypeOK, GatewayStates

\* Every step keeps every type.
LEMMA TypeStep ==
  ASSUME TypeInv, [Next]_vars
  PROVE  TypeInv'
<1>1. ASSUME NEW g \in Calls, GatewayStep(g) \/ GatewayFault(g)
      PROVE  TypeInv'
  <2>1. TypeOK' /\ UNCHANGED tickets
    BY <1>1, GatewayType DEF TypeInv, GatewayStep, GatewayFault, Intercept, PushJob,
       InterceptFails, PushFails, PushTwice, gatewayUnchanged
  <2> QED
    BY <2>1 DEF TypeInv, Ticketed
<1>2. CASE UNCHANGED vars
  BY <1>2 DEF TypeInv, TypeOK, vars, Recorded, Ticketed
<1> QED
  BY <1>1, <1>2, WorkerStepType, WorkerFaultType, ReviewType, AdminType DEF Next

\* Every table, queue and call keeps its type, whatever fails, crashes or is
\* reset, for any number of requests, calls, reviewers and pods.
THEOREM TypeCorrect == Spec => []TypeOK
<1>1. Spec => []TypeInv
  BY TypeInit, TypeStep, PTL DEF Spec
<1>2. TypeInv => TypeOK
  BY DEF TypeInv
<1> QED
  BY <1>1, <1>2, PTL

-----------------------------------------------------------------------------
(* Nothing is recorded as executed that was not.  The verdict a worker      *)
(* carries to its record, and the choice a reviewer carries to the ticket   *)
(* and the record, must be backed by a run already.                         *)

CarriedRuns ==
  \A p \in Pods : worker[p].pc \in {"count", "ticket", "update"} /\ worker[p].verdict = "APPROVE"
                    => runs[worker[p].req] # <<>>

ChosenRuns ==
  \A v \in Reviewers : review[v].pc # "idle" /\ review[v].choice = "APPROVE"
                         => runs[review[v].req] # <<>>

RunInv == CarriedRuns /\ ChosenRuns /\ NoPhantomRun

\* No step forgets a run.
LEMMA RunsGrow ==
  ASSUME TypeInv, [Next]_vars
  PROVE  \A r \in Requests : runs[r] # <<>> => runs'[r] # <<>>
<1>0. TypeOK /\ runs \in [Requests -> Seq(Forms)]
  BY DEF TypeInv, TypeOK
<1>1. ASSUME NEW p \in Pods, Decide(p)
      PROVE  \A r \in Requests : runs[r] # <<>> => runs'[r] # <<>>
  <2> DEFINE r == worker[p].req
  <2>1. PICK ruling \in Rulings(r) :
          LET verdict == Effective(p, ruling.verdict) IN
          /\ ruling.parsed \in Forms /\ r \in Requests
          /\ runs'[r] = IF verdict = "APPROVE" THEN Append(runs[r], ruling.parsed)
                                               ELSE runs[r]
          /\ \A q \in Requests \ {r} : runs'[q] = runs[q]
    BY <1>0, <1>1, DecideProperties
  <2>2. runs[r] \in Seq(Forms)
    BY <1>0, <2>1
  <2> QED
    BY <2>1, <2>2, AppendNotEmpty
<1>2. ASSUME NEW v \in Reviewers, OpenTicket(v)
      PROVE  \A r \in Requests : runs[r] # <<>> => runs'[r] # <<>>
  <2>1. PICK r \in Requests, choice \in {"APPROVE", "REJECT"} :
          /\ MayDecide(r)
          /\ runs'[r] = IF choice = "APPROVE" THEN Append(runs[r], records[r].parsed)
                                              ELSE runs[r]
          /\ \A q \in Requests \ {r} : runs'[q] = runs[q]
    BY <1>0, <1>2, OpenTicketProperties
  <2>2. records[r].parsed \in Forms
    BY <1>0, <2>1 DEF MayDecide, TypeOK, Record
  <2> QED
    BY <1>0, <2>1, <2>2, AppendNotEmpty
<1>3. CASE UNCHANGED runs
  BY <1>3
<1> QED
  BY <1>1, <1>2, <1>3 DEF Next, vars, GatewayStep, GatewayFault, Intercept, PushJob,
     InterceptFails, PushFails, PushTwice, gatewayUnchanged, WorkerStep, WorkerFault,
     PopJob, CountTickets, CreateTicket, UpdateAudit, Notify, Fallback, JobFails,
     NotifyFails, JobLost, ReviewStep, UpdateTicket, UpdateOutcome, ReviewFails,
     SetMode, PurgeTickets, PurgeRecords, Crash

\* Rows other than those of r stay, and what r's rows say is backed.
LEMMA PhantomKept ==
  ASSUME NoPhantomRun, NEW r \in Requests,
         \A q \in Requests : runs[q] # <<>> => runs'[q] # <<>>,
         \A q \in Recorded' \ {r} : q \in Recorded /\ records'[q] = records[q],
         \A q \in Ticketed' \ {r} : q \in Ticketed /\ tickets'[q] = tickets[q],
         r \in Recorded' /\ (records'[r].verdict = "APPROVE" \/ records'[r].exec = "done")
           => runs'[r] # <<>>,
         r \in Ticketed' /\ tickets'[r].status = "APPROVED" => runs'[r] # <<>>
  PROVE  NoPhantomRun'
<1> SUFFICES ASSUME NEW q \in Requests,
                    \/ q \in Recorded' /\ (records'[q].verdict = "APPROVE" \/ records'[q].exec = "done")
                    \/ q \in Ticketed' /\ tickets'[q].status = "APPROVED"
             PROVE  runs'[q] # <<>>
  BY DEF NoPhantomRun
<1>1. CASE q = r
  BY <1>1
<1>2. CASE q # r
  BY <1>2 DEF NoPhantomRun
<1> QED
  BY <1>1, <1>2

\* A worker's step hands on no approval without a run.
LEMMA WorkerRuns ==
  ASSUME TypeInv, RunInv, NEW p \in Pods, WorkerStep(p) \/ WorkerFault(p), [Next]_vars
  PROVE  RunInv'
<1> DEFINE r == worker[p].req
<1>0. /\ TypeOK /\ CarriedRuns /\ ChosenRuns /\ NoPhantomRun /\ IsFiniteSet(Ticketed)
      /\ \A q \in Requests : runs[q] # <<>> => runs'[q] # <<>>
      /\ \A q \in Pods : worker[q].pc # "idle" => worker[q].req \in Requests
  BY RunsGrow, HeldTypes DEF TypeInv, RunInv, Job
<1>1. ChosenRuns'
  <2>1. UNCHANGED review /\ \A v \in Reviewers : review[v].pc # "idle" => review[v].req \in Requests
    BY <1>0, HeldTypes DEF Decision, WorkerStep, WorkerFault, PopJob, Decide, CountTickets,
       CreateTicket, UpdateAudit, Notify, Fallback, JobFails, NotifyFails, JobLost,
       workerUnchanged
  <2> QED
    BY <1>0, <2>1 DEF ChosenRuns
<1>2. CASE PopJob(p)
  <2>1. worker'[p].pc = "decide" /\ \A q \in Pods \ {p} : worker'[q] = worker[q]
    BY <1>0, <1>2, PopJobProperties
  <2>2. CarriedRuns'
    BY <1>0, <2>1 DEF CarriedRuns
  <2>3. NoPhantomRun'
    BY <1>0, <1>2 DEF PopJob, NoPhantomRun, Recorded, Ticketed
  <2> QED
    BY <1>1, <2>2, <2>3 DEF RunInv
<1>3. CASE Decide(p)
  <2>1. PICK ruling \in Rulings(r) :
          LET verdict == Effective(p, ruling.verdict) IN
          /\ ruling.parsed \in Forms
          /\ worker'[p].req = r /\ worker'[p].verdict = verdict
          /\ \A q \in Pods \ {p} : worker'[q] = worker[q]
          /\ verdict = "APPROVE" => runs'[r] = Append(runs[r], ruling.parsed)
    BY <1>0, <1>3, DecideProperties
  <2>2. r \in Requests /\ runs[r] \in Seq(Forms)
    BY <1>0, <1>3 DEF Decide, TypeOK
  <2>3. worker'[p].verdict = "APPROVE" => runs'[r] # <<>>
    BY <2>1, <2>2, AppendNotEmpty
  <2>4. CarriedRuns'
    BY <1>0, <2>1, <2>3 DEF CarriedRuns
  <2>5. NoPhantomRun'
    BY <1>0, <1>3 DEF Decide, NoPhantomRun, Recorded, Ticketed
  <2> QED
    BY <1>1, <2>4, <2>5 DEF RunInv
<1>4. CASE CountTickets(p)
  <2>1. /\ worker[p].pc = "count" /\ worker'[p].req = r
        /\ worker'[p].verdict = worker[p].verdict
        /\ \A q \in Pods \ {p} : worker'[q] = worker[q]
    BY <1>0, <1>4, CountProperties, NextNumberType DEF CountTickets
  <2>2. CarriedRuns'
    BY <1>0, <2>1 DEF CarriedRuns
  <2>3. NoPhantomRun'
    BY <1>0, <1>4 DEF CountTickets, NoPhantomRun, Recorded, Ticketed
  <2> QED
    BY <1>1, <2>2, <2>3 DEF RunInv
<1>5. ASSUME NEW pc \in {"update", "notify", "fallback"}, worker[p].pc # "idle", Proceed(p, pc),
             pc = "update" => worker[p].pc = "ticket"
      PROVE  CarriedRuns'
  <2>1. /\ worker'[p].pc = pc /\ worker'[p].req = r /\ worker'[p].verdict = worker[p].verdict
        /\ \A q \in Pods \ {p} : worker'[q] = worker[q]
    BY <1>0, <1>5, ProceedProperties DEF WorkerStates
  <2> QED
    BY <1>0, <1>5, <2>1 DEF CarriedRuns
<1>6. EndJob(p) => CarriedRuns'
  BY <1>0, EndJobProperties DEF CarriedRuns
<1>7. ASSUME worker[p].pc = "ticket", NewTicket(p), UNCHANGED records
      PROVE  NoPhantomRun'
  <2>1. worker[p] \in Job /\ r \in Requests
    BY <1>0, <1>7, HeldTypes
  <2>2. /\ Ticketed' = Ticketed \cup {r}
        /\ tickets'[r] = [status |-> "PENDING", number |-> worker[p].number]
        /\ \A q \in Ticketed \ {r} : tickets'[q] = tickets[q]
    BY <1>0, <1>7, <2>1, NewTicketType
  <2>3. r \in Recorded /\ (records[r].verdict = "APPROVE" \/ records[r].exec = "done")
          => runs'[r] # <<>>
    BY <1>0, <2>1 DEF NoPhantomRun
  <2>4. Recorded' = Recorded
    BY <1>7 DEF Recorded
  <2> HIDE DEF r
  <2> QED
    BY <1>0, <1>7, <2>1, <2>2, <2>3, <2>4, PhantomKept
<1>8. ASSUME worker[p].pc = "update", r \in Recorded, StoreVerdict(p), UNCHANGED tickets
      PROVE  NoPhantomRun'
  <2>1. worker[p] \in Job /\ r \in Requests
    BY <1>0, <1>8, HeldTypes
  <2>2. Amend(r, worker[p].verdict, "worker",
              IF worker[p].verdict = "APPROVE" THEN "done" ELSE "none", worker[p].parsed)
    BY <1>8 DEF StoreVerdict
  <2>3. /\ Recorded' = Recorded /\ \A q \in Recorded \ {r} : records'[q] = records[q]
        /\ records'[r].verdict = worker[p].verdict
        /\ records'[r].exec = "done" => worker[p].verdict = "APPROVE"
    BY <1>0, <1>8, <2>2 DEF Amend, TypeOK, Recorded
  <2>4. worker[p].verdict = "APPROVE" => runs'[r] # <<>>
    BY <1>0, <1>8, <2>1 DEF CarriedRuns
  <2>5. r \in Ticketed /\ tickets[r].status = "APPROVED" => runs'[r] # <<>>
    BY <1>0, <2>1 DEF NoPhantomRun
  <2>6. Ticketed' = Ticketed
    BY <1>8 DEF Ticketed
  <2> HIDE DEF r
  <2> QED
    BY <1>0, <1>8, <2>1, <2>3, <2>4, <2>5, <2>6, PhantomKept
<1>9. ASSUME worker[p].pc = "fallback", r \in Recorded, StoreFallback(p), UNCHANGED tickets
      PROVE  NoPhantomRun'
  <2>1. r \in Requests
    BY <1>0, <1>9
  <2>2. Amend(r, "BLOCK", "fallback", "none", records[r].parsed)
    BY <1>9 DEF StoreFallback
  <2>3. /\ Recorded' = Recorded /\ \A q \in Recorded \ {r} : records'[q] = records[q]
        /\ records'[r].verdict = "BLOCK" /\ records'[r].exec = "none"
    BY <1>0, <1>9, <2>2 DEF Amend, TypeOK, Recorded
  <2>4. r \in Ticketed /\ tickets[r].status = "APPROVED" => runs'[r] # <<>>
    BY <1>0, <2>1 DEF NoPhantomRun
  <2>5. Ticketed' = Ticketed
    BY <1>9 DEF Ticketed
  <2> HIDE DEF r
  <2> QED
    BY <1>0, <1>9, <2>1, <2>3, <2>4, <2>5, PhantomKept
<1>10. UNCHANGED <<records, tickets>> => NoPhantomRun'
  BY <1>0 DEF NoPhantomRun, Recorded, Ticketed
<1>11. CASE CreateTicket(p)
  BY <1>1, <1>5, <1>7, <1>10, <1>11 DEF CreateTicket, RunInv
<1>12. CASE UpdateAudit(p)
  BY <1>1, <1>5, <1>8, <1>10, <1>12 DEF UpdateAudit, RunInv
<1>13. CASE Notify(p)
  BY <1>1, <1>6, <1>10, <1>13 DEF Notify, RunInv
<1>14. CASE Fallback(p)
  BY <1>1, <1>6, <1>9, <1>10, <1>14 DEF Fallback, RunInv
<1>15. CASE JobFails(p)
  BY <1>1, <1>5, <1>6, <1>7, <1>8, <1>10, <1>15 DEF JobFails, RunInv
<1>16. CASE NotifyFails(p)
  BY <1>1, <1>5, <1>10, <1>16 DEF NotifyFails, RunInv
<1>17. CASE JobLost(p)
  BY <1>0, <1>1, <1>10, <1>17 DEF JobLost, RunInv, CarriedRuns
<1> QED
  BY <1>2, <1>3, <1>4, <1>11, <1>12, <1>13, <1>14, <1>15, <1>16, <1>17 DEF WorkerStep, WorkerFault

\* A reviewer's step approves nothing without a run.
LEMMA ReviewRuns ==
  ASSUME TypeInv, RunInv, NEW v \in Reviewers,
         OpenTicket(v) \/ ReviewStep(v) \/ ReviewFails(v), [Next]_vars
  PROVE  RunInv'
<1> DEFINE r == review[v].req
<1>0. /\ TypeOK /\ CarriedRuns /\ ChosenRuns /\ NoPhantomRun
      /\ \A q \in Requests : runs[q] # <<>> => runs'[q] # <<>>
      /\ \A u \in Reviewers : review[u].pc # "idle" => review[u].req \in Requests
  BY RunsGrow, HeldTypes DEF TypeInv, RunInv, Decision
<1>1. CarriedRuns'
  <2>1. UNCHANGED worker /\ \A p \in Pods : worker[p].pc # "idle" => worker[p].req \in Requests
    BY <1>0, HeldTypes DEF Job, OpenTicket, ReviewStep, UpdateTicket, UpdateOutcome,
       ReviewFails, reviewUnchanged
  <2> QED
    BY <1>0, <2>1 DEF CarriedRuns
<1>2. CASE OpenTicket(v)
  <2>1. PICK q \in Requests, choice \in {"APPROVE", "REJECT"} :
          /\ MayDecide(q)
          /\ review'[v] = [pc |-> "ticket", req |-> q, choice |-> choice]
          /\ \A u \in Reviewers \ {v} : review'[u] = review[u]
          /\ runs'[q] = IF choice = "APPROVE" THEN Append(runs[q], records[q].parsed)
                                              ELSE runs[q]
    BY <1>0, <1>2, OpenTicketProperties
  <2>2. records[q].parsed \in Forms /\ runs[q] \in Seq(Forms)
    BY <1>0, <2>1 DEF MayDecide, TypeOK, Record
  <2>3. choice = "APPROVE" => runs'[q] # <<>>
    BY <2>1, <2>2, AppendNotEmpty
  <2>4. ChosenRuns'
    <3> SUFFICES ASSUME NEW u \in Reviewers, review'[u].pc # "idle",
                        review'[u].choice = "APPROVE"
                 PROVE  runs'[review'[u].req] # <<>>
      BY DEF ChosenRuns
    <3>1. CASE u = v
      <4>1. review'[u].req = q /\ review'[u].choice = choice
        BY <2>1, <3>1
      <4> QED
        BY <2>3, <4>1
    <3>2. CASE u # v
      BY <1>0, <2>1, <3>2 DEF ChosenRuns
    <3> QED
      BY <3>1, <3>2
  <2>5. NoPhantomRun'
    BY <1>0, <1>2 DEF OpenTicket, NoPhantomRun, Recorded, Ticketed
  <2> QED
    BY <1>1, <2>4, <2>5 DEF RunInv
<1>3. ASSUME review[v].pc # "idle", r \in Ticketed, StoreTicket(v), UNCHANGED records
      PROVE  NoPhantomRun'
  <2>1. /\ Ticketed' = Ticketed
        /\ tickets'[r].status = IF review[v].choice = "APPROVE" THEN "APPROVED" ELSE "REJECTED"
        /\ \A q \in Ticketed \ {r} : tickets'[q] = tickets[q]
    BY <1>0, <1>3, StoreTicketProperties
  <2>2. r \in Requests /\ (review[v].choice = "APPROVE" => runs'[r] # <<>>)
    BY <1>0, <1>3 DEF ChosenRuns
  <2>3. tickets'[r].status = "APPROVED" => runs'[r] # <<>>
    BY <2>1, <2>2
  <2>4. r \in Recorded /\ (records[r].verdict = "APPROVE" \/ records[r].exec = "done")
          => runs'[r] # <<>>
    BY <1>0, <2>2 DEF NoPhantomRun
  <2>5. Recorded' = Recorded
    BY <1>3 DEF Recorded
  <2> HIDE DEF r
  <2> QED
    BY <1>0, <1>3, <2>1, <2>2, <2>3, <2>4, <2>5, PhantomKept
<1>4. ASSUME review[v].pc # "idle", r \in Recorded, StoreOutcome(v), UNCHANGED tickets
      PROVE  NoPhantomRun'
  <2>1. /\ Recorded' = Recorded
        /\ records'[r] =
             [verdict |-> IF review[v].choice = "APPROVE" THEN "APPROVE" ELSE "BLOCK",
              by |-> "reviewer",
              exec |-> IF review[v].choice = "APPROVE" THEN "done" ELSE "refused",
              parsed |-> records[r].parsed]
        /\ \A q \in Recorded \ {r} : records'[q] = records[q]
    BY <1>0, <1>4, StoreOutcomeProperties
  <2>2. r \in Requests /\ (review[v].choice = "APPROVE" => runs'[r] # <<>>)
    BY <1>0, <1>4 DEF ChosenRuns
  <2>3. records'[r].verdict = "APPROVE" \/ records'[r].exec = "done" => runs'[r] # <<>>
    BY <2>1, <2>2
  <2>4. r \in Ticketed /\ tickets[r].status = "APPROVED" => runs'[r] # <<>>
    BY <1>0, <2>2 DEF NoPhantomRun
  <2>5. Ticketed' = Ticketed
    BY <1>4 DEF Ticketed
  <2> HIDE DEF r
  <2> QED
    BY <1>0, <1>4, <2>1, <2>2, <2>3, <2>4, <2>5, PhantomKept
<1>5. UNCHANGED <<records, tickets>> => NoPhantomRun'
  BY <1>0 DEF NoPhantomRun, Recorded, Ticketed
<1>6. review[v].pc # "idle" /\ EndReview(v) => ChosenRuns'
  BY <1>0, DecisionProperties DEF ChosenRuns
<1>7. CASE UpdateTicket(v)
  <2>1. review' = [review EXCEPT ![v].pc = "audit"] => ChosenRuns'
    BY <1>0, <1>7, DecisionProperties DEF ChosenRuns, UpdateTicket
  <2> QED
    BY <1>1, <1>3, <1>5, <1>6, <1>7, <2>1 DEF UpdateTicket, RunInv
<1>8. CASE UpdateOutcome(v)
  BY <1>1, <1>4, <1>5, <1>6, <1>8 DEF UpdateOutcome, RunInv
<1>9. CASE ReviewFails(v)
  BY <1>1, <1>3, <1>4, <1>5, <1>6, <1>9 DEF ReviewFails, RunInv
<1> QED
  BY <1>2, <1>7, <1>8, <1>9 DEF ReviewStep

\* A new record claims nothing, and a reset or a crash only takes claims away.
LEMMA OtherRuns ==
  ASSUME TypeInv, RunInv, [Next]_vars,
         \/ \E g \in Calls : GatewayStep(g) \/ GatewayFault(g)
         \/ \E p \in Pods : SetMode(p) \/ PurgeTickets(p) \/ PurgeRecords(p) \/ Crash(p)
         \/ UNCHANGED vars
  PROVE  RunInv'
<1>0. /\ TypeOK /\ CarriedRuns /\ ChosenRuns /\ NoPhantomRun
      /\ \A q \in Requests : runs[q] # <<>> => runs'[q] # <<>>
  BY RunsGrow DEF TypeInv, RunInv
<1>1. UNCHANGED runs
  BY DEF GatewayStep, GatewayFault, Intercept, PushJob, InterceptFails, PushFails,
     PushTwice, gatewayUnchanged, SetMode, PurgeTickets, PurgeRecords, Crash, vars
<1>2. ASSUME NEW g \in Calls, GatewayStep(g) \/ GatewayFault(g)
      PROVE  RunInv'
  <2>1. UNCHANGED <<tickets, worker, review>>
    BY <1>2 DEF GatewayStep, GatewayFault, Intercept, PushJob, InterceptFails, PushFails,
       PushTwice, gatewayUnchanged
  <2>2. CASE UNCHANGED records
    BY <1>0, <1>1, <2>1, <2>2
       DEF RunInv, CarriedRuns, ChosenRuns, NoPhantomRun, Recorded, Ticketed
  <2>3. CASE ReqOf[g] \notin Recorded /\ records' = With(records, ReqOf[g], NewRecord)
    <3> DEFINE r == ReqOf[g]
    <3>1. r \in Requests
      BY SentinelAssumption
    <3>2. /\ Recorded' = Recorded \cup {r} /\ records'[r] = NewRecord
          /\ \A q \in Recorded \ {r} : records'[q] = records[q]
      BY <2>3 DEF With, Recorded
    <3>3. records'[r].verdict # "APPROVE" /\ records'[r].exec # "done"
      BY <3>2 DEF NewRecord
    <3>4. r \in Ticketed /\ tickets[r].status = "APPROVED" => runs'[r] # <<>>
      BY <1>0, <3>1 DEF NoPhantomRun
    <3>5. Ticketed' = Ticketed
      BY <2>1 DEF Ticketed
    <3> HIDE DEF r
    <3>6. NoPhantomRun'
      BY <1>0, <2>1, <3>1, <3>2, <3>3, <3>4, <3>5, PhantomKept
    <3> QED
      BY <1>0, <1>1, <2>1, <3>6 DEF RunInv, CarriedRuns, ChosenRuns
  <2> QED
    BY <1>2, <2>2, <2>3 DEF GatewayStep, GatewayFault, Intercept, PushJob, InterceptFails,
       PushFails, PushTwice
<1>3. ASSUME NEW p \in Pods, SetMode(p) \/ PurgeTickets(p) \/ PurgeRecords(p) \/ Crash(p)
      PROVE  RunInv'
  <2>1. CarriedRuns' /\ ChosenRuns'
    <3>1. /\ \A q \in Pods : worker'[q] = worker[q] \/ worker'[q].pc = "idle"
          /\ \A u \in Reviewers : review'[u] = review[u] \/ review'[u].pc = "idle"
      BY <1>0, <1>3 DEF SetMode, PurgeTickets, PurgeRecords, Crash, Waiting, NoDecision, TypeOK
    <3> QED
      BY <1>0, <1>1, <3>1 DEF CarriedRuns, ChosenRuns
  <2>2. NoPhantomRun'
    <3>1. /\ UNCHANGED records \/ Recorded' = {}
          /\ UNCHANGED tickets \/ Ticketed' = {}
      BY <1>3 DEF SetMode, PurgeTickets, PurgeRecords, Crash, Recorded, Ticketed
    <3> QED
      BY <1>0, <1>1, <3>1 DEF NoPhantomRun, Recorded, Ticketed
  <2> QED
    BY <2>1, <2>2 DEF RunInv
<1>4. CASE UNCHANGED vars
  BY <1>0, <1>4 DEF vars, RunInv, CarriedRuns, ChosenRuns, NoPhantomRun, Recorded, Ticketed
<1> QED
  BY <1>2, <1>3, <1>4

\* Whatever fails, crashes, repeats or is reset, an approval in the audit trail
\* or on a ticket has a run behind it: the tool runs before anybody writes that
\* it did.  It does not say that every run is recorded, or was approved.
THEOREM NoPhantomRunHolds == Spec => []NoPhantomRun
<1>1. Init => RunInv
  BY DEF Init, RunInv, CarriedRuns, ChosenRuns, NoPhantomRun, Recorded, Ticketed, Waiting,
     NoDecision
<1>2. TypeInv /\ RunInv /\ [Next]_vars => RunInv'
  BY WorkerRuns, ReviewRuns, OtherRuns DEF Next
<1>3. RunInv => NoPhantomRun
  BY DEF RunInv
<1> QED
  BY <1>1, <1>2, <1>3, TypeInit, TypeStep, PTL DEF Spec

-----------------------------------------------------------------------------
(* One bearer, for any number of pods and reviewers.                        *)

\* What fails loses something and nothing else: a command or an answer of Redis,
\* a webhook delivery, a process with its calls.
Lossy == FaultKinds \subseteq {"redis", "notify", "crash", "poll"}

\* Nothing fails but webhook deliveries (and the poll of a dashboard).
Reliable == FaultKinds \subseteq {"notify", "poll"}

-----------------------------------------------------------------------------
(* The inductive invariant.  OneBearer counts; what is inductive are the    *)
(* uniqueness of each kind of bearer and that no two kinds meet.  A client  *)
(* may post a request again, so that an unrecorded request has no bearer is *)
(* needed for a new record to be its only one.                              *)

Borne(r) == Pushing(r) \/ Queued(r) \/ Worked(r)

In(s, e) == \E i \in 1..Len(s) : s[i] = e
Once(s) == \A i, j \in 1..Len(s) : s[i] = s[j] => i = j

PushOnce == \A g, h \in Calls :
  gateway[g] = "push" /\ gateway[h] = "push" /\ ReqOf[g] = ReqOf[h] => g = h

WorkOnce == \A p, q \in Pods :
  worker[p].pc # "idle" /\ worker[q].pc # "idle" /\ worker[p].req = worker[q].req => p = q

OnePlace == \A r \in Requests :
  ~(Pushing(r) /\ Queued(r)) /\ ~(Pushing(r) /\ Worked(r)) /\ ~(Queued(r) /\ Worked(r))

BearerRecorded == \A r \in Requests : Borne(r) => r \in Recorded

\* A worker gives a request up only once its record has a verdict.
VerdictGiven == \A p \in Pods :
  /\ worker[p].pc \in {"count", "ticket", "update"} => worker[p].verdict # "PENDING"
  /\ worker[p].pc = "notify" => records[worker[p].req].verdict # "PENDING"

\* At most one bearer, even where a fault loses some.
AloneInv ==
  /\ resetting = {} /\ PushOnce /\ Once(queue) /\ WorkOnce /\ OnePlace
  /\ BearerRecorded /\ VerdictGiven

\* At least one, as long as nothing is lost.
PendingBorne == \A r \in Recorded : records[r].verdict = "PENDING" => Borne(r)

KeepsBearers == AloneInv' /\ (PendingBorne => PendingBorne')

-----------------------------------------------------------------------------
(* Queues *)

\* A queue is joined at its end, by an element that may join once.
LEMMA JoinProperties ==
  ASSUME NEW S, NEW s \in Seq(S), NEW e \in S
  PROVE  /\ \A d : In(Append(s, e), d) <=> In(s, d) \/ d = e
         /\ Once(s) /\ ~In(s, e) => Once(Append(s, e))
<1> DEFINE t == Append(s, e)
<1>1. /\ Len(s) \in Nat /\ Len(t) = Len(s) + 1 /\ t[Len(s) + 1] = e
      /\ \A i \in 1..Len(s) : t[i] = s[i]
  OBVIOUS
<1>2. /\ 1..Len(t) = 1..Len(s) \cup {Len(s) + 1} /\ Len(s) + 1 \notin 1..Len(s)
  BY <1>1
<1> HIDE DEF t
<1>3. ASSUME NEW d
      PROVE  In(t, d) <=> In(s, d) \/ d = e
  BY <1>1, <1>2 DEF In
<1>4. ASSUME Once(s), ~In(s, e)
      PROVE  Once(t)
  BY <1>1, <1>2, <1>4 DEF In, Once
<1> QED
  BY <1>3, <1>4 DEF t

\* A queue is left at its head.
LEMMA LeaveProperties ==
  ASSUME NEW S, NEW s \in Seq(S), s # <<>>
  PROVE  /\ In(s, Head(s)) /\ Head(s) \in S
         /\ \A d : In(s, d) => In(Tail(s), d) \/ d = Head(s)
         /\ \A d : In(Tail(s), d) => In(s, d)
         /\ Once(s) => Once(Tail(s)) /\ ~In(Tail(s), Head(s))
<1> DEFINE t == Tail(s)
           n == Len(s)
<1>1. /\ n \in Nat /\ n >= 1 /\ Len(t) = n - 1 /\ Head(s) = s[1]
      /\ \A i \in 1..(n - 1) : t[i] = s[i + 1] /\ i + 1 \in 1..n
  OBVIOUS
<1>2. /\ 1 \in 1..n /\ s[1] \in S
      /\ \A i \in 1..n : i = 1 \/ (i - 1 \in 1..(n - 1) /\ t[i - 1] = s[i])
  BY <1>1
<1> HIDE DEF t, n
<1>3. Len(s) = n
  BY DEF n
<1>4. In(s, Head(s)) /\ Head(s) \in S
  BY <1>1, <1>2, <1>3 DEF In
<1>5. ASSUME NEW d
      PROVE  (In(s, d) => In(t, d) \/ d = Head(s)) /\ (In(t, d) => In(s, d))
  BY <1>1, <1>2, <1>3 DEF In
<1>6. ASSUME Once(s)
      PROVE  Once(t) /\ ~In(t, Head(s))
  <2>1. Once(t)
    <3> SUFFICES ASSUME NEW i \in 1..Len(t), NEW j \in 1..Len(t), t[i] = t[j]
                 PROVE  i = j
      BY DEF Once
    <3>1. i + 1 \in 1..n /\ j + 1 \in 1..n /\ s[i + 1] = s[j + 1]
      BY <1>1
    <3> QED
      BY <1>1, <1>3, <1>6, <3>1 DEF Once
  <2>2. ~In(t, Head(s))
    <3> SUFFICES ASSUME NEW i \in 1..Len(t), t[i] = Head(s)
                 PROVE  FALSE
      BY DEF In
    <3>1. i + 1 \in 1..n /\ s[i + 1] = s[1] /\ 1 \in 1..n /\ i + 1 # 1
      BY <1>1, <1>2
    <3> QED
      BY <1>3, <1>6, <3>1 DEF Once
  <2> QED
    BY <2>1, <2>2
<1> QED
  BY <1>4, <1>5, <1>6 DEF t

-----------------------------------------------------------------------------
(* Steps *)

\* What may happen while faults only lose something.
LEMMA LossySteps ==
  ASSUME Lossy, resetting = {}, [Next]_vars
  PROVE  \/ \E g \in Calls : Intercept(g) \/ PushJob(g) \/ PushFails(g)
         \/ \E p \in Pods : WorkerStep(p) \/ NotifyFails(p) \/ JobLost(p)
         \/ \E v \in Reviewers : OpenTicket(v) \/ UpdateTicket(v) \/ UpdateOutcome(v)
         \/ \E p \in Pods : SetMode(p) \/ Crash(p)
         \/ UNCHANGED vars
  BY DEF Lossy, Next, Fault, GatewayStep, GatewayFault, InterceptFails, PushTwice,
     WorkerFault, JobFails, ReviewStep, ReviewFails, PurgeTickets, PurgeRecords

\* The requests in the hands of workers, when one worker's job goes on or ends.
LEMMA WorkedProperties ==
  ASSUME WorkOnce, NEW p \in Pods, worker[p].pc # "idle",
         \A q \in Pods \ {p} : worker'[q] = worker[q],
         worker'[p].pc = "idle" \/ worker'[p].req = worker[p].req
  PROVE  /\ WorkOnce'
         /\ worker'[p].pc # "idle" => \A r : Worked(r)' <=> Worked(r)
         /\ worker'[p].pc = "idle" => \A r : Worked(r)' <=> Worked(r) /\ r # worker[p].req
  BY DEF WorkOnce, Worked, Handling

\* A step that moves no request keeps its bearers.
LEMMA BearersKept ==
  ASSUME AloneInv, UNCHANGED <<queue, gateway, resetting>>, WorkOnce',
         \A r : Worked(r)' <=> Worked(r)
  PROVE  /\ resetting' = {} /\ PushOnce' /\ Once(queue)' /\ OnePlace'
         /\ \A r : Borne(r)' <=> Borne(r)
  BY DEF AloneInv, PushOnce, Once, OnePlace, Pushing, Queued, Borne

\* A worker's step on the request it holds moves no request, and leaves its
\* verdict with the worker or in the record.
LEMMA WorkerKeeps ==
  ASSUME TypeOK, AloneInv, NEW p \in Pods, worker[p].pc # "idle",
         UNCHANGED <<queue, gateway, resetting>>,
         \A q \in Pods \ {p} : worker'[q] = worker[q],
         worker'[p].pc # "idle", worker'[p].req = worker[p].req,
         worker'[p].pc \in {"count", "ticket", "update"} => worker'[p].verdict # "PENDING",
         worker'[p].pc = "notify" => records'[worker[p].req].verdict # "PENDING",
         Recorded' = Recorded,
         \A r \in Recorded \ {worker[p].req} : records'[r] = records[r]
  PROVE  KeepsBearers
<1> DEFINE r == worker[p].req
<1>1. WorkOnce' /\ \A q : Worked(q)' <=> Worked(q)
  BY WorkedProperties DEF AloneInv
<1>2. /\ resetting' = {} /\ PushOnce' /\ Once(queue)' /\ OnePlace'
      /\ \A q : Borne(q)' <=> Borne(q)
  BY <1>1, BearersKept
<1>3. r \in Requests /\ Borne(r)
  BY HeldTypes DEF Job, Borne, Worked, Handling
<1>4. BearerRecorded'
  BY <1>2 DEF AloneInv, BearerRecorded
<1>5. PendingBorne => PendingBorne'
  BY <1>2, <1>3 DEF PendingBorne
<1>6. VerdictGiven'
  <2> SUFFICES ASSUME NEW q \in Pods
               PROVE  /\ worker'[q].pc \in {"count", "ticket", "update"}
                           => worker'[q].verdict # "PENDING"
                      /\ worker'[q].pc = "notify" => records'[worker'[q].req].verdict # "PENDING"
    BY DEF VerdictGiven
  <2>1. CASE q = p
    BY <2>1
  <2>2. CASE q # p
    <3>1. worker'[q] = worker[q]
      BY <2>2
    <3>2. ASSUME worker[q].pc = "notify"
          PROVE  worker[q].req \in Recorded \ {r}
      <4>1. worker[q].req \in Requests /\ Borne(worker[q].req)
        BY <3>2, HeldTypes DEF Job, Borne, Worked, Handling
      <4>2. worker[q].req # r
        BY <2>2, <3>2 DEF AloneInv, WorkOnce
      <4> QED
        BY <4>1, <4>2 DEF AloneInv, BearerRecorded
    <3> QED
      BY <3>1, <3>2 DEF AloneInv, VerdictGiven
  <2> QED
    BY <2>1, <2>2
<1> QED
  BY <1>1, <1>2, <1>4, <1>5, <1>6 DEF AloneInv, KeepsBearers

\* A worker lets go of a request only when its record has a verdict.
LEMMA WorkerEnds ==
  ASSUME TypeOK, AloneInv, NEW p \in Pods, worker[p].pc # "idle",
         UNCHANGED <<queue, gateway, resetting>>, EndJob(p),
         Recorded' = Recorded,
         records'[worker[p].req].verdict # "PENDING",
         \A r \in Recorded \ {worker[p].req} : records'[r] = records[r]
  PROVE  KeepsBearers
<1> DEFINE r == worker[p].req
<1>0. worker'[p].pc = "idle" /\ \A q \in Pods \ {p} : worker'[q] = worker[q]
  BY EndJobProperties
<1>1. WorkOnce' /\ \A q : Worked(q)' <=> Worked(q) /\ q # r
  BY <1>0, WorkedProperties DEF AloneInv
<1>2. \A q : (Pushing(q)' <=> Pushing(q)) /\ (Queued(q)' <=> Queued(q))
  BY DEF Pushing, Queued
<1>3. resetting' = {} /\ PushOnce' /\ Once(queue)' /\ OnePlace' /\ BearerRecorded'
  BY <1>1, <1>2 DEF AloneInv, PushOnce, Once, OnePlace, BearerRecorded, Borne
<1>4. PendingBorne => PendingBorne'
  <2> SUFFICES ASSUME PendingBorne, NEW q \in Recorded, records'[q].verdict = "PENDING"
               PROVE  Borne(q)'
    BY DEF PendingBorne
  <2>1. q # r /\ records'[q] = records[q]
    OBVIOUS
  <2>2. Borne(q)
    BY <2>1 DEF PendingBorne
  <2> QED
    BY <1>1, <1>2, <2>1, <2>2 DEF Borne
<1>5. VerdictGiven'
  <2> SUFFICES ASSUME NEW q \in Pods, q # p
               PROVE  /\ worker[q].pc \in {"count", "ticket", "update"}
                           => worker[q].verdict # "PENDING"
                      /\ worker[q].pc = "notify" => records'[worker[q].req].verdict # "PENDING"
    BY <1>0 DEF VerdictGiven
  <2>1. ASSUME worker[q].pc = "notify"
        PROVE  worker[q].req \in Recorded \ {r}
    <3>1. worker[q].req \in Requests /\ Borne(worker[q].req)
      BY <2>1, HeldTypes DEF Job, Borne, Worked, Handling
    <3>2. worker[q].req # r
      BY <2>1 DEF AloneInv, WorkOnce
    <3> QED
      BY <3>1, <3>2 DEF AloneInv, BearerRecorded
  <2> QED
    BY <2>1 DEF AloneInv, VerdictGiven
<1> QED
  BY <1>1, <1>3, <1>4, <1>5 DEF AloneInv, KeepsBearers

\* addJob() hands a request to the queue, whether its answer arrives or not.
LEMMA JoinBears ==
  ASSUME TypeOK, AloneInv, NEW g \in Calls, gateway[g] = "push",
         NEW s \in GatewayStates \ {"push"}, gateway' = [gateway EXCEPT ![g] = s],
         queue' = Append(queue, ReqOf[g]), UNCHANGED <<records, worker, resetting>>
  PROVE  KeepsBearers
<1> DEFINE r == ReqOf[g]
<1>0. /\ r \in Requests /\ gateway \in [Calls -> GatewayStates] /\ queue \in Seq(Requests)
      /\ UNCHANGED <<records, worker, resetting>> /\ resetting = {}
      /\ PushOnce /\ Once(queue) /\ WorkOnce /\ OnePlace /\ BearerRecorded
      /\ VerdictGiven
  BY SentinelAssumption DEF TypeOK, AloneInv
<1>1. WorkOnce' /\ \A q : Worked(q)' <=> Worked(q)
  BY <1>0 DEF WorkOnce, Worked, Handling
<1>2. Pushing(r) /\ ~Queued(r) /\ ~Worked(r)
  BY <1>0 DEF Pushing, OnePlace
<1>3. \A q : In(queue, q) <=> Queued(q)
  BY DEF In, Queued
<1>4. (\A q : In(queue', q) <=> In(queue, q) \/ q = r) /\ Once(queue')
  BY <1>0, <1>2, <1>3, JoinProperties
<1>5. \A q : Queued(q)' <=> Queued(q) \/ q = r
  BY <1>3, <1>4 DEF In, Queued
<1>6. PushOnce' /\ \A q : Pushing(q)' <=> Pushing(q) /\ q # r
  BY <1>0 DEF PushOnce, Pushing
<1>7. OnePlace' /\ BearerRecorded' /\ (PendingBorne => PendingBorne') /\ VerdictGiven'
  BY <1>0, <1>1, <1>2, <1>5, <1>6
     DEF OnePlace, BearerRecorded, PendingBorne, VerdictGiven, Borne, Recorded
<1> QED
  BY <1>0, <1>1, <1>4, <1>6, <1>7 DEF AloneInv, KeepsBearers, Once

\* A new record's only bearer is the call that wrote it, and hands it to the
\* queue.
LEMMA GatewayBears ==
  ASSUME TypeOK, AloneInv, NEW g \in Calls, Intercept(g) \/ PushJob(g)
  PROVE  KeepsBearers
<1> DEFINE r == ReqOf[g]
<1>0. /\ r \in Requests /\ gateway \in [Calls -> GatewayStates] /\ queue \in Seq(Requests)
      /\ UNCHANGED <<worker, resetting>> /\ resetting = {}
      /\ PushOnce /\ Once(queue) /\ WorkOnce /\ OnePlace /\ BearerRecorded
      /\ VerdictGiven
  BY SentinelAssumption DEF TypeOK, AloneInv, Intercept, PushJob, gatewayUnchanged
<1>1. WorkOnce' /\ \A q : Worked(q)' <=> Worked(q)
  BY <1>0 DEF WorkOnce, Worked, Handling
<1>2. ASSUME NEW q \in Pods, worker[q].pc # "idle"
      PROVE  worker[q].req \in Recorded
  <2>1. worker[q].req \in Requests /\ Borne(worker[q].req)
    BY <1>2, HeldTypes DEF Job, Borne, Worked, Handling
  <2> QED
    BY <1>0, <2>1 DEF BearerRecorded
<1>3. CASE Intercept(g) /\ r \in Recorded
  <2>1. UNCHANGED <<records, queue>> /\ gateway[g] = "idle"
        /\ gateway' = [gateway EXCEPT ![g] = "blocked"]
    BY <1>3 DEF Intercept
  <2>2. /\ PushOnce' /\ Once(queue)' /\ \A q : Pushing(q)' <=> Pushing(q)
        /\ \A q : Queued(q)' <=> Queued(q)
    BY <1>0, <2>1 DEF PushOnce, Once, Pushing, Queued
  <2> QED
    BY <1>0, <1>1, <2>1, <2>2 DEF AloneInv, KeepsBearers, OnePlace, BearerRecorded,
       PendingBorne, VerdictGiven, Borne, Recorded
<1>4. CASE Intercept(g) /\ r \notin Recorded
  <2>1. /\ UNCHANGED queue /\ gateway[g] = "idle"
        /\ gateway' = [gateway EXCEPT ![g] = "push"]
        /\ records' = With(records, r, NewRecord)
    BY <1>4 DEF Intercept
  <2>2. /\ Recorded' = Recorded \cup {r}
        /\ \A q \in Recorded : records'[q] = records[q]
    BY <1>4, <2>1 DEF With, Recorded
  <2>3. ~Borne(r)
    BY <1>0, <1>4 DEF BearerRecorded
  <2>4. /\ \A q : Pushing(q)' <=> Pushing(q) \/ q = r
        /\ \A q : Queued(q)' <=> Queued(q)
    BY <1>0, <2>1 DEF Pushing, Queued
  <2>5. PushOnce'
    BY <1>0, <2>1, <2>3 DEF PushOnce, Pushing, Borne
  <2>6. OnePlace' /\ BearerRecorded' /\ (PendingBorne => PendingBorne')
    BY <1>0, <1>1, <2>2, <2>3, <2>4 DEF OnePlace, BearerRecorded, PendingBorne, Borne
  <2>7. VerdictGiven' /\ Once(queue)'
    BY <1>0, <1>2, <2>1, <2>2 DEF VerdictGiven, Once
  <2> QED
    BY <1>0, <1>1, <2>5, <2>6, <2>7 DEF AloneInv, KeepsBearers
<1>5. CASE PushJob(g)
  BY <1>5, JoinBears DEF PushJob, gatewayUnchanged, GatewayStates
<1> QED
  BY <1>3, <1>4, <1>5 DEF Intercept

\* A popped job leaves the queue and nobody else holds it.
LEMMA PopBears ==
  ASSUME TypeOK, AloneInv, NEW p \in Pods, PopJob(p)
  PROVE  KeepsBearers
<1> DEFINE r == Head(queue)
<1>0. /\ queue \in Seq(Requests) /\ queue # <<>> /\ queue' = Tail(queue)
      /\ UNCHANGED <<records, gateway, resetting>> /\ worker[p].pc = "idle"
      /\ PushOnce /\ Once(queue) /\ WorkOnce /\ OnePlace /\ BearerRecorded
      /\ VerdictGiven
  BY DEF TypeOK, AloneInv, PopJob, workerUnchanged
<1>1. /\ worker'[p] = [pc |-> "decide", req |-> r, verdict |-> "PENDING",
                       parsed |-> "raw", number |-> 0]
      /\ \A q \in Pods \ {p} : worker'[q] = worker[q]
  BY PopJobProperties
<1>2. worker'[p].pc = "decide" /\ worker'[p].req = r
  BY <1>1
<1>3. \A q : In(queue, q) <=> Queued(q)
  BY DEF In, Queued
<1>4. /\ r \in Requests /\ In(queue, r) /\ Once(queue') /\ ~In(queue', r)
      /\ \A q : In(queue, q) => In(queue', q) \/ q = r
      /\ \A q : In(queue', q) => In(queue, q)
  BY <1>0, LeaveProperties
<1>5. \A q : Queued(q)' <=> Queued(q) /\ q # r
  BY <1>3, <1>4 DEF In, Queued
<1>6. Queued(r) /\ ~Worked(r) /\ ~Pushing(r)
  BY <1>0, <1>3, <1>4 DEF OnePlace
<1> HIDE DEF r
<1>7. WorkOnce' /\ \A q : Worked(q)' <=> Worked(q) \/ q = r
  BY <1>0, <1>1, <1>2, <1>6 DEF WorkOnce, Worked, Handling
<1>8. PushOnce' /\ \A q : Pushing(q)' <=> Pushing(q)
  BY <1>0 DEF PushOnce, Pushing
<1>9. OnePlace' /\ BearerRecorded' /\ (PendingBorne => PendingBorne')
  BY <1>0, <1>5, <1>6, <1>7, <1>8 DEF OnePlace, BearerRecorded, PendingBorne, Borne, Recorded
<1>10. VerdictGiven'
  BY <1>0, <1>1, <1>2 DEF VerdictGiven
<1> QED
  BY <1>0, <1>4, <1>7, <1>8, <1>9, <1>10 DEF AloneInv, KeepsBearers, Once

\* The later steps of a worker, a failing webhook delivery among them.
LEMMA WorkerBears ==
  ASSUME TypeInv, AloneInv, NEW p \in Pods, WorkerStep(p) \/ NotifyFails(p)
  PROVE  KeepsBearers
<1> DEFINE r == worker[p].req
<1>0. /\ TypeOK /\ IsFiniteSet(Ticketed) /\ VerdictGiven /\ BearerRecorded
      /\ worker[p].pc # "idle" => worker[p] \in Job /\ r \in Requests /\ r \in Recorded
  BY HeldTypes DEF TypeInv, AloneInv, BearerRecorded, Borne, Worked, Handling, Job
<1>1. CASE PopJob(p)
  BY <1>0, <1>1, PopBears
<1>2. CASE Decide(p)
  <2>1. PICK ruling \in Rulings(r) :
          LET verdict == Effective(p, ruling.verdict) IN
          /\ verdict \in Verdicts
          /\ worker'[p].pc = (IF verdict = "ESCALATE" THEN "count" ELSE "update")
          /\ worker'[p].req = r /\ worker'[p].verdict = verdict
          /\ \A q \in Pods \ {p} : worker'[q] = worker[q]
    BY <1>0, <1>2, DecideProperties
  <2>2. /\ worker[p].pc # "idle" /\ UNCHANGED <<queue, gateway, resetting, records>>
        /\ Recorded' = Recorded
    BY <1>2 DEF Decide, workerUnchanged, Recorded
  <2>3. worker'[p].pc \in {"count", "update"} /\ worker'[p].verdict # "PENDING"
    BY <2>1 DEF Verdicts
  <2> QED
    BY <1>0, <2>1, <2>2, <2>3, WorkerKeeps
<1>3. CASE CountTickets(p)
  <2>1. /\ worker'[p].pc = "ticket" /\ worker'[p].req = r
        /\ worker'[p].verdict = worker[p].verdict
        /\ \A q \in Pods \ {p} : worker'[q] = worker[q]
    BY <1>0, <1>3, CountProperties, NextNumberType
  <2>2. /\ worker[p].pc = "count" /\ UNCHANGED <<queue, gateway, resetting, records>>
        /\ Recorded' = Recorded
    BY <1>3 DEF CountTickets, workerUnchanged, Recorded
  <2>3. worker'[p].verdict # "PENDING"
    BY <1>0, <2>1, <2>2 DEF VerdictGiven
  <2> QED
    BY <1>0, <2>1, <2>2, <2>3, WorkerKeeps
<1>4. ASSUME NEW pc \in {"update", "notify", "fallback"}, worker[p].pc # "idle", Proceed(p, pc),
             UNCHANGED <<queue, gateway, resetting>>, Recorded' = Recorded,
             pc = "update" => worker[p].verdict # "PENDING",
             pc = "notify" => records'[r].verdict # "PENDING",
             \A q \in Recorded \ {r} : records'[q] = records[q]
      PROVE  KeepsBearers
  <2>1. /\ worker'[p].pc = pc /\ worker'[p].req = r /\ worker'[p].verdict = worker[p].verdict
        /\ \A q \in Pods \ {p} : worker'[q] = worker[q]
    BY <1>0, <1>4, ProceedProperties DEF WorkerStates
  <2> QED
    BY <1>0, <1>4, <2>1, WorkerKeeps
<1>5. CASE CreateTicket(p)
  <2>1. /\ worker[p].pc = "ticket" /\ UNCHANGED <<queue, gateway, resetting, records>>
        /\ Recorded' = Recorded /\ (Proceed(p, "update") \/ Proceed(p, "fallback"))
    BY <1>5 DEF CreateTicket, workerUnchanged, Recorded
  <2>2. worker[p].verdict # "PENDING"
    BY <1>0, <2>1 DEF VerdictGiven
  <2> QED
    BY <1>4, <2>1, <2>2
<1>6. CASE UpdateAudit(p)
  <2>1. /\ worker[p].pc = "update" /\ UNCHANGED <<queue, gateway, resetting>>
        /\ StoreVerdict(p) /\ Proceed(p, "notify")
    BY <1>0, <1>6 DEF UpdateAudit, workerUnchanged
  <2>2. /\ Recorded' = Recorded /\ records'[r].verdict = worker[p].verdict
        /\ \A q \in Recorded \ {r} : records'[q] = records[q]
    BY <1>0, <2>1 DEF StoreVerdict, Amend, TypeOK, Recorded
  <2>3. worker[p].verdict # "PENDING"
    BY <1>0, <2>1 DEF VerdictGiven
  <2> QED
    BY <1>4, <2>1, <2>2, <2>3
<1>7. CASE Notify(p)
  <2>1. /\ worker[p].pc = "notify" /\ UNCHANGED <<queue, gateway, resetting, records>>
        /\ EndJob(p) /\ Recorded' = Recorded
    BY <1>7 DEF Notify, workerUnchanged, Recorded
  <2>2. records'[r].verdict # "PENDING"
    BY <1>0, <2>1 DEF VerdictGiven
  <2> QED
    BY <1>0, <2>1, <2>2, WorkerEnds
<1>8. CASE Fallback(p)
  <2>1. /\ worker[p].pc = "fallback" /\ UNCHANGED <<queue, gateway, resetting>>
        /\ EndJob(p) /\ StoreFallback(p)
    BY <1>0, <1>8 DEF Fallback, workerUnchanged
  <2>2. /\ Recorded' = Recorded /\ records'[r].verdict = "BLOCK"
        /\ \A q \in Recorded \ {r} : records'[q] = records[q]
    BY <1>0, <2>1 DEF StoreFallback, Amend, TypeOK, Recorded
  <2> QED
    BY <1>0, <2>1, <2>2, WorkerEnds
<1>9. CASE NotifyFails(p)
  <2>1. /\ worker[p].pc = "notify" /\ UNCHANGED <<queue, gateway, resetting, records>>
        /\ Proceed(p, "fallback") /\ Recorded' = Recorded
    BY <1>9 DEF NotifyFails, workerUnchanged, Recorded
  <2> QED
    BY <1>4, <2>1
<1> QED
  BY <1>1, <1>2, <1>3, <1>5, <1>6, <1>7, <1>8, <1>9 DEF WorkerStep

\* Reviewers and administrators move no request and never make one pending.
LEMMA OthersBear ==
  ASSUME TypeOK, AloneInv,
         \/ \E v \in Reviewers : OpenTicket(v) \/ UpdateTicket(v) \/ UpdateOutcome(v)
         \/ \E p \in Pods : SetMode(p)
         \/ UNCHANGED vars
  PROVE  KeepsBearers
<1>1. UNCHANGED <<queue, gateway, resetting, worker>>
  BY DEF OpenTicket, UpdateTicket, UpdateOutcome, reviewUnchanged, SetMode, vars
<1>2. WorkOnce' /\ \A q : Worked(q)' <=> Worked(q)
  BY <1>1 DEF AloneInv, WorkOnce, Worked, Handling
<1>3. /\ resetting' = {} /\ PushOnce' /\ Once(queue)' /\ OnePlace'
      /\ \A q : Borne(q)' <=> Borne(q)
  BY <1>1, <1>2, BearersKept
<1>4. /\ Recorded' = Recorded
      /\ \A q \in Recorded : records'[q] = records[q] \/ records'[q].verdict # "PENDING"
  <2>1. CASE UNCHANGED records
    BY <2>1 DEF Recorded
  <2>2. ASSUME NEW v \in Reviewers, UpdateOutcome(v), review[v].req \in Recorded
        PROVE  /\ Recorded' = Recorded
               /\ \A q \in Recorded : records'[q] = records[q] \/ records'[q].verdict # "PENDING"
    <3> DEFINE r == review[v].req
    <3>1. /\ Recorded' = Recorded
          /\ records'[r] =
               [verdict |-> IF review[v].choice = "APPROVE" THEN "APPROVE" ELSE "BLOCK",
                by |-> "reviewer",
                exec |-> IF review[v].choice = "APPROVE" THEN "done" ELSE "refused",
                parsed |-> records[r].parsed]
          /\ \A q \in Recorded \ {r} : records'[q] = records[q]
      BY <2>2, StoreOutcomeProperties DEF UpdateOutcome
    <3>2. records'[r].verdict # "PENDING"
      BY <3>1
    <3> QED
      BY <3>1, <3>2
  <2> QED
    BY <2>1, <2>2 DEF OpenTicket, UpdateTicket, UpdateOutcome, SetMode, vars
<1>5. BearerRecorded' /\ (PendingBorne => PendingBorne')
  BY <1>3, <1>4 DEF AloneInv, BearerRecorded, PendingBorne
<1>6. VerdictGiven'
  <2>1. ASSUME NEW q \in Pods, worker[q].pc = "notify"
        PROVE  worker[q].req \in Recorded
    <3>1. worker[q].req \in Requests /\ Borne(worker[q].req)
      BY <2>1, HeldTypes DEF Job, Borne, Worked, Handling
    <3> QED
      BY <3>1 DEF AloneInv, BearerRecorded
  <2> QED
    BY <1>1, <1>4, <2>1 DEF AloneInv, VerdictGiven
<1> QED
  BY <1>2, <1>3, <1>5, <1>6 DEF AloneInv, KeepsBearers

\* A request that is lost, with a job, a call or a worker, leaves the others alone.
LEMMA LossBears ==
  ASSUME TypeOK, AloneInv, UNCHANGED records, resetting' = {},
         queue' = queue \/ (queue # <<>> /\ queue' = Tail(queue)),
         \A g \in Calls : gateway'[g] = "push" => gateway[g] = "push",
         \A p \in Pods : worker'[p] = worker[p] \/ worker'[p].pc = "idle"
  PROVE  AloneInv'
<1>0. /\ PushOnce /\ Once(queue) /\ WorkOnce /\ OnePlace /\ BearerRecorded /\ VerdictGiven
      /\ queue \in Seq(Requests) /\ Recorded' = Recorded
  BY DEF TypeOK, AloneInv, Recorded
<1>1. Once(queue') /\ \A q : In(queue', q) => In(queue, q)
  BY <1>0, LeaveProperties
<1>2. \A q : /\ Pushing(q)' => Pushing(q)
             /\ Queued(q)' => Queued(q)
             /\ Worked(q)' => Worked(q)
  BY <1>1 DEF Pushing, Queued, In, Worked, Handling
<1>3. PushOnce' /\ WorkOnce' /\ VerdictGiven'
  BY <1>0 DEF PushOnce, WorkOnce, VerdictGiven
<1>4. OnePlace' /\ BearerRecorded'
  BY <1>0, <1>2 DEF OnePlace, BearerRecorded, Borne
<1> QED
  BY <1>1, <1>3, <1>4 DEF AloneInv, Once

-----------------------------------------------------------------------------
(* One bearer *)

BearerInv == AloneInv /\ PendingBorne

\* At most one element is counted as at most one, some element as one.
LEMMA CountOne ==
  ASSUME NEW S, \A x, y \in S : x = y
  PROVE  Cardinality(S) = IF S = {} THEN 0 ELSE 1
<1>1. CASE S = {}
  BY <1>1, FS_EmptySet
<1>2. CASE S # {}
  <2>1. PICK x \in S : S = {x}
    BY <1>2
  <2> QED
    BY <1>2, <2>1, FS_Singleton
<1> QED
  BY <1>1, <1>2

\* The three counts of OneBearer say which kinds of bearer there are.
LEMMA BearersCounted ==
  ASSUME BearerInv, TypeOK
  PROVE  OneBearer
<1> SUFFICES ASSUME NEW r \in Recorded
             PROVE  LET bearers ==
                          Cardinality({g \in Calls : gateway[g] = "push" /\ ReqOf[g] = r})
                          + Cardinality({i \in 1..Len(queue) : queue[i] = r})
                          + Cardinality({p \in Pods : Handling(p, r)}) IN
                    bearers <= 1 /\ (records[r].verdict = "PENDING" => bearers = 1)
  BY DEF OneBearer
<1> DEFINE G == {g \in Calls : gateway[g] = "push" /\ ReqOf[g] = r}
           Q == {i \in 1..Len(queue) : queue[i] = r}
           W == {p \in Pods : Handling(p, r)}
<1>1. /\ (G # {} <=> Pushing(r)) /\ (Q # {} <=> Queued(r)) /\ (W # {} <=> Worked(r))
  BY DEF Pushing, Queued, Worked
<1>2. /\ \A x, y \in G : x = y
      /\ \A x, y \in Q : x = y
      /\ \A x, y \in W : x = y
  BY DEF BearerInv, AloneInv, PushOnce, Once, WorkOnce, Handling
<1> HIDE DEF G, Q, W
<1>3. /\ Cardinality(G) = IF Pushing(r) THEN 1 ELSE 0
      /\ Cardinality(Q) = IF Queued(r) THEN 1 ELSE 0
      /\ Cardinality(W) = IF Worked(r) THEN 1 ELSE 0
  BY <1>1, <1>2, CountOne
<1>4. r \in Requests
  BY DEF TypeOK
<1>5. /\ ~(Pushing(r) /\ Queued(r)) /\ ~(Pushing(r) /\ Worked(r)) /\ ~(Queued(r) /\ Worked(r))
      /\ records[r].verdict = "PENDING" => Pushing(r) \/ Queued(r) \/ Worked(r)
  BY <1>4 DEF BearerInv, AloneInv, OnePlace, PendingBorne, Borne
<1>6. /\ Cardinality(G) + Cardinality(Q) + Cardinality(W) <= 1
      /\ records[r].verdict = "PENDING" => Cardinality(G) + Cardinality(Q) + Cardinality(W) = 1
  BY <1>3, <1>5
<1> QED
  BY <1>6 DEF G, Q, W

\* The system starts without bearers.
LEMMA BearerInit ==
  ASSUME Init
  PROVE  BearerInv
  BY DEF Init, BearerInv, AloneInv, PushOnce, Once, WorkOnce, OnePlace, BearerRecorded, PendingBorne,
     VerdictGiven, Borne, Pushing, Queued, Worked, Handling, Recorded, Waiting

\* Whatever is lost, no request ever has two bearers.
LEMMA AloneStep ==
  ASSUME Lossy, TypeInv, AloneInv, [Next]_vars
  PROVE  AloneInv'
<1>0. TypeOK /\ resetting = {}
  BY DEF TypeInv, AloneInv
<1>1. ASSUME NEW g \in Calls, PushFails(g)
      PROVE  AloneInv'
  <2>1. /\ gateway[g] = "push" /\ gateway' = [gateway EXCEPT ![g] = "blocked"]
        /\ queue' = queue \/ queue' = Append(queue, ReqOf[g])
        /\ UNCHANGED <<records, worker, resetting>>
    BY <1>1 DEF PushFails, gatewayUnchanged
  <2>2. \A h \in Calls : gateway'[h] = "push" => gateway[h] = "push"
    BY <1>0, <2>1 DEF TypeOK
  <2> QED
    BY <1>0, <2>1, <2>2, JoinBears, LossBears DEF KeepsBearers, GatewayStates
<1>2. ASSUME NEW p \in Pods, JobLost(p)
      PROVE  AloneInv'
  BY <1>0, <1>2, LossBears DEF JobLost, workerUnchanged
<1>3. ASSUME NEW p \in Pods, Crash(p)
      PROVE  AloneInv'
  <2>1. /\ UNCHANGED <<records, queue>> /\ resetting' = {}
        /\ \A g \in Calls : gateway'[g] = "push" => gateway[g] = "push"
        /\ \A q \in Pods : worker'[q] = worker[q] \/ worker'[q].pc = "idle"
    BY <1>0, <1>3 DEF Crash, TypeOK, Waiting
  <2> QED
    BY <1>0, <2>1, LossBears
<1> QED
  BY <1>0, <1>1, <1>2, <1>3, LossySteps, GatewayBears, WorkerBears, OthersBear DEF KeepsBearers

\* And none loses its bearer while at most webhook deliveries fail.
LEMMA BearerStep ==
  ASSUME Reliable, TypeInv, BearerInv, [Next]_vars
  PROVE  BearerInv'
<1>1. Lossy /\ TypeOK /\ AloneInv /\ resetting = {}
  BY DEF Reliable, Lossy, TypeInv, BearerInv, AloneInv
<1>2. /\ ~(\E g \in Calls : PushFails(g))
      /\ ~(\E p \in Pods : JobLost(p) \/ Crash(p))
  BY DEF Reliable, PushFails, JobLost, Crash, Fault
<1>3. KeepsBearers
  BY <1>1, <1>2, LossySteps, GatewayBears, WorkerBears, OthersBear
<1> QED
  BY <1>3 DEF KeepsBearers, BearerInv

\* A request that is not decided has exactly one bearer, and none ever has two,
\* however often it is posted and for any number of pods and reviewers, while
\* at most webhook deliveries fail.
THEOREM OneBearerHolds ==
  ASSUME Reliable
  PROVE  Spec => []OneBearer
<1>1. TypeInv /\ BearerInv /\ [Next]_vars => BearerInv'
  BY BearerStep
<1>2. TypeInv /\ BearerInv => OneBearer
  BY BearersCounted DEF TypeInv
<1> QED
  BY <1>1, <1>2, TypeInit, TypeStep, BearerInit, PTL DEF Spec
=============================================================================
