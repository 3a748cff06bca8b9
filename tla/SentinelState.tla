---------------------------- MODULE SentinelState ----------------------------
(***************************************************************************)
(* The state the parts of the gateway share: the AuditRecord and           *)
(* ReviewTicket tables, the Redis job list, the execution mode, and the    *)
(* tool runs the outside world has seen.  The ledger's two operations are  *)
(* single steps here, as AuditLedger justifies for one process; a failing  *)
(* one may have been applied or not.                                       *)
(***************************************************************************)
EXTENDS Integers, Sequences, FiniteSets

CONSTANTS
  Requests,     \* request ids
  Calls,        \* POST /intercept calls; a client may repeat a request
  ReqOf,        \* the request id a call carries
  Reviewers,    \* concurrent POST /review/decide calls
  Pods,         \* API processes; each runs one queue worker
  PodOf,        \* the pod that serves a call or a reviewer
  Malformed,    \* the requests with parse errors
  Exempt,       \* the requests for a tool that requires no redaction
  Modes,        \* values an administrator gives execution_mode
  FaultKinds,   \* what may fail: "db", "redis", "resend", "notify", "crash", "reset", "poll"
  MaxFaults,    \* bound: faults in a behaviour
  EagerReview   \* whether a ticket may be decided before its verdict is stored

ASSUME SentinelAssumption ==
  /\ ReqOf \in [Calls -> Requests]
  /\ PodOf \in [Calls \cup Reviewers -> Pods]
  /\ Malformed \subseteq Requests
  /\ Exempt \subseteq Requests
  /\ Modes \subseteq {"ENFORCE", "OBSERVE"}
  /\ MaxFaults \in Nat
  /\ EagerReview \in BOOLEAN
  /\ FaultKinds \subseteq {"db", "redis", "resend", "notify", "crash", "reset", "poll"}

VARIABLES
  records,   \* AuditRecord rows by request id
  tickets,   \* ReviewTicket rows by request id
  queue,     \* job payloads in Redis, oldest first
  mode,      \* execution_mode in the configuration cache of each pod
  runs,      \* per request, how each tool run saw its parameters
  gateway,   \* per call, how far intercept() is or what it answered
  worker,    \* per pod, the job the worker loop processes
  review,    \* per reviewer, the decision submitDecision() processes
  resetting, \* the pods whose resetDatabase() is between its two deletions
  faults     \* faults so far

vars == <<records, tickets, queue, mode, runs, gateway, worker, review, resetting, faults>>

-----------------------------------------------------------------------------
(* Rows *)

Verdicts == {"APPROVE", "BLOCK", "ESCALATE"}

\* by: whose decision it is.  exec: null, a tool result, or "Rejected by
\* reviewer."  parsed: whether parsedRequest holds raw or redacted parameters.
Forms == {"raw", "redacted"}

Record == [verdict : Verdicts \cup {"PENDING"},
           by : {"gateway", "worker", "fallback", "reviewer"},
           exec : {"none", "done", "refused"},
           parsed : Forms]

Ticket == [status : {"PENDING", "APPROVED", "REJECTED"}, number : Nat]

Recorded == DOMAIN records
Ticketed == DOMAIN tickets

\* The table t with row v for request r, new or replaced.
With(t, r, v) == [q \in DOMAIN t \cup {r} |-> IF q = r THEN v ELSE t[q]]

\* updateRecordAndRecalculate: the decision and the execution result are
\* always overwritten, parsedRequest only when the caller passes it.
Amend(r, verdict, by, exec, parsed) ==
  records' = [records EXCEPT ![r] = [verdict |-> verdict, by |-> by,
                                     exec |-> exec, parsed |-> parsed]]

\* executor.execute(): the tool runs on the parameters it is given.
Run(r, parsed) == runs' = [runs EXCEPT ![r] = Append(@, parsed)]

Fault(kind) ==
  /\ kind \in FaultKinds
  /\ faults < MaxFaults
  /\ faults' = faults + 1

=============================================================================
