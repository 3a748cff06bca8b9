------------------------------- MODULE Gateway -------------------------------
(***************************************************************************)
(* GatewayController: intercept() records a request as PENDING, queues it  *)
(* and answers 202, or answers 500 with verdict BLOCK when a step fails;   *)
(* getStatus() reads the record for the polling client.                    *)
(***************************************************************************)
EXTENDS SentinelState

gatewayUnchanged == UNCHANGED <<tickets, mode, runs, worker, review, resetting>>

GatewayStates == {"idle", "push", "accepted", "blocked", "lost"}

NewRecord == [verdict |-> "PENDING", by |-> "gateway", exec |-> "none", parsed |-> "raw"]

\* Variant: the record is written over one of the same id.
InterceptAgain(g) ==
  /\ gateway[g] = "idle"
  /\ records' = With(records, ReqOf[g], NewRecord)
  /\ gateway' = [gateway EXCEPT ![g] = "push"]
  /\ UNCHANGED <<queue, faults>> /\ gatewayUnchanged

\* auditService.record() of the PENDING block.  requestId is unique: a client
\* that repeats a recorded id gets the 500.
Intercept(g) ==
  LET r == ReqOf[g] IN
  /\ gateway[g] = "idle"
  /\ \/ /\ r \in Recorded
        /\ gateway' = [gateway EXCEPT ![g] = "blocked"]
        /\ UNCHANGED records
     \/ /\ r \notin Recorded
        /\ records' = With(records, r, NewRecord)
        /\ gateway' = [gateway EXCEPT ![g] = "push"]
  /\ UNCHANGED <<queue, faults>> /\ gatewayUnchanged

\* Variant: the request is accepted and not queued.
PushNothing(g) ==
  /\ gateway[g] = "push"
  /\ gateway' = [gateway EXCEPT ![g] = "accepted"]
  /\ UNCHANGED <<records, queue, faults>> /\ gatewayUnchanged

\* addJob(), then 202 Accepted.
PushJob(g) ==
  /\ gateway[g] = "push"
  /\ queue' = Append(queue, ReqOf[g])
  /\ gateway' = [gateway EXCEPT ![g] = "accepted"]
  /\ UNCHANGED <<records, faults>> /\ gatewayUnchanged

\* record() throws, before or after the row is in the table.
InterceptFails(g) ==
  LET r == ReqOf[g] IN
  /\ gateway[g] = "idle" /\ r \notin Recorded
  /\ Fault("db")
  /\ \/ UNCHANGED records
     \/ records' = With(records, r, NewRecord)
  /\ gateway' = [gateway EXCEPT ![g] = "blocked"]
  /\ UNCHANGED queue /\ gatewayUnchanged

\* LPUSH fails for good, or is applied and its answer is lost.
PushFails(g) ==
  /\ gateway[g] = "push"
  /\ Fault("redis")
  /\ queue' \in {queue, Append(queue, ReqOf[g])}
  /\ gateway' = [gateway EXCEPT ![g] = "blocked"]
  /\ UNCHANGED records /\ gatewayUnchanged

\* The connection drops after LPUSH was applied and the client sends it again.
PushTwice(g) ==
  /\ gateway[g] = "push"
  /\ Fault("resend")
  /\ queue' = queue \o <<ReqOf[g], ReqOf[g]>>
  /\ gateway' = [gateway EXCEPT ![g] = "accepted"]
  /\ UNCHANGED records /\ gatewayUnchanged

GatewayStep(g) == Intercept(g) \/ PushJob(g)
GatewayFault(g) == InterceptFails(g) \/ PushFails(g) \/ PushTwice(g)

\* Variant: whatever is not ESCALATE is completed.
StatusUnblocked(r) ==
  CASE records[r].verdict = "PENDING"  -> "PENDING"
    [] records[r].verdict = "ESCALATE" -> "ESCALATED"
    [] OTHER                           -> "COMPLETED"

\* What getStatus() answers for a recorded request.
Status(r) ==
  CASE records[r].verdict = "PENDING"  -> "PENDING"
    [] records[r].verdict = "ESCALATE" -> "ESCALATED"
    [] records[r].verdict = "BLOCK"    -> "REJECTED"
    [] records[r].verdict = "APPROVE"  -> "COMPLETED"

=============================================================================
