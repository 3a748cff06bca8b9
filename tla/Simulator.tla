------------------------------ MODULE Simulator ------------------------------
(***************************************************************************)
(* The simulator of the dashboard, a client of Sentinel: it posts a        *)
(* request, and while the answer says PENDING asks for its status every    *)
(* 1.5 seconds, whether or not the last answer has come.                   *)
(***************************************************************************)
EXTENDS Sentinel

CONSTANTS
  Submissions,  \* the calls the tab makes, each with an id of its own
  Polls         \* bound: status requests of a submission in flight

ASSUME SimulatorAssumption == Submissions \subseteq Calls /\ "none" \notin Submissions

VARIABLES
  submitting,        \* the call whose answer the disabled button waits for
  simulationResult,  \* what the tab shows: of which call, and its status
  interval,          \* per submission: its interval: none yet, set, cleared, or broken by an error
  poll               \* per submission, what is in flight: asked, or an answer

tab == <<submitting, simulationResult, interval, poll>>
simulatorVars == <<vars, tab>>

Final == {"COMPLETED", "ESCALATED", "REJECTED"}
Show(g, status) == simulationResult' = [of |-> g, status |-> status]

\* handleSimulationSubmit(), until its POST is answered.
Submit(g) ==
  /\ submitting = "none" /\ gateway[g] = "idle"
  /\ submitting' = g
  /\ UNCHANGED <<vars, simulationResult, interval, poll>>

\* A 202 is polled for; a 500 is shown as it is.
Submitted(g) ==
  /\ submitting = g /\ gateway[g] \in {"accepted", "blocked", "lost"}
  /\ submitting' = "none"
  /\ IF gateway[g] = "accepted"
     THEN Show(g, "PENDING") /\ interval' = [interval EXCEPT ![g] = "set"]
     ELSE Show(g, "error") /\ UNCHANGED interval
  /\ UNCHANGED <<vars, poll>>

Tick(g) ==
  /\ interval[g] = "set"
  /\ \E i \in Polls : poll[g][i] = "free" /\ poll' = [poll EXCEPT ![g][i] = "asked"]
  /\ UNCHANGED <<vars, submitting, simulationResult, interval>>

\* getStatus(); a record that a reset removed is a 404.
Serve(g, i) ==
  /\ poll[g][i] = "asked"
  /\ poll' = [poll EXCEPT ![g][i] = IF ReqOf[g] \in Recorded THEN Status(ReqOf[g]) ELSE "error"]
  /\ UNCHANGED <<vars, submitting, simulationResult, interval>>

ServeFails(g, i) ==
  /\ poll[g][i] = "asked"
  /\ Fault("db")
  /\ poll' = [poll EXCEPT ![g][i] = "error"]
  /\ UNCHANGED <<records, tickets, queue, mode, runs, gateway, worker, review, resetting,
                 submitting, simulationResult, interval>>

Answer(g, i) == poll[g][i] \in Final \cup {"PENDING", "error"}

\* Variant: every status that comes is shown.
ReceiveAny(g, i) ==
  /\ Answer(g, i)
  /\ poll' = [poll EXCEPT ![g][i] = "free"]
  /\ IF poll[g][i] # "error"
     THEN /\ Show(g, poll[g][i])
          /\ interval' = IF poll[g][i] = "PENDING" THEN interval ELSE [interval EXCEPT ![g] = "cleared"]
     ELSE UNCHANGED <<simulationResult, interval>>
  /\ UNCHANGED <<vars, submitting>>

\* Variant: any answer ends the polling.
ReceiveFirst(g, i) ==
  /\ Answer(g, i)
  /\ poll' = [poll EXCEPT ![g][i] = "free"]
  /\ interval' = [interval EXCEPT ![g] = "cleared"]
  /\ IF poll[g][i] \in Final THEN Show(g, poll[g][i]) ELSE UNCHANGED simulationResult
  /\ UNCHANGED <<vars, submitting>>

\* Clearing the interval does not stop what is in flight.
Receive(g, i) ==
  /\ Answer(g, i)
  /\ poll' = [poll EXCEPT ![g][i] = "free"]
  /\ IF poll[g][i] \in Final
     THEN Show(g, poll[g][i]) /\ interval' = [interval EXCEPT ![g] = "cleared"]
     ELSE UNCHANGED <<simulationResult, interval>>
  /\ UNCHANGED <<vars, submitting>>

\* The request itself fails: polling ends.
PollFails(g, i) ==
  /\ poll[g][i] = "asked"
  /\ Fault("poll")
  /\ poll' = [poll EXCEPT ![g][i] = "free"]
  /\ interval' = [interval EXCEPT ![g] = "broken"]
  /\ UNCHANGED <<records, tickets, queue, mode, runs, gateway, worker, review, resetting,
                 submitting, simulationResult>>

-----------------------------------------------------------------------------
SimulatorInit ==
  /\ Init
  /\ submitting = "none"
  /\ simulationResult = [of |-> "none", status |-> "none"]
  /\ interval = [g \in Submissions |-> "none"]
  /\ poll = [g \in Submissions |-> [i \in Polls |-> "free"]]

\* The gateway sees a submission when the tab has made it.
Posted == \A g \in Submissions : gateway[g] = "idle" /\ gateway'[g] # "idle" => submitting = g

Polling(g, i) == Serve(g, i) \/ Receive(g, i)
SimulatorNext ==
  \/ \E g \in Submissions :
       \/ Submit(g) \/ Submitted(g) \/ Tick(g)
       \/ \E i \in Polls : Polling(g, i) \/ ServeFails(g, i) \/ PollFails(g, i)
  \/ Next /\ Posted /\ UNCHANGED tab

\* The tab stays open, its timer fires, and a status request is answered.
SimulatorSpec ==
  /\ SimulatorInit /\ [][SimulatorNext]_simulatorVars
  /\ \A g \in Calls : WF_vars(PushJob(g))
  /\ \A p \in Pods : WF_vars(WorkerStep(p))
  /\ \A v \in Reviewers : WF_vars(ReviewStep(v))
  /\ \A g \in Submissions :
       /\ WF_simulatorVars(Submitted(g)) /\ WF_simulatorVars(Tick(g))
       /\ \A i \in Polls : WF_simulatorVars(Polling(g, i))

-----------------------------------------------------------------------------
(* Properties *)

\* The tab says COMPLETED only of a request whose tool has run, whatever
\* failed and in whatever order the answers came.
CompletedHasRun ==
  simulationResult.status = "COMPLETED" => runs[ReqOf[simulationResult.of]] # <<>>

\* An accepted submission is polled "until the verdict is final (not PENDING)":
\* its verdict is shown, unless a status request failed to get through.
VerdictShown ==
  \A g \in Submissions : gateway[g] = "accepted" /\ interval[g] \in {"none", "set"} ~>
    \/ simulationResult.of = g /\ simulationResult.status \in Final
    \/ interval[g] = "broken"

\* A verdict that is shown never turns back to PENDING: answers that overtook
\* each other do no harm.
NeverPendingAgain ==
  [][\A g \in Submissions :
       simulationResult.of = g /\ simulationResult.status \in Final /\ simulationResult'.of = g
         => simulationResult'.status \in Final]_simulatorVars

=============================================================================
