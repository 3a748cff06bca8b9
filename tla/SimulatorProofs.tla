--------------------------- MODULE SimulatorProofs ----------------------------
(***************************************************************************)
(* What the tab shows, for every set of calls, processes, reviewers and    *)
(* status requests in flight, and whatever fails.                          *)
(***************************************************************************)
EXTENDS Simulator, SentinelProofs

-----------------------------------------------------------------------------
(* The inductive invariant.  What the tab shows comes from an answer that  *)
(* was computed some time ago, so the answers in flight must be backed by  *)
(* runs too.  And a submission whose answer was shown, or that was polled  *)
(* for, was answered: its POST is not about to be answered again.          *)

TabType ==
  /\ submitting \in Submissions \cup {"none"}
  /\ interval \in [Submissions -> {"none", "set", "cleared", "broken"}]
  /\ poll \in [Submissions -> [Polls -> Final \cup {"free", "asked", "PENDING", "error"}]]
  /\ simulationResult \in [of : Submissions \cup {"none"},
                           status : Final \cup {"none", "PENDING", "error"}]

AnswersBacked ==
  \A g \in Submissions, i \in Polls : poll[g][i] = "COMPLETED" => runs[ReqOf[g]] # <<>>

ShownBacked ==
  simulationResult.status = "COMPLETED" =>
    simulationResult.of \in Submissions /\ runs[ReqOf[simulationResult.of]] # <<>>

Past(g) ==
  simulationResult.of = g \/ interval[g] # "none" \/ \E i \in Polls : poll[g][i] # "free"

AnsweredOnce == \A g \in Submissions : Past(g) => gateway[g] # "idle" /\ submitting # g

TabInv == TabType /\ AnswersBacked /\ ShownBacked /\ AnsweredOnce

-----------------------------------------------------------------------------
(* Steps of the system under the tab *)

\* No step makes a call that began one that has not begun.
LEMMA CallsBegun ==
  ASSUME TypeInv, [Next]_vars
  PROVE  \A g \in Calls : gateway[g] # "idle" => gateway'[g] # "idle"
<1>1. gateway \in [Calls -> GatewayStates]
  BY DEF TypeInv, TypeOK
<1>2. ASSUME NEW g \in Calls, GatewayStep(g) \/ GatewayFault(g)
      PROVE  \E s \in GatewayStates \ {"idle"} : gateway' = [gateway EXCEPT ![g] = s]
  BY <1>2 DEF GatewayStep, GatewayFault, Intercept, PushJob, InterceptFails, PushFails,
     PushTwice, GatewayStates
<1>3. ASSUME NEW p \in Pods, Crash(p)
      PROVE  \A g \in Calls : gateway[g] # "idle" => gateway'[g] # "idle"
  BY <1>3 DEF Crash
<1>4. CASE UNCHANGED gateway
  BY <1>4
<1> QED
  BY <1>1, <1>2, <1>3, <1>4 DEF Next, vars, WorkerStep, WorkerFault, PopJob, Decide,
     CountTickets, CreateTicket, UpdateAudit, Notify, Fallback, JobFails, NotifyFails,
     JobLost, workerUnchanged, OpenTicket, ReviewStep, UpdateTicket, UpdateOutcome,
     ReviewFails, reviewUnchanged, SetMode, PurgeTickets, PurgeRecords

\* The tab's own steps change nothing of the system but its count of faults.
LEMMA TabSteps ==
  ASSUME TypeInv, NEW g \in Submissions,
         \/ Submit(g) \/ Submitted(g) \/ Tick(g)
         \/ \E i \in Polls : Polling(g, i) \/ ServeFails(g, i) \/ PollFails(g, i)
  PROVE  /\ UNCHANGED <<records, tickets, queue, mode, runs, gateway, worker, review, resetting>>
         /\ faults' \in 0..MaxFaults
<1>1. TypeOK
  BY DEF TypeInv
<1> QED
  BY <1>1, FaultType DEF TypeOK, Submit, Submitted, Tick, Polling, Serve, Receive, ServeFails,
     PollFails, vars

\* So they keep what is known of the system.
LEMMA SystemKept ==
  ASSUME TypeInv, RunInv, [SimulatorNext]_simulatorVars
  PROVE  TypeInv' /\ RunInv'
<1>1. CASE [Next]_vars
  BY <1>1, TypeStep, WorkerRuns, ReviewRuns, OtherRuns DEF Next
<1>2. CASE /\ UNCHANGED <<records, tickets, queue, mode, runs, gateway, worker, review, resetting>>
           /\ faults' \in 0..MaxFaults
  BY <1>2 DEF TypeInv, TypeOK, Recorded, Ticketed, RunInv, CarriedRuns, ChosenRuns,
     NoPhantomRun
<1> QED
  BY <1>1, <1>2, TabSteps DEF SimulatorNext, simulatorVars

-----------------------------------------------------------------------------
(* Steps of the tab *)

\* The answer a status request gets is backed: COMPLETED is read off an
\* approved record, and an approved record is of a run.
LEMMA ServeBacked ==
  ASSUME TypeInv, NoPhantomRun, NEW r \in Recorded
  PROVE  /\ Status(r) \in Final \cup {"PENDING"}
         /\ Status(r) = "COMPLETED" => runs[r] # <<>>
<1>1. r \in Requests /\ records[r].verdict \in Verdicts \cup {"PENDING"}
  BY DEF TypeInv, TypeOK, Record
<1> QED
  BY <1>1 DEF Status, Final, Verdicts, NoPhantomRun

\* A POST that is made or answered.
LEMMA SubmitInv ==
  ASSUME TabInv, NEW g \in Submissions, Submit(g) \/ Submitted(g)
  PROVE  TabInv'
<1>0. TabType /\ AnswersBacked /\ ShownBacked /\ AnsweredOnce /\ "none" \notin Submissions
  BY SimulatorAssumption DEF TabInv
<1>1. CASE Submit(g)
  <2>1. ~Past(g)
    BY <1>0, <1>1 DEF AnsweredOnce, Submit
  <2>2. UNCHANGED <<runs, gateway, simulationResult, interval, poll>> /\ submitting' = g
    BY <1>1 DEF Submit, vars
  <2> QED
    BY <1>0, <2>1, <2>2 DEF TabInv, TabType, AnswersBacked, ShownBacked, AnsweredOnce, Past
<1>2. CASE Submitted(g)
  <2>1. /\ UNCHANGED <<runs, gateway, poll>> /\ submitting = g /\ submitting' = "none"
        /\ gateway[g] # "idle"
    BY <1>2 DEF Submitted, vars
  <2>2. PICK status \in {"PENDING", "error"} :
          simulationResult' = [of |-> g, status |-> status]
    BY <1>2 DEF Submitted, Show
  <2>3. interval' = interval \/ interval' = [interval EXCEPT ![g] = "set"]
    BY <1>2 DEF Submitted
  <2>4. TabType'
    BY <1>0, <2>1, <2>2, <2>3 DEF TabType
  <2>5. AnswersBacked' /\ ShownBacked'
    BY <1>0, <2>1, <2>2 DEF AnswersBacked, ShownBacked
  <2>6. AnsweredOnce'
    <3> SUFFICES ASSUME NEW h \in Submissions, Past(h)'
                 PROVE  gateway'[h] # "idle" /\ submitting' # h
      BY DEF AnsweredOnce
    <3>1. CASE h = g
      BY <1>0, <2>1, <3>1
    <3>2. CASE h # g
      <4>1. Past(h)
        BY <1>0, <2>1, <2>2, <2>3, <3>2 DEF Past, TabType
      <4> QED
        BY <1>0, <2>1, <4>1 DEF AnsweredOnce
    <3> QED
      BY <3>1, <3>2
  <2> QED
    BY <2>4, <2>5, <2>6 DEF TabInv
<1> QED
  BY <1>1, <1>2

\* A status request that is sent, served, received or lost.
LEMMA PollInv ==
  ASSUME TypeInv, NoPhantomRun, TabInv, NEW g \in Submissions,
         \/ Tick(g)
         \/ \E i \in Polls : Polling(g, i) \/ ServeFails(g, i) \/ PollFails(g, i)
  PROVE  TabInv'
<1>0. TabType /\ AnswersBacked /\ ShownBacked /\ AnsweredOnce /\ "none" \notin Submissions
  BY SimulatorAssumption DEF TabInv
<1>1. UNCHANGED <<runs, gateway, submitting>>
  BY DEF Tick, Polling, Serve, Receive, ServeFails, PollFails, vars
<1>2. PICK i \in Polls, a \in Final \cup {"free", "asked", "PENDING", "error"} :
        /\ poll' = [poll EXCEPT ![g][i] = a]
        /\ a = "COMPLETED" => runs[ReqOf[g]] # <<>>
  <2>1. ASSUME NEW i \in Polls, Serve(g, i)
        PROVE  \E a \in Final \cup {"free", "asked", "PENDING", "error"} :
                 /\ poll' = [poll EXCEPT ![g][i] = a]
                 /\ a = "COMPLETED" => runs[ReqOf[g]] # <<>>
    <3>1. CASE ReqOf[g] \in Recorded
      BY <2>1, <3>1, ServeBacked DEF Serve
    <3>2. CASE ReqOf[g] \notin Recorded
      <4>1. poll' = [poll EXCEPT ![g][i] = "error"]
        BY <2>1, <3>2 DEF Serve
      <4> WITNESS "error" \in Final \cup {"free", "asked", "PENDING", "error"}
      <4> QED
        BY <4>1
    <3> QED
      BY <3>1, <3>2
  <2>2. ASSUME NEW i \in Polls, Receive(g, i) \/ ServeFails(g, i) \/ PollFails(g, i)
        PROVE  \E a \in {"free", "error"} : poll' = [poll EXCEPT ![g][i] = a]
    BY <2>2 DEF Receive, ServeFails, PollFails
  <2>3. ASSUME Tick(g)
        PROVE  \E i \in Polls : poll' = [poll EXCEPT ![g][i] = "asked"]
    BY <2>3 DEF Tick
  <2>4. ASSUME NEW i \in Polls, NEW a \in {"free", "error", "asked"},
               poll' = [poll EXCEPT ![g][i] = a]
        PROVE  \E j \in Polls, b \in Final \cup {"free", "asked", "PENDING", "error"} :
                 /\ poll' = [poll EXCEPT ![g][j] = b]
                 /\ b = "COMPLETED" => runs[ReqOf[g]] # <<>>
    BY <2>4
  <2>5. CASE Tick(g)
    BY <2>3, <2>4, <2>5
  <2>6. CASE \E i \in Polls : Polling(g, i) \/ ServeFails(g, i) \/ PollFails(g, i)
    BY <2>1, <2>2, <2>4, <2>6 DEF Polling
  <2> QED
    BY <2>5, <2>6
<1>3. interval[g] # "none" \/ \E j \in Polls : poll[g][j] # "free"
  BY <1>0 DEF TabType, Tick, Polling, Serve, Receive, ServeFails, PollFails, Answer, Final
<1>4. Past(g)
  BY <1>3 DEF Past
<1>5. interval' = interval \/ \E s \in {"cleared", "broken"} : interval' = [interval EXCEPT ![g] = s]
  BY DEF Tick, Polling, Serve, Receive, ServeFails, PollFails
<1>6. \/ UNCHANGED simulationResult
      \/ \E j \in Polls : /\ poll[g][j] \in Final
                          /\ simulationResult' = [of |-> g, status |-> poll[g][j]]
  BY DEF Tick, Polling, Serve, Receive, ServeFails, PollFails, Show, vars
<1>7. TabType'
  <2>1. poll' \in [Submissions -> [Polls -> Final \cup {"free", "asked", "PENDING", "error"}]]
    BY <1>0, <1>2 DEF TabType
  <2>2. simulationResult' \in [of : Submissions \cup {"none"},
                               status : Final \cup {"none", "PENDING", "error"}]
    BY <1>0, <1>6 DEF TabType
  <2> QED
    BY <1>0, <1>1, <1>5, <2>1, <2>2 DEF TabType
<1>8. AnswersBacked'
  BY <1>0, <1>1, <1>2 DEF AnswersBacked, TabType
<1>9. ShownBacked'
  BY <1>0, <1>1, <1>6 DEF AnswersBacked, ShownBacked, TabType
<1>10. AnsweredOnce'
  <2> SUFFICES ASSUME NEW h \in Submissions, Past(h)'
               PROVE  gateway'[h] # "idle" /\ submitting' # h
    BY DEF AnsweredOnce
  <2>1. Past(h)
    <3>1. CASE h = g
      BY <1>4, <3>1
    <3>2. CASE h # g
      <4>1. interval'[h] = interval[h] /\ poll'[h] = poll[h]
        BY <1>0, <1>2, <1>5, <3>2 DEF TabType
      <4>2. simulationResult'.of = h => simulationResult.of = h
        BY <1>6, <3>2
      <4> QED
        BY <4>1, <4>2 DEF Past
    <3> QED
      BY <3>1, <3>2
  <2> QED
    BY <1>0, <1>1, <2>1 DEF AnsweredOnce
<1> QED
  BY <1>7, <1>8, <1>9, <1>10 DEF TabInv

-----------------------------------------------------------------------------
(* The theorems *)

SimulatorInv == TypeInv /\ RunInv /\ TabInv

\* The invariant holds at the start.
LEMMA SimulatorInvInit == SimulatorInit => SimulatorInv
<1> SUFFICES ASSUME SimulatorInit PROVE SimulatorInv
  OBVIOUS
<1>1. TypeInv /\ RunInv
  BY TypeInit DEF SimulatorInit, Init, RunInv, CarriedRuns, ChosenRuns, NoPhantomRun,
     Recorded, Ticketed, Waiting, NoDecision
<1>2. TabInv
  BY SimulatorAssumption DEF SimulatorInit, TabInv, TabType, AnswersBacked, ShownBacked,
     AnsweredOnce, Past, Final
<1> QED
  BY <1>1, <1>2 DEF SimulatorInv

\* Every step keeps it.
LEMMA SimulatorInvStep == SimulatorInv /\ [SimulatorNext]_simulatorVars => SimulatorInv'
<1> SUFFICES ASSUME SimulatorInv, [SimulatorNext]_simulatorVars PROVE SimulatorInv'
  OBVIOUS
<1>0. TypeInv /\ RunInv /\ TabInv /\ NoPhantomRun /\ Submissions \subseteq Calls
  BY SimulatorAssumption DEF SimulatorInv, RunInv
<1>1. TypeInv' /\ RunInv'
  BY <1>0, SystemKept
<1>2. ASSUME [Next]_vars, UNCHANGED tab
      PROVE  TabInv'
  <2>1. /\ \A g \in Calls : gateway[g] # "idle" => gateway'[g] # "idle"
        /\ \A r \in Requests : runs[r] # <<>> => runs'[r] # <<>>
    BY <1>0, <1>2, CallsBegun, RunsGrow
  <2>2. \A g \in Submissions : ReqOf[g] \in Requests
    BY <1>0, SentinelAssumption
  <2> QED
    BY <1>0, <1>2, <2>1, <2>2 DEF tab, TabInv, TabType, AnswersBacked, ShownBacked,
       AnsweredOnce, Past
<1> QED
  BY <1>0, <1>1, <1>2, SubmitInv, PollInv DEF SimulatorInv, SimulatorNext, simulatorVars

\* The tab says COMPLETED only of a request whose tool has run, whatever
\* failed, crashed or was reset, and in whatever order the answers came.
THEOREM CompletedHasRunHolds == SimulatorSpec => []CompletedHasRun
<1>1. SimulatorInv => CompletedHasRun
  BY DEF SimulatorInv, TabInv, ShownBacked, CompletedHasRun
<1> QED
  BY <1>1, SimulatorInvInit, SimulatorInvStep, PTL DEF SimulatorSpec

\* A verdict that is shown never turns back to PENDING, however many status
\* requests overtake each other and whatever fails.
THEOREM NeverPendingAgainHolds == SimulatorSpec => NeverPendingAgain
<1>1. ASSUME SimulatorInv, [SimulatorNext]_simulatorVars, NEW g \in Submissions,
             simulationResult.of = g, simulationResult.status \in Final,
             simulationResult'.of = g
      PROVE  simulationResult'.status \in Final
  <2>1. ~Submitted(g)
    BY <1>1 DEF SimulatorInv, TabInv, AnsweredOnce, Past, Submitted
  <2>2. \A h \in Submissions \ {g} : ~Submitted(h)
    BY <1>1 DEF Submitted, Show
  <2>3. \A h \in Submissions : ~Submitted(h)
    BY <2>1, <2>2
  <2>4. UNCHANGED simulationResult \/ simulationResult'.status \in Final
    BY <1>1, <2>3 DEF SimulatorNext, simulatorVars, tab, Submit, Tick, Polling, Serve, Receive,
       ServeFails, PollFails, Show
  <2> QED
    BY <1>1, <2>4
<1>2. SimulatorInv /\ [SimulatorNext]_simulatorVars =>
        \A g \in Submissions :
          simulationResult.of = g /\ simulationResult.status \in Final /\ simulationResult'.of = g
            => simulationResult'.status \in Final
  BY <1>1
<1> QED
  BY <1>2, SimulatorInvInit, SimulatorInvStep, PTL DEF SimulatorSpec, NeverPendingAgain

=============================================================================
