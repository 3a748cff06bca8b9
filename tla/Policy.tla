------------------------------- MODULE Policy -------------------------------
(***************************************************************************)
(* How a request gets its verdict: parsing, the validation pipeline with   *)
(* its rules and security checks, and the decision, in the queue worker of *)
(* each process, while an administrator edits rules and thresholds and     *)
(* reviewers decide what was escalated.                                    *)
(*                                                                         *)
(* A step lasts from one await to the next.  evaluate() takes the rules as *)
(* they are when it starts, waits only for a count of approved calls, and  *)
(* decide() then looks failed checks up in the rules of that later moment. *)
(* The order of the rules only affects the wording of an answer, so they   *)
(* form a set.                                                             *)
(***************************************************************************)
EXTENDS SeedRules, FiniteSets, FiniteSetsExt

CONSTANTS
  Requests,    \* request ids
  Workers,     \* the queue workers, one per process
  Inputs,      \* per kind of request: its tool, params, whether it is malformed, its flaws
  NewRules,    \* the rules an administrator may create, by id
  Editable,    \* the rules an administrator edits
  Thresholds,  \* values given to risk_thresholds
  Clock,       \* server times, in minutes
  History,     \* approved calls per customer that the table may hold at startup
  MaxEdits,    \* bound: rule edits in a behaviour
  MaxErrors    \* bound: failing counts in a behaviour

RuleIds == SeedIds \cup DOMAIN NewRules
Book == [id \in RuleIds |-> IF id \in SeedIds THEN Seeds[id] ELSE NewRules[id]]
Actions == {"ALLOW", "BLOCK", "ESCALATE", "LOG"}
Customers == {i.params["customerId"] : i \in {j \in {Inputs[k] : k \in DOMAIN Inputs} :
                                                "customerId" \in DOMAIN j.params}}

Flaws == {"nesting", "array", "size", "injection"}

\* The parameters that are read as numbers.
Numbers == {"localTime", "contactAttemptsLast7Days", "monthlyIncome", "monthlyDebt"}

ASSUME PolicyAssumption ==
  /\ Editable \subseteq RuleIds
  /\ DOMAIN NewRules \cap SeedIds = {}
  /\ \A id \in DOMAIN NewRules : /\ {"type", "words", "action"} \subseteq DOMAIN NewRules[id]
                                /\ NewRules[id].action \in Actions
  /\ "none" \notin DOMAIN Inputs
  /\ \A k \in DOMAIN Inputs :
       /\ Inputs[k].flaws \subseteq Flaws
       /\ \A f \in Numbers \cap DOMAIN Inputs[k].params : Inputs[k].params[f] \in Nat
  /\ IsFiniteSet(Requests)
  /\ History \subseteq Nat
  /\ MaxEdits \in Nat /\ MaxErrors \in Nat
  /\ SeedThresholds \in Thresholds
  /\ \A t \in Thresholds : {t.escalate, t.block} \subseteq Nat

VARIABLES
  table,       \* the ids of the stored rules
  active,      \* the ids in rulesCache: the stored rules that are enabled
  action,      \* the action column of each rule
  thresholds,  \* risk_thresholds
  input,       \* per request, its kind, or "none" before it arrives
  answer,      \* per request, the stored decision and validation result
  job,         \* per worker, the request it validates
  edited,      \* which rules were ever edited, and in which column
  edits, errors,
  history      \* approved calls per customer at startup

vars == <<table, active, action, thresholds, input, answer, job, edited, edits, errors, history>>
admin == <<table, active, action, thresholds, edited, edits>>

-----------------------------------------------------------------------------
(* Parsing and validation *)

Unregistered(name) ==
  [name |-> name, riskLevel |-> "HIGH", requiresPiiRedaction |-> TRUE,
   requiresComplianceCheck |-> TRUE]

Parse(raw) ==
  LET known == raw.tool \in DOMAIN Tools
  IN [tool |-> IF known THEN Tools[raw.tool] ELSE Unregistered(raw.tool),
      params |-> Normalise(raw.params),
      parseErrors |-> raw.malformed \/ ~known,
      flaws |-> raw.flaws]

Request(r) == Parse(Inputs[input[r]])
Rule(id) == [Book[id] EXCEPT !.action = action[id]]

\* Nesting and array limits are failures without a check of their own.
SecurityChecks(req) == {<<"Security", f>> : f \in req.flaws \ {"nesting", "array"}}
SecurityRisk(req) == IF req.flaws = {} THEN 0
                     ELSE IF "size" \in req.flaws THEN 1000 ELSE 800

ComplianceRisk(severities) ==
  IF "CRITICAL" \in severities THEN 950
  ELSE IF "HIGH" \in severities THEN 750
  ELSE IF severities # {} THEN 400 ELSE 0

-----------------------------------------------------------------------------
(* The decision *)

ToolRisk(req) == IF req.tool.riskLevel = "CRITICAL" THEN 850
                 ELSE IF req.tool.riskLevel = "HIGH" THEN 700 ELSE 0

CostRisk(req) == IF Or(req, "amount", 0) > 5000 THEN 800 ELSE 0

\* Variant: a check without an active rule is ignored.
BlockingActive(failed) == \E c \in failed : c \in active /\ action[c] = "BLOCK"

\* A failed check whose rule is no longer active blocks, as one that never
\* was a rule does.
Blocking(failed) == \E c \in failed : c \notin active \/ action[c] = "BLOCK"
Escalating(failed) == \E c \in failed : c \in active /\ action[c] = "ESCALATE"

Verdict(req, failed, risk) ==
  LET score == Max({risk, ToolRisk(req), CostRisk(req)})
  IN IF Blocking(failed) THEN "BLOCK"
     ELSE IF Escalating(failed) THEN "ESCALATE"
     ELSE IF score >= thresholds.block THEN "BLOCK"
     ELSE IF score >= thresholds.escalate THEN "ESCALATE"
     ELSE "APPROVE"

-----------------------------------------------------------------------------
(* The worker *)

Idle == [stage |-> "idle"]
NoAnswer == [verdict |-> "NONE", by |-> "nobody", failed |-> {}, errors |-> {}]

Init ==
  /\ table = SeedIds /\ active = SeedIds
  /\ action = [id \in RuleIds |-> Book[id].action]
  /\ thresholds = SeedThresholds
  /\ input = [r \in Requests |-> "none"]
  /\ answer = [r \in Requests |-> NoAnswer]
  /\ job = [w \in Workers |-> Idle]
  /\ edited = {} /\ edits = 0 /\ errors = 0
  /\ history \in [Customers -> History]

\* decide(), then the worker awaits: the answer is stored later.
Decided(w, r, failed, errs, risk) ==
  job' = [job EXCEPT ![w] =
            [stage |-> "store", req |-> r, failed |-> failed, errors |-> errs,
             verdict |-> Verdict(Request(r), failed, risk)]]

\* The rest of validate() after the rules.
Concluded(w, r, failed, errs, severities) ==
  LET req == Request(r)
  IN Decided(w, r, failed \cup SecurityChecks(req), errs,
             Max({ComplianceRisk(severities), SecurityRisk(req)}))

\* A worker takes a request; a malformed one is decided at once, the others
\* wait for the redaction service.
Start(w) ==
  /\ job[w].stage = "idle"
  /\ \E r \in Requests, k \in DOMAIN Inputs :
       /\ input[r] = "none"
       /\ input' = [input EXCEPT ![r] = k]
       /\ job' = [job EXCEPT ![w] =
            IF Parse(Inputs[k]).parseErrors
            THEN [stage |-> "store", req |-> r, failed |-> {<<"Parse", "errors">>},
                  errors |-> {}, verdict |-> "BLOCK"]
            ELSE [stage |-> "evaluate", req |-> r]]
  /\ UNCHANGED <<admin, answer, errors, history>>

\* evaluate() up to its first count: a rule either counts or is settled here.
Evaluate(w) ==
  /\ job[w].stage = "evaluate"
  /\ \E now \in Clock :
       LET r == job[w].req
           req == Request(r)
           rules == IF req.tool.requiresComplianceCheck THEN active ELSE {}
           counting == {id \in rules : Counts(Rule(id), req)}
           failed == {id \in rules \ counting : ~Passes(Rule(id), req, now, Sanctions)}
           severities == {Severity(Rule(id)) : id \in failed}
       IN IF counting = {}
          THEN Concluded(w, r, failed, {}, severities)
          ELSE job' = [job EXCEPT ![w] =
                 [stage |-> "count", req |-> r, pending |-> counting, failed |-> failed,
                  errors |-> {}, severities |-> severities]]
  /\ UNCHANGED <<admin, input, answer, errors, history>>

\* Approved requests of the customer in the table; the verdict is stored
\* only after the decision.
Approved(customer) ==
  history[customer]
    + Cardinality({r \in Requests : /\ answer[r].verdict = "APPROVE"
                                    /\ Or(Request(r), "customerId", "") = customer})

\* The count for one rule comes back: ok is whether the rule let it pass.
\* The last one lets validate() finish and decide() run.
Counted(w, id, failed, errs, severities) ==
  LET left == job[w].pending \ {id}
  IN IF left = {}
     THEN Concluded(w, job[w].req, failed, errs, severities)
     ELSE job' = [job EXCEPT ![w] =
            [stage |-> "count", req |-> job[w].req, pending |-> left, failed |-> failed,
             errors |-> errs, severities |-> severities]]

Count(w) ==
  /\ job[w].stage = "count"
  /\ \E id \in job[w].pending :
       IF WithinLimit(Book[id], Approved(Request(job[w].req).params["customerId"]))
       THEN Counted(w, id, job[w].failed, job[w].errors, job[w].severities)
       ELSE Counted(w, id, job[w].failed \cup {id}, job[w].errors,
                    job[w].severities \cup {Severity(Rule(id))})
  /\ UNCHANGED <<admin, input, answer, errors, history>>

\* Variant: a failing count leaves no failure.
CountFailsOpen(w) ==
  /\ job[w].stage = "count"
  /\ errors < MaxErrors
  /\ errors' = errors + 1
  /\ \E id \in job[w].pending :
       Counted(w, id, job[w].failed, job[w].errors \cup {id}, job[w].severities)
  /\ UNCHANGED <<admin, input, answer, history>>

\* The count rejects: the check has status ERROR, which decide() does not
\* take for a failed one; its severity raises the risk.
CountFails(w) ==
  /\ job[w].stage = "count"
  /\ errors < MaxErrors
  /\ errors' = errors + 1
  /\ \E id \in job[w].pending :
       Counted(w, id, job[w].failed, job[w].errors \cup {id}, job[w].severities \cup {"HIGH"})
  /\ UNCHANGED <<admin, input, answer, history>>

\* The decision reaches the table and the worker is free.
Store(w) ==
  /\ job[w].stage = "store"
  /\ answer' = [answer EXCEPT ![job[w].req] =
                  [verdict |-> job[w].verdict, by |-> "engine",
                   failed |-> job[w].failed, errors |-> job[w].errors]]
  /\ job' = [job EXCEPT ![w] = Idle]
  /\ UNCHANGED <<admin, input, errors, history>>

-----------------------------------------------------------------------------
(* Reviewers and the administrator *)

\* Variant: the reviewer's word is stored as it is.
ReviewRejects(r) ==
  /\ answer[r].verdict = "ESCALATE"
  /\ \E v \in {"APPROVE", "REJECT"} :
       answer' = [answer EXCEPT ![r].verdict = v, ![r].by = "reviewer"]
  /\ UNCHANGED <<admin, input, job, errors, history>>

Review(r) ==
  /\ answer[r].verdict = "ESCALATE"
  /\ \E v \in {"APPROVE", "BLOCK"} :
       answer' = [answer EXCEPT ![r].verdict = v, ![r].by = "reviewer"]
  /\ UNCHANGED <<admin, input, job, errors, history>>

Edit == edits < MaxEdits /\ edits' = edits + 1

\* updateRule() with enabled: the cache keeps the enabled rules.
Toggle(id) ==
  /\ Edit
  /\ id \in table
  /\ active' = IF id \in active THEN active \ {id} ELSE active \cup {id}
  /\ edited' = edited \cup {<<id, "enabled">>}
  /\ UNCHANGED <<table, action, thresholds>>

\* updateRule() with action.
SetAction(id) ==
  /\ Edit
  /\ id \in table
  /\ \E a \in Actions \ {action[id]} : action' = [action EXCEPT ![id] = a]
  /\ edited' = edited \cup {<<id, "action">>}
  /\ UNCHANGED <<table, active, thresholds>>

CreateRule(id) ==
  /\ Edit
  /\ id \notin table
  /\ table' = table \cup {id} /\ active' = active \cup {id}
  /\ UNCHANGED <<action, thresholds, edited>>

SetThresholds ==
  /\ thresholds' \in Thresholds \ {thresholds}
  /\ UNCHANGED <<table, active, action, edited, edits>>

Administer ==
  /\ \/ \E id \in Editable : Toggle(id) \/ SetAction(id)
     \/ \E id \in DOMAIN NewRules : CreateRule(id)
     \/ SetThresholds
  /\ UNCHANGED <<input, answer, job, errors, history>>

Next ==
  \/ \E w \in Workers : Start(w) \/ Evaluate(w) \/ Count(w) \/ CountFails(w) \/ Store(w)
  \/ \E r \in Requests : Review(r)
  \/ Administer

Spec == Init /\ [][Next]_vars

-----------------------------------------------------------------------------
(* Properties *)

Checks == RuleIds \cup {<<"Parse", "errors">>}
          \cup {<<"Security", f>> : f \in {"size", "injection"}}

\* The shape of every variable: the cache holds stored rules only, and a job
\* carries what the stage it is in has established.
TypeOK ==
  /\ active \subseteq table /\ table \subseteq RuleIds
  /\ action \in [RuleIds -> Actions]
  /\ thresholds \in Thresholds
  /\ input \in [Requests -> DOMAIN Inputs \cup {"none"}]
  /\ \A r \in Requests :
       /\ answer[r].verdict \in {"NONE", "APPROVE", "BLOCK", "ESCALATE"}
       /\ answer[r].by \in {"nobody", "engine", "reviewer"}
       /\ answer[r].failed \subseteq Checks /\ answer[r].errors \subseteq RuleIds
  /\ \A w \in Workers :
       /\ job[w].stage \in {"idle", "evaluate", "count", "store"}
       /\ job[w].stage # "idle" => input[job[w].req] # "none"
       /\ job[w].stage = "count" => job[w].pending # {} /\ job[w].pending \subseteq RuleIds
       /\ job[w].stage = "store" => job[w].verdict \in {"APPROVE", "BLOCK", "ESCALATE"}
  /\ edited \subseteq RuleIds \X {"enabled", "action"}
  /\ edits \in 0..MaxEdits /\ errors \in 0..MaxErrors
  /\ history \in [Customers -> History]

Raw(r) == Inputs[input[r]]
Engine(r) == answer[r].by = "engine"

\* The engine never approves a call that failed a collections rule, or one
\* whose approved calls could not be counted, whatever an administrator does
\* to that rule between the check and the decision: the failure's severity
\* outlives the rule.  Holds for escalation thresholds up to 0.75.
HeldBack ==
  \A r \in Requests :
    Engine(r) /\ answer[r].verdict = "APPROVE" /\ Raw(r).tool = "dialer" =>
      \A c \in answer[r].failed \cup answer[r].errors :
        c \in RuleIds => ~Collections(Book[c])

\* A request that failed a blocking rule is blocked, also when the rule is
\* disabled, enabled or its sibling edited before decide() looks it up.
BlockedRegardless ==
  \A r \in Requests :
    /\ Engine(r)
    /\ \E c \in answer[r].failed :
         c \in RuleIds => Book[c].action = "BLOCK" /\ <<c, "action">> \notin edited
    => answer[r].verdict = "BLOCK"

\* Some seeded variant of the rule was never edited.
Standing(subject) ==
  \E id \in SeedIds : id[1] = subject /\ \A column \in {"enabled", "action"} :
                        <<id, column>> \notin edited

\* The three cases, read off the raw parameters.
Param(r, f, default) == Or(Raw(r), f, default)
OutsideHours(r) == /\ Raw(r).tool = "dialer"
                   /\ Param(r, "localTime", 720) \notin 480..1259
ManyAttempts(r) == /\ Raw(r).tool = "dialer" /\ "customerId" \in DOMAIN Raw(r).params
                   /\ Param(r, "contactAttemptsLast7Days", 0) > 7
Indebted(r) == /\ Raw(r).tool = "loan-underwriter"
               /\ "debt_to_income_ratio" \notin DOMAIN Raw(r).params
               /\ 100 * Param(r, "monthlyDebt", 0) > 43 * Param(r, "monthlyIncome", 0)
               /\ Param(r, "monthlyDebt", 0) <= Param(r, "monthlyIncome", 0)

\* Story 2 of the product specification: a call outside 08:00 - 21:00, or with
\* more than 7 declared attempts at a known customer, is blocked, and a loan
\* whose debt is above 43% (and within 100%) of the income is not approved unless
\* it declares another ratio, as long as one seeded variant of the rule in
\* question was left alone.
Story2Kept ==
  \A r \in Requests : Engine(r) =>
    /\ OutsideHours(r) /\ Standing("Hours") => answer[r].verdict = "BLOCK"
    /\ ManyAttempts(r) /\ Standing("Calls") => answer[r].verdict = "BLOCK"
    /\ Indebted(r) /\ Standing("MaxDTI") => answer[r].verdict # "APPROVE"

\* The engine approves an uncounted call only while fewer than the seeded
\* limit of calls to that customer were approved: its approvals and those
\* before never exceed the limit together.  One worker; with two, both can
\* count before either stores.
CapKept ==
  \A c \in Customers :
    LET calls == {r \in Requests : /\ Engine(r) /\ answer[r].verdict = "APPROVE"
                                   /\ Raw(r).tool = "dialer"
                                   /\ "contactAttemptsLast7Days" \notin DOMAIN Raw(r).params
                                   /\ "calls_last_7_days" \notin DOMAIN Raw(r).params
                                   /\ "customerId" \in DOMAIN Raw(r).params
                                   /\ Raw(r).params["customerId"] = c}
    IN Standing("Calls") /\ calls # {} =>
         history[c] + Cardinality(calls) <= Limit(Seeds[<<"Calls", "Enforce">>])

\* A request for a name on the sanctions list that is evaluated while a rule of
\* type OFAC is active is decided BLOCK, whatever else it passes or fails.  No
\* such rule is seeded: an administrator creates it.
SanctionedBlocked ==
  [][\A w \in Workers :
       /\ job[w].stage = "evaluate" /\ job'[w] # job[w]
       /\ Param(job[w].req, "fullName", "") \in Sanctions
       /\ \E id \in active : Book[id].type = "OFAC"
       => job'[w].stage = "store" /\ job'[w].verdict = "BLOCK"]_vars

=============================================================================
