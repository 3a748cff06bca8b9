----------------------------- MODULE PolicyProofs -----------------------------
(***************************************************************************)
(* What a verdict says, for every set of requests, workers, inputs, rules  *)
(* an administrator may create and edit, and thresholds.                   *)
(***************************************************************************)
EXTENDS Policy, FiniteSetTheorems, TLAPS

\* No escalation threshold is above 0.75, the risk a failed collections rule
\* adds.
Cautious == \A t \in Thresholds : t.escalate <= 750

-----------------------------------------------------------------------------
(* Types *)

Severities == {"CRITICAL", "HIGH", "MEDIUM"}
Decisions == {"APPROVE", "BLOCK", "ESCALATE"}

Jobs ==
  {Idle}
  \cup [stage : {"evaluate"}, req : Requests]
  \cup [stage : {"count"}, req : Requests, pending : SUBSET RuleIds, failed : SUBSET RuleIds,
        errors : SUBSET RuleIds, severities : SUBSET Severities]
  \cup [stage : {"store"}, req : Requests, failed : SUBSET Checks, errors : SUBSET RuleIds,
        verdict : Decisions]

Answers == [verdict : Decisions \cup {"NONE"}, by : {"nobody", "engine", "reviewer"},
            failed : SUBSET Checks, errors : SUBSET RuleIds]

TypeInv ==
  /\ active \subseteq table /\ table \subseteq RuleIds
  /\ action \in [RuleIds -> Actions]
  /\ thresholds \in Thresholds
  /\ input \in [Requests -> DOMAIN Inputs \cup {"none"}]
  /\ answer \in [Requests -> Answers]
  /\ job \in [Workers -> Jobs]
  /\ edited \subseteq RuleIds \X {"enabled", "action"}
  /\ edits \in 0..MaxEdits /\ errors \in 0..MaxErrors
  /\ history \in [Customers -> History]

-----------------------------------------------------------------------------
(* The inductive invariant.  The rules in force: what was never edited is as *)
(* it was seeded or created, and a seeded rule that was never toggled is     *)
(* active.                                                                   *)

RulesInv ==
  /\ SeedIds \subseteq table
  /\ \A id \in SeedIds : <<id, "enabled">> \notin edited => id \in active
  /\ \A id \in RuleIds : <<id, "action">> \notin edited => action[id] = Book[id].action

\* A blocking rule that a request of kind k fails whatever the clock says and
\* whatever its action is by then, without a count.
Fails(k, id) ==
  LET req == Parse(Inputs[k]) IN
  /\ Book[id].action = "BLOCK"
  /\ req.tool.requiresComplianceCheck
  /\ \A a \in Actions, now \in Clock :
       LET rule == [Book[id] EXCEPT !.action = a]
       IN ~Counts(rule, req) /\ ~Passes(rule, req, now, Sanctions)

Standard(done, id) == \A column \in {"enabled", "action"} : <<id, column>> \notin done

\* Nothing failed that the verdict does not say: on a request of kind k, with
\* the edits done so far.
Sound(k, done, failed, errs, verdict) ==
  /\ \A c \in failed : (c \in RuleIds => Book[c].action = "BLOCK" /\ <<c, "action">> \notin done)
       => verdict = "BLOCK"
  /\ Cautious => \A c \in (failed \cup errs) \cap RuleIds : Collections(Book[c]) => verdict # "APPROVE"
  /\ \A id \in SeedIds : Standard(done, id) /\ Fails(k, id) => verdict = "BLOCK"

\* What evaluate() has found by the time it waits for a count: a failure leaves
\* its severity, and a rule that fails always has failed.
Noted(k, done, failed, errs, severities) ==
  /\ \A c \in failed \cup errs : Collections(Book[c]) => "HIGH" \in severities
  /\ \A id \in SeedIds : Standard(done, id) /\ Fails(k, id) => id \in failed

JobSound(in, done, j) ==
  /\ j.stage # "idle" => in[j.req] # "none"
  /\ j.stage = "count" =>
       j.pending # {} /\ Noted(in[j.req], done, j.failed, j.errors, j.severities)
  /\ j.stage = "store" => Sound(in[j.req], done, j.failed, j.errors, j.verdict)

AnswerSound(k, done, a) ==
  a.by = "engine" => k # "none" /\ Sound(k, done, a.failed, a.errors, a.verdict)

JobsInv == \A w \in Workers : JobSound(input, edited, job[w])
AnswersInv == \A r \in Requests : AnswerSound(input[r], edited, answer[r])

PolicyInv == TypeInv /\ RulesInv /\ JobsInv /\ AnswersInv

-----------------------------------------------------------------------------
(* Rules and their book *)

\* The greatest of three numbers is one of them and none is above it.
LEMMA MaxOfThree ==
  ASSUME NEW a \in Int, NEW b \in Int, NEW c \in Int
  PROVE  /\ Max({a, b, c}) \in {a, b, c}
         /\ Max({a, b, c}) >= a /\ Max({a, b, c}) >= b /\ Max({a, b, c}) >= c
<1>1. \E x \in {a, b, c} : \A y \in {a, b, c} : x >= y
  <2>1. CASE a >= b /\ a >= c
    BY <2>1
  <2>2. CASE b >= a /\ b >= c
    BY <2>2
  <2>3. CASE c >= a /\ c >= b
    BY <2>3
  <2> QED
    BY <2>1, <2>2, <2>3
<1>2. Max({a, b, c}) \in {a, b, c} /\ \A y \in {a, b, c} : Max({a, b, c}) >= y
  BY <1>1 DEF Max
<1> QED
  BY <1>2

\* The same of two.
LEMMA MaxOfTwo ==
  ASSUME NEW a \in Int, NEW b \in Int
  PROVE  Max({a, b}) \in Int /\ Max({a, b}) >= a /\ Max({a, b}) >= b
<1>1. {a, b} = {a, a, b}
  OBVIOUS
<1> QED
  BY <1>1, MaxOfThree

\* The loan rules, spelt out.
LEMMA LoanRules ==
  /\ DOMAIN Underwriting = {"CreditRange", "MinCredit", "MaxDTI", "Employment"}
  /\ \A subject \in DOMAIN Underwriting :
       /\ Underwriting[subject].action \in {"BLOCK", "ESCALATE"}
       /\ DOMAIN Underwriting[subject] = {"type", "words", "action", "value", "conditions"}
<1>1. DOMAIN Underwriting = {"CreditRange", "MinCredit", "MaxDTI", "Employment"}
  BY DEF Underwriting
<1>2. /\ Underwriting["CreditRange"].action = "BLOCK"
      /\ DOMAIN Underwriting["CreditRange"] = {"type", "words", "action", "value", "conditions"}
  BY DEF Underwriting
<1>3. /\ Underwriting["MinCredit"].action = "BLOCK"
      /\ DOMAIN Underwriting["MinCredit"] = {"type", "words", "action", "value", "conditions"}
  BY DEF Underwriting
<1>4. /\ Underwriting["MaxDTI"].action = "BLOCK"
      /\ DOMAIN Underwriting["MaxDTI"] = {"type", "words", "action", "value", "conditions"}
  BY DEF Underwriting
<1>5. /\ Underwriting["Employment"].action = "ESCALATE"
      /\ DOMAIN Underwriting["Employment"] = {"type", "words", "action", "value", "conditions"}
  BY DEF Underwriting
<1> QED
  BY <1>1, <1>2, <1>3, <1>4, <1>5

\* Every rule of the book has a type, words and an action.
LEMMA BookTypes ==
  ASSUME NEW id \in RuleIds
  PROVE  /\ Book[id].action \in Actions
         /\ {"type", "words", "action"} \subseteq DOMAIN Book[id]
<1>1. CASE id \in SeedIds
  <2>1. CASE id[2] = "Seed"
    <3>1. Book[id] = Underwriting[id[1]]
      BY <1>1, <2>1 DEF Book, Seeds, RuleIds
    <3>2. id \in (DOMAIN Underwriting) \X {"Seed"}
      BY <1>1, <2>1 DEF SeedIds
    <3> QED
      BY <3>1, <3>2, LoanRules DEF Actions
  <2>2. CASE id[2] # "Seed"
    <3>1. Book[id] = Reg_F(id[1])
      BY <1>1, <2>2 DEF Book, Seeds, RuleIds
    <3> QED
      BY <3>1 DEF Reg_F, Actions
  <2> QED
    BY <2>1, <2>2
<1>2. CASE id \notin SeedIds
  BY <1>2, PolicyAssumption DEF Book, RuleIds
<1> QED
  BY <1>1, <1>2

\* An edited action leaves a rule's kind, and how it is dispatched, as it was.
LEMMA RuleKind ==
  ASSUME NEW id \in RuleIds
  PROVE  Collections(Rule(id)) = Collections(Book[id])
<1>1. Rule(id).type = Book[id].type /\ Rule(id).words = Book[id].words
  BY BookTypes DEF Rule
<1> QED
  BY <1>1 DEF Collections, Named

\* Every failure has one of three severities; a failed collections rule is HIGH.
LEMMA SeverityType ==
  ASSUME NEW id \in RuleIds
  PROVE  /\ Severity(Rule(id)) \in Severities
         /\ Collections(Book[id]) => Severity(Rule(id)) = "HIGH"
BY RuleKind DEF Severity, Severities

\* Failed security checks are checks, and weigh at least 0.8.
LEMMA SecurityFacts ==
  ASSUME TypeInv, NEW r \in Requests, input[r] # "none"
  PROVE  /\ SecurityChecks(Request(r)) \subseteq Checks
         /\ SecurityRisk(Request(r)) \in Nat
         /\ SecurityChecks(Request(r)) # {} => SecurityRisk(Request(r)) >= 800
<1>1. input[r] \in DOMAIN Inputs /\ Request(r).flaws = Inputs[input[r]].flaws
  BY DEF TypeInv, Request, Parse
<1>2. Request(r).flaws \subseteq Flaws
  BY <1>1, PolicyAssumption
<1> QED
  BY <1>2 DEF SecurityChecks, SecurityRisk, Checks, Flaws

-----------------------------------------------------------------------------
(* Verdicts *)

\* Later edits do not make a sound verdict unsound.
LEMMA SoundKept ==
  ASSUME NEW k, NEW done, NEW more, done \subseteq more,
         NEW failed, NEW errs, NEW verdict, Sound(k, done, failed, errs, verdict)
  PROVE  Sound(k, more, failed, errs, verdict)
<1>1. \A id : Standard(more, id) => Standard(done, id)
  BY DEF Standard
<1>2. \A c : <<c, "action">> \notin more => <<c, "action">> \notin done
  OBVIOUS
<1> QED
  BY <1>1, <1>2 DEF Sound

\* Nor what a job has noted.
LEMMA NotedKept ==
  ASSUME NEW k, NEW done, NEW more, done \subseteq more,
         NEW failed, NEW errs, NEW severities, Noted(k, done, failed, errs, severities)
  PROVE  Noted(k, more, failed, errs, severities)
<1>1. \A id : Standard(more, id) => Standard(done, id)
  BY DEF Standard
<1> QED
  BY <1>1 DEF Noted

\* A job stays sound under further edits, as long as its request stays.
LEMMA JobKept ==
  ASSUME NEW in, NEW in2, NEW done, NEW more, done \subseteq more, NEW j,
         JobSound(in, done, j), j.stage # "idle" => in2[j.req] = in[j.req]
  PROVE  JobSound(in2, more, j)
BY SoundKept, NotedKept DEF JobSound

\* And so does an answer.
LEMMA AnswerKept ==
  ASSUME NEW k, NEW done, NEW more, done \subseteq more, NEW a, AnswerSound(k, done, a)
  PROVE  AnswerSound(k, more, a)
BY SoundKept DEF AnswerSound

\* What decide() answers.
LEMMA VerdictFacts ==
  ASSUME TypeInv, NEW req, NEW failed, NEW risk \in Int
  PROVE  /\ Verdict(req, failed, risk) \in Decisions
         /\ Blocking(failed) => Verdict(req, failed, risk) = "BLOCK"
         /\ risk >= thresholds.escalate => Verdict(req, failed, risk) # "APPROVE"
<1> DEFINE score == Max({risk, ToolRisk(req), CostRisk(req)})
<1>1. ToolRisk(req) \in Int /\ CostRisk(req) \in Int
  BY DEF ToolRisk, CostRisk
<1>2. score \in Int /\ score >= risk
  BY <1>1, MaxOfThree
<1>3. thresholds.escalate \in Int /\ thresholds.block \in Int
  BY PolicyAssumption DEF TypeInv
<1>4. Verdict(req, failed, risk) =
        IF Blocking(failed) THEN "BLOCK"
        ELSE IF Escalating(failed) THEN "ESCALATE"
        ELSE IF score >= thresholds.block THEN "BLOCK"
        ELSE IF score >= thresholds.escalate THEN "ESCALATE"
        ELSE "APPROVE"
  BY DEF Verdict
<1> HIDE DEF score
<1>5. risk >= thresholds.escalate => score >= thresholds.escalate
  BY <1>2, <1>3
<1> QED
  BY <1>4, <1>5 DEF Decisions

\* decide() finds a blocking failure whatever was edited since, weighs a
\* collections failure at 0.75, and finds the rules that nobody edited.
LEMMA Conclude ==
  ASSUME PolicyInv, NEW w \in Workers, NEW r \in Requests, input[r] # "none",
         NEW failed \in SUBSET RuleIds, NEW errs \in SUBSET RuleIds,
         NEW severities \in SUBSET Severities,
         Noted(input[r], edited, failed, errs, severities),
         Concluded(w, r, failed, errs, severities)
  PROVE  \E j \in Jobs : /\ job' = [job EXCEPT ![w] = j]
                         /\ j.stage = "store" /\ j.req = r /\ JobSound(input, edited, j)
                         /\ Cautious /\ "HIGH" \in severities => j.verdict # "APPROVE"
<1> DEFINE req == Request(r)
           all == failed \cup SecurityChecks(req)
           risk == Max({ComplianceRisk(severities), SecurityRisk(req)})
           verdict == Verdict(req, all, risk)
           j == [stage |-> "store", req |-> r, failed |-> all, errors |-> errs,
                 verdict |-> verdict]
<1>0. TypeInv /\ RulesInv
  BY DEF PolicyInv
<1>1. job' = [job EXCEPT ![w] = j]
  BY DEF Concluded, Decided
<1>2. /\ SecurityChecks(req) \subseteq Checks /\ SecurityRisk(req) \in Nat
      /\ SecurityChecks(req) # {} => SecurityRisk(req) >= 800
  BY <1>0, SecurityFacts
<1>3. ComplianceRisk(severities) \in Nat
      /\ ("HIGH" \in severities => ComplianceRisk(severities) >= 750)
  BY DEF ComplianceRisk
<1>4. /\ risk \in Int /\ risk >= ComplianceRisk(severities) /\ risk >= SecurityRisk(req)
  <2>1. ASSUME NEW a \in Int, NEW b \in Int, a = ComplianceRisk(severities), b = SecurityRisk(req)
        PROVE  risk \in Int /\ risk >= a /\ risk >= b
    <3>1. risk = Max({a, b})
      BY <2>1
    <3> QED
      BY <3>1, MaxOfTwo
  <2> QED
    BY <1>2, <1>3, <2>1
<1>5. all \subseteq Checks
  BY <1>2 DEF Checks
<1> HIDE DEF risk
<1>6. /\ verdict \in Decisions
      /\ Blocking(all) => verdict = "BLOCK"
      /\ risk >= thresholds.escalate => verdict # "APPROVE"
  BY <1>0, <1>4, VerdictFacts
<1>10. Cautious /\ "HIGH" \in severities => verdict # "APPROVE"
  <2>1. thresholds.escalate \in Nat /\ (Cautious => thresholds.escalate <= 750)
    BY <1>0, PolicyAssumption DEF Cautious, TypeInv
  <2> QED
    BY <1>3, <1>4, <1>6, <2>1
<1>7. Sound(input[r], edited, all, errs, verdict)
  <2>1. ASSUME NEW c \in all, c \in RuleIds => Book[c].action = "BLOCK" /\ <<c, "action">> \notin edited
        PROVE  verdict = "BLOCK"
    <3>1. c \notin active \/ action[c] = "BLOCK"
      BY <1>0, <2>1 DEF TypeInv, RulesInv
    <3> QED
      BY <1>6, <3>1 DEF Blocking
  <2>2. ASSUME Cautious, NEW c \in (all \cup errs) \cap RuleIds, Collections(Book[c])
        PROVE  verdict # "APPROVE"
    <3>1. thresholds.escalate \in Nat /\ thresholds.escalate <= 750
      BY <1>0, <2>2, PolicyAssumption DEF Cautious, TypeInv
    <3>2. CASE c \in failed \cup errs
      <4>1. "HIGH" \in severities
        BY <2>2, <3>2 DEF Noted
      <4> QED
        BY <1>3, <1>4, <1>6, <3>1, <4>1
    <3>3. CASE c \in SecurityChecks(req)
      BY <1>2, <1>4, <1>6, <3>1, <3>3
    <3> QED
      BY <3>2, <3>3
  <2>3. ASSUME NEW id \in SeedIds, Standard(edited, id), Fails(input[r], id)
        PROVE  verdict = "BLOCK"
    <3>1. id \in all /\ Book[id].action = "BLOCK"
      BY <2>3 DEF Noted, Fails
    <3>2. <<id, "action">> \notin edited
      BY <2>3 DEF Standard
    <3> QED
      BY <2>1, <3>1, <3>2
  <2> QED
    BY <2>1, <2>2, <2>3 DEF Sound
<1> HIDE DEF all, verdict
<1>8. j \in Jobs
  BY <1>5, <1>6 DEF Jobs
<1>9. JobSound(input, edited, j)
  BY <1>7 DEF JobSound
<1> QED
  BY <1>1, <1>8, <1>9, <1>10

-----------------------------------------------------------------------------
(* Steps *)

\* What a job holds, by its stage.
LEMMA JobTypes ==
  ASSUME TypeInv, NEW w \in Workers
  PROVE  /\ job[w].stage \in {"idle", "evaluate", "count", "store"}
         /\ job[w].stage # "idle" => job[w].req \in Requests
         /\ job[w].stage = "evaluate" => job[w] \in [stage : {"evaluate"}, req : Requests]
         /\ job[w].stage = "count" =>
              job[w] \in [stage : {"count"}, req : Requests, pending : SUBSET RuleIds,
                          failed : SUBSET RuleIds, errors : SUBSET RuleIds,
                          severities : SUBSET Severities]
         /\ job[w].stage = "store" =>
              job[w] \in [stage : {"store"}, req : Requests, failed : SUBSET Checks,
                          errors : SUBSET RuleIds, verdict : Decisions]
BY DEF TypeInv, Jobs, Idle

\* A worker's step that only gives it a sound job.
LEMMA JobStep ==
  ASSUME PolicyInv, NEW w \in Workers, NEW j \in Jobs, JobSound(input, edited, j),
         job' = [job EXCEPT ![w] = j], UNCHANGED <<admin, input, answer, history>>,
         errors' \in 0..MaxErrors
  PROVE  PolicyInv'
<1>1. TypeInv'
  BY DEF PolicyInv, TypeInv, admin
<1>2. RulesInv'
  BY DEF PolicyInv, RulesInv, admin
<1>3. JobsInv'
  BY DEF PolicyInv, TypeInv, JobsInv, admin
<1>4. AnswersInv'
  BY DEF PolicyInv, AnswersInv, admin
<1> QED
  BY <1>1, <1>2, <1>3, <1>4 DEF PolicyInv

\* A job that has counted one more rule.
LEMMA CountedJob ==
  ASSUME PolicyInv, NEW w \in Workers, job[w].stage = "count", NEW id \in job[w].pending,
         NEW failed \in SUBSET RuleIds, NEW errs \in SUBSET RuleIds,
         NEW severities \in SUBSET Severities,
         Noted(input[job[w].req], edited, failed, errs, severities),
         Counted(w, id, failed, errs, severities)
  PROVE  \E j \in Jobs :
           /\ job' = [job EXCEPT ![w] = j] /\ j.req = job[w].req /\ JobSound(input, edited, j)
           /\ \/ j.stage = "count" /\ j.pending = job[w].pending \ {id} /\ j.severities = severities
              \/ /\ j.stage = "store" /\ job[w].pending = {id}
                 /\ Cautious /\ "HIGH" \in severities => j.verdict # "APPROVE"
<1>0. /\ job[w] \in [stage : {"count"}, req : Requests, pending : SUBSET RuleIds,
                     failed : SUBSET RuleIds, errors : SUBSET RuleIds,
                     severities : SUBSET Severities]
      /\ input[job[w].req] # "none"
  BY JobTypes DEF PolicyInv, JobsInv, JobSound
<1> DEFINE left == job[w].pending \ {id}
<1>1. CASE left = {}
  <2>1. Concluded(w, job[w].req, failed, errs, severities)
    BY <1>1 DEF Counted
  <2>2. job[w].pending = {id}
    BY <1>1
  <2>3. PICK j \in Jobs :
          /\ job' = [job EXCEPT ![w] = j]
          /\ j.stage = "store" /\ j.req = job[w].req /\ JobSound(input, edited, j)
          /\ Cautious /\ "HIGH" \in severities => j.verdict # "APPROVE"
    BY <1>0, <2>1, Conclude
  <2> QED
    BY <2>2, <2>3
<1>2. CASE left # {}
  <2> DEFINE j == [stage |-> "count", req |-> job[w].req, pending |-> left, failed |-> failed,
                   errors |-> errs, severities |-> severities]
  <2>2. job' = [job EXCEPT ![w] = j]
    BY <1>2 DEF Counted
  <2>3. j \in Jobs
    BY <1>0 DEF Jobs
  <2>4. JobSound(input, edited, j)
    BY <1>0, <1>2 DEF JobSound
  <2> QED
    BY <2>2, <2>3, <2>4
<1> QED
  BY <1>1, <1>2

\* A request that is taken is a new one; a malformed one is blocked.
LEMMA StartStep ==
  ASSUME PolicyInv, NEW w \in Workers, Start(w)
  PROVE  PolicyInv'
<1>1. PICK r \in Requests, k \in DOMAIN Inputs :
        /\ input[r] = "none"
        /\ input' = [input EXCEPT ![r] = k]
        /\ job' = [job EXCEPT ![w] =
             IF Parse(Inputs[k]).parseErrors
             THEN [stage |-> "store", req |-> r, failed |-> {<<"Parse", "errors">>},
                   errors |-> {}, verdict |-> "BLOCK"]
             ELSE [stage |-> "evaluate", req |-> r]]
  BY DEF Start
<1>2. UNCHANGED <<admin, answer, errors, history>> /\ k # "none"
  BY PolicyAssumption DEF Start
<1>3. PICK j : j = IF Parse(Inputs[k]).parseErrors
                   THEN [stage |-> "store", req |-> r, failed |-> {<<"Parse", "errors">>},
                         errors |-> {}, verdict |-> "BLOCK"]
                   ELSE [stage |-> "evaluate", req |-> r]
  OBVIOUS
<1>4. j \in Jobs
  BY <1>3 DEF Jobs, Checks, Decisions
<1>5. job' = [job EXCEPT ![w] = j]
  BY <1>1, <1>3
<1>6. JobSound(input', edited, j)
  <2>1. input'[r] = k
    BY <1>1 DEF PolicyInv, TypeInv
  <2>2. j.req = r
    BY <1>3
  <2>3. CASE j = [stage |-> "evaluate", req |-> r]
    BY <1>2, <2>1, <2>3 DEF JobSound
  <2>4. CASE j = [stage |-> "store", req |-> r, failed |-> {<<"Parse", "errors">>},
                  errors |-> {}, verdict |-> "BLOCK"]
    <3>1. Sound(k, edited, j.failed, j.errors, j.verdict)
      BY <2>4 DEF Sound
    <3> QED
      BY <1>2, <2>1, <2>4, <3>1 DEF JobSound
  <2> QED
    BY <1>3, <2>3, <2>4
<1>7. TypeInv'
  BY <1>1, <1>2, <1>4, <1>5 DEF PolicyInv, TypeInv, admin
<1>8. RulesInv'
  BY <1>2 DEF PolicyInv, RulesInv, admin
<1>9. JobsInv'
  <2>1. \A v \in Workers \ {w} : JobSound(input', edited, job[v])
    <3> SUFFICES ASSUME NEW v \in Workers, v # w PROVE JobSound(input', edited, job[v])
      OBVIOUS
    <3>1. JobSound(input, edited, job[v])
      BY DEF PolicyInv, JobsInv
    <3>2. job[v].stage # "idle" => job[v].req # r /\ job[v].req \in Requests
      BY <1>1, <3>1, JobTypes DEF JobSound, PolicyInv
    <3>3. job[v].stage # "idle" => input'[job[v].req] = input[job[v].req]
      BY <1>1, <3>2 DEF PolicyInv, TypeInv
    <3> QED
      BY <3>1, <3>3, JobKept
  <2>2. \A v \in Workers : job'[v] = IF v = w THEN j ELSE job[v]
    BY <1>5 DEF PolicyInv, TypeInv
  <2>3. edited' = edited
    BY <1>2 DEF admin
  <2> QED
    BY <1>6, <2>1, <2>2, <2>3 DEF JobsInv
<1>10. AnswersInv'
  <2>1. \A q \in Requests : answer[q].by = "engine" => q # r
    BY <1>1 DEF PolicyInv, AnswersInv, AnswerSound
  <2>2. \A q \in Requests \ {r} : input'[q] = input[q]
    BY <1>1 DEF PolicyInv, TypeInv
  <2> QED
    BY <1>2, <2>1, <2>2 DEF PolicyInv, AnswersInv, AnswerSound, admin
<1> QED
  BY <1>7, <1>8, <1>9, <1>10 DEF PolicyInv

\* The first part of evaluate() settles every rule that needs no count.
LEMMA EvaluateStep ==
  ASSUME PolicyInv, NEW w \in Workers, Evaluate(w)
  PROVE  PolicyInv'
<1>0. /\ job[w] \in [stage : {"evaluate"}, req : Requests] /\ job[w].stage = "evaluate"
      /\ input[job[w].req] # "none"
      /\ UNCHANGED <<admin, input, answer, errors, history>>
  BY JobTypes DEF PolicyInv, JobsInv, JobSound, Evaluate
<1> DEFINE r == job[w].req
           req == Request(r)
           rules == IF req.tool.requiresComplianceCheck THEN active ELSE {}
           counting == {id \in rules : Counts(Rule(id), req)}
<1>1. PICK now \in Clock :
        LET failed == {id \in rules \ counting : ~Passes(Rule(id), req, now, Sanctions)}
            severities == {Severity(Rule(id)) : id \in failed}
        IN IF counting = {}
           THEN Concluded(w, r, failed, {}, severities)
           ELSE job' = [job EXCEPT ![w] =
                  [stage |-> "count", req |-> r, pending |-> counting, failed |-> failed,
                   errors |-> {}, severities |-> severities]]
  BY DEF Evaluate
<1> DEFINE failed == {id \in rules \ counting : ~Passes(Rule(id), req, now, Sanctions)}
           severities == {Severity(Rule(id)) : id \in failed}
<1>2. rules \subseteq RuleIds /\ counting \subseteq RuleIds /\ failed \subseteq RuleIds
  BY DEF PolicyInv, TypeInv
<1>3. severities \subseteq Severities
  BY <1>2, SeverityType
<1>4. Noted(input[r], edited, failed, {}, severities)
  <2>1. \A c \in failed : Collections(Book[c]) => "HIGH" \in severities
    BY <1>2, SeverityType
  <2>2. ASSUME NEW id \in SeedIds, Standard(edited, id), Fails(input[r], id)
        PROVE  id \in failed
    <3>1. id \in RuleIds /\ id \in active /\ action[id] \in Actions
      BY <2>2 DEF PolicyInv, TypeInv, RulesInv, Standard, RuleIds
    <3>2. req = Parse(Inputs[input[r]])
      BY DEF Request
    <3>3. id \in rules
      BY <2>2, <3>1, <3>2 DEF Fails
    <3>4. ~Counts(Rule(id), req) /\ ~Passes(Rule(id), req, now, Sanctions)
      BY <2>2, <3>1, <3>2 DEF Fails, Rule
    <3> QED
      BY <3>3, <3>4
  <2> QED
    BY <2>1, <2>2 DEF Noted
<1>5. \E j \in Jobs : job' = [job EXCEPT ![w] = j] /\ JobSound(input, edited, j)
  <2>1. CASE counting = {}
    <3>1. Concluded(w, r, failed, {}, severities)
      BY <1>1, <2>1
    <3> QED
      BY <1>0, <1>2, <1>3, <1>4, <3>1, Conclude
  <2>2. CASE counting # {}
    <3> DEFINE j == [stage |-> "count", req |-> r, pending |-> counting, failed |-> failed,
                     errors |-> {}, severities |-> severities]
    <3>1. job' = [job EXCEPT ![w] = j]
      BY <1>1, <2>2
    <3> HIDE DEF failed, severities, counting
    <3>2. j \in Jobs
      BY <1>0, <1>2, <1>3 DEF Jobs
    <3>3. JobSound(input, edited, j)
      BY <1>0, <1>4, <2>2 DEF JobSound
    <3> QED
      BY <3>1, <3>2, <3>3
  <2> QED
    BY <2>1, <2>2
<1>6. errors' \in 0..MaxErrors
  BY <1>0 DEF PolicyInv, TypeInv
<1> QED
  BY <1>0, <1>5, <1>6, JobStep

\* A count that comes back, or rejects.
LEMMA CountStep ==
  ASSUME PolicyInv, NEW w \in Workers, Count(w) \/ CountFails(w)
  PROVE  PolicyInv'
<1>0. /\ job[w] \in [stage : {"count"}, req : Requests, pending : SUBSET RuleIds,
                     failed : SUBSET RuleIds, errors : SUBSET RuleIds,
                     severities : SUBSET Severities]
      /\ job[w].stage = "count"
      /\ Noted(input[job[w].req], edited, job[w].failed, job[w].errors, job[w].severities)
      /\ UNCHANGED <<admin, input, answer, history>>
  BY JobTypes DEF PolicyInv, JobsInv, JobSound, Count, CountFails
<1>1. errors' \in 0..MaxErrors
  BY PolicyAssumption DEF Count, CountFails, PolicyInv, TypeInv
<1>2. ASSUME NEW id \in job[w].pending, NEW failed, NEW errs, NEW severities,
             \/ /\ failed = job[w].failed /\ errs = job[w].errors
                /\ severities = job[w].severities
             \/ /\ failed = job[w].failed \cup {id} /\ errs = job[w].errors
                /\ severities = job[w].severities \cup {Severity(Rule(id))}
             \/ /\ failed = job[w].failed /\ errs = job[w].errors \cup {id}
                /\ severities = job[w].severities \cup {"HIGH"},
             Counted(w, id, failed, errs, severities)
      PROVE  PolicyInv'
  <2>1. id \in RuleIds
    BY <1>0, <1>2
  <2>2. Severity(Rule(id)) \in Severities /\ (Collections(Book[id]) => Severity(Rule(id)) = "HIGH")
    BY <2>1, SeverityType
  <2>3. failed \in SUBSET RuleIds /\ errs \in SUBSET RuleIds /\ severities \in SUBSET Severities
    BY <1>0, <1>2, <2>1, <2>2 DEF Severities
  <2>4. Noted(input[job[w].req], edited, failed, errs, severities)
    BY <1>0, <1>2, <2>2 DEF Noted
  <2>5. \E j \in Jobs : job' = [job EXCEPT ![w] = j] /\ JobSound(input, edited, j)
    BY <1>0, <1>2, <2>3, <2>4, CountedJob
  <2> QED
    BY <1>0, <1>1, <2>5, JobStep
<1>3. CASE Count(w)
  BY <1>2, <1>3 DEF Count
<1>4. CASE CountFails(w)
  BY <1>2, <1>4 DEF CountFails
<1> QED
  BY <1>3, <1>4

\* The stored answer is the one that was decided.
LEMMA StoreStep ==
  ASSUME PolicyInv, NEW w \in Workers, Store(w)
  PROVE  PolicyInv'
<1>0. /\ job[w] \in [stage : {"store"}, req : Requests, failed : SUBSET Checks,
                     errors : SUBSET RuleIds, verdict : Decisions]
      /\ input[job[w].req] # "none"
      /\ Sound(input[job[w].req], edited, job[w].failed, job[w].errors, job[w].verdict)
      /\ UNCHANGED <<admin, input, errors, history>>
  BY JobTypes DEF PolicyInv, JobsInv, JobSound, Store
<1> DEFINE r == job[w].req
           a == [verdict |-> job[w].verdict, by |-> "engine", failed |-> job[w].failed,
                 errors |-> job[w].errors]
<1>1. answer' = [answer EXCEPT ![r] = a] /\ job' = [job EXCEPT ![w] = Idle]
  BY DEF Store
<1>2. a \in Answers /\ r \in Requests /\ AnswerSound(input[r], edited, a)
  BY <1>0 DEF Answers, AnswerSound
<1> HIDE DEF a, r
<1>3. Idle \in Jobs /\ JobSound(input, edited, Idle)
  BY DEF Jobs, Idle, JobSound
<1>4. TypeInv'
  BY <1>0, <1>1, <1>2, <1>3 DEF PolicyInv, TypeInv, admin
<1>5. RulesInv'
  BY <1>0 DEF PolicyInv, RulesInv, admin
<1>6. JobsInv'
  BY <1>0, <1>1, <1>3 DEF PolicyInv, TypeInv, JobsInv, admin
<1>7. AnswersInv'
  BY <1>0, <1>1, <1>2 DEF PolicyInv, TypeInv, AnswersInv, admin
<1> QED
  BY <1>4, <1>5, <1>6, <1>7 DEF PolicyInv

\* A reviewer's word is no longer the engine's.
LEMMA ReviewStep ==
  ASSUME PolicyInv, NEW r \in Requests, Review(r)
  PROVE  PolicyInv'
<1>0. UNCHANGED <<admin, input, job, errors, history>>
  BY DEF Review
<1>1. PICK v \in {"APPROVE", "BLOCK"} :
        answer' = [answer EXCEPT ![r].verdict = v, ![r].by = "reviewer"]
  BY DEF Review
<1>2. /\ answer' \in [Requests -> Answers]
      /\ \A q \in Requests : answer'[q] = answer[q] \/ answer'[q].by = "reviewer"
  BY <1>1 DEF PolicyInv, TypeInv, Answers, Decisions
<1>3. TypeInv' /\ RulesInv' /\ JobsInv'
  BY <1>0, <1>2 DEF PolicyInv, TypeInv, RulesInv, JobsInv, admin
<1>4. AnswersInv'
  BY <1>0, <1>2 DEF PolicyInv, AnswersInv, AnswerSound, admin
<1> QED
  BY <1>3, <1>4 DEF PolicyInv

\* An administrator's edits change no job and no answer, and are on record.
LEMMA AdministerStep ==
  ASSUME PolicyInv, Administer
  PROVE  PolicyInv'
<1>0. UNCHANGED <<input, answer, job, errors, history>>
  BY DEF Administer
<1> DEFINE Moved ==
        /\ active' \subseteq table' /\ table' \subseteq RuleIds /\ table \subseteq table'
        /\ action' \in [RuleIds -> Actions] /\ thresholds' \in Thresholds
        /\ edited' \subseteq RuleIds \X {"enabled", "action"} /\ edited \subseteq edited'
        /\ edits' \in 0..MaxEdits
        /\ \A id \in RuleIds : <<id, "action">> \notin edited' => action'[id] = action[id]
        /\ \A id \in active : <<id, "enabled">> \notin edited' => id \in active'
<1>1. Moved
  <2>1. ASSUME NEW id \in Editable, Toggle(id)
        PROVE  Moved
    BY <2>1, PolicyAssumption DEF PolicyInv, TypeInv, Toggle, Edit
  <2>2. ASSUME NEW id \in Editable, SetAction(id)
        PROVE  Moved
    BY <2>2, PolicyAssumption DEF PolicyInv, TypeInv, SetAction, Edit
  <2>3. ASSUME NEW id \in DOMAIN NewRules, CreateRule(id)
        PROVE  Moved
    BY <2>3, PolicyAssumption DEF PolicyInv, TypeInv, CreateRule, Edit, RuleIds
  <2>4. ASSUME SetThresholds
        PROVE  Moved
    BY <2>4 DEF PolicyInv, TypeInv, SetThresholds
  <2> QED
    BY <2>1, <2>2, <2>3, <2>4 DEF Administer
<1>2. TypeInv'
  BY <1>0, <1>1 DEF PolicyInv, TypeInv
<1>3. RulesInv'
  BY <1>1 DEF PolicyInv, RulesInv, RuleIds
<1>4. JobsInv'
  <2> SUFFICES ASSUME NEW w \in Workers PROVE JobSound(input, edited', job[w])
    BY <1>0 DEF JobsInv
  <2> QED
    BY <1>1, JobKept DEF PolicyInv, JobsInv
<1>5. AnswersInv'
  <2> SUFFICES ASSUME NEW r \in Requests PROVE AnswerSound(input[r], edited', answer[r])
    BY <1>0 DEF AnswersInv
  <2> QED
    BY <1>1, AnswerKept DEF PolicyInv, AnswersInv
<1> QED
  BY <1>2, <1>3, <1>4, <1>5 DEF PolicyInv

\* At startup nothing was edited.
LEMMA PolicyInvInit == Init => PolicyInv
<1> SUFFICES ASSUME Init PROVE PolicyInv
  OBVIOUS
<1>1. TypeInv
  <2>1. action \in [RuleIds -> Actions]
    BY BookTypes DEF Init
  <2>2. \A w \in Workers : job[w] = Idle
    BY DEF Init
  <2>3. NoAnswer \in Answers /\ Idle \in Jobs
    BY DEF NoAnswer, Answers, Idle, Jobs
  <2> QED
    BY <2>1, <2>3, PolicyAssumption DEF Init, TypeInv, RuleIds
<1>2. RulesInv
  BY DEF Init, RulesInv
<1>3. JobsInv /\ AnswersInv
  BY DEF Init, JobsInv, AnswersInv, JobSound, AnswerSound, Idle, NoAnswer
<1> QED
  BY <1>1, <1>2, <1>3 DEF PolicyInv

\* Every step keeps the invariant.
LEMMA PolicyInvStep == PolicyInv /\ [Next]_vars => PolicyInv'
<1> SUFFICES ASSUME PolicyInv, [Next]_vars PROVE PolicyInv'
  OBVIOUS
<1>1. CASE UNCHANGED vars
  BY <1>1 DEF vars, PolicyInv, TypeInv, RulesInv, JobsInv, AnswersInv
<1> QED
  BY <1>1, StartStep, EvaluateStep, CountStep, StoreStep, ReviewStep, AdministerStep DEF Next

-----------------------------------------------------------------------------
(* What the seeded rules make of a request *)

\* Normalising keeps what is given, and adds the aliases of what is given only.
LEMMA NormaliseFacts ==
  ASSUME NEW params
  PROVE  /\ \A f \in DOMAIN params : f \in DOMAIN Normalise(params) /\ Normalise(params)[f] = params[f]
         /\ \A f \in DOMAIN Normalise(params) \ DOMAIN params :
              f \in DOMAIN Aliases /\ Aliases[f] \in DOMAIN params
BY DEF Normalise

\* A word is looked for in the order of the code.
LEMMA Dispatched ==
  ASSUME NEW rule
  PROVE  /\ rule.words = {"time"} => Check(rule) = "TimeWindow"
         /\ rule.words = {"calls"} => Check(rule) = "CallFrequency"
<1> DEFINE I == {i \in 1..Len(Dispatch) : Named(rule, Dispatch[i].words)}
           n == IF I # {} THEN Min(I) ELSE 0
<1>1. Check(rule) = IF n = 0 THEN "Skipped" ELSE Dispatch[n].check
  BY DEF Check, SelectInSeq
<1>2. /\ 1 \in 1..Len(Dispatch) /\ 2 \in 1..Len(Dispatch)
      /\ Dispatch[1].words = {"time", "window"} /\ Dispatch[1].check = "TimeWindow"
      /\ Dispatch[2].words = {"calls", "frequency"} /\ Dispatch[2].check = "CallFrequency"
      /\ Len(Dispatch) \in Nat
  BY DEF Dispatch
<1>3. ASSUME NEW m \in I, \A i \in I : m <= i
      PROVE  n = m
  <2>1. Min(I) \in I /\ \A i \in I : Min(I) <= i
    BY <1>3 DEF Min
  <2>2. m \in Int /\ Min(I) \in Int
    BY <1>2, <1>3, <2>1
  <2>3. m <= Min(I) /\ Min(I) <= m
    BY <1>3, <2>1
  <2>4. n = Min(I)
    BY <1>3
  <2> QED
    BY <2>2, <2>3, <2>4
<1>4. ASSUME rule.words = {"time"}
      PROVE  Check(rule) = "TimeWindow"
  <2>1. 1 \in I /\ \A i \in I : 1 <= i
    BY <1>2, <1>4 DEF Named
  <2>2. n = 1
    BY <1>3, <2>1
  <2> HIDE DEF n
  <2> QED
    BY <1>1, <1>2, <2>2
<1>5. ASSUME rule.words = {"calls"}
      PROVE  Check(rule) = "CallFrequency"
  <2>1. 2 \in I /\ 1 \notin I
    BY <1>2, <1>5 DEF Named
  <2>2. \A i \in I : 2 <= i
    BY <1>2, <2>1
  <2>3. n = 2
    BY <1>3, <2>1, <2>2
  <2> HIDE DEF n
  <2> QED
    BY <1>1, <1>2, <2>3
<1> QED
  BY <1>4, <1>5

\* A seeded collections rule under any action, as it is dispatched.
LEMMA SeededCall ==
  ASSUME NEW id \in SeedIds, id[1] \in {"Hours", "Calls"}, NEW a \in Actions,
         NEW rule, rule = [Book[id] EXCEPT !.action = a]
  PROVE  /\ Book[id].action = "BLOCK"
         /\ Collections(rule)
         /\ id[1] = "Hours" => Check(rule) = "TimeWindow"
         /\ id[1] = "Calls" => Check(rule) = "CallFrequency" /\ Limit(rule) = 6
<1>1. id[2] # "Seed"
  BY LoanRules DEF SeedIds, CollectionsWords
<1>2. Book[id] = Reg_F(id[1])
  BY <1>1 DEF Book, RuleIds, Seeds
<1>3. /\ Book[id].action = "BLOCK" /\ rule.type = "REG_F"
      /\ rule.words = CollectionsWords[id[1]]
      /\ rule.value = IF id[1] = "Calls" THEN 6 ELSE 0
  BY <1>2 DEF Reg_F
<1>4. /\ id[1] = "Hours" => rule.words = {"time"}
      /\ id[1] = "Calls" => rule.words = {"calls"}
  BY <1>3 DEF CollectionsWords
<1>5. Collections(rule)
  BY <1>3 DEF Collections
<1>6. id[1] = "Calls" => Limit(rule) = 6
  BY <1>3 DEF Limit
<1>7. /\ rule.words = {"time"} => Check(rule) = "TimeWindow"
      /\ rule.words = {"calls"} => Check(rule) = "CallFrequency"
  BY Dispatched
<1> QED
  BY <1>3, <1>4, <1>5, <1>6, <1>7

\* A request to the dialer, as it is parsed.
LEMMA DialerRequest ==
  ASSUME NEW k \in DOMAIN Inputs, Inputs[k].tool = "dialer"
  PROVE  /\ Parse(Inputs[k]).tool.name = "dialer"
         /\ Parse(Inputs[k]).tool.requiresComplianceCheck
         /\ Parse(Inputs[k]).params = Normalise(Inputs[k].params)
BY DEF Parse, Tools

\* A call outside the hours always fails the rules about the hours.
LEMMA HoursFail ==
  ASSUME NEW k \in DOMAIN Inputs, Inputs[k].tool = "dialer",
         Or(Inputs[k], "localTime", 720) \notin 480..1259,
         NEW id \in SeedIds, id[1] = "Hours"
  PROVE  Fails(k, id)
<1> DEFINE req == Parse(Inputs[k])
           t == Inputs[k].params["localTime"]
<1>1. "localTime" \in DOMAIN Inputs[k].params /\ t \notin 480..1259
  BY DEF Or, Given
<1>2. t \in Nat
  BY <1>1, PolicyAssumption DEF Numbers
<1>3. "localTime" \in DOMAIN req.params /\ req.params["localTime"] = t
  BY <1>1, DialerRequest, NormaliseFacts
<1>4. req.tool.name = "dialer" /\ req.tool.requiresComplianceCheck
  BY DialerRequest
<1> HIDE DEF req, t
<1>5. ASSUME NEW a \in Actions, NEW now \in Clock
      PROVE  LET rule == [Book[id] EXCEPT !.action = a]
             IN ~Counts(rule, req) /\ ~Passes(rule, req, now, Sanctions)
  <2>1. PICK rule : rule = [Book[id] EXCEPT !.action = a]
    OBVIOUS
  <2>2. Collections(rule) /\ Check(rule) = "TimeWindow"
    BY <2>1, SeededCall
  <2>3. ~Counts(rule, req)
    BY <2>2 DEF Counts
  <2>4. ~InWindow(req, now)
    BY <1>1, <1>2, <1>3 DEF InWindow, Given
  <2>5. ~CollectionsPass(rule, req, now)
    BY <1>4, <2>2, <2>4 DEF CollectionsPass
  <2> QED
    BY <2>1, <2>2, <2>3, <2>5 DEF Passes
<1>6. Book[id].action = "BLOCK"
  BY SeededCall DEF Actions
<1> QED
  BY <1>4, <1>5, <1>6 DEF Fails, req

\* A call with more than seven declared attempts always fails the rules about
\* their number.
LEMMA AttemptsFail ==
  ASSUME NEW k \in DOMAIN Inputs, Inputs[k].tool = "dialer",
         "customerId" \in DOMAIN Inputs[k].params,
         Or(Inputs[k], "contactAttemptsLast7Days", 0) > 7,
         NEW id \in SeedIds, id[1] = "Calls"
  PROVE  Fails(k, id)
<1> DEFINE req == Parse(Inputs[k])
           n == Inputs[k].params["contactAttemptsLast7Days"]
<1>1. "contactAttemptsLast7Days" \in DOMAIN Inputs[k].params /\ n > 7
  BY DEF Or, Given
<1>2. n \in Nat
  BY <1>1, PolicyAssumption DEF Numbers
<1>3. /\ "contactAttemptsLast7Days" \in DOMAIN req.params
      /\ req.params["contactAttemptsLast7Days"] = n
      /\ "customerId" \in DOMAIN req.params
  BY <1>1, DialerRequest, NormaliseFacts
<1>4. req.tool.name = "dialer" /\ req.tool.requiresComplianceCheck
  BY DialerRequest
<1> HIDE DEF req, n
<1>5. ASSUME NEW a \in Actions, NEW now \in Clock
      PROVE  LET rule == [Book[id] EXCEPT !.action = a]
             IN ~Counts(rule, req) /\ ~Passes(rule, req, now, Sanctions)
  <2>1. PICK rule : rule = [Book[id] EXCEPT !.action = a]
    OBVIOUS
  <2>2. Collections(rule) /\ Check(rule) = "CallFrequency" /\ Limit(rule) = 6
    BY <2>1, SeededCall
  <2>3. ~Counts(rule, req)
    BY <1>3 DEF Counts, Given
  <2>4. First(req, "contactAttemptsLast7Days", "calls_last_7_days", 0) = n
    BY <1>3 DEF First, Or, Given
  <2>5. ~FewCalls(rule, req)
    BY <1>1, <1>2, <1>3, <2>2, <2>4 DEF FewCalls, WithinLimit, Given
  <2>6. ~CollectionsPass(rule, req, now)
    BY <1>4, <2>2, <2>5 DEF CollectionsPass
  <2> QED
    BY <2>1, <2>2, <2>3, <2>6 DEF Passes
<1>6. Book[id].action = "BLOCK"
  BY SeededCall DEF Actions
<1> QED
  BY <1>4, <1>5, <1>6 DEF Fails, req

\* The one condition of the seeded debt rule: a largest ratio.
DebtLimit == [type |-> "threshold", field |-> "debt_to_income_ratio",
              operator |-> "lte", value |-> 430]

\* The seeded debt rule as it is read.
LEMMA SeededDebt ==
  ASSUME NEW id \in SeedIds, id[1] = "MaxDTI"
  PROVE  Book[id] = [type |-> "QM", words |-> {"dti"}, action |-> "BLOCK", value |-> 0,
                     conditions |-> <<DebtLimit>>]
<1>1. id[2] = "Seed"
  BY DEF SeedIds, CollectionsWords
<1>2. Book[id] = Underwriting["MaxDTI"]
  BY <1>1 DEF Book, RuleIds, Seeds
<1> QED
  BY <1>2 DEF Underwriting, DebtLimit

\* A ratio above 43% and within 100% is above 430 thousandths and within 1000.
LEMMA RatioBounds ==
  ASSUME NEW d \in Nat, NEW i \in Nat, 100 * d > 43 * i, d <= i
  PROVE  /\ i > 0 /\ d > 0
         /\ -((-1000 * d) \div i) \in Int
         /\ -((-1000 * d) \div i) > 430
         /\ -((-1000 * d) \div i) <= 1000
<1>1. i > 0 /\ d > 0
  OBVIOUS
<1> DEFINE q == (-1000 * d) \div i
           m == (-1000 * d) % i
<1>2. q \in Int /\ m \in Int /\ 0 <= m /\ m < i /\ -1000 * d = i * q + m
  BY <1>1
<1> HIDE DEF q, m
<1>3. q < -430
  <2> SUFFICES ASSUME q >= -430 PROVE FALSE
    BY <1>2
  <2>1. i * q >= i * (-430)
    BY <1>1, <1>2
  <2> QED
    BY <1>1, <1>2, <2>1
<1>4. q >= -1000
  <2> SUFFICES ASSUME q <= -1001 PROVE FALSE
    BY <1>2
  <2>1. i * q <= i * (-1001)
    BY <1>1, <1>2
  <2> QED
    BY <1>1, <1>2, <2>1
<1> QED
  BY <1>1, <1>2, <1>3, <1>4 DEF q

\* A loan whose computed ratio is above 43% fails that rule.
LEMMA DebtRule ==
  ASSUME NEW id \in SeedIds, id[1] = "MaxDTI", NEW a \in Actions, NEW req, NEW now,
         req.tool.name = "loan-underwriter", "debt_to_income_ratio" \notin DOMAIN req.params,
         ~Compare("lte", Scaled(Ratio(req), 430), 430)
  PROVE  LET rule == [Book[id] EXCEPT !.action = a]
         IN ~Counts(rule, req) /\ ~Passes(rule, req, now, Sanctions)
<1>1. PICK rule : rule = [Book[id] EXCEPT !.action = a]
  OBVIOUS
<1>2. /\ rule.type = "QM" /\ rule.words = {"dti"}
      /\ rule.conditions = <<DebtLimit>>
  <2>1. Book[id] = [type |-> "QM", words |-> {"dti"}, action |-> "BLOCK", value |-> 0,
                    conditions |-> <<DebtLimit>>]
    BY SeededDebt
  <2> QED
    BY <1>1, <2>1
<1>3. ~Collections(rule)
  BY <1>2 DEF Collections, Named
<1>4. ~ConditionMet(DebtLimit, req)
  <2>1. /\ DebtLimit.type = "threshold" /\ DebtLimit.field = "debt_to_income_ratio"
        /\ DebtLimit.operator = "lte" /\ DebtLimit.value = 430
    BY DEF DebtLimit
  <2> QED
    BY <2>1 DEF ConditionMet, Given
<1>5. ~SamplePass(rule, req)
  <2>1. 1 \in DOMAIN rule.conditions /\ rule.conditions[1] = DebtLimit
    BY <1>2
  <2> QED
    BY <1>2, <1>4, <2>1 DEF SamplePass
<1>6. rule.conditions # <<>>
  BY <1>2
<1> QED
  BY <1>1, <1>3, <1>5, <1>6 DEF Passes, Counts

\* A loan whose debt is above 43% of the income, and within the income, always
\* fails the seeded debt rule.
LEMMA DebtFails ==
  ASSUME NEW k \in DOMAIN Inputs, Inputs[k].tool = "loan-underwriter",
         "debt_to_income_ratio" \notin DOMAIN Inputs[k].params,
         100 * Or(Inputs[k], "monthlyDebt", 0) > 43 * Or(Inputs[k], "monthlyIncome", 0),
         Or(Inputs[k], "monthlyDebt", 0) <= Or(Inputs[k], "monthlyIncome", 0),
         NEW id \in SeedIds, id[1] = "MaxDTI"
  PROVE  Fails(k, id)
<1> DEFINE req == Parse(Inputs[k])
           d == Or(Inputs[k], "monthlyDebt", 0)
           i == Or(Inputs[k], "monthlyIncome", 0)
<1>1. d \in Nat /\ i \in Nat /\ 100 * d > 43 * i /\ d <= i
  BY PolicyAssumption DEF Or, Given, Numbers
<1> HIDE DEF d, i
<1>2. i > 0 /\ d > 0
  BY <1>1, RatioBounds
<1>3. /\ "monthlyDebt" \in DOMAIN Inputs[k].params /\ Inputs[k].params["monthlyDebt"] = d
      /\ "monthlyIncome" \in DOMAIN Inputs[k].params /\ Inputs[k].params["monthlyIncome"] = i
  BY <1>2 DEF d, i, Or, Given
<1>4. /\ req.tool.name = "loan-underwriter" /\ req.tool.requiresComplianceCheck
      /\ req.params = Normalise(Inputs[k].params)
  BY DEF Parse, Tools
<1>5. /\ "monthlyDebt" \in DOMAIN req.params /\ req.params["monthlyDebt"] = d
      /\ "monthlyIncome" \in DOMAIN req.params /\ req.params["monthlyIncome"] = i
      /\ "debt_to_income_ratio" \notin DOMAIN req.params
  BY <1>3, <1>4, NormaliseFacts DEF Aliases
<1> HIDE DEF req
<1>6. Ratio(req) \in Int /\ Ratio(req) > 430 /\ Ratio(req) <= 1000
  <2>1. Ratio(req) = -((-1000 * d) \div i)
    BY <1>5 DEF Ratio, Unit
  <2> QED
    BY <1>1, <2>1, RatioBounds
<1>7. ~Compare("lte", Scaled(Ratio(req), 430), 430)
  <2>1. Scaled(Ratio(req), 430) = Ratio(req)
    BY <1>6 DEF Scaled, Unit
  <2> QED
    BY <1>6, <2>1 DEF Compare
<1>8. ASSUME NEW a \in Actions, NEW now \in Clock
      PROVE  LET rule == [Book[id] EXCEPT !.action = a]
             IN ~Counts(rule, req) /\ ~Passes(rule, req, now, Sanctions)
  BY <1>4, <1>5, <1>7, DebtRule
<1>9. Book[id].action = "BLOCK"
  BY SeededDebt DEF Actions
<1> QED
  BY <1>4, <1>8, <1>9 DEF Fails, req

-----------------------------------------------------------------------------
(* The theorems *)

\* The shape of every variable: the cache holds stored rules only, a job
\* carries what its stage has established, and an engine's failed checks are
\* checks.
THEOREM TypeCorrect == Spec => []TypeOK
<1>1. PolicyInv => TypeOK
  <2> SUFFICES ASSUME PolicyInv PROVE TypeOK
    OBVIOUS
  <2>1. \A w \in Workers :
          /\ job[w].stage \in {"idle", "evaluate", "count", "store"}
          /\ job[w].stage # "idle" => input[job[w].req] # "none"
          /\ job[w].stage = "count" => job[w].pending # {} /\ job[w].pending \subseteq RuleIds
          /\ job[w].stage = "store" => job[w].verdict \in {"APPROVE", "BLOCK", "ESCALATE"}
    BY JobTypes DEF PolicyInv, JobsInv, JobSound, Decisions
  <2>2. \A r \in Requests :
          /\ answer[r].verdict \in {"NONE", "APPROVE", "BLOCK", "ESCALATE"}
          /\ answer[r].by \in {"nobody", "engine", "reviewer"}
          /\ answer[r].failed \subseteq Checks /\ answer[r].errors \subseteq RuleIds
    BY DEF PolicyInv, TypeInv, Answers, Decisions
  <2> QED
    BY <2>1, <2>2 DEF PolicyInv, TypeInv, TypeOK
<1> QED
  BY <1>1, PolicyInvInit, PolicyInvStep, PTL DEF Spec

\* A request that failed a blocking rule nobody changed the action of, or a
\* check that is no rule, is blocked, whatever was edited before decide().
THEOREM BlockedRegardlessHolds == Spec => []BlockedRegardless
<1>1. PolicyInv => BlockedRegardless
  BY DEF PolicyInv, AnswersInv, AnswerSound, Sound, BlockedRegardless, Engine
<1> QED
  BY <1>1, PolicyInvInit, PolicyInvStep, PTL DEF Spec

\* While no escalation threshold is above 0.75, the engine approves no call
\* that failed a collections rule or could not be counted.
THEOREM HeldBackHolds == Cautious => (Spec => []HeldBack)
<1>1. Cautious /\ PolicyInv => HeldBack
  BY DEF PolicyInv, AnswersInv, AnswerSound, Sound, HeldBack, Engine
<1>2. ASSUME Cautious PROVE Spec => []HeldBack
  <2>1. PolicyInv => HeldBack
    BY <1>1, <1>2
  <2> QED
    BY <2>1, PolicyInvInit, PolicyInvStep, PTL DEF Spec
<1> QED
  BY <1>2

\* Story 2 of the product specification, whatever rules are created or edited
\* meanwhile, for any number of workers and with any thresholds: the calls it
\* names are blocked, the loans not approved, while one seeded variant of the
\* rule was left alone.
THEOREM Story2KeptHolds == Spec => []Story2Kept
<1>1. PolicyInv => Story2Kept
  <2> SUFFICES ASSUME PolicyInv, NEW r \in Requests, Engine(r)
               PROVE  /\ OutsideHours(r) /\ Standing("Hours") => answer[r].verdict = "BLOCK"
                      /\ ManyAttempts(r) /\ Standing("Calls") => answer[r].verdict = "BLOCK"
                      /\ Indebted(r) /\ Standing("MaxDTI") => answer[r].verdict # "APPROVE"
    BY DEF Story2Kept
  <2>1. input[r] \in DOMAIN Inputs
        /\ \A id \in SeedIds : Standard(edited, id) /\ Fails(input[r], id) => answer[r].verdict = "BLOCK"
    BY DEF PolicyInv, TypeInv, AnswersInv, AnswerSound, Sound, Engine
  <2>2. ASSUME NEW subject, Standing(subject)
        PROVE  \E id \in SeedIds : id[1] = subject /\ Standard(edited, id)
    BY <2>2 DEF Standing, Standard
  <2>3. ASSUME OutsideHours(r), Standing("Hours")
        PROVE  answer[r].verdict = "BLOCK"
    <3>1. Raw(r).tool = "dialer" /\ Or(Inputs[input[r]], "localTime", 720) \notin 480..1259
      BY <2>3 DEF OutsideHours, Raw, Param
    <3> QED
      BY <2>1, <2>2, <2>3, <3>1, HoursFail DEF Raw
  <2>4. ASSUME ManyAttempts(r), Standing("Calls")
        PROVE  answer[r].verdict = "BLOCK"
    <3>1. /\ Inputs[input[r]].tool = "dialer" /\ "customerId" \in DOMAIN Inputs[input[r]].params
          /\ Or(Inputs[input[r]], "contactAttemptsLast7Days", 0) > 7
      BY <2>4 DEF ManyAttempts, Raw, Param
    <3> QED
      BY <2>1, <2>2, <2>4, <3>1, AttemptsFail
  <2>5. ASSUME Indebted(r), Standing("MaxDTI")
        PROVE  answer[r].verdict # "APPROVE"
    <3> DEFINE k == input[r]
    <3>1. /\ Inputs[k].tool = "loan-underwriter"
          /\ "debt_to_income_ratio" \notin DOMAIN Inputs[k].params
          /\ 100 * Or(Inputs[k], "monthlyDebt", 0) > 43 * Or(Inputs[k], "monthlyIncome", 0)
          /\ Or(Inputs[k], "monthlyDebt", 0) <= Or(Inputs[k], "monthlyIncome", 0)
      BY <2>5 DEF Indebted, Raw, Param
    <3>2. \A id \in SeedIds : id[1] = "MaxDTI" => Fails(k, id)
      BY <2>1, <3>1, DebtFails
    <3> QED
      BY <2>1, <2>2, <2>5, <3>2
  <2> QED
    BY <2>3, <2>4, <2>5
<1> QED
  BY <1>1, PolicyInvInit, PolicyInvStep, PTL DEF Spec

-----------------------------------------------------------------------------
(* The cap on calls.  One worker counts what is stored, and nobody else     *)
(* stores an approval of the engine until it has decided: what it counted   *)
(* still holds then.                                                        *)

OneWorker == \A v, w \in Workers : v = w

\* A request of kind k calls customer c and leaves the counting to the engine.
Uncounted(k, c) ==
  /\ Inputs[k].tool = "dialer"
  /\ "contactAttemptsLast7Days" \notin DOMAIN Inputs[k].params
  /\ "calls_last_7_days" \notin DOMAIN Inputs[k].params
  /\ "customerId" \in DOMAIN Inputs[k].params
  /\ Inputs[k].params["customerId"] = c

CallsTo(c) == {r \in Requests : /\ Engine(r) /\ answer[r].verdict = "APPROVE"
                                /\ Uncounted(input[r], c)}

Below(c) == history[c] + Cardinality(CallsTo(c)) < 6

\* A standing rule waits for its count, or failed, or found room for one more.
CountInv ==
  \A w \in Workers, c \in Customers, id \in SeedIds :
    /\ job[w].stage = "count" /\ Uncounted(input[job[w].req], c)
    /\ id[1] = "Calls" /\ Standard(edited, id)
    => id \in job[w].pending \/ "HIGH" \in job[w].severities \/ Below(c)

\* So an approval that is about to be stored has room.
RoomInv ==
  \A w \in Workers, c \in Customers :
    /\ job[w].stage = "store" /\ Uncounted(input[job[w].req], c)
    /\ job[w].verdict = "APPROVE" /\ Standing("Calls")
    => Below(c)

AtCap(c) == history[c] + Cardinality(CallsTo(c)) <= 6
CapInv ==
  /\ CountInv /\ RoomInv
  /\ \A c \in Customers : Standing("Calls") /\ CallsTo(c) # {} => AtCap(c)

\* The rules about the number of calls count, and have one limit.
LEMMA CountedRule ==
  ASSUME TypeInv, NEW id \in SeedIds, id[1] = "Calls"
  PROVE  /\ Collections(Book[id]) /\ Limit(Book[id]) = 6
         /\ Collections(Rule(id)) /\ Check(Rule(id)) = "CallFrequency"
<1>1. action[id] \in Actions /\ Book[id].action \in Actions
  BY SeededCall DEF TypeInv, RuleIds, Actions
<1>2. Collections(Rule(id)) /\ Check(Rule(id)) = "CallFrequency"
  BY <1>1, SeededCall DEF Rule
<1>3. id[2] # "Seed"
  BY LoanRules DEF SeedIds, CollectionsWords
<1>4. Book[id] = Reg_F("Calls")
  BY <1>3 DEF Book, RuleIds, Seeds
<1>5. Book[id].type = "REG_F" /\ Book[id].value = 6
  BY <1>4 DEF Reg_F
<1> QED
  BY <1>2, <1>5 DEF Collections, Limit

\* The calls the engine approved are finitely many, and all of them are among
\* those a count finds.
LEMMA CountFinds ==
  ASSUME PolicyInv, NEW c \in Customers
  PROVE  /\ IsFiniteSet(CallsTo(c)) /\ Cardinality(CallsTo(c)) \in Nat
         /\ history[c] \in Nat
         /\ Approved(c) \in Nat /\ Approved(c) >= history[c] + Cardinality(CallsTo(c))
<1> DEFINE found == {r \in Requests : /\ answer[r].verdict = "APPROVE"
                                      /\ Or(Request(r), "customerId", "") = c}
<1>1. IsFiniteSet(Requests)
  BY PolicyAssumption
<1>2. IsFiniteSet(found) /\ IsFiniteSet(CallsTo(c))
  BY <1>1, FS_Subset DEF CallsTo
<1>3. CallsTo(c) \subseteq found
  <2> SUFFICES ASSUME NEW r \in CallsTo(c) PROVE r \in found
    OBVIOUS
  <2>1. /\ r \in Requests /\ answer[r].verdict = "APPROVE" /\ Uncounted(input[r], c)
    BY DEF CallsTo
  <2>2. Request(r).params = Normalise(Inputs[input[r]].params)
    BY DEF Request, Parse
  <2>3. Or(Request(r), "customerId", "") = c
    BY <2>1, <2>2, NormaliseFacts DEF Or, Given, Uncounted
  <2> QED
    BY <2>1, <2>3
<1>4. /\ Cardinality(found) \in Nat /\ Cardinality(CallsTo(c)) \in Nat
      /\ Cardinality(CallsTo(c)) <= Cardinality(found)
  BY <1>2, <1>3, FS_CardinalityType, FS_Subset
<1>5. history[c] \in Nat
  BY PolicyAssumption DEF PolicyInv, TypeInv
<1>6. Approved(c) = history[c] + Cardinality(found)
  BY DEF Approved
<1> HIDE DEF found
<1> QED
  BY <1>2, <1>4, <1>5, <1>6

\* Where the engine's answers stay, so do the calls it approved.
LEMMA CallsToKept ==
  ASSUME PolicyInv, NEW c,
         \A r \in Requests : answer'[r] = answer[r]
           \/ (answer[r].verdict = "ESCALATE" /\ answer'[r].by = "reviewer"),
         \A r \in Requests : input[r] # "none" => input'[r] = input[r]
  PROVE  CallsTo(c)' = CallsTo(c)
<1>1. \A r \in Requests : Engine(r) => input'[r] = input[r]
  BY DEF PolicyInv, AnswersInv, AnswerSound, Engine
<1>2. ASSUME NEW r \in Requests
      PROVE  (Engine(r) /\ answer[r].verdict = "APPROVE" /\ Uncounted(input[r], c))
               <=> (Engine(r) /\ answer[r].verdict = "APPROVE" /\ Uncounted(input[r], c))'
  <2>1. CASE answer'[r] = answer[r]
    <3>1. CASE Engine(r)
      <4>1. input'[r] = input[r]
        BY <1>1, <3>1
      <4> QED
        BY <2>1, <4>1 DEF Engine, Uncounted
    <3>2. CASE ~Engine(r)
      BY <2>1, <3>2 DEF Engine
    <3> QED
      BY <3>1, <3>2
  <2>2. CASE answer[r].verdict = "ESCALATE" /\ answer'[r].by = "reviewer"
    BY <2>2 DEF Engine
  <2> QED
    BY <2>1, <2>2
<1> QED
  BY <1>2 DEF CallsTo

\* A variant that stands now stood before.
LEMMA StoodBefore ==
  ASSUME edited \subseteq edited'
  PROVE  /\ \A id : Standard(edited', id) => Standard(edited, id)
         /\ Standing("Calls")' => Standing("Calls")
BY DEF Standard, Standing

\* Steps that store no answer of the engine keep the cap, and what was counted.
LEMMA CapStays ==
  ASSUME PolicyInv, CapInv, edited \subseteq edited', history' = history,
         \A c \in Customers : CallsTo(c)' = CallsTo(c)
  PROVE  /\ \A c \in Customers : Below(c)' <=> Below(c)
         /\ \A c \in Customers : Standing("Calls")' /\ CallsTo(c)' # {} => AtCap(c)'
<1>1. \A c \in Customers : (Below(c)' <=> Below(c)) /\ (AtCap(c)' <=> AtCap(c))
  BY DEF Below, AtCap
<1> QED
  BY <1>1, StoodBefore DEF CapInv

\* A call the engine has to count is counted by every standing rule.
LEMMA EvaluateCap ==
  ASSUME OneWorker, PolicyInv, CapInv, NEW w \in Workers, Evaluate(w)
  PROVE  CapInv'
<1>0. /\ job[w] \in [stage : {"evaluate"}, req : Requests] /\ job[w].stage = "evaluate"
      /\ input[job[w].req] # "none"
      /\ UNCHANGED <<admin, input, answer, errors, history>>
  BY JobTypes DEF PolicyInv, JobsInv, JobSound, Evaluate
<1> DEFINE r == job[w].req
           req == Request(r)
           rules == IF req.tool.requiresComplianceCheck THEN active ELSE {}
           counting == {id \in rules : Counts(Rule(id), req)}
<1>1. PICK now \in Clock :
        LET failed == {id \in rules \ counting : ~Passes(Rule(id), req, now, Sanctions)}
            severities == {Severity(Rule(id)) : id \in failed}
        IN IF counting = {}
           THEN Concluded(w, r, failed, {}, severities)
           ELSE job' = [job EXCEPT ![w] =
                  [stage |-> "count", req |-> r, pending |-> counting, failed |-> failed,
                   errors |-> {}, severities |-> severities]]
  BY DEF Evaluate
<1>2. ASSUME NEW c, Uncounted(input[r], c), NEW id \in SeedIds, id[1] = "Calls",
             Standard(edited, id)
      PROVE  id \in counting
  <2>1. /\ Inputs[input[r]].tool = "dialer" /\ input[r] \in DOMAIN Inputs
        /\ req = Parse(Inputs[input[r]])
    BY <1>0, <1>2 DEF Uncounted, PolicyInv, TypeInv, Request
  <2>2. /\ req.tool.name = "dialer" /\ req.tool.requiresComplianceCheck
        /\ req.params = Normalise(Inputs[input[r]].params)
    BY <2>1, DialerRequest
  <2>3. /\ Given(req, "customerId")
        /\ ~Given(req, "contactAttemptsLast7Days") /\ ~Given(req, "calls_last_7_days")
    BY <1>2, <2>2, NormaliseFacts DEF Uncounted, Given, Aliases
  <2>4. Collections(Rule(id)) /\ Check(Rule(id)) = "CallFrequency"
    BY <1>2, CountedRule DEF PolicyInv
  <2>5. id \in active
    BY <1>2 DEF PolicyInv, RulesInv, Standard
  <2> QED
    BY <2>2, <2>3, <2>4, <2>5 DEF Counts
<1>3. edited' = edited /\ \A c \in Customers : CallsTo(c)' = CallsTo(c)
  BY <1>0, CallsToKept DEF admin
<1>4. /\ \A c \in Customers : Below(c)' <=> Below(c)
      /\ \A c \in Customers : Standing("Calls")' /\ CallsTo(c)' # {} => AtCap(c)'
  BY <1>0, <1>3, CapStays
<1>5. \A v \in Workers : v = w
  BY DEF OneWorker
<1>6. job \in [Workers -> Jobs]
  BY DEF PolicyInv, TypeInv
<1> DEFINE failed == {id \in rules \ counting : ~Passes(Rule(id), req, now, Sanctions)}
           severities == {Severity(Rule(id)) : id \in failed}
<1>7. CASE counting = {}
  <2>1. Concluded(w, r, failed, {}, severities)
    BY <1>1, <1>7
  <2>2. job'[w].stage = "store" /\ job'[w].req = r
    BY <1>6, <2>1 DEF Concluded, Decided
  <2>3. \A c : ~(Uncounted(input[r], c) /\ Standing("Calls"))
    BY <1>2, <1>7 DEF Standing, Standard
  <2>4. CountInv'
    BY <1>5, <2>2 DEF CountInv
  <2>5. RoomInv'
    BY <1>0, <1>3, <1>5, <2>2, <2>3 DEF RoomInv, Standing
  <2> QED
    BY <1>4, <2>4, <2>5 DEF CapInv
<1>8. CASE counting # {}
  <2>1. job' = [job EXCEPT ![w] = [stage |-> "count", req |-> r, pending |-> counting,
                                   failed |-> failed, errors |-> {}, severities |-> severities]]
    BY <1>1, <1>8
  <2> HIDE DEF failed, severities, counting
  <2>2. job'[w].stage = "count" /\ job'[w].req = r /\ job'[w].pending = counting
    BY <1>6, <2>1
  <2>3. CountInv'
    <3> SUFFICES ASSUME NEW v \in Workers, NEW c \in Customers, NEW id \in SeedIds,
                        Uncounted(input'[job'[v].req], c), id[1] = "Calls", Standard(edited', id)
                 PROVE  id \in job'[v].pending
      BY DEF CountInv
    <3>1. v = w /\ Uncounted(input[r], c) /\ Standard(edited, id)
      BY <1>0, <1>3, <1>5, <2>2
    <3> QED
      BY <1>2, <2>2, <3>1
  <2>4. RoomInv'
    BY <1>5, <2>2 DEF RoomInv
  <2> QED
    BY <1>4, <2>3, <2>4 DEF CapInv
<1> QED
  BY <1>7, <1>8

\* A count finds at least the calls the engine approved; a failing one is held
\* against the call.
LEMMA CountCap ==
  ASSUME Cautious, OneWorker, PolicyInv, CapInv, NEW w \in Workers, Count(w) \/ CountFails(w)
  PROVE  CapInv'
<1>0. /\ job[w] \in [stage : {"count"}, req : Requests, pending : SUBSET RuleIds,
                     failed : SUBSET RuleIds, errors : SUBSET RuleIds,
                     severities : SUBSET Severities]
      /\ job[w].stage = "count"
      /\ Noted(input[job[w].req], edited, job[w].failed, job[w].errors, job[w].severities)
      /\ UNCHANGED <<admin, input, answer, history>>
  BY JobTypes DEF PolicyInv, JobsInv, JobSound, Count, CountFails
<1>1. edited' = edited /\ \A c \in Customers : CallsTo(c)' = CallsTo(c)
  BY <1>0, CallsToKept DEF admin
<1>2. /\ \A c \in Customers : Below(c)' <=> Below(c)
      /\ \A c \in Customers : Standing("Calls")' /\ CallsTo(c)' # {} => AtCap(c)'
  BY <1>0, <1>1, CapStays
<1>3. \A v \in Workers : v = w
  BY DEF OneWorker
<1>4. job \in [Workers -> Jobs]
  BY DEF PolicyInv, TypeInv
<1> DEFINE r == job[w].req
           k == input[r]
<1>5. ASSUME NEW id \in job[w].pending, NEW failed, NEW errs, NEW severities,
             failed \in SUBSET RuleIds, errs \in SUBSET RuleIds, severities \in SUBSET Severities,
             Noted(k, edited, failed, errs, severities),
             job[w].severities \subseteq severities,
             \A c \in Customers : Uncounted(k, c) /\ id \in SeedIds /\ id[1] = "Calls"
               => "HIGH" \in severities \/ Below(c),
             Counted(w, id, failed, errs, severities)
      PROVE  CapInv'
  <2>1. PICK j \in Jobs :
          /\ job' = [job EXCEPT ![w] = j] /\ j.req = r
          /\ \/ j.stage = "count" /\ j.pending = job[w].pending \ {id} /\ j.severities = severities
             \/ /\ j.stage = "store" /\ job[w].pending = {id}
                /\ "HIGH" \in severities => j.verdict # "APPROVE"
    BY <1>0, <1>5, CountedJob
  <2>2. job'[w] = j
    BY <1>4, <2>1
  <2>3. ASSUME NEW c \in Customers, Uncounted(k, c), NEW rule \in SeedIds, rule[1] = "Calls",
               Standard(edited, rule)
        PROVE  rule \in job[w].pending \ {id} \/ "HIGH" \in severities \/ Below(c)
    BY <1>0, <1>5, <2>3 DEF CapInv, CountInv
  <2>4. CountInv'
    <3> SUFFICES ASSUME NEW v \in Workers, NEW c \in Customers, NEW rule \in SeedIds,
                        job'[v].stage = "count", Uncounted(input'[job'[v].req], c),
                        rule[1] = "Calls", Standard(edited', rule)
                 PROVE  rule \in job'[v].pending \/ "HIGH" \in job'[v].severities \/ Below(c)'
      BY DEF CountInv
    <3>1. v = w /\ Uncounted(k, c) /\ Standard(edited, rule)
      BY <1>0, <1>1, <1>3, <2>1, <2>2
    <3>2. j.pending = job[w].pending \ {id} /\ j.severities = severities
      BY <2>1, <2>2, <3>1
    <3> QED
      BY <1>2, <2>2, <2>3, <3>1, <3>2
  <2>5. RoomInv'
    <3> SUFFICES ASSUME NEW v \in Workers, NEW c \in Customers, job'[v].stage = "store",
                        Uncounted(input'[job'[v].req], c), job'[v].verdict = "APPROVE",
                        Standing("Calls")'
                 PROVE  Below(c)'
      BY DEF RoomInv
    <3>1. v = w /\ Uncounted(k, c)
      BY <1>0, <1>3, <2>1, <2>2
    <3>2. job[w].pending = {id} /\ "HIGH" \notin severities
      BY <2>1, <2>2, <3>1
    <3>3. PICK rule \in SeedIds : rule[1] = "Calls" /\ Standard(edited, rule)
      BY <1>1 DEF Standing, Standard
    <3> QED
      BY <1>2, <2>3, <3>1, <3>2, <3>3
  <2> QED
    BY <1>2, <2>4, <2>5 DEF CapInv
<1>6. ASSUME NEW id \in job[w].pending
      PROVE  /\ id \in RuleIds /\ Severity(Rule(id)) \in Severities
             /\ Collections(Book[id]) => Severity(Rule(id)) = "HIGH"
  BY <1>0, <1>6, SeverityType
<1>7. CASE Count(w)
  <2>1. PICK id \in job[w].pending :
          IF WithinLimit(Book[id], Approved(Request(r).params["customerId"]))
          THEN Counted(w, id, job[w].failed, job[w].errors, job[w].severities)
          ELSE Counted(w, id, job[w].failed \cup {id}, job[w].errors,
                       job[w].severities \cup {Severity(Rule(id))})
    BY <1>7 DEF Count
  <2>2. CASE WithinLimit(Book[id], Approved(Request(r).params["customerId"]))
    <3>1. ASSUME NEW c \in Customers, Uncounted(k, c), id \in SeedIds, id[1] = "Calls"
          PROVE  Below(c)
      <4>1. Request(r).params["customerId"] = c
        BY <3>1, NormaliseFacts DEF Request, Parse, Uncounted
      <4>2. Limit(Book[id]) = 6
        BY <3>1, CountedRule DEF PolicyInv
      <4>3. Approved(c) < 6
        BY <2>2, <4>1, <4>2 DEF WithinLimit
      <4> QED
        BY <4>3, CountFinds DEF Below
    <3>2. Counted(w, id, job[w].failed, job[w].errors, job[w].severities)
      BY <2>1, <2>2
    <3> QED
      BY <1>0, <1>5, <3>1, <3>2
  <2>3. CASE ~WithinLimit(Book[id], Approved(Request(r).params["customerId"]))
    <3> DEFINE failed == job[w].failed \cup {id}
               severities == job[w].severities \cup {Severity(Rule(id))}
    <3>1. Counted(w, id, failed, job[w].errors, severities)
      BY <2>1, <2>3
    <3>2. failed \in SUBSET RuleIds /\ severities \in SUBSET Severities
      BY <1>0, <1>6
    <3>3. Noted(k, edited, failed, job[w].errors, severities)
      BY <1>0, <1>6 DEF Noted
    <3>4. id \in SeedIds /\ id[1] = "Calls" => "HIGH" \in severities
      BY <1>6, CountedRule DEF PolicyInv
    <3> HIDE DEF failed, severities
    <3>5. job[w].severities \subseteq severities
      BY DEF severities
    <3> QED
      BY <1>0, <1>5, <3>1, <3>2, <3>3, <3>4, <3>5
  <2> QED
    BY <2>2, <2>3
<1>8. CASE CountFails(w)
  <2>1. PICK id \in job[w].pending :
          Counted(w, id, job[w].failed, job[w].errors \cup {id}, job[w].severities \cup {"HIGH"})
    BY <1>8 DEF CountFails
  <2> DEFINE errs == job[w].errors \cup {id}
             severities == job[w].severities \cup {"HIGH"}
  <2>2. errs \in SUBSET RuleIds /\ severities \in SUBSET Severities
    BY <1>0, <1>6 DEF Severities
  <2>3. Noted(k, edited, job[w].failed, errs, severities)
    BY <1>0 DEF Noted
  <2>4. "HIGH" \in severities /\ job[w].severities \subseteq severities
    OBVIOUS
  <2>5. Counted(w, id, job[w].failed, errs, severities)
    BY <2>1
  <2> HIDE DEF errs, severities
  <2> QED
    BY <1>0, <1>5, <2>2, <2>3, <2>4, <2>5
<1> QED
  BY <1>7, <1>8

\* A request that is taken has no verdict yet, or is blocked.
LEMMA StartCap ==
  ASSUME OneWorker, PolicyInv, CapInv, NEW w \in Workers, Start(w)
  PROVE  CapInv'
<1>1. PICK r \in Requests, k \in DOMAIN Inputs :
        /\ input[r] = "none"
        /\ input' = [input EXCEPT ![r] = k]
        /\ job' = [job EXCEPT ![w] =
             IF Parse(Inputs[k]).parseErrors
             THEN [stage |-> "store", req |-> r, failed |-> {<<"Parse", "errors">>},
                   errors |-> {}, verdict |-> "BLOCK"]
             ELSE [stage |-> "evaluate", req |-> r]]
  BY DEF Start
<1>2. UNCHANGED <<admin, answer, errors, history>>
  BY DEF Start
<1>3. \A q \in Requests : input[q] # "none" => input'[q] = input[q]
  BY <1>1 DEF PolicyInv, TypeInv
<1>4. edited' = edited /\ \A c \in Customers : CallsTo(c)' = CallsTo(c)
  BY <1>2, <1>3, CallsToKept DEF admin
<1>5. \A c \in Customers : Standing("Calls")' /\ CallsTo(c)' # {} => AtCap(c)'
  BY <1>2, <1>4, CapStays
<1>6. \A v \in Workers : v = w
  BY DEF OneWorker
<1>7. \/ job'[w].stage = "evaluate"
      \/ job'[w].stage = "store" /\ job'[w].verdict = "BLOCK"
  BY <1>1 DEF PolicyInv, TypeInv
<1> QED
  BY <1>5, <1>6, <1>7 DEF CapInv, CountInv, RoomInv

\* An approval of the engine takes the room that its count found.
LEMMA StoreCap ==
  ASSUME OneWorker, PolicyInv, CapInv, NEW w \in Workers, Store(w)
  PROVE  CapInv'
<1> DEFINE r == job[w].req
<1>0. /\ job[w] \in [stage : {"store"}, req : Requests, failed : SUBSET Checks,
                     errors : SUBSET RuleIds, verdict : Decisions]
      /\ job[w].stage = "store"
      /\ UNCHANGED <<admin, input, errors, history>>
  BY JobTypes DEF PolicyInv, Store
<1>1. answer' = [answer EXCEPT ![r] = [verdict |-> job[w].verdict, by |-> "engine",
                                       failed |-> job[w].failed, errors |-> job[w].errors]]
  BY DEF Store
<1>2. /\ answer'[r].verdict = job[w].verdict
      /\ \A q \in Requests \ {r} : answer'[q] = answer[q]
  BY <1>0, <1>1 DEF PolicyInv, TypeInv
<1>3. \A v \in Workers : v = w
  BY DEF OneWorker
<1>4. job'[w].stage = "idle"
  BY DEF Store, Idle, PolicyInv, TypeInv
<1>5. CountInv' /\ RoomInv'
  BY <1>3, <1>4 DEF CountInv, RoomInv
<1>6. ASSUME NEW c \in Customers, Standing("Calls")', CallsTo(c)' # {}
      PROVE  AtCap(c)'
  <2>1. /\ IsFiniteSet(CallsTo(c)) /\ Cardinality(CallsTo(c)) \in Nat /\ history[c] \in Nat
    BY CountFinds
  <2>2. Standing("Calls") /\ history'[c] = history[c]
    BY <1>0, <1>6 DEF admin, Standing
  <2>3. PICK S : S = CallsTo(c)'
    OBVIOUS
  <2>4. \A q \in S \ {r} : q \in CallsTo(c)
    BY <1>0, <1>2, <2>3 DEF CallsTo, Engine
  <2>5. r \in S => job[w].verdict = "APPROVE" /\ Uncounted(input[r], c)
    <3>1. r \in S => answer'[r].verdict = "APPROVE" /\ Uncounted(input'[r], c)
      BY <2>3 DEF CallsTo, Uncounted
    <3> QED
      BY <1>0, <1>2, <3>1
  <2>6. CASE r \in S
    <3>1. Below(c)
      BY <1>0, <2>2, <2>5, <2>6 DEF CapInv, RoomInv
    <3>2. /\ IsFiniteSet(CallsTo(c) \cup {r})
          /\ Cardinality(CallsTo(c) \cup {r}) <= Cardinality(CallsTo(c)) + 1
          /\ Cardinality(CallsTo(c) \cup {r}) \in Nat
      BY <2>1, FS_AddElement
    <3>3. S \subseteq CallsTo(c) \cup {r}
      BY <2>4
    <3>4. Cardinality(S) <= Cardinality(CallsTo(c) \cup {r}) /\ Cardinality(S) \in Nat
      BY <3>2, <3>3, FS_Subset, FS_CardinalityType
    <3>5. history[c] + Cardinality(S) <= 6
      BY <2>1, <3>1, <3>2, <3>4 DEF Below
    <3> QED
      BY <2>2, <2>3, <3>5 DEF AtCap
  <2>7. CASE r \notin S
    <3>1. S \subseteq CallsTo(c)
      BY <2>4, <2>7
    <3>2. CallsTo(c) # {}
      BY <1>6, <2>3, <3>1
    <3>3. AtCap(c)
      BY <2>2, <3>2 DEF CapInv
    <3>4. Cardinality(S) <= Cardinality(CallsTo(c)) /\ Cardinality(S) \in Nat
      BY <2>1, <3>1, FS_Subset, FS_CardinalityType
    <3>5. history[c] + Cardinality(S) <= 6
      BY <2>1, <3>3, <3>4 DEF AtCap
    <3> QED
      BY <2>2, <2>3, <3>5 DEF AtCap
  <2> QED
    BY <2>6, <2>7
<1> QED
  BY <1>5, <1>6 DEF CapInv

\* What reviewers and the administrator do takes no room and gives none,
\* nor does a step that changes nothing.
LEMMA OtherCap ==
  ASSUME PolicyInv, CapInv,
         (\E r \in Requests : Review(r)) \/ Administer \/ UNCHANGED vars
  PROVE  CapInv'
<1>1. input' = input /\ job' = job /\ history' = history
  BY DEF Review, Administer, vars
<1>2. edited \subseteq edited'
  BY DEF Review, Administer, Toggle, SetAction, CreateRule, SetThresholds, admin, vars
<1>3. \A q \in Requests : answer'[q] = answer[q]
        \/ (answer[q].verdict = "ESCALATE" /\ answer'[q].by = "reviewer")
  <2>1. CASE Administer \/ UNCHANGED vars
    BY <2>1 DEF Administer, vars
  <2>2. ASSUME NEW r \in Requests, Review(r)
        PROVE  \A q \in Requests : answer'[q] = answer[q]
                 \/ (answer[q].verdict = "ESCALATE" /\ answer'[q].by = "reviewer")
    <3>1. PICK v : /\ answer[r].verdict = "ESCALATE"
                   /\ answer' = [answer EXCEPT ![r].verdict = v, ![r].by = "reviewer"]
      BY <2>2 DEF Review
    <3>2. answer \in [Requests -> Answers]
      BY DEF PolicyInv, TypeInv
    <3>3. answer'[r].by = "reviewer"
      BY <3>1, <3>2 DEF Answers
    <3> QED
      BY <3>1, <3>2, <3>3
  <2> QED
    BY <2>1, <2>2
<1>4. \A c \in Customers : CallsTo(c)' = CallsTo(c)
  BY <1>1, <1>3, CallsToKept
<1>5. /\ \A c \in Customers : Below(c)' <=> Below(c)
      /\ \A c \in Customers : Standing("Calls")' /\ CallsTo(c)' # {} => AtCap(c)'
  BY <1>1, <1>2, <1>4, CapStays
<1>6. /\ \A id : Standard(edited', id) => Standard(edited, id)
      /\ Standing("Calls")' => Standing("Calls")
  BY <1>2, StoodBefore
<1>7. CountInv'
  <2> SUFFICES ASSUME NEW v \in Workers, NEW c \in Customers, NEW id \in SeedIds,
                      job'[v].stage = "count", Uncounted(input'[job'[v].req], c),
                      id[1] = "Calls", Standard(edited', id)
               PROVE  id \in job'[v].pending \/ "HIGH" \in job'[v].severities \/ Below(c)'
    BY DEF CountInv
  <2> QED
    BY <1>1, <1>5, <1>6 DEF CapInv, CountInv
<1>8. RoomInv'
  <2> SUFFICES ASSUME NEW v \in Workers, NEW c \in Customers, job'[v].stage = "store",
                      Uncounted(input'[job'[v].req], c), job'[v].verdict = "APPROVE",
                      Standing("Calls")'
               PROVE  Below(c)'
    BY DEF RoomInv
  <2> QED
    BY <1>1, <1>5, <1>6 DEF CapInv, RoomInv
<1> QED
  BY <1>5, <1>7, <1>8 DEF CapInv

\* Nobody has been called at startup.
LEMMA CapInit == Init => CapInv
<1> SUFFICES ASSUME Init PROVE CapInv
  OBVIOUS
<1>1. \A w \in Workers : job[w].stage = "idle"
  BY DEF Init, Idle
<1>2. \A c : CallsTo(c) = {}
  BY DEF Init, NoAnswer, CallsTo, Engine
<1> QED
  BY <1>1, <1>2 DEF CapInv, CountInv, RoomInv

\* Every step keeps it.
LEMMA CapStep ==
  ASSUME Cautious, OneWorker
  PROVE  PolicyInv /\ CapInv /\ [Next]_vars => CapInv'
<1> SUFFICES ASSUME PolicyInv, CapInv, [Next]_vars PROVE CapInv'
  OBVIOUS
<1>1. CASE UNCHANGED vars
  BY <1>1, OtherCap
<1>2. CASE Next
  BY <1>2, StartCap, EvaluateCap, CountCap, StoreCap, OtherCap DEF Next
<1> QED
  BY <1>1, <1>2

\* With one worker and no escalation threshold above 0.75, the engine never
\* approves more uncounted calls to a customer than the seeded limit leaves,
\* for any number of requests and whatever is edited, as long as one seeded
\* variant of the rule was left alone.
THEOREM CapKeptHolds == Cautious /\ OneWorker => (Spec => []CapKept)
<1>1. PolicyInv /\ CapInv => CapKept
  <2> SUFFICES ASSUME PolicyInv, CapInv, NEW c \in Customers
               PROVE  LET calls == {r \in Requests :
                                     /\ Engine(r) /\ answer[r].verdict = "APPROVE"
                                     /\ Raw(r).tool = "dialer"
                                     /\ "contactAttemptsLast7Days" \notin DOMAIN Raw(r).params
                                     /\ "calls_last_7_days" \notin DOMAIN Raw(r).params
                                     /\ "customerId" \in DOMAIN Raw(r).params
                                     /\ Raw(r).params["customerId"] = c}
                      IN Standing("Calls") /\ calls # {} =>
                           history[c] + Cardinality(calls)
                             <= Limit(Seeds[<<"Calls", "Enforce">>])
    BY DEF CapKept
  <2>1. CallsTo(c) = {r \in Requests :
                        /\ Engine(r) /\ answer[r].verdict = "APPROVE"
                        /\ Raw(r).tool = "dialer"
                        /\ "contactAttemptsLast7Days" \notin DOMAIN Raw(r).params
                        /\ "calls_last_7_days" \notin DOMAIN Raw(r).params
                        /\ "customerId" \in DOMAIN Raw(r).params
                        /\ Raw(r).params["customerId"] = c}
    BY DEF CallsTo, Uncounted, Raw
  <2>2. Limit(Seeds[<<"Calls", "Enforce">>]) = 6
    <3> DEFINE id == <<"Calls", "Enforce">>
    <3>1. id \in SeedIds /\ id[1] = "Calls"
      BY DEF SeedIds, CollectionsWords
    <3>2. Book[id] = Seeds[id]
      BY <3>1 DEF Book, RuleIds
    <3> HIDE DEF id
    <3>3. Limit(Book[id]) = 6
      BY <3>1, CountedRule DEF PolicyInv
    <3> QED
      BY <3>2, <3>3 DEF id
  <2> QED
    BY <2>1, <2>2 DEF CapInv, AtCap
<1>2. ASSUME Cautious, OneWorker PROVE Spec => []CapKept
  <2>1. Init => PolicyInv /\ CapInv
    BY PolicyInvInit, CapInit
  <2>2. (PolicyInv /\ CapInv) /\ [Next]_vars => (PolicyInv /\ CapInv)'
    BY <1>2, PolicyInvStep, CapStep
  <2> QED
    BY <1>1, <2>1, <2>2, PTL DEF Spec
<1> QED
  BY <1>2

-----------------------------------------------------------------------------
(* Sanctions *)

\* The rules of type OFAC that an administrator creates block on the full name
\* and stay as they are, and a name on the list comes with a tool that is
\* checked and never counted.
Screening ==
  /\ \A id \in DOMAIN NewRules : NewRules[id].type = "OFAC" =>
       /\ NewRules[id].action = "BLOCK" /\ id \notin Editable
       /\ "bankruptcy" \notin NewRules[id].words /\ NewRules[id].conditions = <<>>
       /\ NewRules[id].inParams /\ NewRules[id].field = "fullName"
  /\ \A k \in DOMAIN Inputs : Or(Inputs[k], "fullName", "") \in Sanctions =>
       Inputs[k].tool \notin {"dialer", "customer-database"}

\* Only what an administrator edits is ever edited.
EditedInv == \A e \in edited : e[1] \in Editable

\* No step edits another rule.
LEMMA EditedStep == EditedInv /\ [Next]_vars => EditedInv'
<1> SUFFICES ASSUME EditedInv, [Next]_vars PROVE EditedInv'
  OBVIOUS
<1>1. CASE Administer
  <2>1. CASE \E id \in Editable : Toggle(id) \/ SetAction(id)
    BY <2>1 DEF EditedInv, Toggle, SetAction
  <2>2. CASE (\E id \in DOMAIN NewRules : CreateRule(id)) \/ SetThresholds
    BY <2>2 DEF EditedInv, CreateRule, SetThresholds
  <2> QED
    BY <1>1, <2>1, <2>2 DEF Administer
<1>2. CASE ~Administer
  <2>1. edited' = edited
    BY <1>2 DEF Next, Start, Evaluate, Count, CountFails, Store, Review, vars, admin
  <2> QED
    BY <2>1 DEF EditedInv
<1> QED
  BY <1>1, <1>2

\* A rule of type OFAC is a created one, and blocks.
LEMMA ScreeningRule ==
  ASSUME Screening, PolicyInv, EditedInv, NEW id \in active, Book[id].type = "OFAC"
  PROVE  /\ action[id] = "BLOCK" /\ id \in RuleIds
         /\ Rule(id).type = "OFAC" /\ ~Collections(Rule(id)) /\ Rule(id).conditions = <<>>
         /\ Rule(id).inParams /\ Rule(id).field = "fullName"
<1>1. id \in RuleIds
  BY DEF PolicyInv, TypeInv
<1>2. id \notin SeedIds
  <2> SUFFICES ASSUME id \in SeedIds PROVE FALSE
    OBVIOUS
  <2>1. CASE id[2] = "Seed"
    <3>1. Book[id] = Underwriting[id[1]] /\ id[1] \in DOMAIN Underwriting
      BY <1>1, <2>1 DEF Book, Seeds, SeedIds, CollectionsWords
    <3>2. \A subject \in DOMAIN Underwriting : Underwriting[subject].type \in {"CUSTOM", "QM"}
      <4>1. Underwriting["CreditRange"].type = "CUSTOM" /\ Underwriting["MinCredit"].type = "CUSTOM"
        BY DEF Underwriting
      <4>2. Underwriting["MaxDTI"].type = "QM" /\ Underwriting["Employment"].type = "CUSTOM"
        BY DEF Underwriting
      <4> QED
        BY <4>1, <4>2, LoanRules
    <3> QED
      BY <3>1, <3>2
  <2>2. CASE id[2] # "Seed"
    <3>1. Book[id] = Reg_F(id[1])
      BY <1>1, <2>2 DEF Book, Seeds, RuleIds
    <3> QED
      BY <3>1 DEF Reg_F
  <2> QED
    BY <2>1, <2>2
<1>3. Book[id] = NewRules[id] /\ id \in DOMAIN NewRules
  BY <1>1, <1>2 DEF Book, RuleIds
<1>4. /\ Book[id].action = "BLOCK" /\ id \notin Editable
      /\ "bankruptcy" \notin Book[id].words /\ Book[id].conditions = <<>>
      /\ Book[id].inParams /\ Book[id].field = "fullName"
  BY <1>3 DEF Screening
<1>5. action[id] = "BLOCK"
  <2>1. <<id, "action">> \notin edited
    BY <1>4 DEF EditedInv
  <2> QED
    BY <1>1, <1>4, <2>1 DEF PolicyInv, RulesInv
<1>6. PICK rule : rule = Rule(id)
  OBVIOUS
<1>7. /\ rule.type = "OFAC" /\ rule.words = Book[id].words /\ rule.conditions = <<>>
      /\ rule.inParams /\ rule.field = "fullName"
  BY <1>4, <1>6 DEF Rule
<1>8. ~Collections(rule)
  BY <1>4, <1>7 DEF Collections, Named
<1> QED
  BY <1>1, <1>5, <1>6, <1>7, <1>8

\* A request to another tool that is checked, as it is parsed, known or not.
LEMMA CheckedRequest ==
  ASSUME NEW raw, raw.tool # "customer-database"
  PROVE  Parse(raw).tool.name = raw.tool /\ Parse(raw).tool.requiresComplianceCheck
<1>1. CASE raw.tool \in DOMAIN Tools
  <2>1. Parse(raw).tool = Tools[raw.tool]
    BY <1>1 DEF Parse
  <2>2. Tools[raw.tool].name = raw.tool
    BY <1>1 DEF Tools
  <2>3. Tools[raw.tool].requiresComplianceCheck = (raw.tool # "customer-database")
    BY <1>1 DEF Tools
  <2> QED
    BY <2>1, <2>2, <2>3
<1>2. CASE raw.tool \notin DOMAIN Tools
  <2>1. Parse(raw).tool = Unregistered(raw.tool)
    BY <1>2 DEF Parse
  <2> QED
    BY <2>1 DEF Unregistered
<1> QED
  BY <1>1, <1>2

\* A worker's step leaves the jobs of the others.
LEMMA OtherJobs ==
  ASSUME TypeInv, NEW v \in Workers, NEW w \in Workers, v # w,
         Start(v) \/ Evaluate(v) \/ Count(v) \/ CountFails(v) \/ Store(v)
  PROVE  job'[w] = job[w]
<1>1. job \in [Workers -> Jobs]
  BY DEF TypeInv
<1>2. \A failed, errs, risk, r : Decided(v, r, failed, errs, risk) => job'[w] = job[w]
  BY <1>1 DEF Decided
<1>3. \A failed, errs, severities, r : Concluded(v, r, failed, errs, severities) => job'[w] = job[w]
  BY <1>2 DEF Concluded
<1>4. \A id, failed, errs, severities : Counted(v, id, failed, errs, severities) => job'[w] = job[w]
  BY <1>1, <1>3 DEF Counted
<1>5. CASE Start(v)
  BY <1>1, <1>5 DEF Start
<1>6. CASE Evaluate(v)
  <2>1. \/ \E r, failed, severities : Concluded(v, r, failed, {}, severities)
        \/ \E j : job' = [job EXCEPT ![v] = j]
    <3> DEFINE r == job[v].req
               req == Request(r)
               rules == IF req.tool.requiresComplianceCheck THEN active ELSE {}
               counting == {id \in rules : Counts(Rule(id), req)}
               failed(now) == {id \in rules \ counting : ~Passes(Rule(id), req, now, Sanctions)}
               severities(now) == {Severity(Rule(id)) : id \in failed(now)}
    <3>1. PICK now \in Clock :
            IF counting = {}
            THEN Concluded(v, r, failed(now), {}, severities(now))
            ELSE job' = [job EXCEPT ![v] =
                   [stage |-> "count", req |-> r, pending |-> counting, failed |-> failed(now),
                    errors |-> {}, severities |-> severities(now)]]
      BY <1>6 DEF Evaluate
    <3> HIDE DEF failed, severities, counting
    <3> QED
      BY <3>1
  <2> QED
    BY <1>1, <1>3, <2>1
<1>7. CASE Count(v) \/ CountFails(v)
  BY <1>4, <1>7 DEF Count, CountFails
<1>8. CASE Store(v)
  BY <1>1, <1>8 DEF Store
<1> QED
  BY <1>5, <1>6, <1>7, <1>8

\* The evaluation of a listed name under such a rule ends in a block.
LEMMA SanctionStep ==
  ASSUME Screening, PolicyInv, EditedInv, NEW w \in Workers, Evaluate(w),
         Param(job[w].req, "fullName", "") \in Sanctions,
         NEW id \in active, Book[id].type = "OFAC"
  PROVE  job'[w].stage = "store" /\ job'[w].verdict = "BLOCK"
<1>0. /\ job[w] \in [stage : {"evaluate"}, req : Requests]
      /\ input[job[w].req] # "none"
  BY JobTypes DEF PolicyInv, JobsInv, JobSound, Evaluate
<1> DEFINE r == job[w].req
           k == input[r]
           req == Request(r)
           rules == IF req.tool.requiresComplianceCheck THEN active ELSE {}
           counting == {c \in rules : Counts(Rule(c), req)}
<1>1. PICK now \in Clock :
        LET failed == {c \in rules \ counting : ~Passes(Rule(c), req, now, Sanctions)}
            severities == {Severity(Rule(c)) : c \in failed}
        IN IF counting = {}
           THEN Concluded(w, r, failed, {}, severities)
           ELSE job' = [job EXCEPT ![w] =
                  [stage |-> "count", req |-> r, pending |-> counting, failed |-> failed,
                   errors |-> {}, severities |-> severities]]
  BY DEF Evaluate
<1>2. /\ k \in DOMAIN Inputs /\ Or(Inputs[k], "fullName", "") \in Sanctions
      /\ Inputs[k].tool \notin {"dialer", "customer-database"}
  BY <1>0 DEF PolicyInv, TypeInv, Param, Raw, Screening
<1>3. "fullName" \in DOMAIN Inputs[k].params /\ Inputs[k].params["fullName"] \in Sanctions
  BY <1>2 DEF Or, Given, Sanctions
<1>4. req.params = Normalise(Inputs[k].params) /\ req = Parse(Inputs[k])
  BY DEF Request, Parse
<1>5. /\ req.tool.name = Inputs[k].tool /\ req.tool.requiresComplianceCheck
  BY <1>2, <1>4, CheckedRequest
<1>6. "fullName" \in DOMAIN req.params /\ req.params["fullName"] \in Sanctions
  <2>1. PICK params : params = Inputs[k].params
    OBVIOUS
  <2>2. /\ "fullName" \in DOMAIN Normalise(params)
        /\ Normalise(params)["fullName"] = params["fullName"]
    BY <1>3, <2>1, NormaliseFacts
  <2> QED
    BY <1>3, <1>4, <2>1, <2>2
<1>7. counting = {} /\ rules = active
  BY <1>2, <1>5 DEF Counts
<1>8. ~Passes(Rule(id), req, now, Sanctions)
  BY <1>6, ScreeningRule DEF Passes, OFACPass, Found, Given
<1> DEFINE failed == {c \in rules \ counting : ~Passes(Rule(c), req, now, Sanctions)}
           severities == {Severity(Rule(c)) : c \in failed}
<1>9. Concluded(w, r, failed, {}, severities)
  BY <1>1, <1>7
<1>10. id \in failed
  BY <1>7, <1>8
<1> HIDE DEF failed, severities, rules, counting
<1> DEFINE all == failed \cup SecurityChecks(req)
           risk == Max({ComplianceRisk(severities), SecurityRisk(req)})
<1>11. job' = [job EXCEPT ![w] = [stage |-> "store", req |-> r, failed |-> all, errors |-> {},
                                  verdict |-> Verdict(req, all, risk)]]
  BY <1>9 DEF Concluded, Decided
<1>12. Blocking(all)
  BY <1>10, ScreeningRule DEF Blocking
<1>13. Verdict(req, all, risk) = "BLOCK"
  BY <1>12 DEF Verdict
<1> QED
  BY <1>11, <1>13 DEF PolicyInv, TypeInv

\* A request for a listed name is decided BLOCK while a rule of type OFAC is
\* active, whatever else it fails: any number of blocking OFAC rules on the full
\* name that are left as they were created, among any other rules and edits.
THEOREM SanctionedBlockedHolds == Screening => (Spec => SanctionedBlocked)
<1>1. ASSUME Screening, PolicyInv, EditedInv, [Next]_vars
      PROVE  [\A w \in Workers :
                /\ job[w].stage = "evaluate" /\ job'[w] # job[w]
                /\ Param(job[w].req, "fullName", "") \in Sanctions
                /\ \E id \in active : Book[id].type = "OFAC"
                => job'[w].stage = "store" /\ job'[w].verdict = "BLOCK"]_vars
  <2> SUFFICES ASSUME NEW w \in Workers, job[w].stage = "evaluate", job'[w] # job[w],
                      Param(job[w].req, "fullName", "") \in Sanctions,
                      NEW id \in active, Book[id].type = "OFAC"
               PROVE  job'[w].stage = "store" /\ job'[w].verdict = "BLOCK"
    BY <1>1
  <2>1. job \in [Workers -> Jobs]
    BY <1>1 DEF PolicyInv, TypeInv
  <2>2. Evaluate(w)
    <3>1. \A v \in Workers \ {w} : ~(Start(v) \/ Evaluate(v) \/ Count(v) \/ CountFails(v) \/ Store(v))
      BY <1>1, OtherJobs DEF PolicyInv
    <3>2. ~Start(w) /\ ~Count(w) /\ ~CountFails(w) /\ ~Store(w)
      BY DEF Start, Count, CountFails, Store
    <3>3. job' # job
      OBVIOUS
    <3> QED
      BY <1>1, <3>1, <3>2, <3>3 DEF Next, Review, Administer, vars
  <2> QED
    BY <1>1, <2>2, SanctionStep
<1>2. ASSUME Screening PROVE Spec => SanctionedBlocked
  <2>1. Init => PolicyInv /\ EditedInv
    BY PolicyInvInit DEF Init, EditedInv
  <2>2. (PolicyInv /\ EditedInv) /\ [Next]_vars => (PolicyInv /\ EditedInv)'
    BY PolicyInvStep, EditedStep
  <2>3. PolicyInv /\ EditedInv /\ [Next]_vars =>
          [\A w \in Workers :
             /\ job[w].stage = "evaluate" /\ job'[w] # job[w]
             /\ Param(job[w].req, "fullName", "") \in Sanctions
             /\ \E id \in active : Book[id].type = "OFAC"
             => job'[w].stage = "store" /\ job'[w].verdict = "BLOCK"]_vars
    BY <1>1, <1>2
  <2> QED
    BY <2>1, <2>2, <2>3, PTL DEF Spec, SanctionedBlocked
<1> QED
  BY <1>2

=============================================================================
