------------------------------ MODULE RuleEngine ------------------------------
(***************************************************************************)
(* The pure part of the compliance check: how RuleEngine.evaluate() reads  *)
(* a rule and a request.  A rule's name matters only by the fragments the  *)
(* code searches it for (words); a request's parameters are a function on  *)
(* the fields that are given, so an absent field is not in its domain.     *)
(* Fractional values are integers in thousandths (1.0 is Unit), times are  *)
(* minutes since midnight, a text is the set of its fragments.             *)
(***************************************************************************)
EXTENDS Integers, Sequences, SequencesExt, TLC

Unit == 1000

Given(req, field) == field \in DOMAIN req.params
Or(req, field, default) == IF Given(req, field) THEN req.params[field] ELSE default

\* The first of several fields that is given, else the default.
First(req, field, other, default) == Or(req, field, Or(req, other, default))

\* The aliases evaluate() adds to the request's own parameters, and what each
\* stands for.
Aliases == [calls_last_7_days |-> "contactAttemptsLast7Days",
            contact_hour_local |-> "localTime",
            cease_communication_requested |-> "ceaseContact",
            bankruptcy_hold |-> "bankruptcyHold"]

Normalise(params) ==
  LET added == {a \in DOMAIN Aliases : a \notin DOMAIN params /\ Aliases[a] \in DOMAIN params}
  IN [f \in DOMAIN params \cup added |->
        IF f \in DOMAIN params THEN params[f]
        ELSE IF f = "contact_hour_local" THEN params["localTime"] \div 60
        ELSE params[Aliases[f]]]

-----------------------------------------------------------------------------
(* Collections rules: the first word of the list found in the name decides  *)
(* what is checked; the rule's own field, operator and conditions are never *)
(* read.                                                                    *)

Named(rule, words) == rule.words \cap words # {}

Dispatch == <<
  [words |-> {"time", "window"}, check |-> "TimeWindow"],
  [words |-> {"calls", "frequency"}, check |-> "CallFrequency"],
  [words |-> {"cease"}, check |-> "CeaseContact"],
  [words |-> {"bankruptcy"}, check |-> "BankruptcyHold"],
  [words |-> {"cooldown"}, check |-> "Cooldown"],
  [words |-> {"attorney", "counsel"}, check |-> "Attorney"],
  [words |-> {"third party", "third-party"}, check |-> "ThirdParty"] >>

Collections(rule) == rule.type = "REG_F" \/ Named(rule, {"bankruptcy"})

Check(rule) ==
  LET i == SelectInSeq(Dispatch, LAMBDA d : Named(rule, d.words))
  IN IF i = 0 THEN "Skipped" ELSE Dispatch[i].check

\* Variant: 21:00 itself is allowed.
InWindowTill(req, now) ==
  LET minutes == IF Given(req, "localTime") THEN req.params["localTime"]
                 ELSE IF Given(req, "contact_hour_local")
                      THEN 60 * req.params["contact_hour_local"] ELSE now
  IN 8 * 60 <= minutes /\ minutes <= 21 * 60

\* now: the server's clock, read when the request has no local time.
InWindow(req, now) ==
  LET minutes == IF Given(req, "localTime") THEN req.params["localTime"]
                 ELSE IF Given(req, "contact_hour_local")
                      THEN 60 * req.params["contact_hour_local"] ELSE now
  IN 8 * 60 <= minutes /\ minutes < 21 * 60

\* Whether the frequency check asks the database for the number of approved
\* calls, and whether a number of calls is within the rule's limit.
Counts(rule, req) ==
  /\ Collections(rule) /\ req.tool.name = "dialer" /\ Check(rule) = "CallFrequency"
  /\ Given(req, "customerId")
  /\ ~Given(req, "contactAttemptsLast7Days") /\ ~Given(req, "calls_last_7_days")

Limit(rule) == IF rule.value = 0 THEN 7 ELSE rule.value

\* Variant: the limit itself is allowed.
WithinLimitToo(rule, calls) == calls <= Limit(rule)

WithinLimit(rule, calls) == calls < Limit(rule)

FewCalls(rule, req) ==
  Given(req, "customerId") =>
    WithinLimit(rule, First(req, "contactAttemptsLast7Days", "calls_last_7_days", 0))

CollectionsPass(rule, req, now) ==
  req.tool.name = "dialer" =>
    CASE Check(rule) = "TimeWindow" -> InWindow(req, now)
      [] Check(rule) = "CallFrequency" -> FewCalls(rule, req)
      [] Check(rule) = "CeaseContact" ->
           ~First(req, "ceaseContact", "cease_communication_requested", FALSE)
      [] Check(rule) = "BankruptcyHold" -> ~First(req, "bankruptcyHold", "bankruptcy_hold", FALSE)
      [] Check(rule) = "Cooldown" -> Or(req, "days_since_last_conversation", 7) >= 7
      [] Check(rule) = "Attorney" -> ~Or(req, "consumer_represented_by_attorney", FALSE)
      [] Check(rule) = "ThirdParty" -> ~Or(req, "third_party_recipient", FALSE)
      [] Check(rule) = "Skipped" -> TRUE

-----------------------------------------------------------------------------
(* Rules with a conditions array, and rules without one *)

\* monthlyDebt / monthlyIncome, where neither is missing or 0; rounded up, so
\* that comparing it with a largest value allowed is exact.
Ratio(req) == -((-Unit * req.params["monthlyDebt"]) \div req.params["monthlyIncome"])
HasRatio(req) == Or(req, "monthlyIncome", 0) # 0 /\ Or(req, "monthlyDebt", 0) # 0

\* A value above 1 against a target below 1 is taken for a percentage, and
\* the other way round.
Scaled(v, target) ==
  IF target < Unit /\ v > Unit THEN v \div 100
  ELSE IF target > Unit /\ v < Unit THEN v * 100
  ELSE v

Compare(op, v, target) ==
  CASE op = "gte" -> v >= target
    [] op = "lte" -> v <= target
    [] op = "gt" -> v > target
    [] op = "lt" -> v < target
    [] op = "eq" -> v = target
    [] op = "neq" -> v # target

ConditionMet(cond, req) ==
  CASE cond.type = "threshold" ->
         LET met(v) == Compare(cond.operator, Scaled(v, cond.value), cond.value)
         IN \/ Given(req, cond.field) /\ met(req.params[cond.field])
            \/ /\ ~Given(req, cond.field) /\ HasRatio(req)
               /\ cond.field \in {"debt_to_income_ratio", "dti"}
               /\ met(Ratio(req))
    [] cond.type = "range" ->
         /\ Given(req, cond.field)
         /\ cond.min <= req.params[cond.field] /\ req.params[cond.field] <= cond.max

SamplePass(rule, req) ==
  \/ Named(rule, {"dti", "credit score", "employment"}) /\ req.tool.name # "loan-underwriter"
  \/ \A i \in DOMAIN rule.conditions : ConditionMet(rule.conditions[i], req)

\* In percent; a ratio below 1 is made one.
QMPass(rule, req) ==
  LET percent == IF Given(req, "dti") THEN req.params["dti"] ELSE 100 * Ratio(req)
      limit == IF rule.value = 0 THEN 43 * Unit ELSE rule.value
  IN req.tool.name = "loan-underwriter" /\ (Given(req, "dti") \/ HasRatio(req)) =>
       (IF 0 < percent /\ percent < Unit THEN 100 * percent ELSE percent) <= limit

\* Only a field below "parameters." is ever found in a request.
Found(rule, req) == rule.inParams /\ Given(req, rule.field)

\* Variant: the list is taken for the names that are allowed.
OFACPassListed(rule, req, sanctions) ==
  Found(rule, req) => req.params[rule.field] \in sanctions

\* A full name is represented by the entry of a sanctions list it contains.
OFACPass(rule, req, sanctions) == Found(rule, req) => req.params[rule.field] \notin sanctions

GenericPass(rule, req) ==
  LET v == req.params[rule.field]
  IN Found(rule, req) =>
       CASE rule.operator = "EQUALS" -> v = rule.value
         [] rule.operator = "NOT_EQUALS" -> v # rule.value
         [] rule.operator = "GREATER_THAN" -> v > rule.value
         [] rule.operator = "LESS_THAN" -> v < rule.value
         [] rule.operator = "GREATER_THAN_OR_EQUAL" -> v >= rule.value
         [] rule.operator = "LESS_THAN_OR_EQUAL" -> v <= rule.value
         [] rule.operator = "CONTAINS" -> rule.value \in v
         [] rule.operator = "NOT_CONTAINS" -> rule.value \notin v
         [] rule.operator = "IN" -> v \in rule.value
         [] rule.operator = "NOT_IN" -> v \notin rule.value
         [] OTHER -> TRUE

\* How a failure of the rule weighs, and whether the rule lets the request pass.
Severity(rule) ==
  IF Collections(rule) THEN "HIGH"
  ELSE IF rule.conditions # <<>> THEN IF rule.action = "BLOCK" THEN "HIGH" ELSE "MEDIUM"
  ELSE IF rule.type \in {"QM", "OFAC"} THEN "CRITICAL" ELSE "MEDIUM"

Passes(rule, req, now, sanctions) ==
  IF Collections(rule) THEN CollectionsPass(rule, req, now)
  ELSE IF rule.conditions # <<>> THEN SamplePass(rule, req)
  ELSE IF rule.type = "QM" THEN QMPass(rule, req)
  ELSE IF rule.type = "OFAC" THEN OFACPass(rule, req, sanctions)
  ELSE GenericPass(rule, req)

=============================================================================
