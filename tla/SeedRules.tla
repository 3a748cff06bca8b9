------------------------------ MODULE SeedRules ------------------------------
(***************************************************************************)
(* What bootstrapDatabase() writes at every start: the rules, the tools    *)
(* and the sanctions list.  A rule's id is its subject and its variant.    *)
(***************************************************************************)
EXTENDS RuleEngine

Underwriting ==
  LET only(cond) == [type |-> "CUSTOM", words |-> {"credit score"}, action |-> "BLOCK",
                     value |-> 0, conditions |-> <<cond>>]
      atLeast(field, v) == [type |-> "threshold", field |-> field, operator |-> "gte", value |-> v]
  IN [CreditRange |-> only([type |-> "range", field |-> "credit_score",
                            min |-> 300 * Unit, max |-> 850 * Unit]),
      MinCredit |-> only(atLeast("credit_score", 620 * Unit)),
      MaxDTI |-> [only([type |-> "threshold", field |-> "debt_to_income_ratio",
                        operator |-> "lte", value |-> 430])
                    EXCEPT !.type = "QM", !.words = {"dti"}],
      Employment |-> [only(atLeast("employment_years", 2 * Unit))
                        EXCEPT !.words = {"employment"}, !.action = "ESCALATE"]]

\* Each collections rule is seeded twice, "(Enforce)" and "(Observe)", with
\* the same contents: both block.  "Third Parties" is none of the words the
\* engine looks for.
CollectionsWords ==
  [Calls |-> {"calls"}, Cooldown |-> {"cooldown"}, Hours |-> {"time"}, Cease |-> {"cease"},
   Counsel |-> {"counsel"}, ThirdParties |-> {}, Bankruptcy |-> {"bankruptcy"}]

Reg_F(subject) ==
  [type |-> "REG_F", words |-> CollectionsWords[subject], action |-> "BLOCK",
   value |-> CASE subject = "Calls" -> 6 [] subject = "Cooldown" -> 7 [] OTHER -> 0,
   conditions |-> <<>>]

SeedIds == ((DOMAIN Underwriting) \X {"Seed"})
           \cup ((DOMAIN CollectionsWords) \X {"Enforce", "Observe"})

Seeds == [id \in SeedIds |->
            IF id[2] = "Seed" THEN Underwriting[id[1]] ELSE Reg_F(id[1])]

Tools ==
  [tool \in {"payment-processor", "customer-database", "loan-underwriter", "email-sender",
             "dialer"} |->
     [name |-> tool,
      riskLevel |-> CASE tool = "customer-database" -> "MEDIUM"
                      [] tool = "email-sender" -> "LOW"
                      [] OTHER -> "HIGH",
      requiresPiiRedaction |-> tool # "loan-underwriter",
      requiresComplianceCheck |-> tool # "customer-database"]]

\* One entry stands for the list.
Sanctions == {"KIM JONG UN"}

SeedThresholds == [escalate |-> 700, block |-> 900]

=============================================================================
