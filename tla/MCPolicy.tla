------------------------------- MODULE MCPolicy -------------------------------
(***************************************************************************)
(* A small instance of Policy for TLC: requests that reach every check.    *)
(***************************************************************************)
EXTENDS Policy

CONSTANTS r1, r2, w1

Input(tool, params) == [tool |-> tool, params |-> params, malformed |-> FALSE, flaws |-> {}]
Call(params) == Input("dialer", params @@ ("customerId" :> "c1") @@ ("localTime" :> 600))
Loan(score, income, debt, years) ==
  Input("loan-underwriter",
        "credit_score" :> score * Unit @@ "monthlyIncome" :> income
        @@ "monthlyDebt" :> debt @@ "employment_years" :> years)
Mail == Input("email-sender", "fullName" :> "Alice Miller" @@ "amount" :> 10)

AllInputs ==
  "call" :> Call(<<>>)
  @@ "call at 21:00" :> Call("localTime" :> 1260)
  @@ "eighth call" :> Call("contactAttemptsLast7Days" :> 8)
  @@ "call to nobody" :> Input("dialer", "third_party_recipient" :> TRUE)
  @@ "call too soon" :> Call("days_since_last_conversation" :> 6
                             @@ "consumer_represented_by_attorney" :> FALSE)
  @@ "held call" :> Call("ceaseContact" :> FALSE @@ "bankruptcyHold" :> TRUE)
  @@ "good loan" :> Loan(700, 1000, 400, 3000)
  @@ "half-year job" :> Loan(700, 1000, 400, 500)
  @@ "one-year job" :> Loan(700, 1000, 400, 1000)
  @@ "indebted" :> Loan(700, 1000, 440, 3000)
  @@ "mail" :> Mail
  @@ "sanctioned mail" :> Input("email-sender", "fullName" :> "KIM JONG UN")
  @@ "injected mail" :> [Mail EXCEPT !.flaws = {"injection"}]
  @@ "nested mail" :> [Mail EXCEPT !.flaws = {"nesting"}]
  @@ "lookup" :> Input("customer-database", "customerId" :> "c1")
  @@ "payment" :> Input("payment-processor", "amount" :> 6000)
  @@ "unknown tool" :> Input("shell", <<>>)

NewRule(type, field, operator, value) ==
  [type |-> type, words |-> {}, action |-> "BLOCK", value |-> value, conditions |-> <<>>,
   inParams |-> TRUE, field |-> field, operator |-> operator]
AllNewRules ==
  <<"Sanctions", "New">> :> NewRule("OFAC", "fullName", "IN", 0)
  @@ <<"Amount", "New">> :> NewRule("BUSINESS", "amount", "LESS_THAN", 10)
  @@ <<"Mortgage", "New">> :> NewRule("QM", "dti", "LESS_THAN_OR_EQUAL", 0)

Edited == {<<"Hours", "Enforce">>, <<"Calls", "Enforce">>, <<"MaxDTI", "Seed">>,
           <<"Amount", "New">>}
Tuned == {SeedThresholds, [escalate |-> 720, block |-> 900]}

\* Requests are interchangeable; no liveness is checked.
Symmetry == Permutations(Requests)

=============================================================================
