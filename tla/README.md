# Mini-Sentinel: a TLA+ verification of the gateway

Mini-Sentinel intercepts the tool calls of AI agents.  A call is recorded in a
hash-chained audit table, queued in Redis, validated, redacted and ruled on by a
background worker, then executed, blocked, or escalated to a human reviewer.
This directory models the parts of the API (`apps/api/src`), of the PII service
(`pii-service/server.py`) and of the dashboard (`apps/web`) whose correctness
depends on the order of concurrent steps and on what fails in between.

## 1. The system

| Part | State it keeps | Operations | Hard behaviours |
|---|---|---|---|
| Audit ledger (`audit/audit.service.ts`) | `AuditRecord` table: `chainIndex`, `previousHash`, `hash`, `nextHash`; an in-process `Mutex` | `record`, `updateRecordAndRecalculate`, `verifyChain` | every operation is many database calls outside a transaction; errors, crashes, resets and other processes come in between |
| Gateway (`api/gateway.controller.ts`, `job.queue.service.ts`) | none of its own | `intercept` (record PENDING, LPUSH, 202), `getStatus` | a failing push after the record, repeated POSTs, lost or repeated Redis commands |
| Worker (`common/queue/job.worker.service.ts`) | one job at a time | BRPOP, validate, decide, run the tool or open a ticket, update the audit record, notify, fallback BLOCK | crash after BRPOP; tool run before its outcome is stored; ticket visible before its verdict |
| Review (`workflow/review.service.ts`) | `ReviewTicket` table | `escalate`, `submitDecision` | check-then-act on the ticket status; two tables written one after the other; number taken from a count |
| Configuration and administration (`config/configuration.service.ts`, `api/admin.controller.ts`) | configuration rows, a cache per process | `updateConfig`, `updateRule`, `createRule`, `resetDatabase`, seeding at every start | stale caches; a reset in two statements that takes no lock |
| Validation (`validation/**`, `decision/**`, `interceptors/parsing/**`) | none | parse, redact, rules, security checks, decision | numeric edges, dispatch by name, rules re-read at the decision, failures without a failed check |
| PII redaction (`validation/pii/**`, `common/queue/tcp-client.service.ts`, `pii-service/server.py`) | a socket per request | one line out, one line back, or the local patterns; masks | overlapping matches; timeout, late answer, closed or refused connection, partial lines |
| Dashboard (`apps/web`) | execution mode, rules and result on the screen | switch, reset, fetch, submit and poll | answers that overtake each other; state that is never read again |
| Metrics, notifier, classifier, executor (`integration/**`, `ai/**`) | counters, logs | | the notifier may throw after the verdict is stored |

What makes them correct:

* ledger: the chain verifies whenever nobody writes, history is not rewritten,
  every call returns;
* gateway and worker: an accepted request is processed once and gets a verdict;
* review: one ticket per escalation, one decision per ticket, a decision stays;
* configuration: whatever overlaps or fails, the next undisturbed reload makes a
  process enforce what is stored, and a rule nobody touches stays enforced;
* redaction: a tool that requires it sees no more of a recognised value than its
  mask repeats where recognised values do not overlap, a bounded part of them where
  they do, and every request is redacted by somebody;
* dashboard: what the screen says of a request, a rule or the mode is so;
* all together: the audit trail, the review desk and the runs of the tools tell
  the same story about every request.

## 2. Modules

| Module | Models |
|---|---|
| `Ledger` | what the ledger promises: an append-only list with amendments that always verifies |
| `AuditLedger` | `AuditService`, one action per database round trip, and the refinement of `Ledger`; `MCAuditLedger` instantiates it |
| `AuditLedgerProofs`, `LedgerHistoryProofs` | the proofs about it: types, mutual exclusion and the chain; what holds under faults, `nextHash` and the refinement |
| `SentinelState` | the tables, the queue, the mode and the tool runs that the next three share |
| `Gateway`, `Worker`, `Review` | the three processes that act on them |
| `Sentinel` | their composition with administration, crashes and restarts; `MCSentinel` instantiates it |
| `SentinelProofs`, `SentinelOutcomeProofs` | the proofs about it: types, runs and bearers; rows and outcomes, each under the faults it survives |
| `RuleEngine` | how a rule reads a request: dispatch, windows, limits, conditions, as operators without state |
| `SeedRules` | what every start seeds: rules, tools, sanctions list, thresholds |
| `ConfigCache` | configuration and rules in the database and the copies each process enforces: update, creation, reset, start and reload, one action per await |
| `Dashboard` | the settings tab as a client of it; `MCConfig` instantiates both |
| `ConfigCacheProofs` | the proofs about both |
| `Redactor` | how a text is masked by the gateway and by the service, as operators without state |
| `PiiClient` | the worker's redaction step over a socket, and the service at its other end; `MCPii` instantiates it, `PiiClientProofs` proves |
| `Simulator` | the tab that posts a request and polls its status, composed with `Sentinel`; `MCSimulator` instantiates it, `SimulatorProofs` proves |
| `Policy` | validation and decision in the worker, while rules and thresholds are edited; `MCPolicy` instantiates it, `PolicyProofs` proves |

A definition whose comment begins with "Variant:" is not part of a
specification: it is the definition after it with a plausible mistake in it, and
shows that a property notices.

### AuditLedger

`db` is the table by request id.  A caller's `pc` names the database call it
makes next and `loc` its local variables (`chainIndex`, `lastHash`, the copy of
the rows to recalculate).  `mutex` holds, per pod, the promise chain of
`Mutex.acquire()` as a queue: its head is the call inside the ledger.  A hash is
the sequence of what went into it, so hashes are equal exactly when their inputs
are.  `DbError` makes the current call throw (the `finally` releases), `Crash`
drops the calls and the Mutex of a pod, `Reset` empties the table without the
Mutex, as `resetDatabase()` does.  Two simplifications: a row's content is one
value of a small set (all hashed columns together), and a request id deleted by
a reset is not recorded again in this module.

### Gateway, Worker, Review, Sentinel

Each row of the two tables is keyed by request id.  `records[r]` keeps the
verdict, who gave it, what `executionResult` holds and whether `parsedRequest` is
raw or redacted.  `Exempt` are the requests for a tool whose
`requiresPiiRedaction` is false, as that of the seeded `loan-underwriter` is: their
parameters go on as they came.  `runs[r]` is not a table: it is what the outside world saw, the
list of executions of the request with the form of the parameters each was
given.  The ledger's operations are single steps here: `AuditLedger` shows that
one process's calls are atomic with respect to each other (`ImplementsLedger`).  A
failing one may have been applied or not.

A step boundary is put where the code awaits a database or Redis call whose
outcome another actor can see; what follows an await in the same turn of the
event loop is one step (validation result, decision, execution mode and tool run
are one).  Metrics are fire-and-forget and never throw, so they are left out.  A
rule whose query rejects is only one more failure in `rule.engine.ts`, so a
database error while ruling is covered by the free choice of the ruling.

`EagerReview` says whether a reviewer may decide a ticket before the worker has
stored the ESCALATE verdict.  It is FALSE where the other properties are checked
(a person is slower than the worker's next write) and TRUE in the fault run and
in the run that shows what goes wrong.

### RuleEngine, SeedRules and Policy

`Worker` lets the validation rule as it likes; these modules say what it rules.
A rule is looked at the way the code does: by the fragments its name contains
(`words`), its type, action, value and conditions.  A request's parameters are a
function on the fields that are given, since "missing" is a case of its own
everywhere in `rule.engine.ts`.  Fractions are in thousandths, times in minutes.
`table` and `active` are the stored rules and the cached (enabled) ones: an
update is one step, because evaluation only ever reads the cache, and the cache
changes at once when `loadAllToCache()` assigns it.

The steps of a worker follow the awaits: taking a job and redacting (`Start`),
`evaluate()` with the rules of that moment (`Evaluate`), one database count per
frequency rule (`Count`, `CountFails`), and the write of the decision (`Store`).
`decide()` runs in the same turn as the last of them and reads the rules again.
`ENFORCE` is assumed (what `OBSERVE` does to a verdict is in `Worker`), approved
calls do not leave the seven-day window, the parser runs when the job is taken
instead of before it is queued (the tools it reads do not change), and the
security settings are the seeded ones.

The comments at `CollectionsWords` and `Reg_F` record two things the code does
that its texts do not suggest: both variants of a collections rule block, the
"(Observe)" one too; and the third-party rules check nothing, because their name
says "Third Parties".

### ConfigCache and Dashboard

`config` and `rules` are the two tables, `cache`, `active` and `tools` what each
process copied from them (`configCache`, `rulesCache`, `toolsCache`).  `Lists`
are the values that are arrays: any value is stored and cached, but only a list
under the key `tools` replaces the tools of the parser (`ToolsListed`).  A call's
record says which await it is at and what it holds from before: the row it
found (`seen`), the query result it works through (`snapshot`, `todo`).  A reset
is the same sequence as a start, on a process that keeps serving; what it does
to tickets and records is in `Sentinel`.  A step that fails answers 500 (`failed`)
or ends the starting process (`down`), and may have been applied.  `mishaps`
records what the behaviour has seen so far, so that a property can say where it
ends: `overlap` (two calls at once), `torn` (a reset or start that overlapped
another call or failed half-way), `failure`.

`screen` is the tab's state, `click` and `fetch` the answers it waits for.
`Refetch` is a `fetchData()` that no click of the settings tab starts: the simulator
calls it after a submission and after its verdict, the review desk after a decision;
one at a time, from the first call that ended to the first overlap of the tab's own
calls, where the properties of the screen end.  The
administration calls are those of `ConfigCache`, so the tab, other clients and a
second process that restarts interleave at every await.

### Redactor and PiiClient

A text is the sequence of its characters and a character is the position it had,
so what leaks is a set of positions.  `found` are the matches of the gateway's
patterns and `entities` those of the analyzer: recognition itself is an attribute
of a text, `MCPii` lists the texts (every type at five places, with the real
lengths, every pair of types that can overlap, in part or one inside the other,
two numbers inside an address, a number inside an e-mail address inside an
address, and every sensitive key).  What a text may be is `Recognisable`, which
`PiiAssumption` assumes: matches lie in the text, an e-mail address around its
"@", and two matches differ in their start or their type.  Which of two entities
that start together comes first is the analyzer's choice, and fixed here.
`getMask()` is modelled by its length and by which characters it repeats.

The service and the gateway mask alike but for an e-mail address that ends with its
"@" (`ServiceMask`).

What a text may leak is stated over all that was recognised.  `ApartRedacted`: where
no two values overlap, the tool sees what the masks repeat and the rest unchanged.
`OverlapBounded`: where they do, it also sees what a dropped value has outside the
values that are masked, and `Pushed`: a mask longer than its match pushes what
follows to the right, and the mask of an outer match, cut out by the old positions,
no longer reaches its end (`Grows` bounds by how much a mask may be longer).
`SensitiveMasked`: a value whose key names a secret shows only what `SecretShows`
lists.  `LeakBounded` is all three.  `NothingLeaks` is what SECURITY.md promises, no
character of a recognised value but those a mask repeats; overlaps break it.

`PiiClient` has one action per socket event.  `wire` is what the connection still
carries to the client: an answer comes in two pieces, then perhaps the end of the
connection (`Fin`) or a reset (`Rst`).  Time is not modelled: the timer may fire
in any state of a live socket, and never on a destroyed one.

### Simulator

`interval` and `poll` are the `setInterval` of a submission and the status
requests in flight, at most `Polls` of them; the interval starts the next one
whether or not the last was answered.  The tab's POST is a call of `Gateway`, and
its status answer the operator `Status`.

## 3. Runs

| Run | Shows |
|---|---|
| `ledger` | one process, 2 concurrent calls, 3 requests, 2 contents: `ChainIntact`, `NoFalseAlarm`, `NextHashAgrees`, `PrefixKept`, and that the table implements `Ledger` |
| `ledger_faults` | 2 requests, one error or crash anywhere and one reset, fair: `MutualExclusion`, `IndexUnique`, `SuffixHealed`, `CallReturns` |
| `sentinel` | one process, 3 requests (one malformed), 4 POSTs (one repeated), both modes, one reviewer: each request has one bearer, runs at most once, its record, ticket and runs agree, verdicts only move forward |
| `sentinel_faults` | two processes, any two of all faults, early reviews: no approval is recorded without a run |
| `sentinel_live` | the simulator with two status requests in flight, another client that posts the same id and one that posts a malformed request, one database or network failure, fair: accepted requests are answered, the verdict is shown (`VerdictShown`), `COMPLETED` means that the tool ran (`CompletedHasRun`), and no late answer takes a verdict back (`NeverPendingAgain`) |
| `policy` | 2 requests of 17 kinds through one worker, one rule edit, two settings of the thresholds, one failing count, a reviewer: `HeldBack`, `BlockedRegardless`, `Story2Kept`, `CapKept`, `SanctionedBlocked` |
| `config` | two calls of a tab or of other clients, a second process that restarts, tools that are no list, one failing step or crash, one refetch at a time, the two calls symmetric: `FreshAfterReload`, `UntouchedEnforced`, `HistoryComplete`, `ModeShown`, `RulesShown` |
| `pii` | two requests through one worker, the first with any of some 2000 texts, and one stop of the service or failing analysis: `OwnAnswer`, `LeakBounded`, `RedactedUnlessHung` |

The runs below end in a violation: each checks what a document, comment or
message of the repository says and shows the behaviour of the code that
contradicts it (PROJECT.json quotes the lines).

| Run | What happens |
|---|---|
| `sentinel_early_review` | the worker overwrites a human verdict with ESCALATE |
| `sentinel_double_review` | two reviewers run the tool twice |
| `pii_overlap` | the service recognises a person and the street of that name, drops the person, and the part of the name outside the street reaches the tool (`NothingLeaks`) |
| `pii_hang` | the service closes a connection without an answer; the redaction never settles and the worker stops serving |

The constants of the passing runs also say where a property ends.  `ChainIntact`
needs one process and no faults or resets: two processes append with one index,
and a block of before a reset lands in the emptied table.  `NoSpuriousBlock`
needs one process (two choose the same ticket number), `LoggedRuns` no database
error and no failing notifier (the fallback overwrites the outcome of a tool
that ran), `CapKept` one process and only the engine's own approvals.
`HeldBack` needs an escalation threshold of at most 0.75, the risk a failed
collections rule adds, and `Story2Kept` a call that names its customer and a
debt within the income: a call without `customerId` is not counted, a debt of
150% of the income is read as 1.5%, and a loan that declares a ratio is judged
by that one.  `CapKept` counts the calls that leave the counting to the engine:
a declared `contactAttemptsLast7Days` or `calls_last_7_days` is believed.
`SanctionedBlocked` speaks of a rule of type OFAC, and no such rule is seeded:
the seeded list of sanctions blocks nobody until one is created.  `RunRedacted`
excepts malformed requests, which an OBSERVE override executes as they came, and
exempt tools: SECURITY.md:14 promises redaction of whatever goes out, and the seeded
`loan-underwriter` runs on raw parameters.
`Answered` is checked without crashes: a job popped before one stays PENDING for
ever.  `UntouchedEnforced` excepts torn resets and starts, after which a process
may enforce no rule until its next reload, and `HistoryComplete` overlapping
calls, which lose history.  `FreshAfterReload` is silent about a process whose last
reload overlapped another call: two of them may install the older list of rules last
and both answer that the configuration was reloaded (`admin.controller.ts:74`,
`:115`); no run here shows it.  `ModeShown` starts again after the page was reloaded
with the next switch, since no request reads the mode.  `LeakBounded`
bounds what overlapping values leak and does not exclude it: of a dropped entity the
part outside the kept ones, of an outer match the last characters that longer masks
inside it push out of reach.  Its part about secrets known by their name lets the
mask of a secret of up to four characters repeat it.

Bounds.  Two concurrent ledger calls are enough for every pairwise interleaving, a
third waits like the second; three records give a first, a middle and a last
block, so recalculation starts at each position and crosses each link.  Two
contents distinguish a changed row from an unchanged one.  `MaxFaults` and
`MaxResets` bound the environment: one fault reaches every partial state of one
call, the second one fails its repair.  In `Sentinel` three requests let one ticket
be decided while another is opened and a third is queued; the repeated POST and
the malformed request are fixed by the constants.  In `Policy` each kind of request
reaches a check, or a side of a limit, that no other does; one edit is enough to
change a rule between its evaluation and the decision, and `History` is one below
the limit of 6, so that the first approval uses it up and the second request meets
it.  In `config` two calls at a time give every pairwise interleaving, one rule is
touched by nobody (`KeptRules`) and one can be created, and the single fault lets
any one step fail or one process die and start again between any two steps of the
others.  In `pii` every pair of types that can meet in a text is listed, beside
each other, overlapping or one inside the other, and one connection fails while
the next request waits; the second request shows an answer that comes after the
timeout.  In `sentinel_live` two status requests are what it takes for one to
overtake the other.

Fairness.  `FairSpec` of the ledger assumes that a call which can take a step
takes one (Node resumes every continuation whose database call answered).  In
`Sentinel` the same holds for a call that began, a review that began and the
worker loop; nothing makes a client post, a reviewer decide or an administrator
act.  `Simulator` adds that the tab stays open: its timer fires, and a status
request is answered unless it fails.  `PiiClient` assumes the event loop and the
timers of the gateway only, nothing of the service: that the worker gets past a
service which never answers is what `RedactedUnlessHung` is about.

## 4. Proofs

Every safety property of the passing runs is proved for all values of the
constants, and so is `HumanVerdictKept`, which `sentinel_early_review` violates
where its hypotheses fail.  Where a theorem has hypotheses, they are operators on
the constants, every passing run that checks the property satisfies them, and this
section says which behaviour of the code makes them necessary.

### The ledger

For any number of callers, requests and contents.  `OnePod` says that all calls
are those of one process.

| Theorem | Hypotheses |
|---|---|
| `TypeCorrect`, `MutexExcludes` | none: any processes, faults and resets |
| `IndexUniqueHolds`, `SuffixHealedHolds`, `PrefixKeptHolds` | `OnePod`; any faults and resets |
| `ChainCorrect`, `NoFalseAlarmHolds`, `NextHashAgreesHolds`, `LedgerImplemented` | `OnePod`, no faults, no resets |

* `SafeInv`: types, the arguments a call carries, and that a call past its first
  step is the head of its pod's queue (`InsideHolds`).  `Mutex` hands over in
  order, so only the head moves.
* `HistoryInv`, for the second line.  After a failure the hashes may be anything,
  so what is inductive cannot speak of all of them: indices are unique and without
  gaps, and unless a reset emptied the table under the call, every row from its
  position on is still to come in its copy or already sealed, linked and before
  all that are (`TailDone`), and the next one will be chained to its predecessor
  (`TailChains`).
* `ChainInv`, for the third.  `ChainIntact` says nothing while a call is inside;
  `ChainInv` says, for each program point, which part of the chain is already
  sealed and linked and what the local variables hold of it (the last row's hash,
  the rows still to be rehashed).
* `NextInv` adds the links forward: every row names its successor's hash, but for
  the one that a call between two of its writes has still to correct.
* `LedgerImplemented` maps the initial states to those of `Ledger` and every step
  to `Append` (at `Create`), `Amend` (at `WriteContent`), `Verify`, or a stutter.
  `ChainInv` is what makes `Verify` answer "verified", and `NextInv` what makes a
  new index the number of rows.

### Gateway, worker, review and the simulator

For any number of requests, POSTs, processes and reviewers.

| Theorem | Hypotheses |
|---|---|
| `TypeCorrect`, `NoPhantomRunHolds` | none: every fault |
| `CompletedHasRunHolds`, `NeverPendingAgainHolds` | none: every fault |
| `OneBearerHolds` | `Reliable`: only notifications and status requests fail |
| `RunRedactedHolds` | `Lossy`, `Patient` |
| `RunOnceHolds` | `Lossy`, `NoCrash`, `OneReviewer` |
| `BlockedNotRunHolds` | `Lossy`, `Notified` |
| `NoSpuriousBlockHolds` | `Lossy`, `Notified`, `SinglePod` |
| `HumanVerdictKeptHolds` | `Lossy`, `Notified`, `Patient`, `OneReviewer` |
| `VerdictOrderHolds` | these and `SinglePod` |
| `LoggedRunsHolds` | `Lossy`, `NoCrash`, `Notified`, `Patient`, `OneReviewer` |
| `TicketAgreesHolds` | `Faultless`, `Patient`, `OneReviewer`, `SinglePod` |

`Lossy` says that what fails loses something and does nothing else: Redis may lose
a command or an answer, a webhook may throw, a process may die with its calls;
no database statement fails, no command is sent twice, nothing is reset.
`NoCrash` and `Notified` take the deaths and the throwing webhooks out of it;
under `Faultless` only status requests fail.  `Patient` says that a ticket is
decided after its verdict is stored, `OneReviewer` that one decision is processed
at a time, `SinglePod` that there is one API process.

* `RunInv`: an approval that a worker carries to the record, or a reviewer to the
  ticket and the record, already has its run.  That is the direction of
  `NoPhantomRun`; a run without an approval, or without any record, is what
  `BlockedNotRun` and `LoggedRuns` exclude.
* `AloneInv`: each kind of bearer (the push of a POST, the queue, a worker) holds a
  request at most once, no two kinds hold the same, and a request without a record
  has none, so that the POST which creates the record is its only bearer.  It
  survives every loss.  `BearerInv` adds that a PENDING request has a bearer, which
  a loss ends.  `OneBearer` counts, and the count alone is not inductive.
* `Rows` is types, `AloneInv` and `RowInv`: what the record and the ticket of a
  request look like while a job or a review works on it.  It holds under `Lossy`,
  where a step takes a request in, moves a job or a review on, or only drops
  something (`StepKinds`), and where the two tables change in seven ways
  (`TableSteps`).  The invariants below stand on these two lemmas.
* `RunsInv`: a request that was not decided, or whose ticket is open and not being
  decided, has not run.
* `BlockInv`: a ticket beside a BLOCK is closed, so nobody can approve it.
* `NumberInv`: with one process nobody opens a ticket between the count and the
  creation of another, so the number is new and no job ends in the fallback.
* `OrderInv`: an open ticket stands beside an undecided or escalated record, and a
  review works on escalated ones only, so a worker and a reviewer never write the
  same verdict.
* `OutcomeInv`: an undecided request that no worker has has not run; one in work has
  run as often as its step says; a decided one shows one of five combinations of
  record, ticket and runs.
* `TabInv` of the simulator: a COMPLETED on its way to the screen, or on it, has a
  run behind it, and a submission is answered once.  `RunInv` carries over to the
  composition.

The hypotheses are limits of the code.

* A database statement that fails after the ticket was stored ends in the fallback,
  which stores the raw request: the open ticket is then approved and runs it
  (`RunRedacted`).  A reset empties the tables under whoever works with them.
* A process that dies between a tool run and the write that reports it leaves an
  open ticket that is approved, and run, again, or a run no record mentions
  (`RunOnce`, `LoggedRuns`).
* A webhook that throws after the verdict was stored ends in the fallback, whose
  BLOCK overwrites that of the worker or of a reviewer and leaves the ticket open
  to be approved (`BlockedNotRun`, `NoSpuriousBlock`, `HumanVerdictKept`,
  `VerdictOrder`, `LoggedRuns`).
* A repeated LPUSH gives a request two bearers.  One that Redis lost stays PENDING,
  and so does that of a worker that died: its ticket may be open with nobody to
  store the ESCALATE (`TicketAgrees`).
* An early review is overwritten by the worker, and shows raw parameters
  (`sentinel_early_review`); two at once run the tool twice
  (`sentinel_double_review`); two processes take the same ticket number, and the
  second escalation becomes a BLOCK.

### Policy

For any requests, rules that may be created, editable columns, thresholds, clock
times, histories and workers, within `PolicyAssumption`: rules and requests have
the shape the code reads, and a created rule takes no seeded id.

`PolicyInv` says of each job by its stage (`JobSound`) and of each stored answer
(`AnswerSound`) what no edit can take back.  Before the decision (`Noted`): a
failed or uncounted collections rule has left its severity, and a seeded rule
that stands and that the request fails whatever the clock says is among the
failures.  After it (`Sound`): the verdict says so.  It refers to the edits made
up to now and not to the rules of the moment, which is why it is inductive
although `decide()` reads them again.

* `TypeCorrect`, `BlockedRegardlessHolds`, `Story2KeptHolds`: no hypotheses.
* `HeldBackHolds`: `Cautious` (escalation thresholds of at most 0.75), as risk is all
  that holds such a call back once its rule was disabled.
* `CapKeptHolds`: `Cautious` and `OneWorker`.  `CapInv` adds that a standing rule
  waits for its count, or failed, or found room for one more call (`CountInv`), and
  that an approval about to be stored has room (`RoomInv`); with two workers the
  other one could take it.
* `SanctionedBlockedHolds`: `Screening`, that is, a created OFAC rule blocks on the
  full name and is not edited, and a request for a listed name uses no tool whose
  rules wait for a count.

### Configuration and dashboard

For any number of processes, calls, keys, rules and client operations, with
failures and crashes.

* `TypeCorrect`, `FreshAfterReloadHolds`, `UntouchedEnforcedHolds`,
  `HistoryCompleteHolds`: no hypotheses.  `FreshInv` says how far the copies of a
  process agree with the tables at each await of a call that stayed alone
  (`Progress`), and that nothing is under way where a process is `clean`.
  `KeptInv` says that, until a reset or start is torn, whoever wipes the tables is
  alone, and that everybody else reads and installs lists with the kept rules.
  `HistoryInv` says that the row about to be written is the one stored, while no
  calls overlap.  What `FreshInv` says of the tools is guarded like the code by
  `ToolsListed`: the theorem covers values of any kind under that key.
* `ServedHolds` carries the four over to `DashboardSpec`: a click is a call like
  that of another client.
* `ModeShownHolds` needs `OneServer` (one process answers the calls; others share
  the tables) and `ModeOurs` (no other client resets or changes the mode): the tab
  never reads the mode, so it cannot show another client's switch.
  `RulesShownHolds` needs `OneServer` and `RulesOurs` (no other client resets or
  switches a rule; it may create some): a list is as old as its fetch.  `QuietInv`
  says that without mishaps an idle process agrees with the tables, `ModeInv` and
  `RuleInv` what screen, click under way and fetched list owe each other.

### Redaction

For any texts that `PiiAssumption` describes, of any length and with any number of
matches, and for any workers and failures: `TypeCorrect`, `OwnAnswerHolds`,
`LeakBoundedHolds`, no hypotheses.

`OwnInv` says that what the newest connection of a worker still carries, what its
handler waits for and what its promise holds are about the job in hand, and that a
result is the text of that very job as the service or the gateway masks it.  It
leaves of `LeakBounded` a statement about two operators, `Service` and `Local`,
which mask a text match after match by a fold.  `LoopInduction` makes the fold an
induction over sets of matches, of the form: what holds of the text as it came,
and is kept by masking one more match, holds in the end.  The inductive statements,
over the set `T` of matches masked up to now:

* `Intact`: what lies before the matches of `T` is where it was.
* `LocalBound` and `ServiceBound`: every character left is one that a mask repeats,
  one outside the matches, or one that a mask inside its match has pushed; the
  characters are in their old order, and none was pushed further than the masks
  before it grow (`Before`, `TotalAdds`).
* `AllShown`: where no two matches of `T` share a character (`Separate`), nothing is
  lost either, which makes the bound an equality.

The gateway masks from the last match to the first, the service the entities it
kept, which all start at different places (`KeptLies`).  Where nothing recognised
overlaps, nothing is dropped on either side (`ApartOverlaps`), so the equality is about
all that was recognised.  `SensitiveMaskedHolds` is the part about named secrets.

### Model-checked only

* Liveness (`CallReturns`, `Answered`, `VerdictShown`, `RedactedUnlessHung`), since
  fairness and `ENABLED` are out of the prover's reach.
* That the four runs of the second table end in a violation.

## 5. Not modelled, and what is left

Every planned module and theorem is there.  What would extend the theorems is a
change of the code: a notifier whose errors are caught after the verdict was stored
would make `Notified` unnecessary, and a ticket claimed by one conditional update
before its tool runs, `OneReviewer`.

Left out, and why:

* metrics: counters and alerts for display, fire-and-forget, read by no other
  part;
* the keyword classifier: a function without state whose label no rule reads;
* entity recognition in the PII service (a library), and which characters the
  gateway's patterns match;
* the dashboard's presentation and its tabs that only fetch and show;
* what a key that no start seeds (`webhook_urls`) does in a cache that is never
  cleared, and the order in which the framework runs the init hooks of the worker
  and of the configuration;
* an edit of a row behind the back of the service: `verifyChain()` recomputes every
  hash of the table it finds (`ChainVerified`), which is what would notice it;
* wording and logging.
