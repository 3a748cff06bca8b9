----------------------------- MODULE ConfigCache -----------------------------
(***************************************************************************)
(* ConfigurationService: the configuration and rule rows in the database,  *)
(* and the copies each process enforces.  An update writes its row and     *)
(* then reloads everything, key by key, with a Redis write after each; a   *)
(* reset or a start deletes the rows and seeds them anew first.  A step    *)
(* lasts from one await to the next, and none of this takes a lock.        *)
(***************************************************************************)
EXTENDS Integers, Sequences, FiniteSets

CONSTANTS
  Pods,         \* API processes, over one database
  Calls,        \* administration calls over HTTP
  PodOf,        \* the process that serves a call
  SeedConfig,   \* the configuration a start seeds, by key
  SeedRules,    \* the rules a start seeds, all enabled
  NewRules,     \* the rules an administrator may create
  KeptRules,    \* seeded rules that no call asks to change
  Keys, Values, \* of the configuration
  Lists,        \* the values that are arrays
  Operations,   \* what a call may ask for
  MaxFaults     \* bound: failing steps and crashes in a behaviour

Actors == Calls \cup Pods   \* a pod acts for itself while it starts
Rules == SeedRules \cup NewRules

\* The shapes a call's operation has.
Requests ==
  [kind : {"config"}, key : Keys, value : Values]
    \cup [kind : {"rule"}, id : Rules \ KeptRules, enabled : BOOLEAN]
    \cup [kind : {"create"}, id : NewRules]
    \cup [kind : {"seed"}]

ASSUME ConfigAssumption ==
  /\ Calls \cap Pods = {}
  /\ PodOf \in [Calls -> Pods]
  /\ SeedConfig \in [DOMAIN SeedConfig -> Values]
  /\ Lists \subseteq Values
  /\ "tools" \in DOMAIN SeedConfig /\ SeedConfig["tools"] \in Lists
  /\ DOMAIN SeedConfig \subseteq Keys
  /\ KeptRules \subseteq SeedRules
  /\ Operations \subseteq Requests
  /\ MaxFaults \in Nat

VARIABLES
  config,   \* SystemConfiguration: the stored value by key
  rules,    \* ComplianceRule: enabled, version and changeHistory by rule
  cache,    \* per pod, configCache
  active,   \* per pod, rulesCache: the enabled rules it knows
  tools,    \* per pod, toolsCache
  call,     \* per actor, how far its call or its start is
  clean,    \* the pod whose last reload nothing overlapped, as a set
  mishaps,  \* what has happened so far: "overlap", "torn", "failure"
  faults

rows == <<config, rules>>
copies == <<cache, active, tools>>
vars == <<config, rules, cache, active, tools, call, clean, mishaps, faults>>

Nothing == [k \in {} |-> {}]
With(f, k, v) == [j \in DOMAIN f \cup {k} |-> IF j = k THEN v ELSE f[j]]
Joined(f, g) == [j \in DOMAIN f \cup DOMAIN g |-> IF j \in DOMAIN f THEN f[j] ELSE g[j]]
Enabled == {id \in DOMAIN rules : rules[id].enabled}
Pod(a) == IF a \in Pods THEN a ELSE PodOf[a]
Up(p) == call[p].pc = "up"
Rest == {"idle", "up", "down", "ok", "failed", "lost"}
Open(a) == call[a].pc \notin Rest
Wiping(a) == Open(a) /\ call[a].op.kind = "seed"

-----------------------------------------------------------------------------
(* Calls begin and end *)

\* A reset or a start is torn when anything else goes on meanwhile.
Overlapping(op) ==
  IF \E b \in Actors : Open(b)
  THEN {"overlap"} \cup (IF op.kind = "seed" \/ \E b \in Actors : Wiping(b)
                         THEN {"torn"} ELSE {})
  ELSE {}

FirstStep(op) == CASE op.kind = "seed"   -> "wipeConfig"
                   [] op.kind = "create" -> "write"
                   [] OTHER              -> "find"

Begins(a, op) ==
  /\ call' = [b \in Actors |->
       IF b = a THEN [pc |-> FirstStep(op), op |-> op, alone |-> \A c \in Actors : ~Open(c)]
       ELSE IF Open(b) THEN [call[b] EXCEPT !.alone = FALSE] ELSE call[b]]
  /\ mishaps' = mishaps \cup Overlapping(op)
  /\ clean' = {}

Begin(c, op) ==
  /\ call[c].pc = "idle"
  /\ Up(PodOf[c])
  /\ Begins(c, op)
  /\ UNCHANGED <<rows, copies, faults>>

\* The call is answered 500; a failing start ends the process.
Throws(a) ==
  /\ call' = [call EXCEPT ![a] = [pc |-> IF a \in Pods THEN "down" ELSE "failed"]]
  /\ mishaps' = mishaps \cup {"failure"} \cup (IF Wiping(a) THEN {"torn"} ELSE {})

\* The call goes on with record next, or the answer to what it just did, or
\* the call after that, is an error.
Goes(a, next) ==
  \/ call' = [call EXCEPT ![a] = next] /\ UNCHANGED <<mishaps, faults>>
  \/ faults < MaxFaults /\ faults' = faults + 1 /\ Throws(a)

Then(a, pc) == Goes(a, [call[a] EXCEPT !.pc = pc])
Refused(a) == Throws(a) /\ UNCHANGED <<rows, faults>>

-----------------------------------------------------------------------------
(* The row is written *)

\* findUnique() of updateConfig() and updateRule().
Find(a) ==
  LET op == call[a].op IN
  /\ call[a].pc = "find"
  /\ IF op.kind = "config"
     THEN Goes(a, [pc |-> "write", op |-> op, alone |-> call[a].alone,
                   found |-> op.key \in DOMAIN config])
     ELSE IF op.id \in DOMAIN rules
          THEN Goes(a, [pc |-> "write", op |-> op, alone |-> call[a].alone,
                        row |-> rules[op.id]])
          ELSE Throws(a) /\ UNCHANGED faults
  /\ UNCHANGED <<rows, copies, clean>>

\* update() of a row that is gone and create() of one that is there throw.
WriteConfig(a) ==
  LET op == call[a].op IN
  IF call[a].found = (op.key \in DOMAIN config)
  THEN config' = With(config, op.key, op.value) /\ UNCHANGED rules /\ Then(a, "readConfig")
  ELSE Refused(a)

\* Variant: the version that is written now goes into the history.
WriteRuleAsNew(a) ==
  LET op == call[a].op
      row == call[a].row IN
  IF op.id \in DOMAIN rules
  THEN /\ rules' = [rules EXCEPT ![op.id] =
            [enabled |-> op.enabled, version |-> @.version + 1,
             history |-> Append(row.history, row.version + 1)]]
       /\ UNCHANGED config /\ Then(a, "readConfig")
  ELSE Refused(a)

\* The version is incremented in the database, the history extended from the
\* row that was read.
WriteRule(a) ==
  LET op == call[a].op
      row == call[a].row IN
  IF op.id \in DOMAIN rules
  THEN /\ rules' = [rules EXCEPT ![op.id] =
            [enabled |-> op.enabled, version |-> @.version + 1,
             history |-> Append(row.history, row.version)]]
       /\ UNCHANGED config /\ Then(a, "readConfig")
  ELSE Refused(a)

NewRow == [enabled |-> TRUE, version |-> 1, history |-> <<>>]

CreateRow(a) ==
  LET id == call[a].op.id IN
  IF id \notin DOMAIN rules
  THEN rules' = With(rules, id, NewRow) /\ UNCHANGED config /\ Then(a, "readConfig")
  ELSE Refused(a)

Write(a) ==
  /\ call[a].pc = "write"
  /\ CASE call[a].op.kind = "config" -> WriteConfig(a)
       [] call[a].op.kind = "rule"   -> WriteRule(a)
       [] call[a].op.kind = "create" -> CreateRow(a)
  /\ UNCHANGED <<copies, clean>>

\* bootstrapDatabase(): four statements; seeding a row that somebody created
\* in between violates its unique key.
Reseed(a) ==
  \/ call[a].pc = "wipeConfig" /\ config' = Nothing /\ UNCHANGED rules /\ Then(a, "seedConfig")
  \/ /\ call[a].pc = "seedConfig"
     /\ IF DOMAIN config \cap DOMAIN SeedConfig = {}
        THEN config' = Joined(SeedConfig, config) /\ UNCHANGED rules /\ Then(a, "wipeRules")
        ELSE Refused(a)
  \/ call[a].pc = "wipeRules" /\ rules' = Nothing /\ UNCHANGED config /\ Then(a, "seedRules")
  \/ /\ call[a].pc = "seedRules"
     /\ IF DOMAIN rules \cap SeedRules = {}
        THEN /\ rules' = Joined([id \in SeedRules |-> NewRow], rules)
             /\ UNCHANGED config /\ Then(a, "readConfig")
        ELSE Refused(a)

Seed(a) == Reseed(a) /\ UNCHANGED <<copies, clean>>

-----------------------------------------------------------------------------
(* loadAllToCache() *)

\* The rows as the query finds them; they are worked through later.
ReadConfig(a) ==
  /\ call[a].pc = "readConfig"
  /\ Goes(a, [pc |-> IF config = Nothing THEN "readRules" ELSE "keys", op |-> call[a].op,
              alone |-> call[a].alone, snapshot |-> config, todo |-> DOMAIN config])
  /\ UNCHANGED <<rows, copies, clean>>

\* Variant: a key that is cached keeps its value.
CachedOnce(a, k) == IF k \in DOMAIN cache[Pod(a)] THEN cache[Pod(a)]
                    ELSE With(cache[Pod(a)], k, call[a].snapshot[k])

\* Variant: key and value are swapped.
CachedSwapped(a, k) == With(cache[Pod(a)], call[a].snapshot[k], k)

\* configCache is a Map that is never cleared.
Cached(a, k) == With(cache[Pod(a)], k, call[a].snapshot[k])

\* One key, then its Redis write is awaited.
CacheKey(a) ==
  /\ call[a].pc = "keys"
  /\ \E k \in call[a].todo :
       LET left == call[a].todo \ {k} IN
       /\ cache' = [cache EXCEPT ![Pod(a)] = Cached(a, k)]
       /\ Goes(a, [call[a] EXCEPT !.todo = left, !.pc = IF left = {} THEN "readRules" ELSE "keys"])
  /\ UNCHANGED <<rows, active, tools, clean>>

\* Variant: the rules are cleared before the query is awaited.
ReadRulesCleared(a) ==
  /\ call[a].pc = "readRules"
  /\ active' = [active EXCEPT ![Pod(a)] = {}]
  /\ Goes(a, [pc |-> "install", op |-> call[a].op, alone |-> call[a].alone, seen |-> Enabled])
  /\ UNCHANGED <<rows, cache, tools, clean>>

ReadRules(a) ==
  /\ call[a].pc = "readRules"
  /\ Goes(a, [pc |-> "install", op |-> call[a].op, alone |-> call[a].alone, seen |-> Enabled])
  /\ UNCHANGED <<rows, copies, clean>>

\* rulesCache is replaced as a whole, then its Redis write is awaited.
Install(a) ==
  /\ call[a].pc = "install"
  /\ active' = [active EXCEPT ![Pod(a)] = call[a].seen]
  /\ Goes(a, [pc |-> "finish", op |-> call[a].op, alone |-> call[a].alone])
  /\ UNCHANGED <<rows, cache, tools, clean>>

\* The cached value of the key "tools" is an array.
ToolsListed(p) == "tools" \in DOMAIN cache[p] /\ cache[p]["tools"] \in Lists

\* Anything else under that key leaves the parser with the tools it had.
Finish(a) ==
  /\ call[a].pc = "finish"
  /\ tools' = [tools EXCEPT ![Pod(a)] =
                 IF ToolsListed(Pod(a)) THEN cache[Pod(a)]["tools"] ELSE @]
  /\ call' = [call EXCEPT ![a] = [pc |-> IF a \in Pods THEN "up" ELSE "ok"]]
  /\ clean' = IF call[a].alone THEN {Pod(a)} ELSE clean
  /\ UNCHANGED <<rows, cache, active, mishaps, faults>>

-----------------------------------------------------------------------------
(* Processes *)

\* The calls of a process die with it.
Crash(p) ==
  LET dying == {a \in Actors : Open(a) /\ Pod(a) = p} IN
  /\ call[p].pc # "down"
  /\ faults < MaxFaults /\ faults' = faults + 1
  /\ call' = [a \in Actors |-> IF a = p THEN [pc |-> "down"]
                               ELSE IF a \in dying THEN [pc |-> "lost"] ELSE call[a]]
  /\ mishaps' = mishaps \cup {"failure"} \cup (IF \E a \in dying : Wiping(a) THEN {"torn"} ELSE {})
  /\ clean' = clean \ {p}
  /\ UNCHANGED <<rows, copies>>

\* onModuleInit() of a new process.
Start(p) ==
  /\ call[p].pc = "down"
  /\ Begins(p, [kind |-> "seed"])
  /\ cache' = [cache EXCEPT ![p] = Nothing]
  /\ active' = [active EXCEPT ![p] = {}]
  /\ tools' = [tools EXCEPT ![p] = "none"]
  /\ UNCHANGED <<rows, faults>>

-----------------------------------------------------------------------------
Init ==
  /\ config = SeedConfig
  /\ rules = [id \in SeedRules |-> NewRow]
  /\ cache = [p \in Pods |-> SeedConfig]
  /\ active = [p \in Pods |-> SeedRules]
  /\ tools = [p \in Pods |-> SeedConfig["tools"]]
  /\ call = [a \in Actors |-> [pc |-> IF a \in Pods THEN "up" ELSE "idle"]]
  /\ clean = {} /\ mishaps = {} /\ faults = 0

CallStep(a) ==
  \/ Find(a) \/ Write(a) \/ Seed(a)
  \/ ReadConfig(a) \/ CacheKey(a) \/ ReadRules(a) \/ Install(a) \/ Finish(a)

Next ==
  \/ \E c \in Calls, op \in Operations : Begin(c, op)
  \/ \E a \in Actors : CallStep(a)
  \/ \E p \in Pods : Crash(p) \/ Start(p)

Spec == Init /\ [][Next]_vars

-----------------------------------------------------------------------------
(* Properties *)

\* The shape of every variable: rows and copies are partial functions on known
\* keys and rules, and a process that serves has no start of its own under way.
TypeOK ==
  /\ DOMAIN config \subseteq Keys /\ \A k \in DOMAIN config : config[k] \in Values
  /\ DOMAIN rules \subseteq Rules
  /\ \A id \in DOMAIN rules : rules[id].enabled \in BOOLEAN /\ rules[id].version \in Nat
  /\ \A p \in Pods : /\ DOMAIN cache[p] \subseteq Keys
                     /\ active[p] \subseteq Rules
                     /\ tools[p] \in Values \cup {"none"}
                     /\ Open(p) => Wiping(p) /\ \A c \in Calls : Open(c) => PodOf[c] # p
  /\ clean \subseteq Pods
  /\ mishaps \subseteq {"overlap", "torn", "failure"}
  /\ faults \in 0..MaxFaults

\* One successful call that nothing overlapped repairs a process, whatever
\* races, failures and half-done resets went before it: each stored key is
\* cached with its stored value, the rules it enforces are the enabled ones,
\* and the parser sees the tools that are configured, if they are a list.  (What
\* is no list is stored, cached and answered 200, and the parser keeps the tools
\* it had.)
FreshAfterReload ==
  \A p \in clean :
    /\ \A k \in DOMAIN config : k \in DOMAIN cache[p] /\ cache[p][k] = config[k]
    /\ active[p] = Enabled
    /\ ToolsListed(p) => tools[p] = cache[p]["tools"]

\* A rule nobody ever asked to change is enforced by every process that
\* serves, however updates overlap, fail, or crash: only a reset or a start
\* that overlapped another call, or failed half-way, can lose it.
UntouchedEnforced ==
  "torn" \notin mishaps => \A p \in Pods : Up(p) => KeptRules \subseteq active[p]

\* As long as no two calls overlapped, the history of a rule has one entry for
\* each version before its current one.
HistoryComplete ==
  "overlap" \notin mishaps =>
    \A id \in DOMAIN rules :
      rules[id].history = [v \in 1..rules[id].version - 1 |-> v]

=============================================================================
