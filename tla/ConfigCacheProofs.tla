-------------------------- MODULE ConfigCacheProofs --------------------------
(***************************************************************************)
(* Theorems about ConfigCache and Dashboard, for every set of processes,   *)
(* calls, rules, configuration keys and operations.                        *)
(***************************************************************************)
EXTENDS Dashboard, TLAPS

Seeding == {"wipeConfig", "seedConfig", "wipeRules", "seedRules"}
Reloading == {"readConfig", "keys", "readRules", "install", "finish"}
Busy == {"find", "write"} \cup Seeding \cup Reloading

Row == [enabled : BOOLEAN, version : Nat, history : Seq(Nat)]
TypedConfig(f) == DOMAIN f \subseteq Keys /\ \A k \in DOMAIN f : f[k] \in Values
TypedRules(t) == DOMAIN t \subseteq Rules /\ \A id \in DOMAIN t : t[id] \in Row

\* What the record of a call or a start holds, stage by stage.
Shape(r) ==
  /\ "pc" \in DOMAIN r /\ r.pc \in Rest \cup Busy
  /\ r.pc \in Busy =>
       /\ {"op", "alone"} \subseteq DOMAIN r
       /\ r.op \in Requests /\ r.alone \in BOOLEAN
       /\ r.pc = "find" => r.op.kind \in {"config", "rule"}
       /\ r.pc = "write" => /\ r.op.kind \in {"config", "rule", "create"}
                            /\ r.op.kind = "rule" => "row" \in DOMAIN r /\ r.row \in Row
       /\ r.pc \in Seeding => r.op.kind = "seed"
       /\ r.pc = "keys" => /\ {"snapshot", "todo"} \subseteq DOMAIN r
                           /\ TypedConfig(r.snapshot)
                           /\ r.todo \subseteq DOMAIN r.snapshot
       /\ r.pc = "install" => "seen" \in DOMAIN r /\ r.seen \subseteq Rules

\* A call is answered or lost, never a running process; a process starts by
\* seeding.
Placed(a) ==
  /\ a \in Calls => call[a].pc \notin {"up", "down"}
  /\ a \in Pods => /\ call[a].pc \in {"up", "down"} \cup Busy
                   /\ call[a].pc \in Busy => call[a].op.kind = "seed"

\* A process that is down or starting serves no call.
Served == \A c \in Calls : Open(c) => Up(PodOf[c])

CallsTyped ==
  /\ DOMAIN call = Actors
  /\ \A a \in Actors : Shape(call[a]) /\ Placed(a)
  /\ Served

RowsTyped == TypedConfig(config) /\ TypedRules(rules)

CopiesTyped ==
  /\ DOMAIN cache = Pods /\ DOMAIN active = Pods /\ DOMAIN tools = Pods
  /\ \A p \in Pods : /\ TypedConfig(cache[p])
                     /\ active[p] \subseteq Rules
                     /\ tools[p] \in Values \cup {"none"}

CountsTyped ==
  /\ clean \subseteq Pods
  /\ mishaps \subseteq {"overlap", "torn", "failure"}
  /\ faults \in 0..MaxFaults

TypeInv == CallsTyped /\ RowsTyped /\ CopiesTyped /\ CountsTyped

-----------------------------------------------------------------------------
(* Operators *)

\* One more entry in a partial function: every other entry stays.
LEMMA WithProperties ==
  ASSUME NEW f, NEW k, NEW v
  PROVE  /\ DOMAIN With(f, k, v) = DOMAIN f \cup {k}
         /\ With(f, k, v)[k] = v
         /\ \A j \in DOMAIN f \ {k} : With(f, k, v)[j] = f[j]
  BY DEF With

\* Keys and values of one more entry come from the same sets.
LEMMA WithTyped ==
  ASSUME NEW f, NEW k, NEW v, NEW S, NEW V, k \in S, v \in V,
         DOMAIN f \subseteq S, \A j \in DOMAIN f : f[j] \in V
  PROVE  /\ DOMAIN With(f, k, v) \subseteq S
         /\ \A j \in DOMAIN With(f, k, v) : With(f, k, v)[j] \in V
  BY DEF With

\* A joined function has the entries of the first, then those of the second.
LEMMA JoinedProperties ==
  ASSUME NEW f, NEW g
  PROVE  /\ DOMAIN Joined(f, g) = DOMAIN f \cup DOMAIN g
         /\ \A j \in DOMAIN f : Joined(f, g)[j] = f[j]
         /\ \A j \in DOMAIN g \ DOMAIN f : Joined(f, g)[j] = g[j]
  BY DEF Joined

\* Keys and values of joined functions come from the same sets.
LEMMA JoinedTyped ==
  ASSUME NEW f, NEW g, NEW S, NEW V,
         DOMAIN f \subseteq S, \A j \in DOMAIN f : f[j] \in V,
         DOMAIN g \subseteq S, \A j \in DOMAIN g : g[j] \in V
  PROVE  /\ DOMAIN Joined(f, g) \subseteq S
         /\ \A j \in DOMAIN Joined(f, g) : Joined(f, g)[j] \in V
  BY DEF Joined

\* The fields of an operation have the types its kind says.
LEMMA RequestFields ==
  ASSUME NEW op \in Requests
  PROVE  /\ op.kind \in {"config", "rule", "create", "seed"}
         /\ op.kind = "config" => op.key \in Keys /\ op.value \in Values
         /\ op.kind = "rule" => op.id \in Rules \ KeptRules /\ op.enabled \in BOOLEAN
         /\ op.kind = "create" => op.id \in NewRules
  BY DEF Requests

\* A call is open exactly while its stage is one of the busy ones.
LEMMA OpenBusy ==
  ASSUME CallsTyped, NEW a \in Actors
  PROVE  Open(a) <=> call[a].pc \in Busy
  BY DEF CallsTyped, Shape, Open, Rest, Busy, Seeding, Reloading

\* The type invariant of the specification is a part of the typing here.
LEMMA TypeInvImplies ==
  ASSUME TypeInv
  PROVE  TypeOK
<1>1. \A p \in Pods : Open(p) => Wiping(p) /\ \A c \in Calls : Open(c) => PodOf[c] # p
  <2> TAKE p \in Pods
  <2> HAVE Open(p)
  <2>1. p \in Actors
    BY DEF Actors
  <2>2. call[p].pc \in Busy
    BY <2>1, OpenBusy DEF TypeInv
  <2>3. Wiping(p)
    BY <2>1, <2>2 DEF TypeInv, CallsTyped, Placed, Wiping
  <2>4. ASSUME NEW c \in Calls, Open(c) PROVE PodOf[c] # p
    BY <2>2, <2>4 DEF TypeInv, CallsTyped, Served, Up, Busy, Seeding, Reloading
  <2> QED
    BY <2>3, <2>4
<1>2. \A id \in DOMAIN rules : rules[id].enabled \in BOOLEAN /\ rules[id].version \in Nat
  BY DEF TypeInv, RowsTyped, TypedRules, Row
<1> QED
  BY <1>1, <1>2 DEF TypeInv, TypeOK, RowsTyped, TypedConfig, TypedRules, CopiesTyped, CountsTyped

-----------------------------------------------------------------------------
(* How a step moves its call *)

\* An actor's step leaves the other calls alone; its own goes on with the same
\* operation, fails, or has finished.
Fails(a) ==
  /\ call'[a] = [pc |-> IF a \in Pods THEN "down" ELSE "failed"]
  /\ mishaps' = mishaps \cup {"failure"} \cup (IF Wiping(a) THEN {"torn"} ELSE {})
  /\ faults' \in {faults, faults + 1} /\ faults' \in 0..MaxFaults

Continues(a) ==
  /\ Shape(call'[a])
  /\ call'[a].pc \in Busy
  /\ call'[a].op = call[a].op /\ call'[a].alone = call[a].alone
  /\ UNCHANGED <<mishaps, faults>>

Finishes(a) ==
  /\ call[a].pc = "finish"
  /\ call'[a] = [pc |-> IF a \in Pods THEN "up" ELSE "ok"]
  /\ UNCHANGED <<mishaps, faults>>

Moved(a) ==
  /\ call[a].pc \in Busy
  /\ DOMAIN call' = Actors
  /\ \A b \in Actors \ {a} : call'[b] = call[b]
  /\ Continues(a) \/ Fails(a) \/ Finishes(a)

\* The next record of a call is the one given, or the call fails.
LEMMA GoesMoves ==
  ASSUME TypeInv, NEW a \in Actors, NEW next, Goes(a, next),
         call[a].pc \in Busy,
         Shape(next), next.pc \in Busy, next.op = call[a].op, next.alone = call[a].alone
  PROVE  Moved(a) /\ (call'[a] = next \/ Fails(a))
<1>1. CASE call' = [call EXCEPT ![a] = next] /\ UNCHANGED <<mishaps, faults>>
  BY <1>1 DEF TypeInv, CallsTyped, Moved, Continues
<1>2. CASE faults < MaxFaults /\ faults' = faults + 1 /\ Throws(a)
  BY <1>2, ConfigAssumption DEF TypeInv, CallsTyped, CountsTyped, Moved, Fails, Throws
<1> QED
  BY <1>1, <1>2 DEF Goes

\* A refused statement makes the call fail.
LEMMA ThrowsMoves ==
  ASSUME TypeInv, NEW a \in Actors, Throws(a), UNCHANGED faults, call[a].pc \in Busy
  PROVE  Moved(a) /\ Fails(a)
  BY DEF TypeInv, CallsTyped, CountsTyped, Moved, Fails, Throws

\* A call that fails was answered with an error, or its process is down.
LEMMA FailsEnds ==
  ASSUME NEW a \in Actors, Fails(a)
  PROVE  call'[a].pc \in {"down", "failed"}
  BY DEF Fails

\* Going to the next stage keeps all that the record holds.
LEMMA ThenMoves ==
  ASSUME TypeInv, NEW a \in Actors, call[a].pc \in Busy, NEW pc, Then(a, pc),
         \/ pc = "readConfig"
         \/ pc \in Seeding /\ call[a].pc \in Seeding
  PROVE  Moved(a) /\ ((call'[a].pc = pc /\ Continues(a)) \/ Fails(a))
<1> DEFINE next == [call[a] EXCEPT !.pc = pc]
<1>1. Shape(call[a])
  BY DEF TypeInv, CallsTyped
<1>2. next.pc = pc /\ next.op = call[a].op /\ next.alone = call[a].alone /\ DOMAIN next = DOMAIN call[a]
  BY <1>1 DEF Shape
<1>3. pc \in Busy
  BY DEF Busy, Seeding, Reloading
<1>4. Shape(next)
  BY <1>1, <1>2, <1>3 DEF Shape, Seeding
<1>5. Goes(a, next)
  BY DEF Then
<1> HIDE DEF next
<1>6. Moved(a) /\ (call'[a] = next \/ Fails(a))
  BY <1>2, <1>3, <1>4, <1>5, GoesMoves
<1>7. call'[a] = next => Continues(a) \/ Fails(a)
  BY <1>2, <1>3, <1>6 DEF Moved, Finishes, Busy, Seeding, Reloading
<1> QED
  BY <1>2, <1>6, <1>7

-----------------------------------------------------------------------------
(* Every step of a call or a start *)

\* A row is looked up, and the call keeps what it found.
LEMMA FindMoves ==
  ASSUME TypeInv, NEW a \in Actors, Find(a)
  PROVE  /\ Moved(a)
         /\ \/ /\ call'[a].pc = "write"
               /\ call[a].op.kind = "rule" => /\ call[a].op.id \in DOMAIN rules
                                              /\ call'[a].row = rules[call[a].op.id]
            \/ Fails(a)
<1>1. /\ call[a].pc = "find" /\ call[a].op \in Requests /\ call[a].alone \in BOOLEAN
      /\ call[a].op.kind \in {"config", "rule"} /\ call[a].pc \in Busy
  BY DEF Find, TypeInv, CallsTyped, Shape, Busy
<1>2. CASE call[a].op.kind = "config"
  <2> DEFINE next == [pc |-> "write", op |-> call[a].op, alone |-> call[a].alone,
                      found |-> call[a].op.key \in DOMAIN config]
  <2>1. Goes(a, next)
    BY <1>2 DEF Find
  <2>2. Shape(next) /\ next.pc \in Busy /\ next.op = call[a].op /\ next.alone = call[a].alone
    BY <1>1, <1>2 DEF Shape, Busy, Seeding, Reloading
  <2>3. next.pc = "write"
    OBVIOUS
  <2> HIDE DEF next
  <2> QED
    BY <1>1, <1>2, <2>1, <2>2, <2>3, GoesMoves
<1>3. CASE call[a].op.kind = "rule" /\ call[a].op.id \in DOMAIN rules
  <2> DEFINE next == [pc |-> "write", op |-> call[a].op, alone |-> call[a].alone,
                      row |-> rules[call[a].op.id]]
  <2>1. Goes(a, next)
    BY <1>3 DEF Find
  <2>2. rules[call[a].op.id] \in Row
    BY <1>3 DEF TypeInv, RowsTyped, TypedRules
  <2>3. Shape(next) /\ next.pc \in Busy /\ next.op = call[a].op /\ next.alone = call[a].alone
    BY <1>1, <1>3, <2>2 DEF Shape, Busy, Seeding, Reloading
  <2>4. next.pc = "write" /\ next.row = rules[call[a].op.id]
    OBVIOUS
  <2> HIDE DEF next
  <2> QED
    BY <1>1, <1>3, <2>1, <2>3, <2>4, GoesMoves
<1>4. CASE call[a].op.kind = "rule" /\ call[a].op.id \notin DOMAIN rules
  <2>1. Throws(a) /\ UNCHANGED faults
    BY <1>4 DEF Find
  <2> QED
    BY <1>1, <2>1, ThrowsMoves
<1> QED
  BY <1>1, <1>2, <1>3, <1>4

\* What updateConfig(), updateRule() and createRule() write.
LEMMA WriteMoves ==
  ASSUME TypeInv, NEW a \in Actors, Write(a)
  PROVE  Moved(a) /\ RowsTyped' /\ (call'[a].pc = "readConfig" \/ Fails(a))
<1> DEFINE op == call[a].op
           row == call[a].row
<1>1. /\ call[a].pc = "write" /\ op \in Requests /\ call[a].pc \in Busy
      /\ op.kind \in {"config", "rule", "create"}
      /\ op.kind = "rule" => row \in Row
  BY DEF Write, TypeInv, CallsTyped, Shape, Busy
<1>2. TypedConfig(config) /\ TypedRules(rules)
  BY DEF TypeInv, RowsTyped
<1> HIDE DEF row
<1>3. CASE op.kind = "config"
  <2>1. WriteConfig(a)
    BY <1>3 DEF Write
  <2>2. CASE call[a].found = (op.key \in DOMAIN config)
    <3>1. config' = With(config, op.key, op.value) /\ UNCHANGED rules /\ Then(a, "readConfig")
      BY <2>1, <2>2 DEF WriteConfig
    <3>2. op.key \in Keys /\ op.value \in Values
      BY <1>1, <1>3, RequestFields
    <3>3. TypedConfig(config')
      BY <1>2, <3>1, <3>2, WithTyped DEF TypedConfig
    <3> QED
      BY <1>1, <1>2, <3>1, <3>3, ThenMoves DEF RowsTyped
  <2>3. CASE ~(call[a].found = (op.key \in DOMAIN config))
    <3>1. Throws(a) /\ UNCHANGED <<rows, faults>>
      BY <2>1, <2>3 DEF WriteConfig, Refused
    <3> QED
      BY <1>1, <1>2, <3>1, ThrowsMoves DEF RowsTyped, rows
  <2> QED
    BY <2>2, <2>3
<1>4. CASE op.kind = "rule"
  <2>1. WriteRule(a)
    BY <1>4 DEF Write
  <2>2. CASE op.id \in DOMAIN rules
    <3> DEFINE new == [enabled |-> op.enabled, version |-> rules[op.id].version + 1,
                       history |-> Append(row.history, row.version)]
    <3>1. /\ rules' = [rules EXCEPT ![op.id] = new]
          /\ UNCHANGED config /\ Then(a, "readConfig")
      BY <2>1, <2>2 DEF WriteRule, row
    <3>2. op.enabled \in BOOLEAN
      BY <1>1, <1>4, RequestFields
    <3>3. Append(row.history, row.version) \in Seq(Nat)
      BY <1>1, <1>4 DEF Row
    <3>4. new \in Row
      BY <1>2, <2>2, <3>2, <3>3 DEF TypedRules, Row
    <3> HIDE DEF new
    <3>5. TypedRules(rules')
      BY <1>2, <2>2, <3>1, <3>4 DEF TypedRules
    <3> QED
      BY <1>1, <1>2, <3>1, <3>5, ThenMoves DEF RowsTyped
  <2>3. CASE op.id \notin DOMAIN rules
    <3>1. Throws(a) /\ UNCHANGED <<rows, faults>>
      BY <2>1, <2>3 DEF WriteRule, Refused
    <3> QED
      BY <1>1, <1>2, <3>1, ThrowsMoves DEF RowsTyped, rows
  <2> QED
    BY <2>2, <2>3
<1>5. CASE op.kind = "create"
  <2>1. CreateRow(a)
    BY <1>5 DEF Write
  <2>2. CASE op.id \notin DOMAIN rules
    <3>1. rules' = With(rules, op.id, NewRow) /\ UNCHANGED config /\ Then(a, "readConfig")
      BY <2>1, <2>2 DEF CreateRow
    <3>2. op.id \in Rules
      BY <1>1, <1>5, RequestFields DEF Rules
    <3>3. NewRow \in Row
      BY DEF NewRow, Row
    <3>4. TypedRules(rules')
      BY <1>2, <3>1, <3>2, <3>3, WithTyped DEF TypedRules
    <3> QED
      BY <1>1, <1>2, <3>1, <3>4, ThenMoves DEF RowsTyped
  <2>3. CASE op.id \in DOMAIN rules
    <3>1. Throws(a) /\ UNCHANGED <<rows, faults>>
      BY <2>1, <2>3 DEF CreateRow, Refused
    <3> QED
      BY <1>1, <1>2, <3>1, ThrowsMoves DEF RowsTyped, rows
  <2> QED
    BY <2>2, <2>3
<1> QED
  BY <1>1, <1>3, <1>4, <1>5

\* The four statements of bootstrapDatabase().
LEMMA SeedMoves ==
  ASSUME TypeInv, NEW a \in Actors, Seed(a)
  PROVE  /\ Moved(a) /\ RowsTyped'
         /\ call[a].pc \in Seeding
         /\ call[a].pc = "wipeConfig" => call'[a].pc = "seedConfig" \/ Fails(a)
         /\ call[a].pc = "seedConfig" => call'[a].pc = "wipeRules" \/ Fails(a)
         /\ call[a].pc = "wipeRules" => call'[a].pc = "seedRules" \/ Fails(a)
         /\ call[a].pc = "seedRules" => call'[a].pc = "readConfig" \/ Fails(a)
<1>1. TypedConfig(config) /\ TypedRules(rules)
  BY DEF TypeInv, RowsTyped
<1>2. "seedConfig" \in Seeding /\ "wipeRules" \in Seeding /\ "seedRules" \in Seeding /\ Seeding \subseteq Busy
  BY DEF Seeding, Busy
<1>3. CASE call[a].pc = "wipeConfig" /\ config' = Nothing /\ UNCHANGED rules /\ Then(a, "seedConfig")
  <2>1. TypedConfig(config')
    BY <1>3 DEF TypedConfig, Nothing
  <2>2. call[a].pc \in Seeding
    BY <1>3 DEF Seeding
  <2> QED
    BY <1>1, <1>2, <1>3, <2>1, <2>2, ThenMoves DEF RowsTyped
<1>4. CASE /\ call[a].pc = "seedConfig"
           /\ IF DOMAIN config \cap DOMAIN SeedConfig = {}
              THEN config' = Joined(SeedConfig, config) /\ UNCHANGED rules /\ Then(a, "wipeRules")
              ELSE Refused(a)
  <2>1. call[a].pc \in Seeding
    BY <1>4 DEF Seeding
  <2>2. CASE DOMAIN config \cap DOMAIN SeedConfig = {}
    <3>1. TypedConfig(SeedConfig)
      BY ConfigAssumption DEF TypedConfig
    <3>2. TypedConfig(config')
      BY <1>1, <1>4, <2>2, <3>1, JoinedTyped DEF TypedConfig
    <3> QED
      BY <1>1, <1>2, <1>4, <2>1, <2>2, <3>2, ThenMoves DEF RowsTyped
  <2>3. CASE DOMAIN config \cap DOMAIN SeedConfig # {}
    <3>1. Throws(a) /\ UNCHANGED <<rows, faults>>
      BY <1>4, <2>3 DEF Refused
    <3> QED
      BY <1>1, <1>2, <1>4, <2>1, <3>1, ThrowsMoves DEF RowsTyped, rows
  <2> QED
    BY <2>2, <2>3
<1>5. CASE call[a].pc = "wipeRules" /\ rules' = Nothing /\ UNCHANGED config /\ Then(a, "seedRules")
  <2>1. TypedRules(rules')
    BY <1>5 DEF TypedRules, Nothing
  <2>2. call[a].pc \in Seeding
    BY <1>5 DEF Seeding
  <2> QED
    BY <1>1, <1>2, <1>5, <2>1, <2>2, ThenMoves DEF RowsTyped
<1>6. CASE /\ call[a].pc = "seedRules"
           /\ IF DOMAIN rules \cap SeedRules = {}
              THEN /\ rules' = Joined([id \in SeedRules |-> NewRow], rules)
                   /\ UNCHANGED config /\ Then(a, "readConfig")
              ELSE Refused(a)
  <2>1. call[a].pc \in Seeding
    BY <1>6 DEF Seeding
  <2>2. CASE DOMAIN rules \cap SeedRules = {}
    <3> DEFINE seeded == [id \in SeedRules |-> NewRow]
    <3>1. DOMAIN seeded = SeedRules /\ \A id \in SeedRules : seeded[id] \in Row
      BY DEF NewRow, Row
    <3>2. rules' = Joined(seeded, rules)
      BY <1>6, <2>2
    <3> HIDE DEF seeded
    <3>3. TypedRules(rules')
      <4>1. TypedRules(seeded)
        BY <3>1 DEF TypedRules, Rules
      <4> QED
        BY <1>1, <3>2, <4>1, JoinedTyped DEF TypedRules
    <3> QED
      BY <1>1, <1>2, <1>6, <2>1, <2>2, <3>3, ThenMoves DEF RowsTyped
  <2>3. CASE DOMAIN rules \cap SeedRules # {}
    <3>1. Throws(a) /\ UNCHANGED <<rows, faults>>
      BY <1>6, <2>3 DEF Refused
    <3> QED
      BY <1>1, <1>2, <1>6, <2>1, <3>1, ThrowsMoves DEF RowsTyped, rows
  <2> QED
    BY <2>2, <2>3
<1> QED
  BY <1>3, <1>4, <1>5, <1>6 DEF Seed, Reseed

-----------------------------------------------------------------------------
(* Every step of a reload *)

\* The rows are read as they are now, with every key still to be cached.
LEMMA ReadConfigMoves ==
  ASSUME TypeInv, NEW a \in Actors, ReadConfig(a)
  PROVE  /\ Moved(a)
         /\ \/ /\ call'[a].pc = IF config = Nothing THEN "readRules" ELSE "keys"
               /\ call'[a].snapshot = config /\ call'[a].todo = DOMAIN config
            \/ Fails(a)
<1> DEFINE next == [pc |-> IF config = Nothing THEN "readRules" ELSE "keys", op |-> call[a].op,
                    alone |-> call[a].alone, snapshot |-> config, todo |-> DOMAIN config]
<1>1. call[a].pc = "readConfig" /\ Goes(a, next)
  BY DEF ReadConfig
<1>2. call[a].pc \in Busy /\ call[a].op \in Requests /\ call[a].alone \in BOOLEAN
  BY <1>1 DEF TypeInv, CallsTyped, Shape, Busy, Reloading
<1>3. TypedConfig(config)
  BY DEF TypeInv, RowsTyped
<1>4. /\ Shape(next) /\ next.pc \in Busy /\ next.op = call[a].op /\ next.alone = call[a].alone
  BY <1>2, <1>3 DEF Shape, Busy, Seeding, Reloading
<1>5. next.snapshot = config /\ next.todo = DOMAIN config
      /\ next.pc = IF config = Nothing THEN "readRules" ELSE "keys"
  OBVIOUS
<1> HIDE DEF next
<1> QED
  BY <1>1, <1>2, <1>4, <1>5, GoesMoves

\* A key that was still to be cached is, with the value that was read.
LEMMA CacheKeyMoves ==
  ASSUME TypeInv, NEW a \in Actors, CacheKey(a)
  PROVE  \E k \in call[a].todo :
           /\ Moved(a)
           /\ cache' = [cache EXCEPT ![Pod(a)] = With(cache[Pod(a)], k, call[a].snapshot[k])]
           /\ \/ /\ call'[a].todo = call[a].todo \ {k}
                 /\ call'[a].pc = IF call'[a].todo = {} THEN "readRules" ELSE "keys"
                 /\ call'[a].snapshot = call[a].snapshot
              \/ Fails(a)
<1>1. PICK k \in call[a].todo :
        /\ cache' = [cache EXCEPT ![Pod(a)] = Cached(a, k)]
        /\ Goes(a, [call[a] EXCEPT !.todo = call[a].todo \ {k},
                                   !.pc = IF call[a].todo \ {k} = {} THEN "readRules" ELSE "keys"])
  BY DEF CacheKey
<1> DEFINE next == [call[a] EXCEPT !.todo = call[a].todo \ {k},
                                   !.pc = IF call[a].todo \ {k} = {} THEN "readRules" ELSE "keys"]
<1>2. call[a].pc = "keys" /\ call[a].pc \in Busy /\ Shape(call[a])
  BY DEF CacheKey, TypeInv, CallsTyped, Busy, Reloading
<1>3. /\ next.pc = IF call[a].todo \ {k} = {} THEN "readRules" ELSE "keys"
      /\ next.todo = call[a].todo \ {k} /\ next.snapshot = call[a].snapshot
      /\ next.op = call[a].op /\ next.alone = call[a].alone /\ DOMAIN next = DOMAIN call[a]
  BY <1>2 DEF Shape
<1>4. Goes(a, next)
  BY <1>1
<1> HIDE DEF next
<1>5. Shape(next) /\ next.pc \in Busy
  BY <1>2, <1>3 DEF Shape, Busy, Seeding, Reloading
<1>6. Moved(a) /\ (call'[a] = next \/ Fails(a))
  BY <1>2, <1>3, <1>4, <1>5, GoesMoves
<1> QED
  BY <1>1, <1>3, <1>6 DEF Cached

\* The enabled rules are read as they are now.
LEMMA ReadRulesMoves ==
  ASSUME TypeInv, NEW a \in Actors, ReadRules(a)
  PROVE  /\ Moved(a)
         /\ (call'[a].pc = "install" /\ call'[a].seen = Enabled) \/ Fails(a)
<1> DEFINE next == [pc |-> "install", op |-> call[a].op, alone |-> call[a].alone, seen |-> Enabled]
<1>1. call[a].pc = "readRules" /\ Goes(a, next)
  BY DEF ReadRules
<1>2. call[a].pc \in Busy /\ call[a].op \in Requests /\ call[a].alone \in BOOLEAN
  BY <1>1 DEF TypeInv, CallsTyped, Shape, Busy, Reloading
<1>3. Enabled \subseteq Rules
  BY DEF TypeInv, RowsTyped, TypedRules, Enabled
<1>4. Shape(next) /\ next.pc \in Busy /\ next.op = call[a].op /\ next.alone = call[a].alone
  BY <1>2, <1>3 DEF Shape, Busy, Seeding, Reloading
<1>5. next.pc = "install" /\ next.seen = Enabled
  OBVIOUS
<1> HIDE DEF next
<1> QED
  BY <1>1, <1>2, <1>4, <1>5, GoesMoves

\* The rules that were read replace those the process enforced.
LEMMA InstallMoves ==
  ASSUME TypeInv, NEW a \in Actors, Install(a)
  PROVE  /\ Moved(a)
         /\ call'[a].pc = "finish" \/ Fails(a)
<1> DEFINE next == [pc |-> "finish", op |-> call[a].op, alone |-> call[a].alone]
<1>1. call[a].pc = "install" /\ Goes(a, next)
  BY DEF Install
<1>2. call[a].pc \in Busy /\ call[a].op \in Requests /\ call[a].alone \in BOOLEAN
  BY <1>1 DEF TypeInv, CallsTyped, Shape, Busy, Reloading
<1>3. Shape(next) /\ next.pc \in Busy /\ next.op = call[a].op /\ next.alone = call[a].alone
  BY <1>2 DEF Shape, Busy, Seeding, Reloading
<1>4. next.pc = "finish"
  OBVIOUS
<1> HIDE DEF next
<1> QED
  BY <1>1, <1>2, <1>3, <1>4, GoesMoves

\* The last step of a reload ends the call.
LEMMA FinishMoves ==
  ASSUME TypeInv, NEW a \in Actors, Finish(a)
  PROVE  Moved(a) /\ Finishes(a)
  BY DEF Finish, TypeInv, CallsTyped, Moved, Finishes, Busy, Reloading

\* The process of an actor.
LEMMA PodOfActor ==
  ASSUME NEW a \in Actors
  PROVE  Pod(a) \in Pods
  BY ConfigAssumption DEF Pod, Actors

\* Whatever it does, a step of a call or a start moves that call, and keeps
\* the types of rows and copies.
LEMMA StepMoves ==
  ASSUME TypeInv, NEW a \in Actors, CallStep(a)
  PROVE  Moved(a) /\ RowsTyped' /\ CopiesTyped' /\ (clean \subseteq Pods)'
<1> USE DEF TypeInv
<1>1. Pod(a) \in Pods
  BY PodOfActor
<1>2. Shape(call[a])
  BY DEF CallsTyped
<1>3. CASE Find(a)
  BY <1>3, FindMoves DEF Find, rows, copies, RowsTyped, CopiesTyped, CountsTyped
<1>4. CASE Write(a)
  BY <1>4, WriteMoves DEF Write, copies, CopiesTyped, CountsTyped
<1>5. CASE Seed(a)
  BY <1>5, SeedMoves DEF Seed, copies, CopiesTyped, CountsTyped
<1>6. CASE ReadConfig(a)
  BY <1>6, ReadConfigMoves DEF ReadConfig, rows, copies, RowsTyped, CopiesTyped, CountsTyped
<1>7. CASE CacheKey(a)
  <2>1. PICK k \in call[a].todo :
          Moved(a) /\ cache' = [cache EXCEPT ![Pod(a)] = With(cache[Pod(a)], k, call[a].snapshot[k])]
    BY <1>7, CacheKeyMoves
  <2>2. call[a].pc = "keys" /\ UNCHANGED <<rows, active, tools, clean>>
    BY <1>7 DEF CacheKey
  <2>3. k \in Keys /\ call[a].snapshot[k] \in Values
    BY <1>2, <2>2 DEF Shape, TypedConfig, Busy, Reloading
  <2>4. TypedConfig(With(cache[Pod(a)], k, call[a].snapshot[k]))
    BY <1>1, <2>3, WithTyped DEF CopiesTyped, TypedConfig
  <2>5. CopiesTyped'
    BY <1>1, <2>1, <2>2, <2>4 DEF CopiesTyped
  <2> QED
    BY <2>1, <2>2, <2>5 DEF rows, RowsTyped, CountsTyped
<1>8. CASE ReadRules(a)
  BY <1>8, ReadRulesMoves DEF ReadRules, rows, copies, RowsTyped, CopiesTyped, CountsTyped
<1>9. CASE Install(a)
  <2>1. Moved(a)
    BY <1>9, InstallMoves
  <2>2. /\ call[a].pc = "install" /\ active' = [active EXCEPT ![Pod(a)] = call[a].seen]
        /\ UNCHANGED <<rows, cache, tools, clean>>
    BY <1>9 DEF Install
  <2>3. call[a].seen \subseteq Rules
    BY <1>2, <2>2 DEF Shape, Busy, Reloading
  <2>4. CopiesTyped'
    BY <1>1, <2>2, <2>3 DEF CopiesTyped
  <2> QED
    BY <2>1, <2>2, <2>4 DEF rows, RowsTyped, CountsTyped
<1>10. CASE Finish(a)
  <2>1. Moved(a)
    BY <1>10, FinishMoves
  <2>2. /\ tools' = [tools EXCEPT ![Pod(a)] =
                       IF ToolsListed(Pod(a)) THEN cache[Pod(a)]["tools"] ELSE @]
        /\ clean' = IF call[a].alone THEN {Pod(a)} ELSE clean
        /\ UNCHANGED <<rows, cache, active>>
    BY <1>10 DEF Finish
  <2>3. tools'[Pod(a)] \in Values \cup {"none"}
    BY <1>1, <2>2 DEF CopiesTyped, TypedConfig, ToolsListed
  <2>4. CopiesTyped'
    BY <1>1, <2>2, <2>3 DEF CopiesTyped
  <2> QED
    BY <1>1, <2>1, <2>2, <2>4 DEF rows, RowsTyped, CountsTyped
<1> QED
  BY <1>3, <1>4, <1>5, <1>6, <1>7, <1>8, <1>9, <1>10 DEF CallStep

-----------------------------------------------------------------------------
(* Calls begin, processes start and crash *)

\* Another call begins: those under way are no longer alone, and nothing else
\* about them changes.
NoLongerAlone(b) ==
  /\ Shape(call'[b]) /\ call'[b].pc = call[b].pc
  /\ call'[b].op = call[b].op /\ call'[b].alone = FALSE
  /\ call[b].pc = "write" /\ call[b].op.kind = "rule" => call'[b].row = call[b].row
  /\ call[b].pc = "keys" => /\ call'[b].snapshot = call[b].snapshot
                            /\ call'[b].todo = call[b].todo
  /\ call[b].pc = "install" => call'[b].seen = call[b].seen

Entered(a, op) ==
  /\ DOMAIN call' = Actors
  /\ Shape(call'[a]) /\ call'[a].pc = FirstStep(op) /\ call'[a].pc \in Busy
  /\ call'[a].op = op /\ call'[a].alone = (\A c \in Actors : ~Open(c))
  /\ \A b \in Actors \ {a} : IF Open(b) THEN NoLongerAlone(b) ELSE call'[b] = call[b]
  /\ mishaps' = mishaps \cup Overlapping(op)
  /\ clean' = {}

\* A call or a start that begins enters its first stage.
LEMMA BeginsEnters ==
  ASSUME TypeInv, NEW a \in Actors, NEW op \in Requests, Begins(a, op)
  PROVE  Entered(a, op)
<1> DEFINE new == [pc |-> FirstStep(op), op |-> op, alone |-> \A c \in Actors : ~Open(c)]
<1>1. /\ call' = [b \in Actors |->
            IF b = a THEN new
            ELSE IF Open(b) THEN [call[b] EXCEPT !.alone = FALSE] ELSE call[b]]
      /\ mishaps' = mishaps \cup Overlapping(op)
      /\ clean' = {}
  BY DEF Begins
<1>2. new.pc = FirstStep(op) /\ new.op = op /\ new.alone = (\A c \in Actors : ~Open(c))
      /\ DOMAIN new = {"pc", "op", "alone"} /\ new.alone \in BOOLEAN
  OBVIOUS
<1> HIDE DEF new
<1>3. op.kind \in {"config", "rule", "create", "seed"}
  BY RequestFields
<1>4. Shape(new) /\ new.pc \in Busy
  BY <1>2, <1>3 DEF FirstStep, Shape, Busy, Seeding, Reloading
<1>5. ASSUME NEW b \in Actors \ {a}, Open(b)
      PROVE  NoLongerAlone(b)
  <2> DEFINE next == [call[b] EXCEPT !.alone = FALSE]
  <2>1. Shape(call[b]) /\ call[b].pc \in Busy
    BY <1>5, OpenBusy DEF TypeInv, CallsTyped
  <2>2. "alone" \in DOMAIN call[b] /\ "op" \in DOMAIN call[b] /\ "pc" \in DOMAIN call[b]
    BY <2>1 DEF Shape
  <2>3. call'[b] = next
    BY <1>1, <1>5
  <2>4. /\ next.alone = FALSE /\ DOMAIN next = DOMAIN call[b]
        /\ \A f \in DOMAIN call[b] \ {"alone"} : next[f] = call[b][f]
    BY <2>2
  <2> HIDE DEF next
  <2>5. next.pc = call[b].pc /\ next.op = call[b].op
    BY <2>2, <2>4
  <2>6. /\ call[b].pc = "write" /\ call[b].op.kind = "rule" => next.row = call[b].row
        /\ call[b].pc = "keys" => next.snapshot = call[b].snapshot /\ next.todo = call[b].todo
        /\ call[b].pc = "install" => next.seen = call[b].seen
    BY <2>1, <2>4 DEF Shape, Busy, Reloading
  <2>7. Shape(next)
    BY <2>1, <2>4, <2>5, <2>6 DEF Shape
  <2> QED
    BY <2>3, <2>4, <2>5, <2>6, <2>7 DEF NoLongerAlone
<1>6. \A b \in Actors \ {a} : ~Open(b) => call'[b] = call[b]
  BY <1>1
<1> QED
  BY <1>1, <1>2, <1>4, <1>5, <1>6 DEF Entered

\* The calls of a process end with it, the others go on.
Ended(p) ==
  /\ DOMAIN call' = Actors
  /\ \A a \in Actors :
       call'[a] = IF a = p THEN [pc |-> "down"]
                  ELSE IF Open(a) /\ Pod(a) = p THEN [pc |-> "lost"] ELSE call[a]
  /\ mishaps \subseteq mishaps' /\ mishaps' \subseteq mishaps \cup {"failure", "torn"}
  /\ (\E a \in Actors : Wiping(a) /\ Pod(a) = p) => "torn" \in mishaps'

\* A crash ends the calls of its process.
LEMMA CrashEnds ==
  ASSUME NEW p \in Pods, Crash(p)
  PROVE  Ended(p) /\ UNCHANGED <<rows, copies>> /\ clean' = clean \ {p}
<1>1. /\ call' = [a \in Actors |-> IF a = p THEN [pc |-> "down"]
                                   ELSE IF Open(a) /\ Pod(a) = p THEN [pc |-> "lost"] ELSE call[a]]
      /\ UNCHANGED <<rows, copies>> /\ clean' = clean \ {p}
  BY DEF Crash
<1>2. /\ mishaps \subseteq mishaps' /\ mishaps' \subseteq mishaps \cup {"failure", "torn"}
      /\ (\E a \in Actors : Wiping(a) /\ Pod(a) = p) => "torn" \in mishaps'
  BY DEF Crash, Wiping
<1> QED
  BY <1>1, <1>2 DEF Ended

-----------------------------------------------------------------------------
(* Typing *)

\* Clients may ask for anything that has the shape of a request.
AnyNext ==
  \/ \E c \in Calls, op \in Requests : Begin(c, op)
  \/ \E a \in Actors : CallStep(a)
  \/ \E p \in Pods : Crash(p) \/ Start(p)

\* The steps of the specification are among them.
LEMMA NextIsAny ==
  ASSUME Next
  PROVE  AnyNext
  BY ConfigAssumption DEF Next, AnyNext

\* Initially everything is typed.
LEMMA TypeInvInit ==
  ASSUME Init
  PROVE  TypeInv
<1> USE ConfigAssumption DEF Init
<1>1. CallsTyped
  BY DEF CallsTyped, Shape, Placed, Served, Open, Rest, Busy, Seeding, Reloading, Actors
<1>2. RowsTyped
  BY DEF RowsTyped, TypedConfig, TypedRules, Rules, Row, NewRow
<1>3. CopiesTyped
  BY DEF CopiesTyped, TypedConfig, Rules
<1>4. CountsTyped
  BY DEF CountsTyped
<1> QED
  BY <1>1, <1>2, <1>3, <1>4 DEF TypeInv

\* Moving one call keeps every call typed and placed.
LEMMA MovedTyped ==
  ASSUME TypeInv, NEW a \in Actors, Moved(a)
  PROVE  CallsTyped' /\ (mishaps \subseteq {"overlap", "torn", "failure"})' /\ (faults \in 0..MaxFaults)'
<1> USE DEF TypeInv
<1>1. /\ Shape(call[a]) /\ Placed(a) /\ call[a].pc \in Busy /\ Served /\ Open(a)
      /\ a \in Pods => call[a].op.kind = "seed"
  BY OpenBusy DEF CallsTyped, Moved, Placed
<1>2. /\ Shape(call'[a])
      /\ \/ call'[a].pc \in Busy
         \/ call'[a].pc = (IF a \in Pods THEN "down" ELSE "failed")
         \/ call'[a].pc = (IF a \in Pods THEN "up" ELSE "ok")
      /\ call'[a].pc \in Busy => call'[a].op = call[a].op
  BY DEF Moved, Continues, Fails, Finishes, Shape, Rest, Busy, Seeding, Reloading
<1>3. Placed(a)'
  BY <1>1, <1>2, ConfigAssumption DEF Placed, Actors, Busy, Seeding, Reloading
<1>4. \A b \in Actors \ {a} : Shape(call'[b]) /\ Placed(b)'
  BY DEF Moved, CallsTyped, Placed
<1>5. Served'
  <2> SUFFICES ASSUME NEW c \in Calls, Open(c)' PROVE Up(PodOf[c])'
    BY DEF Served
  <2>1. c \in Actors /\ PodOf[c] \in Pods /\ PodOf[c] \in Actors
    BY ConfigAssumption DEF Actors
  <2>2. Open(c)
    BY <1>1, <2>1 DEF Moved, Open
  <2>3. Up(PodOf[c])
    BY <2>2 DEF CallsTyped, Served
  <2>4. PodOf[c] # a
    BY <1>1, <2>3 DEF Up, Busy, Seeding, Reloading
  <2> QED
    BY <2>1, <2>3, <2>4 DEF Moved, Up
<1>6. CallsTyped'
  BY <1>2, <1>3, <1>4, <1>5 DEF CallsTyped, Moved
<1> QED
  BY <1>6 DEF Moved, Continues, Fails, Finishes, CountsTyped

\* A call that begins, at a process that serves, keeps the typing; so does a
\* process that was down and starts.
LEMMA EnteredTyped ==
  ASSUME TypeInv, NEW a \in Actors, NEW op \in Requests, Entered(a, op),
         IF a \in Calls THEN call[a].pc = "idle" /\ Up(PodOf[a])
                        ELSE call[a].pc = "down" /\ op.kind = "seed"
  PROVE  CallsTyped' /\ (mishaps \subseteq {"overlap", "torn", "failure"})' /\ (clean \subseteq Pods)'
<1> USE DEF TypeInv
<1>1. \A b \in Actors : Shape(call'[b])
  BY DEF Entered, NoLongerAlone, CallsTyped
<1>2. \A b \in Actors \ {a} : call'[b].pc = call[b].pc /\ (call[b].pc \in Busy => call'[b].op = call[b].op)
  BY OpenBusy DEF Entered, NoLongerAlone
<1>3. \A b \in Actors \ {a} : Placed(b)'
  BY <1>2 DEF CallsTyped, Placed
<1>4. Placed(a)'
  BY ConfigAssumption DEF Entered, Placed, Actors, Busy, Seeding, Reloading
<1>5. Served'
  <2> SUFFICES ASSUME NEW c \in Calls, Open(c)' PROVE Up(PodOf[c])'
    BY DEF Served
  <2>1. c \in Actors /\ PodOf[c] \in Pods /\ PodOf[c] \in Actors
    BY ConfigAssumption DEF Actors
  <2>2. Up(PodOf[c])
    BY <1>2, <2>1 DEF CallsTyped, Served, Open
  <2>3. PodOf[c] # a
    BY <2>1, <2>2, ConfigAssumption DEF Up
  <2> QED
    BY <1>2, <2>1, <2>2, <2>3 DEF Up
<1>6. CallsTyped'
  BY <1>1, <1>3, <1>4, <1>5 DEF CallsTyped, Entered
<1> QED
  BY <1>6 DEF Entered, Overlapping, CountsTyped

\* The end of a process keeps the typing.
LEMMA EndedTyped ==
  ASSUME TypeInv, NEW p \in Pods, Ended(p)
  PROVE  CallsTyped' /\ (mishaps \subseteq {"overlap", "torn", "failure"})'
<1> USE DEF TypeInv
<1>1. \A a \in Actors : a # p /\ Pod(a) = p => a \in Calls
  BY DEF Pod, Actors
<1>2. \A a \in Actors : Shape(call'[a])
  BY DEF Ended, CallsTyped, Shape, Rest, Busy, Seeding, Reloading
<1>3. \A a \in Actors : Placed(a)'
  BY <1>1, ConfigAssumption DEF Ended, CallsTyped, Placed, Busy, Seeding, Reloading
<1>4. Served'
  <2> SUFFICES ASSUME NEW c \in Calls, Open(c)' PROVE Up(PodOf[c])'
    BY DEF Served
  <2>1. c \in Actors /\ PodOf[c] \in Pods /\ PodOf[c] \in Actors /\ c \notin Pods
    BY ConfigAssumption DEF Actors
  <2>2. call'[c] = call[c] /\ Open(c) /\ PodOf[c] # p
    BY <2>1 DEF Ended, Open, Rest, Pod
  <2>3. Up(PodOf[c])
    BY <2>2 DEF CallsTyped, Served
  <2> QED
    BY <2>1, <2>2, <2>3 DEF Ended, Up, Open, Rest
<1>5. CallsTyped'
  BY <1>2, <1>3, <1>4 DEF CallsTyped, Ended
<1> QED
  BY <1>5 DEF Ended, CountsTyped

\* What a client asks for enters its first stage, at a process that serves.
LEMMA BeginEnters ==
  ASSUME TypeInv, NEW c \in Calls, NEW op \in Requests, Begin(c, op)
  PROVE  /\ Entered(c, op) /\ c \in Actors
         /\ call[c].pc = "idle" /\ Up(PodOf[c])
         /\ UNCHANGED <<rows, copies, faults>>
  BY BeginsEnters DEF Begin, Actors

\* A start does, with nothing left in the process's memory.
LEMMA StartEnters ==
  ASSUME TypeInv, NEW p \in Pods, Start(p)
  PROVE  /\ Entered(p, [kind |-> "seed"]) /\ [kind |-> "seed"] \in Requests
         /\ p \in Actors /\ call[p].pc = "down"
         /\ cache' = [cache EXCEPT ![p] = Nothing]
         /\ active' = [active EXCEPT ![p] = {}]
         /\ tools' = [tools EXCEPT ![p] = "none"]
         /\ UNCHANGED <<rows, faults>>
<1>1. [kind |-> "seed"] \in Requests
  BY DEF Requests
<1> QED
  BY <1>1, BeginsEnters DEF Start, Actors

\* Every step keeps everything typed.
LEMMA TypeInvNext ==
  ASSUME TypeInv, AnyNext
  PROVE  TypeInv'
<1>1. CASE \E c \in Calls, op \in Requests : Begin(c, op)
  <2>1. PICK c \in Calls, op \in Requests : Begin(c, op)
    BY <1>1
  <2>2. CallsTyped' /\ (mishaps \subseteq {"overlap", "torn", "failure"})' /\ (clean \subseteq Pods)'
    BY <2>1, BeginEnters, EnteredTyped
  <2>3. UNCHANGED <<config, rules, cache, active, tools, faults>>
    BY <2>1 DEF Begin, rows, copies
  <2> QED
    BY <2>2, <2>3 DEF TypeInv, RowsTyped, CopiesTyped, CountsTyped
<1>2. CASE \E a \in Actors : CallStep(a)
  BY <1>2, StepMoves, MovedTyped DEF TypeInv, CountsTyped
<1>3. CASE \E p \in Pods : Crash(p)
  <2>1. PICK p \in Pods : Crash(p)
    BY <1>3
  <2>2. CallsTyped' /\ (mishaps \subseteq {"overlap", "torn", "failure"})' /\ clean' = clean \ {p}
        /\ UNCHANGED <<config, rules, cache, active, tools>>
    BY <2>1, CrashEnds, EndedTyped DEF rows, copies
  <2>3. faults' \in 0..MaxFaults
    BY <2>1, ConfigAssumption DEF Crash, TypeInv, CountsTyped
  <2> QED
    BY <2>2, <2>3 DEF TypeInv, RowsTyped, CopiesTyped, CountsTyped
<1>4. CASE \E p \in Pods : Start(p)
  <2>1. PICK p \in Pods : Start(p)
    BY <1>4
  <2>2. CallsTyped' /\ (mishaps \subseteq {"overlap", "torn", "failure"})' /\ (clean \subseteq Pods)'
    BY <2>1, StartEnters, EnteredTyped, ConfigAssumption
  <2>3. TypedConfig(Nothing)
    BY DEF TypedConfig, Nothing
  <2>4. CopiesTyped'
    BY <2>1, <2>3, StartEnters DEF TypeInv, CopiesTyped
  <2> QED
    BY <2>1, <2>2, <2>4, StartEnters DEF TypeInv, RowsTyped, CountsTyped, rows
<1> QED
  BY <1>1, <1>2, <1>3, <1>4 DEF AnyNext

\* Nor does standing still change anything.
LEMMA TypeInvStutter ==
  ASSUME TypeInv, UNCHANGED vars
  PROVE  TypeInv'
  BY DEF TypeInv, vars, rows, copies, CallsTyped, Placed, Served, Open, Up, RowsTyped, CopiesTyped, CountsTyped

\* The typing is an invariant.
LEMMA TypeInvHolds == Spec => []TypeInv
<1>1. Init => TypeInv
  BY TypeInvInit
<1>2. TypeInv /\ [Next]_vars => TypeInv'
  BY TypeInvNext, TypeInvStutter, NextIsAny
<1> QED
  BY <1>1, <1>2, PTL DEF Spec

\* Rows, copies and calls keep their shape, whatever overlaps, fails, crashes
\* and starts again, for every set of processes, calls and operations.
THEOREM TypeCorrect == Spec => []TypeOK
<1>1. Spec => []TypeInv
  BY TypeInvHolds
<1>2. TypeInv => TypeOK
  BY TypeInvImplies
<1> QED
  BY <1>1, <1>2, PTL

-----------------------------------------------------------------------------
(* Reloads that nothing overlaps *)

\* Every stored key but those still to come is cached with its stored value.
CachedBut(p, todo) ==
  \A k \in DOMAIN config \ todo : k \in DOMAIN cache[p] /\ cache[p][k] = config[k]

\* How far a call that is alone has come.
Progress(a) ==
  /\ call[a].pc = "keys" => call[a].snapshot = config /\ CachedBut(Pod(a), call[a].todo)
  /\ call[a].pc \in {"readRules", "install", "finish"} => CachedBut(Pod(a), {})
  /\ call[a].pc = "install" => call[a].seen = Enabled
  /\ call[a].pc = "finish" => active[Pod(a)] = Enabled

\* A call that is alone is the only one that is open, and nothing is open
\* after one that stayed alone has finished.
Solitary ==
  /\ \A a, b \in Actors : Open(a) /\ call[a].alone /\ Open(b) => a = b
  /\ clean # {} => \A a \in Actors : ~Open(a)

FreshInv ==
  /\ Solitary
  /\ \A a \in Actors : Open(a) /\ call[a].alone => Progress(a)
  /\ FreshAfterReload

\* Only the last step of a reload that stayed alone marks its process.
LEMMA StepClean ==
  ASSUME NEW a \in Actors, CallStep(a)
  PROVE  \/ clean' = clean
         \/ Finish(a) /\ call[a].alone /\ clean' = {Pod(a)}
<1>1. CASE Finish(a)
  BY <1>1 DEF Finish
<1>2. CASE ~Finish(a)
  BY <1>2 DEF CallStep, Find, Write, Seed, ReadConfig, CacheKey, ReadRules, Install
<1> QED
  BY <1>1, <1>2

\* After a step the open calls are among those that were open.
LEMMA MovedOpen ==
  ASSUME TypeInv, NEW a \in Actors, Moved(a)
  PROVE  /\ Open(a)
         /\ \A b \in Actors : Open(b)' => Open(b) /\ call'[b].alone = call[b].alone
                                          /\ call'[b].op = call[b].op
         /\ \A b \in Actors \ {a} : Open(b)' <=> Open(b)
         /\ Fails(a) \/ Finishes(a) => ~Open(a)'
<1>1. Open(a)
  BY OpenBusy DEF TypeInv, Moved
<1>2. \A b \in Actors \ {a} : Open(b)' <=> Open(b)
  BY DEF Moved, Open
<1>3. Fails(a) \/ Finishes(a) => ~Open(a)'
  BY DEF Fails, Finishes, Open, Rest
<1> QED
  BY <1>1, <1>2, <1>3 DEF Moved, Continues, Open

\* A call that begins is open, and so are those that were.
LEMMA EnteredOpen ==
  ASSUME TypeInv, NEW a \in Actors, NEW op \in Requests, Entered(a, op)
  PROVE  /\ Open(a)'
         /\ \A b \in Actors \ {a} : /\ Open(b)' <=> Open(b)
                                    /\ Open(b) => NoLongerAlone(b)
                                    /\ ~Open(b) => call'[b] = call[b]
  BY DEF Entered, Open, NoLongerAlone, Rest, Busy, Seeding, Reloading

\* After a crash the open calls are those of the other processes.
LEMMA EndedOpen ==
  ASSUME NEW p \in Pods, Ended(p), NEW b \in Actors, Open(b)'
  PROVE  Open(b) /\ call'[b] = call[b] /\ Pod(b) # p
  BY DEF Ended, Open, Rest, Pod

\* A call that is alone stays the only one until another begins.
LEMMA SolitaryNext ==
  ASSUME TypeInv, Solitary, AnyNext
  PROVE  Solitary'
<1>1. ASSUME NEW a \in Actors, NEW op \in Requests, Entered(a, op)
      PROVE  Solitary'
  <2>1. clean' = {} /\ call'[a].alone = (\A c \in Actors : ~Open(c))
    BY <1>1 DEF Entered
  <2>2. ASSUME NEW b \in Actors, NEW c \in Actors, Open(b)', call'[b].alone, Open(c)'
        PROVE  b = c
    BY <1>1, <2>1, <2>2, EnteredOpen DEF NoLongerAlone
  <2> QED
    BY <2>1, <2>2 DEF Solitary
<1>2. ASSUME NEW a \in Actors, CallStep(a)
      PROVE  Solitary'
  <2>1. Moved(a)
    BY <1>2, StepMoves
  <2>2. \A b, c \in Actors : Open(b)' /\ call'[b].alone /\ Open(c)' => b = c
    BY <2>1, MovedOpen DEF Solitary
  <2>3. clean = {}
    BY <2>1, MovedOpen DEF Solitary
  <2>4. ASSUME clean' # {}, NEW b \in Actors
        PROVE  ~Open(b)'
    <3>1. Finish(a) /\ call[a].alone
      BY <1>2, <2>3, <2>4, StepClean
    <3>2. Finishes(a)
      BY <3>1, FinishMoves
    <3> QED
      BY <2>1, <3>1, <3>2, MovedOpen DEF Solitary
  <2> QED
    BY <2>2, <2>4 DEF Solitary
<1>3. ASSUME NEW p \in Pods, Crash(p)
      PROVE  Solitary'
  <2>1. Ended(p) /\ clean' = clean \ {p}
    BY <1>3, CrashEnds
  <2> QED
    BY <2>1, EndedOpen DEF Solitary
<1> QED
  BY <1>1, <1>2, <1>3, BeginEnters, StartEnters DEF AnyNext

\* A step of a call that is alone brings its process closer to the rows.
LEMMA AloneProgress ==
  ASSUME TypeInv, NEW a \in Actors, CallStep(a), Progress(a)
  PROVE  Open(a)' => Progress(a)'
<1> SUFFICES ASSUME Open(a)' PROVE Progress(a)'
  OBVIOUS
<1>1. Pod(a) \in Pods /\ Pod(a)' = Pod(a)
  BY PodOfActor DEF Pod
<1>2. Moved(a) /\ ~Fails(a) /\ ~Finishes(a)
  BY StepMoves, MovedOpen
<1>3. CASE Find(a)
  BY <1>2, <1>3, FindMoves DEF Progress
<1>4. CASE Write(a)
  BY <1>2, <1>4, WriteMoves DEF Progress
<1>5. CASE Seed(a)
  BY <1>2, <1>5, SeedMoves DEF Progress, Seeding
<1>6. CASE ReadConfig(a)
  <2>1. /\ call'[a].pc = IF config = Nothing THEN "readRules" ELSE "keys"
        /\ call'[a].snapshot = config /\ call'[a].todo = DOMAIN config
    BY <1>2, <1>6, ReadConfigMoves
  <2>2. UNCHANGED config
    BY <1>6 DEF ReadConfig, rows
  <2>3. config = Nothing => DOMAIN config = {}
    BY DEF Nothing
  <2> QED
    BY <1>1, <2>1, <2>2, <2>3 DEF Progress, CachedBut
<1>7. CASE CacheKey(a)
  <2>1. PICK k \in call[a].todo :
          /\ cache' = [cache EXCEPT ![Pod(a)] = With(cache[Pod(a)], k, call[a].snapshot[k])]
          /\ call'[a].todo = call[a].todo \ {k}
          /\ call'[a].pc = IF call'[a].todo = {} THEN "readRules" ELSE "keys"
          /\ call'[a].snapshot = call[a].snapshot
    BY <1>2, <1>7, CacheKeyMoves
  <2>2. UNCHANGED config /\ call[a].snapshot = config /\ CachedBut(Pod(a), call[a].todo)
    BY <1>7 DEF CacheKey, Progress, rows
  <2>3. cache'[Pod(a)] = With(cache[Pod(a)], k, config[k])
    BY <1>1, <2>1, <2>2 DEF TypeInv, CopiesTyped
  <2>4. \A j \in DOMAIN config \ (call[a].todo \ {k}) :
          j \in DOMAIN cache'[Pod(a)] /\ cache'[Pod(a)][j] = config[j]
    <3> TAKE j \in DOMAIN config \ (call[a].todo \ {k})
    <3>1. CASE j = k
      BY <2>3, <3>1 DEF With
    <3>2. CASE j # k
      <4>1. j \in DOMAIN cache[Pod(a)] /\ cache[Pod(a)][j] = config[j]
        BY <2>2, <3>2 DEF CachedBut
      <4> QED
        BY <2>3, <3>2, <4>1 DEF With
    <3> QED
      BY <3>1, <3>2
  <2> QED
    BY <1>1, <2>1, <2>2, <2>4 DEF Progress, CachedBut
<1>8. CASE ReadRules(a)
  <2>1. call'[a].pc = "install" /\ call'[a].seen = Enabled
    BY <1>2, <1>8, ReadRulesMoves
  <2>2. UNCHANGED <<config, rules, cache>> /\ CachedBut(Pod(a), {})
    BY <1>8 DEF ReadRules, Progress, rows, copies
  <2> QED
    BY <1>1, <2>1, <2>2 DEF Progress, CachedBut, Enabled
<1>9. CASE Install(a)
  <2>1. call'[a].pc = "finish"
    BY <1>2, <1>9, InstallMoves
  <2>2. /\ UNCHANGED <<config, rules, cache>> /\ CachedBut(Pod(a), {})
        /\ active' = [active EXCEPT ![Pod(a)] = call[a].seen] /\ call[a].seen = Enabled
    BY <1>9 DEF Install, Progress, rows
  <2>3. active'[Pod(a)] = Enabled
    BY <1>1, <2>2 DEF TypeInv, CopiesTyped
  <2> QED
    BY <1>1, <2>1, <2>2, <2>3 DEF Progress, CachedBut, Enabled
<1>10. CASE Finish(a)
  BY <1>2, <1>10, FinishMoves
<1> QED
  BY <1>3, <1>4, <1>5, <1>6, <1>7, <1>8, <1>9, <1>10 DEF CallStep

\* Progress and freshness are kept by every step.
LEMMA FreshNext ==
  ASSUME TypeInv, FreshInv, AnyNext
  PROVE  FreshInv'
<1>1. Solitary'
  BY SolitaryNext DEF FreshInv
<1>2. ASSUME NEW a \in Actors, NEW op \in Requests, Entered(a, op)
      PROVE  FreshInv'
  <2>1. ASSUME NEW b \in Actors, Open(b)', call'[b].alone PROVE b = a
    BY <1>2, <2>1, EnteredOpen DEF NoLongerAlone
  <2>2. call'[a].pc \in {"find", "write", "wipeConfig"}
    BY <1>2, RequestFields DEF Entered, FirstStep
  <2>3. Progress(a)'
    BY <2>2 DEF Progress
  <2>4. FreshAfterReload'
    BY <1>2 DEF Entered, FreshAfterReload
  <2> QED
    BY <1>1, <2>1, <2>3, <2>4 DEF FreshInv
<1>3. ASSUME NEW a \in Actors, CallStep(a)
      PROVE  FreshInv'
  <2>1. Moved(a)
    BY <1>3, StepMoves
  <2>2. ASSUME NEW b \in Actors, Open(b)', call'[b].alone PROVE b = a /\ call[a].alone /\ Open(a)
    BY <2>1, <2>2, MovedOpen DEF FreshInv, Solitary
  <2>3. ASSUME Open(a)', call'[a].alone PROVE Progress(a)'
    BY <1>3, <2>2, <2>3, AloneProgress DEF FreshInv
  <2>4. FreshAfterReload'
    <3>1. clean = {}
      BY <2>1, MovedOpen DEF FreshInv, Solitary
    <3>2. CASE Finish(a) /\ call[a].alone /\ clean' = {Pod(a)}
      <4>1. /\ UNCHANGED <<config, rules, cache, active>>
            /\ tools' = [tools EXCEPT ![Pod(a)] =
                           IF ToolsListed(Pod(a)) THEN cache[Pod(a)]["tools"] ELSE @]
            /\ call[a].pc = "finish"
        BY <3>2 DEF Finish, rows
      <4>2. CachedBut(Pod(a), {}) /\ active[Pod(a)] = Enabled
        BY <2>1, <3>2, <4>1, MovedOpen DEF FreshInv, Progress
      <4>3. ToolsListed(Pod(a))' => tools'[Pod(a)] = cache[Pod(a)]["tools"]
        BY <4>1, PodOfActor DEF TypeInv, CopiesTyped, ToolsListed
      <4> QED
        BY <3>2, <4>1, <4>2, <4>3 DEF FreshAfterReload, CachedBut, Enabled
    <3> QED
      BY <1>3, <3>1, <3>2, StepClean DEF FreshAfterReload
  <2> QED
    BY <1>1, <2>2, <2>3, <2>4 DEF FreshInv
<1>4. ASSUME NEW p \in Pods, Crash(p)
      PROVE  FreshInv'
  <2>1. Ended(p) /\ UNCHANGED <<config, rules, cache, active, tools>> /\ clean' = clean \ {p}
    BY <1>4, CrashEnds DEF rows, copies
  <2>2. FreshAfterReload'
    BY <2>1 DEF FreshInv, FreshAfterReload, ToolsListed, Enabled
  <2>3. ASSUME NEW b \in Actors, Open(b)', call'[b].alone PROVE Progress(b)'
    <3>1. Open(b) /\ call'[b] = call[b]
      BY <2>1, <2>3, EndedOpen
    <3>2. Progress(b)
      BY <2>3, <3>1 DEF FreshInv
    <3> QED
      BY <2>1, <3>1, <3>2 DEF Progress, CachedBut, Enabled, Pod
  <2> QED
    BY <1>1, <2>2, <2>3 DEF FreshInv
<1> QED
  BY <1>2, <1>3, <1>4, BeginEnters, StartEnters DEF AnyNext

\* Initially nothing is open.
LEMMA FreshInit ==
  ASSUME Init
  PROVE  FreshInv
  BY DEF Init, FreshInv, Solitary, FreshAfterReload, Open, Rest, Actors

\* Standing still changes nothing.
LEMMA FreshStutter ==
  ASSUME FreshInv, UNCHANGED vars
  PROVE  FreshInv'
  BY DEF FreshInv, Solitary, Progress, CachedBut, FreshAfterReload, ToolsListed, Open, Enabled, Pod,
         vars, rows, copies

\* One call that nothing overlapped, and that was answered 200, leaves its
\* process with the stored configuration, the enabled rules and the configured
\* tools, whatever races, failures, crashes and half-done resets went before.
THEOREM FreshAfterReloadHolds == Spec => []FreshAfterReload
<1>1. Spec => []TypeInv
  BY TypeInvHolds
<1>2. Init => FreshInv
  BY FreshInit
<1>3. TypeInv /\ FreshInv /\ [Next]_vars => FreshInv'
  BY FreshNext, FreshStutter, NextIsAny
<1>4. FreshInv => FreshAfterReload
  BY DEF FreshInv
<1> QED
  BY <1>1, <1>2, <1>3, <1>4, PTL DEF Spec

-----------------------------------------------------------------------------
(* The rules nobody asks to change *)

Stored == KeptRules \subseteq Enabled

\* A start or a reset that tears nothing is the only call, and only between
\* its two statements about rules are the kept ones missing: whoever reads,
\* installs or enforces rules has them.
WipesAlone == \A a, b \in Actors : Wiping(a) /\ Open(b) => a = b
StoredUnlessSeeding == (\A a \in Actors : call[a].pc # "seedRules") => Stored
ReadersKeep ==
  \A a \in Actors : /\ call[a].pc = "install" => KeptRules \subseteq call[a].seen
                    /\ call[a].pc = "finish" => KeptRules \subseteq active[Pod(a)]
Enforcing == \A p \in Pods : Up(p) => KeptRules \subseteq active[p]

KeptInv ==
  "torn" \notin mishaps => WipesAlone /\ StoredUnlessSeeding /\ ReadersKeep /\ Enforcing

\* Whoever is at one of the seeding statements wipes.
LEMMA SeedingWipes ==
  ASSUME TypeInv, NEW a \in Actors, call[a].pc \in Seeding
  PROVE  Wiping(a)
<1>1. Open(a)
  BY OpenBusy DEF TypeInv, Busy
<1>2. call[a].op.kind = "seed"
  BY DEF TypeInv, CallsTyped, Shape, Busy
<1> QED
  BY <1>1, <1>2 DEF Wiping

\* A step of a call: nothing but seeding takes a kept rule away.
LEMMA StepKeepsStored ==
  ASSUME TypeInv, NEW a \in Actors, CallStep(a), ~Seed(a), Stored
  PROVE  Stored'
<1>1. CASE Write(a)
  <2>1. CASE UNCHANGED rules
    BY <2>1 DEF Stored, Enabled
  <2>2. CASE call[a].op.kind = "rule" /\ call[a].op.id \in DOMAIN rules
    <3>1. call[a].op.id \notin KeptRules
      <4>1. call[a].pc = "write" /\ call[a].op \in Requests
        BY <1>1 DEF Write, TypeInv, CallsTyped, Shape, Busy
      <4> QED
        BY <2>2, <4>1, RequestFields
    <3>2. PICK new : rules' = [rules EXCEPT ![call[a].op.id] = new]
      BY <1>1, <2>2 DEF Write, WriteRule
    <3>3. DOMAIN rules' = DOMAIN rules /\ \A id \in KeptRules : rules'[id] = rules[id]
      BY <3>1, <3>2 DEF Stored, Enabled
    <3> QED
      BY <3>3 DEF Stored, Enabled
  <2>3. CASE call[a].op.kind = "create" /\ call[a].op.id \notin DOMAIN rules
    <3>1. rules' = With(rules, call[a].op.id, NewRow)
      BY <1>1, <2>3 DEF Write, CreateRow
    <3>2. \A id \in Enabled : id \in DOMAIN rules' /\ rules'[id] = rules[id]
      BY <2>3, <3>1 DEF With, Enabled
    <3> QED
      BY <3>2 DEF Stored, Enabled
  <2>4. call[a].op.kind \in {"config", "rule", "create"}
    BY <1>1 DEF Write, TypeInv, CallsTyped, Shape, Busy
  <2>5. call[a].op.kind = "config" => UNCHANGED rules
    BY <1>1 DEF Write, WriteConfig, Refused, rows
  <2>6. call[a].op.kind = "rule" /\ call[a].op.id \notin DOMAIN rules => UNCHANGED rules
    BY <1>1 DEF Write, WriteRule, Refused, rows
  <2>7. call[a].op.kind = "create" /\ call[a].op.id \in DOMAIN rules => UNCHANGED rules
    BY <1>1 DEF Write, CreateRow, Refused, rows
  <2> QED
    BY <2>1, <2>2, <2>3, <2>4, <2>5, <2>6, <2>7
<1>2. CASE ~Write(a)
  <2>1. UNCHANGED rules
    BY <1>2 DEF CallStep, Find, ReadConfig, CacheKey, ReadRules, Install, Finish, rows
  <2> QED
    BY <2>1 DEF Stored, Enabled
<1> QED
  BY <1>1, <1>2

\* A call that begins keeps the invariant, unless it tears what goes on.
LEMMA EnteredKept ==
  ASSUME TypeInv, KeptInv, NEW a \in Actors, NEW op \in Requests, Entered(a, op),
         call[a].pc \in {"idle", "down"}, UNCHANGED rules,
         \A p \in Pods \ {a} : active'[p] = active[p],
         a \in Calls => active' = active
  PROVE  KeptInv'
<1> SUFFICES ASSUME "torn" \notin mishaps'
             PROVE  WipesAlone' /\ StoredUnlessSeeding' /\ ReadersKeep' /\ Enforcing'
  BY DEF KeptInv
<1>1. /\ "torn" \notin mishaps
      /\ (\E b \in Actors : Open(b)) => op.kind # "seed" /\ \A b \in Actors : ~Wiping(b)
  BY DEF Entered, Overlapping
<1>2. WipesAlone /\ StoredUnlessSeeding /\ ReadersKeep /\ Enforcing
  BY <1>1 DEF KeptInv
<1>3. call'[a].pc \in {"find", "write", "wipeConfig"} /\ call'[a].op = op
  BY RequestFields DEF Entered, FirstStep
<1>4. \A b \in Actors \ {a} : call'[b].pc = call[b].pc
  BY EnteredOpen DEF NoLongerAlone
<1>5. WipesAlone'
  <2> SUFFICES ASSUME NEW b \in Actors, NEW c \in Actors, Wiping(b)', Open(c)' PROVE b = c
    BY DEF WipesAlone
  <2>1. Open(b)' /\ call'[b].op.kind = "seed"
    BY DEF Wiping
  <2>2. CASE b = a
    BY <1>1, <1>3, <2>1, <2>2, EnteredOpen
  <2>3. CASE b # a
    <3>1. Wiping(b)
      BY <2>1, <2>3, EnteredOpen DEF NoLongerAlone, Wiping
    <3> QED
      BY <1>1, <3>1 DEF Wiping
  <2> QED
    BY <2>2, <2>3
<1>6. StoredUnlessSeeding'
  <2> SUFFICES ASSUME \A b \in Actors : call'[b].pc # "seedRules" PROVE Stored'
    BY DEF StoredUnlessSeeding
  <2>1. \A b \in Actors : call[b].pc # "seedRules"
    BY <1>4
  <2> QED
    BY <1>2, <2>1 DEF StoredUnlessSeeding, Stored, Enabled
<1>7. ReadersKeep'
  <2> SUFFICES ASSUME NEW b \in Actors
               PROVE  /\ call'[b].pc = "install" => KeptRules \subseteq call'[b].seen
                      /\ call'[b].pc = "finish" => KeptRules \subseteq active'[Pod(b)]
    BY DEF ReadersKeep, Pod
  <2>1. CASE b = a
    BY <1>3, <2>1
  <2>2. CASE b # a
    <3>1. call'[b].pc = "install" => call[b].pc = "install" /\ call'[b].seen = call[b].seen
      BY <1>4, <2>2, EnteredOpen DEF NoLongerAlone
    <3>2. ASSUME call[b].pc = "finish" PROVE Pod(b) # a \/ a \in Calls
      <4>1. Open(b)
        BY <3>2 DEF Open, Rest
      <4>2. b \in Calls => Up(PodOf[b])
        BY <4>1 DEF TypeInv, CallsTyped, Served
      <4> QED
        BY <2>2, <4>2 DEF Pod, Up, Actors
    <3>3. call'[b].pc = "finish" => call[b].pc = "finish" /\ active'[Pod(b)] = active[Pod(b)]
      BY <1>4, <2>2, <3>2, PodOfActor
    <3> QED
      BY <1>2, <3>1, <3>3 DEF ReadersKeep
  <2> QED
    BY <2>1, <2>2
<1>8. Enforcing'
  <2> SUFFICES ASSUME NEW p \in Pods, Up(p)' PROVE KeptRules \subseteq active'[p]
    BY DEF Enforcing, Up
  <2>1. p \in Actors /\ p # a
    BY <1>3 DEF Actors, Up
  <2>2. Up(p)
    BY <1>4, <2>1 DEF Up
  <2> QED
    BY <1>2, <2>1, <2>2 DEF Enforcing
<1> QED
  BY <1>5, <1>6, <1>7, <1>8

\* A step of a call keeps the invariant: only the call that wipes the rules
\* can be the one that reads next, and it has seeded them again.
LEMMA StepKept ==
  ASSUME TypeInv, KeptInv, NEW a \in Actors, CallStep(a)
  PROVE  KeptInv'
<1> SUFFICES ASSUME "torn" \notin mishaps'
             PROVE  WipesAlone' /\ StoredUnlessSeeding' /\ ReadersKeep' /\ Enforcing'
  BY DEF KeptInv
<1>1. Moved(a) /\ Open(a) /\ Pod(a) \in Pods
  BY StepMoves, MovedOpen, PodOfActor
<1>2. "torn" \notin mishaps /\ (Wiping(a) => ~Fails(a))
  BY <1>1 DEF Moved, Continues, Fails, Finishes
<1>3. WipesAlone /\ StoredUnlessSeeding /\ ReadersKeep /\ Enforcing
  BY <1>2 DEF KeptInv
<1>4. WipesAlone'
  BY <1>1, <1>3, MovedOpen DEF WipesAlone, Wiping
<1>5. StoredUnlessSeeding'
  <2> SUFFICES ASSUME \A b \in Actors : call'[b].pc # "seedRules" PROVE Stored'
    BY DEF StoredUnlessSeeding
  <2>1. \A b \in Actors \ {a} : call[b].pc # "seedRules"
    BY <1>1 DEF Moved
  <2>2. CASE ~Seed(a)
    <3>1. call[a].pc # "seedRules"
      BY <2>2 DEF CallStep, Find, Write, ReadConfig, CacheKey, ReadRules, Install, Finish
    <3> QED
      BY <1>3, <2>1, <2>2, <3>1, StepKeepsStored DEF StoredUnlessSeeding
  <2>3. CASE Seed(a)
    <3>1. call[a].pc \in Seeding /\ ~Fails(a)
      BY <1>2, <2>3, SeedMoves, SeedingWipes
    <3>2. call[a].pc # "wipeRules"
      BY <2>3, <3>1, SeedMoves
    <3>3. CASE call[a].pc = "seedRules"
      <4>1. DOMAIN rules \cap SeedRules = {}
        <5>1. Refused(a) => Fails(a)
          BY <1>1, ThrowsMoves DEF Refused, Moved
        <5> QED
          BY <2>3, <3>1, <3>3, <5>1 DEF Seed, Reseed
      <4>2. rules' = Joined([id \in SeedRules |-> NewRow], rules)
        BY <2>3, <3>3, <4>1 DEF Seed, Reseed
      <4>3. \A id \in SeedRules : id \in DOMAIN rules' /\ rules'[id] = NewRow
        BY <4>2 DEF Joined
      <4> QED
        BY <4>3, ConfigAssumption DEF Stored, Enabled, NewRow
    <3>4. CASE call[a].pc # "seedRules"
      <4>1. Stored
        BY <1>3, <2>1, <3>4 DEF StoredUnlessSeeding
      <4>2. UNCHANGED rules
        BY <2>3, <3>2, <3>4 DEF Seed, Reseed, Refused, rows
      <4> QED
        BY <4>1, <4>2 DEF Stored, Enabled
    <3> QED
      BY <3>3, <3>4
  <2> QED
    BY <2>2, <2>3
<1>6. /\ active' = active
      \/ /\ Install(a) /\ active' = [active EXCEPT ![Pod(a)] = call[a].seen]
         /\ KeptRules \subseteq call[a].seen
  <2>1. CASE Install(a)
    BY <1>3, <2>1 DEF Install, ReadersKeep
  <2>2. CASE ~Install(a)
    BY <2>2 DEF CallStep, Find, Write, Seed, ReadConfig, CacheKey, ReadRules, Finish, copies
  <2> QED
    BY <2>1, <2>2
<1>7. \A p \in Pods : KeptRules \subseteq active[p] => KeptRules \subseteq active'[p]
  BY <1>6 DEF TypeInv, CopiesTyped
<1>8. ReadersKeep'
  <2> SUFFICES ASSUME NEW b \in Actors
               PROVE  /\ call'[b].pc = "install" => KeptRules \subseteq call'[b].seen
                      /\ call'[b].pc = "finish" => KeptRules \subseteq active'[Pod(b)]
    BY DEF ReadersKeep, Pod
  <2>1. CASE b # a
    BY <1>1, <1>3, <1>7, <2>1, PodOfActor DEF Moved, ReadersKeep
  <2>2. CASE b = a /\ Install(a)
    <3>1. call'[a].pc # "install"
      BY <2>2, InstallMoves, FailsEnds
    <3>2. KeptRules \subseteq active'[Pod(a)]
      BY <1>1, <1>3, <2>2 DEF Install, ReadersKeep, TypeInv, CopiesTyped
    <3> QED
      BY <2>2, <3>1, <3>2
  <2>3. CASE b = a /\ ReadRules(a)
    <3>1. \A c \in Actors : call[c].pc # "seedRules"
      <4> SUFFICES ASSUME NEW c \in Actors, call[c].pc = "seedRules" PROVE FALSE
        OBVIOUS
      <4>1. Wiping(c) /\ c # a
        BY <2>3, SeedingWipes DEF Seeding, ReadRules
      <4> QED
        BY <1>1, <1>3, <4>1 DEF WipesAlone
    <3>2. KeptRules \subseteq Enabled
      BY <1>3, <3>1 DEF StoredUnlessSeeding, Stored
    <3> QED
      BY <2>3, <3>2, ReadRulesMoves, FailsEnds
  <2>4. CASE b = a /\ ~Install(a) /\ ~ReadRules(a)
    <3>1. call'[a].pc \notin {"install", "finish"}
      <4>1. Finishes(a) => call'[a].pc \in {"up", "ok"}
        BY DEF Finishes
      <4>2. CASE Find(a) \/ Write(a) \/ Seed(a)
        BY <4>2, FindMoves, WriteMoves, SeedMoves, FailsEnds DEF Seeding
      <4>3. CASE ReadConfig(a) \/ CacheKey(a) \/ Finish(a)
        BY <4>1, <4>3, ReadConfigMoves, CacheKeyMoves, FinishMoves, FailsEnds
      <4> QED
        BY <2>4, <4>2, <4>3 DEF CallStep
    <3> QED
      BY <2>4, <3>1
  <2> QED
    BY <2>1, <2>2, <2>3, <2>4
<1>9. Enforcing'
  <2> SUFFICES ASSUME NEW p \in Pods, Up(p)' PROVE KeptRules \subseteq active'[p]
    BY DEF Enforcing, Up
  <2>0. p \in Actors
    BY DEF Actors
  <2>1. CASE p # a
    BY <1>1, <1>3, <1>7, <2>0, <2>1 DEF Moved, Up, Enforcing
  <2>2. CASE p = a
    <3>1. call[a].pc = "finish" /\ Pod(a) = p
      BY <1>1, <2>2, FailsEnds DEF Moved, Continues, Finishes, Up, Busy, Seeding, Reloading, Pod
    <3> QED
      BY <1>3, <1>7, <2>0, <2>2, <3>1 DEF ReadersKeep
  <2> QED
    BY <2>1, <2>2
<1> QED
  BY <1>4, <1>5, <1>8, <1>9

\* A crash loses no rule unless it tears a start or a reset.
LEMMA CrashKept ==
  ASSUME TypeInv, KeptInv, NEW p \in Pods, Crash(p)
  PROVE  KeptInv'
<1> SUFFICES ASSUME "torn" \notin mishaps'
             PROVE  WipesAlone' /\ StoredUnlessSeeding' /\ ReadersKeep' /\ Enforcing'
  BY DEF KeptInv
<1>1. Ended(p) /\ UNCHANGED <<rules, active>>
  BY CrashEnds DEF rows, copies
<1>2. "torn" \notin mishaps /\ \A a \in Actors : Wiping(a) => Pod(a) # p
  BY <1>1 DEF Ended
<1>3. WipesAlone /\ StoredUnlessSeeding /\ ReadersKeep /\ Enforcing
  BY <1>2 DEF KeptInv
<1>4. WipesAlone'
  BY <1>1, <1>3, EndedOpen DEF WipesAlone, Wiping
<1>5. StoredUnlessSeeding'
  <2> SUFFICES ASSUME \A b \in Actors : call'[b].pc # "seedRules" PROVE Stored'
    BY DEF StoredUnlessSeeding
  <2>1. ASSUME NEW b \in Actors, call[b].pc = "seedRules" PROVE FALSE
    <3>1. Wiping(b)
      BY <2>1, SeedingWipes DEF Seeding
    <3>2. Pod(b) # p /\ b # p
      BY <1>2, <3>1 DEF Pod
    <3>3. call'[b] = call[b]
      BY <1>1, <3>2 DEF Ended
    <3> QED
      BY <2>1, <3>3
  <2> QED
    BY <1>1, <1>3, <2>1 DEF StoredUnlessSeeding, Stored, Enabled
<1>6. ReadersKeep'
  <2> SUFFICES ASSUME NEW b \in Actors
               PROVE  /\ call'[b].pc = "install" => KeptRules \subseteq call'[b].seen
                      /\ call'[b].pc = "finish" => KeptRules \subseteq active'[Pod(b)]
    BY DEF ReadersKeep, Pod
  <2>1. call'[b].pc \in {"install", "finish"} => call'[b] = call[b]
    BY <1>1 DEF Ended
  <2> QED
    BY <1>1, <1>3, <2>1 DEF ReadersKeep
<1>7. Enforcing'
  BY <1>1, <1>3 DEF Ended, Enforcing, Up, Actors
<1> QED
  BY <1>4, <1>5, <1>6, <1>7

\* Every step keeps the kept rules.
LEMMA KeptNext ==
  ASSUME TypeInv, KeptInv, AnyNext
  PROVE  KeptInv'
<1>1. ASSUME NEW c \in Calls, NEW op \in Requests, Begin(c, op)
      PROVE  KeptInv'
  <2>1. /\ Entered(c, op) /\ c \in Actors /\ call[c].pc = "idle"
        /\ UNCHANGED <<rules, active>>
    BY <1>1, BeginEnters DEF rows, copies
  <2> QED
    BY <2>1, EnteredKept
<1>2. ASSUME NEW p \in Pods, Start(p)
      PROVE  KeptInv'
  <2>1. /\ Entered(p, [kind |-> "seed"]) /\ [kind |-> "seed"] \in Requests
        /\ p \in Actors /\ call[p].pc = "down" /\ p \notin Calls
        /\ UNCHANGED rules /\ active' = [active EXCEPT ![p] = {}]
    BY <1>2, StartEnters, ConfigAssumption DEF rows
  <2>2. \A q \in Pods \ {p} : active'[q] = active[q]
    BY <2>1 DEF TypeInv, CopiesTyped
  <2> QED
    BY <2>1, <2>2, EnteredKept
<1> QED
  BY <1>1, <1>2, StepKept, CrashKept DEF AnyNext

\* Initially the kept rules are seeded, enabled and enforced.
LEMMA KeptInit ==
  ASSUME Init
  PROVE  KeptInv
<1>1. \A a \in Actors : ~Open(a) /\ call[a].pc \in {"up", "idle"}
  BY DEF Init, Open, Rest
<1>2. Stored
  BY ConfigAssumption DEF Init, Stored, Enabled, NewRow
<1> QED
  BY <1>1, <1>2, ConfigAssumption DEF KeptInv, WipesAlone, StoredUnlessSeeding, ReadersKeep, Enforcing,
    Wiping, Init

\* Standing still changes nothing.
LEMMA KeptStutter ==
  ASSUME KeptInv, UNCHANGED vars
  PROVE  KeptInv'
  BY DEF KeptInv, WipesAlone, StoredUnlessSeeding, ReadersKeep, Enforcing, Wiping, Open, Up, Pod,
    Stored, Enabled, vars, rows, copies

\* A rule nobody asks to change is enforced by every process that serves:
\* overlapping updates, failures and crashes never lose it, only a reset or a
\* start that something overlapped or that failed half-way.
THEOREM UntouchedEnforcedHolds == Spec => []UntouchedEnforced
<1>1. Spec => []TypeInv
  BY TypeInvHolds
<1>2. Init => KeptInv
  BY KeptInit
<1>3. TypeInv /\ KeptInv /\ [Next]_vars => KeptInv'
  BY KeptNext, KeptStutter, NextIsAny
<1>4. KeptInv => UntouchedEnforced
  BY DEF KeptInv, Enforcing, UntouchedEnforced
<1> QED
  BY <1>1, <1>2, <1>3, <1>4, PTL DEF Spec

-----------------------------------------------------------------------------
(* Histories *)

Complete(r) == r.version >= 1 /\ r.history = [v \in 1..r.version - 1 |-> v]

\* With one call at a time the row that is written is the one that was read.
HistoryInv ==
  "overlap" \notin mishaps =>
    /\ \A a, b \in Actors : Open(a) /\ Open(b) => a = b
    /\ \A id \in DOMAIN rules : Complete(rules[id])
    /\ \A a \in Actors :
         call[a].pc = "write" /\ call[a].op.kind = "rule" /\ call[a].op.id \in DOMAIN rules =>
           call[a].row = rules[call[a].op.id]

\* Writing the next version of a complete row completes it.
LEMMA NextVersion ==
  ASSUME NEW r \in Row, Complete(r), NEW e
  PROVE  Complete([enabled |-> e, version |-> r.version + 1, history |-> Append(r.history, r.version)])
<1>1. r.version \in Nat /\ r.version >= 1 /\ r.history = [v \in 1..r.version - 1 |-> v]
  BY DEF Row, Complete
<1>2. r.history \in Seq(Nat) /\ Len(r.history) = r.version - 1
  BY <1>1 DEF Row
<1>3. Append(r.history, r.version) = [v \in 1..r.version |-> v]
  BY <1>1, <1>2
<1>4. (r.version + 1) - 1 = r.version /\ r.version + 1 >= 1
  BY <1>1
<1> QED
  BY <1>3, <1>4 DEF Complete

\* A new row is complete.
LEMMA NewComplete == Complete(NewRow)
<1>1. NewRow.version = 1 /\ NewRow.history = <<>>
  BY DEF NewRow
<1>2. <<>> = [v \in 1..1 - 1 |-> v]
  OBVIOUS
<1> QED
  BY <1>1, <1>2 DEF Complete

\* While no two calls overlap, histories stay complete.
LEMMA HistoryNext ==
  ASSUME TypeInv, HistoryInv, AnyNext
  PROVE  HistoryInv'
<1> SUFFICES ASSUME "overlap" \notin mishaps'
             PROVE  /\ \A a, b \in Actors : Open(a)' /\ Open(b)' => a = b
                    /\ \A id \in DOMAIN rules' : Complete(rules'[id])
                    /\ \A a \in Actors :
                         call'[a].pc = "write" /\ call'[a].op.kind = "rule" /\ call'[a].op.id \in DOMAIN rules' =>
                           call'[a].row = rules'[call'[a].op.id]
  BY DEF HistoryInv
<1>1. ASSUME NEW a \in Actors, NEW op \in Requests, Entered(a, op), UNCHANGED rules
      PROVE  /\ \A b, c \in Actors : Open(b)' /\ Open(c)' => b = c
             /\ \A id \in DOMAIN rules' : Complete(rules'[id])
             /\ \A b \in Actors : ~(call'[b].pc = "write" /\ call'[b].op.kind = "rule")
  <2>1. "overlap" \notin mishaps /\ \A b \in Actors : ~Open(b)
    BY <1>1 DEF Entered, Overlapping
  <2>2. \A b \in Actors \ {a} : ~Open(b)'
    BY <1>1, <2>1, EnteredOpen
  <2>3. ~(call'[a].pc = "write" /\ call'[a].op.kind = "rule")
    BY <1>1, RequestFields DEF Entered, FirstStep
  <2>4. \A b \in Actors \ {a} : call'[b].pc # "write"
    BY <2>2 DEF Open, Rest
  <2> QED
    BY <1>1, <2>1, <2>2, <2>3, <2>4 DEF HistoryInv
<1>2. ASSUME NEW a \in Actors, CallStep(a)
      PROVE  /\ \A b, c \in Actors : Open(b)' /\ Open(c)' => b = c
             /\ \A id \in DOMAIN rules' : Complete(rules'[id])
             /\ \A b \in Actors :
                  call'[b].pc = "write" /\ call'[b].op.kind = "rule" /\ call'[b].op.id \in DOMAIN rules' =>
                    call'[b].row = rules'[call'[b].op.id]
  <2>1. Moved(a)
    BY <1>2, StepMoves
  <2>2. "overlap" \notin mishaps
    BY <2>1 DEF Moved, Continues, Fails, Finishes
  <2>3. /\ \A b, c \in Actors : Open(b)' /\ Open(c)' => b = c
        /\ \A b \in Actors \ {a} : call'[b].pc # "write"
    <3>1. \A b \in Actors \ {a} : ~Open(b)
      BY <2>1, <2>2, MovedOpen DEF HistoryInv
    <3> QED
      BY <2>1, <3>1, MovedOpen DEF Open, Rest
  <2>4. \A id \in DOMAIN rules : Complete(rules[id]) /\ rules[id] \in Row
    BY <2>2 DEF HistoryInv, TypeInv, RowsTyped, TypedRules
  <2>5. CASE Find(a)
    <3>1. UNCHANGED rules
      BY <2>5 DEF Find, rows
    <3>2. call'[a].pc = "write" => Continues(a) /\ ~Fails(a)
      BY <2>1 DEF Moved, Fails, Finishes
    <3>3. call'[a].pc = "write" /\ call'[a].op.kind = "rule" => call'[a].row = rules[call'[a].op.id]
      BY <2>5, <3>2, FindMoves DEF Continues
    <3> QED
      BY <2>3, <2>4, <3>1, <3>3
  <2>6. CASE Write(a)
    <3>1. call'[a].pc # "write"
      BY <2>6, WriteMoves, FailsEnds
    <3>2. CASE call[a].op.kind = "config"
      <4>1. UNCHANGED rules
        BY <2>6, <3>2 DEF Write, WriteConfig, Refused, rows
      <4> QED
        BY <2>3, <2>4, <3>1, <4>1
    <3>3. CASE call[a].op.kind = "rule"
      <4> DEFINE id == call[a].op.id
                 new == [enabled |-> call[a].op.enabled, version |-> rules[id].version + 1,
                         history |-> Append(call[a].row.history, call[a].row.version)]
      <4>1. WriteRule(a) /\ call[a].pc = "write"
        BY <2>6, <3>3 DEF Write
      <4>2. CASE id \in DOMAIN rules
        <5>1. rules' = [rules EXCEPT ![id] = new]
          BY <4>1, <4>2 DEF WriteRule
        <5>2. call[a].row = rules[id]
          BY <2>2, <3>3, <4>1, <4>2 DEF HistoryInv
        <5>3. Complete(new)
          BY <2>4, <4>2, <5>2, NextVersion
        <5> HIDE DEF new
        <5>4. \A j \in DOMAIN rules' : Complete(rules'[j])
          BY <2>4, <4>2, <5>1, <5>3
        <5> QED
          BY <2>3, <3>1, <5>4
      <4>3. CASE id \notin DOMAIN rules
        <5>1. UNCHANGED rules
          BY <4>1, <4>3 DEF WriteRule, Refused, rows
        <5> QED
          BY <2>3, <2>4, <3>1, <5>1
      <4> QED
        BY <4>2, <4>3
    <3>4. CASE call[a].op.kind = "create"
      <4>1. UNCHANGED rules \/ rules' = With(rules, call[a].op.id, NewRow)
        BY <2>6, <3>4 DEF Write, CreateRow, Refused, rows
      <4>2. \A j \in DOMAIN rules' : Complete(rules'[j])
        BY <2>4, <4>1, NewComplete DEF With
      <4> QED
        BY <2>3, <3>1, <4>2
    <3>5. call[a].op.kind \in {"config", "rule", "create"}
      BY <2>6 DEF Write, TypeInv, CallsTyped, Shape, Busy
    <3> QED
      BY <3>2, <3>3, <3>4, <3>5
  <2>7. CASE Seed(a)
    <3>1. call'[a].pc # "write"
      BY <2>7, SeedMoves, FailsEnds DEF Seeding
    <3>2. UNCHANGED rules \/ rules' = Nothing \/ rules' = Joined([id \in SeedRules |-> NewRow], rules)
      BY <2>7 DEF Seed, Reseed, Refused, rows
    <3>3. \A j \in DOMAIN rules' : Complete(rules'[j])
      <4>1. CASE UNCHANGED rules \/ rules' = Nothing
        BY <2>4, <4>1 DEF Nothing
      <4>2. CASE rules' = Joined([id \in SeedRules |-> NewRow], rules)
        BY <2>4, <4>2, NewComplete DEF Joined
      <4> QED
        BY <3>2, <4>1, <4>2
    <3> QED
      BY <2>3, <3>1, <3>3
  <2>8. CASE ReadConfig(a) \/ CacheKey(a) \/ ReadRules(a) \/ Install(a) \/ Finish(a)
    <3>1. UNCHANGED rules
      BY <2>8 DEF ReadConfig, CacheKey, ReadRules, Install, Finish, rows
    <3>2. call'[a].pc # "write"
      <4>1. Fails(a) \/ Finishes(a) => call'[a].pc # "write"
        BY DEF Fails, Finishes
      <4> QED
        BY <2>8, <4>1, ReadConfigMoves, CacheKeyMoves, ReadRulesMoves, InstallMoves, FinishMoves
    <3> QED
      BY <2>3, <2>4, <3>1, <3>2
  <2> QED
    BY <1>2, <2>5, <2>6, <2>7, <2>8 DEF CallStep
<1>3. ASSUME NEW p \in Pods, Crash(p)
      PROVE  /\ \A b, c \in Actors : Open(b)' /\ Open(c)' => b = c
             /\ \A id \in DOMAIN rules' : Complete(rules'[id])
             /\ \A b \in Actors :
                  call'[b].pc = "write" /\ call'[b].op.kind = "rule" /\ call'[b].op.id \in DOMAIN rules' =>
                    call'[b].row = rules'[call'[b].op.id]
  <2>1. Ended(p) /\ UNCHANGED rules
    BY <1>3, CrashEnds DEF rows
  <2>2. "overlap" \notin mishaps
    BY <2>1 DEF Ended
  <2>3. \A b \in Actors : call'[b].pc = "write" => call'[b] = call[b]
    BY <2>1 DEF Ended
  <2> QED
    BY <2>1, <2>2, <2>3, EndedOpen DEF HistoryInv
<1>4. ASSUME NEW c \in Calls, NEW op \in Requests, Begin(c, op)
      PROVE  Entered(c, op) /\ c \in Actors /\ UNCHANGED rules
  BY <1>4, BeginEnters DEF rows
<1>5. ASSUME NEW p \in Pods, Start(p)
      PROVE  Entered(p, [kind |-> "seed"]) /\ [kind |-> "seed"] \in Requests /\ p \in Actors /\ UNCHANGED rules
  BY <1>5, StartEnters DEF rows
<1>6. CASE \E c \in Calls, op \in Requests : Begin(c, op)
  BY <1>1, <1>4, <1>6
<1>7. CASE \E p \in Pods : Start(p)
  BY <1>1, <1>5, <1>7
<1> QED
  BY <1>2, <1>3, <1>6, <1>7 DEF AnyNext

\* Initially every rule has its first version.
LEMMA HistoryInit ==
  ASSUME Init
  PROVE  HistoryInv
  BY NewComplete DEF Init, HistoryInv, Open, Rest, Actors

\* Standing still changes nothing.
LEMMA HistoryStutter ==
  ASSUME HistoryInv, UNCHANGED vars
  PROVE  HistoryInv'
  BY DEF HistoryInv, Complete, Open, vars, rows

\* While no two calls overlap, each rule's history has one entry for each
\* version before its current one, through failures, crashes and resets.
THEOREM HistoryCompleteHolds == Spec => []HistoryComplete
<1>1. Spec => []TypeInv
  BY TypeInvHolds
<1>2. Init => HistoryInv
  BY HistoryInit
<1>3. TypeInv /\ HistoryInv /\ [Next]_vars => HistoryInv'
  BY HistoryNext, HistoryStutter, NextIsAny
<1>4. HistoryInv => HistoryComplete
  BY DEF HistoryInv, HistoryComplete, Complete
<1> QED
  BY <1>1, <1>2, <1>3, <1>4, PTL DEF Spec

-----------------------------------------------------------------------------
(* The tab.  It asks for what the service accepts, and its steps are steps of *)
(* the service, or touch the screen only.                                     *)

TabTyped ==
  /\ screen = [mode |-> screen.mode, rules |-> screen.rules]
  /\ screen.mode \in Modes
  /\ DOMAIN screen.rules \subseteq Rules
  /\ \A id \in DOMAIN screen.rules : screen.rules[id] \in BOOLEAN
  /\ DOMAIN click = Calls /\ DOMAIN fetch = Fetches
  /\ \A c \in Calls :
       /\ click[c] = NoClick \/ click[c] \in Requests
       /\ click[c].kind = "config" => click[c].key = "mode" /\ click[c].value \in Modes
       /\ click[c].kind # "create"
  /\ \A f \in Fetches : \/ fetch[f] = NoFetch \/ fetch[f] = Asked
                        \/ fetch[f].stage = "answered" /\ fetch[f].list \subseteq Rules
  /\ synced \in BOOLEAN /\ hasty \in BOOLEAN

\* An open call is the one the tab clicked and waits for, or another client's.
Tied ==
  \A c \in Calls :
    /\ click[c] # NoClick => call[c].pc # "idle"
    /\ Open(c) => \/ click[c] = call[c].op
                  \/ click[c] = NoClick /\ call[c].op \in Operations

\* A user who waits for every answer waits for one thing at a time.
Single ==
  ~hasty =>
    /\ \A c, d \in Calls : click[c] # NoClick /\ click[d] # NoClick => c = d
    /\ \A f, g \in Fetches : fetch[f] # NoFetch /\ fetch[g] # NoFetch => f = g
    /\ \A c \in Calls, f \in Fetches : click[c] = NoClick \/ fetch[f] = NoFetch

TabInv == TabTyped /\ Tied /\ Single

\* A click asks for another mode, a listed rule or a reset.
TabClick(c, op) ==
  /\ Click(c, op) /\ op \in Requests
  /\ op.kind = "config" => op.key = "mode" /\ op.value \in Modes
  /\ op.kind # "create"

\* Every switch and button asks for something of that shape.
LEMMA TabClicks ==
  ASSUME TabTyped, NEW c \in Calls, ToggleMode(c) \/ ToggleRule(c) \/ ResetSystem(c)
  PROVE  \E op : TabClick(c, op)
<1>1. CASE ToggleMode(c)
  <2> DEFINE op == [kind |-> "config", key |-> "mode", value |-> Opposite(screen.mode)]
  <2>1. Click(c, op)
    BY <1>1 DEF ToggleMode
  <2>2. "mode" \in Keys /\ Opposite(screen.mode) \in Modes /\ Modes \subseteq Values
    BY ConfigAssumption, DashboardAssumption DEF Opposite, Modes
  <2>3. op \in Requests /\ op.kind = "config" /\ op.key = "mode" /\ op.value \in Modes
    BY <2>2 DEF Requests
  <2> HIDE DEF op
  <2> QED
    BY <2>1, <2>3 DEF TabClick
<1>2. CASE ToggleRule(c)
  <2>1. PICK id \in DOMAIN screen.rules \ KeptRules :
          Click(c, [kind |-> "rule", id |-> id, enabled |-> ~screen.rules[id]])
    BY <1>2 DEF ToggleRule
  <2> DEFINE op == [kind |-> "rule", id |-> id, enabled |-> ~screen.rules[id]]
  <2>2. id \in Rules \ KeptRules
    BY DEF TabTyped
  <2>3. op \in Requests /\ op.kind = "rule"
    BY <2>2 DEF Requests
  <2>4. Click(c, op)
    BY <2>1
  <2> HIDE DEF op
  <2> QED
    BY <2>3, <2>4 DEF TabClick
<1>3. CASE ResetSystem(c)
  <2> DEFINE op == [kind |-> "seed"]
  <2>1. Click(c, op) /\ op \in Requests /\ op.kind = "seed"
    BY <1>3 DEF ResetSystem, Requests
  <2> HIDE DEF op
  <2> QED
    BY <2>1 DEF TabClick
<1> QED
  BY <1>1, <1>2, <1>3

\* What the answer to a click makes of the screen.
LEMMA ShownFacts ==
  ASSUME TabTyped, NEW op \in Requests, op.kind # "create"
  PROVE  LET new == Shown(op) IN
         /\ new = [mode |-> new.mode, rules |-> new.rules]
         /\ new.mode = IF op.kind = "config" THEN op.value
                       ELSE IF op.kind = "seed" THEN "ENFORCE" ELSE screen.mode
         /\ DOMAIN new.rules = DOMAIN screen.rules
         /\ \A id \in DOMAIN screen.rules :
              new.rules[id] = IF op.kind = "rule" /\ id = op.id THEN op.enabled ELSE screen.rules[id]
<1>1. op.kind \in {"config", "rule", "seed"}
  BY RequestFields
<1>2. screen = [mode |-> screen.mode, rules |-> screen.rules]
  BY DEF TabTyped
<1>3. CASE op.kind = "config"
  <2>1. Shown(op) = [mode |-> op.value, rules |-> screen.rules]
    BY <1>2, <1>3 DEF Shown
  <2> QED
    BY <1>3, <2>1
<1>4. CASE op.kind = "seed"
  <2>1. Shown(op) = [mode |-> "ENFORCE", rules |-> screen.rules]
    BY <1>2, <1>4 DEF Shown
  <2> QED
    BY <1>4, <2>1
<1>5. CASE op.kind = "rule"
  <2> DEFINE new == [id \in DOMAIN screen.rules |-> IF id = op.id THEN op.enabled ELSE screen.rules[id]]
  <2>1. Shown(op) = [mode |-> screen.mode, rules |-> new]
    BY <1>2, <1>5 DEF Shown
  <2>2. DOMAIN new = DOMAIN screen.rules
        /\ \A id \in DOMAIN screen.rules : new[id] = IF id = op.id THEN op.enabled ELSE screen.rules[id]
    OBVIOUS
  <2> HIDE DEF new
  <2> QED
    BY <1>5, <2>1, <2>2
<1> QED
  BY <1>1, <1>3, <1>4, <1>5

\* To the service every step is a request of some client, its own, or nothing.
LEMMA TabIsAny ==
  ASSUME TabTyped, DashboardNext
  PROVE  AnyNext \/ UNCHANGED vars
<1>1. ASSUME NEW c \in Calls, ToggleMode(c) \/ ToggleRule(c) \/ ResetSystem(c)
      PROVE  AnyNext
  BY <1>1, TabClicks DEF TabClick, Click, AnyNext
<1>2. ASSUME NEW c \in Calls, Answered(c)
      PROVE  UNCHANGED vars
  BY <1>2 DEF Answered
<1>3. ASSUME NEW f \in Fetches, ServeRules(f) \/ ShowRules(f)
      PROVE  UNCHANGED vars
  BY <1>3 DEF ServeRules, ShowRules
<1>4. ReloadPage \/ Refetch => UNCHANGED vars
  BY DEF ReloadPage, Refetch
<1> QED
  BY <1>1, <1>2, <1>3, <1>4, NextIsAny DEF DashboardNext

\* What the service does on its own, or for another client, keeps each open call
\* with the one who asked for it.
LEMMA ServiceTab ==
  ASSUME TypeInv, TabInv, Next, UNCHANGED tab
  PROVE  TabInv'
<1>1. TabTyped' /\ Single'
  BY DEF TabInv, TabTyped, Single, tab
<1>2. \A c \in Calls : c \in Actors /\ click'[c] = click[c]
  BY DEF Actors, tab
<1>3. ASSUME NEW a \in Actors, NEW op \in Requests, Entered(a, op),
             a \in Calls => op \in Operations /\ call[a].pc = "idle"
      PROVE  Tied'
  <2> SUFFICES ASSUME NEW c \in Calls
               PROVE  /\ click[c] # NoClick => call'[c].pc # "idle"
                      /\ Open(c)' => \/ click[c] = call'[c].op
                                     \/ click[c] = NoClick /\ call'[c].op \in Operations
    BY <1>2 DEF Tied
  <2>1. CASE c = a
    <3>1. click[c] = NoClick /\ call'[c].op = op
      BY <1>3, <2>1 DEF TabInv, Tied, Entered
    <3> QED
      BY <1>3, <2>1, <3>1
  <2>2. CASE c # a
    BY <1>2, <1>3, <2>2, EnteredOpen DEF TabInv, Tied, NoLongerAlone, Open, Rest
  <2> QED
    BY <2>1, <2>2
<1>4. ASSUME NEW c \in Calls, NEW op \in Operations, Begin(c, op)
      PROVE  Tied'
  BY <1>3, <1>4, BeginEnters, ConfigAssumption
<1>5. ASSUME NEW p \in Pods, Start(p)
      PROVE  Tied'
  BY <1>3, <1>5, StartEnters, ConfigAssumption
<1>6. ASSUME NEW a \in Actors, CallStep(a)
      PROVE  Tied'
  <2>1. Moved(a)
    BY <1>6, StepMoves
  <2>2. \A c \in Calls : /\ call[c].pc # "idle" => call'[c].pc # "idle"
                         /\ Open(c)' => Open(c) /\ call'[c].op = call[c].op
    <3> TAKE c \in Calls
    <3>1. call'[a].pc # "idle"
      BY <2>1 DEF Moved, Continues, Fails, Finishes, Busy, Seeding, Reloading
    <3>2. c # a => call'[c] = call[c]
      BY <1>2, <2>1 DEF Moved
    <3> QED
      BY <1>2, <2>1, <3>1, <3>2, MovedOpen
  <2> QED
    BY <1>2, <2>2 DEF TabInv, Tied
<1>7. ASSUME NEW p \in Pods, Crash(p)
      PROVE  Tied'
  <2>1. Ended(p)
    BY <1>7, CrashEnds
  <2>2. \A c \in Calls : /\ call[c].pc # "idle" => call'[c].pc # "idle"
                         /\ Open(c)' => Open(c) /\ call'[c].op = call[c].op
    BY <1>2, <2>1, EndedOpen DEF Ended
  <2> QED
    BY <1>2, <2>2 DEF TabInv, Tied
<1> QED
  BY <1>1, <1>4, <1>5, <1>6, <1>7 DEF Next, TabInv

\* A click is one more thing to wait for, unless the user waits for nothing.
LEMMA ClickTab ==
  ASSUME TypeInv, TabInv, NEW c \in Calls, NEW op, TabClick(c, op)
  PROVE  TabInv'
<1>1. /\ Begin(c, op) /\ op \in Requests
      /\ op.kind = "config" => op.key = "mode" /\ op.value \in Modes
      /\ op.kind # "create"
      /\ click' = [click EXCEPT ![c] = op]
      /\ hasty' = (hasty \/ Waiting)
      /\ UNCHANGED <<screen, fetch, synced>>
  BY DEF TabClick, Click
<1>2. DOMAIN click = Calls /\ click'[c] = op /\ \A d \in Calls \ {c} : click'[d] = click[d]
  BY <1>1 DEF TabInv, TabTyped
<1>3. TabTyped'
  <2>1. hasty' \in BOOLEAN
    BY <1>1 DEF TabInv, TabTyped, Waiting
  <2>2. DOMAIN click' = Calls
    BY <1>1, <1>2
  <2> QED
    BY <1>1, <1>2, <2>1, <2>2 DEF TabInv, TabTyped
<1>4. Single'
  <2> SUFFICES ASSUME ~hasty', ~hasty, ~Waiting PROVE Single'
    BY <1>1 DEF Single
  <2>1. (\A d \in Calls : click[d] = NoClick) /\ (\A f \in Fetches : fetch[f] = NoFetch)
    BY DEF Waiting
  <2> QED
    BY <1>1, <1>2, <2>1 DEF Single
<1>5. Tied'
  <2>1. Entered(c, op) /\ c \in Actors /\ call[c].pc = "idle"
    BY <1>1, BeginEnters
  <2> SUFFICES ASSUME NEW d \in Calls
               PROVE  /\ click'[d] # NoClick => call'[d].pc # "idle"
                      /\ Open(d)' => \/ click'[d] = call'[d].op
                                     \/ click'[d] = NoClick /\ call'[d].op \in Operations
    BY DEF Tied
  <2>2. CASE d = c
    BY <1>2, <2>1, <2>2 DEF Entered, Busy, Seeding, Reloading
  <2>3. CASE d # c
    <3>1. d \in Actors /\ click'[d] = click[d]
      BY <1>2, <2>3 DEF Actors
    <3>2. CASE Open(d)
      BY <2>1, <2>3, <3>1, <3>2 DEF TabInv, Tied, Entered, NoLongerAlone, Open, Rest
    <3>3. CASE ~Open(d)
      BY <2>1, <2>3, <3>1, <3>3 DEF TabInv, Tied, Entered, Open
    <3> QED
      BY <3>2, <3>3
  <2> QED
    BY <2>2, <2>3
<1> QED
  BY <1>3, <1>4, <1>5 DEF TabInv

\* An answered click is replaced by a fetch, if by anything.
LEMMA AnsweredTab ==
  ASSUME TypeInv, TabInv, NEW c \in Calls, Answered(c)
  PROVE  TabInv'
<1> DEFINE op == click[c]
<1>1. /\ op # NoClick /\ ~Open(c)
      /\ click' = [click EXCEPT ![c] = NoClick]
      /\ UNCHANGED <<vars, hasty>>
  BY DEF Answered, Open, Rest
<1>2. \/ /\ screen' = Shown(op)
         /\ fetch' = [fetch EXCEPT ![c] = Asked] \/ fetch' = fetch
         /\ synced' = (synced \/ op.kind # "rule")
      \/ UNCHANGED <<screen, fetch, synced>>
  BY DEF Answered
<1>3. /\ DOMAIN click = Calls /\ click'[c] = NoClick
      /\ \A d \in Calls \ {c} : click'[d] = click[d]
  BY <1>1 DEF TabInv, TabTyped
<1>4. op \in Requests /\ op.kind # "create" /\ (op.kind = "config" => op.value \in Modes)
  BY <1>1 DEF TabInv, TabTyped
<1>5. TabTyped'
  <2>1. /\ (screen = [mode |-> screen.mode, rules |-> screen.rules])'
        /\ screen'.mode \in Modes
        /\ DOMAIN screen'.rules \subseteq Rules
        /\ \A id \in DOMAIN screen'.rules : screen'.rules[id] \in BOOLEAN
    <3>1. CASE UNCHANGED screen
      BY <3>1 DEF TabInv, TabTyped
    <3>2. CASE screen' = Shown(op)
      <4>1. /\ Shown(op) = [mode |-> Shown(op).mode, rules |-> Shown(op).rules]
            /\ Shown(op).mode = IF op.kind = "config" THEN op.value
                                ELSE IF op.kind = "seed" THEN "ENFORCE" ELSE screen.mode
            /\ DOMAIN Shown(op).rules = DOMAIN screen.rules
            /\ \A id \in DOMAIN screen.rules :
                 Shown(op).rules[id] = IF op.kind = "rule" /\ id = op.id THEN op.enabled
                                       ELSE screen.rules[id]
        BY <1>4, ShownFacts DEF TabInv
      <4>2. op.kind = "rule" => op.enabled \in BOOLEAN
        BY <1>4, RequestFields
      <4>3. PICK new : new = Shown(op)
        OBVIOUS
      <4>4. /\ new = [mode |-> new.mode, rules |-> new.rules]
            /\ new.mode \in Modes /\ DOMAIN new.rules = DOMAIN screen.rules
            /\ \A id \in DOMAIN screen.rules : new.rules[id] \in BOOLEAN
        BY <1>4, <4>1, <4>2, <4>3 DEF TabInv, TabTyped, Modes
      <4> QED
        BY <3>2, <4>3, <4>4 DEF TabInv, TabTyped
    <3> QED
      BY <1>2, <3>1, <3>2
  <2>2. /\ DOMAIN fetch' = Fetches
        /\ \A f \in Fetches : \/ fetch'[f] = NoFetch \/ fetch'[f] = Asked
                              \/ fetch'[f].stage = "answered" /\ fetch'[f].list \subseteq Rules
    BY <1>2 DEF TabInv, TabTyped
  <2>3. synced' \in BOOLEAN /\ hasty' \in BOOLEAN
    BY <1>1, <1>2 DEF TabInv, TabTyped
  <2>4. DOMAIN click' = Calls /\ NoClick.kind = "none"
    BY <1>1, <1>3 DEF NoClick
  <2>5. \A d \in Calls :
          /\ click'[d] = NoClick \/ click'[d] \in Requests
          /\ click'[d].kind = "config" => click'[d].key = "mode" /\ click'[d].value \in Modes
          /\ click'[d].kind # "create"
    BY <1>3, <2>4 DEF TabInv, TabTyped
  <2> QED
    BY <2>1, <2>2, <2>3, <2>4, <2>5 DEF TabTyped
<1>6. Single'
  <2> SUFFICES ASSUME ~hasty PROVE Single'
    BY <1>1 DEF Single
  <2>1. (\A d \in Calls \ {c} : click[d] = NoClick) /\ (\A f \in Fetches : fetch[f] = NoFetch)
    BY <1>1 DEF TabInv, Single
  <2>2. \A d \in Calls : click'[d] = NoClick
    BY <1>3, <2>1
  <2>3. \A f \in Fetches : fetch'[f] # NoFetch => f = c
    BY <1>2, <2>1 DEF TabInv, TabTyped
  <2> QED
    BY <2>2, <2>3 DEF Single
<1>7. Tied'
  BY <1>1, <1>3 DEF TabInv, Tied, vars, Open
<1> QED
  BY <1>5, <1>6, <1>7 DEF TabInv

\* The list of rules is fetched and shown, or the page loaded anew.
FetchStep == (\E f \in Fetches : ServeRules(f) \/ ShowRules(f)) \/ ReloadPage

\* It leaves the tab's invariant.
LEMMA FetchTab ==
  ASSUME TypeInv, TabInv, FetchStep
  PROVE  TabInv'
<1>1. UNCHANGED <<vars, click, hasty>>
  BY DEF FetchStep, ServeRules, ShowRules, ReloadPage
<1>2. Tied'
  BY <1>1 DEF TabInv, Tied, vars, Open
<1>3. ASSUME NEW f \in Fetches, ServeRules(f)
      PROVE  TabTyped' /\ Single'
  <2>1. PICK p \in {PodOf[c] : c \in Calls} :
          fetch' = [fetch EXCEPT ![f] = [stage |-> "answered", list |-> active[p]]]
    BY <1>3 DEF ServeRules
  <2>2. active[p] \subseteq Rules /\ fetch[f] = Asked /\ UNCHANGED <<screen, synced>>
    BY <1>3, ConfigAssumption DEF ServeRules, TypeInv, CopiesTyped
  <2>3. fetch'[f].stage = "answered" /\ fetch'[f].list = active[p]
        /\ \A g \in Fetches \ {f} : fetch'[g] = fetch[g]
    BY <2>1 DEF TabInv, TabTyped
  <2>4. DOMAIN fetch' = Fetches
    BY <2>1 DEF TabInv, TabTyped
  <2>5. TabTyped'
    BY <1>1, <2>2, <2>3, <2>4 DEF TabInv, TabTyped
  <2>6. Asked # NoFetch
    BY DEF Asked, NoFetch
  <2> QED
    BY <1>1, <2>2, <2>3, <2>5, <2>6 DEF TabInv, Single
<1>4. ASSUME NEW f \in Fetches, ShowRules(f)
      PROVE  TabTyped' /\ Single'
  <2> DEFINE new == [id \in fetch[f].list |-> TRUE]
  <2>1. /\ fetch[f].stage = "answered"
        /\ screen' = [screen EXCEPT !.rules = new]
        /\ fetch' = [fetch EXCEPT ![f] = NoFetch] /\ UNCHANGED synced
    BY <1>4 DEF ShowRules
  <2>2. fetch[f].list \subseteq Rules
    BY <2>1 DEF TabInv, TabTyped, NoFetch, Asked
  <2>3. DOMAIN new = fetch[f].list /\ \A id \in DOMAIN new : new[id] \in BOOLEAN
    OBVIOUS
  <2>4. screen' = [mode |-> screen.mode, rules |-> new]
    BY <2>1 DEF TabInv, TabTyped
  <2> HIDE DEF new
  <2>5. /\ DOMAIN fetch' = Fetches /\ fetch'[f] = NoFetch
        /\ \A g \in Fetches \ {f} : fetch'[g] = fetch[g]
    BY <2>1 DEF TabInv, TabTyped
  <2>6. TabTyped'
    BY <1>1, <2>1, <2>2, <2>3, <2>4, <2>5 DEF TabInv, TabTyped
  <2> QED
    BY <1>1, <2>5, <2>6 DEF TabInv, Single
<1>5. ASSUME ReloadPage
      PROVE  TabTyped' /\ Single'
  <2>1. /\ ~Waiting /\ screen' = [mode |-> "ENFORCE", rules |-> Nothing]
        /\ fetch' = [fetch EXCEPT !["page"] = Asked] /\ synced' = FALSE
    BY <1>5 DEF ReloadPage
  <2>2. /\ DOMAIN fetch' = Fetches
        /\ \A f \in Fetches : fetch'[f] = fetch[f] \/ (f = "page" /\ fetch'[f] = Asked)
    BY <2>1 DEF TabInv, TabTyped
  <2>3. DOMAIN Nothing = {}
    BY DEF Nothing
  <2>4. /\ (screen = [mode |-> screen.mode, rules |-> screen.rules])'
        /\ screen'.mode \in Modes /\ screen'.rules = Nothing
    BY <2>1 DEF Modes
  <2>5. TabTyped'
    BY <1>1, <2>1, <2>2, <2>3, <2>4 DEF TabInv, TabTyped
  <2> QED
    BY <1>1, <2>1, <2>2, <2>5 DEF Waiting, Single
<1> QED
  BY <1>2, <1>3, <1>4, <1>5 DEF TabInv, FetchStep

\* Another part of the page fetches the rules; when the tab waits for something
\* else, that was hasty.
LEMMA RefetchTab ==
  ASSUME TypeInv, TabInv, Refetch
  PROVE  TabInv'
<1>1. /\ fetch["page"] = NoFetch /\ fetch' = [fetch EXCEPT !["page"] = Asked]
      /\ hasty' = (hasty \/ Waiting) /\ UNCHANGED <<vars, screen, click, synced>>
  BY DEF Refetch
<1>2. /\ DOMAIN fetch' = Fetches
      /\ \A f \in Fetches : fetch'[f] = fetch[f] \/ (f = "page" /\ fetch'[f] = Asked)
  BY <1>1 DEF TabInv, TabTyped
<1>3. hasty' \in BOOLEAN
  BY <1>1 DEF TabInv, TabTyped, Waiting
<1>4. TabTyped'
  BY <1>1, <1>2, <1>3 DEF TabInv, TabTyped
<1>5. Tied'
  BY <1>1 DEF TabInv, Tied, vars, Open
<1>6. Single'
  <2> SUFFICES ASSUME ~hasty', ~hasty, ~Waiting PROVE Single'
    BY <1>1 DEF Single
  <2>1. (\A c \in Calls : click'[c] = NoClick) /\ \A f \in Fetches : fetch[f] = NoFetch
    BY <1>1 DEF Waiting
  <2>2. \A f \in Fetches : fetch'[f] # NoFetch => f = "page"
    BY <1>2, <2>1
  <2> QED
    BY <2>1, <2>2 DEF Single
<1> QED
  BY <1>4, <1>5, <1>6 DEF TabInv

\* The tab keeps its invariant.
LEMMA TabInvNext ==
  ASSUME TypeInv, TabInv, [DashboardNext]_dashboardVars
  PROVE  TabInv'
<1>1. CASE UNCHANGED dashboardVars
  BY <1>1 DEF dashboardVars, vars, tab, TabInv, TabTyped, Tied, Single, Open
<1>2. CASE DashboardNext
  BY <1>2, ServiceTab, ClickTab, AnsweredTab, FetchTab, RefetchTab, TabClicks
     DEF DashboardNext, FetchStep, TabInv
<1> QED
  BY <1>1, <1>2

\* A tab that has loaded waits for nothing.
LEMMA TabInvInit ==
  ASSUME DashboardInit
  PROVE  TabInv
<1>1. \A c \in Calls : click[c] = NoClick /\ NoClick.kind = "none"
  BY DEF DashboardInit, NoClick
<1>2. \A f \in Fetches : fetch[f] = NoFetch
  BY DEF DashboardInit
<1>3. \A a \in Actors : ~Open(a)
  BY DEF DashboardInit, Init, Open, Rest
<1>4. TabTyped
  BY <1>1, <1>2 DEF DashboardInit, TabTyped, Modes, Rules
<1> QED
  BY <1>1, <1>2, <1>3, <1>4 DEF TabInv, Tied, Single, Actors

-----------------------------------------------------------------------------
(* What the service promises it promises to a tab as well *)

\* The invariants of the service, and of the tab before it.
ServedInv == TypeInv /\ FreshInv /\ KeptInv /\ HistoryInv /\ TabInv

\* They are kept by every step of the two together.
LEMMA ServedInvHolds == DashboardSpec => []ServedInv
<1>1. DashboardInit => ServedInv
  BY TypeInvInit, FreshInit, KeptInit, HistoryInit, TabInvInit DEF DashboardInit, ServedInv
<1>2. ServedInv /\ [DashboardNext]_dashboardVars => ServedInv'
  <2> SUFFICES ASSUME ServedInv, [DashboardNext]_dashboardVars PROVE ServedInv'
    OBVIOUS
  <2>1. TabInv'
    BY TabInvNext DEF ServedInv
  <2>2. AnyNext \/ UNCHANGED vars
    BY TabIsAny DEF ServedInv, TabInv, dashboardVars
  <2>3. CASE AnyNext
    BY <2>1, <2>3, TypeInvNext, FreshNext, KeptNext, HistoryNext DEF ServedInv
  <2>4. CASE UNCHANGED vars
    BY <2>1, <2>4, TypeInvStutter, FreshStutter, KeptStutter, HistoryStutter DEF ServedInv
  <2> QED
    BY <2>2, <2>3, <2>4
<1> QED
  BY <1>1, <1>2, PTL DEF DashboardSpec

\* With a tab that clicks, fetches and reloads as it likes, beside any other
\* clients, processes stay typed, fresh after an undisturbed reload and
\* enforcing what nobody touches, and histories complete.
THEOREM ServedHolds ==
  DashboardSpec => [](TypeOK /\ FreshAfterReload /\ UntouchedEnforced /\ HistoryComplete)
<1>1. ServedInv => TypeOK /\ FreshAfterReload /\ UntouchedEnforced /\ HistoryComplete
  BY TypeInvImplies
    DEF ServedInv, FreshInv, KeptInv, Enforcing, UntouchedEnforced, HistoryInv, HistoryComplete, Complete
<1> QED
  BY <1>1, ServedInvHolds, PTL

-----------------------------------------------------------------------------
(* While nothing overlaps or fails *)

\* A call has written its row once it is past these stages.
Written(a) == call[a].pc \notin {"find", "write", "wipeConfig", "seedConfig"}

\* What a step that does not fail makes of the rows.
KeepsRows(a) ==
  /\ UNCHANGED rows
  /\ Written(a)' <=> Written(a)
  /\ call[a].pc # "seedConfig" /\ call'[a].pc # "seedConfig"

WritesConfig(a) ==
  /\ call[a].pc = "write" /\ call[a].op.kind = "config" /\ call'[a].pc = "readConfig"
  /\ config' = With(config, call[a].op.key, call[a].op.value)
  /\ UNCHANGED rules

WritesRule(a) ==
  /\ call[a].pc = "write" /\ call[a].op.kind = "rule" /\ call'[a].pc = "readConfig"
  /\ call[a].op.id \in DOMAIN rules /\ DOMAIN rules' = DOMAIN rules
  /\ rules'[call[a].op.id].enabled = call[a].op.enabled
  /\ \A id \in DOMAIN rules \ {call[a].op.id} : rules'[id] = rules[id]
  /\ UNCHANGED config

CreatesRule(a) ==
  /\ call[a].pc = "write" /\ call[a].op.kind = "create" /\ call'[a].pc = "readConfig"
  /\ call[a].op.id \notin DOMAIN rules
  /\ rules' = With(rules, call[a].op.id, NewRow)
  /\ UNCHANGED config

WipesConfig(a) ==
  /\ call[a].pc = "wipeConfig" /\ call[a].op.kind = "seed" /\ call'[a].pc = "seedConfig"
  /\ config' = Nothing
  /\ UNCHANGED rules

SeedsConfig(a) ==
  /\ call[a].pc = "seedConfig" /\ call[a].op.kind = "seed" /\ call'[a].pc = "wipeRules"
  /\ config' = Joined(SeedConfig, config)
  /\ UNCHANGED rules

SeedsRules(a) ==
  /\ call[a].pc \in {"wipeRules", "seedRules"} /\ call[a].op.kind = "seed"
  /\ call'[a].pc \in {"seedRules", "readConfig"}
  /\ UNCHANGED config

\* Each step that does not fail keeps the rows or writes some of them.
LEMMA RowSteps ==
  ASSUME TypeInv, NEW a \in Actors, CallStep(a), ~Fails(a)
  PROVE  \/ KeepsRows(a) \/ WritesConfig(a) \/ WritesRule(a) \/ CreatesRule(a)
         \/ WipesConfig(a) \/ SeedsConfig(a) \/ SeedsRules(a)
<1>1. CASE Find(a)
  <2>1. call[a].pc = "find" /\ call'[a].pc = "write" /\ UNCHANGED rows
    BY <1>1, FindMoves DEF Find
  <2> QED
    BY <2>1 DEF KeepsRows, Written
<1>2. CASE Write(a)
  <2>1. call[a].pc = "write" /\ call'[a].pc = "readConfig"
    BY <1>2, WriteMoves DEF Write
  <2>2. call[a].op.kind \in {"config", "rule", "create"}
    BY <2>1 DEF TypeInv, CallsTyped, Shape, Busy
  <2>3. Throws(a) => FALSE
    <3>1. Throws(a) => call'[a].pc \in {"down", "failed"}
      BY DEF Throws, TypeInv, CallsTyped
    <3> QED
      BY <2>1, <3>1
  <2>4. CASE call[a].op.kind = "config"
    BY <1>2, <2>1, <2>3, <2>4 DEF Write, WriteConfig, Refused, WritesConfig
  <2>5. CASE call[a].op.kind = "rule"
    <3> DEFINE new == [enabled |-> call[a].op.enabled, version |-> rules[call[a].op.id].version + 1,
                       history |-> Append(call[a].row.history, call[a].row.version)]
    <3>1. WriteRule(a)
      BY <1>2, <2>5 DEF Write
    <3>2. call[a].op.id \in DOMAIN rules /\ rules' = [rules EXCEPT ![call[a].op.id] = new] /\ UNCHANGED config
      BY <2>3, <3>1 DEF WriteRule, Refused
    <3>3. new.enabled = call[a].op.enabled
      OBVIOUS
    <3> HIDE DEF new
    <3> QED
      BY <2>1, <2>5, <3>2, <3>3 DEF WritesRule
  <2>6. CASE call[a].op.kind = "create"
    BY <1>2, <2>1, <2>3, <2>6 DEF Write, CreateRow, Refused, CreatesRule
  <2> QED
    BY <2>2, <2>4, <2>5, <2>6
<1>3. CASE Seed(a)
  <2>1. call[a].pc \in Seeding /\ call[a].op.kind = "seed"
    BY <1>3, SeedMoves DEF TypeInv, CallsTyped, Shape, Busy
  <2>2. Throws(a) => Fails(a) \/ call'[a].pc \in {"down", "failed"}
    BY DEF Throws, TypeInv, CallsTyped
  <2>3. CASE call[a].pc = "wipeConfig"
    BY <1>3, <2>1, <2>3, SeedMoves DEF Seed, Reseed, WipesConfig
  <2>4. CASE call[a].pc = "seedConfig"
    <3>1. call'[a].pc = "wipeRules"
      BY <1>3, <2>4, SeedMoves
    <3> QED
      BY <1>3, <2>1, <2>2, <2>4, <3>1 DEF Seed, Reseed, Refused, SeedsConfig
  <2>5. CASE call[a].pc = "wipeRules"
    BY <1>3, <2>1, <2>5, SeedMoves DEF Seed, Reseed, SeedsRules
  <2>6. CASE call[a].pc = "seedRules"
    BY <1>3, <2>1, <2>6, SeedMoves DEF Seed, Reseed, Refused, rows, SeedsRules
  <2> QED
    BY <2>1, <2>3, <2>4, <2>5, <2>6 DEF Seeding
<1>4. CASE ReadConfig(a) \/ CacheKey(a) \/ ReadRules(a) \/ Install(a) \/ Finish(a)
  <2>1. UNCHANGED rows /\ call[a].pc \in Reloading
    BY <1>4 DEF ReadConfig, CacheKey, ReadRules, Install, Finish, Reloading
  <2>2. call'[a].pc \in Reloading \cup {"up", "ok"}
    <3>1. CASE Finish(a)
      <4>1. call'[a] = [pc |-> IF a \in Pods THEN "up" ELSE "ok"]
        BY <3>1, FinishMoves DEF Finishes
      <4> QED
        BY <4>1
    <3>2. CASE CacheKey(a)
      <4>1. call'[a].pc \in {"readRules", "keys"}
        BY <3>2, CacheKeyMoves
      <4> QED
        BY <4>1 DEF Reloading
    <3>3. CASE ReadConfig(a)
      <4>1. call'[a].pc \in {"readRules", "keys"}
        BY <3>3, ReadConfigMoves
      <4> QED
        BY <4>1 DEF Reloading
    <3>4. CASE ReadRules(a) \/ Install(a)
      BY <3>4, ReadRulesMoves, InstallMoves DEF Reloading
    <3> QED
      BY <1>4, <3>1, <3>2, <3>3, <3>4
  <2> QED
    BY <2>1, <2>2 DEF KeepsRows, Written, Reloading
<1> QED
  BY <1>1, <1>2, <1>3, <1>4 DEF CallStep

\* The administration calls all reach the same process.
OneServer == \A c, d \in Calls : PodOf[c] = PodOf[d]

\* A process whose copies are the stored rows.
Agreed(p) == CachedBut(p, {}) /\ active[p] = Enabled

\* With no failure so far no process has crashed and no call got an error, with
\* no overlap every call is alone; in between the process agrees with the rows.
QuietInv ==
  mishaps = {} =>
    /\ \A p \in Pods : Up(p)
    /\ \A c \in Calls : call[c].pc \notin {"failed", "lost"}
    /\ \A a \in Actors : Open(a) => call[a].alone
    /\ (\A a \in Actors : ~Open(a)) => \A c \in Calls : Agreed(PodOf[c])

\* A step that brings no mishap is one of a call that is alone, and has not
\* failed.
LEMMA QuietStep ==
  ASSUME TypeInv, FreshInv, QuietInv, NEW a \in Actors, CallStep(a), mishaps' = {}
  PROVE  /\ mishaps = {} /\ Moved(a) /\ ~Fails(a) /\ Progress(a)
         /\ a \in Calls /\ Open(a) /\ call[a].alone /\ \A b \in Actors \ {a} : ~Open(b)
<1>1. Moved(a) /\ Open(a)
  BY StepMoves, MovedOpen
<1>2. ~Fails(a) /\ mishaps = {}
  BY <1>1 DEF Moved, Fails, Continues, Finishes
<1>3. a \in Calls
  BY <1>1, <1>2 DEF QuietInv, Up, Open, Rest, Actors
<1>4. call[a].alone /\ Progress(a)
  BY <1>1, <1>2 DEF QuietInv, FreshInv
<1> QED
  BY <1>1, <1>2, <1>3, <1>4 DEF FreshInv, Solitary

\* A call that begins and brings no mishap finds nothing open.
LEMMA QuietBegin ==
  ASSUME TypeInv, NEW c \in Calls, NEW op \in Requests, Begin(c, op), mishaps' = {}
  PROVE  /\ mishaps = {} /\ Entered(c, op) /\ call[c].pc = "idle"
         /\ \A b \in Actors : ~Open(b)
         /\ \A b \in Actors \ {c} : call'[b] = call[b]
         /\ UNCHANGED <<rows, copies>>
<1>1. Entered(c, op) /\ call[c].pc = "idle" /\ UNCHANGED <<rows, copies>>
  BY BeginEnters
<1>2. mishaps = {} /\ \A b \in Actors : ~Open(b)
  BY <1>1 DEF Entered, Overlapping
<1> QED
  BY <1>1, <1>2 DEF Entered

\* Without a mishap no process crashes or starts.
LEMMA QuietPods ==
  ASSUME QuietInv, NEW p \in Pods, Crash(p) \/ Start(p), mishaps' = {}
  PROVE  FALSE
<1>1. Crash(p) => mishaps' # {}
  BY DEF Crash
<1>2. Start(p) => mishaps = {} /\ ~Up(p)
  BY DEF Start, Begins, Up
<1> QED
  BY <1>1, <1>2 DEF QuietInv

\* Every step of the service keeps this.
LEMMA QuietNext ==
  ASSUME OneServer, TypeInv, FreshInv, QuietInv, AnyNext
  PROVE  QuietInv'
<1> SUFFICES ASSUME mishaps' = {}
             PROVE  /\ \A p \in Pods : Up(p)'
                    /\ \A c \in Calls : call'[c].pc \notin {"failed", "lost"}
                    /\ \A a \in Actors : Open(a)' => call'[a].alone
                    /\ (\A a \in Actors : ~Open(a)') => \A c \in Calls : Agreed(PodOf[c])'
  BY DEF QuietInv
<1>1. ASSUME NEW c \in Calls, NEW op \in Requests, Begin(c, op)
      PROVE  QuietInv'
  <2>1. /\ mishaps = {} /\ Entered(c, op) /\ \A b \in Actors : ~Open(b)
        /\ \A b \in Actors \ {c} : call'[b] = call[b]
    BY <1>1, QuietBegin
  <2>2. c \in Actors /\ Open(c)' /\ call'[c].alone /\ call'[c].pc \in Busy /\ c \notin Pods
    BY <2>1, EnteredOpen, ConfigAssumption DEF Entered, Actors
  <2>3. \A b \in Actors \ {c} : ~Open(b)'
    BY <2>1 DEF Open
  <2>4. \A p \in Pods : Up(p)'
    BY <2>1, <2>2 DEF QuietInv, Up, Actors
  <2>5. \A d \in Calls : call'[d].pc \notin {"failed", "lost"}
    BY <2>1, <2>2 DEF QuietInv, Actors, Busy, Seeding, Reloading
  <2> QED
    BY <2>2, <2>3, <2>4, <2>5 DEF QuietInv
<1>2. ASSUME NEW a \in Actors, CallStep(a)
      PROVE  QuietInv'
  <2>1. /\ mishaps = {} /\ Moved(a) /\ ~Fails(a) /\ Progress(a)
        /\ a \in Calls /\ Open(a) /\ call[a].alone /\ \A b \in Actors \ {a} : ~Open(b)
    BY <1>2, QuietStep
  <2>2. a \notin Pods
    BY <2>1, ConfigAssumption
  <2>3. \A p \in Pods : Up(p)'
    BY <2>1, <2>2 DEF QuietInv, Up, Moved, Actors
  <2>4. \A d \in Calls : call'[d].pc \notin {"failed", "lost"}
    <3>1. call'[a].pc \notin {"failed", "lost"}
      <4>1. Continues(a) => call'[a].pc \in Busy
        BY DEF Continues
      <4>2. Finishes(a) => call'[a].pc = "ok"
        BY <2>2 DEF Finishes
      <4> QED
        BY <2>1, <4>1, <4>2 DEF Moved, Busy, Seeding, Reloading
    <3> QED
      BY <2>1, <3>1 DEF QuietInv, Moved, Actors
  <2>5. \A b \in Actors : Open(b)' => call'[b].alone
    BY <2>1, MovedOpen
  <2>6. ASSUME \A b \in Actors : ~Open(b)', NEW c \in Calls
        PROVE  Agreed(PodOf[c])'
    <3>1. Finishes(a)
      BY <2>1, <2>6 DEF Moved, Continues, Open, Rest, Busy, Seeding, Reloading
    <3>2. Finish(a)
      BY <1>2, <3>1 DEF Finishes, CallStep, Find, Write, Seed, Reseed, ReadConfig, CacheKey, ReadRules, Install
    <3>3. PodOf[c] = Pod(a)
      BY <2>1, <2>2 DEF OneServer, Pod
    <3>4. CachedBut(PodOf[c], {}) /\ active[PodOf[c]] = Enabled
      BY <2>1, <3>1, <3>3 DEF Progress, Finishes
    <3>5. UNCHANGED <<config, rules, cache, active>>
      BY <3>2 DEF Finish, rows
    <3> QED
      BY <3>4, <3>5 DEF Agreed, CachedBut, Enabled
  <2> QED
    BY <2>3, <2>4, <2>5, <2>6 DEF QuietInv
<1> QED
  BY <1>1, <1>2, QuietPods DEF AnyNext, QuietInv

\* Initially every process agrees with the rows.
LEMMA QuietInit ==
  ASSUME Init
  PROVE  QuietInv
<1>1. Enabled = SeedRules
  BY DEF Init, Enabled, NewRow
<1>2. \A p \in Pods : Up(p) /\ Agreed(p)
  BY <1>1 DEF Init, Up, Agreed, CachedBut, Actors
<1>3. \A c \in Calls : call[c].pc = "idle" /\ PodOf[c] \in Pods
  BY ConfigAssumption DEF Init, Actors
<1>4. \A a \in Actors : ~Open(a)
  BY DEF Init, Open, Rest
<1> QED
  BY <1>2, <1>3, <1>4 DEF QuietInv

\* Standing still changes nothing.
LEMMA QuietStutter ==
  ASSUME QuietInv, UNCHANGED vars
  PROVE  QuietInv'
  BY DEF QuietInv, Agreed, CachedBut, Open, Up, Enabled, vars, rows, copies

-----------------------------------------------------------------------------
(* The mode on the screen *)

\* Nobody but the tab resets the system or switches the mode.
ModeOurs == \A op \in Operations : op.kind # "seed" /\ ~(op.kind = "config" /\ op.key = "mode")

\* A click that changes the mode, and the mode it asks for.
ModeClick(c) == click[c].kind \in {"config", "seed"}
Wanted(op) == IF op.kind = "config" THEN op.value ELSE "ENFORCE"

\* With no mishap, and a user who waits, the stored mode is the one a written
\* click asked for, or with none under way the one on the screen; it is only
\* missing within a reset.
ModeInv ==
  mishaps = {} /\ ~hasty =>
    /\ "mode" \in DOMAIN config \/ \E c \in Calls : call[c].pc = "seedConfig"
    /\ \A c \in Calls : ModeClick(c) /\ Written(c) => config["mode"] = Wanted(click[c])
    /\ synced /\ (\A c \in Calls : ModeClick(c) => ~Written(c) /\ call[c].pc # "seedConfig") =>
         config["mode"] = screen.mode

\* A user who waits and has clicked waits for nothing else.
LEMMA OneClick ==
  ASSUME TabInv, ~hasty, NEW c \in Calls, click[c] # NoClick
  PROVE  (\A d \in Calls \ {c} : click[d] = NoClick) /\ (\A f \in Fetches : fetch[f] = NoFetch)
  BY DEF TabInv, Single

\* No click asks for nothing.
LEMMA NoClickFacts == /\ NoClick.kind = "none" /\ \A op \in Requests : op # NoClick
                      /\ \A c \in Calls : ModeClick(c) => click[c] # NoClick
<1>1. NoClick.kind = "none"
  BY DEF NoClick
<1>2. \A op \in Requests : op # NoClick
  BY <1>1, RequestFields
<1> QED
  BY <1>1, <1>2 DEF ModeClick

\* A step of the service keeps the stored mode what the tab was told.
LEMMA ModeStep ==
  ASSUME ModeOurs, TypeInv, FreshInv, QuietInv, TabInv, ModeInv,
         NEW a \in Actors, CallStep(a), UNCHANGED tab
  PROVE  ModeInv'
<1> SUFFICES ASSUME mishaps' = {}, ~hasty
             PROVE  ModeInv'
  BY DEF ModeInv, tab
<1> DEFINE op == call[a].op
<1>1. /\ mishaps = {} /\ Moved(a) /\ ~Fails(a)
      /\ a \in Calls /\ Open(a) /\ \A b \in Actors \ {a} : ~Open(b)
  BY QuietStep
<1>2. \A d \in Calls \ {a} : call'[d] = call[d] /\ call[d].pc # "seedConfig"
  BY <1>1 DEF Moved, Open, Rest, Actors
<1>3. \A d \in Calls : click'[d] = click[d] /\ (ModeClick(d)' <=> ModeClick(d))
  BY DEF tab, ModeClick
<1>4. op \in Requests /\ (click[a] = op \/ (click[a] = NoClick /\ op \in Operations))
  BY <1>1, OpenBusy DEF TypeInv, CallsTyped, Shape, TabInv, Tied
<1>5. UNCHANGED <<screen, synced, hasty>>
  BY DEF tab
<1>6. \A d \in Calls \ {a} : Written(d)' <=> Written(d)
  BY <1>2 DEF Written
<1>7. ModeClick(a) => click[a] = op /\ \A d \in Calls \ {a} : ~ModeClick(d)
  BY <1>1, <1>4, OneClick, NoClickFacts
<1>8. /\ "mode" \in DOMAIN config \/ call[a].pc = "seedConfig"
      /\ \A d \in Calls : ModeClick(d) /\ Written(d) => config["mode"] = Wanted(click[d])
      /\ synced /\ (\A d \in Calls : ModeClick(d) => ~Written(d) /\ call[d].pc # "seedConfig") =>
           config["mode"] = screen.mode
  BY <1>1, <1>2 DEF ModeInv
\* Whatever does not touch the stored mode.
<1>9. ASSUME "mode" \in DOMAIN config, "mode" \in DOMAIN config', config'["mode"] = config["mode"],
             ModeClick(a) => (Written(a)' <=> Written(a))
                             /\ (call'[a].pc # "seedConfig" => call[a].pc # "seedConfig")
      PROVE  ModeInv'
  <2>1. \A d \in Calls : ModeClick(d) => (Written(d)' <=> Written(d))
    BY <1>6, <1>9
  <2>2. \A d \in Calls : ModeClick(d) /\ call'[d].pc # "seedConfig" => call[d].pc # "seedConfig"
    BY <1>2, <1>9
  <2>3. ASSUME NEW d \in Calls, ModeClick(d)', Written(d)'
        PROVE  config'["mode"] = Wanted(click'[d])
    BY <1>3, <1>8, <1>9, <2>1, <2>3
  <2>4. ASSUME synced', \A d \in Calls : ModeClick(d)' => ~Written(d)' /\ call'[d].pc # "seedConfig"
        PROVE  config'["mode"] = screen'.mode
    BY <1>3, <1>5, <1>8, <1>9, <2>1, <2>2, <2>4
  <2> QED
    BY <1>9, <2>3, <2>4 DEF ModeInv
<1>10. CASE KeepsRows(a)
  BY <1>8, <1>9, <1>10 DEF KeepsRows, rows
<1>11. CASE WritesConfig(a)
  <2>1. /\ call[a].pc = "write" /\ op.kind = "config" /\ call'[a].pc = "readConfig"
        /\ config' = With(config, op.key, op.value)
    BY <1>11 DEF WritesConfig
  <2>2. CASE op.key = "mode"
    <3>1. click[a] = op
      BY <1>4, <2>1, <2>2 DEF ModeOurs
    <3>2. ModeClick(a) /\ Written(a)' /\ "mode" \in DOMAIN config' /\ config'["mode"] = Wanted(op)
      BY <2>1, <2>2, <3>1 DEF ModeClick, Written, With, Wanted
    <3> QED
      BY <1>1, <1>3, <1>7, <3>1, <3>2 DEF ModeInv
  <2>3. CASE op.key # "mode"
    <3>1. ~ModeClick(a)
      BY <1>1, <1>7, <2>1, <2>3 DEF TabInv, TabTyped
    <3>2. "mode" \in DOMAIN config /\ "mode" \in DOMAIN config' /\ config'["mode"] = config["mode"]
      BY <1>8, <2>1, <2>3 DEF With
    <3> QED
      BY <1>9, <3>1, <3>2
  <2> QED
    BY <2>2, <2>3
<1>12. CASE WritesRule(a) \/ CreatesRule(a)
  <2>1. call[a].pc = "write" /\ op.kind \in {"rule", "create"} /\ UNCHANGED config
    BY <1>12 DEF WritesRule, CreatesRule
  <2>2. ~ModeClick(a)
    BY <1>7, <2>1 DEF ModeClick
  <2> QED
    BY <1>8, <1>9, <2>1, <2>2
<1>13. CASE WipesConfig(a)
  <2>1. op.kind = "seed" /\ call'[a].pc = "seedConfig"
    BY <1>13 DEF WipesConfig
  <2>2. click[a] = op /\ ModeClick(a)
    BY <1>4, <2>1 DEF ModeOurs, ModeClick
  <2>3. ~Written(a)'
    BY <2>1 DEF Written
  <2> QED
    BY <1>1, <1>3, <1>7, <2>1, <2>2, <2>3 DEF ModeInv
<1>14. CASE SeedsConfig(a)
  <2>1. op.kind = "seed" /\ call'[a].pc = "wipeRules" /\ config' = Joined(SeedConfig, config)
    BY <1>14 DEF SeedsConfig
  <2>2. click[a] = op /\ ModeClick(a)
    BY <1>4, <2>1 DEF ModeOurs, ModeClick
  <2>3. Written(a)' /\ "mode" \in DOMAIN config' /\ config'["mode"] = "ENFORCE" /\ Wanted(op) = "ENFORCE"
    BY <2>1, DashboardAssumption DEF Written, Joined, Wanted
  <2> QED
    BY <1>1, <1>3, <1>7, <2>1, <2>2, <2>3 DEF ModeInv
<1>15. CASE SeedsRules(a)
  <2>1. Written(a) /\ Written(a)' /\ call[a].pc # "seedConfig" /\ UNCHANGED config
    BY <1>15 DEF SeedsRules, Written
  <2> QED
    BY <1>8, <1>9, <2>1
<1> QED
  BY <1>1, <1>10, <1>11, <1>12, <1>13, <1>14, <1>15, RowSteps

\* So does a call that begins: it has not written anything.
LEMMA ModeBegin ==
  ASSUME TypeInv, QuietInv, TabInv, ModeInv, NEW c \in Calls, NEW op \in Requests, Begin(c, op),
         UNCHANGED <<screen, synced>>, ~hasty' => ~hasty,
         \A d \in Calls : ModeClick(d)' => ModeClick(d) \/ d = c,
         \A d \in Calls : ModeClick(d) => click'[d] = click[d]
  PROVE  ModeInv'
<1> SUFFICES ASSUME mishaps' = {}, ~hasty'
             PROVE  ModeInv'
  BY DEF ModeInv
<1>1. /\ mishaps = {} /\ ~hasty /\ Entered(c, op) /\ call[c].pc = "idle" /\ UNCHANGED config
      /\ \A b \in Calls \ {c} : call'[b] = call[b]
      /\ \A b \in Actors : ~Open(b)
  BY QuietBegin DEF rows, Actors
<1>2. call'[c].pc \in {"find", "write", "wipeConfig"}
  BY <1>1, RequestFields DEF Entered, FirstStep
<1>3. ~Written(c)' /\ call'[c].pc # "seedConfig"
  BY <1>2 DEF Written
<1>4. \A d \in Calls : call[d].pc # "seedConfig"
  BY <1>1 DEF Open, Rest, Actors
<1>5. ~ModeClick(c)
  BY <1>1, NoClickFacts DEF TabInv, Tied
<1>6. \A d \in Calls : ModeClick(d) => (Written(d)' <=> Written(d)) /\ d # c /\ ModeClick(d)'
  BY <1>1, <1>5 DEF Written, ModeClick
<1>7. /\ "mode" \in DOMAIN config
      /\ \A d \in Calls : ModeClick(d) /\ Written(d) => config["mode"] = Wanted(click[d])
      /\ synced /\ (\A d \in Calls : ModeClick(d) => ~Written(d)) => config["mode"] = screen.mode
  BY <1>1, <1>4 DEF ModeInv
<1>8. ASSUME NEW d \in Calls, ModeClick(d)', Written(d)'
      PROVE  config'["mode"] = Wanted(click'[d])
  BY <1>1, <1>3, <1>6, <1>7, <1>8
<1>9. ASSUME synced', \A d \in Calls : ModeClick(d)' => ~Written(d)'
      PROVE  config'["mode"] = screen'.mode
  BY <1>1, <1>6, <1>7, <1>9
<1> QED
  BY <1>1, <1>7, <1>8, <1>9 DEF ModeInv

\* So does the tab when it shows what it was answered.
LEMMA ModeAnswered ==
  ASSUME TypeInv, QuietInv, TabInv, ModeInv, NEW c \in Calls, Answered(c)
  PROVE  ModeInv'
<1> SUFFICES ASSUME mishaps = {}, ~hasty
             PROVE  ModeInv'
  BY DEF ModeInv, Answered, vars
<1> DEFINE op == click[c]
<1>1. call[c].pc = "ok"
  BY DEF Answered, QuietInv
<1>2. /\ op # NoClick /\ click' = [click EXCEPT ![c] = NoClick]
      /\ screen' = Shown(op) /\ synced' = (synced \/ op.kind # "rule")
      /\ UNCHANGED <<vars, hasty>>
  BY <1>1 DEF Answered
<1>3. op \in Requests /\ op.kind # "create"
  BY <1>2 DEF TabInv, TabTyped
<1>4. \A d \in Calls : click'[d] = NoClick /\ ~ModeClick(d)'
  <2>1. \A d \in Calls : click'[d] = NoClick
    BY <1>2, OneClick DEF TabInv, TabTyped
  <2> QED
    BY <2>1, NoClickFacts DEF ModeClick
<1>5. \A d \in Calls : ModeClick(d) => d = c
  BY <1>2, OneClick, NoClickFacts
<1>6. "mode" \in DOMAIN config' \/ \E d \in Calls : call'[d].pc = "seedConfig"
  BY <1>2 DEF ModeInv, vars
<1>7. screen'.mode = IF op.kind = "config" THEN op.value
                     ELSE IF op.kind = "seed" THEN "ENFORCE" ELSE screen.mode
  BY <1>2, <1>3, ShownFacts DEF TabInv
<1>8. synced' => config'["mode"] = screen'.mode
  <2>1. Written(c)
    BY <1>1 DEF Written
  <2>2. CASE ModeClick(c)
    BY <1>2, <1>7, <2>1, <2>2 DEF ModeInv, ModeClick, Wanted, vars
  <2>3. CASE ~ModeClick(c)
    <3>1. op.kind = "rule"
      BY <1>3, <2>3, RequestFields DEF ModeClick
    <3>2. synced' = synced
      BY <1>2, <3>1 DEF TabInv, TabTyped
    <3> QED
      BY <1>2, <1>5, <1>7, <2>3, <3>1, <3>2 DEF ModeInv, vars
  <2> QED
    BY <2>2, <2>3
<1> QED
  BY <1>4, <1>6, <1>8 DEF ModeInv

\* Lists of rules and reloaded pages leave it so: a page that was reloaded does
\* not know the mode, and synced says so.
LEMMA ModeFetch ==
  ASSUME TabInv, ModeInv, FetchStep
  PROVE  ModeInv'
<1>1. UNCHANGED <<vars, click, hasty>>
  BY DEF FetchStep, ServeRules, ShowRules, ReloadPage
<1>2. (synced' = synced /\ screen'.mode = screen.mode) \/ synced' = FALSE
  <2>1. ASSUME NEW f \in Fetches, ServeRules(f) PROVE UNCHANGED <<screen, synced>>
    BY <2>1 DEF ServeRules
  <2>2. ASSUME NEW f \in Fetches, ShowRules(f) PROVE synced' = synced /\ screen'.mode = screen.mode
    <3> DEFINE new == [id \in fetch[f].list |-> TRUE]
    <3>1. screen' = [screen EXCEPT !.rules = new] /\ synced' = synced
      BY <2>2 DEF ShowRules
    <3>2. screen = [mode |-> screen.mode, rules |-> screen.rules]
      BY DEF TabInv, TabTyped
    <3> HIDE DEF new
    <3>3. screen' = [mode |-> screen.mode, rules |-> new]
      BY <3>1, <3>2
    <3> QED
      BY <3>1, <3>3
  <2>3. ReloadPage => synced' = FALSE
    BY DEF ReloadPage
  <2> QED
    BY <2>1, <2>2, <2>3 DEF FetchStep
<1> QED
  BY <1>1, <1>2 DEF ModeInv, ModeClick, Written, vars

\* What a step of the two together is, to the tab.
LEMMA DashboardSteps ==
  ASSUME TabInv, DashboardNext
  PROVE  \/ \E c \in Calls : \E op : TabClick(c, op)
         \/ \E c \in Calls : Answered(c)
         \/ FetchStep \/ Refetch
         \/ \E c \in Calls, op \in Operations : Begin(c, op) /\ UNCHANGED tab
         \/ \E a \in Actors : CallStep(a) /\ UNCHANGED tab
         \/ \E p \in Pods : (Crash(p) \/ Start(p)) /\ UNCHANGED tab
  BY TabClicks DEF DashboardNext, FetchStep, TabInv, Next

\* Every step keeps the mode on the screen what is stored.
LEMMA ModeNext ==
  ASSUME ModeOurs, TypeInv, FreshInv, QuietInv, TabInv, ModeInv, DashboardNext
  PROVE  ModeInv'
<1>1. ASSUME NEW c \in Calls, NEW op, TabClick(c, op)
      PROVE  ModeInv'
  <2>1. /\ Begin(c, op) /\ op \in Requests /\ click' = [click EXCEPT ![c] = op]
        /\ hasty' = (hasty \/ Waiting) /\ UNCHANGED <<screen, synced>>
    BY <1>1 DEF TabClick, Click
  <2>2. \A d \in Calls \ {c} : click'[d] = click[d]
    BY <2>1 DEF TabInv, TabTyped
  <2>3. ~ModeClick(c)
    <3>1. call[c].pc = "idle"
      BY <2>1 DEF Begin
    <3> QED
      BY <3>1, NoClickFacts DEF TabInv, Tied
  <2>4. \A d \in Calls : /\ ModeClick(d)' => ModeClick(d) \/ d = c
                         /\ ModeClick(d) => click'[d] = click[d]
    BY <2>2, <2>3 DEF ModeClick
  <2> QED
    BY <2>1, <2>4, ModeBegin
<1>2. ASSUME NEW c \in Calls, NEW op \in Operations, Begin(c, op), UNCHANGED tab
      PROVE  ModeInv'
  <2>1. op \in Requests /\ UNCHANGED <<screen, synced, hasty, click>>
    BY <1>2, ConfigAssumption DEF tab
  <2> QED
    BY <1>2, <2>1, ModeBegin DEF ModeClick
<1>3. ASSUME NEW a \in Actors, CallStep(a), UNCHANGED tab
      PROVE  ModeInv'
  BY <1>3, ModeStep
<1>4. ASSUME NEW p \in Pods, Crash(p) \/ Start(p)
      PROVE  ModeInv'
  BY <1>4, QuietPods DEF ModeInv
<1>5. ASSUME Refetch
      PROVE  ModeInv'
  <2>1. (hasty => hasty') /\ UNCHANGED <<vars, screen, click, synced>>
    BY <1>5 DEF Refetch
  <2> QED
    BY <2>1 DEF ModeInv, ModeClick, Written, vars
<1> QED
  BY <1>1, <1>2, <1>3, <1>4, <1>5, DashboardSteps, ModeAnswered, ModeFetch

\* The page shows the seeded mode at first.
LEMMA ModeInit ==
  ASSUME DashboardInit
  PROVE  ModeInv
<1>1. \A c \in Calls : ~ModeClick(c)
  BY DEF DashboardInit, ModeClick, NoClick
<1> QED
  BY <1>1, DashboardAssumption DEF DashboardInit, Init, ModeInv

\* Standing still changes nothing.
LEMMA ModeStutter ==
  ASSUME ModeInv, UNCHANGED dashboardVars
  PROVE  ModeInv'
  BY DEF ModeInv, ModeClick, Written, dashboardVars, vars, tab

\* The service's invariants, with those of a service nothing disturbs.
CalmInv == ServedInv /\ QuietInv

\* They are kept by every step of the two together.
LEMMA CalmInvHolds == OneServer => (DashboardSpec => []CalmInv)
<1> SUFFICES ASSUME OneServer PROVE DashboardSpec => []CalmInv
  OBVIOUS
<1>1. DashboardSpec => []ServedInv
  BY ServedInvHolds
<1>2. DashboardInit => QuietInv
  BY QuietInit DEF DashboardInit
<1>3. ServedInv /\ QuietInv /\ [DashboardNext]_dashboardVars => QuietInv'
  <2> SUFFICES ASSUME ServedInv, QuietInv, [DashboardNext]_dashboardVars PROVE QuietInv'
    OBVIOUS
  <2>1. AnyNext \/ UNCHANGED vars
    BY TabIsAny DEF ServedInv, TabInv, dashboardVars
  <2> QED
    BY <2>1, QuietNext, QuietStutter DEF ServedInv
<1> QED
  BY <1>1, <1>2, <1>3, PTL DEF DashboardSpec, CalmInv

\* With one process behind the administration calls, and no other client that
\* resets the system or switches the mode: once everything was answered, with
\* no overlap, failure or hasty click so far, the mode on the screen is the
\* stored one and the one the process works by.
THEOREM ModeShownHolds == OneServer /\ ModeOurs => (DashboardSpec => []ModeShown)
<1> SUFFICES ASSUME OneServer, ModeOurs PROVE DashboardSpec => []ModeShown
  OBVIOUS
<1>1. DashboardSpec => []CalmInv
  BY CalmInvHolds
<1>2. DashboardInit => ModeInv
  BY ModeInit
<1>3. CalmInv /\ ModeInv /\ [DashboardNext]_dashboardVars => ModeInv'
  BY ModeNext, ModeStutter DEF CalmInv, ServedInv
<1>4. CalmInv /\ ModeInv => ModeShown
  <2> SUFFICES ASSUME CalmInv, ModeInv, Calm, synced
               PROVE  /\ screen.mode = config["mode"]
                      /\ \A c \in Calls : call[c].pc = "ok" => cache[PodOf[c]]["mode"] = screen.mode
    BY DEF ModeShown
  <2>1. mishaps = {} /\ ~hasty /\ (\A c \in Calls : click[c] = NoClick) /\ \A a \in Actors : ~Open(a)
    BY DEF Calm, Waiting
  <2>2. \A c \in Calls : ~ModeClick(c)
    BY <2>1, NoClickFacts
  <2>3. \A c \in Calls : call[c].pc # "seedConfig"
    BY <2>1 DEF Open, Rest, Actors
  <2>4. config["mode"] = screen.mode /\ "mode" \in DOMAIN config
    BY <2>1, <2>2, <2>3 DEF ModeInv
  <2>5. \A c \in Calls : CachedBut(PodOf[c], {})
    BY <2>1 DEF CalmInv, QuietInv, Agreed
  <2> QED
    BY <2>4, <2>5 DEF CachedBut
<1> QED
  BY <1>1, <1>2, <1>3, <1>4, PTL DEF DashboardSpec

-----------------------------------------------------------------------------
(* The rules on the screen *)

\* Nobody but the tab resets the system or switches a rule.
RulesOurs == \A op \in Operations : op.kind \notin {"seed", "rule"}

\* Switches that show what is stored.
Matches(switches) ==
  \A id \in DOMAIN switches : id \in DOMAIN rules /\ (switches[id] <=> id \in Enabled)

\* The switches once a switched rule is marked.
Marked(op) == [id \in DOMAIN screen.rules |-> IF id = op.id THEN op.enabled ELSE screen.rules[id]]

\* A call that changes rules that are stored.
Changing(a) == Open(a) /\ call[a].op.kind \in {"seed", "rule"}

\* With no mishap, and a user who waits, the switches show what is stored
\* unless a reset, a rule that was written or a list to come will change them;
\* what is to be marked and what is to be listed is stored, and a process that
\* no changing call is at work on knows enabled rules only.
RuleInv ==
  mishaps = {} /\ ~hasty =>
    /\ /\ \A f \in Fetches : fetch[f] = NoFetch
       /\ \A c \in Calls : click[c].kind # "seed" /\ ~(click[c].kind = "rule" /\ Written(c))
       => Matches(screen.rules)
    /\ \A c \in Calls : click[c].kind = "rule" /\ Written(c) => Matches(Marked(click[c]))
    /\ \A f \in Fetches : fetch[f].stage = "answered" => fetch[f].list \subseteq Enabled
    /\ (\A a \in Actors : ~Changing(a)) => \A c \in Calls : active[PodOf[c]] \subseteq Enabled

\* A step of the service keeps what the tab shows and what it will show.
LEMMA RuleStep ==
  ASSUME OneServer, RulesOurs, TypeInv, FreshInv, QuietInv, QuietInv', TabInv, RuleInv,
         NEW a \in Actors, CallStep(a), UNCHANGED tab
  PROVE  RuleInv'
<1> SUFFICES ASSUME mishaps' = {}, ~hasty
             PROVE  RuleInv'
  BY DEF RuleInv, tab
<1> DEFINE op == call[a].op
<1>1. /\ mishaps = {} /\ Moved(a) /\ ~Fails(a) /\ Progress(a)
      /\ a \in Calls /\ Open(a) /\ \A b \in Actors \ {a} : ~Open(b)
  BY QuietStep
<1>2. \A d \in Calls \ {a} : call'[d] = call[d] /\ (Written(d)' <=> Written(d))
  BY <1>1 DEF Moved, Actors, Written
<1>3. UNCHANGED <<screen, click, fetch, hasty>>
  BY DEF tab
<1>4. op \in Requests /\ (click[a] = op \/ (click[a] = NoClick /\ op \in Operations))
  BY <1>1, OpenBusy DEF TypeInv, CallsTyped, Shape, TabInv, Tied
<1>5. op.kind \in {"seed", "rule"} =>
        /\ click[a] = op
        /\ (\A d \in Calls \ {a} : click[d] = NoClick) /\ \A f \in Fetches : fetch[f] = NoFetch
  BY <1>1, <1>4, OneClick, NoClickFacts DEF RulesOurs
<1>6. op.kind \notin {"seed", "rule"} => click[a].kind \notin {"seed", "rule"}
  BY <1>4, NoClickFacts
<1>7. \A b \in Actors : Open(b)' => b = a /\ call'[b].op = op
  BY <1>1, MovedOpen
\* What the process of the tab knows.
<1>8. (\A b \in Actors : ~Changing(b)') => \A c \in Calls : active'[PodOf[c]] \subseteq Enabled'
  <2> SUFFICES ASSUME \A b \in Actors : ~Changing(b)', NEW c \in Calls
               PROVE  active'[PodOf[c]] \subseteq Enabled'
    OBVIOUS
  <2>1. CASE ~Open(a)'
    <3>1. \A b \in Actors : ~Open(b)'
      BY <1>7, <2>1
    <3> QED
      BY <3>1 DEF QuietInv, Agreed
  <2>2. CASE Open(a)'
    <3>1. op.kind \notin {"seed", "rule"}
      BY <1>7, <2>2 DEF Changing
    <3>2. \A b \in Actors : ~Changing(b)
      BY <1>1, <3>1 DEF Changing
    <3>3. active[PodOf[c]] \subseteq Enabled
      BY <1>1, <3>2 DEF RuleInv
    <3>4. Enabled \subseteq Enabled'
      <4>1. CASE UNCHANGED rules
        BY <4>1 DEF Enabled
      <4>2. CASE CreatesRule(a)
        BY <4>2 DEF CreatesRule, With, Enabled
      <4> QED
        BY <1>1, <3>1, <4>1, <4>2, RowSteps
          DEF KeepsRows, WritesConfig, WritesRule, WipesConfig, SeedsConfig, SeedsRules, rows
    <3>5. CASE UNCHANGED active
      BY <3>3, <3>4, <3>5
    <3>6. CASE Install(a)
      <4>1. call[a].pc = "install" /\ active' = [active EXCEPT ![Pod(a)] = call[a].seen]
        BY <3>6 DEF Install
      <4>2. call[a].seen = Enabled /\ PodOf[c] \in Pods
        BY <1>1, <4>1, ConfigAssumption DEF Progress
      <4> QED
        BY <3>3, <3>4, <4>1, <4>2 DEF TypeInv, CopiesTyped
    <3> QED
      BY <3>5, <3>6 DEF CallStep, Find, Write, Seed, ReadConfig, CacheKey, ReadRules, Finish, copies
  <2> QED
    BY <2>1, <2>2
\* Whatever adds rules only, or none.
<1>9. ASSUME DOMAIN rules \subseteq DOMAIN rules',
             \A id \in DOMAIN rules : rules'[id] = rules[id],
             click[a].kind = "rule" => (Written(a)' <=> Written(a))
      PROVE  RuleInv'
  <2>1. \A id \in DOMAIN rules : id \in Enabled' <=> id \in Enabled
    BY <1>9 DEF Enabled
  <2>2. Enabled \subseteq Enabled'
    BY <2>1 DEF Enabled
  <2>3. \A d \in Calls : click[d].kind = "rule" => (Written(d)' <=> Written(d))
    BY <1>2, <1>9
  <2>4. ASSUME \A f \in Fetches : fetch'[f] = NoFetch,
               \A c \in Calls : click'[c].kind # "seed" /\ ~(click'[c].kind = "rule" /\ Written(c)')
        PROVE  Matches(screen.rules)'
    <3>1. Matches(screen.rules)
      BY <1>1, <1>3, <2>3, <2>4 DEF RuleInv
    <3> QED
      BY <1>3, <1>9, <2>1, <3>1 DEF Matches
  <2>5. ASSUME NEW c \in Calls, click'[c].kind = "rule", Written(c)'
        PROVE  Matches(Marked(click[c]))'
    <3>1. Matches(Marked(click[c])) /\ UNCHANGED Marked(click[c])
      BY <1>1, <1>3, <2>3, <2>5 DEF RuleInv, Marked
    <3> QED
      BY <1>9, <2>1, <3>1 DEF Matches
  <2>6. \A f \in Fetches : fetch'[f].stage = "answered" => fetch'[f].list \subseteq Enabled'
    BY <1>1, <1>3, <2>2 DEF RuleInv
  <2> QED
    BY <1>8, <2>4, <2>5, <2>6 DEF RuleInv
<1>10. CASE KeepsRows(a)
  BY <1>9, <1>10 DEF KeepsRows, rows
<1>11. CASE WritesConfig(a)
  <2>1. click[a].kind # "rule" /\ UNCHANGED rules
    BY <1>6, <1>11 DEF WritesConfig
  <2> QED
    BY <1>9, <2>1
<1>12. CASE CreatesRule(a)
  <2>1. click[a].kind # "rule"
    BY <1>6, <1>12 DEF CreatesRule
  <2>2. DOMAIN rules \subseteq DOMAIN rules' /\ \A id \in DOMAIN rules : rules'[id] = rules[id]
    BY <1>12 DEF CreatesRule, With
  <2> QED
    BY <1>9, <2>1, <2>2
<1>13. CASE WritesRule(a)
  <2>1. /\ call[a].pc = "write" /\ op.kind = "rule" /\ call'[a].pc = "readConfig"
        /\ op.id \in DOMAIN rules /\ DOMAIN rules' = DOMAIN rules
        /\ rules'[op.id].enabled = op.enabled
        /\ \A id \in DOMAIN rules \ {op.id} : rules'[id] = rules[id]
    BY <1>13 DEF WritesRule
  <2>2. click[a] = op /\ ~Written(a) /\ Written(a)' /\ NoClick.kind = "none"
    BY <1>5, <2>1, NoClickFacts DEF Written
  <2>3. Matches(screen.rules)
    BY <1>1, <1>5, <2>1, <2>2 DEF RuleInv
  <2>4. \A id \in DOMAIN rules : id \in Enabled' <=> IF id = op.id THEN op.enabled ELSE id \in Enabled
    BY <2>1 DEF Enabled
  <2>5. Matches(Marked(click[a]))'
    <3> DEFINE new == Marked(op)
    <3>1. \A id \in DOMAIN screen.rules : new[id] = IF id = op.id THEN op.enabled ELSE screen.rules[id]
      BY DEF Marked
    <3>2. DOMAIN new = DOMAIN screen.rules
      BY DEF Marked
    <3> HIDE DEF new
    <3>3. \A id \in DOMAIN new : id \in DOMAIN rules' /\ (new[id] <=> id \in Enabled')
      BY <2>1, <2>3, <2>4, <3>1, <3>2 DEF Matches
    <3>4. Marked(click[a])' = new
      BY <1>3, <2>2 DEF Marked, new
    <3> QED
      BY <3>3, <3>4 DEF Matches
  <2>6. ~(\A c \in Calls : click'[c].kind # "seed" /\ ~(click'[c].kind = "rule" /\ Written(c)'))
    BY <1>1, <1>3, <2>1, <2>2
  <2>7. \A c \in Calls : click'[c].kind = "rule" /\ Written(c)' => Matches(Marked(click[c]))'
    <3>1. \A c \in Calls \ {a} : click'[c].kind # "rule"
      BY <1>3, <1>5, <2>1, NoClickFacts
    <3> QED
      BY <2>5, <3>1
  <2>8. \A f \in Fetches : fetch'[f].stage # "answered"
    BY <1>3, <1>5, <2>1 DEF NoFetch
  <2> QED
    BY <1>8, <2>6, <2>7, <2>8 DEF RuleInv
<1>14. CASE WipesConfig(a) \/ SeedsConfig(a) \/ SeedsRules(a)
  <2>1. click[a] = op /\ op.kind = "seed"
    BY <1>5, <1>14 DEF WipesConfig, SeedsConfig, SeedsRules
  <2>2. ~(\A c \in Calls : click'[c].kind # "seed" /\ ~(click'[c].kind = "rule" /\ Written(c)'))
    BY <1>1, <1>3, <2>1
  <2>3. \A c \in Calls : click'[c].kind # "rule"
    BY <1>3, <1>5, <2>1, NoClickFacts
  <2>4. \A f \in Fetches : fetch'[f].stage # "answered"
    BY <1>3, <1>5, <2>1 DEF NoFetch
  <2> QED
    BY <1>8, <2>2, <2>3, <2>4 DEF RuleInv
<1> QED
  BY <1>1, <1>10, <1>11, <1>12, <1>13, <1>14, RowSteps

\* A call that begins has written nothing yet.
LEMMA RuleBegin ==
  ASSUME TypeInv, QuietInv, TabInv, RuleInv, NEW c \in Calls, NEW op \in Requests, Begin(c, op),
         UNCHANGED <<screen, fetch>>, ~hasty' => ~hasty,
         \A d \in Calls \ {c} : click'[d] = click[d],
         click'[c] = op \/ (op.kind # "seed" /\ click'[c] = click[c])
  PROVE  RuleInv'
<1> SUFFICES ASSUME mishaps' = {}, ~hasty'
             PROVE  RuleInv'
  BY DEF RuleInv
<1>1. /\ mishaps = {} /\ ~hasty /\ Entered(c, op) /\ call[c].pc = "idle"
      /\ \A b \in Calls \ {c} : call'[b] = call[b]
      /\ \A b \in Actors : ~Open(b)
      /\ UNCHANGED <<rules, active>>
  BY QuietBegin DEF rows, copies, Actors
<1>2. c \in Actors /\ call'[c].op = op /\ Open(c)'
  BY <1>1, EnteredOpen DEF Entered, Actors
<1>3. click[c] = NoClick /\ NoClick.kind = "none"
  BY <1>1, NoClickFacts DEF TabInv, Tied
<1>4. op.kind = "rule" => ~Written(c)'
  BY <1>1 DEF Entered, FirstStep, Written
<1>5. \A d \in Calls \ {c} : Written(d)' <=> Written(d)
  BY <1>1 DEF Written
<1>6. UNCHANGED Enabled
  BY <1>1 DEF Enabled
<1>7. \A d \in Calls : click'[d].kind = "rule" /\ Written(d)' =>
        click'[d] = click[d] /\ click[d].kind = "rule" /\ Written(d)
  BY <1>3, <1>4, <1>5
<1>8. ASSUME \A f \in Fetches : fetch'[f] = NoFetch,
             \A d \in Calls : click'[d].kind # "seed" /\ ~(click'[d].kind = "rule" /\ Written(d)')
      PROVE  Matches(screen.rules)'
  <2>1. \A d \in Calls : click[d].kind # "seed" /\ ~(click[d].kind = "rule" /\ Written(d))
    BY <1>3, <1>5, <1>8
  <2>2. Matches(screen.rules)
    BY <1>1, <1>8, <2>1 DEF RuleInv
  <2> QED
    BY <1>1, <1>6, <2>2 DEF Matches
<1>9. ASSUME NEW d \in Calls, click'[d].kind = "rule", Written(d)'
      PROVE  Matches(Marked(click[d]))'
  <2>1. click'[d] = click[d] /\ Matches(Marked(click[d]))
    BY <1>1, <1>7, <1>9 DEF RuleInv
  <2>2. UNCHANGED Marked(click[d])
    BY <2>1 DEF Marked
  <2> QED
    BY <1>1, <1>6, <2>1, <2>2 DEF Matches
<1>10. \A f \in Fetches : fetch'[f].stage = "answered" => fetch'[f].list \subseteq Enabled'
  BY <1>1, <1>6 DEF RuleInv
<1>11. \A d \in Calls : active'[PodOf[d]] \subseteq Enabled'
  <2>1. \A b \in Actors : ~Changing(b)
    BY <1>1 DEF Changing
  <2> QED
    BY <1>1, <1>6, <2>1 DEF RuleInv
<1> QED
  BY <1>8, <1>9, <1>10, <1>11 DEF RuleInv

\* The answer to a click is what was stored, or makes the tab ask for the list.
LEMMA RuleAnswered ==
  ASSUME TypeInv, QuietInv, TabInv, RuleInv, NEW c \in Calls, Answered(c)
  PROVE  RuleInv'
<1> SUFFICES ASSUME mishaps = {}, ~hasty
             PROVE  RuleInv'
  BY DEF RuleInv, Answered, vars
<1> DEFINE op == click[c]
<1>1. call[c].pc = "ok"
  BY DEF Answered, QuietInv
<1>2. /\ op # NoClick /\ click' = [click EXCEPT ![c] = NoClick]
      /\ screen' = Shown(op)
      /\ fetch' = IF op.kind # "rule" THEN [fetch EXCEPT ![c] = Asked] ELSE fetch
      /\ UNCHANGED <<vars, hasty>>
  BY <1>1 DEF Answered, Refetches
<1>3. op \in Requests /\ op.kind # "create"
  BY <1>2 DEF TabInv, TabTyped
<1>4. \A d \in Calls : click'[d] = NoClick /\ click'[d].kind = "none"
  BY <1>2, OneClick, NoClickFacts DEF TabInv, TabTyped
<1>5. \A f \in Fetches : fetch[f] = NoFetch
  BY <1>2, OneClick
<1>6. \A f \in Fetches : fetch'[f].stage # "answered"
  BY <1>2, <1>5 DEF NoFetch, Asked, TabInv, TabTyped
<1>7. UNCHANGED <<rules, active, call, Enabled>>
  BY <1>2 DEF vars, rows, copies, Enabled
<1>8. (\A a \in Actors : ~Changing(a)') => \A d \in Calls : active'[PodOf[d]] \subseteq Enabled'
  BY <1>7 DEF RuleInv, Changing, Open
<1>9. CASE op.kind = "rule"
  <2>1. Written(c) /\ Matches(Marked(op))
    BY <1>1, <1>9 DEF RuleInv, Written
  <2>2. Matches(Shown(op).rules)
    <3> DEFINE new == Shown(op).rules
    <3>1. DOMAIN new = DOMAIN screen.rules
          /\ \A id \in DOMAIN screen.rules : new[id] = Marked(op)[id]
      BY <1>3, <1>9, ShownFacts DEF TabInv, Marked
    <3>2. DOMAIN Marked(op) = DOMAIN screen.rules
      BY DEF Marked
    <3> HIDE DEF new
    <3>3. Matches(new)
      BY <2>1, <3>1, <3>2 DEF Matches
    <3> QED
      BY <3>3 DEF new
  <2>3. Matches(screen.rules)'
    BY <1>2, <1>7, <2>2 DEF Matches
  <2> QED
    BY <1>4, <1>6, <1>8, <2>3 DEF RuleInv
<1>10. CASE op.kind # "rule"
  <2>1. c \in Fetches /\ fetch'[c] = Asked /\ Asked # NoFetch
    BY <1>2, <1>10 DEF Fetches, TabInv, TabTyped, Asked, NoFetch
  <2> QED
    BY <1>4, <1>6, <1>8, <2>1 DEF RuleInv
<1> QED
  BY <1>9, <1>10

\* The list that is served holds enabled rules, and so does the one shown.
LEMMA RuleFetch ==
  ASSUME TypeInv, QuietInv, TabInv, RuleInv, RulesOurs, FetchStep
  PROVE  RuleInv'
<1>1. UNCHANGED <<vars, click, hasty>>
  BY DEF FetchStep, ServeRules, ShowRules, ReloadPage
<1> SUFFICES ASSUME mishaps = {}, ~hasty
             PROVE  RuleInv'
  BY <1>1 DEF RuleInv, vars
<1>2. UNCHANGED <<rules, active, call, Enabled>>
  BY <1>1 DEF vars, rows, copies, Enabled
<1>3. (\A a \in Actors : ~Changing(a)') => \A d \in Calls : active'[PodOf[d]] \subseteq Enabled'
  BY <1>2 DEF RuleInv, Changing, Open
<1>4. ASSUME NEW f \in Fetches, fetch[f] # NoFetch
      PROVE  /\ \A d \in Calls : click[d] = NoClick /\ click[d].kind = "none"
             /\ \A g \in Fetches \ {f} : fetch[g] = NoFetch
             /\ \A a \in Actors : ~Changing(a)
  <2>1. \A d \in Calls : click[d] = NoClick
    BY <1>4 DEF TabInv, Single
  <2>2. \A g \in Fetches \ {f} : fetch[g] = NoFetch
    BY <1>4 DEF TabInv, Single
  <2>3. ASSUME NEW a \in Actors, Changing(a) PROVE FALSE
    <3>1. a \in Calls
      BY <2>3 DEF Changing, QuietInv, Open, Up, Rest, Actors
    <3>2. call[a].op \in Operations
      <4>1. Open(a) /\ call[a].op \in Requests
        BY <2>3, OpenBusy DEF Changing, TypeInv, CallsTyped, Shape
      <4> QED
        BY <2>1, <3>1, <4>1, NoClickFacts DEF TabInv, Tied
    <3> QED
      BY <2>1, <2>3, <3>2 DEF RulesOurs, Changing
  <2> QED
    BY <2>1, <2>2, <2>3, NoClickFacts
<1>5. ASSUME NEW f \in Fetches, ServeRules(f)
      PROVE  RuleInv'
  <2>1. PICK p \in {PodOf[c] : c \in Calls} :
          fetch' = [fetch EXCEPT ![f] = [stage |-> "answered", list |-> active[p]]]
    BY <1>5 DEF ServeRules
  <2>2. fetch[f] # NoFetch
    BY <1>5 DEF ServeRules, Asked, NoFetch
  <2>3. active[p] \subseteq Enabled
    BY <1>4, <2>2 DEF RuleInv
  <2>4. /\ fetch'[f].stage = "answered" /\ fetch'[f].list = active[p] /\ fetch'[f] # NoFetch
        /\ \A g \in Fetches \ {f} : fetch'[g] = NoFetch
    BY <1>4, <2>1, <2>2 DEF TabInv, TabTyped, NoFetch
  <2>5. \A g \in Fetches : fetch'[g].stage = "answered" => fetch'[g].list \subseteq Enabled'
    BY <1>2, <2>3, <2>4 DEF NoFetch
  <2>6. \A d \in Calls : click'[d].kind = "none"
    BY <1>1, <1>4, <2>2
  <2> QED
    BY <1>3, <2>4, <2>5, <2>6 DEF RuleInv
<1>6. ASSUME NEW f \in Fetches, ShowRules(f)
      PROVE  RuleInv'
  <2> DEFINE new == [id \in fetch[f].list |-> TRUE]
  <2>1. /\ fetch[f].stage = "answered"
        /\ screen' = [screen EXCEPT !.rules = new]
        /\ fetch' = [fetch EXCEPT ![f] = NoFetch]
    BY <1>6 DEF ShowRules
  <2>2. fetch[f].list \subseteq Enabled /\ fetch[f] # NoFetch
    BY <2>1 DEF RuleInv, NoFetch
  <2>3. DOMAIN new = fetch[f].list /\ \A id \in DOMAIN new : new[id] = TRUE
    OBVIOUS
  <2>4. screen = [mode |-> screen.mode, rules |-> screen.rules]
    BY DEF TabInv, TabTyped
  <2> HIDE DEF new
  <2>5. screen'.rules = new
    BY <2>1, <2>4
  <2>6. Matches(screen.rules)'
    BY <1>2, <2>2, <2>3, <2>5 DEF Matches, Enabled
  <2>7. \A g \in Fetches : fetch'[g] = NoFetch
    BY <1>4, <2>1, <2>2 DEF TabInv, TabTyped
  <2>8. \A g \in Fetches : fetch'[g].stage # "answered"
    BY <2>7 DEF NoFetch
  <2>9. \A d \in Calls : click'[d].kind = "none"
    BY <1>1, <1>4, <2>2
  <2> QED
    BY <1>3, <2>6, <2>8, <2>9 DEF RuleInv
<1>7. ASSUME ReloadPage
      PROVE  RuleInv'
  <2>1. ~Waiting /\ fetch' = [fetch EXCEPT !["page"] = Asked]
    BY <1>7 DEF ReloadPage
  <2>2. \A d \in Calls : click'[d].kind = "none"
    BY <1>1, <2>1, NoClickFacts DEF Waiting
  <2>3. /\ "page" \in Fetches /\ fetch'["page"] # NoFetch
        /\ \A f \in Fetches : fetch'[f].stage # "answered"
    BY <2>1 DEF Waiting, Fetches, TabInv, TabTyped, Asked, NoFetch
  <2> QED
    BY <1>3, <2>2, <2>3 DEF RuleInv
<1> QED
  BY <1>5, <1>6, <1>7 DEF FetchStep

\* A list that is asked for leaves the switches as they are.
LEMMA RuleRefetch ==
  ASSUME TabInv, RuleInv, Refetch
  PROVE  RuleInv'
<1>1. /\ fetch["page"] = NoFetch /\ fetch' = [fetch EXCEPT !["page"] = Asked]
      /\ hasty' = (hasty \/ Waiting) /\ UNCHANGED <<vars, screen, click>>
  BY DEF Refetch
<1> SUFFICES ASSUME mishaps = {}, ~hasty, ~Waiting
             PROVE  RuleInv'
  BY <1>1 DEF RuleInv, vars
<1>2. UNCHANGED <<rules, active, call, Enabled>>
  BY <1>1 DEF vars, rows, copies, Enabled
<1>3. (\A a \in Actors : ~Changing(a)') => \A d \in Calls : active'[PodOf[d]] \subseteq Enabled'
  BY <1>2 DEF RuleInv, Changing, Open
<1>4. \A d \in Calls : click'[d].kind = "none"
  BY <1>1, NoClickFacts DEF Waiting
<1>5. /\ "page" \in Fetches /\ fetch'["page"] # NoFetch
      /\ \A f \in Fetches : fetch'[f].stage # "answered"
  BY <1>1 DEF Waiting, Fetches, TabInv, TabTyped, Asked, NoFetch
<1> QED
  BY <1>3, <1>4, <1>5 DEF RuleInv

\* Every step keeps what is shown, and what will be, stored.
LEMMA RuleNext ==
  ASSUME OneServer, RulesOurs, TypeInv, FreshInv, QuietInv, QuietInv', TabInv, RuleInv, DashboardNext
  PROVE  RuleInv'
<1>1. ASSUME NEW c \in Calls, NEW op, TabClick(c, op)
      PROVE  RuleInv'
  <2>1. /\ Begin(c, op) /\ op \in Requests /\ click' = [click EXCEPT ![c] = op]
        /\ hasty' = (hasty \/ Waiting) /\ UNCHANGED <<screen, fetch>>
    BY <1>1 DEF TabClick, Click
  <2>2. click'[c] = op /\ \A d \in Calls \ {c} : click'[d] = click[d]
    BY <2>1 DEF TabInv, TabTyped
  <2> QED
    BY <2>1, <2>2, RuleBegin
<1>2. ASSUME NEW c \in Calls, NEW op \in Operations, Begin(c, op), UNCHANGED tab
      PROVE  RuleInv'
  <2>1. op \in Requests /\ op.kind # "seed" /\ UNCHANGED <<screen, fetch, hasty, click>>
    BY <1>2, ConfigAssumption DEF tab, RulesOurs
  <2> QED
    BY <1>2, <2>1, RuleBegin
<1>3. ASSUME NEW a \in Actors, CallStep(a), UNCHANGED tab
      PROVE  RuleInv'
  BY <1>3, RuleStep
<1>4. ASSUME NEW p \in Pods, Crash(p) \/ Start(p)
      PROVE  RuleInv'
  BY <1>4, QuietPods DEF RuleInv
<1> QED
  BY <1>1, <1>2, <1>3, <1>4, DashboardSteps, RuleAnswered, RuleFetch, RuleRefetch

\* The loaded page shows the seeded rules.
LEMMA RuleInit ==
  ASSUME DashboardInit
  PROVE  RuleInv
<1>1. Enabled = SeedRules /\ DOMAIN rules = SeedRules
  BY DEF DashboardInit, Init, Enabled, NewRow
<1>2. Matches(screen.rules)
  BY <1>1 DEF DashboardInit, Matches
<1>3. \A c \in Calls : click[c].kind = "none" /\ active[PodOf[c]] = SeedRules
  BY ConfigAssumption DEF DashboardInit, Init, NoClick
<1>4. \A f \in Fetches : fetch[f].stage = "none"
  BY DEF DashboardInit, NoFetch
<1> QED
  BY <1>1, <1>2, <1>3, <1>4 DEF RuleInv

\* Standing still changes nothing.
LEMMA RuleStutter ==
  ASSUME RuleInv, UNCHANGED dashboardVars
  PROVE  RuleInv'
<1>1. UNCHANGED <<rules, active, call, mishaps, screen, click, fetch, hasty, Enabled>>
  BY DEF dashboardVars, vars, tab, rows, copies, Enabled
<1>2. \A c \in Calls : UNCHANGED Marked(click[c])
  BY <1>1 DEF Marked
<1> QED
  BY <1>1, <1>2 DEF RuleInv, Matches, Written, Changing, Open

\* With one process behind the administration calls, and no other client that
\* resets the system or switches a rule: once everything was answered, with no
\* overlap, failure or hasty click so far, each switch on the screen shows
\* whether its rule is enabled in the table and enforced by the process.
THEOREM RulesShownHolds == OneServer /\ RulesOurs => (DashboardSpec => []RulesShown)
<1> SUFFICES ASSUME OneServer, RulesOurs PROVE DashboardSpec => []RulesShown
  OBVIOUS
<1>1. DashboardSpec => []CalmInv
  BY CalmInvHolds
<1>2. DashboardInit => RuleInv
  BY RuleInit
<1>3. CalmInv /\ CalmInv' /\ RuleInv /\ [DashboardNext]_dashboardVars => RuleInv'
  BY RuleNext, RuleStutter DEF CalmInv, ServedInv
<1>4. CalmInv /\ RuleInv => RulesShown
  <2> SUFFICES ASSUME CalmInv, RuleInv, Calm
               PROVE  \A id \in DOMAIN screen.rules :
                        /\ screen.rules[id] <=> id \in Enabled
                        /\ \A c \in Calls : screen.rules[id] <=> id \in active[PodOf[c]]
    BY DEF RulesShown
  <2>1. /\ mishaps = {} /\ ~hasty /\ \A a \in Actors : ~Open(a)
        /\ \A c \in Calls : click[c].kind = "none"
        /\ \A f \in Fetches : fetch[f] = NoFetch
    BY NoClickFacts DEF Calm, Waiting
  <2>2. Matches(screen.rules)
    BY <2>1 DEF RuleInv
  <2>3. \A c \in Calls : active[PodOf[c]] = Enabled
    BY <2>1 DEF CalmInv, QuietInv, Agreed
  <2> QED
    BY <2>2, <2>3 DEF Matches
<1> QED
  BY <1>1, <1>2, <1>3, <1>4, PTL DEF DashboardSpec

=============================================================================
