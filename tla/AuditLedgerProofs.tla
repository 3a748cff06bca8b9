-------------------------- MODULE AuditLedgerProofs --------------------------
(***************************************************************************)
(* Theorems about AuditLedger, for every set of requests, contents,        *)
(* callers and pods.                                                       *)
(***************************************************************************)
EXTENDS AuditLedger, TLAPS

-----------------------------------------------------------------------------
(* Typing and mutual exclusion: nothing is assumed of the constants. *)

\* The call works on a record it was given: record() and the recalculation.
Working(c) == pc[c] \notin {"idle", "verify"}

\* A call that is past its first database call.
Inside(c) == pc[c] \notin {"idle", "latest", "find", "verify"}

\* The request and content of a running call are the ones it was called with.
ArgsOK ==
  \A c \in Callers : Working(c) => loc[c].req \in Requests /\ loc[c].arg \in Contents

\* Only the head of the pod's Mutex is inside the ledger.
InsideHolds == \A c \in Callers : Inside(c) => Holds(c)

\* No two calls of one pod are inside the ledger together, through errors,
\* crashes and resets: AuditService's Mutex excludes them.
MutualExclusion ==
  \A c, d \in Callers : Inside(c) /\ Inside(d) /\ PodOf[c] = PodOf[d] => c = d

SafeInv == TypeOK /\ ArgsOK /\ InsideHolds

-----------------------------------------------------------------------------
(* The chain, with one pod and neither faults nor resets. *)

OnePod == \A c, d \in Callers : PodOf[c] = PodOf[d]

Good(q) == LinkOK(q) /\ SealOK(q)
AllGood == \A q \in Stored : Good(q)

\* The position and previous hash a record() is about to use.
NextPlace(l) ==
  \/ Stored = {} /\ l.pos = 0 /\ l.last = Genesis
  \/ \E q \in Stored : IsLatest(q) /\ l.pos = db[q].idx + 1 /\ l.last = db[q].hash

\* The new row is the last one, linked, and the only one not sealed yet.
RowFresh(l) ==
  /\ l.req \in Stored
  /\ db[l.req].idx = l.pos /\ db[l.req].prev = l.last
  /\ LinkOK(l.req)
  /\ \A q \in Stored \ {l.req} : Good(q) /\ db[q].idx < l.pos

\* The copy the recalculation works on agrees with the table, and every row
\* that is not in the copy any more is good and before all that still are.
CopyAgrees(todo) ==
  \A s \in todo : s.req \in Stored /\ db[s.req].idx = s.idx /\ db[s.req].content = s.content
DoneGood(todo) ==
  \A q \in Stored : \/ \E s \in todo : s.req = q
                    \/ Good(q) /\ \A s \in todo : db[q].idx < s.idx

\* h is the hash the next row of the copy must be chained to.
ChainsTo(h, todo) ==
  \A s \in todo : IsNext(s, todo) =>
    \/ s.idx = 0 /\ h = Genesis
    \/ \E p \in Stored : db[p].idx = s.idx - 1 /\ db[p].hash = h

CallInv(c) ==
  LET l == loc[c] IN
  /\ pc[c] = "create" => AllGood /\ NextPlace(l)
  /\ pc[c] = "reload" => RowFresh(l)
  /\ pc[c] = "seal" => /\ RowFresh(l)
                       /\ l.hashed = Hash(l.last, l.req, db[l.req].content, l.pos)
  /\ pc[c] = "link" => AllGood
  /\ pc[c] = "write" => AllGood /\ l.req \in Stored /\ l.pos = db[l.req].idx
  /\ pc[c] = "load" => /\ l.req \in Stored /\ l.pos = db[l.req].idx
                       /\ \A q \in Stored \ {l.req} : Good(q)
                       /\ LinkOK(l.req)
  /\ pc[c] = "prev" => /\ CopyAgrees(l.todo) /\ DoneGood(l.todo)
                       /\ l.pos # 0 /\ \A s \in l.todo : IsNext(s, l.todo) => s.idx = l.pos
  /\ pc[c] = "loop" => CopyAgrees(l.todo) /\ DoneGood(l.todo) /\ ChainsTo(l.last, l.todo)
  /\ pc[c] \in {"findprev", "next"} =>
       CopyAgrees(l.todo) /\ DoneGood(l.todo) /\ ChainsTo(l.hashed, l.todo)
  /\ pc[c] = "next" => l.ref \in Stored

ChainInv ==
  /\ NoFalseAlarm /\ IndexUnique /\ IndexDense
  /\ (\A c \in Callers : ~Inside(c)) => AllGood
  /\ \A c \in Callers : Inside(c) => CallInv(c)

-----------------------------------------------------------------------------
(* Typing lemmas *)

\* The call bookkeeping alone, which Acquire, Goto and Release maintain.
CallsOK ==
  /\ mutex \in [Pods -> Seq(Callers)]
  /\ pc \in [Callers -> Labels]
  /\ loc \in [Callers -> Locals]
  /\ ArgsOK /\ InsideHolds

\* A hash is a hash value: calculateSHA256 extends its input.
LEMMA HashType ==
  ASSUME NEW prev \in Hashes, NEW r \in Requests,
         NEW x \in Contents \cup {None}, NEW i \in Nat
  PROVE  Hash(prev, r, x, i) \in Hashes
  BY DEF Hash, Hashes, Link

\* The blank locals of an idle call are typed.
LEMMA BlankType == Blank \in Locals
  BY DEF Blank, Locals, Genesis, Hashes

\* Appending to a queue keeps its head.
LEMMA HeadAppend ==
  ASSUME NEW S, NEW s \in Seq(S), NEW e \in S, s # <<>>
  PROVE  Append(s, e) # <<>> /\ Head(Append(s, e)) = Head(s)
<1>1. Len(s) \in Nat /\ Len(s) > 0 /\ Head(s) = s[1]
  OBVIOUS
<1>2. Len(Append(s, e)) = Len(s) + 1 /\ Append(s, e)[1] = s[1]
  BY <1>1
<1>3. Append(s, e) \in Seq(S)
  OBVIOUS
<1> QED
  BY <1>1, <1>2, <1>3

\* Queueing on the Mutex disturbs no call that is inside.
LEMMA AcquireSafe ==
  ASSUME SafeInv, NEW c \in Callers, NEW label \in Labels, NEW l \in Locals,
         label \in {"latest", "find", "verify"},
         label # "verify" => l.req \in Requests /\ l.arg \in Contents,
         Acquire(c, label, l)
  PROVE  CallsOK'
<1> USE DEF SafeInv, TypeOK
<1> DEFINE n == PodOf[c]
<1>1. n \in Pods
  BY ConstantsAssumption
<1>2. mutex' \in [Pods -> Seq(Callers)]
  BY <1>1 DEF Acquire
<1>3. pc' \in [Callers -> Labels] /\ loc' \in [Callers -> Locals]
  BY DEF Acquire
<1>4. ArgsOK'
  BY DEF ArgsOK, Working, Acquire
<1>5. InsideHolds'
  <2> SUFFICES ASSUME NEW d \in Callers, Inside(d)' PROVE Holds(d)'
    BY DEF InsideHolds
  <2>1. Inside(d)
    BY DEF Inside, Acquire
  <2>2. Holds(d)
    BY <2>1 DEF InsideHolds
  <2>3. PodOf[d] \in Pods /\ mutex[PodOf[d]] \in Seq(Callers)
    BY ConstantsAssumption
  <2>4. CASE PodOf[d] = n
    <3>1. mutex'[n] = Append(mutex[n], c)
      BY <1>1 DEF Acquire
    <3>2. mutex[n] \in Seq(Callers) /\ mutex[n] # <<>> /\ Head(mutex[n]) = d
      BY <2>2, <2>3, <2>4 DEF Holds
    <3>3. Append(mutex[n], c) # <<>> /\ Head(Append(mutex[n], c)) = d
      BY <3>2, HeadAppend
    <3> QED
      BY <2>4, <3>1, <3>3 DEF Holds
  <2>5. CASE PodOf[d] # n
    BY <2>2, <2>3, <2>5 DEF Holds, Acquire
  <2> QED
    BY <2>4, <2>5
<1> QED
  BY <1>2, <1>3, <1>4, <1>5 DEF CallsOK

\* The holder's next step keeps it the holder.
LEMMA GotoSafe ==
  ASSUME SafeInv, NEW c \in Callers, NEW label \in Labels, NEW l \in Locals,
         Holds(c), l.req \in Requests, l.arg \in Contents,
         Goto(c, label, l)
  PROVE  CallsOK'
<1> USE DEF SafeInv, TypeOK, Goto
<1>1. mutex' \in [Pods -> Seq(Callers)]
  OBVIOUS
<1>2. pc' \in [Callers -> Labels] /\ loc' \in [Callers -> Locals]
  OBVIOUS
<1>3. ArgsOK'
  BY DEF ArgsOK, Working
<1>4. InsideHolds'
  BY DEF InsideHolds, Inside, Holds
<1> QED
  BY <1>1, <1>2, <1>3, <1>4 DEF CallsOK

\* Releasing hands the Mutex on; no other call of the pod was inside.
LEMMA ReleaseSafe ==
  ASSUME SafeInv, NEW c \in Callers, Holds(c), Release(c)
  PROVE  CallsOK'
<1> USE DEF SafeInv, TypeOK, Release
<1>1. mutex' \in [Pods -> Seq(Callers)]
  <2>1. PodOf[c] \in Pods /\ mutex[PodOf[c]] \in Seq(Callers) /\ mutex[PodOf[c]] # <<>>
    BY ConstantsAssumption DEF Holds
  <2>2. Tail(mutex[PodOf[c]]) \in Seq(Callers)
    BY <2>1
  <2> QED
    BY <2>1, <2>2
<1>2. pc' \in [Callers -> Labels] /\ loc' \in [Callers -> Locals]
  BY BlankType DEF Labels
<1>3. ArgsOK'
  BY DEF ArgsOK, Working
<1>4. InsideHolds'
  <2> SUFFICES ASSUME NEW d \in Callers, Inside(d)' PROVE Holds(d)'
    BY DEF InsideHolds
  <2>1. d # c /\ Inside(d)
    BY DEF Inside
  <2>2. Holds(d)
    BY <2>1 DEF InsideHolds
  <2>3. PodOf[d] # PodOf[c]
    BY <2>1, <2>2 DEF Holds
  <2> QED
    BY <2>2, <2>3, ConstantsAssumption DEF Holds
<1> QED
  BY <1>1, <1>2, <1>3, <1>4 DEF CallsOK

\* The tables and counters beside the calls.
StoreOK ==
  /\ Stored \subseteq Requests /\ db \in [Stored -> Row]
  /\ verdict \in {"none", "verified", "broken"}
  /\ purged \in SUBSET Requests
  /\ faults \in 0..MaxFaults
  /\ resets \in 0..MaxResets

\* Both halves together are the invariant.
LEMMA Halves == CallsOK /\ StoreOK <=> SafeInv
  BY DEF CallsOK, StoreOK, SafeInv, TypeOK

\* A call that throws leaves the table alone.
LEMMA ThrowSafe ==
  ASSUME SafeInv, NEW c \in Callers, Holds(c), Throw(c)
  PROVE  CallsOK' /\ StoreOK'
<1>1. CallsOK'
  BY ReleaseSafe DEF Throw
<1>2. StoreOK'
  BY Halves DEF StoreOK, Throw, envVars, Stored
<1> QED
  BY <1>1, <1>2

\* Updating a stored row keeps the table's shape.
LEMMA UpdateType ==
  ASSUME SafeInv, NEW r \in Stored, NEW row \in Row, UpdateRow(r, row)
  PROVE  Stored' = Stored /\ db' \in [Stored -> Row]
  BY DEF SafeInv, TypeOK, Stored, UpdateRow

\* The invariant holds of an empty table and idle callers.
LEMMA SafeInit == Init => SafeInv
<1> SUFFICES ASSUME Init PROVE SafeInv
  OBVIOUS
<1>1. TypeOK
  BY BlankType, ConstantsAssumption DEF Init, TypeOK, Stored, Labels
<1>2. ArgsOK /\ InsideHolds
  BY DEF Init, ArgsOK, InsideHolds, Working, Inside
<1> QED
  BY <1>1, <1>2 DEF SafeInv

\* Starting a call only queues it.
LEMMA StartSafe ==
  ASSUME SafeInv, NEW c \in Callers, Start(c)
  PROVE  CallsOK' /\ StoreOK'
<1>1. ASSUME NEW label, NEW l, Acquire(c, label, l)  PROVE StoreOK'
  BY <1>1, Halves DEF StoreOK, Acquire, envVars, Stored
<1>2. ASSUME NEW r \in Requests, NEW x \in Contents, StartRecord(c, r, x)
      PROVE  CallsOK' /\ StoreOK'
  <2> DEFINE l == [Blank EXCEPT !.req = r, !.arg = x]
  <2>1. l \in Locals /\ l.req = r /\ l.arg = x
    BY BlankType DEF Locals
  <2>2. Acquire(c, "latest", l)
    BY <1>2 DEF StartRecord
  <2> HIDE DEF l
  <2> QED
    BY <1>1, <2>1, <2>2, AcquireSafe DEF Labels
<1>3. ASSUME NEW r \in Requests, NEW x \in Contents, StartUpdate(c, r, x)
      PROVE  CallsOK' /\ StoreOK'
  <2> DEFINE l == [Blank EXCEPT !.req = r, !.arg = x]
  <2>1. l \in Locals /\ l.req = r /\ l.arg = x
    BY BlankType DEF Locals
  <2>2. Acquire(c, "find", l)
    BY <1>3 DEF StartUpdate
  <2> HIDE DEF l
  <2> QED
    BY <1>1, <2>1, <2>2, AcquireSafe DEF Labels
<1>4. CASE StartVerify(c)
  BY <1>1, <1>4, BlankType, AcquireSafe DEF StartVerify, Labels
<1> QED
  BY <1>2, <1>3, <1>4 DEF Start

\* A database call of the holder that only moves the call on.
LEMMA ReadSafe ==
  ASSUME SafeInv, NEW c \in Callers, NEW label \in Labels, NEW l \in Locals,
         Holds(c), l.req \in Requests, l.arg \in Contents,
         Goto(c, label, l), UNCHANGED <<db, verdict, envVars>>
  PROVE  CallsOK' /\ StoreOK'
<1>1. CallsOK'
  BY GotoSafe
<1>2. StoreOK'
  BY Halves DEF StoreOK, envVars, Stored
<1> QED
  BY <1>1, <1>2

\* A database call of the holder that writes a row, and what follows it.
LEMMA WriteSafe ==
  ASSUME SafeInv, NEW c \in Callers, NEW r \in Stored, NEW row \in Row,
         UpdateRow(r, row), UNCHANGED <<verdict, envVars>>,
         CallsOK'
  PROVE  CallsOK' /\ StoreOK'
  BY Halves, UpdateType DEF StoreOK, envVars

\* Each step of record() keeps the invariant.
LEMMA RecordSafe ==
  ASSUME SafeInv, NEW c \in Callers,
         FindLatest(c) \/ Create(c) \/ Reload(c) \/ Seal(c) \/ LinkPrevious(c)
  PROVE  CallsOK' /\ StoreOK'
<1> DEFINE l == loc[c]
<1>0. CallsOK /\ StoreOK /\ l \in Locals
  BY Halves DEF CallsOK
<1>1. Working(c) => l.req \in Requests /\ l.arg \in Contents
  BY <1>0 DEF CallsOK, ArgsOK
<1>2. CASE FindLatest(c)
  <2>1. Holds(c) /\ Working(c)
    BY <1>2 DEF FindLatest, At, Working
  <2>2. CASE Goto(c, "create", [l EXCEPT !.pos = 0, !.last = Genesis])
    <3> DEFINE m == [l EXCEPT !.pos = 0, !.last = Genesis]
    <3>1. Genesis \in Hashes
      BY DEF Genesis, Hashes
    <3>2. m \in Locals /\ m.req = l.req /\ m.arg = l.arg
      BY <1>0, <3>1 DEF Locals
    <3>3. Goto(c, "create", m) /\ UNCHANGED <<db, verdict, envVars>>
      BY <1>2, <2>2 DEF FindLatest
    <3> HIDE DEF m
    <3> QED
      BY <1>1, <2>1, <3>2, <3>3, ReadSafe DEF Labels
  <2>3. ASSUME NEW q \in Stored,
               Goto(c, "create", [l EXCEPT !.pos = db[q].idx + 1,
                                           !.last = db[q].hash, !.ref = q])
        PROVE  CallsOK' /\ StoreOK'
    <3> DEFINE m == [l EXCEPT !.pos = db[q].idx + 1, !.last = db[q].hash, !.ref = q]
    <3>1. q \in Requests /\ db[q].idx + 1 \in Nat /\ db[q].hash \in Hashes
      <4>1. q \in Requests /\ db[q] \in Row
        BY <1>0 DEF StoreOK
      <4> QED
        BY <4>1 DEF Row
    <3>2. m \in Locals /\ m.req = l.req /\ m.arg = l.arg
      BY <1>0, <3>1 DEF Locals
    <3>3. Goto(c, "create", m) /\ UNCHANGED <<db, verdict, envVars>>
      BY <1>2, <2>3 DEF FindLatest
    <3> HIDE DEF m
    <3> QED
      BY <1>1, <2>1, <3>2, <3>3, ReadSafe DEF Labels
  <2> QED
    BY <1>2, <2>2, <2>3 DEF FindLatest
<1>3. CASE Create(c)
  <2>1. Holds(c) /\ Working(c)
    BY <1>3 DEF Create, At, Working
  <2>2. CASE Throw(c)
    BY <2>1, <2>2, ThrowSafe
  <2>3. CASE ~Throw(c)
    <3>1. /\ l.req \notin Stored
          /\ db' = [q \in Stored \cup {l.req} |->
                      IF q = l.req
                      THEN [content |-> l.arg, idx |-> l.pos, prev |-> l.last,
                            hash |-> TempHash(q), next |-> Genesis]
                      ELSE db[q]]
          /\ Goto(c, "reload", l)
          /\ UNCHANGED <<verdict, envVars>>
      BY <1>3, <2>3 DEF Create
    <3>2. TempHash(l.req) \in Hashes /\ Genesis \in Hashes
      BY <1>1, <2>1 DEF TempHash, Genesis, Hashes, Link
    <3>3. Stored' \subseteq Requests /\ db' \in [Stored' -> Row]
      BY <1>0, <1>1, <2>1, <3>1, <3>2 DEF StoreOK, Row, Stored, Locals
    <3>4. CallsOK'
      BY <1>0, <1>1, <2>1, <3>1, GotoSafe DEF Labels
    <3> QED
      BY <1>0, <3>1, <3>3, <3>4 DEF StoreOK, envVars
  <2> QED
    BY <2>2, <2>3
<1>4. CASE Reload(c)
  <2>1. Holds(c) /\ Working(c)
    BY <1>4 DEF Reload, At, Working
  <2>2. CASE Throw(c)
    BY <2>1, <2>2, ThrowSafe
  <2>3. CASE ~Throw(c)
    <3> DEFINE m == [l EXCEPT !.hashed = Hash(l.last, l.req, db[l.req].content, l.pos)]
    <3>1. /\ l.req \in Stored
          /\ Goto(c, "seal", m) /\ UNCHANGED <<db, verdict, envVars>>
      BY <1>4, <2>3 DEF Reload
    <3>2. l.last \in Hashes /\ l.pos \in Nat /\ db[l.req].content \in Contents
      BY <1>0, <3>1 DEF StoreOK, Row, Locals
    <3>3. Hash(l.last, l.req, db[l.req].content, l.pos) \in Hashes
      BY <1>1, <2>1, <3>2, HashType
    <3>4. m \in Locals /\ m.req = l.req /\ m.arg = l.arg
      BY <1>0, <3>3 DEF Locals
    <3> HIDE DEF m
    <3> QED
      BY <1>1, <2>1, <3>1, <3>4, ReadSafe DEF Labels
  <2> QED
    BY <2>2, <2>3
<1>5. CASE Seal(c)
  <2>1. Holds(c) /\ Working(c)
    BY <1>5 DEF Seal, At, Working
  <2>2. CASE Throw(c)
    BY <2>1, <2>2, ThrowSafe
  <2>3. CASE ~Throw(c)
    <3> DEFINE row == [db[l.req] EXCEPT !.hash = l.hashed]
    <3>1. /\ l.req \in Stored /\ UpdateRow(l.req, row)
          /\ Release(c) \/ Goto(c, "link", l)
          /\ UNCHANGED <<verdict, envVars>>
      BY <1>5, <2>3 DEF Seal
    <3>2. row \in Row
      BY <1>0, <3>1 DEF StoreOK, Row, Locals
    <3>3. CallsOK'
      BY <1>0, <1>1, <2>1, <3>1, GotoSafe, ReleaseSafe DEF Labels
    <3> QED
      BY <3>1, <3>2, <3>3, WriteSafe
  <2> QED
    BY <2>2, <2>3
<1>6. CASE LinkPrevious(c)
  <2>1. Holds(c)
    BY <1>6 DEF LinkPrevious, At
  <2>2. CASE Throw(c)
    BY <2>1, <2>2, ThrowSafe
  <2>3. CASE ~Throw(c)
    <3> DEFINE row == [db[l.ref] EXCEPT !.next = l.hashed]
    <3>1. /\ l.ref \in Stored /\ UpdateRow(l.ref, row)
          /\ Release(c) /\ UNCHANGED <<verdict, envVars>>
      BY <1>6, <2>3 DEF LinkPrevious
    <3>2. row \in Row
      BY <1>0, <3>1 DEF StoreOK, Row, Locals
    <3> QED
      BY <2>1, <3>1, <3>2, ReleaseSafe, WriteSafe
  <2> QED
    BY <2>2, <2>3
<1> QED
  BY <1>2, <1>3, <1>4, <1>5, <1>6

\* Each step of updateRecordAndRecalculate() up to its loop keeps it.
LEMMA AmendSafe ==
  ASSUME SafeInv, NEW c \in Callers,
         FindRecord(c) \/ WriteContent(c) \/ LoadSuffix(c) \/ ReadPredecessor(c)
  PROVE  CallsOK' /\ StoreOK'
<1> DEFINE l == loc[c]
<1>0. CallsOK /\ StoreOK /\ l \in Locals
  BY Halves DEF CallsOK
<1>1. Working(c) => l.req \in Requests /\ l.arg \in Contents
  BY <1>0 DEF CallsOK, ArgsOK
<1>2. CASE FindRecord(c)
  <2>1. Holds(c) /\ Working(c)
    BY <1>2 DEF FindRecord, At, Working
  <2>2. CASE Throw(c)
    BY <2>1, <2>2, ThrowSafe
  <2>3. CASE ~Throw(c)
    <3> DEFINE m == [l EXCEPT !.pos = db[l.req].idx]
    <3>1. /\ l.req \in Stored
          /\ Goto(c, "write", m) /\ UNCHANGED <<db, verdict, envVars>>
      BY <1>2, <2>3 DEF FindRecord
    <3>2. db[l.req].idx \in Nat
      BY <1>0, <3>1 DEF StoreOK, Row
    <3>3. m \in Locals /\ m.req = l.req /\ m.arg = l.arg
      BY <1>0, <3>2 DEF Locals
    <3> HIDE DEF m
    <3> QED
      BY <1>1, <2>1, <3>1, <3>3, ReadSafe DEF Labels
  <2> QED
    BY <2>2, <2>3
<1>3. CASE WriteContent(c)
  <2>1. Holds(c) /\ Working(c)
    BY <1>3 DEF WriteContent, At, Working
  <2>2. CASE Throw(c)
    BY <2>1, <2>2, ThrowSafe
  <2>3. CASE ~Throw(c)
    <3> DEFINE row == [db[l.req] EXCEPT !.content = l.arg]
    <3>1. /\ l.req \in Stored /\ UpdateRow(l.req, row)
          /\ Goto(c, "load", l) /\ UNCHANGED <<verdict, envVars>>
      BY <1>3, <2>3 DEF WriteContent
    <3>2. row \in Row
      BY <1>0, <1>1, <2>1, <3>1 DEF StoreOK, Row, Locals
    <3>3. CallsOK'
      BY <1>0, <1>1, <2>1, <3>1, GotoSafe DEF Labels
    <3> QED
      BY <3>1, <3>2, <3>3, WriteSafe
  <2> QED
    BY <2>2, <2>3
<1>4. CASE LoadSuffix(c)
  <2>1. Holds(c) /\ Working(c)
    BY <1>4 DEF LoadSuffix, At, Working
  <2> DEFINE copy(q) == [req |-> q, idx |-> db[q].idx, content |-> db[q].content]
             todo == {copy(q) : q \in {s \in Stored : db[s].idx >= l.pos}}
             m == [l EXCEPT !.todo = todo, !.last = Genesis]
  <2>2. ASSUME NEW q \in Stored PROVE copy(q) \in Snapshot
    <3>1. q \in Requests /\ db[q] \in Row
      BY <1>0 DEF StoreOK
    <3> QED
      BY <3>1 DEF Row, Snapshot
  <2>3. todo \in SUBSET Snapshot
    BY <2>2
  <2>4. Goto(c, IF l.pos = 0 THEN "loop" ELSE "prev", m) /\ UNCHANGED <<db, verdict, envVars>>
    BY <1>4 DEF LoadSuffix
  <2>0. Genesis \in Hashes
    BY DEF Genesis, Hashes
  <2> HIDE DEF todo
  <2>5. m \in Locals /\ m.req = l.req /\ m.arg = l.arg
    BY <1>0, <2>0, <2>3 DEF Locals
  <2> HIDE DEF m
  <2> QED
    BY <1>1, <2>1, <2>4, <2>5, ReadSafe DEF Labels
<1>5. CASE ReadPredecessor(c)
  <2>1. Holds(c) /\ Working(c)
    BY <1>5 DEF ReadPredecessor, At, Working
  <2>2. PICK h \in Hashes : Goto(c, "loop", [l EXCEPT !.last = h])
    <3>1. Genesis \in Hashes
      BY DEF Genesis, Hashes
    <3>2. \A q \in Stored : db[q].hash \in Hashes
      BY <1>0 DEF StoreOK, Row
    <3> QED
      BY <1>5, <3>1, <3>2 DEF ReadPredecessor
  <2> DEFINE m == [l EXCEPT !.last = h]
  <2>3. m \in Locals /\ m.req = l.req /\ m.arg = l.arg
    BY <1>0 DEF Locals
  <2>4. Goto(c, "loop", m) /\ UNCHANGED <<db, verdict, envVars>>
    BY <1>5, <2>2 DEF ReadPredecessor
  <2> HIDE DEF m
  <2> QED
    BY <1>1, <2>1, <2>3, <2>4, ReadSafe DEF Labels
<1> QED
  BY <1>2, <1>3, <1>4, <1>5

\* Each step of the recalculation loop keeps it.
LEMMA LoopSafe ==
  ASSUME SafeInv, NEW c \in Callers,
         Rehash(c) \/ FindByHash(c) \/ LinkNext(c) \/ Finish(c)
  PROVE  CallsOK' /\ StoreOK'
<1> DEFINE l == loc[c]
<1>0. CallsOK /\ StoreOK /\ l \in Locals
  BY Halves DEF CallsOK
<1>1. Working(c) => l.req \in Requests /\ l.arg \in Contents
  BY <1>0 DEF CallsOK, ArgsOK
<1>2. CASE Rehash(c)
  <2>1. Holds(c) /\ Working(c)
    BY <1>2 DEF Rehash, At, Working
  <2>2. CASE Throw(c)
    BY <2>1, <2>2, ThrowSafe
  <2>3. CASE ~Throw(c)
    <3>1. PICK s \in l.todo :
            LET h == Hash(l.last, s.req, s.content, s.idx) IN
            /\ s.req \in Stored
            /\ UpdateRow(s.req, [db[s.req] EXCEPT !.prev = l.last, !.hash = h])
            /\ IF l.last = Genesis
               THEN Goto(c, "loop", [l EXCEPT !.todo = @ \ {s}, !.last = h])
               ELSE Goto(c, "findprev", [l EXCEPT !.todo = @ \ {s}, !.hashed = h])
            /\ UNCHANGED <<verdict, envVars>>
      BY <1>2, <2>3 DEF Rehash
    <3> DEFINE h == Hash(l.last, s.req, s.content, s.idx)
               row == [db[s.req] EXCEPT !.prev = l.last, !.hash = h]
               m == [l EXCEPT !.todo = @ \ {s}, !.last = h]
               k == [l EXCEPT !.todo = @ \ {s}, !.hashed = h]
    <3>2. s \in Snapshot /\ l.last \in Hashes
      BY <1>0, <3>1 DEF Locals
    <3>3. h \in Hashes
      BY <3>2, HashType DEF Snapshot
    <3>4. UpdateRow(s.req, row) /\ (Goto(c, "loop", m) \/ Goto(c, "findprev", k))
      BY <3>1
    <3> HIDE DEF h
    <3>5. row \in Row
      BY <1>0, <3>1, <3>2, <3>3 DEF StoreOK, Row
    <3>6. /\ m \in Locals /\ m.req = l.req /\ m.arg = l.arg
          /\ k \in Locals /\ k.req = l.req /\ k.arg = l.arg
      BY <1>0, <3>3 DEF Locals
    <3> HIDE DEF row, m, k
    <3>7. CallsOK'
      BY <1>1, <2>1, <3>4, <3>6, GotoSafe DEF Labels
    <3> QED
      BY <3>1, <3>4, <3>5, <3>7, WriteSafe
  <2> QED
    BY <2>2, <2>3
<1>3. CASE FindByHash(c)
  <2>1. Holds(c) /\ Working(c)
    BY <1>3 DEF FindByHash, At, Working
  <2> DEFINE m == [l EXCEPT !.last = l.hashed]
             k(q) == [l EXCEPT !.ref = q]
  <2>2. m \in Locals /\ m.req = l.req /\ m.arg = l.arg
    BY <1>0 DEF Locals
  <2>3. ASSUME NEW q \in Stored
        PROVE  k(q) \in Locals /\ k(q).req = l.req /\ k(q).arg = l.arg
    BY <1>0 DEF Locals, StoreOK
  <2>4. /\ Goto(c, "loop", m) \/ \E q \in Stored : Goto(c, "next", k(q))
        /\ UNCHANGED <<db, verdict, envVars>>
    BY <1>3 DEF FindByHash
  <2> HIDE DEF m, k
  <2> QED
    BY <1>1, <2>1, <2>2, <2>3, <2>4, ReadSafe DEF Labels
<1>4. CASE LinkNext(c)
  <2>1. Holds(c) /\ Working(c)
    BY <1>4 DEF LinkNext, At, Working
  <2>2. CASE Throw(c)
    BY <2>1, <2>2, ThrowSafe
  <2>3. CASE ~Throw(c)
    <3> DEFINE row == [db[l.ref] EXCEPT !.next = l.hashed]
               m == [l EXCEPT !.last = l.hashed]
    <3>1. /\ l.ref \in Stored /\ UpdateRow(l.ref, row)
          /\ Goto(c, "loop", m) /\ UNCHANGED <<verdict, envVars>>
      BY <1>4, <2>3 DEF LinkNext
    <3>2. row \in Row
      BY <1>0, <3>1 DEF StoreOK, Row, Locals
    <3>3. m \in Locals /\ m.req = l.req /\ m.arg = l.arg
      BY <1>0 DEF Locals
    <3> HIDE DEF row, m
    <3>4. CallsOK'
      BY <1>1, <2>1, <3>1, <3>3, GotoSafe DEF Labels
    <3> QED
      BY <3>1, <3>2, <3>4, WriteSafe
  <2> QED
    BY <2>2, <2>3
<1>5. CASE Finish(c)
  BY <1>5, ThrowSafe DEF Finish, At
<1> QED
  BY <1>2, <1>3, <1>4, <1>5

\* So does every step of the system.
LEMMA SafeStep == SafeInv /\ [Next]_vars => SafeInv'
<1> SUFFICES ASSUME SafeInv, [Next]_vars PROVE CallsOK' /\ StoreOK'
  BY DEF CallsOK, StoreOK, SafeInv, TypeOK
<1>0. CallsOK /\ StoreOK
  BY Halves
<1>1. ASSUME NEW c \in Callers, Start(c) PROVE CallsOK' /\ StoreOK'
  BY <1>1, StartSafe
<1>2. ASSUME NEW c \in Callers, Step(c) PROVE CallsOK' /\ StoreOK'
  <2>1. CASE Verify(c)
    BY <1>0, <2>1, ReleaseSafe DEF Verify, At, StoreOK, envVars, Stored
  <2> QED
    BY <1>2, <2>1, RecordSafe, AmendSafe, LoopSafe DEF Step
<1>3. ASSUME NEW c \in Callers, DbError(c) PROVE CallsOK' /\ StoreOK'
  <2>1. CallsOK'
    BY <1>3, ReleaseSafe DEF DbError
  <2>2. faults + 1 \in 0..MaxFaults
    BY <1>0, <1>3, ConstantsAssumption DEF DbError, StoreOK
  <2> QED
    BY <1>0, <1>3, <2>1, <2>2 DEF DbError, StoreOK, Stored
<1>4. ASSUME NEW n \in Pods, Crash(n) PROVE CallsOK' /\ StoreOK'
  <2>1. faults + 1 \in 0..MaxFaults
    BY <1>0, <1>4, ConstantsAssumption DEF Crash, StoreOK
  <2>2. StoreOK'
    BY <1>0, <1>4, <2>1 DEF Crash, StoreOK, Stored
  <2>3. /\ mutex' \in [Pods -> Seq(Callers)]
        /\ pc' \in [Callers -> Labels]
        /\ loc' \in [Callers -> Locals]
    BY <1>0, <1>4, BlankType DEF Crash, CallsOK, Labels
  <2>4. ArgsOK'
    BY <1>0, <1>4 DEF Crash, CallsOK, ArgsOK, Working
  <2>5. InsideHolds'
    BY <1>0, <1>4, ConstantsAssumption DEF Crash, CallsOK, InsideHolds, Inside, Holds
  <2> QED
    BY <2>2, <2>3, <2>4, <2>5 DEF CallsOK
<1>5. CASE Reset
  <2>1. resets + 1 \in 0..MaxResets
    BY <1>0, <1>5, ConstantsAssumption DEF Reset, StoreOK
  <2>2. StoreOK'
    BY <1>0, <1>5, <2>1 DEF Reset, StoreOK, Stored
  <2>3. CallsOK'
    BY <1>0, <1>5 DEF Reset, CallsOK, ArgsOK, InsideHolds, Working, Inside, Holds
  <2> QED
    BY <2>2, <2>3
<1>6. CASE UNCHANGED vars
  BY <1>0, <1>6 DEF vars, envVars, CallsOK, StoreOK, ArgsOK, InsideHolds,
                   Working, Inside, Holds, Stored
<1> QED
  BY <1>1, <1>2, <1>3, <1>4, <1>5, <1>6 DEF Next

\* Whatever the calls, errors, crashes and resets, every variable has its type.
THEOREM TypeCorrect == Spec => []TypeOK
<1>1. SafeInv => TypeOK
  BY DEF SafeInv
<1> QED
  BY <1>1, SafeInit, SafeStep, PTL DEF Spec

\* AuditService's Mutex never lets two calls of one process into the ledger,
\* for any number of pods and calls, and through errors, crashes and resets.
THEOREM MutexExcludes == Spec => []MutualExclusion
<1>1. SafeInv => MutualExclusion
  BY DEF SafeInv, InsideHolds, MutualExclusion, Holds
<1> QED
  BY <1>1, SafeInit, SafeStep, PTL DEF Spec

-----------------------------------------------------------------------------
(* The chain with one pod, no faults and no resets *)

\* A step that writes no chainIndex keeps the indices unique and dense.
LEMMA SameIndices ==
  ASSUME IndexUnique, IndexDense, Stored' = Stored,
         \A q \in Stored : db'[q].idx = db[q].idx
  PROVE  IndexUnique' /\ IndexDense'
  BY DEF IndexUnique, IndexDense

\* A row whose columns, and whose predecessor's hash, are kept stays good.
LEMMA SameLink ==
  ASSUME NEW q \in Stored, LinkOK(q), Stored \subseteq Stored',
         db'[q].idx = db[q].idx, db'[q].prev = db[q].prev,
         \A p \in Stored : db[p].idx = db[q].idx - 1 =>
           db'[p].idx = db[p].idx /\ db'[p].hash = db[p].hash
  PROVE  LinkOK(q)'
  BY DEF LinkOK

\* A row whose hashed columns and hash are kept stays sealed.
LEMMA SameSeal ==
  ASSUME NEW q \in Stored, SealOK(q),
         db'[q].idx = db[q].idx, db'[q].prev = db[q].prev,
         db'[q].content = db[q].content, db'[q].hash = db[q].hash
  PROVE  SealOK(q)'
  BY DEF SealOK

\* What the hash-chained columns are untouched by keeps every row good.
LEMMA SameGood ==
  ASSUME Stored' = Stored,
         \A q \in Stored : /\ db'[q].idx = db[q].idx /\ db'[q].prev = db[q].prev
                            /\ db'[q].content = db[q].content /\ db'[q].hash = db[q].hash,
         NEW q \in Stored, Good(q)
  PROVE  Good(q)'
  BY SameLink, SameSeal DEF Good

\* A call that has the Mutex but is not inside yet, or verifies, sees a good chain.
LEMMA HolderSees ==
  ASSUME SafeInv, ChainInv, OnePod, NEW c \in Callers, Holds(c), ~Inside(c)
  PROVE  AllGood
<1>1. \A d \in Callers : ~Inside(d)
  BY DEF SafeInv, InsideHolds, OnePod, Holds
<1> QED
  BY <1>1 DEF ChainInv

\* After a step of the holder, only its own part of the invariant is at stake.
LEMMA HolderStep ==
  ASSUME SafeInv, ChainInv, OnePod, NEW c \in Callers, Holds(c),
         \A d \in Callers \ {c} : pc'[d] = pc[d],
         NoFalseAlarm', IndexUnique', IndexDense',
         Inside(c)' => CallInv(c)',
         ~Inside(c)' => AllGood'
  PROVE  ChainInv'
<1>1. \A d \in Callers \ {c} : ~Inside(d)
  BY DEF SafeInv, InsideHolds, OnePod, Holds
<1>2. \A d \in Callers \ {c} : ~Inside(d)'
  BY <1>1 DEF Inside
<1> QED
  BY <1>2 DEF ChainInv

\* Reading moves the call on and leaves the chain as it is.
LEMMA HolderReads ==
  ASSUME SafeInv, ChainInv, OnePod, NEW c \in Callers, Holds(c),
         NEW label \in Labels, NEW l \in Locals,
         Goto(c, label, l), UNCHANGED <<db, verdict>>,
         Inside(c)', CallInv(c)'
  PROVE  ChainInv'
<1>1. NoFalseAlarm' /\ IndexUnique' /\ IndexDense'
  BY DEF ChainInv, NoFalseAlarm, IndexUnique, IndexDense, Stored
<1>2. \A d \in Callers \ {c} : pc'[d] = pc[d]
  BY DEF Goto, SafeInv, TypeOK
<1> QED
  BY <1>1, <1>2, HolderStep

\* A call that throws without having written anything amiss leaves a good chain.
LEMMA HolderThrows ==
  ASSUME SafeInv, ChainInv, OnePod, NEW c \in Callers, Holds(c),
         Release(c), UNCHANGED db, NoFalseAlarm', AllGood
  PROVE  ChainInv'
<1>1. IndexUnique' /\ IndexDense' /\ AllGood'
  BY DEF ChainInv, IndexUnique, IndexDense, Stored, AllGood, Good, LinkOK, SealOK
<1>2. \A d \in Callers \ {c} : pc'[d] = pc[d]
  BY DEF Release, SafeInv, TypeOK
<1>3. ~Inside(c)'
  BY DEF Release, SafeInv, TypeOK, Inside
<1> QED
  BY <1>1, <1>2, <1>3, HolderStep

\* record() keeps the chain, step by step.
LEMMA RecordChain ==
  ASSUME SafeInv, ChainInv, OnePod, NEW c \in Callers,
         FindLatest(c) \/ Create(c) \/ Reload(c) \/ Seal(c) \/ LinkPrevious(c)
  PROVE  ChainInv'
<1>l. PICK l : l = loc[c]
  OBVIOUS
<1> USE <1>l
<1>0. /\ Stored \subseteq Requests /\ db \in [Stored -> Row]
      /\ pc \in [Callers -> Labels] /\ loc \in [Callers -> Locals]
      /\ Working(c) => l.req \in Requests /\ l.arg \in Contents
  BY DEF SafeInv, TypeOK, ArgsOK
<1>1. IndexUnique /\ IndexDense /\ NoFalseAlarm /\ (Inside(c) => CallInv(c))
  BY DEF ChainInv
<1>2. CASE FindLatest(c)
  <2>1. Holds(c) /\ ~Inside(c)
    BY <1>2 DEF FindLatest, At, Inside
  <2>2. AllGood
    BY <2>1, HolderSees
  <2>3. PICK m : Goto(c, "create", m) /\ NextPlace(m)
    <3>1. ASSUME Stored = {}, Goto(c, "create", [l EXCEPT !.pos = 0, !.last = Genesis])
          PROVE  NextPlace([l EXCEPT !.pos = 0, !.last = Genesis])
      BY <1>0, <3>1 DEF NextPlace, Locals
    <3>2. ASSUME NEW q \in Stored, IsLatest(q)
          PROVE  NextPlace([l EXCEPT !.pos = db[q].idx + 1, !.last = db[q].hash, !.ref = q])
      BY <1>0, <3>2 DEF NextPlace, Locals
    <3> QED
      BY <1>2, <3>1, <3>2 DEF FindLatest
  <2>4. UNCHANGED <<db, verdict>> /\ pc'[c] = "create" /\ loc'[c] = m
    BY <1>0, <1>2, <2>3 DEF FindLatest, Goto
  <2>5. Inside(c)' /\ CallInv(c)'
    BY <2>2, <2>3, <2>4
       DEF Inside, CallInv, AllGood, Good, LinkOK, SealOK, NextPlace, IsLatest, Stored
  <2>6. \A d \in Callers \ {c} : pc'[d] = pc[d]
    BY <1>0, <2>3 DEF Goto
  <2> QED
    BY <1>1, <2>1, <2>4, <2>5, <2>6, HolderStep
       DEF NoFalseAlarm, IndexUnique, IndexDense, Stored
<1>3. CASE Create(c)
  <2>1. /\ Holds(c) /\ Inside(c) /\ Working(c) /\ pc[c] = "create"
    BY <1>3 DEF Create, At, Inside, Working
  <2>2. AllGood /\ NextPlace(l)
    BY <1>1, <2>1 DEF CallInv
  <2>3. CASE Throw(c)
    BY <1>1, <2>1, <2>2, <2>3, HolderThrows DEF Throw, NoFalseAlarm
  <2>4. CASE ~Throw(c)
    <3> DEFINE r == l.req
    <3>1. /\ r \notin Stored /\ Stored' = Stored \cup {r}
          /\ db'[r].idx = l.pos /\ db'[r].prev = l.last
          /\ \A q \in Stored : db'[q] = db[q]
          /\ Goto(c, "reload", l) /\ verdict' = verdict
      BY <1>3, <2>4 DEF Create, Stored
    <3>2. \A q \in Stored : Good(q)' /\ db[q].idx < l.pos
      <4> SUFFICES ASSUME NEW q \in Stored PROVE Good(q)' /\ db[q].idx < l.pos
        OBVIOUS
      <4>1. Good(q)'
        BY <2>2, <3>1, SameLink, SameSeal DEF AllGood, Good
      <4>2. db[q].idx < l.pos
        BY <1>0, <2>2 DEF NextPlace, IsLatest, Row
      <4> QED
        BY <4>1, <4>2
    <3>3. LinkOK(r)'
      <4>1. CASE l.pos = 0 /\ l.last = Genesis
        BY <3>1, <4>1 DEF LinkOK
      <4>2. ASSUME NEW q \in Stored, l.pos = db[q].idx + 1, l.last = db[q].hash
            PROVE  LinkOK(r)'
        <5>1. db[q].idx \in Nat /\ q \in Stored'
          BY <1>0, <3>1 DEF Row
        <5>2. db'[q].idx = db'[r].idx - 1 /\ db'[r].prev = db'[q].hash
          BY <3>1, <4>2, <5>1
        <5> QED
          BY <5>1, <5>2 DEF LinkOK
      <4> QED
        BY <2>2, <4>1, <4>2 DEF NextPlace
    <3>4. IndexUnique'
      BY <1>0, <1>1, <3>1, <3>2 DEF IndexUnique, Row
    <3>5. IndexDense'
      BY <1>0, <1>1, <2>2, <3>1 DEF IndexDense, NextPlace, Row
    <3>6. pc'[c] = "reload" /\ loc'[c] = l /\ \A d \in Callers \ {c} : pc'[d] = pc[d]
      BY <1>0, <3>1 DEF Goto
    <3>7. RowFresh(l)'
      BY <1>0, <3>1, <3>2, <3>3, <3>6 DEF RowFresh
    <3> QED
      BY <1>1, <2>1, <3>1, <3>4, <3>5, <3>6, <3>7, HolderStep
         DEF NoFalseAlarm, Inside, CallInv
  <2> QED
    BY <2>3, <2>4
<1>4. CASE Reload(c)
  <2>1. /\ Holds(c) /\ Inside(c) /\ pc[c] = "reload"
    BY <1>4 DEF Reload, At, Inside
  <2>2. RowFresh(l)
    BY <1>1, <2>1 DEF CallInv
  <2>m. PICK m : m = [l EXCEPT !.hashed = Hash(l.last, l.req, db[l.req].content, l.pos)]
    OBVIOUS
  <2>3. Goto(c, "seal", m) /\ UNCHANGED <<db, verdict>>
    BY <1>4, <2>2, <2>m DEF Reload, RowFresh, Throw
  <2>4. /\ m.req = l.req /\ m.pos = l.pos /\ m.last = l.last
        /\ m.hashed = Hash(l.last, l.req, db[l.req].content, l.pos)
    BY <1>0, <2>m DEF Locals
  <2>5. pc'[c] = "seal" /\ loc'[c] = m /\ \A d \in Callers \ {c} : pc'[d] = pc[d]
    BY <1>0, <2>3 DEF Goto
  <2>6. RowFresh(m)'
    BY <2>2, <2>3, <2>4 DEF RowFresh, Good, LinkOK, SealOK, Stored
  <2>7. Inside(c)' /\ CallInv(c)'
    BY <2>3, <2>4, <2>5, <2>6 DEF Inside, CallInv
  <2> QED
    BY <1>1, <2>1, <2>3, <2>5, <2>7, HolderStep
       DEF NoFalseAlarm, IndexUnique, IndexDense, Stored
<1>5. CASE Seal(c)
  <2>1. /\ Holds(c) /\ Inside(c) /\ pc[c] = "seal"
    BY <1>5 DEF Seal, At, Inside
  <2>2. RowFresh(l) /\ l.hashed = Hash(l.last, l.req, db[l.req].content, l.pos)
    BY <1>1, <2>1 DEF CallInv
  <2> DEFINE r == l.req
  <2>3. /\ UpdateRow(r, [db[r] EXCEPT !.hash = l.hashed])
        /\ Release(c) \/ Goto(c, "link", l)
        /\ verdict' = verdict
    BY <1>5, <2>2 DEF Seal, RowFresh, Throw
  <2>4. /\ r \in Stored /\ Stored' = Stored
        /\ \A q \in Stored \ {r} : db'[q] = db[q]
        /\ db'[r].idx = db[r].idx /\ db'[r].prev = db[r].prev
        /\ db'[r].content = db[r].content /\ db'[r].hash = l.hashed
    BY <1>0, <2>2, <2>3 DEF UpdateRow, RowFresh, Row, Stored
  <2>5. \A q \in Stored : db[q].idx \in Nat
    BY <1>0 DEF Row
  <2>6. \A q \in Stored \ {r} : Good(q)'
    BY <2>2, <2>4, <2>5, SameLink, SameSeal DEF RowFresh, Good
  <2>7. LinkOK(r)' /\ SealOK(r)'
    BY <2>2, <2>4, <2>5, SameLink DEF RowFresh, SealOK
  <2>8. AllGood'
    BY <2>4, <2>6, <2>7 DEF AllGood, Good
  <2>9. IndexUnique' /\ IndexDense'
    BY <1>1, <2>4, SameIndices
  <2>10. Inside(c)' => CallInv(c)'
    BY <1>0, <2>3, <2>8 DEF Release, Goto, Inside, CallInv
  <2>11. \A d \in Callers \ {c} : pc'[d] = pc[d]
    BY <1>0, <2>3 DEF Release, Goto
  <2> QED
    BY <1>1, <2>1, <2>3, <2>8, <2>9, <2>10, <2>11, HolderStep DEF NoFalseAlarm
<1>6. CASE LinkPrevious(c)
  <2>1. /\ Holds(c) /\ Inside(c) /\ pc[c] = "link"
    BY <1>6 DEF LinkPrevious, At, Inside
  <2>2. AllGood
    BY <1>1, <2>1 DEF CallInv
  <2>3. CASE Throw(c)
    BY <1>1, <2>1, <2>2, <2>3, HolderThrows DEF Throw, NoFalseAlarm
  <2>4. CASE ~Throw(c)
    <3>1. /\ l.ref \in Stored /\ UpdateRow(l.ref, [db[l.ref] EXCEPT !.next = l.hashed])
          /\ Release(c) /\ verdict' = verdict
      BY <1>6, <2>4 DEF LinkPrevious
    <3>2. /\ Stored' = Stored
          /\ \A q \in Stored : /\ db'[q].idx = db[q].idx /\ db'[q].prev = db[q].prev
                               /\ db'[q].content = db[q].content /\ db'[q].hash = db[q].hash
      BY <1>0, <3>1 DEF UpdateRow, Row, Stored
    <3>3. AllGood'
      BY <2>2, <3>2, SameGood DEF AllGood
    <3>4. IndexUnique' /\ IndexDense'
      BY <1>1, <3>2, SameIndices
    <3>5. ~Inside(c)' /\ \A d \in Callers \ {c} : pc'[d] = pc[d]
      BY <1>0, <3>1 DEF Release, Inside
    <3> QED
      BY <1>1, <2>1, <3>1, <3>3, <3>4, <3>5, HolderStep DEF NoFalseAlarm
  <2> QED
    BY <2>3, <2>4
<1> QED
  BY <1>2, <1>3, <1>4, <1>5, <1>6

\* updateRecordAndRecalculate() up to its loop: only the amended row is unsealed.
LEMMA AmendChain ==
  ASSUME SafeInv, ChainInv, OnePod, NEW c \in Callers,
         FindRecord(c) \/ WriteContent(c) \/ LoadSuffix(c) \/ ReadPredecessor(c)
  PROVE  ChainInv'
<1>l. PICK l : l = loc[c]
  OBVIOUS
<1> USE <1>l
<1>0. /\ Stored \subseteq Requests /\ db \in [Stored -> Row]
      /\ pc \in [Callers -> Labels] /\ loc \in [Callers -> Locals]
      /\ \A q \in Stored : db[q].idx \in Nat
  BY DEF SafeInv, TypeOK, Row
<1>1. IndexUnique /\ IndexDense /\ NoFalseAlarm /\ (Inside(c) => CallInv(c))
  BY DEF ChainInv
<1>r. ASSUME UNCHANGED db
      PROVE  /\ IndexUnique' /\ IndexDense'
             /\ \A q \in Stored : (LinkOK(q)' <=> LinkOK(q)) /\ (Good(q)' <=> Good(q))
  BY <1>1, <1>r DEF IndexUnique, IndexDense, Good, LinkOK, SealOK, Stored
<1>2. CASE FindRecord(c)
  <2>1. Holds(c) /\ ~Inside(c)
    BY <1>2 DEF FindRecord, At, Inside
  <2>2. AllGood
    BY <2>1, HolderSees
  <2>3. CASE Throw(c)
    BY <1>1, <2>1, <2>2, <2>3, HolderThrows DEF Throw, NoFalseAlarm
  <2>4. CASE ~Throw(c)
    <3>m. PICK m : m = [l EXCEPT !.pos = db[l.req].idx]
      OBVIOUS
    <3>1. /\ l.req \in Stored /\ Goto(c, "write", m) /\ UNCHANGED <<db, verdict>>
          /\ m.req = l.req /\ m.pos = db[l.req].idx
      BY <1>0, <1>2, <2>4, <3>m DEF FindRecord, Locals
    <3>2. pc'[c] = "write" /\ loc'[c] = m /\ \A d \in Callers \ {c} : pc'[d] = pc[d]
      BY <1>0, <3>1 DEF Goto
    <3>3. AllGood'
      BY <1>r, <2>2, <3>1 DEF AllGood, Stored
    <3>4. Inside(c)' /\ CallInv(c)'
      BY <3>1, <3>2, <3>3 DEF Inside, CallInv, Stored
    <3> QED
      BY <1>1, <1>r, <2>1, <3>1, <3>2, <3>4, HolderStep DEF NoFalseAlarm
  <2> QED
    BY <2>3, <2>4
<1>3. CASE WriteContent(c)
  <2>1. /\ Holds(c) /\ Inside(c) /\ pc[c] = "write"
    BY <1>3 DEF WriteContent, At, Inside
  <2>2. AllGood /\ l.req \in Stored /\ l.pos = db[l.req].idx
    BY <1>1, <2>1 DEF CallInv
  <2>3. /\ UpdateRow(l.req, [db[l.req] EXCEPT !.content = l.arg])
        /\ Goto(c, "load", l) /\ verdict' = verdict
    BY <1>3, <2>2 DEF WriteContent, Throw
  <2>4. /\ Stored' = Stored
        /\ \A q \in Stored \ {l.req} : db'[q] = db[q]
        /\ \A q \in Stored : /\ db'[q].idx = db[q].idx /\ db'[q].prev = db[q].prev
                             /\ db'[q].hash = db[q].hash
    BY <1>0, <2>2, <2>3 DEF UpdateRow, Row, Stored
  <2>5. \A q \in Stored : LinkOK(q)'
    BY <2>2, <2>4, SameLink DEF AllGood, Good
  <2>6. \A q \in Stored \ {l.req} : Good(q)'
    BY <2>2, <2>4, <2>5, SameSeal DEF AllGood, Good
  <2>7. pc'[c] = "load" /\ loc'[c] = l /\ \A d \in Callers \ {c} : pc'[d] = pc[d]
    BY <1>0, <2>3 DEF Goto
  <2>8. Inside(c)' /\ CallInv(c)'
    BY <2>2, <2>4, <2>5, <2>6, <2>7 DEF Inside, CallInv
  <2>9. IndexUnique' /\ IndexDense'
    BY <1>1, <2>4, SameIndices
  <2> QED
    BY <1>1, <2>1, <2>3, <2>7, <2>8, <2>9, HolderStep DEF NoFalseAlarm
<1>4. CASE LoadSuffix(c)
  <2>1. /\ Holds(c) /\ Inside(c) /\ pc[c] = "load"
    BY <1>4 DEF LoadSuffix, At, Inside
  <2>2. /\ l.req \in Stored /\ l.pos = db[l.req].idx
        /\ \A q \in Stored \ {l.req} : Good(q)
    BY <1>1, <2>1 DEF CallInv
  <2> DEFINE copy(q) == [req |-> q, idx |-> db[q].idx, content |-> db[q].content]
  <2>t. PICK todo : todo = {copy(q) : q \in {s \in Stored : db[s].idx >= l.pos}}
    OBVIOUS
  <2>m. PICK m : m = [l EXCEPT !.todo = todo, !.last = Genesis]
    OBVIOUS
  <2>3. /\ Goto(c, IF l.pos = 0 THEN "loop" ELSE "prev", m) /\ UNCHANGED <<db, verdict>>
        /\ m.pos = l.pos /\ m.last = Genesis /\ m.todo = todo
    BY <1>0, <1>4, <2>t, <2>m DEF LoadSuffix, Locals
  <2>4. \A s \in todo : /\ s.req \in Stored /\ s.idx = db[s.req].idx
                        /\ s.content = db[s.req].content /\ s.idx >= l.pos
    BY <2>t
  <2>5. \A q \in Stored : db[q].idx >= l.pos => \E s \in todo : s.req = q /\ s.idx = db[q].idx
    <3> SUFFICES ASSUME NEW q \in Stored, db[q].idx >= l.pos
                 PROVE  \E s \in todo : s.req = q /\ s.idx = db[q].idx
      OBVIOUS
    <3>1. copy(q) \in todo
      BY <2>t
    <3> QED
      BY <3>1
  <2>6. CopyAgrees(todo) /\ DoneGood(todo)
    <3>1. CopyAgrees(todo)
      BY <2>4 DEF CopyAgrees
    <3>2. ASSUME NEW q \in Stored, db[q].idx < l.pos
          PROVE  Good(q) /\ \A s \in todo : db[q].idx < s.idx
      BY <1>0, <2>2, <2>4, <3>2
    <3>3. DoneGood(todo)
      BY <1>0, <2>2, <2>5, <3>2 DEF DoneGood
    <3> QED
      BY <3>1, <3>3
  <2>7. \A s \in todo : IsNext(s, todo) => s.idx = l.pos
    BY <1>0, <2>2, <2>4, <2>5 DEF IsNext
  <2>8. CopyAgrees(todo)' /\ DoneGood(todo)'
    BY <1>r, <2>3, <2>6 DEF CopyAgrees, DoneGood, Stored
  <2>9. l.pos = 0 => ChainsTo(Genesis, todo)'
    BY <2>7 DEF ChainsTo
  <2>10. /\ pc'[c] = IF l.pos = 0 THEN "loop" ELSE "prev"
         /\ loc'[c] = m /\ \A d \in Callers \ {c} : pc'[d] = pc[d]
    BY <1>0, <2>3 DEF Goto
  <2>11. Inside(c)' /\ CallInv(c)'
    BY <2>3, <2>7, <2>8, <2>9, <2>10 DEF Inside, CallInv
  <2> QED
    BY <1>1, <1>r, <2>1, <2>3, <2>10, <2>11, HolderStep DEF NoFalseAlarm
<1>5. CASE ReadPredecessor(c)
  <2>1. /\ Holds(c) /\ Inside(c) /\ pc[c] = "prev"
    BY <1>5 DEF ReadPredecessor, At, Inside
  <2>2. /\ CopyAgrees(l.todo) /\ DoneGood(l.todo) /\ l.pos # 0
        /\ \A s \in l.todo : IsNext(s, l.todo) => s.idx = l.pos
    BY <1>1, <2>1 DEF CallInv
  <2>3. PICK h : /\ Goto(c, "loop", [l EXCEPT !.last = h])
                 /\ \/ \A q \in Stored : db[q].idx # l.pos - 1
                    \/ \E q \in Stored : db[q].idx = l.pos - 1 /\ h = db[q].hash
    BY <1>5 DEF ReadPredecessor
  <2>4. ASSUME NEW s \in l.todo, IsNext(s, l.todo)
        PROVE  \E p \in Stored : db[p].idx = s.idx - 1 /\ db[p].hash = h
    <3>1. s.idx = l.pos /\ s.req \in Stored /\ db[s.req].idx = l.pos
      BY <2>2, <2>4 DEF CopyAgrees
    <3>2. \E p \in Stored : db[p].idx = l.pos - 1
      BY <1>1, <2>2, <3>1 DEF IndexDense
    <3> QED
      BY <2>3, <3>1, <3>2
  <2>5. ChainsTo(h, l.todo)
    BY <2>4 DEF ChainsTo
  <2>m. PICK m : m = [l EXCEPT !.last = h]
    OBVIOUS
  <2>6. Goto(c, "loop", m) /\ UNCHANGED <<db, verdict>> /\ m.last = h /\ m.todo = l.todo
    BY <1>0, <1>5, <2>3, <2>m DEF ReadPredecessor, Locals
  <2>7. pc'[c] = "loop" /\ loc'[c] = m /\ \A d \in Callers \ {c} : pc'[d] = pc[d]
    BY <1>0, <2>6 DEF Goto
  <2>8. CopyAgrees(m.todo)' /\ DoneGood(m.todo)' /\ ChainsTo(m.last, m.todo)'
    BY <1>r, <2>2, <2>5, <2>6 DEF CopyAgrees, DoneGood, ChainsTo, Stored
  <2>9. Inside(c)' /\ CallInv(c)'
    BY <2>7, <2>8 DEF Inside, CallInv
  <2> QED
    BY <1>1, <1>r, <2>1, <2>6, <2>7, <2>9, HolderStep DEF NoFalseAlarm
<1> QED
  BY <1>2, <1>3, <1>4, <1>5

\* The loop moves the boundary between good rows and the copy up by one row.
LEMMA RehashChain ==
  ASSUME SafeInv, ChainInv, OnePod, NEW c \in Callers, Rehash(c)
  PROVE  ChainInv'
<1>l. PICK l : l = loc[c]
  OBVIOUS
<1> USE <1>l
<1>0. /\ Stored \subseteq Requests /\ db \in [Stored -> Row]
      /\ pc \in [Callers -> Labels] /\ loc \in [Callers -> Locals]
      /\ \A q \in Stored : db[q].idx \in Nat
      /\ l.todo \subseteq Snapshot
  BY DEF SafeInv, TypeOK, Row, Locals
<1>1. /\ Holds(c) /\ Inside(c) /\ pc[c] = "loop"
  BY DEF Rehash, At, Inside
<1>2. /\ IndexUnique /\ IndexDense /\ NoFalseAlarm
      /\ CopyAgrees(l.todo) /\ DoneGood(l.todo) /\ ChainsTo(l.last, l.todo)
  BY <1>1 DEF ChainInv, CallInv
<1>3. PICK s \in l.todo :
        LET h == Hash(l.last, s.req, s.content, s.idx) IN
        /\ IsNext(s, l.todo)
        /\ \/ s.req \notin Stored
           \/ /\ UpdateRow(s.req, [db[s.req] EXCEPT !.prev = l.last, !.hash = h])
              /\ IF l.last = Genesis
                 THEN Goto(c, "loop", [l EXCEPT !.todo = @ \ {s}, !.last = h])
                 ELSE Goto(c, "findprev", [l EXCEPT !.todo = @ \ {s}, !.hashed = h])
              /\ verdict' = verdict
  BY DEF Rehash
<1>h. PICK h : h = Hash(l.last, s.req, s.content, s.idx)
  OBVIOUS
<1>t. PICK todo : todo = l.todo \ {s}
  OBVIOUS
<1>4. /\ s.req \in Stored /\ db[s.req].idx = s.idx /\ db[s.req].content = s.content
      /\ s.idx \in Nat
  BY <1>0, <1>2 DEF CopyAgrees
<1>5. PICK m : /\ m.todo = todo
               /\ \/ Goto(c, "loop", m) /\ m.last = h
                  \/ Goto(c, "findprev", m) /\ m.hashed = h
  <2>1. PICK x : x = [l EXCEPT !.todo = @ \ {s}, !.last = h]
    OBVIOUS
  <2>2. PICK y : y = [l EXCEPT !.todo = @ \ {s}, !.hashed = h]
    OBVIOUS
  <2>3. x.todo = todo /\ x.last = h /\ y.todo = todo /\ y.hashed = h
    BY <1>0, <1>t, <2>1, <2>2 DEF Locals
  <2>4. Goto(c, "loop", x) \/ Goto(c, "findprev", y)
    BY <1>3, <1>4, <1>h, <2>1, <2>2
  <2> QED
    BY <2>3, <2>4
<1>6. /\ Stored' = Stored /\ verdict' = verdict
      /\ \A q \in Stored \ {s.req} : db'[q] = db[q]
      /\ db'[s.req].idx = s.idx /\ db'[s.req].content = s.content
      /\ db'[s.req].prev = l.last /\ db'[s.req].hash = h
  <2>1. PICK row : row = [db[s.req] EXCEPT !.prev = l.last, !.hash = h]
    OBVIOUS
  <2>2. UpdateRow(s.req, row) /\ verdict' = verdict
    BY <1>3, <1>4, <1>h, <2>1
  <2>3. row.idx = s.idx /\ row.content = s.content /\ row.prev = l.last /\ row.hash = h
    BY <1>0, <1>4, <2>1 DEF Row
  <2> QED
    BY <1>0, <1>4, <2>2, <2>3 DEF UpdateRow, Stored
<1>7. CopyAgrees(todo)'
  BY <1>2, <1>4, <1>6, <1>t DEF CopyAgrees
<1>8. \A t \in todo : s.idx < t.idx
  <2> SUFFICES ASSUME NEW t \in todo PROVE s.idx < t.idx
    OBVIOUS
  <2>1. t \in l.todo /\ t # s /\ s.idx <= t.idx /\ t \in Snapshot /\ s \in Snapshot
    BY <1>0, <1>3, <1>t DEF IsNext
  <2>2. t.req \in Stored /\ db[t.req].idx = t.idx /\ db[t.req].content = t.content
    BY <1>2, <2>1 DEF CopyAgrees
  <2>3. ASSUME t.idx = s.idx PROVE FALSE
    <3>1. t.req = s.req /\ t.content = s.content
      BY <1>2, <1>4, <2>2, <2>3 DEF IndexUnique
    <3> QED
      BY <2>1, <2>3, <3>1 DEF Snapshot
  <2> QED
    BY <1>4, <2>1, <2>3 DEF Snapshot
<1>9. LinkOK(s.req)' /\ SealOK(s.req)'
  <2>1. CASE s.idx = 0 /\ l.last = Genesis
    BY <1>6, <1>h, <2>1 DEF LinkOK, SealOK
  <2>2. ASSUME NEW p \in Stored, db[p].idx = s.idx - 1, db[p].hash = l.last
        PROVE  LinkOK(s.req)' /\ SealOK(s.req)'
    <3>1. p # s.req
      BY <1>4, <2>2
    <3> QED
      BY <1>6, <1>h, <2>2, <3>1 DEF LinkOK, SealOK
  <2> QED
    BY <1>2, <1>3, <2>1, <2>2 DEF ChainsTo
<1>10. DoneGood(todo)'
  <2> SUFFICES ASSUME NEW q \in Stored, ~ \E t \in todo : t.req = q
               PROVE  Good(q)' /\ \A t \in todo : db'[q].idx < t.idx
    BY <1>6 DEF DoneGood
  <2>1. CASE q = s.req
    BY <1>6, <1>8, <1>9, <2>1 DEF Good
  <2>2. CASE q # s.req
    <3>1. Good(q) /\ \A t \in l.todo : db[q].idx < t.idx
      BY <1>2, <1>t, <2>2 DEF DoneGood
    <3>2. db[q].idx < s.idx /\ db[q].idx \in Nat
      BY <1>0, <3>1
    <3>3. LinkOK(q)'
      BY <1>0, <1>4, <1>6, <2>2, <3>1, <3>2, SameLink DEF Good
    <3>4. SealOK(q)'
      BY <1>6, <2>2, <3>1, SameSeal DEF Good
    <3> QED
      BY <1>6, <1>t, <2>2, <3>1, <3>3, <3>4 DEF Good
  <2> QED
    BY <2>1, <2>2
<1>11. ChainsTo(h, todo)'
  <2> SUFFICES ASSUME NEW t \in todo, IsNext(t, todo)
               PROVE  \E p \in Stored' : db'[p].idx = t.idx - 1 /\ db'[p].hash = h
    BY DEF ChainsTo
  <2>1. t.req \in Stored /\ db[t.req].idx = t.idx /\ t.idx \in Nat /\ s.idx < t.idx
    BY <1>0, <1>2, <1>8, <1>t DEF CopyAgrees
  <2>2. PICK p \in Stored : db[p].idx = t.idx - 1
    BY <1>2, <1>4, <2>1 DEF IndexDense
  <2>3. ASSUME NEW u \in todo, u.req = p PROVE FALSE
    <3>1. u.idx = t.idx - 1
      BY <1>2, <1>t, <2>2, <2>3 DEF CopyAgrees
    <3> QED
      BY <2>1, <3>1 DEF IsNext
  <2>4. p = s.req
    <3>1. SUFFICES ASSUME p # s.req PROVE FALSE
      OBVIOUS
    <3>2. db[p].idx < s.idx
      BY <1>2, <1>t, <2>3, <3>1 DEF DoneGood
    <3> QED
      BY <1>4, <2>1, <2>2, <3>2
  <2> QED
    BY <1>6, <2>2, <2>4, <1>4
<1>12. IndexUnique' /\ IndexDense'
  BY <1>2, <1>4, <1>6, SameIndices
<1>13. /\ pc'[c] \in {"loop", "findprev"} /\ loc'[c] = m
       /\ \A d \in Callers \ {c} : pc'[d] = pc[d]
  BY <1>0, <1>5 DEF Goto
<1>14. Inside(c)' /\ CallInv(c)'
  BY <1>0, <1>5, <1>7, <1>10, <1>11, <1>13 DEF Inside, CallInv, Goto
<1> QED
  BY <1>1, <1>2, <1>6, <1>12, <1>13, <1>14, HolderStep DEF NoFalseAlarm

\* The rest of the loop writes nextHash only.
LEMMA LoopChain ==
  ASSUME SafeInv, ChainInv, OnePod, NEW c \in Callers,
         FindByHash(c) \/ LinkNext(c) \/ Finish(c)
  PROVE  ChainInv'
<1>l. PICK l : l = loc[c]
  OBVIOUS
<1> USE <1>l
<1>0. /\ Stored \subseteq Requests /\ db \in [Stored -> Row]
      /\ pc \in [Callers -> Labels] /\ loc \in [Callers -> Locals]
  BY DEF SafeInv, TypeOK
<1>1. IndexUnique /\ IndexDense /\ NoFalseAlarm /\ (Inside(c) => CallInv(c))
  BY DEF ChainInv
<1>2. CASE FindByHash(c)
  <2>1. Holds(c) /\ Inside(c) /\ pc[c] = "findprev"
    BY <1>2 DEF FindByHash, At, Inside
  <2>2. CopyAgrees(l.todo) /\ DoneGood(l.todo) /\ ChainsTo(l.hashed, l.todo)
    BY <1>1, <2>1 DEF CallInv
  <2>3. PICK m : /\ m.todo = l.todo
                 /\ \/ Goto(c, "loop", m) /\ m.last = l.hashed
                    \/ Goto(c, "next", m) /\ m.hashed = l.hashed /\ m.ref \in Stored
    <3>1. ASSUME Goto(c, "loop", [l EXCEPT !.last = l.hashed])
          PROVE  \E m : m.todo = l.todo /\ Goto(c, "loop", m) /\ m.last = l.hashed
      BY <1>0, <3>1 DEF Locals
    <3>2. ASSUME NEW q \in Stored, Goto(c, "next", [l EXCEPT !.ref = q])
          PROVE  \E m : /\ m.todo = l.todo /\ Goto(c, "next", m)
                        /\ m.hashed = l.hashed /\ m.ref \in Stored
      BY <1>0, <3>2 DEF Locals
    <3> QED
      BY <1>2, <3>1, <3>2 DEF FindByHash
  <2>4. UNCHANGED <<db, verdict>>
    BY <1>2 DEF FindByHash
  <2>5. /\ loc'[c] = m /\ pc'[c] \in {"loop", "next"}
        /\ \A d \in Callers \ {c} : pc'[d] = pc[d]
        /\ pc'[c] = "loop" => m.last = l.hashed
        /\ pc'[c] = "next" => m.hashed = l.hashed /\ m.ref \in Stored
    BY <1>0, <2>3 DEF Goto
  <2>6. CopyAgrees(l.todo)' /\ DoneGood(l.todo)' /\ ChainsTo(l.hashed, l.todo)'
    BY <2>2, <2>4 DEF CopyAgrees, DoneGood, ChainsTo, Good, LinkOK, SealOK, Stored
  <2>7. Inside(c)' /\ CallInv(c)'
    BY <2>3, <2>4, <2>5, <2>6 DEF Inside, CallInv, Stored
  <2> QED
    BY <1>1, <2>1, <2>4, <2>5, <2>7, HolderStep
       DEF NoFalseAlarm, IndexUnique, IndexDense, Stored
<1>3. CASE LinkNext(c)
  <2>1. Holds(c) /\ Inside(c) /\ pc[c] = "next"
    BY <1>3 DEF LinkNext, At, Inside
  <2>2. CopyAgrees(l.todo) /\ DoneGood(l.todo) /\ ChainsTo(l.hashed, l.todo)
    BY <1>1, <2>1 DEF CallInv
  <2>4. l.ref \in Stored
    BY <1>1, <2>1 DEF CallInv
  <2> QED
    <3>1. /\ UpdateRow(l.ref, [db[l.ref] EXCEPT !.next = l.hashed])
          /\ Goto(c, "loop", [l EXCEPT !.last = l.hashed]) /\ verdict' = verdict
      BY <1>3, <2>4 DEF LinkNext, Throw
    <3>2. /\ Stored' = Stored
          /\ \A q \in Stored : /\ db'[q].idx = db[q].idx /\ db'[q].prev = db[q].prev
                               /\ db'[q].content = db[q].content /\ db'[q].hash = db[q].hash
      BY <1>0, <2>4, <3>1 DEF UpdateRow, Row, Stored
    <3>3. IndexUnique' /\ IndexDense'
      BY <1>1, <3>2, SameIndices
    <3>4. CopyAgrees(l.todo)'
      BY <2>2, <3>2 DEF CopyAgrees
    <3>5. DoneGood(l.todo)'
      BY <2>2, <3>2, SameGood DEF DoneGood
    <3>6. ChainsTo(l.hashed, l.todo)'
      BY <2>2, <3>2 DEF ChainsTo
    <3>7. /\ pc'[c] = "loop" /\ loc'[c].todo = l.todo /\ loc'[c].last = l.hashed
          /\ \A d \in Callers \ {c} : pc'[d] = pc[d]
      BY <1>0, <3>1 DEF Goto, Locals
    <3>8. Inside(c)' /\ CallInv(c)'
      BY <3>4, <3>5, <3>6, <3>7 DEF Inside, CallInv
    <3> QED
      BY <1>1, <2>1, <3>1, <3>3, <3>7, <3>8, HolderStep DEF NoFalseAlarm
<1>4. CASE Finish(c)
  <2>1. Holds(c) /\ Inside(c) /\ pc[c] = "loop" /\ l.todo = {} /\ Throw(c)
    BY <1>4 DEF Finish, At, Inside
  <2>2. AllGood
    BY <1>1, <2>1 DEF CallInv, DoneGood, AllGood
  <2> QED
    BY <1>1, <2>1, <2>2, HolderThrows DEF Throw, NoFalseAlarm
<1> QED
  BY <1>2, <1>3, <1>4

\* Queueing on the Mutex changes nothing a call inside relies on.
LEMMA AcquireChain ==
  ASSUME SafeInv, ChainInv, NEW c \in Callers, NEW label, NEW l,
         label \in {"latest", "find", "verify"}, Acquire(c, label, l)
  PROVE  ChainInv'
<1>1. UNCHANGED <<db, verdict>> /\ \A d \in Callers : Inside(d)' <=> Inside(d)
  BY DEF Acquire, Inside, SafeInv, TypeOK
<1>2. \A d \in Callers : Inside(d) => pc'[d] = pc[d] /\ loc'[d] = loc[d]
  BY DEF Acquire, Inside, SafeInv, TypeOK
<1>3. NoFalseAlarm' /\ IndexUnique' /\ IndexDense' /\ (AllGood => AllGood')
  BY <1>1 DEF ChainInv, NoFalseAlarm, IndexUnique, IndexDense, AllGood, Good,
              LinkOK, SealOK, Stored
<1>4. \A d \in Callers : Inside(d) => CallInv(d)'
  BY <1>1, <1>2 DEF ChainInv, CallInv, AllGood, Good, LinkOK, SealOK, NextPlace,
     IsLatest, RowFresh, CopyAgrees, DoneGood, ChainsTo, Stored
<1> QED
  BY <1>1, <1>3, <1>4 DEF ChainInv

\* The chain invariant is kept by every step a fault-free single pod takes.
LEMMA ChainStep ==
  ASSUME OnePod, MaxFaults = 0, MaxResets = 0
  PROVE  SafeInv /\ ChainInv /\ [Next]_vars => ChainInv'
<1> SUFFICES ASSUME SafeInv, ChainInv, [Next]_vars PROVE ChainInv'
  OBVIOUS
<1>1. ASSUME NEW c \in Callers, Start(c) PROVE ChainInv'
  <2>1. ASSUME NEW r \in Requests, NEW x \in Contents,
               StartRecord(c, r, x) \/ StartUpdate(c, r, x)
        PROVE  ChainInv'
    <3>1. PICK l : l = [Blank EXCEPT !.req = r, !.arg = x]
      OBVIOUS
    <3>2. Acquire(c, "latest", l) \/ Acquire(c, "find", l)
      BY <2>1, <3>1 DEF StartRecord, StartUpdate
    <3> QED
      BY <3>2, AcquireChain
  <2>2. CASE StartVerify(c)
    BY <2>2, AcquireChain DEF StartVerify
  <2> QED
    BY <1>1, <2>1, <2>2 DEF Start
<1>2. ASSUME NEW c \in Callers, Step(c) PROVE ChainInv'
  <2>1. CASE Verify(c)
    <3>1. Holds(c) /\ ~Inside(c)
      BY <2>1 DEF Verify, At, Inside
    <3>2. AllGood
      BY <3>1, HolderSees
    <3>3. NoFalseAlarm'
      BY <2>1, <3>2 DEF Verify, ChainVerified, ChainInv, AllGood, Good, NoFalseAlarm
    <3> QED
      BY <2>1, <3>1, <3>2, <3>3, HolderThrows DEF Verify
  <2> QED
    BY <1>2, <2>1, RecordChain, AmendChain, RehashChain, LoopChain DEF Step
<1>3. ~ \E c \in Callers : DbError(c)
  BY DEF DbError, SafeInv, TypeOK
<1>4. ~ \E n \in Pods : Crash(n)
  BY DEF Crash, SafeInv, TypeOK
<1>5. ~ Reset
  BY DEF Reset, SafeInv, TypeOK
<1>6. CASE UNCHANGED vars
  <2>1. \A d \in Callers : Inside(d)' <=> Inside(d)
    BY <1>6 DEF vars, Inside
  <2>2. NoFalseAlarm' /\ IndexUnique' /\ IndexDense' /\ (AllGood => AllGood')
    BY <1>6 DEF vars, ChainInv, NoFalseAlarm, IndexUnique, IndexDense, AllGood, Good,
                LinkOK, SealOK, Stored
  <2>3. \A d \in Callers : Inside(d) => CallInv(d)'
    BY <1>6 DEF vars, ChainInv, CallInv, AllGood, Good, LinkOK, SealOK, NextPlace,
       IsLatest, RowFresh, CopyAgrees, DoneGood, ChainsTo, Stored
  <2> QED
    BY <2>1, <2>2, <2>3 DEF ChainInv
<1> QED
  BY <1>1, <1>2, <1>3, <1>4, <1>5, <1>6 DEF Next

\* The empty table is a good chain.
LEMMA ChainInit == Init => ChainInv
  BY DEF Init, ChainInv, NoFalseAlarm, IndexUnique, IndexDense, Inside, AllGood, Stored

\* With one API process and no database error, crash or reset, whatever calls
\* run concurrently, the chain is complete and verifiable whenever no call is
\* inside the ledger, and verifyChain() never answers that it is broken.
THEOREM ChainCorrect ==
  ASSUME OnePod, MaxFaults = 0, MaxResets = 0
  PROVE  Spec => [](ChainIntact /\ NoFalseAlarm)
<1>1. Init => SafeInv /\ ChainInv
  BY SafeInit, ChainInit
<1>2. SafeInv /\ ChainInv /\ [Next]_vars => SafeInv' /\ ChainInv'
  BY SafeStep, ChainStep
<1>3. SafeInv /\ ChainInv => ChainIntact /\ NoFalseAlarm
  <2> SUFFICES ASSUME SafeInv, ChainInv PROVE ChainIntact /\ NoFalseAlarm
    OBVIOUS
  <2>1. ASSUME Quiet PROVE \A c \in Callers : ~Inside(c)
    BY <2>1, ConstantsAssumption DEF Quiet, SafeInv, InsideHolds, Holds
  <2> QED
    BY <2>1 DEF ChainIntact, ChainVerified, ChainInv, AllGood, Good
<1> QED
  BY <1>1, <1>2, <1>3, PTL DEF Spec

=============================================================================
