----------------------------- MODULE AuditLedger -----------------------------
(***************************************************************************)
(* AuditService (apps/api/src/audit/audit.service.ts): the hash-chained    *)
(* audit trail kept in the AuditRecord table.  Every step is one database  *)
(* round trip of record(), updateRecordAndRecalculate() or verifyChain(),  *)
(* which is the grain at which other processes, a reset, an error or a     *)
(* crash can come in between.  The calls of one pod (one API process) are  *)
(* serialised by that process's Mutex; nothing serialises different pods.  *)
(*                                                                         *)
(* A SHA-256 value is the sequence of everything hashed into it, so two    *)
(* hashes are equal exactly when their inputs are (no collisions), and     *)
(* GENESIS_BLOCK, which stands in for a null previousHash, is <<>>.        *)
(***************************************************************************)
EXTENDS Integers, Sequences

CONSTANTS
  Requests,   \* ids of the intercepted requests (AuditRecord.requestId)
  Contents,   \* values of the hashed columns of a record
  Callers,    \* concurrent calls into the audit services of all pods
  Pods,       \* API processes, each with its own AuditService and Mutex
  PodOf,      \* the pod a caller runs in
  None,       \* no request, no content
  MaxFaults,  \* bound: database errors and pod crashes in a behaviour
  MaxResets   \* bound: resetDatabase() calls in a behaviour

ASSUME ConstantsAssumption ==
  /\ PodOf \in [Callers -> Pods]
  /\ None \notin Requests \cup Contents
  /\ MaxFaults \in Nat /\ MaxResets \in Nat

VARIABLES
  db,       \* the AuditRecord table, a row per stored request id
  mutex,    \* per pod, the calls that acquired or wait for its Mutex, in order
  pc,       \* per caller, the database call it makes next
  loc,      \* per caller, the local variables of the call it executes
  verdict,  \* the answer of the last verifyChain()
  purged,   \* ids of rows a reset has deleted (an id is not used again)
  faults,   \* errors and crashes so far
  resets    \* resets so far

vars == <<db, mutex, pc, loc, verdict, purged, faults, resets>>
envVars == <<purged, faults, resets>>

-----------------------------------------------------------------------------
(* Hashes and rows *)

Link == [req : Requests, content : Contents \cup {None}, idx : Nat]
Hashes == Seq(Link)
Genesis == <<>>

\* Variant: the index before the record's is hashed.
HashIndexOff(prev, r, content, idx) ==
  Append(prev, [req |-> r, content |-> content, idx |-> idx - 1])

\* calculateSHA256 over the previous hash, the hashed columns and the index.
Hash(prev, r, content, idx) ==
  Append(prev, [req |-> r, content |-> content, idx |-> idx])

\* The random placeholder a new row carries until its hash is known.
TempHash(r) == <<[req |-> r, content |-> None, idx |-> 0]>>

Row == [content : Contents, idx : Nat, prev : Hashes, hash : Hashes, next : Hashes]
Snapshot == [req : Requests, idx : Nat, content : Contents]

Stored == DOMAIN db

\* Prisma's update by primary key, on a row that exists.
UpdateRow(r, row) == db' = [db EXCEPT ![r] = row]

-----------------------------------------------------------------------------
(* Call bookkeeping *)

Locals == [req : Requests \cup {None}, arg : Contents \cup {None},
           pos : Nat, last : Hashes, ref : Requests \cup {None},
           hashed : Hashes, todo : SUBSET Snapshot]

Blank == [req |-> None, arg |-> None, pos |-> 0, last |-> Genesis,
          ref |-> None, hashed |-> Genesis, todo |-> {}]

Labels == {"idle", "latest", "create", "reload", "seal", "link",
           "find", "write", "load", "prev", "loop", "findprev", "next",
           "final", "verify"}

Holds(c) == mutex[PodOf[c]] # <<>> /\ Head(mutex[PodOf[c]]) = c

\* Variant: acquire() does not wait.
AtOnce(c, label) == pc[c] = label

At(c, label) == pc[c] = label /\ Holds(c)

\* Variant: a new call goes ahead of those that wait.
AcquireFirst(c, label, l) ==
  /\ pc[c] = "idle"
  /\ mutex' = [mutex EXCEPT ![PodOf[c]] = <<c>> \o @]
  /\ pc' = [pc EXCEPT ![c] = label]
  /\ loc' = [loc EXCEPT ![c] = l]
  /\ UNCHANGED <<db, verdict, envVars>>

\* Mutex.acquire(): take a place in the promise chain; the first step of the
\* call waits until every earlier holder has released.
Acquire(c, label, l) ==
  /\ pc[c] = "idle"
  /\ mutex' = [mutex EXCEPT ![PodOf[c]] = Append(@, c)]
  /\ pc' = [pc EXCEPT ![c] = label]
  /\ loc' = [loc EXCEPT ![c] = l]
  /\ UNCHANGED <<db, verdict, envVars>>

Goto(c, label, l) ==
  /\ pc' = [pc EXCEPT ![c] = label]
  /\ loc' = [loc EXCEPT ![c] = l]
  /\ UNCHANGED mutex

\* The finally block: the call returns or throws, and the Mutex passes on.
Release(c) ==
  /\ mutex' = [mutex EXCEPT ![PodOf[c]] = Tail(@)]
  /\ pc' = [pc EXCEPT ![c] = "idle"]
  /\ loc' = [loc EXCEPT ![c] = Blank]

\* Variant: an error leaves without the finally block.
ThrowHolding(c) ==
  /\ pc' = [pc EXCEPT ![c] = "idle"]
  /\ loc' = [loc EXCEPT ![c] = Blank]
  /\ UNCHANGED <<mutex, db, verdict, envVars>>

Throw(c) == Release(c) /\ UNCHANGED <<db, verdict, envVars>>

-----------------------------------------------------------------------------
(* record() *)

StartRecord(c, r, x) ==
  /\ r \notin purged
  /\ Acquire(c, "latest", [Blank EXCEPT !.req = r, !.arg = x])

\* Variant: ordered ascending.
IsEarliest(q) == q \in Stored /\ \A s \in Stored : db[s].idx >= db[q].idx

\* A row findFirst by descending chainIndex may return.
IsLatest(q) == q \in Stored /\ \A s \in Stored : db[s].idx <= db[q].idx

FindLatest(c) ==
  /\ At(c, "latest")
  /\ \/ /\ Stored = {}
        /\ Goto(c, "create", [loc[c] EXCEPT !.pos = 0, !.last = Genesis])
     \/ \E q \in Stored :
          /\ IsLatest(q)
          /\ Goto(c, "create", [loc[c] EXCEPT !.pos = db[q].idx + 1,
                                              !.last = db[q].hash, !.ref = q])
  /\ UNCHANGED <<db, verdict, envVars>>

\* requestId is unique in the table: a second create for it throws.
Create(c) ==
  LET l == loc[c] IN
  /\ At(c, "create")
  /\ \/ l.req \in Stored /\ Throw(c)
     \/ /\ l.req \notin Stored
        /\ db' = [q \in Stored \cup {l.req} |->
                    IF q = l.req
                    THEN [content |-> l.arg, idx |-> l.pos, prev |-> l.last,
                          hash |-> TempHash(q), next |-> Genesis]
                    ELSE db[q]]
        /\ Goto(c, "reload", l)
        /\ UNCHANGED <<verdict, envVars>>

Reload(c) ==
  LET l == loc[c] IN
  /\ At(c, "reload")
  /\ \/ l.req \notin Stored /\ Throw(c)
     \/ /\ l.req \in Stored
        /\ Goto(c, "seal", [l EXCEPT
             !.hashed = Hash(l.last, l.req, db[l.req].content, l.pos)])
        /\ UNCHANGED <<db, verdict, envVars>>

Seal(c) ==
  LET l == loc[c] IN
  /\ At(c, "seal")
  /\ \/ l.req \notin Stored /\ Throw(c)
     \/ /\ l.req \in Stored
        /\ UpdateRow(l.req, [db[l.req] EXCEPT !.hash = l.hashed])
        /\ IF l.ref = None THEN Release(c) ELSE Goto(c, "link", l)
        /\ UNCHANGED <<verdict, envVars>>

LinkPrevious(c) ==
  LET l == loc[c] IN
  /\ At(c, "link")
  /\ \/ l.ref \notin Stored /\ Throw(c)
     \/ /\ l.ref \in Stored
        /\ UpdateRow(l.ref, [db[l.ref] EXCEPT !.next = l.hashed])
        /\ Release(c)
        /\ UNCHANGED <<verdict, envVars>>

-----------------------------------------------------------------------------
(* updateRecordAndRecalculate() *)

StartUpdate(c, r, x) ==
  /\ r \notin purged
  /\ Acquire(c, "find", [Blank EXCEPT !.req = r, !.arg = x])

FindRecord(c) ==
  LET l == loc[c] IN
  /\ At(c, "find")
  /\ \/ l.req \notin Stored /\ Throw(c)
     \/ /\ l.req \in Stored
        /\ Goto(c, "write", [l EXCEPT !.pos = db[l.req].idx])
        /\ UNCHANGED <<db, verdict, envVars>>

WriteContent(c) ==
  LET l == loc[c] IN
  /\ At(c, "write")
  /\ \/ l.req \notin Stored /\ Throw(c)
     \/ /\ l.req \in Stored
        /\ UpdateRow(l.req, [db[l.req] EXCEPT !.content = l.arg])
        /\ Goto(c, "load", l)
        /\ UNCHANGED <<verdict, envVars>>

\* Variant: findMany without its where clause.
LoadAll(c) ==
  LET l == loc[c]
      copy(q) == [req |-> q, idx |-> db[q].idx, content |-> db[q].content] IN
  /\ At(c, "load")
  /\ Goto(c, IF l.pos = 0 THEN "loop" ELSE "prev",
          [l EXCEPT !.todo = {copy(q) : q \in Stored}, !.last = Genesis])
  /\ UNCHANGED <<db, verdict, envVars>>

\* Variant: gt for gte in the where clause.
LoadAfter(c) ==
  LET l == loc[c]
      copy(q) == [req |-> q, idx |-> db[q].idx, content |-> db[q].content] IN
  /\ At(c, "load")
  /\ Goto(c, IF l.pos = 0 THEN "loop" ELSE "prev",
          [l EXCEPT !.todo = {copy(q) : q \in {s \in Stored : db[s].idx > l.pos}},
                    !.last = Genesis])
  /\ UNCHANGED <<db, verdict, envVars>>

\* findMany from the updated index on: the loop works on this copy.  The first
\* record of the chain has no predecessor to read.
LoadSuffix(c) ==
  LET l == loc[c]
      copy(q) == [req |-> q, idx |-> db[q].idx, content |-> db[q].content] IN
  /\ At(c, "load")
  /\ Goto(c, IF l.pos = 0 THEN "loop" ELSE "prev",
          [l EXCEPT !.todo = {copy(q) : q \in {s \in Stored : db[s].idx >= l.pos}},
                    !.last = Genesis])
  /\ UNCHANGED <<db, verdict, envVars>>

ReadPredecessor(c) ==
  LET l == loc[c]
      before == {q \in Stored : db[q].idx = l.pos - 1} IN
  /\ At(c, "prev")
  /\ \/ before = {} /\ Goto(c, "loop", [l EXCEPT !.last = Genesis])
     \/ \E q \in before : Goto(c, "loop", [l EXCEPT !.last = db[q].hash])
  /\ UNCHANGED <<db, verdict, envVars>>

\* Variant: findMany without its orderBy.
IsAnyOf(s, todo) == s \in todo

\* The copy's next record: its lowest chainIndex (ties come in any order).
IsNext(s, todo) == s \in todo /\ \A t \in todo : s.idx <= t.idx

Rehash(c) ==
  LET l == loc[c] IN
  /\ At(c, "loop")
  /\ \E s \in l.todo :
       LET h == Hash(l.last, s.req, s.content, s.idx) IN
       /\ IsNext(s, l.todo)
       /\ \/ s.req \notin Stored /\ Throw(c)
          \/ /\ s.req \in Stored
             /\ UpdateRow(s.req, [db[s.req] EXCEPT !.prev = l.last, !.hash = h])
             /\ IF l.last = Genesis
                THEN Goto(c, "loop", [l EXCEPT !.todo = @ \ {s}, !.last = h])
                ELSE Goto(c, "findprev", [l EXCEPT !.todo = @ \ {s}, !.hashed = h])
             /\ UNCHANGED <<verdict, envVars>>

\* Variant: the record just hashed is found instead of its predecessor.
FindItself(c) ==
  LET l == loc[c]
      found == {q \in Stored : db[q].hash = l.hashed} IN
  /\ At(c, "findprev")
  /\ \/ found = {} /\ Goto(c, "loop", [l EXCEPT !.last = l.hashed])
     \/ \E q \in found : Goto(c, "next", [l EXCEPT !.ref = q])
  /\ UNCHANGED <<db, verdict, envVars>>

\* The predecessor is looked up by its hash, not by its index.
FindByHash(c) ==
  LET l == loc[c]
      found == {q \in Stored : db[q].hash = l.last} IN
  /\ At(c, "findprev")
  /\ \/ found = {} /\ Goto(c, "loop", [l EXCEPT !.last = l.hashed])
     \/ \E q \in found : Goto(c, "next", [l EXCEPT !.ref = q])
  /\ UNCHANGED <<db, verdict, envVars>>

LinkNext(c) ==
  LET l == loc[c] IN
  /\ At(c, "next")
  /\ \/ l.ref \notin Stored /\ Throw(c)
     \/ /\ l.ref \in Stored
        /\ UpdateRow(l.ref, [db[l.ref] EXCEPT !.next = l.hashed])
        /\ Goto(c, "loop", [l EXCEPT !.last = l.hashed])
        /\ UNCHANGED <<verdict, envVars>>

\* The loop is over; the final read maps the row, or throws on a null one.
Finish(c) ==
  /\ At(c, "loop")
  /\ loc[c].todo = {}
  /\ Throw(c)

-----------------------------------------------------------------------------
(* verifyChain(), which reads the whole table in one findMany *)

\* Sorted by chainIndex, row i has index i: the indices are 0, 1, 2, ...
\* Two rows never share one (record() numbers a block by the last row it read;
\* the schema does not make chainIndex unique), whatever fails or is reset.
IndexUnique == \A p, q \in Stored : db[p].idx = db[q].idx => p = q
IndexDense ==
  \A q \in Stored : db[q].idx = 0 \/ \E p \in Stored : db[p].idx = db[q].idx - 1

\* previousHash repeats the predecessor's hash, and is null at index 0.
LinkOK(q) ==
  \/ db[q].idx = 0 /\ db[q].prev = Genesis
  \/ \E p \in Stored : db[p].idx = db[q].idx - 1 /\ db[q].prev = db[p].hash

\* The stored hash is the one recomputed from the row.
SealOK(q) == db[q].hash = Hash(db[q].prev, q, db[q].content, db[q].idx)

ChainVerified ==
  IndexUnique /\ IndexDense /\ \A q \in Stored : LinkOK(q) /\ SealOK(q)

StartVerify(c) == Acquire(c, "verify", Blank)

Verify(c) ==
  /\ At(c, "verify")
  /\ verdict' = IF ChainVerified THEN "verified" ELSE "broken"
  /\ Release(c)
  /\ UNCHANGED <<db, envVars>>

-----------------------------------------------------------------------------
(* What the calls cannot prevent *)

\* A database call rejects: the call throws, keeping what it already wrote.
DbError(c) ==
  /\ pc[c] # "idle" /\ Holds(c)
  /\ faults < MaxFaults
  /\ faults' = faults + 1
  /\ Release(c)
  /\ UNCHANGED <<db, verdict, purged, resets>>

\* The process dies and restarts: its calls and its Mutex are gone.
Crash(n) ==
  /\ mutex[n] # <<>>
  /\ faults < MaxFaults
  /\ faults' = faults + 1
  /\ mutex' = [mutex EXCEPT ![n] = <<>>]
  /\ pc' = [c \in Callers |-> IF PodOf[c] = n THEN "idle" ELSE pc[c]]
  /\ loc' = [c \in Callers |-> IF PodOf[c] = n THEN Blank ELSE loc[c]]
  /\ UNCHANGED <<db, verdict, purged, resets>>

\* resetDatabase() deletes every audit record without taking the Mutex.
Reset ==
  /\ resets < MaxResets
  /\ resets' = resets + 1
  /\ purged' = purged \cup Stored
  /\ db' = [q \in {} |-> {}]
  /\ UNCHANGED <<mutex, pc, loc, verdict, faults>>

-----------------------------------------------------------------------------
Init ==
  /\ db = [q \in {} |-> {}]
  /\ mutex = [n \in Pods |-> <<>>]
  /\ pc = [c \in Callers |-> "idle"]
  /\ loc = [c \in Callers |-> Blank]
  /\ verdict = "none"
  /\ purged = {}
  /\ faults = 0
  /\ resets = 0

Start(c) ==
  \/ \E r \in Requests, x \in Contents : StartRecord(c, r, x) \/ StartUpdate(c, r, x)
  \/ StartVerify(c)

Step(c) ==
  \/ FindLatest(c) \/ Create(c) \/ Reload(c) \/ Seal(c) \/ LinkPrevious(c)
  \/ FindRecord(c) \/ WriteContent(c) \/ LoadSuffix(c) \/ ReadPredecessor(c)
  \/ Rehash(c) \/ FindByHash(c) \/ LinkNext(c) \/ Finish(c)
  \/ Verify(c)

Next ==
  \/ \E c \in Callers : Start(c) \/ Step(c) \/ DbError(c)
  \/ \E n \in Pods : Crash(n)
  \/ Reset

Spec == Init /\ [][Next]_vars

\* Node's event loop runs every continuation whose database call answered.
FairSpec == Spec /\ \A c \in Callers : WF_vars(Step(c))

-----------------------------------------------------------------------------
(* Properties *)

\* Every variable has its type.
TypeOK ==
  /\ Stored \subseteq Requests /\ db \in [Stored -> Row]
  /\ mutex \in [Pods -> Seq(Callers)]
  /\ pc \in [Callers -> Labels]
  /\ loc \in [Callers -> Locals]
  /\ verdict \in {"none", "verified", "broken"}
  /\ purged \in SUBSET Requests
  /\ faults \in 0..MaxFaults
  /\ resets \in 0..MaxResets

Quiet == \A n \in Pods : mutex[n] = <<>>

\* Whenever no call is inside the ledger, verifyChain() would accept it: a
\* record() or a recalculation leaves a complete, gap-free, correctly linked
\* and sealed chain, whatever calls were queued on the Mutex.
ChainIntact == Quiet => ChainVerified

\* verifyChain() never reports tampering because it ran beside a write: it
\* waits for the Mutex, so it sees no half-written chain.
NoFalseAlarm == verdict # "broken"

\* Whenever no call is inside the ledger, each row's nextHash is the hash of
\* its successor, and the last row has none, although recalculation finds the
\* predecessor by hash and record() by the row it read before creating.
NextHashAgrees ==
  Quiet => \A q \in Stored :
    \/ db[q].next = Genesis /\ \A p \in Stored : db[p].idx <= db[q].idx
    \/ \E p \in Stored : db[p].idx = db[q].idx + 1 /\ db[q].next = db[p].hash

\* A recalculation that reaches its end leaves everything from its record on
\* sealed and linked, whatever broken rows (placeholder hashes, half-finished
\* recalculations) earlier failures left there.
SuffixHealed ==
  [][\A c \in Callers : Finish(c) =>
       \A q \in Stored : db[q].idx >= loc[c].pos =>
         /\ SealOK(q)
         /\ db[q].idx > loc[c].pos => LinkOK(q)]_vars

\* History before the record being amended is never rewritten: a stored hash
\* changes only under a call whose record is not after that row.
PrefixKept ==
  [][\A q \in Stored : q \in Stored' /\ db'[q].hash # db[q].hash =>
       \E c \in Callers : Holds(c) /\ loc[c].pos <= db[q].idx]_vars

\* Every call returns or throws: the Mutex is released on every path, errors
\* and crashes included, and passes to the callers in turn.
CallReturns == \A c \in Callers : (pc[c] # "idle") ~> (pc[c] = "idle")

\* The table without its hash columns is the abstract list.
Abstract == INSTANCE Ledger WITH
  entries <- [q \in Stored |-> [idx |-> db[q].idx, content |-> db[q].content]]

\* With one process and no failure the hash-chained table behaves as the
\* abstract ledger: appends are dense, places never change, an amendment
\* touches one entry, and verifyChain() never answers anything but verified.
ImplementsLedger == Abstract!Spec

=============================================================================
