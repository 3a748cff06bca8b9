------------------------ MODULE LedgerHistoryProofs ------------------------
(***************************************************************************)
(* More theorems about AuditLedger: what one API process keeps of the      *)
(* chain through any number of errors, crashes and resets, the nextHash    *)
(* column, and that the table implements the abstract Ledger.              *)
(***************************************************************************)
EXTENDS AuditLedgerProofs, FiniteSetTheorems

-----------------------------------------------------------------------------
(* One pod, any errors, crashes and resets *)

\* The indices have no gap between the lowest and the highest stored one.
Contiguous ==
  \A q \in Stored : \A p \in Stored : db[p].idx < db[q].idx =>
    \E b \in Stored : db[b].idx = db[q].idx - 1

\* The row a call works on has the index the call remembers.
AtPlace(l) == l.req \in Stored /\ db[l.req].idx = l.pos

\* Every row from pos on is still to come in the copy, or sealed, linked to
\* its predecessor unless it is the first of them, and before all to come.
TailDone(pos, todo) ==
  \A q \in Stored : db[q].idx >= pos =>
    \/ \E s \in todo : s.req = q
    \/ /\ SealOK(q) /\ (db[q].idx > pos => LinkOK(q))
       /\ \A s \in todo : db[q].idx < s.idx

\* h is the hash the next row of the copy must be chained to, unless that
\* row is the amended one.
TailChains(h, pos, todo) ==
  \A s \in todo : IsNext(s, todo) /\ s.idx > pos =>
    \E p \in Stored : db[p].idx = s.idx - 1 /\ db[p].hash = h

\* The copy of the rows from pos on agrees with the table.
TailCopied(pos, todo) == CopyAgrees(todo) /\ \A s \in todo : s.idx >= pos

\* What the call inside the ledger relies on.  A reset may have emptied the
\* table under it; nobody refills it before the call ends.
CallHistory(c) ==
  LET l == loc[c] IN
  Stored = {} \/
  /\ pc[c] = "create" => \E q \in Stored : IsLatest(q) /\ l.pos = db[q].idx + 1
  /\ pc[c] \in {"reload", "seal", "write", "load"} => AtPlace(l)
  /\ pc[c] \in {"prev", "loop", "findprev", "next"} =>
       TailCopied(l.pos, l.todo) /\ TailDone(l.pos, l.todo)
  /\ pc[c] = "prev" => \A s \in l.todo : IsNext(s, l.todo) => s.idx = l.pos
  /\ pc[c] = "loop" => TailChains(l.last, l.pos, l.todo)
  /\ pc[c] \in {"findprev", "next"} => TailChains(l.hashed, l.pos, l.todo)

HistoryInv ==
  IndexUnique /\ Contiguous /\ \A c \in Callers : Inside(c) => CallHistory(c)

\* Indices stay unique and without gaps under a step that writes none of them.
LEMMA IndicesKept ==
  ASSUME HistoryInv, Stored' = Stored, \A q \in Stored : db'[q].idx = db[q].idx
  PROVE  IndexUnique' /\ Contiguous'
  BY DEF HistoryInv, IndexUnique, Contiguous

\* Only the holder is inside, so only what it relies on is at stake.
LEMMA HolderHistory ==
  ASSUME SafeInv, OnePod, NEW c \in Callers, Holds(c),
         \A d \in Callers \ {c} : pc'[d] = pc[d],
         IndexUnique', Contiguous', Inside(c)' => CallHistory(c)'
  PROVE  HistoryInv'
<1>1. \A d \in Callers \ {c} : ~Inside(d)
  BY DEF SafeInv, InsideHolds, OnePod, Holds
<1>2. \A d \in Callers \ {c} : ~Inside(d)'
  BY <1>1 DEF Inside
<1> QED
  BY <1>2 DEF HistoryInv

\* A call that ends relies on nothing any more.
LEMMA ReleaseHistory ==
  ASSUME SafeInv, HistoryInv, OnePod, NEW c \in Callers, Holds(c), Release(c),
         Stored' = Stored, \A q \in Stored : db'[q].idx = db[q].idx
  PROVE  HistoryInv'
<1>1. IndexUnique' /\ Contiguous'
  BY IndicesKept
<1>2. \A d \in Callers \ {c} : pc'[d] = pc[d]
  BY DEF Release, SafeInv, TypeOK
<1>3. ~Inside(c)'
  BY DEF Release, SafeInv, TypeOK, Inside
<1> QED
  BY <1>1, <1>2, <1>3, HolderHistory

\* So does one that throws.
LEMMA ThrowHistory ==
  ASSUME SafeInv, HistoryInv, OnePod, NEW c \in Callers, Holds(c), Throw(c)
  PROVE  HistoryInv'
  BY ReleaseHistory DEF Throw, Stored

\* The holder goes on from a step that writes no index.
LEMMA GotoHistory ==
  ASSUME SafeInv, HistoryInv, OnePod, NEW c \in Callers, Holds(c),
         NEW label, NEW l, Goto(c, label, l),
         Stored' = Stored, \A q \in Stored : db'[q].idx = db[q].idx,
         CallHistory(c)'
  PROVE  HistoryInv'
<1>1. IndexUnique' /\ Contiguous'
  BY IndicesKept
<1>2. \A d \in Callers \ {c} : pc'[d] = pc[d]
  BY DEF Goto, SafeInv, TypeOK
<1> QED
  BY <1>1, <1>2, HolderHistory

\* record() numbers the new row after the last one, or into an empty table.
LEMMA RecordHistory ==
  ASSUME SafeInv, HistoryInv, OnePod, NEW c \in Callers,
         FindLatest(c) \/ Create(c) \/ Reload(c) \/ Seal(c) \/ LinkPrevious(c)
  PROVE  HistoryInv'
<1>l. PICK l : l = loc[c]
  OBVIOUS
<1> USE <1>l
<1>0. /\ Stored \subseteq Requests /\ db \in [Stored -> Row]
      /\ pc \in [Callers -> Labels] /\ loc \in [Callers -> Locals]
      /\ \A q \in Stored : db[q].idx \in Nat
      /\ l.pos \in Nat
  BY DEF SafeInv, TypeOK, Row, Locals
<1>1. IndexUnique /\ Contiguous /\ (Inside(c) => CallHistory(c))
  BY DEF HistoryInv
<1>2. CASE FindLatest(c)
  <2>1. Holds(c)
    BY <1>2 DEF FindLatest, At
  <2>2. PICK m : /\ Goto(c, "create", m)
                 /\ Stored = {} \/ \E q \in Stored : IsLatest(q) /\ m.pos = db[q].idx + 1
    <3>1. ASSUME NEW q \in Stored
          PROVE  [l EXCEPT !.pos = db[q].idx + 1, !.last = db[q].hash, !.ref = q].pos
                   = db[q].idx + 1
      BY <1>0, <3>1 DEF Locals
    <3> QED
      BY <1>2, <3>1 DEF FindLatest
  <2>3. UNCHANGED db /\ pc'[c] = "create" /\ loc'[c] = m
    BY <1>0, <1>2, <2>2 DEF FindLatest, Goto
  <2>4. CallHistory(c)'
    BY <2>2, <2>3 DEF CallHistory, IsLatest, Stored
  <2> QED
    BY <2>1, <2>2, <2>3, <2>4, GotoHistory DEF Stored
<1>3. CASE Create(c)
  <2>1. Holds(c) /\ Inside(c) /\ pc[c] = "create"
    BY <1>3 DEF Create, At, Inside
  <2>2. CASE Throw(c)
    BY <2>1, <2>2, ThrowHistory
  <2>3. CASE ~Throw(c)
    <3> DEFINE r == l.req
    <3>1. /\ r \notin Stored /\ Stored' = Stored \cup {r}
          /\ db'[r].idx = l.pos /\ \A q \in Stored : db'[q] = db[q]
          /\ Goto(c, "reload", l)
      BY <1>3, <2>3 DEF Create, Stored
    <3>2. Stored = {} \/ \E q \in Stored : IsLatest(q) /\ l.pos = db[q].idx + 1
      BY <1>1, <2>1 DEF CallHistory
    <3>3. \A q \in Stored : db[q].idx < l.pos
      BY <1>0, <3>2 DEF IsLatest
    <3>4. IndexUnique'
      BY <1>0, <1>1, <3>1, <3>3 DEF IndexUnique
    <3>5. Contiguous'
      <4> SUFFICES ASSUME NEW q \in Stored', NEW p \in Stored', db'[p].idx < db'[q].idx
                   PROVE  \E b \in Stored' : db'[b].idx = db'[q].idx - 1
        BY DEF Contiguous
      <4>1. p \in Stored
        BY <1>0, <3>1, <3>3
      <4>2. CASE q \in Stored
        BY <1>1, <3>1, <4>1, <4>2 DEF Contiguous
      <4>3. CASE q = r
        BY <1>0, <3>1, <3>2, <4>1, <4>3
      <4> QED
        BY <3>1, <4>2, <4>3
    <3>6. pc'[c] = "reload" /\ loc'[c] = l /\ \A d \in Callers \ {c} : pc'[d] = pc[d]
      BY <1>0, <3>1 DEF Goto
    <3>7. CallHistory(c)'
      BY <3>1, <3>6 DEF CallHistory, AtPlace
    <3> QED
      BY <2>1, <3>4, <3>5, <3>6, <3>7, HolderHistory
  <2> QED
    BY <2>2, <2>3
<1>4. CASE Reload(c)
  <2>1. Holds(c) /\ Inside(c) /\ pc[c] = "reload"
    BY <1>4 DEF Reload, At, Inside
  <2>2. CASE Throw(c)
    BY <2>1, <2>2, ThrowHistory
  <2>3. CASE ~Throw(c)
    <3>m. PICK m : m = [l EXCEPT !.hashed = Hash(l.last, l.req, db[l.req].content, l.pos)]
      OBVIOUS
    <3>1. Goto(c, "seal", m) /\ UNCHANGED db
      BY <1>4, <2>3, <3>m DEF Reload
    <3>2. m.req = l.req /\ m.pos = l.pos
      BY <1>0, <3>m DEF Locals
    <3>3. pc'[c] = "seal" /\ loc'[c] = m
      BY <1>0, <3>1 DEF Goto
    <3>4. CallHistory(c)'
      BY <1>1, <2>1, <3>1, <3>2, <3>3 DEF CallHistory, AtPlace, Stored
    <3> QED
      BY <2>1, <3>1, <3>4, GotoHistory DEF Stored
  <2> QED
    BY <2>2, <2>3
<1>5. CASE Seal(c)
  <2>1. Holds(c)
    BY <1>5 DEF Seal, At
  <2>2. CASE Throw(c)
    BY <2>1, <2>2, ThrowHistory
  <2>3. CASE ~Throw(c)
    <3>1. /\ l.req \in Stored /\ UpdateRow(l.req, [db[l.req] EXCEPT !.hash = l.hashed])
          /\ Release(c) \/ Goto(c, "link", l)
      BY <1>5, <2>3 DEF Seal
    <3>2. Stored' = Stored /\ \A q \in Stored : db'[q].idx = db[q].idx
      BY <1>0, <3>1 DEF UpdateRow, Row, Stored
    <3>3. ASSUME Goto(c, "link", l) PROVE CallHistory(c)'
      BY <1>0, <3>3 DEF Goto, CallHistory
    <3> QED
      BY <2>1, <3>1, <3>2, <3>3, ReleaseHistory, GotoHistory
  <2> QED
    BY <2>2, <2>3
<1>6. CASE LinkPrevious(c)
  <2>1. Holds(c)
    BY <1>6 DEF LinkPrevious, At
  <2>2. CASE Throw(c)
    BY <2>1, <2>2, ThrowHistory
  <2>3. CASE ~Throw(c)
    <3>1. /\ l.ref \in Stored /\ UpdateRow(l.ref, [db[l.ref] EXCEPT !.next = l.hashed])
          /\ Release(c)
      BY <1>6, <2>3 DEF LinkPrevious
    <3>2. Stored' = Stored /\ \A q \in Stored : db'[q].idx = db[q].idx
      BY <1>0, <3>1 DEF UpdateRow, Row, Stored
    <3> QED
      BY <2>1, <3>1, <3>2, ReleaseHistory
  <2> QED
    BY <2>2, <2>3
<1> QED
  BY <1>2, <1>3, <1>4, <1>5, <1>6

\* The recalculation finds its record at the place it copies the rows from.
LEMMA AmendHistory ==
  ASSUME SafeInv, HistoryInv, OnePod, NEW c \in Callers,
         FindRecord(c) \/ WriteContent(c) \/ LoadSuffix(c) \/ ReadPredecessor(c)
  PROVE  HistoryInv'
<1>l. PICK l : l = loc[c]
  OBVIOUS
<1> USE <1>l
<1>0. /\ Stored \subseteq Requests /\ db \in [Stored -> Row]
      /\ pc \in [Callers -> Labels] /\ loc \in [Callers -> Locals]
      /\ \A q \in Stored : db[q].idx \in Nat
      /\ l.pos \in Nat
  BY DEF SafeInv, TypeOK, Row, Locals
<1>1. IndexUnique /\ Contiguous /\ (Inside(c) => CallHistory(c))
  BY DEF HistoryInv
<1>2. CASE FindRecord(c)
  <2>1. Holds(c)
    BY <1>2 DEF FindRecord, At
  <2>2. CASE Throw(c)
    BY <2>1, <2>2, ThrowHistory
  <2>3. CASE ~Throw(c)
    <3>m. PICK m : m = [l EXCEPT !.pos = db[l.req].idx]
      OBVIOUS
    <3>1. /\ l.req \in Stored /\ Goto(c, "write", m) /\ UNCHANGED db
          /\ m.req = l.req /\ m.pos = db[l.req].idx
      BY <1>0, <1>2, <2>3, <3>m DEF FindRecord, Locals
    <3>2. pc'[c] = "write" /\ loc'[c] = m
      BY <1>0, <3>1 DEF Goto
    <3>3. CallHistory(c)'
      BY <3>1, <3>2 DEF CallHistory, AtPlace, Stored
    <3> QED
      BY <2>1, <3>1, <3>3, GotoHistory DEF Stored
  <2> QED
    BY <2>2, <2>3
<1>3. CASE WriteContent(c)
  <2>1. Holds(c) /\ Inside(c) /\ pc[c] = "write"
    BY <1>3 DEF WriteContent, At, Inside
  <2>2. CASE Throw(c)
    BY <2>1, <2>2, ThrowHistory
  <2>3. CASE ~Throw(c)
    <3>1. /\ l.req \in Stored /\ UpdateRow(l.req, [db[l.req] EXCEPT !.content = l.arg])
          /\ Goto(c, "load", l)
      BY <1>3, <2>3 DEF WriteContent
    <3>2. Stored' = Stored /\ \A q \in Stored : db'[q].idx = db[q].idx
      BY <1>0, <3>1 DEF UpdateRow, Row, Stored
    <3>3. pc'[c] = "load" /\ loc'[c] = l
      BY <1>0, <3>1 DEF Goto
    <3>4. CallHistory(c)'
      BY <1>1, <2>1, <3>2, <3>3 DEF CallHistory, AtPlace
    <3> QED
      BY <2>1, <3>1, <3>2, <3>4, GotoHistory
  <2> QED
    BY <2>2, <2>3
<1>4. CASE LoadSuffix(c)
  <2>1. Holds(c) /\ Inside(c) /\ pc[c] = "load"
    BY <1>4 DEF LoadSuffix, At, Inside
  <2> DEFINE copy(q) == [req |-> q, idx |-> db[q].idx, content |-> db[q].content]
  <2>t. PICK todo : todo = {copy(q) : q \in {s \in Stored : db[s].idx >= l.pos}}
    OBVIOUS
  <2>m. PICK m : m = [l EXCEPT !.todo = todo, !.last = Genesis]
    OBVIOUS
  <2>2. /\ Goto(c, IF l.pos = 0 THEN "loop" ELSE "prev", m) /\ UNCHANGED db
        /\ m.pos = l.pos /\ m.todo = todo
    BY <1>0, <1>4, <2>t, <2>m DEF LoadSuffix, Locals
  <2>3. /\ pc'[c] = IF l.pos = 0 THEN "loop" ELSE "prev"
        /\ loc'[c] = m /\ Stored' = Stored
    BY <1>0, <2>2 DEF Goto, Stored
  <2>4. CASE Stored = {}
    BY <2>1, <2>2, <2>3, <2>4, GotoHistory DEF CallHistory
  <2>5. CASE Stored # {}
    <3>1. AtPlace(l)
      BY <1>1, <2>1, <2>5 DEF CallHistory
    <3>2. \A s \in todo : /\ s.req \in Stored /\ s.idx = db[s.req].idx
                          /\ s.content = db[s.req].content /\ s.idx >= l.pos
      BY <2>t
    <3>3. \A q \in Stored : db[q].idx >= l.pos => \E s \in todo : s.req = q /\ s.idx = db[q].idx
      <4> SUFFICES ASSUME NEW q \in Stored, db[q].idx >= l.pos
                   PROVE  \E s \in todo : s.req = q /\ s.idx = db[q].idx
        OBVIOUS
      <4>1. copy(q) \in todo
        BY <2>t
      <4> QED
        BY <4>1
    <3>4. TailCopied(l.pos, todo)
      BY <3>2 DEF TailCopied, CopyAgrees
    <3>5. TailDone(l.pos, todo)
      BY <3>3 DEF TailDone
    <3>6. \A s \in todo : IsNext(s, todo) => s.idx = l.pos
      BY <1>0, <3>1, <3>2, <3>3 DEF IsNext, AtPlace
    <3>7. TailCopied(l.pos, todo)' /\ TailDone(l.pos, todo)'
      BY <2>2, <2>3, <3>4, <3>5 DEF TailCopied, CopyAgrees, TailDone, SealOK, LinkOK
    <3>8. TailChains(m.last, l.pos, todo)'
      BY <1>0, <3>6 DEF TailChains
    <3>9. CallHistory(c)'
      BY <2>2, <2>3, <3>6, <3>7, <3>8 DEF CallHistory
    <3> QED
      BY <2>1, <2>2, <2>3, <3>9, GotoHistory
  <2> QED
    BY <2>4, <2>5
<1>5. CASE ReadPredecessor(c)
  <2>1. Holds(c) /\ Inside(c) /\ pc[c] = "prev"
    BY <1>5 DEF ReadPredecessor, At, Inside
  <2>2. PICK h : Goto(c, "loop", [l EXCEPT !.last = h])
    BY <1>5 DEF ReadPredecessor
  <2>m. PICK m : m = [l EXCEPT !.last = h]
    OBVIOUS
  <2>3. /\ Goto(c, "loop", m) /\ UNCHANGED db
        /\ m.todo = l.todo /\ m.pos = l.pos
    BY <1>0, <1>5, <2>2, <2>m DEF ReadPredecessor, Locals
  <2>4. pc'[c] = "loop" /\ loc'[c] = m /\ Stored' = Stored
    BY <1>0, <2>3 DEF Goto, Stored
  <2>5. CASE Stored = {}
    BY <2>1, <2>3, <2>4, <2>5, GotoHistory DEF CallHistory
  <2>6. CASE Stored # {}
    <3>1. /\ TailCopied(l.pos, l.todo) /\ TailDone(l.pos, l.todo)
          /\ \A s \in l.todo : IsNext(s, l.todo) => s.idx = l.pos
      BY <1>1, <2>1, <2>6 DEF CallHistory
    <3>2. TailCopied(l.pos, l.todo)' /\ TailDone(l.pos, l.todo)'
      BY <2>3, <2>4, <3>1 DEF TailCopied, CopyAgrees, TailDone, SealOK, LinkOK
    <3>3. TailChains(m.last, l.pos, l.todo)'
      BY <1>0, <3>1 DEF TailChains
    <3>4. CallHistory(c)'
      BY <2>3, <2>4, <3>2, <3>3 DEF CallHistory
    <3> QED
      BY <2>1, <2>3, <2>4, <3>4, GotoHistory
  <2> QED
    BY <2>5, <2>6
<1> QED
  BY <1>2, <1>3, <1>4, <1>5

\* The loop seals the rows of its copy in the order of their indices.
LEMMA RehashHistory ==
  ASSUME SafeInv, HistoryInv, OnePod, NEW c \in Callers, Rehash(c)
  PROVE  HistoryInv'
<1>l. PICK l : l = loc[c]
  OBVIOUS
<1> USE <1>l
<1>0. /\ Stored \subseteq Requests /\ db \in [Stored -> Row]
      /\ pc \in [Callers -> Labels] /\ loc \in [Callers -> Locals]
      /\ \A q \in Stored : db[q].idx \in Nat
      /\ l.todo \subseteq Snapshot /\ l.pos \in Nat
  BY DEF SafeInv, TypeOK, Row, Locals
<1>1. Holds(c) /\ Inside(c) /\ pc[c] = "loop"
  BY DEF Rehash, At, Inside
<1>2. PICK s \in l.todo :
        LET h == Hash(l.last, s.req, s.content, s.idx) IN
        /\ IsNext(s, l.todo)
        /\ \/ s.req \notin Stored /\ Throw(c)
           \/ /\ s.req \in Stored
              /\ UpdateRow(s.req, [db[s.req] EXCEPT !.prev = l.last, !.hash = h])
              /\ IF l.last = Genesis
                 THEN Goto(c, "loop", [l EXCEPT !.todo = @ \ {s}, !.last = h])
                 ELSE Goto(c, "findprev", [l EXCEPT !.todo = @ \ {s}, !.hashed = h])
  BY DEF Rehash
<1>3. CASE Throw(c)
  BY <1>1, <1>3, ThrowHistory
<1>4. CASE ~Throw(c)
  <2>1. s.req \in Stored /\ IsNext(s, l.todo)
    BY <1>2, <1>4
  <2>2. /\ IndexUnique /\ Contiguous /\ TailCopied(l.pos, l.todo)
        /\ TailDone(l.pos, l.todo) /\ TailChains(l.last, l.pos, l.todo)
    BY <1>1, <2>1 DEF HistoryInv, CallHistory
  <2>h. PICK h : h = Hash(l.last, s.req, s.content, s.idx)
    OBVIOUS
  <2>t. PICK todo : todo = l.todo \ {s}
    OBVIOUS
  <2>3. /\ db[s.req].idx = s.idx /\ db[s.req].content = s.content
        /\ s.idx \in Nat /\ s.idx >= l.pos
    BY <1>0, <2>2 DEF TailCopied, CopyAgrees, Snapshot
  <2>4. PICK m : /\ m.todo = todo /\ m.pos = l.pos
                 /\ \/ Goto(c, "loop", m) /\ m.last = h
                    \/ Goto(c, "findprev", m) /\ m.hashed = h
    <3>1. PICK x : x = [l EXCEPT !.todo = @ \ {s}, !.last = h]
      OBVIOUS
    <3>2. PICK y : y = [l EXCEPT !.todo = @ \ {s}, !.hashed = h]
      OBVIOUS
    <3>3. /\ x.todo = todo /\ x.last = h /\ x.pos = l.pos
          /\ y.todo = todo /\ y.hashed = h /\ y.pos = l.pos
      BY <1>0, <2>t, <3>1, <3>2 DEF Locals
    <3>4. Goto(c, "loop", x) \/ Goto(c, "findprev", y)
      BY <1>2, <1>4, <2>h, <3>1, <3>2
    <3> QED
      BY <3>3, <3>4
  <2>5. /\ Stored' = Stored /\ \A q \in Stored \ {s.req} : db'[q] = db[q]
        /\ db'[s.req].idx = s.idx /\ db'[s.req].content = s.content
        /\ db'[s.req].prev = l.last /\ db'[s.req].hash = h
    <3>1. PICK row : row = [db[s.req] EXCEPT !.prev = l.last, !.hash = h]
      OBVIOUS
    <3>2. UpdateRow(s.req, row)
      BY <1>2, <1>4, <2>h, <3>1
    <3>3. row.idx = s.idx /\ row.content = s.content /\ row.prev = l.last /\ row.hash = h
      BY <1>0, <2>1, <2>3, <3>1 DEF Row
    <3> QED
      BY <1>0, <2>1, <3>2, <3>3 DEF UpdateRow, Stored
  <2>6. \A q \in Stored : db'[q].idx = db[q].idx
    BY <2>3, <2>5
  <2>7. TailCopied(l.pos, todo)'
    BY <2>2, <2>3, <2>5, <2>t DEF TailCopied, CopyAgrees
  <2>8. \A t \in todo : s.idx < t.idx
    <3> SUFFICES ASSUME NEW t \in todo PROVE s.idx < t.idx
      OBVIOUS
    <3>1. t \in l.todo /\ t # s /\ s.idx <= t.idx /\ t \in Snapshot /\ s \in Snapshot
      BY <1>0, <2>1, <2>t DEF IsNext
    <3>2. t.req \in Stored /\ db[t.req].idx = t.idx /\ db[t.req].content = t.content
      BY <2>2, <3>1 DEF TailCopied, CopyAgrees
    <3>3. ASSUME t.idx = s.idx PROVE FALSE
      <4>1. t.req = s.req /\ t.content = s.content
        BY <2>1, <2>2, <2>3, <3>2, <3>3 DEF IndexUnique
      <4> QED
        BY <3>1, <3>3, <4>1 DEF Snapshot
    <3> QED
      BY <2>3, <3>1, <3>3 DEF Snapshot
  <2>9. SealOK(s.req)' /\ (s.idx > l.pos => LinkOK(s.req)')
    <3>1. SealOK(s.req)'
      BY <2>5, <2>h DEF SealOK
    <3>2. ASSUME s.idx > l.pos PROVE LinkOK(s.req)'
      <4>1. PICK p \in Stored : db[p].idx = s.idx - 1 /\ db[p].hash = l.last
        BY <2>1, <2>2, <3>2 DEF TailChains
      <4>2. p # s.req
        BY <2>3, <4>1
      <4> QED
        BY <2>5, <4>1, <4>2 DEF LinkOK
    <3> QED
      BY <3>1, <3>2
  <2>10. TailDone(l.pos, todo)'
    <3> SUFFICES ASSUME NEW q \in Stored, db[q].idx >= l.pos, ~ \E t \in todo : t.req = q
                 PROVE  /\ SealOK(q)' /\ (db[q].idx > l.pos => LinkOK(q)')
                        /\ \A t \in todo : db[q].idx < t.idx
      BY <2>5, <2>6 DEF TailDone
    <3>1. CASE q = s.req
      BY <2>3, <2>8, <2>9, <3>1
    <3>2. CASE q # s.req
      <4>1. /\ SealOK(q) /\ (db[q].idx > l.pos => LinkOK(q))
            /\ \A t \in l.todo : db[q].idx < t.idx
        BY <2>2, <2>t, <3>2 DEF TailDone
      <4>2. db[q].idx < s.idx /\ db[q].idx \in Nat
        BY <1>0, <4>1
      <4>3. SealOK(q)'
        BY <2>5, <3>2, <4>1, SameSeal
      <4>4. ASSUME db[q].idx > l.pos PROVE LinkOK(q)'
        <5>1. LinkOK(q) /\ db'[q] = db[q]
          BY <2>5, <3>2, <4>1, <4>4
        <5>2. \A p \in Stored : db[p].idx = db[q].idx - 1 => p # s.req
          BY <2>3, <4>2
        <5> QED
          BY <2>5, <5>1, <5>2, SameLink
      <4> QED
        BY <2>t, <4>1, <4>3, <4>4
    <3> QED
      BY <3>1, <3>2
  <2>11. TailChains(h, l.pos, todo)'
    <3> SUFFICES ASSUME NEW t \in todo, IsNext(t, todo), t.idx > l.pos
                 PROVE  \E p \in Stored : db'[p].idx = t.idx - 1 /\ db'[p].hash = h
      BY <2>5 DEF TailChains
    <3>1. /\ t.req \in Stored /\ db[t.req].idx = t.idx /\ t.idx \in Nat /\ s.idx < t.idx
      BY <1>0, <2>2, <2>8, <2>t DEF TailCopied, CopyAgrees, Snapshot
    <3>2. PICK p \in Stored : db[p].idx = t.idx - 1
      BY <2>1, <2>2, <2>3, <3>1 DEF Contiguous
    <3>3. ASSUME NEW u \in todo, u.req = p PROVE FALSE
      <4>1. u.idx = t.idx - 1
        BY <2>2, <2>t, <3>2, <3>3 DEF TailCopied, CopyAgrees
      <4> QED
        BY <3>1, <4>1 DEF IsNext
    <3>4. p = s.req
      <4>1. SUFFICES ASSUME p # s.req PROVE FALSE
        OBVIOUS
      <4>2. db[p].idx >= l.pos
        BY <1>0, <2>3, <3>1, <3>2
      <4>3. db[p].idx < s.idx
        BY <2>2, <2>t, <3>3, <4>1, <4>2 DEF TailDone
      <4> QED
        BY <2>3, <3>1, <3>2, <4>3
    <3> QED
      BY <2>1, <2>5, <2>6, <3>2, <3>4
  <2>12. pc'[c] \in {"loop", "findprev"} /\ loc'[c] = m
         /\ (pc'[c] = "loop" => m.last = h) /\ (pc'[c] = "findprev" => m.hashed = h)
    BY <1>0, <2>4 DEF Goto
  <2>13. CallHistory(c)'
    BY <2>4, <2>7, <2>10, <2>11, <2>12 DEF CallHistory
  <2> QED
    BY <1>1, <2>4, <2>5, <2>6, <2>13, GotoHistory
<1> QED
  BY <1>3, <1>4

\* The rest of the loop writes nextHash only.
LEMMA LoopHistory ==
  ASSUME SafeInv, HistoryInv, OnePod, NEW c \in Callers,
         FindByHash(c) \/ LinkNext(c) \/ Finish(c)
  PROVE  HistoryInv'
<1>l. PICK l : l = loc[c]
  OBVIOUS
<1> USE <1>l
<1>0. /\ Stored \subseteq Requests /\ db \in [Stored -> Row]
      /\ pc \in [Callers -> Labels] /\ loc \in [Callers -> Locals]
  BY DEF SafeInv, TypeOK
<1>1. Holds(c) /\ Inside(c) /\ CallHistory(c)
  BY DEF HistoryInv, FindByHash, LinkNext, Finish, At, Inside
<1>2. CASE Throw(c)
  BY <1>1, <1>2, ThrowHistory
<1>3. CASE ~Throw(c)
  <2>1. pc[c] \in {"findprev", "next"}
    BY <1>3 DEF FindByHash, LinkNext, Finish, At
  <2>2. PICK m : /\ m.todo = l.todo /\ m.pos = l.pos /\ m.hashed = l.hashed
                 /\ \/ Goto(c, "loop", m) /\ m.last = l.hashed
                    \/ Goto(c, "next", m)
    <3>1. PICK x : x = [l EXCEPT !.last = l.hashed]
      OBVIOUS
    <3>2. x.todo = l.todo /\ x.pos = l.pos /\ x.hashed = l.hashed /\ x.last = l.hashed
      BY <1>0, <3>1 DEF Locals
    <3>3. ASSUME NEW q PROVE LET y == [l EXCEPT !.ref = q] IN
                             y.todo = l.todo /\ y.pos = l.pos /\ y.hashed = l.hashed
      BY <1>0 DEF Locals
    <3>4. Goto(c, "loop", x) \/ \E q : Goto(c, "next", [l EXCEPT !.ref = q])
      BY <1>3, <3>1 DEF FindByHash, LinkNext, Finish
    <3> QED
      BY <3>2, <3>3, <3>4
  <2>3. /\ Stored' = Stored
        /\ \A q \in Stored : /\ db'[q].idx = db[q].idx /\ db'[q].prev = db[q].prev
                             /\ db'[q].content = db[q].content /\ db'[q].hash = db[q].hash
    <3>1. db' = db \/ /\ l.ref \in Stored
                      /\ UpdateRow(l.ref, [db[l.ref] EXCEPT !.next = l.hashed])
      BY <1>3 DEF FindByHash, LinkNext, Finish
    <3> QED
      BY <1>0, <3>1 DEF UpdateRow, Row, Stored
  <2>4. /\ pc'[c] \in {"loop", "next"} /\ loc'[c] = m
        /\ (pc'[c] = "loop" => m.last = l.hashed)
    BY <1>0, <2>2 DEF Goto
  <2>5. CASE Stored = {}
    BY <1>1, <2>2, <2>3, <2>5, GotoHistory DEF CallHistory
  <2>6. CASE Stored # {}
    <3>1. /\ TailCopied(l.pos, l.todo) /\ TailDone(l.pos, l.todo)
          /\ TailChains(l.hashed, l.pos, l.todo)
      BY <1>1, <2>1, <2>6 DEF CallHistory
    <3>2. TailCopied(l.pos, l.todo)' /\ TailChains(l.hashed, l.pos, l.todo)'
      BY <2>3, <3>1 DEF TailCopied, CopyAgrees, TailChains
    <3>3. TailDone(l.pos, l.todo)'
      BY <2>3, <3>1, SameLink, SameSeal DEF TailDone
    <3>4. CallHistory(c)'
      BY <2>2, <2>4, <3>2, <3>3 DEF CallHistory
    <3> QED
      BY <1>1, <2>2, <2>3, <3>4, GotoHistory
  <2> QED
    BY <2>5, <2>6
<1> QED
  BY <1>2, <1>3

\* What a call relies on is about the table and its own locals only.
LEMMA OthersHistory ==
  ASSUME HistoryInv, UNCHANGED db,
         \A d \in Callers : Inside(d)' => Inside(d) /\ pc'[d] = pc[d] /\ loc'[d] = loc[d]
  PROVE  HistoryInv'
<1>1. IndexUnique' /\ Contiguous'
  BY DEF HistoryInv, IndexUnique, Contiguous, Stored
<1>2. ASSUME NEW d \in Callers, Inside(d)' PROVE CallHistory(d)'
  BY <1>2 DEF HistoryInv, CallHistory, IsLatest, AtPlace, TailCopied, CopyAgrees,
     TailDone, TailChains, LinkOK, SealOK, Stored
<1> QED
  BY <1>1, <1>2 DEF HistoryInv

\* Every step of the system, errors, crashes and resets included, keeps it.
LEMMA HistoryStep ==
  ASSUME OnePod
  PROVE  SafeInv /\ HistoryInv /\ [Next]_vars => HistoryInv'
<1> SUFFICES ASSUME SafeInv, HistoryInv, [Next]_vars PROVE HistoryInv'
  OBVIOUS
<1>0. pc \in [Callers -> Labels] /\ loc \in [Callers -> Locals]
  BY DEF SafeInv, TypeOK
<1>1. ASSUME NEW c \in Callers, Start(c) PROVE HistoryInv'
  <2>1. ASSUME NEW label \in {"latest", "find", "verify"}, NEW l, Acquire(c, label, l)
        PROVE  HistoryInv'
    BY <1>0, <2>1, OthersHistory DEF Acquire, Inside
  <2> QED
    BY <1>1, <2>1 DEF Start, StartRecord, StartUpdate, StartVerify
<1>2. ASSUME NEW c \in Callers, Step(c) PROVE HistoryInv'
  <2>1. CASE Verify(c)
    BY <2>1, ReleaseHistory DEF Verify, At, Stored
  <2> QED
    BY <1>2, <2>1, RecordHistory, AmendHistory, RehashHistory, LoopHistory DEF Step
<1>3. ASSUME NEW c \in Callers, DbError(c) PROVE HistoryInv'
  BY <1>3, ReleaseHistory DEF DbError, Stored
<1>4. ASSUME NEW n \in Pods, Crash(n) PROVE HistoryInv'
  BY <1>0, <1>4, OthersHistory DEF Crash, Inside
<1>5. CASE Reset
  <2>1. Stored' = {}
    BY <1>5 DEF Reset, Stored
  <2> QED
    BY <2>1 DEF HistoryInv, IndexUnique, Contiguous, CallHistory
<1>6. CASE UNCHANGED vars
  BY <1>6, OthersHistory DEF vars, Inside
<1> QED
  BY <1>1, <1>2, <1>3, <1>4, <1>5, <1>6 DEF Next

\* The empty table has no gaps.
LEMMA HistoryInit == Init => HistoryInv
  BY DEF Init, HistoryInv, IndexUnique, Contiguous, Inside, Stored

\* With one pod both invariants hold for ever.
LEMMA HistoryAlways == ASSUME OnePod PROVE Spec => [](SafeInv /\ HistoryInv)
<1>1. Init => SafeInv /\ HistoryInv
  BY SafeInit, HistoryInit
<1>2. SafeInv /\ HistoryInv /\ [Next]_vars => SafeInv' /\ HistoryInv'
  BY SafeStep, HistoryStep
<1> QED
  BY <1>1, <1>2, PTL DEF Spec

\* With one API process no two rows ever share a chainIndex, although the
\* schema does not say so: through every interleaving of calls, and any
\* number of errors, crashes and resets in the middle of them.
THEOREM IndexUniqueHolds == ASSUME OnePod PROVE Spec => []IndexUnique
<1>1. SafeInv /\ HistoryInv => IndexUnique
  BY DEF HistoryInv
<1> QED
  BY <1>1, HistoryAlways, PTL

\* A recalculation that ends heals everything from its record on, whatever
\* earlier errors, crashes and resets left there.
THEOREM SuffixHealedHolds == ASSUME OnePod PROVE Spec => SuffixHealed
<1> DEFINE Heals ==
      \A c \in Callers : Finish(c) =>
        \A q \in Stored : db[q].idx >= loc[c].pos =>
          /\ SealOK(q)
          /\ db[q].idx > loc[c].pos => LinkOK(q)
<1>1. SafeInv /\ HistoryInv => Heals
  <2> SUFFICES ASSUME SafeInv, HistoryInv, NEW c \in Callers, Finish(c),
                      NEW q \in Stored, db[q].idx >= loc[c].pos
               PROVE  SealOK(q) /\ (db[q].idx > loc[c].pos => LinkOK(q))
    OBVIOUS
  <2>1. Inside(c) /\ pc[c] = "loop" /\ loc[c].todo = {}
    BY DEF Finish, At, Inside
  <2>2. TailDone(loc[c].pos, {})
    BY <2>1 DEF HistoryInv, CallHistory
  <2> QED
    BY <2>2 DEF TailDone
<1>2. SafeInv /\ HistoryInv /\ [Next]_vars => [Heals]_vars
  BY <1>1
<1>3. Spec => [][Heals]_vars
  BY <1>2, HistoryAlways, PTL DEF Spec
<1> QED
  BY <1>3 DEF SuffixHealed

\* Only these steps write a hash into a row that was there before.
LEMMA HashWriters ==
  ASSUME SafeInv, [Next]_vars, NEW q \in Stored, q \in Stored', db'[q].hash # db[q].hash
  PROVE  \E c \in Callers :
           \/ Seal(c) /\ ~Throw(c) /\ q = loc[c].req
           \/ Rehash(c) /\ \E s \in loc[c].todo : q = s.req
<1>0. db \in [Stored -> Row]
  BY DEF SafeInv, TypeOK
<1>1. db' # db
  OBVIOUS
<1>2. PICK c \in Callers : \/ Create(c) \/ Seal(c) \/ LinkPrevious(c) \/ WriteContent(c)
                           \/ Rehash(c) \/ LinkNext(c)
  <2>1. ~ Reset
    BY DEF Reset, Stored
  <2>2. ~ \E n \in Pods : Crash(n)
    BY <1>1 DEF Crash
  <2>3. \E c \in Callers : Step(c)
    BY <1>1, <2>1, <2>2
       DEF Next, Start, StartRecord, StartUpdate, StartVerify, Acquire, DbError, vars
  <2>4. ASSUME NEW c \in Callers,
               \/ FindLatest(c) \/ Reload(c) \/ FindRecord(c) \/ LoadSuffix(c)
               \/ ReadPredecessor(c) \/ FindByHash(c) \/ Finish(c) \/ Verify(c)
        PROVE  FALSE
    BY <1>1, <2>4 DEF FindLatest, Reload, FindRecord, LoadSuffix, ReadPredecessor,
                      FindByHash, Finish, Verify, Throw
  <2> QED
    BY <2>3, <2>4 DEF Step
<1>3. ~ Throw(c)
  BY <1>1 DEF Throw
<1>4. CASE Create(c)
  BY <1>3, <1>4 DEF Create, Stored
<1>5. CASE Seal(c)
  <2>1. loc[c].req \in Stored
        /\ UpdateRow(loc[c].req, [db[loc[c].req] EXCEPT !.hash = loc[c].hashed])
    BY <1>3, <1>5 DEF Seal
  <2>2. q = loc[c].req
    BY <1>0, <2>1 DEF UpdateRow
  <2> QED
    BY <1>3, <1>5, <2>2
<1>6. CASE LinkPrevious(c)
  <2>1. loc[c].ref \in Stored
        /\ UpdateRow(loc[c].ref, [db[loc[c].ref] EXCEPT !.next = loc[c].hashed])
    BY <1>3, <1>6 DEF LinkPrevious
  <2> QED
    BY <1>0, <2>1 DEF UpdateRow, Row
<1>7. CASE LinkNext(c)
  <2>1. loc[c].ref \in Stored
        /\ UpdateRow(loc[c].ref, [db[loc[c].ref] EXCEPT !.next = loc[c].hashed])
    BY <1>3, <1>7 DEF LinkNext
  <2> QED
    BY <1>0, <2>1 DEF UpdateRow, Row
<1>8. CASE WriteContent(c)
  <2>1. loc[c].req \in Stored
        /\ UpdateRow(loc[c].req, [db[loc[c].req] EXCEPT !.content = loc[c].arg])
    BY <1>3, <1>8 DEF WriteContent
  <2> QED
    BY <1>0, <2>1 DEF UpdateRow, Row
<1>9. CASE Rehash(c)
  <2>1. PICK s \in loc[c].todo : \E row : s.req \in Stored /\ UpdateRow(s.req, row)
    BY <1>3, <1>9 DEF Rehash
  <2>2. q = s.req
    BY <1>0, <2>1 DEF UpdateRow
  <2> QED
    BY <1>9, <2>2
<1> QED
  BY <1>2, <1>4, <1>5, <1>6, <1>7, <1>8, <1>9

\* With one API process a stored hash changes only under a call whose record
\* is not after that row, whatever fails and whenever the table is reset.
THEOREM PrefixKeptHolds == ASSUME OnePod PROVE Spec => PrefixKept
<1> DEFINE Keeps ==
      \A q \in Stored : q \in Stored' /\ db'[q].hash # db[q].hash =>
        \E c \in Callers : Holds(c) /\ loc[c].pos <= db[q].idx
<1>1. SafeInv /\ HistoryInv /\ [Next]_vars => Keeps
  <2> SUFFICES ASSUME SafeInv, HistoryInv, [Next]_vars,
                      NEW q \in Stored, q \in Stored', db'[q].hash # db[q].hash
               PROVE  \E c \in Callers : Holds(c) /\ loc[c].pos <= db[q].idx
    OBVIOUS
  <2>1. PICK c \in Callers :
           \/ Seal(c) /\ ~Throw(c) /\ q = loc[c].req
           \/ Rehash(c) /\ \E s \in loc[c].todo : q = s.req
    BY HashWriters
  <2>2. Holds(c) /\ Inside(c) /\ CallHistory(c)
    BY <2>1 DEF HistoryInv, Seal, Rehash, At, Inside
  <2>3. db[q].idx \in Nat
    BY DEF SafeInv, TypeOK, Row
  <2>4. loc[c].pos \in Nat
    BY DEF SafeInv, TypeOK, Locals
  <2>5. ASSUME Seal(c), q = loc[c].req PROVE loc[c].pos <= db[q].idx
    <3>1. pc[c] = "seal"
      BY <2>5 DEF Seal, At
    <3>2. AtPlace(loc[c])
      BY <2>2, <3>1 DEF CallHistory
    <3> QED
      BY <2>3, <2>5, <3>2 DEF AtPlace
  <2>6. ASSUME Rehash(c), NEW s \in loc[c].todo, q = s.req PROVE loc[c].pos <= db[q].idx
    <3>1. pc[c] = "loop"
      BY <2>6 DEF Rehash, At
    <3>2. TailCopied(loc[c].pos, loc[c].todo)
      BY <2>2, <3>1 DEF CallHistory
    <3> QED
      BY <2>3, <2>4, <2>6, <3>2 DEF TailCopied, CopyAgrees
  <2> QED
    BY <2>1, <2>2, <2>5, <2>6
<1>2. Spec => [][Keeps]_vars
  BY <1>1, HistoryAlways, PTL DEF Spec
<1> QED
  BY <1>2 DEF PrefixKept

-----------------------------------------------------------------------------
(* The nextHash column and the abstract ledger, with one pod and neither   *)
(* faults nor resets: on top of the chain invariant.                       *)

\* The record whose columns a hash was computed from, or the placeholder's.
Owner(h) == h[Len(h)].req

\* A row's hash is its own, so that a lookup by hash finds no other row.
Owned(q) == db[q].hash # Genesis /\ Owner(db[q].hash) = q

NextOK(q) ==
  \/ db[q].next = Genesis /\ IsLatest(q)
  \/ \E p \in Stored : db[p].idx = db[q].idx + 1 /\ db[q].next = db[p].hash

AllNext == \A q \in Stored : NextOK(q)
NextBut(r) == \A q \in Stored \ {r} : NextOK(q)

\* The row after p has the hash h.
Follows(p, h) ==
  p \in Stored /\ \E s \in Stored : db[s].idx = db[p].idx + 1 /\ db[s].hash = h

\* The places are those of a list.
TableInv ==
  /\ \A q \in Stored : Owned(q)
  /\ IsFiniteSet(Stored)
  /\ \A q \in Stored : IsLatest(q) => db[q].idx = Cardinality(Stored) - 1

\* The row that record() will link is the one before the row it creates.
CallNext(c) ==
  LET l == loc[c] IN
  /\ pc[c] = "create" =>
       /\ AllNext /\ l.pos = Cardinality(Stored)
       /\ \/ Stored = {} /\ l.ref = None
          \/ IsLatest(l.ref) /\ l.pos = db[l.ref].idx + 1
  /\ pc[c] \in {"reload", "seal"} =>
       /\ IsLatest(l.req) /\ db[l.req].next = Genesis /\ NextBut(l.ref)
       /\ \/ Stored = {l.req} /\ l.ref = None
          \/ l.ref \in Stored /\ db[l.req].idx = db[l.ref].idx + 1
  /\ pc[c] \in {"link", "next"} => Follows(l.ref, l.hashed) /\ NextBut(l.ref)
  /\ pc[c] \in {"write", "load", "prev", "loop"} => AllNext
  /\ pc[c] = "findprev" =>
       \E p \in Stored : db[p].hash = l.last /\ Follows(p, l.hashed) /\ NextBut(p)

NextInv ==
  /\ TableInv
  /\ \A c \in Callers : pc[c] = "latest" => loc[c].ref = None
  /\ (\A c \in Callers : ~Inside(c)) => AllNext
  /\ \A c \in Callers : Inside(c) => CallNext(c)

\* The last link of a hash names the record that was hashed.
LEMMA OwnerHash ==
  ASSUME NEW prev \in Hashes, NEW r \in Requests, NEW x \in Contents, NEW i \in Nat
  PROVE  Hash(prev, r, x, i) # Genesis /\ Owner(Hash(prev, r, x, i)) = r
<1>1. PICK e : e = [req |-> r, content |-> x, idx |-> i]
  OBVIOUS
<1>2. e \in Link /\ e.req = r
  BY <1>1 DEF Link
<1>3. prev \in Seq(Link) /\ Hash(prev, r, x, i) = Append(prev, e)
  BY <1>1 DEF Hash, Hashes
<1>4. PICK a : a = Append(prev, e)
  OBVIOUS
<1>5. Len(a) = Len(prev) + 1 /\ a[Len(prev) + 1] = e /\ Len(prev) \in Nat
  BY <1>2, <1>3, <1>4
<1>6. Len(Genesis) = 0
  BY DEF Genesis
<1>7. a # Genesis
  BY <1>5, <1>6
<1> QED
  BY <1>2, <1>3, <1>4, <1>5, <1>7 DEF Owner

\* So does the placeholder.
LEMMA OwnerTemp ==
  ASSUME NEW r \in Requests
  PROVE  TempHash(r) # Genesis /\ Owner(TempHash(r)) = r
<1>1. Len(TempHash(r)) = 1 /\ TempHash(r)[1].req = r
  <2>1. PICK e : e = [req |-> r, content |-> None, idx |-> 0]
    OBVIOUS
  <2>2. TempHash(r) = <<e>> /\ e.req = r
    BY <2>1 DEF TempHash
  <2>3. Len(<<e>>) = 1 /\ <<e>>[1] = e
    OBVIOUS
  <2> QED
    BY <2>2, <2>3
<1>2. Len(Genesis) = 0
  BY DEF Genesis
<1> QED
  BY <1>1, <1>2 DEF Owner

\* Whatever is kept of indices, hashes and nextHashes keeps what they say.
LEMMA NextKept ==
  ASSUME Stored' = Stored,
         \A q \in Stored : /\ db'[q].idx = db[q].idx /\ db'[q].hash = db[q].hash
                           /\ db'[q].next = db[q].next
  PROVE  /\ TableInv => TableInv'
         /\ AllNext => AllNext'
         /\ \A r : NextBut(r) => NextBut(r)'
         /\ \A q : IsLatest(q) => IsLatest(q)'
         /\ \A p, h : Follows(p, h) => Follows(p, h)'
<1>1. \A q : IsLatest(q)' <=> IsLatest(q)
  BY DEF IsLatest
<1>2. \A q \in Stored : (NextOK(q) => NextOK(q)') /\ (Owned(q) => Owned(q)')
  BY <1>1 DEF NextOK, Owned
<1>3. AllNext => AllNext'
  BY <1>2 DEF AllNext
<1>4. \A r : NextBut(r) => NextBut(r)'
  BY <1>2 DEF NextBut
<1>5. TableInv => TableInv'
  BY <1>1, <1>2 DEF TableInv
<1>6. \A p, h : Follows(p, h) => Follows(p, h)'
  BY DEF Follows
<1> QED
  BY <1>1, <1>3, <1>4, <1>5, <1>6

\* A new hash in one row disturbs the row before it only.
LEMMA HashWritten ==
  ASSUME SafeInv, IndexUnique, TableInv, NEW r \in Stored, NEW h,
         Stored' = Stored, \A q \in Stored \ {r} : db'[q] = db[q],
         db'[r].idx = db[r].idx, db'[r].next = db[r].next, db'[r].hash = h,
         h # Genesis, Owner(h) = r
  PROVE  /\ TableInv'
         /\ \A q : IsLatest(q) => IsLatest(q)'
         /\ \A q \in Stored : NextOK(q) /\ db[q].idx + 1 # db[r].idx => NextOK(q)'
<1>1. \A q \in Stored : db'[q].idx = db[q].idx /\ db'[q].next = db[q].next
  OBVIOUS
<1>2. \A q : IsLatest(q)' <=> IsLatest(q)
  BY <1>1 DEF IsLatest
<1>3. \A q \in Stored : Owned(q)'
  BY DEF TableInv, Owned
<1>4. TableInv'
  BY <1>1, <1>2, <1>3 DEF TableInv
<1>5. \A q \in Stored : NextOK(q) /\ db[q].idx + 1 # db[r].idx => NextOK(q)'
  <2> SUFFICES ASSUME NEW q \in Stored, NextOK(q), db[q].idx + 1 # db[r].idx
               PROVE  NextOK(q)'
    OBVIOUS
  <2>1. CASE db[q].next = Genesis /\ IsLatest(q)
    BY <1>1, <1>2, <2>1 DEF NextOK
  <2>2. ASSUME NEW p \in Stored, db[p].idx = db[q].idx + 1, db[q].next = db[p].hash
        PROVE  NextOK(q)'
    <3>1. p # r
      BY <2>2
    <3>2. db'[p] = db[p]
      BY <2>2, <3>1
    <3> QED
      BY <1>1, <2>2, <3>2 DEF NextOK
  <2> QED
    BY <2>1, <2>2 DEF NextOK
<1> QED
  BY <1>2, <1>4, <1>5

\* Writing the hash of its successor into the one row that lacks it.
LEMMA NextWritten ==
  ASSUME SafeInv, TableInv, NEW p, NEW h, Follows(p, h), NextBut(p),
         UpdateRow(p, [db[p] EXCEPT !.next = h])
  PROVE  TableInv' /\ AllNext'
<1>0. db \in [Stored -> Row] /\ p \in Stored
  BY DEF SafeInv, TypeOK, Follows
<1>1. /\ Stored' = Stored /\ \A q \in Stored \ {p} : db'[q] = db[q]
      /\ \A q \in Stored : db'[q].idx = db[q].idx /\ db'[q].hash = db[q].hash
      /\ db'[p].next = h
  BY <1>0 DEF UpdateRow, Row, Stored
<1>2. \A q : IsLatest(q)' <=> IsLatest(q)
  BY <1>1 DEF IsLatest
<1>3. TableInv'
  BY <1>1, <1>2 DEF TableInv, Owned
<1>4. NextOK(p)'
  BY <1>0, <1>1 DEF Follows, NextOK
<1>5. \A q \in Stored \ {p} : NextOK(q)'
  BY <1>1, <1>2 DEF NextBut, NextOK
<1> QED
  BY <1>1, <1>3, <1>4, <1>5 DEF AllNext

\* The holder goes on.
LEMMA GotoNext ==
  ASSUME SafeInv, NextInv, OnePod, NEW c \in Callers, Holds(c),
         NEW label, NEW l, Goto(c, label, l), label # "latest",
         Inside(c)', TableInv', CallNext(c)'
  PROVE  NextInv'
<1>1. \A d \in Callers \ {c} : ~Inside(d) /\ pc'[d] = pc[d] /\ loc'[d] = loc[d]
  BY DEF SafeInv, TypeOK, InsideHolds, OnePod, Holds, Goto
<1>2. \A d \in Callers \ {c} : ~Inside(d)'
  BY <1>1 DEF Inside
<1>3. pc'[c] # "latest"
  BY DEF SafeInv, TypeOK, Goto
<1>4. \A d \in Callers : pc'[d] = "latest" => loc'[d].ref = None
  BY <1>1, <1>3 DEF NextInv
<1> QED
  BY <1>2, <1>4 DEF NextInv

\* The call ends and leaves the column right.
LEMMA ReleaseNext ==
  ASSUME SafeInv, NextInv, OnePod, NEW c \in Callers, Holds(c), Release(c),
         TableInv', AllNext'
  PROVE  NextInv'
<1>1. \A d \in Callers \ {c} : ~Inside(d) /\ pc'[d] = pc[d] /\ loc'[d] = loc[d]
  BY DEF SafeInv, TypeOK, InsideHolds, OnePod, Holds, Release
<1>2. pc'[c] = "idle"
  BY DEF SafeInv, TypeOK, Release
<1>3. \A d \in Callers : ~Inside(d)'
  BY <1>1, <1>2 DEF Inside
<1>4. \A d \in Callers : pc'[d] = "latest" => loc'[d].ref = None
  BY <1>1, <1>2 DEF NextInv
<1> QED
  BY <1>3, <1>4 DEF NextInv

\* A call that throws from where the column is right leaves it so.
LEMMA ThrowNext ==
  ASSUME SafeInv, NextInv, OnePod, NEW c \in Callers, Holds(c), Release(c),
         UNCHANGED db, AllNext
  PROVE  NextInv'
<1>1. TableInv' /\ AllNext'
  BY NextKept DEF NextInv, Stored
<1> QED
  BY <1>1, ReleaseNext

\* A call that is not inside sees the column right.
LEMMA HolderNext ==
  ASSUME SafeInv, NextInv, OnePod, NEW c \in Callers, Holds(c), ~Inside(c)
  PROVE  AllNext
<1>1. \A d \in Callers : ~Inside(d)
  BY DEF SafeInv, InsideHolds, OnePod, Holds
<1> QED
  BY <1>1 DEF NextInv

\* record() appends at the end of the list and links the row that was last.
LEMMA RecordNext ==
  ASSUME SafeInv, ChainInv, NextInv, OnePod, NEW c \in Callers,
         FindLatest(c) \/ Create(c) \/ Reload(c) \/ Seal(c) \/ LinkPrevious(c)
  PROVE  NextInv'
<1>l. PICK l : l = loc[c]
  OBVIOUS
<1> USE <1>l
<1>0. /\ Stored \subseteq Requests /\ db \in [Stored -> Row]
      /\ pc \in [Callers -> Labels] /\ loc \in [Callers -> Locals]
      /\ \A q \in Stored : db[q].idx \in Nat
      /\ Working(c) => l.req \in Requests /\ l.arg \in Contents
      /\ None \notin Stored
  BY ConstantsAssumption DEF SafeInv, TypeOK, ArgsOK, Row
<1>1. /\ IndexUnique /\ (Inside(c) => CallInv(c) /\ CallNext(c)) /\ TableInv
      /\ IsFiniteSet(Stored) /\ Cardinality(Stored) \in Nat
  BY FS_CardinalityType DEF ChainInv, NextInv, TableInv
<1>2. CASE FindLatest(c)
  <2>1. Holds(c) /\ ~Inside(c) /\ pc[c] = "latest" /\ UNCHANGED db
    BY <1>2 DEF FindLatest, At, Inside
  <2>2. AllNext /\ l.ref = None
    BY <2>1, HolderNext DEF NextInv
  <2>3. PICK m : /\ Goto(c, "create", m) /\ m.pos = Cardinality(Stored)
                 /\ \/ Stored = {} /\ m.ref = None
                    \/ IsLatest(m.ref) /\ m.pos = db[m.ref].idx + 1
    <3>1. CASE Stored = {} /\ Goto(c, "create", [l EXCEPT !.pos = 0, !.last = Genesis])
      <4>1. PICK m : m = [l EXCEPT !.pos = 0, !.last = Genesis]
        OBVIOUS
      <4>2. m.pos = 0 /\ m.ref = None
        BY <1>0, <2>2, <4>1 DEF Locals
      <4>3. Cardinality({}) = 0
        BY FS_EmptySet
      <4> QED
        BY <3>1, <4>1, <4>2, <4>3
    <3>2. ASSUME NEW q \in Stored, IsLatest(q),
                 Goto(c, "create", [l EXCEPT !.pos = db[q].idx + 1,
                                             !.last = db[q].hash, !.ref = q])
          PROVE  \E m : /\ Goto(c, "create", m) /\ m.pos = Cardinality(Stored)
                        /\ IsLatest(m.ref) /\ m.pos = db[m.ref].idx + 1
      <4>1. PICK m : m = [l EXCEPT !.pos = db[q].idx + 1, !.last = db[q].hash, !.ref = q]
        OBVIOUS
      <4>2. m.pos = db[q].idx + 1 /\ m.ref = q
        BY <1>0, <4>1 DEF Locals
      <4>3. db[q].idx + 1 = Cardinality(Stored)
        BY <1>0, <1>1, <3>2 DEF TableInv
      <4> QED
        BY <3>2, <4>1, <4>2, <4>3
    <3> QED
      BY <1>2, <3>1, <3>2 DEF FindLatest
  <2>4. pc'[c] = "create" /\ loc'[c] = m /\ Stored' = Stored
    BY <1>0, <2>1, <2>3 DEF Goto, Stored
  <2>5. /\ TableInv' /\ AllNext' /\ (IsLatest(m.ref) => IsLatest(m.ref)')
    BY <1>1, <2>1, <2>2, <2>4, NextKept
  <2>6. Inside(c)' /\ CallNext(c)'
    BY <2>1, <2>3, <2>4, <2>5 DEF Inside, CallNext
  <2> QED
    BY <2>1, <2>3, <2>5, <2>6, GotoNext
<1>3. CASE Create(c)
  <2>1. /\ Holds(c) /\ Inside(c) /\ Working(c) /\ pc[c] = "create"
    BY <1>3 DEF Create, At, Inside, Working
  <2>2. /\ AllNext /\ l.pos = Cardinality(Stored)
        /\ \/ Stored = {} /\ l.ref = None
           \/ IsLatest(l.ref) /\ l.pos = db[l.ref].idx + 1
    BY <1>1, <2>1 DEF CallNext
  <2>3. CASE Throw(c)
    BY <2>1, <2>2, <2>3, ThrowNext DEF Throw
  <2>4. CASE ~Throw(c)
    <3> DEFINE r == l.req
    <3>1. /\ r \notin Stored /\ Stored' = Stored \cup {r}
          /\ db'[r].idx = l.pos /\ db'[r].next = Genesis /\ db'[r].hash = TempHash(r)
          /\ \A q \in Stored : db'[q] = db[q]
          /\ Goto(c, "reload", l)
      BY <1>3, <2>4 DEF Create, Stored
    <3>2. \A q \in Stored : db[q].idx < l.pos
      BY <1>0, <2>2 DEF IsLatest
    <3>3. IsLatest(r)' /\ \A q \in Stored' : IsLatest(q)' => q = r
      BY <1>0, <1>1, <2>2, <3>1, <3>2 DEF IsLatest
    <3>4. IsFiniteSet(Stored') /\ Cardinality(Stored') = Cardinality(Stored) + 1
      BY <1>1, <3>1, FS_AddElement
    <3>5. TableInv'
      <4>1. Owned(r)'
        BY <1>0, <2>1, <3>1, OwnerTemp DEF Owned
      <4>2. \A q \in Stored : Owned(q)'
        BY <1>1, <3>1 DEF TableInv, Owned
      <4>3. \A q \in Stored' : Owned(q)'
        BY <3>1, <4>1, <4>2
      <4>4. \A q \in Stored' : IsLatest(q)' => db'[q].idx = Cardinality(Stored') - 1
        BY <1>1, <2>2, <3>1, <3>3, <3>4
      <4> QED
        BY <3>4, <4>3, <4>4 DEF TableInv
    <3>6. NextBut(l.ref)'
      <4> SUFFICES ASSUME NEW q \in Stored' \ {l.ref} PROVE NextOK(q)'
        BY DEF NextBut
      <4>1. CASE q = r
        BY <3>1, <3>3, <4>1 DEF NextOK
      <4>2. CASE q \in Stored
        <5>1. ~ IsLatest(q)
          BY <1>0, <1>1, <2>2, <4>2 DEF IsLatest, IndexUnique
        <5>2. PICK p \in Stored : db[p].idx = db[q].idx + 1 /\ db[q].next = db[p].hash
          BY <2>2, <4>2, <5>1 DEF AllNext, NextOK
        <5> QED
          BY <3>1, <4>2, <5>2 DEF NextOK
      <4> QED
        BY <3>1, <4>1, <4>2
    <3>7. \/ Stored' = {r} /\ l.ref = None
          \/ l.ref \in Stored' /\ db'[r].idx = db'[l.ref].idx + 1
      BY <2>2, <3>1 DEF IsLatest
    <3>8. pc'[c] = "reload" /\ loc'[c] = l
      BY <1>0, <3>1 DEF Goto
    <3>9. Inside(c)' /\ CallNext(c)'
      BY <3>1, <3>3, <3>6, <3>7, <3>8 DEF Inside, CallNext
    <3> QED
      BY <2>1, <3>1, <3>5, <3>9, GotoNext
  <2> QED
    BY <2>3, <2>4
<1>4. CASE Reload(c)
  <2>1. Holds(c) /\ Inside(c) /\ pc[c] = "reload"
    BY <1>4 DEF Reload, At, Inside
  <2>2. /\ IsLatest(l.req) /\ db[l.req].next = Genesis /\ NextBut(l.ref)
        /\ \/ Stored = {l.req} /\ l.ref = None
           \/ l.ref \in Stored /\ db[l.req].idx = db[l.ref].idx + 1
    BY <1>1, <2>1 DEF CallNext
  <2>m. PICK m : m = [l EXCEPT !.hashed = Hash(l.last, l.req, db[l.req].content, l.pos)]
    OBVIOUS
  <2>3. Goto(c, "seal", m) /\ UNCHANGED db
    BY <1>4, <2>2, <2>m DEF Reload, IsLatest, Throw
  <2>4. m.req = l.req /\ m.ref = l.ref
    BY <1>0, <2>m DEF Locals
  <2>5. pc'[c] = "seal" /\ loc'[c] = m /\ Stored' = Stored
    BY <1>0, <2>3 DEF Goto, Stored
  <2>6. TableInv' /\ IsLatest(l.req)' /\ NextBut(l.ref)'
    BY <1>1, <2>2, <2>3, <2>5, NextKept
  <2>7. Inside(c)' /\ CallNext(c)'
    BY <2>2, <2>3, <2>4, <2>5, <2>6 DEF Inside, CallNext
  <2> QED
    BY <2>1, <2>3, <2>6, <2>7, GotoNext
<1>5. CASE Seal(c)
  <2>1. Holds(c) /\ Inside(c) /\ Working(c) /\ pc[c] = "seal"
    BY <1>5 DEF Seal, At, Inside, Working
  <2>2. /\ IsLatest(l.req) /\ db[l.req].next = Genesis /\ NextBut(l.ref)
        /\ \/ Stored = {l.req} /\ l.ref = None
           \/ l.ref \in Stored /\ db[l.req].idx = db[l.ref].idx + 1
    BY <1>1, <2>1 DEF CallNext
  <2> DEFINE r == l.req
  <2>3. r \in Stored /\ r \in Requests
    BY <1>0, <2>2 DEF IsLatest
  <2>4. l.hashed # Genesis /\ Owner(l.hashed) = r
    <3>1. l.hashed = Hash(l.last, r, db[r].content, l.pos)
      BY <1>1, <2>1 DEF CallInv
    <3>2. l.last \in Hashes /\ l.pos \in Nat /\ db[r].content \in Contents
      BY <1>0, <2>3 DEF Locals, Row
    <3> QED
      BY <2>3, <3>1, <3>2, OwnerHash
  <2>5. /\ UpdateRow(r, [db[r] EXCEPT !.hash = l.hashed])
        /\ IF l.ref = None THEN Release(c) ELSE Goto(c, "link", l)
    BY <1>5, <2>3 DEF Seal, Throw
  <2>6. /\ Stored' = Stored /\ \A q \in Stored \ {r} : db'[q] = db[q]
        /\ db'[r].idx = db[r].idx /\ db'[r].next = db[r].next /\ db'[r].hash = l.hashed
    BY <1>0, <2>3, <2>5 DEF UpdateRow, Row, Stored
  <2>7. /\ TableInv' /\ IsLatest(r)'
        /\ \A q \in Stored : NextOK(q) /\ db[q].idx + 1 # db[r].idx => NextOK(q)'
    BY <1>1, <2>2, <2>3, <2>4, <2>6, HashWritten
  <2>8. CASE Stored = {r} /\ l.ref = None
    <3>1. AllNext'
      BY <2>2, <2>6, <2>7, <2>8 DEF AllNext, NextOK
    <3> QED
      BY <2>1, <2>5, <2>7, <2>8, <3>1, ReleaseNext
  <2>9. CASE l.ref \in Stored /\ db[r].idx = db[l.ref].idx + 1
    <3>1. Goto(c, "link", l)
      BY <1>0, <2>5, <2>9
    <3>2. \A q \in Stored : db'[q].idx = db[q].idx
      BY <2>6
    <3>3. Follows(l.ref, l.hashed)'
      BY <2>3, <2>6, <2>9, <3>2 DEF Follows
    <3>4. NextBut(l.ref)'
      <4> SUFFICES ASSUME NEW q \in Stored \ {l.ref} PROVE NextOK(q)'
        BY <2>6 DEF NextBut
      <4>1. db[q].idx + 1 # db[r].idx
        BY <1>0, <1>1, <2>9 DEF IndexUnique
      <4> QED
        BY <2>2, <2>7, <4>1 DEF NextBut
    <3>5. pc'[c] = "link" /\ loc'[c] = l
      BY <1>0, <3>1 DEF Goto
    <3>6. Inside(c)' /\ CallNext(c)'
      BY <3>3, <3>4, <3>5 DEF Inside, CallNext
    <3> QED
      BY <2>1, <2>7, <3>1, <3>6, GotoNext
  <2> QED
    BY <2>2, <2>8, <2>9
<1>6. CASE LinkPrevious(c)
  <2>1. Holds(c) /\ Inside(c) /\ pc[c] = "link"
    BY <1>6 DEF LinkPrevious, At, Inside
  <2>2. Follows(l.ref, l.hashed) /\ NextBut(l.ref)
    BY <1>1, <2>1 DEF CallNext
  <2>3. UpdateRow(l.ref, [db[l.ref] EXCEPT !.next = l.hashed]) /\ Release(c)
    BY <1>6, <2>2 DEF LinkPrevious, Follows, Throw
  <2>4. TableInv' /\ AllNext'
    BY <1>1, <2>2, <2>3, NextWritten
  <2> QED
    BY <2>1, <2>3, <2>4, ReleaseNext
<1> QED
  BY <1>2, <1>3, <1>4, <1>5, <1>6

\* Up to its loop the recalculation touches neither places, hashes nor links.
LEMMA AmendNext ==
  ASSUME SafeInv, ChainInv, NextInv, OnePod, NEW c \in Callers,
         FindRecord(c) \/ WriteContent(c) \/ LoadSuffix(c) \/ ReadPredecessor(c)
  PROVE  NextInv'
<1>l. PICK l : l = loc[c]
  OBVIOUS
<1> USE <1>l
<1>0. db \in [Stored -> Row] /\ pc \in [Callers -> Labels] /\ loc \in [Callers -> Locals]
  BY DEF SafeInv, TypeOK
<1>1. Holds(c)
  BY DEF FindRecord, WriteContent, LoadSuffix, ReadPredecessor, At
<1>2. AllNext
  <2>1. CASE FindRecord(c)
    BY <1>1, <2>1, HolderNext DEF FindRecord, At, Inside
  <2>2. CASE ~FindRecord(c)
    <3>1. Inside(c) /\ pc[c] \in {"write", "load", "prev"}
      BY <2>2 DEF WriteContent, LoadSuffix, ReadPredecessor, At, Inside
    <3> QED
      BY <3>1 DEF NextInv, CallNext
  <2> QED
    BY <2>1, <2>2
<1>3. CASE Throw(c)
  BY <1>1, <1>2, <1>3, ThrowNext DEF Throw
<1>4. CASE ~Throw(c)
  <2>1. PICK label \in {"write", "load", "prev", "loop"} : \E m : Goto(c, label, m)
    BY <1>4 DEF FindRecord, WriteContent, LoadSuffix, ReadPredecessor
  <2>2. /\ Stored' = Stored
        /\ \A q \in Stored : /\ db'[q].idx = db[q].idx /\ db'[q].hash = db[q].hash
                             /\ db'[q].next = db[q].next
    <3>1. \/ db' = db
          \/ l.req \in Stored /\ UpdateRow(l.req, [db[l.req] EXCEPT !.content = l.arg])
      BY <1>4 DEF FindRecord, WriteContent, LoadSuffix, ReadPredecessor
    <3> QED
      BY <1>0, <3>1 DEF UpdateRow, Row, Stored
  <2>3. TableInv' /\ AllNext'
    BY <1>2, <2>2, NextKept DEF NextInv
  <2>4. pc'[c] = label
    BY <1>0, <2>1 DEF Goto
  <2>5. Inside(c)' /\ CallNext(c)'
    BY <2>3, <2>4 DEF Inside, CallNext
  <2> QED
    BY <1>1, <2>1, <2>3, <2>5, GotoNext
<1> QED
  BY <1>3, <1>4

\* The loop leaves one row to link, whose hash it looks up: the row before.
LEMMA RehashNext ==
  ASSUME SafeInv, ChainInv, NextInv, OnePod, NEW c \in Callers, Rehash(c)
  PROVE  NextInv'
<1>l. PICK l : l = loc[c]
  OBVIOUS
<1> USE <1>l
<1>0. /\ Stored \subseteq Requests /\ db \in [Stored -> Row]
      /\ pc \in [Callers -> Labels] /\ loc \in [Callers -> Locals]
      /\ \A q \in Stored : db[q].idx \in Nat
  BY DEF SafeInv, TypeOK, Row
<1>1. Holds(c) /\ Inside(c) /\ pc[c] = "loop"
  BY DEF Rehash, At, Inside
<1>2. /\ IndexUnique /\ TableInv /\ AllNext
      /\ CopyAgrees(l.todo) /\ ChainsTo(l.last, l.todo)
  BY <1>1 DEF ChainInv, CallInv, NextInv, CallNext
<1>3. PICK s \in l.todo :
        LET h == Hash(l.last, s.req, s.content, s.idx) IN
        /\ IsNext(s, l.todo)
        /\ \/ s.req \notin Stored
           \/ /\ UpdateRow(s.req, [db[s.req] EXCEPT !.prev = l.last, !.hash = h])
              /\ IF l.last = Genesis
                 THEN Goto(c, "loop", [l EXCEPT !.todo = @ \ {s}, !.last = h])
                 ELSE Goto(c, "findprev", [l EXCEPT !.todo = @ \ {s}, !.hashed = h])
  BY DEF Rehash
<1>4. s.req \in Stored /\ db[s.req].idx = s.idx /\ db[s.req].content = s.content
  BY <1>2 DEF CopyAgrees
<1>h. PICK h : h = Hash(l.last, s.req, s.content, s.idx)
  OBVIOUS
<1>r. PICK r : r = s.req
  OBVIOUS
<1>5. h # Genesis /\ Owner(h) = r
  <2>1. l.last \in Hashes /\ s.content \in Contents /\ s.idx \in Nat /\ s.req \in Requests
    BY <1>0, <1>4 DEF Locals, Row
  <2> QED
    BY <1>h, <1>r, <2>1, OwnerHash
<1>6. /\ Stored' = Stored /\ \A q \in Stored \ {r} : db'[q] = db[q]
      /\ db'[r].idx = db[r].idx /\ db'[r].next = db[r].next /\ db'[r].hash = h
  <2>1. PICK row : row = [db[s.req] EXCEPT !.prev = l.last, !.hash = h]
    OBVIOUS
  <2>2. UpdateRow(s.req, row)
    BY <1>3, <1>4, <1>h, <2>1
  <2>3. row.idx = db[r].idx /\ row.next = db[r].next /\ row.hash = h
    BY <1>0, <1>4, <1>r, <2>1 DEF Row
  <2> QED
    BY <1>0, <1>4, <1>r, <2>2, <2>3 DEF UpdateRow, Stored
<1>7. /\ TableInv'
      /\ \A q \in Stored : NextOK(q) /\ db[q].idx + 1 # db[r].idx => NextOK(q)'
  BY <1>2, <1>4, <1>5, <1>6, <1>r, HashWritten
<1>8. CASE s.idx = 0 /\ l.last = Genesis
  <2>1. AllNext'
    BY <1>0, <1>2, <1>4, <1>6, <1>7, <1>8, <1>r DEF AllNext
  <2>2. PICK m : Goto(c, "loop", m)
    BY <1>3, <1>4, <1>8
  <2>3. pc'[c] = "loop"
    BY <1>0, <2>2 DEF Goto
  <2>4. Inside(c)' /\ CallNext(c)'
    BY <2>1, <2>3 DEF Inside, CallNext
  <2> QED
    BY <1>1, <1>7, <2>2, <2>4, GotoNext
<1>9. ASSUME NEW p \in Stored, db[p].idx = s.idx - 1, db[p].hash = l.last
      PROVE  NextInv'
  <2>1. l.last # Genesis
    BY <1>2, <1>9 DEF TableInv, Owned
  <2>2. PICK m : Goto(c, "findprev", m) /\ m.last = l.last /\ m.hashed = h
    <3>1. PICK y : y = [l EXCEPT !.todo = @ \ {s}, !.hashed = h]
      OBVIOUS
    <3>2. y.last = l.last /\ y.hashed = h
      BY <1>0, <3>1 DEF Locals
    <3>3. Goto(c, "findprev", y)
      BY <1>3, <1>4, <1>h, <2>1, <3>1
    <3> QED
      BY <3>2, <3>3
  <2>3. p # r /\ db'[p] = db[p] /\ db[r].idx = db[p].idx + 1
    BY <1>0, <1>4, <1>6, <1>9, <1>r
  <2>4. NextBut(p)'
    <3> SUFFICES ASSUME NEW q \in Stored \ {p} PROVE NextOK(q)'
      BY <1>6 DEF NextBut
    <3>1. db[q].idx + 1 # db[r].idx
      BY <1>0, <1>2, <2>3 DEF IndexUnique
    <3> QED
      BY <1>2, <1>7, <3>1 DEF AllNext
  <2>5. Follows(p, h)'
    BY <1>4, <1>6, <1>r, <2>3 DEF Follows
  <2>6. pc'[c] = "findprev" /\ loc'[c] = m
    BY <1>0, <2>2 DEF Goto
  <2>7. p \in Stored' /\ db'[p].hash = l.last
    BY <1>6, <1>9, <2>3
  <2>8. Inside(c)' /\ CallNext(c)'
    BY <2>2, <2>4, <2>5, <2>6, <2>7 DEF Inside, CallNext
  <2> QED
    BY <1>1, <1>7, <2>2, <2>8, GotoNext
<1> QED
  BY <1>2, <1>3, <1>8, <1>9 DEF ChainsTo

\* The lookup by hash finds exactly that row, and the loop links it.
LEMMA LoopNext ==
  ASSUME SafeInv, ChainInv, NextInv, OnePod, NEW c \in Callers,
         FindByHash(c) \/ LinkNext(c) \/ Finish(c)
  PROVE  NextInv'
<1>l. PICK l : l = loc[c]
  OBVIOUS
<1> USE <1>l
<1>0. db \in [Stored -> Row] /\ pc \in [Callers -> Labels] /\ loc \in [Callers -> Locals]
  BY DEF SafeInv, TypeOK
<1>1. Holds(c) /\ Inside(c) /\ CallNext(c) /\ TableInv
  BY DEF NextInv, FindByHash, LinkNext, Finish, At, Inside
<1>2. CASE FindByHash(c)
  <2>1. pc[c] = "findprev" /\ UNCHANGED db
    BY <1>2 DEF FindByHash, At
  <2>2. PICK p \in Stored : db[p].hash = l.last /\ Follows(p, l.hashed) /\ NextBut(p)
    BY <1>1, <2>1 DEF CallNext
  <2>3. \A q \in Stored : db[q].hash = l.last => q = p
    BY <1>1, <2>2 DEF TableInv, Owned
  <2>4. Goto(c, "next", [l EXCEPT !.ref = p])
    BY <1>2, <2>2, <2>3 DEF FindByHash
  <2>m. PICK m : m = [l EXCEPT !.ref = p]
    OBVIOUS
  <2>5. Goto(c, "next", m) /\ m.ref = p /\ m.hashed = l.hashed
    BY <1>0, <2>4, <2>m DEF Locals
  <2>6. TableInv' /\ Follows(p, l.hashed)' /\ NextBut(p)'
    BY <1>1, <2>1, <2>2, NextKept DEF Stored
  <2>7. pc'[c] = "next" /\ loc'[c] = m
    BY <1>0, <2>5 DEF Goto
  <2>8. Inside(c)' /\ CallNext(c)'
    BY <2>5, <2>6, <2>7 DEF Inside, CallNext
  <2> QED
    BY <1>1, <2>5, <2>6, <2>8, GotoNext
<1>3. CASE LinkNext(c)
  <2>1. Follows(l.ref, l.hashed) /\ NextBut(l.ref)
    BY <1>1, <1>3 DEF LinkNext, At, CallNext
  <2>2. PICK m : /\ UpdateRow(l.ref, [db[l.ref] EXCEPT !.next = l.hashed])
                 /\ Goto(c, "loop", m)
    BY <1>3, <2>1 DEF LinkNext, Follows, Throw
  <2>3. TableInv' /\ AllNext'
    BY <1>1, <2>1, <2>2, NextWritten
  <2>4. pc'[c] = "loop"
    BY <1>0, <2>2 DEF Goto
  <2>5. Inside(c)' /\ CallNext(c)'
    BY <2>3, <2>4 DEF Inside, CallNext
  <2> QED
    BY <1>1, <2>2, <2>3, <2>5, GotoNext
<1>4. CASE Finish(c)
  <2>1. AllNext
    BY <1>1, <1>4 DEF Finish, At, CallNext
  <2> QED
    BY <1>1, <1>4, <2>1, ThrowNext DEF Finish, Throw
<1> QED
  BY <1>2, <1>3, <1>4

\* Calls that only queue, and steps of nobody, leave it as it is.
LEMMA OthersNext ==
  ASSUME NextInv, UNCHANGED db,
         \A d \in Callers : Inside(d)' <=> Inside(d),
         \A d \in Callers : Inside(d) => pc'[d] = pc[d] /\ loc'[d] = loc[d],
         \A d \in Callers : pc'[d] = "latest" => loc'[d].ref = None
  PROVE  NextInv'
<1>1. TableInv' /\ (AllNext => AllNext')
  BY NextKept DEF NextInv, Stored
<1>2. ASSUME NEW d \in Callers, Inside(d) PROVE CallNext(d)'
  <2>1. PICK l : l = loc[d]
    OBVIOUS
  <2>2. pc'[d] = pc[d] /\ loc'[d] = l /\ Stored' = Stored /\ CallNext(d)
    BY <1>2, <2>1 DEF NextInv, Stored
  <2>3. /\ AllNext => AllNext'
        /\ \A r : NextBut(r) => NextBut(r)'
        /\ \A q : IsLatest(q) => IsLatest(q)'
        /\ \A p, h : Follows(p, h) => Follows(p, h)'
    BY <2>2, NextKept
  <2> QED
    BY <2>1, <2>2, <2>3 DEF CallNext
<1> QED
  BY <1>1, <1>2 DEF NextInv

\* Every step of a fault-free single pod keeps the nextHash column right.
LEMMA NextStep ==
  ASSUME OnePod, MaxFaults = 0, MaxResets = 0
  PROVE  SafeInv /\ ChainInv /\ NextInv /\ [Next]_vars => NextInv'
<1> SUFFICES ASSUME SafeInv, ChainInv, NextInv, [Next]_vars PROVE NextInv'
  OBVIOUS
<1>0. pc \in [Callers -> Labels] /\ loc \in [Callers -> Locals]
  BY DEF SafeInv, TypeOK
<1>1. ASSUME NEW c \in Callers, Start(c) PROVE NextInv'
  <2>1. ASSUME NEW label \in {"latest", "find", "verify"}, NEW l,
               label = "latest" => l.ref = None, Acquire(c, label, l)
        PROVE  NextInv'
    <3>1. pc[c] = "idle" /\ pc'[c] = label /\ loc'[c] = l /\ UNCHANGED db
      BY <1>0, <2>1 DEF Acquire
    <3>2. \A d \in Callers \ {c} : pc'[d] = pc[d] /\ loc'[d] = loc[d]
      BY <1>0, <2>1 DEF Acquire
    <3>3. \A d \in Callers : Inside(d)' <=> Inside(d)
      BY <3>1, <3>2 DEF Inside
    <3>4. ~ Inside(c) /\ \A d \in Callers : pc'[d] = "latest" => loc'[d].ref = None
      BY <2>1, <3>1, <3>2 DEF Inside, NextInv
    <3> QED
      BY <3>1, <3>2, <3>3, <3>4, OthersNext
  <2>2. ASSUME NEW r \in Requests, NEW x \in Contents, StartRecord(c, r, x)
        PROVE  NextInv'
    <3>1. PICK l : l = [Blank EXCEPT !.req = r, !.arg = x]
      OBVIOUS
    <3>2. l.ref = None
      BY <3>1 DEF Blank
    <3>3. Acquire(c, "latest", l)
      BY <2>2, <3>1 DEF StartRecord
    <3> QED
      BY <2>1, <3>2, <3>3
  <2> QED
    BY <1>1, <2>1, <2>2 DEF Start, StartUpdate, StartVerify
<1>2. ASSUME NEW c \in Callers, Step(c) PROVE NextInv'
  <2>1. CASE Verify(c)
    <3>1. Holds(c) /\ ~Inside(c) /\ Release(c) /\ UNCHANGED db
      BY <2>1 DEF Verify, At, Inside
    <3> QED
      BY <3>1, HolderNext, ThrowNext
  <2> QED
    BY <1>2, <2>1, RecordNext, AmendNext, RehashNext, LoopNext DEF Step
<1>3. ~ \E c \in Callers : DbError(c)
  BY DEF DbError, SafeInv, TypeOK
<1>4. ~ \E n \in Pods : Crash(n)
  BY DEF Crash, SafeInv, TypeOK
<1>5. ~ Reset
  BY DEF Reset, SafeInv, TypeOK
<1>6. CASE UNCHANGED vars
  <2>1. UNCHANGED <<db, pc, loc>>
    BY <1>6 DEF vars
  <2>2. \A d \in Callers : Inside(d)' <=> Inside(d)
    BY <2>1 DEF Inside
  <2>3. \A d \in Callers : pc'[d] = "latest" => loc'[d].ref = None
    BY <2>1 DEF NextInv
  <2> QED
    BY <2>1, <2>2, <2>3, OthersNext
<1> QED
  BY <1>1, <1>2, <1>3, <1>4, <1>5, <1>6 DEF Next

\* The empty table has no successors to name.
LEMMA NextInit == Init => NextInv
<1> SUFFICES ASSUME Init PROVE NextInv
  OBVIOUS
<1>1. Stored = {} /\ \A c \in Callers : pc[c] = "idle"
  BY DEF Init, Stored
<1>2. IsFiniteSet({})
  BY FS_EmptySet
<1> QED
  BY <1>1, <1>2 DEF NextInv, TableInv, AllNext, Inside

\* All the invariants of a fault-free single pod together.
LEMMA LedgerAlways ==
  ASSUME OnePod, MaxFaults = 0, MaxResets = 0
  PROVE  Spec => [](SafeInv /\ ChainInv /\ NextInv)
<1>1. Init => SafeInv /\ ChainInv /\ NextInv
  BY SafeInit, ChainInit, NextInit
<1>2. SafeInv /\ ChainInv /\ NextInv /\ [Next]_vars => SafeInv' /\ ChainInv' /\ NextInv'
  BY SafeStep, ChainStep, NextStep
<1> QED
  BY <1>1, <1>2, PTL DEF Spec

\* verifyChain() never reports tampering because it ran beside a write.
THEOREM NoFalseAlarmHolds ==
  ASSUME OnePod, MaxFaults = 0, MaxResets = 0
  PROVE  Spec => []NoFalseAlarm
<1>1. SafeInv /\ ChainInv /\ NextInv => NoFalseAlarm
  BY DEF ChainInv
<1> QED
  BY <1>1, LedgerAlways, PTL

\* Whenever no call is inside the ledger every row's nextHash is the hash of
\* the row after it, for any number of rows, calls and amendments.
THEOREM NextHashAgreesHolds ==
  ASSUME OnePod, MaxFaults = 0, MaxResets = 0
  PROVE  Spec => []NextHashAgrees
<1>1. SafeInv /\ ChainInv /\ NextInv => NextHashAgrees
  <2> SUFFICES ASSUME SafeInv, NextInv, Quiet PROVE AllNext
    BY DEF NextHashAgrees, AllNext, NextOK, IsLatest
  <2>1. \A c \in Callers : ~Inside(c)
    BY ConstantsAssumption DEF Quiet, SafeInv, InsideHolds, Holds
  <2> QED
    BY <2>1 DEF NextInv
<1> QED
  BY <1>1, LedgerAlways, PTL

-----------------------------------------------------------------------------
(* The table implements the abstract ledger. *)

Entries == [q \in Stored |-> [idx |-> db[q].idx, content |-> db[q].content]]

\* The abstract ledger counts as this module does.
LEMMA SameCardinality == \A S : Abstract!Cardinality(S) = Cardinality(S)
  BY DEF Abstract!Cardinality, Cardinality

\* A new row with the next index is an append of the abstract ledger.
LEMMA AbstractAppend ==
  ASSUME NEW r \in Requests, NEW x \in Contents, r \notin Stored, verdict' = verdict,
         Entries' = [q \in Stored \cup {r} |->
                       IF q = r THEN [idx |-> Cardinality(Stored), content |-> x]
                                ELSE Entries[q]]
  PROVE  Abstract!Next
<1>1. Abstract!Known = Stored
  BY DEF Abstract!Known
<1>2. Abstract!Append(r, x)
  BY <1>1, SameCardinality DEF Abstract!Append, Entries
<1> QED
  BY <1>2 DEF Abstract!Next

\* New content in an old place is an amendment.
LEMMA AbstractAmend ==
  ASSUME NEW r \in Requests, NEW x \in Contents, r \in Stored, verdict' = verdict,
         Entries' = [Entries EXCEPT ![r].content = x]
  PROVE  Abstract!Next
<1>1. Abstract!Known = Stored
  BY DEF Abstract!Known
<1>2. Abstract!Amend(r, x)
  BY <1>1 DEF Abstract!Amend, Entries
<1> QED
  BY <1>2 DEF Abstract!Next

\* An answer that the chain verifies is a verification.
LEMMA AbstractVerify ==
  ASSUME verdict' = "verified", Entries' = Entries
  PROVE  Abstract!Next
  BY DEF Abstract!Next, Abstract!Verify, Entries

\* A step that keeps places and contents is no step of the abstract ledger.
LEMMA EntriesKept ==
  ASSUME Stored' = Stored,
         \A q \in Stored : db'[q].idx = db[q].idx /\ db'[q].content = db[q].content
  PROVE  Entries' = Entries
  BY DEF Entries

\* Every step of the table is a step of the abstract ledger, or none.
LEMMA LedgerStep ==
  ASSUME OnePod, MaxFaults = 0, MaxResets = 0
  PROVE  SafeInv /\ ChainInv /\ NextInv /\ [Next]_vars
           => Abstract!Next \/ UNCHANGED <<Entries, verdict>>
<1> SUFFICES ASSUME SafeInv, ChainInv, NextInv, [Next]_vars
             PROVE  Abstract!Next \/ UNCHANGED <<Entries, verdict>>
  OBVIOUS
<1>0. /\ Stored \subseteq Requests /\ db \in [Stored -> Row]
      /\ \A c \in Callers : Working(c) => loc[c].req \in Requests /\ loc[c].arg \in Contents
  BY DEF SafeInv, TypeOK, ArgsOK
<1>1. ASSUME UNCHANGED <<db, verdict>> PROVE UNCHANGED <<Entries, verdict>>
  BY <1>1, EntriesKept DEF Stored
<1>2. ASSUME NEW c \in Callers, Create(c), ~Throw(c) PROVE Abstract!Next
  <2>1. PICK l : l = loc[c]
    OBVIOUS
  <2>2. Inside(c) /\ Working(c) /\ pc[c] = "create"
    BY <1>2 DEF Create, At, Inside, Working
  <2>3. l.pos = Cardinality(Stored)
    BY <2>1, <2>2 DEF NextInv, CallNext
  <2>4. l.req \in Requests /\ l.arg \in Contents
    BY <1>0, <2>1, <2>2
  <2>5. /\ l.req \notin Stored /\ Stored' = Stored \cup {l.req} /\ verdict' = verdict
        /\ db'[l.req].idx = l.pos /\ db'[l.req].content = l.arg
        /\ \A q \in Stored : db'[q] = db[q]
    BY <1>2, <2>1 DEF Create, Stored
  <2>6. Entries' = [q \in Stored \cup {l.req} |->
                      IF q = l.req THEN [idx |-> Cardinality(Stored), content |-> l.arg]
                                   ELSE Entries[q]]
    BY <2>3, <2>5 DEF Entries
  <2> QED
    BY <2>4, <2>5, <2>6, AbstractAppend
<1>3. ASSUME NEW c \in Callers, WriteContent(c), ~Throw(c) PROVE Abstract!Next
  <2>1. PICK l : l = loc[c]
    OBVIOUS
  <2>2. Working(c)
    BY <1>3 DEF WriteContent, At, Working
  <2>3. l.req \in Requests /\ l.arg \in Contents
    BY <1>0, <2>1, <2>2
  <2>4. /\ l.req \in Stored /\ verdict' = verdict
        /\ UpdateRow(l.req, [db[l.req] EXCEPT !.content = l.arg])
    BY <1>3, <2>1 DEF WriteContent
  <2>5. /\ Stored' = Stored /\ \A q \in Stored \ {l.req} : db'[q] = db[q]
        /\ db'[l.req].idx = db[l.req].idx /\ db'[l.req].content = l.arg
    BY <1>0, <2>4 DEF UpdateRow, Row, Stored
  <2>6. Entries' = [Entries EXCEPT ![l.req].content = l.arg]
    <3>1. [Entries EXCEPT ![l.req].content = l.arg] =
            [q \in Stored |-> IF q = l.req THEN [idx |-> db[q].idx, content |-> l.arg]
                                           ELSE [idx |-> db[q].idx, content |-> db[q].content]]
      BY <2>4 DEF Entries
    <3>2. Entries' =
            [q \in Stored |-> IF q = l.req THEN [idx |-> db[q].idx, content |-> l.arg]
                                           ELSE [idx |-> db[q].idx, content |-> db[q].content]]
      BY <2>4, <2>5 DEF Entries
    <3> QED
      BY <3>1, <3>2
  <2> QED
    BY <2>3, <2>4, <2>6, AbstractAmend
<1>4. ASSUME NEW c \in Callers, Verify(c) PROVE Abstract!Next
  <2>1. verdict' \in {"verified", "broken"} /\ UNCHANGED db
    BY <1>4 DEF Verify
  <2>2. ChainInv'
    BY ChainStep
  <2>3. verdict' = "verified"
    BY <2>1, <2>2 DEF ChainInv, NoFalseAlarm
  <2>4. Entries' = Entries
    BY <2>1, EntriesKept DEF Stored
  <2> QED
    BY <2>3, <2>4, AbstractVerify
<1>5. ASSUME NEW c \in Callers, Seal(c) \/ LinkPrevious(c) \/ Rehash(c) \/ LinkNext(c), ~Throw(c)
      PROVE  UNCHANGED <<Entries, verdict>>
  <2>1. PICK r \in Stored : \E h, p :
          \/ UpdateRow(r, [db[r] EXCEPT !.hash = h])
          \/ UpdateRow(r, [db[r] EXCEPT !.next = h])
          \/ UpdateRow(r, [db[r] EXCEPT !.prev = p, !.hash = h])
    BY <1>5 DEF Seal, LinkPrevious, Rehash, LinkNext
  <2>2. verdict' = verdict
    BY <1>5 DEF Seal, LinkPrevious, Rehash, LinkNext
  <2>3. \E row : UpdateRow(r, row) /\ row.idx = db[r].idx /\ row.content = db[r].content
    <3>1. db[r] \in Row
      BY <1>0
    <3>2. ASSUME NEW h, UpdateRow(r, [db[r] EXCEPT !.hash = h])
          PROVE  \E row : UpdateRow(r, row) /\ row.idx = db[r].idx /\ row.content = db[r].content
      <4>1. PICK row : row = [db[r] EXCEPT !.hash = h]
        OBVIOUS
      <4>2. row.idx = db[r].idx /\ row.content = db[r].content
        BY <3>1, <4>1 DEF Row
      <4> QED
        BY <3>2, <4>1, <4>2
    <3>3. ASSUME NEW h, UpdateRow(r, [db[r] EXCEPT !.next = h])
          PROVE  \E row : UpdateRow(r, row) /\ row.idx = db[r].idx /\ row.content = db[r].content
      <4>1. PICK row : row = [db[r] EXCEPT !.next = h]
        OBVIOUS
      <4>2. row.idx = db[r].idx /\ row.content = db[r].content
        BY <3>1, <4>1 DEF Row
      <4> QED
        BY <3>3, <4>1, <4>2
    <3>4. ASSUME NEW h, NEW p, UpdateRow(r, [db[r] EXCEPT !.prev = p, !.hash = h])
          PROVE  \E row : UpdateRow(r, row) /\ row.idx = db[r].idx /\ row.content = db[r].content
      <4>1. PICK row : row = [db[r] EXCEPT !.prev = p, !.hash = h]
        OBVIOUS
      <4>2. row.idx = db[r].idx /\ row.content = db[r].content
        BY <3>1, <4>1 DEF Row
      <4> QED
        BY <3>4, <4>1, <4>2
    <3> QED
      BY <2>1, <3>2, <3>3, <3>4
  <2>4. /\ Stored' = Stored
        /\ \A q \in Stored : db'[q].idx = db[q].idx /\ db'[q].content = db[q].content
    BY <1>0, <2>3 DEF UpdateRow, Stored
  <2> QED
    BY <2>2, <2>4, EntriesKept
<1>6. ASSUME NEW c \in Callers,
             \/ FindLatest(c) \/ Reload(c) \/ FindRecord(c) \/ LoadSuffix(c)
             \/ ReadPredecessor(c) \/ FindByHash(c) \/ Finish(c) \/ Throw(c) \/ Start(c)
      PROVE  UNCHANGED <<db, verdict>>
  BY <1>6 DEF FindLatest, Reload, FindRecord, LoadSuffix, ReadPredecessor, FindByHash,
              Finish, Throw, Start, StartRecord, StartUpdate, StartVerify, Acquire
<1>7. ASSUME NEW c \in Callers, Step(c)
      PROVE  Abstract!Next \/ UNCHANGED <<Entries, verdict>>
  BY <1>1, <1>2, <1>3, <1>4, <1>5, <1>6, <1>7 DEF Step
<1>8. ~ \E c \in Callers : DbError(c)
  BY DEF DbError, SafeInv, TypeOK
<1>9. ~ \E n \in Pods : Crash(n)
  BY DEF Crash, SafeInv, TypeOK
<1>10. ~ Reset
  BY DEF Reset, SafeInv, TypeOK
<1>11. CASE UNCHANGED vars
  BY <1>1, <1>11 DEF vars
<1> QED
  BY <1>1, <1>6, <1>7, <1>8, <1>9, <1>10, <1>11 DEF Next

\* With one API process and no failure the table implements the abstract
\* ledger, for any number of concurrent calls: every append, amendment and
\* verification takes effect at one database call of the call it belongs to.
THEOREM LedgerImplemented ==
  ASSUME OnePod, MaxFaults = 0, MaxResets = 0
  PROVE  Spec => ImplementsLedger
<1>1. Init => Abstract!Init
  <2>1. Init => Stored = {} /\ verdict = "none"
    BY DEF Init, Stored
  <2> QED
    BY <2>1 DEF Abstract!Init
<1>2. SafeInv /\ ChainInv /\ NextInv /\ [Next]_vars =>
        [Abstract!Next]_<<[q \in Stored |-> [idx |-> db[q].idx, content |-> db[q].content]],
                          verdict>>
  BY LedgerStep DEF Entries
<1> QED
  BY <1>1, <1>2, LedgerAlways, PTL DEF Spec, ImplementsLedger, Abstract!Spec

=============================================================================
