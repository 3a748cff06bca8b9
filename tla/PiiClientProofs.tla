--------------------------- MODULE PiiClientProofs ---------------------------
(***************************************************************************)
(* Theorems about PiiClient, for every set of processes, jobs and texts.   *)
(***************************************************************************)
EXTENDS PiiClient, FiniteSetTheorems, SequenceTheorems, WellFoundedInduction, TLAPS

AllTexts == UNION {TextsOf[j] : j \in Jobs}

\* Each job is queued, with one worker, or redacted.
Placed ==
  /\ queue \subseteq Jobs
  /\ \A p \in Pods : job[p] \in Jobs \cup {"none"}
  /\ \A j \in queue : result[j] = Idle
  /\ \A p \in Pods : job[p] # "none" => job[p] \notin queue /\ result[job[p]] = Idle
  /\ \A p, q \in Pods : job[p] # "none" /\ job[p] = job[q] => p = q
  /\ \A j \in Jobs \ queue : (\A p \in Pods : job[p] # j) => result[j] # Idle

\* A worker without a job waits for no answer, and one with a settled promise
\* has no socket.
Settled ==
  \A p \in Pods : /\ socket[p] \in {"connecting", "open", "destroyed"}
                  /\ promise[p] # Pending => ~Live(p)
                  /\ job[p] = "none" => promise[p] # Pending

\* A connection that is handled knows whose request it is.
HandlerTyped ==
  \A p \in Pods : \/ handler[p] = NoHandler
                  \/ /\ {"state", "of"} \subseteq DOMAIN handler[p]
                     /\ handler[p].state \in {"asked", "answered"}

Shaped ==
  /\ DOMAIN job = Pods /\ DOMAIN socket = Pods /\ DOMAIN buffer = Pods
  /\ DOMAIN promise = Pods /\ DOMAIN handler = Pods /\ DOMAIN wire = Pods
  /\ DOMAIN result = Jobs
  /\ text \in [Jobs -> AllTexts]
  /\ service \in {"up", "down"} /\ faults \in 0..MaxFaults

TypeInv == Shaped /\ Placed /\ Settled /\ HandlerTyped

\* What a connection for job j, whose text is t, may carry.
AnswerTo(j, t) ==
  {[ok |-> TRUE, of |-> j, shown |-> Service(t)], [ok |-> FALSE, of |-> j]}
MessageTo(j, t) == [kind : {"data"}, answer : AnswerTo(j, t), half : {1, 2}] \cup {Fin, Rst}

\* While a worker has a job, its newest connection, from the request to the
\* answer, is about that job.
Concerns(p) ==
  job[p] # "none" =>
    /\ wire[p] \in Seq(MessageTo(job[p], text[job[p]]))
    /\ handler[p] # NoHandler => handler[p].of = job[p]
    /\ promise[p].state = "resolved" => promise[p].answer \in AnswerTo(job[p], text[job[p]])

\* What a job goes on with: its own text as one side or the other masks it.
OwnRedaction ==
  \A j \in Jobs : result[j] # Idle =>
    \/ result[j] = [by |-> "service", of |-> j, shown |-> Service(text[j])]
    \/ result[j] = [by |-> "local", of |-> j, shown |-> Local(text[j])]

OwnInv == OwnRedaction /\ \A p \in Pods : Concerns(p)

-----------------------------------------------------------------------------
(* The states of a promise *)

\* A promise that is settled is no longer pending.
LEMMA Outcomes ==
  /\ Pending.state = "pending" /\ Rejected.state = "rejected" /\ Rejected # Pending
  /\ \A answer : /\ Resolved(answer).state = "resolved"
                 /\ Resolved(answer).answer = answer
                 /\ Resolved(answer) # Pending
  /\ NoHandler.state = "none"
<1>1. Pending.state = "pending" /\ Rejected.state = "rejected" /\ NoHandler.state = "none"
  BY DEF Pending, Rejected, NoHandler
<1>2. ASSUME NEW answer
      PROVE  /\ Resolved(answer).state = "resolved" /\ Resolved(answer).answer = answer
             /\ Resolved(answer) # Pending
  <2>1. Resolved(answer).state = "resolved" /\ Resolved(answer).answer = answer
    BY DEF Resolved
  <2> QED
    BY <1>1, <2>1
<1>3. Rejected # Pending
  BY <1>1
<1> QED
  BY <1>1, <1>2, <1>3

\* The type invariant of the specification counts the places of a job.
LEMMA TypeInvImplies ==
  ASSUME TypeInv
  PROVE  TypeOK
<1>1. ASSUME NEW j \in Jobs
      PROVE  Cardinality({p \in Pods : job[p] = j})
             + (IF j \in queue THEN 1 ELSE 0) + (IF result[j] = Idle THEN 0 ELSE 1) = 1
  <2>1. j # "none"
    BY PiiAssumption
  <2>2. CASE \E p \in Pods : job[p] = j
    <3>1. PICK p \in Pods : job[p] = j
      BY <2>2
    <3>2. {q \in Pods : job[q] = j} = {p}
      BY <2>1, <3>1 DEF TypeInv, Placed
    <3>3. j \notin queue /\ result[j] = Idle
      BY <2>1, <3>1 DEF TypeInv, Placed
    <3>4. Cardinality({p}) = 1
      BY FS_Singleton
    <3> QED
      BY <3>2, <3>3, <3>4
  <2>3. CASE ~ \E p \in Pods : job[p] = j
    <3>1. {q \in Pods : job[q] = j} = {}
      BY <2>3
    <3>2. j \in queue <=> result[j] = Idle
      BY <2>3 DEF TypeInv, Placed
    <3> QED
      BY <3>1, <3>2, FS_EmptySet
  <2> QED
    BY <2>2, <2>3
<1>2. \A p \in Pods : handler[p].state \in {"none", "asked", "answered"}
  BY Outcomes DEF TypeInv, HandlerTyped
<1> QED
  BY <1>1, <1>2 DEF TypeInv, TypeOK, Shaped, Placed, Settled

-----------------------------------------------------------------------------
(* Typing *)

\* Initially every job is queued.
LEMMA TypeInvInit ==
  ASSUME Init
  PROVE  TypeInv
<1>1. Shaped
  BY PiiAssumption DEF Init, Shaped, AllTexts
<1>2. Placed
  BY PiiAssumption DEF Init, Placed, Idle
<1>3. Settled
  BY Outcomes DEF Init, Settled, Live
<1>4. HandlerTyped
  BY DEF Init, HandlerTyped
<1> QED
  BY <1>1, <1>2, <1>3, <1>4 DEF TypeInv

\* A worker takes a job and opens a connection for it.
LEMMA PopJobTyped ==
  ASSUME TypeInv, NEW p \in Pods, PopJob(p)
  PROVE  TypeInv'
<1> USE DEF TypeInv
<1>1. PICK j \in queue : job' = [job EXCEPT ![p] = j] /\ queue' = queue \ {j}
  BY DEF PopJob
<1>2. /\ job[p] = "none"
      /\ socket' = [socket EXCEPT ![p] = "connecting"]
      /\ promise' = [promise EXCEPT ![p] = Pending]
      /\ buffer' = [buffer EXCEPT ![p] = <<>>]
      /\ handler' = [handler EXCEPT ![p] = NoHandler]
      /\ wire' = [wire EXCEPT ![p] = <<>>]
      /\ UNCHANGED <<text, service, result, faults>>
  BY DEF PopJob, Send
<1>3. Shaped'
  BY <1>1, <1>2 DEF Shaped
<1>4. Placed'
  <2>1. j \in Jobs /\ j # "none" /\ (\A q \in Pods : job[q] # j) /\ result[j] = Idle
    BY <1>1, PiiAssumption DEF Placed
  <2>2. job'[p] = j /\ \A q \in Pods \ {p} : job'[q] = job[q]
    BY <1>1 DEF Shaped
  <2>3. \A i \in Jobs \ queue' : (\A q \in Pods : job'[q] # i) => result[i] # Idle
    <3> SUFFICES ASSUME NEW i \in Jobs \ queue', \A q \in Pods : job'[q] # i PROVE result[i] # Idle
      OBVIOUS
    <3>1. i # j /\ i \notin queue /\ i # "none"
      BY <1>1, <2>2, PiiAssumption
    <3>2. \A q \in Pods : job[q] # i
      BY <1>2, <2>2, <3>1
    <3> QED
      BY <3>1, <3>2 DEF Placed
  <2> QED
    BY <1>1, <1>2, <2>1, <2>2, <2>3 DEF Placed
<1>5. Settled'
  BY <1>1, <1>2, PiiAssumption DEF Settled, Shaped, Placed, Live
<1>6. HandlerTyped'
  BY <1>2 DEF HandlerTyped, Shaped
<1> QED
  BY <1>3, <1>4, <1>5, <1>6

\* The worker goes on with its next job.
LEMMA RedactTyped ==
  ASSUME TypeInv, NEW p \in Pods, Redact(p)
  PROVE  TypeInv' /\ result'[job[p]] # Idle /\ \A j \in Jobs \ {job[p]} : result'[j] = result[j]
<1> USE DEF TypeInv
<1>1. PICK new :
        /\ result' = [result EXCEPT ![job[p]] = new]
        /\ new = IF promise[p].state = "resolved" /\ promise[p].answer.ok
                 THEN [by |-> "service", of |-> promise[p].answer.of, shown |-> promise[p].answer.shown]
                 ELSE [by |-> "local", of |-> job[p], shown |-> Local(text[job[p]])]
  BY DEF Redact
<1>2. /\ job[p] # "none" /\ promise[p] # Pending
      /\ job' = [job EXCEPT ![p] = "none"]
      /\ UNCHANGED <<text, queue, socket, buffer, promise, handler, wire, service, faults>>
  BY DEF Redact, client, server
<1>3. new # Idle
  <2>1. new.by \in {"service", "local"}
    BY <1>1
  <2>2. Idle.by = "nobody"
    BY DEF Idle
  <2> QED
    BY <2>1, <2>2
<1>4. job[p] \in Jobs
  BY <1>2 DEF Placed
<1>5. result'[job[p]] = new /\ \A j \in Jobs \ {job[p]} : result'[j] = result[j]
  BY <1>1, <1>4 DEF Shaped
<1>6. Shaped'
  BY <1>1, <1>2 DEF Shaped
<1>7. Placed'
  BY <1>2, <1>3, <1>4, <1>5 DEF Placed, Shaped
<1>8. Settled' /\ HandlerTyped'
  BY <1>2 DEF Settled, HandlerTyped, Shaped, Live
<1> QED
  BY <1>3, <1>5, <1>6, <1>7, <1>8

\* An event of a socket that ends it leaves no open socket behind.
LEMMA SettleTyped ==
  ASSUME TypeInv, NEW p \in Pods, NEW outcome, Settle(p, outcome), outcome # Pending,
         DOMAIN buffer' = Pods, DOMAIN wire' = Pods,
         UNCHANGED <<text, queue, job, handler, service, result, faults>>
  PROVE  TypeInv'
  BY DEF TypeInv, Settle, Shaped, Placed, Settled, HandlerTyped, Live

\* The events of a socket.
LEMMA EventTyped ==
  ASSUME TypeInv, NEW p \in Pods, Event(p)
  PROVE  TypeInv'
<1> USE DEF TypeInv
<1>1. CASE Connect(p)
  <2>1. /\ socket[p] = "connecting"
        /\ socket' = [socket EXCEPT ![p] = "open"]
        /\ handler' = [handler EXCEPT ![p] = [state |-> "asked", of |-> job[p]]]
        /\ UNCHANGED <<text, queue, job, buffer, promise, wire, service, result, faults>>
    BY <1>1 DEF Connect, worker
  <2>2. HandlerTyped'
    BY <2>1 DEF HandlerTyped, Shaped
  <2> QED
    BY <2>1, <2>2 DEF Shaped, Placed, Settled, Live
<1>2. CASE Data(p)
  <2>1. /\ Live(p)
        /\ DOMAIN buffer' = Pods /\ DOMAIN wire' = Pods
        /\ UNCHANGED <<text, queue, job, handler, service, result, faults>>
    BY <1>2 DEF Data, worker, Shaped
  <2>2. CASE UNCHANGED <<socket, promise>>
    BY <2>1, <2>2 DEF Shaped, Placed, Settled, HandlerTyped, Live
  <2>3. CASE \E outcome : Settle(p, outcome) /\ outcome # Pending
    BY <2>1, <2>3, SettleTyped
  <2>4. \/ UNCHANGED <<socket, promise>>
        \/ \E answer : Settle(p, Resolved(answer))
        \/ Settle(p, Rejected)
    BY <1>2 DEF Data
  <2> QED
    BY <2>2, <2>3, <2>4, Outcomes
<1>3. CASE Refused(p) \/ Error(p) \/ Timeout(p)
  <2>1. /\ Settle(p, Rejected) /\ DOMAIN buffer' = Pods /\ DOMAIN wire' = Pods
        /\ UNCHANGED <<text, queue, job, handler, service, result, faults>>
    BY <1>3 DEF Refused, Error, Timeout, worker, server, Shaped
  <2> QED
    BY <2>1, SettleTyped, Outcomes
<1>4. CASE End(p)
  BY <1>4 DEF End, worker, server, Shaped, Placed, Settled, HandlerTyped, Live
<1> QED
  BY <1>1, <1>2, <1>3, <1>4 DEF Event

\* The steps of the service.
LEMMA ServiceTyped ==
  ASSUME TypeInv, (\E p \in Pods : Handle(p) \/ HandleFails(p)) \/ Stop \/ Restart
  PROVE  TypeInv'
<1> USE DEF TypeInv
<1>1. ASSUME NEW p \in Pods, NEW answer, Answers(p, answer), handler[p].state = "asked",
             faults' \in 0..MaxFaults
      PROVE  TypeInv'
  <2>1. /\ handler' = [handler EXCEPT ![p].state = "answered"]
        /\ DOMAIN wire' = Pods
        /\ UNCHANGED <<text, queue, job, socket, buffer, promise, service, result>>
    BY <1>1 DEF Answers, worker, client, Shaped
  <2>2. HandlerTyped'
    <3>1. handler[p] # NoHandler
      BY <1>1, Outcomes
    <3>2. {"state", "of"} \subseteq DOMAIN handler'[p] /\ handler'[p].state = "answered"
      BY <2>1, <3>1 DEF HandlerTyped, Shaped
    <3> QED
      BY <2>1, <3>2 DEF HandlerTyped, Shaped
  <2> QED
    BY <1>1, <2>1, <2>2 DEF Shaped, Placed, Settled, Live
<1>2. ASSUME NEW p \in Pods, Handle(p) \/ HandleFails(p) PROVE TypeInv'
  <2>1. faults' \in 0..MaxFaults /\ handler[p].state = "asked"
    BY <1>2, PiiAssumption DEF Handle, HandleFails, Shaped
  <2> QED
    BY <1>1, <1>2, <2>1 DEF Handle, HandleFails
<1>3. CASE Stop
  <2>1. /\ service' = "down" /\ faults < MaxFaults /\ faults' = faults + 1
        /\ handler' = [p \in Pods |-> NoHandler] /\ DOMAIN wire' = Pods
        /\ UNCHANGED <<text, queue, job, socket, buffer, promise, result>>
    BY <1>3 DEF Stop, worker, client
  <2> QED
    BY <2>1, PiiAssumption DEF Shaped, Placed, Settled, HandlerTyped, Live
<1>4. CASE Restart
  BY <1>4 DEF Restart, worker, client, Shaped, Placed, Settled, HandlerTyped, Live
<1> QED
  BY <1>2, <1>3, <1>4

\* Every step keeps everything typed.
LEMMA TypeInvNext ==
  ASSUME TypeInv, [Next]_vars
  PROVE  TypeInv'
<1>1. CASE UNCHANGED vars
  BY <1>1 DEF TypeInv, vars, worker, client, server, Shaped, Placed, Settled, HandlerTyped, Live
<1> QED
  BY <1>1, PopJobTyped, RedactTyped, EventTyped, ServiceTyped DEF Next

\* The typing is an invariant.
LEMMA TypeInvHolds == Spec => []TypeInv
<1>1. Init => TypeInv
  BY TypeInvInit
<1>2. TypeInv /\ [Next]_vars => TypeInv'
  BY TypeInvNext
<1> QED
  BY <1>1, <1>2, PTL DEF Spec

\* Each job is queued, with one worker, or redacted, and a promise that is
\* settled leaves no open socket behind, whatever the service does.
THEOREM TypeCorrect == Spec => []TypeOK
<1>1. Spec => []TypeInv
  BY TypeInvHolds
<1>2. TypeInv => TypeOK
  BY TypeInvImplies
<1> QED
  BY <1>1, <1>2, PTL

-----------------------------------------------------------------------------
(* Answers and the requests they belong to *)

\* The first of a sequence and the rest.
LEMMA HeadTail ==
  ASSUME NEW S, NEW s \in Seq(S), s # <<>>
  PROVE  Head(s) \in S /\ Tail(s) \in Seq(S)
  OBVIOUS

\* Whoever answers late answers on the connection that was asked on.
LEMMA OwnInit ==
  ASSUME Init
  PROVE  OwnInv
  BY DEF Init, OwnInv, OwnRedaction, Concerns, Idle

\* What a worker's connection concerns changes only when one of its own
\* variables does.
LEMMA OwnUnchanged ==
  ASSUME OwnInv, NEW p \in Pods, UNCHANGED <<result, text>>,
         \A q \in Pods \ {p} : /\ job'[q] = job[q] /\ wire'[q] = wire[q]
                               /\ handler'[q] = handler[q] /\ promise'[q] = promise[q],
         Concerns(p)'
  PROVE  OwnInv'
<1>1. OwnRedaction'
  BY DEF OwnInv, OwnRedaction
<1>2. ASSUME NEW q \in Pods \ {p} PROVE Concerns(q)'
  BY <1>2 DEF OwnInv, Concerns
<1> QED
  BY <1>1, <1>2 DEF OwnInv

\* A new connection carries nothing yet.
LEMMA PopJobOwn ==
  ASSUME TypeInv, OwnInv, NEW p \in Pods, PopJob(p)
  PROVE  OwnInv'
<1>1. /\ \E j \in queue : job' = [job EXCEPT ![p] = j]
      /\ promise' = [promise EXCEPT ![p] = Pending]
      /\ handler' = [handler EXCEPT ![p] = NoHandler]
      /\ wire' = [wire EXCEPT ![p] = <<>>]
      /\ UNCHANGED <<result, text>>
  BY DEF PopJob, Send
<1>2. Concerns(p)'
  BY <1>1, Outcomes DEF TypeInv, Shaped, Concerns
<1> QED
  BY <1>1, <1>2, OwnUnchanged DEF TypeInv, Shaped

\* A result is of the job the worker has.
LEMMA RedactOwn ==
  ASSUME TypeInv, OwnInv, NEW p \in Pods, Redact(p)
  PROVE  OwnInv'
<1>1. /\ job[p] # "none"
      /\ job' = [job EXCEPT ![p] = "none"]
      /\ UNCHANGED <<wire, handler, promise, text>>
  BY DEF Redact, client, server
<1>2. PICK new :
        /\ result' = [result EXCEPT ![job[p]] = new]
        /\ new = IF promise[p].state = "resolved" /\ promise[p].answer.ok
                 THEN [by |-> "service", of |-> promise[p].answer.of, shown |-> promise[p].answer.shown]
                 ELSE [by |-> "local", of |-> job[p], shown |-> Local(text[job[p]])]
  BY DEF Redact
<1>3. \/ new = [by |-> "service", of |-> job[p], shown |-> Service(text[job[p]])]
      \/ new = [by |-> "local", of |-> job[p], shown |-> Local(text[job[p]])]
  BY <1>1, <1>2 DEF OwnInv, Concerns, AnswerTo
<1>4. OwnRedaction'
  BY <1>1, <1>2, <1>3 DEF OwnInv, OwnRedaction, TypeInv, Shaped
<1>5. ASSUME NEW q \in Pods PROVE Concerns(q)'
  BY <1>1 DEF OwnInv, Concerns, TypeInv, Shaped
<1> QED
  BY <1>4, <1>5 DEF OwnInv

\* A line that is read answers the request of its connection.
LEMMA DataOwn ==
  ASSUME TypeInv, OwnInv, NEW p \in Pods, Data(p)
  PROVE  OwnInv'
<1>1. /\ Live(p) /\ wire[p] # <<>> /\ Head(wire[p]).kind = "data"
      /\ wire' = [wire EXCEPT ![p] = Tail(wire[p])]
      /\ UNCHANGED <<job, handler, result, text>>
  BY DEF Data, worker
<1>2. job[p] # "none"
  BY <1>1 DEF TypeInv, Settled
<1>3. wire[p] \in Seq(MessageTo(job[p], text[job[p]])) /\ Concerns(p)
  BY <1>2 DEF OwnInv, Concerns
<1>4. Head(wire[p]) \in MessageTo(job[p], text[job[p]]) /\ Tail(wire[p]) \in Seq(MessageTo(job[p], text[job[p]]))
  BY <1>1, <1>3, HeadTail
<1>5. Head(wire[p]).answer \in AnswerTo(job[p], text[job[p]])
  <2>1. Fin.kind = "fin" /\ Rst.kind = "rst"
    BY DEF Fin, Rst
  <2>2. Head(wire[p]) \in [kind : {"data"}, answer : AnswerTo(job[p], text[job[p]]), half : {1, 2}]
    BY <1>1, <1>4, <2>1 DEF MessageTo
  <2>3. Head(wire[p]).answer \in AnswerTo(job[p], text[job[p]])
    BY <2>2
  <2> QED
    BY <2>3
<1>6. \/ promise' = promise
      \/ promise' = [promise EXCEPT ![p] = Resolved(Head(wire[p]).answer)]
      \/ promise' = [promise EXCEPT ![p] = Rejected]
  BY DEF Data, Settle
<1>7. promise'[p].state = "resolved" => promise'[p].answer \in AnswerTo(job[p], text[job[p]])
  BY <1>2, <1>3, <1>5, <1>6, Outcomes DEF TypeInv, Shaped, Concerns
<1>8. Concerns(p)'
  BY <1>1, <1>3, <1>4, <1>7 DEF Concerns, TypeInv, Shaped
<1> QED
  BY <1>1, <1>6, <1>8, OwnUnchanged DEF TypeInv, Shaped

\* The other events carry no answer.
LEMMA EventOwn ==
  ASSUME TypeInv, OwnInv, NEW p \in Pods, Event(p)
  PROVE  OwnInv'
<1>1. CASE Connect(p)
  <2>1. /\ handler' = [handler EXCEPT ![p] = [state |-> "asked", of |-> job[p]]]
        /\ UNCHANGED <<job, promise, wire, result, text>>
    BY <1>1 DEF Connect, worker
  <2>2. handler'[p].of = job[p]
    BY <2>1 DEF TypeInv, Shaped
  <2>3. Concerns(p)'
    BY <2>1, <2>2 DEF OwnInv, Concerns
  <2> QED
    BY <2>1, <2>3, OwnUnchanged DEF TypeInv, Shaped
<1>2. CASE Refused(p) \/ Error(p) \/ Timeout(p)
  <2>1. /\ promise' = [promise EXCEPT ![p] = Rejected]
        /\ UNCHANGED <<job, handler, wire, result, text>>
    BY <1>2 DEF Refused, Error, Timeout, Settle, worker, server
  <2>2. Concerns(p)'
    BY <2>1, Outcomes DEF OwnInv, Concerns, TypeInv, Shaped
  <2> QED
    BY <2>1, <2>2, OwnUnchanged DEF TypeInv, Shaped
<1>3. CASE End(p)
  BY <1>3 DEF End, worker, server, OwnInv, OwnRedaction, Concerns
<1> QED
  BY <1>1, <1>2, <1>3, DataOwn DEF Event

\* What the service writes answers the request it read there.
LEMMA AnswersOwn ==
  ASSUME TypeInv, OwnInv, NEW p \in Pods, Handle(p) \/ HandleFails(p)
  PROVE  OwnInv'
<1>1. PICK answer :
        /\ Answers(p, answer) /\ handler[p].state = "asked"
        /\ \/ answer = [ok |-> TRUE, of |-> handler[p].of, shown |-> Service(text[handler[p].of])]
           \/ answer = [ok |-> FALSE, of |-> handler[p].of]
  BY DEF Handle, HandleFails
<1>2. /\ wire' = [wire EXCEPT ![p] = wire[p] \o <<Piece(answer, 1), Piece(answer, 2)>>]
      /\ handler' = [handler EXCEPT ![p].state = "answered"]
      /\ UNCHANGED <<job, promise, result, text>>
  BY <1>1 DEF Answers, worker, client
<1>3. Concerns(p)'
  <2> SUFFICES ASSUME job[p] # "none"
               PROVE  /\ wire'[p] \in Seq(MessageTo(job[p], text[job[p]]))
                      /\ handler'[p].of = job[p]
                      /\ promise[p].state = "resolved" => promise[p].answer \in AnswerTo(job[p], text[job[p]])
    BY <1>2 DEF Concerns
  <2>1. Concerns(p)
    BY DEF OwnInv
  <2>2. handler[p] # NoHandler /\ handler[p].of = job[p]
    BY <1>1, <2>1, Outcomes DEF Concerns
  <2>3. handler'[p].of = job[p]
    BY <1>2, <2>2 DEF TypeInv, HandlerTyped, Shaped
  <2>4. answer \in AnswerTo(job[p], text[job[p]])
    BY <1>1, <2>2 DEF AnswerTo
  <2>5. Piece(answer, 1) \in MessageTo(job[p], text[job[p]]) /\ Piece(answer, 2) \in MessageTo(job[p], text[job[p]])
    BY <2>4 DEF Piece, MessageTo
  <2>6. wire[p] \in Seq(MessageTo(job[p], text[job[p]]))
    BY <2>1 DEF Concerns
  <2>7. wire'[p] \in Seq(MessageTo(job[p], text[job[p]]))
    BY <1>2, <2>5, <2>6 DEF TypeInv, Shaped
  <2> QED
    BY <2>1, <2>3, <2>7 DEF Concerns
<1> QED
  BY <1>2, <1>3, OwnUnchanged DEF TypeInv, Shaped

\* A service that stops loses pieces and ends its connections.
LEMMA StopOwn ==
  ASSUME TypeInv, OwnInv, Stop
  PROVE  OwnInv'
<1>1. PICK last \in {Fin, Rst}, sent \in 0..2 :
        wire' = [p \in Pods |->
          IF handler[p] # NoHandler
          THEN Append(SubSeq(wire[p], 1, IF sent < Len(wire[p]) THEN sent ELSE Len(wire[p])), last)
          ELSE wire[p]]
  BY DEF Stop
<1>2. handler' = [p \in Pods |-> NoHandler] /\ UNCHANGED <<job, promise, result, text>>
  BY DEF Stop, worker, client
<1>3. ASSUME NEW p \in Pods PROVE Concerns(p)'
  <2> SUFFICES ASSUME job[p] # "none"
               PROVE  /\ wire'[p] \in Seq(MessageTo(job[p], text[job[p]]))
                      /\ promise[p].state = "resolved" => promise[p].answer \in AnswerTo(job[p], text[job[p]])
    BY <1>2 DEF Concerns
  <2>1. Concerns(p) /\ wire[p] \in Seq(MessageTo(job[p], text[job[p]]))
    BY DEF OwnInv, Concerns
  <2>2. CASE handler[p] # NoHandler
    <3> DEFINE n == IF sent < Len(wire[p]) THEN sent ELSE Len(wire[p])
    <3>1. n \in 0..Len(wire[p])
      BY <2>1
    <3>2. SubSeq(wire[p], 1, n) \in Seq(MessageTo(job[p], text[job[p]]))
      BY <2>1, <3>1
    <3>3. last \in MessageTo(job[p], text[job[p]])
      BY DEF MessageTo
    <3>4. wire'[p] = Append(SubSeq(wire[p], 1, n), last)
      BY <1>1, <2>2
    <3> HIDE DEF n
    <3> QED
      BY <2>1, <3>2, <3>3, <3>4 DEF Concerns
  <2>3. CASE handler[p] = NoHandler
    BY <1>1, <2>1, <2>3 DEF Concerns
  <2> QED
    BY <2>2, <2>3
<1> QED
  BY <1>2, <1>3 DEF OwnInv, OwnRedaction

\* No step gives an answer to another request than the one it was asked for.
LEMMA OwnNext ==
  ASSUME TypeInv, OwnInv, [Next]_vars
  PROVE  OwnInv'
<1>1. CASE UNCHANGED vars
  BY <1>1 DEF vars, worker, client, server, OwnInv, OwnRedaction, Concerns
<1>2. CASE Restart
  BY <1>2 DEF Restart, worker, client, OwnInv, OwnRedaction, Concerns
<1> QED
  BY <1>1, <1>2, PopJobOwn, RedactOwn, EventOwn, AnswersOwn, StopOwn DEF Next

\* Such a result is the job's, and shows what one of the sides left to see.
LEMMA OwnParts ==
  ASSUME OwnRedaction, NEW j \in Jobs, result[j] # Idle
  PROVE  result[j].of = j /\ result[j].shown \in {Service(text[j]), Local(text[j])}
<1> DEFINE theirs == Service(text[j])
           ours == Local(text[j])
<1>1. \/ result[j] = [by |-> "service", of |-> j, shown |-> theirs]
      \/ result[j] = [by |-> "local", of |-> j, shown |-> ours]
  BY DEF OwnRedaction
<1> HIDE DEF theirs, ours
<1>2. result[j].of = j /\ result[j].shown \in {theirs, ours}
  BY <1>1
<1> QED
  BY <1>2 DEF theirs, ours

\* A request goes on with the redaction of its own parameters, however late
\* the service answers, and however often it fails, stops and starts again.
THEOREM OwnAnswerHolds == Spec => []OwnAnswer
<1>1. Spec => []TypeInv
  BY TypeInvHolds
<1>2. Init => OwnInv
  BY OwnInit
<1>3. TypeInv /\ OwnInv /\ [Next]_vars => OwnInv'
  BY OwnNext
<1>4. OwnInv => OwnAnswer
  BY OwnParts DEF OwnInv, OwnAnswer
<1> QED
  BY <1>1, <1>2, <1>3, <1>4, PTL DEF Spec

-----------------------------------------------------------------------------
(* Finite sets *)

\* A set of numbers has a least one.
LEMMA Least ==
  ASSUME NEW T \in SUBSET Nat, T # {}
  PROVE  \E x \in T : \A y \in T : x <= y
<1>1. IsWellFoundedOn(OpToRel(<, Nat), Nat)
  BY NatLessThanWellFounded
<1>2. PICK x \in T : \A y \in T : <<y, x>> \notin OpToRel(<, Nat)
  BY <1>1, WFMin
<1>3. \A y \in T : ~(y < x)
  BY <1>2 DEF OpToRel
<1> QED
  BY <1>3

\* What holds of 0 and passes from each number to the next holds of all.
LEMMA Counting ==
  ASSUME NEW K \in SUBSET Nat, 0 \in K, \A k \in K : k + 1 \in K
  PROVE  K = Nat
<1> SUFFICES ASSUME Nat \ K # {} PROVE FALSE
  OBVIOUS
<1>1. PICK x \in Nat \ K : \A y \in Nat \ K : x <= y
  BY Least
<1>2. x - 1 \in Nat /\ x - 1 \notin Nat \ K
  BY <1>1
<1> QED
  BY <1>1, <1>2

\* What holds of a subset once it holds of all smaller ones holds of each.
LEMMA SubsetInduction ==
  ASSUME NEW S, IsFiniteSet(S), NEW G,
         \A T \in SUBSET S : (\A U \in SUBSET T : U # T => U \in G) => T \in G
  PROVE  \A T \in SUBSET S : T \in G
<1> DEFINE Bad == {T \in SUBSET S : T \notin G}
           Sizes == {Cardinality(T) : T \in Bad}
<1> SUFFICES ASSUME Bad # {} PROVE FALSE
  OBVIOUS
<1>1. \A T \in SUBSET S : IsFiniteSet(T) /\ Cardinality(T) \in Nat
  BY FS_Subset, FS_CardinalityType
<1>2. Sizes \in SUBSET Nat /\ Sizes # {}
  BY <1>1
<1>3. PICK k \in Sizes : \A l \in Sizes : k <= l
  BY <1>2, Least
<1>4. PICK T \in Bad : Cardinality(T) = k
  BY <1>3
<1>5. ASSUME NEW U \in SUBSET T, U # T PROVE U \in G
  <2>1. Cardinality(U) < Cardinality(T)
    BY <1>1, <1>5, FS_Subset
  <2>2. Cardinality(U) \notin Sizes
    <3> HIDE DEF Sizes
    <3>1. Cardinality(T) \in Nat /\ Cardinality(U) \in Nat
      BY <1>1, <1>4
    <3> QED
      BY <1>3, <1>4, <2>1, <3>1
  <2>3. U \in SUBSET S
    BY <1>4
  <2>4. U \notin Bad
    <3> HIDE DEF Bad
    <3> QED
      BY <2>2
  <2> QED
    BY <2>3, <2>4
<1> QED
  BY <1>4, <1>5

\* A set is taken apart element by element, and each element does its step.
Picks(S, pick) == \A T \in SUBSET S : T # {} => pick[T] \in T
Steps(S, V, F) == F \in [S \X V -> V]
FoldsBy(S, V, base, pick, F, g) ==
  /\ g \in [SUBSET S -> V]
  /\ \A T \in SUBSET S : g[T] = IF T = {} THEN base ELSE F[<<pick[T], g[T \ {pick[T]}]>>]

\* A function that does that exists.
LEMMA FoldExists ==
  ASSUME NEW S, IsFiniteSet(S), NEW V, NEW base, base \in V,
         NEW pick, Picks(S, pick), NEW F, Steps(S, V, F)
  PROVE  \E g : FoldsBy(S, V, base, pick, F, g)
<1> USE DEF Picks, Steps
<1> DEFINE Up(g, k) ==
             \A T \in SUBSET S : Cardinality(T) <= k =>
               g[T] = IF T = {} THEN base ELSE F[<<pick[T], g[T \ {pick[T]}]>>]
           K == {k \in Nat : \E g \in [SUBSET S -> V] : Up(g, k)}
<1>1. \A T \in SUBSET S : IsFiniteSet(T) /\ Cardinality(T) \in Nat /\ (Cardinality(T) = 0 <=> T = {})
  BY FS_Subset, FS_CardinalityType, FS_EmptySet
<1>2. \A T \in SUBSET S : T # {} => Cardinality(T \ {pick[T]}) = Cardinality(T) - 1
  BY <1>1, FS_RemoveElement
<1>3. 0 \in K
  <2> DEFINE g == [T \in SUBSET S |-> base]
  <2>1. Up(g, 0)
    BY <1>1
  <2>2. g \in [SUBSET S -> V]
    OBVIOUS
  <2> QED
    BY <2>1, <2>2
<1>4. ASSUME NEW k \in K PROVE k + 1 \in K
  <2>1. PICK g \in [SUBSET S -> V] : Up(g, k)
    OBVIOUS
  <2> DEFINE h == [T \in SUBSET S |-> IF Cardinality(T) <= k THEN g[T]
                                      ELSE F[<<pick[T], g[T \ {pick[T]}]>>]]
  <2>2. h \in [SUBSET S -> V]
    <3>1. ASSUME NEW T \in SUBSET S, ~(Cardinality(T) <= k)
          PROVE  F[<<pick[T], g[T \ {pick[T]}]>>] \in V
      <4>1. T # {}
        BY <1>1, <3>1
      <4>2. pick[T] \in S /\ T \ {pick[T]} \in SUBSET S
        BY <4>1
      <4> QED
        BY <4>2
    <3> QED
      BY <3>1
  <2>3. Up(h, k + 1)
    <3> SUFFICES ASSUME NEW T \in SUBSET S, Cardinality(T) <= k + 1
                 PROVE  h[T] = IF T = {} THEN base ELSE F[<<pick[T], h[T \ {pick[T]}]>>]
      OBVIOUS
    <3>1. CASE T = {}
      <4>1. Cardinality(T) <= k
        BY <1>1, <3>1
      <4> QED
        BY <2>1, <3>1, <4>1
    <3>2. CASE T # {}
      <4> DEFINE R == T \ {pick[T]}
      <4>1. R \in SUBSET S /\ Cardinality(R) = Cardinality(T) - 1
        BY <1>2, <3>2
      <4>2. Cardinality(R) <= k
        BY <1>1, <4>1
      <4>3. h[R] = g[R]
        BY <4>1, <4>2
      <4>4. h[T] = F[<<pick[T], g[R]>>]
        <5>1. CASE Cardinality(T) <= k
          BY <2>1, <3>2, <5>1
        <5>2. CASE ~(Cardinality(T) <= k)
          BY <5>2
        <5> QED
          BY <5>1, <5>2
      <4> HIDE DEF h
      <4> QED
        BY <3>2, <4>3, <4>4
    <3> QED
      BY <3>1, <3>2
  <2> HIDE DEF h
  <2>4. k + 1 \in Nat
    OBVIOUS
  <2> QED
    BY <2>2, <2>3, <2>4
<1>5. K = Nat
  <2> HIDE DEF K
  <2>1. K \in SUBSET Nat
    BY DEF K
  <2> QED
    BY <1>3, <1>4, <2>1, Counting
<1>6. Cardinality(S) \in K
  BY <1>1, <1>5
<1>7. PICK g \in [SUBSET S -> V] : Up(g, Cardinality(S))
  BY <1>6
<1>8. \A T \in SUBSET S : Cardinality(T) <= Cardinality(S)
  BY <1>1, FS_Subset
<1> QED
  BY <1>7, <1>8 DEF FoldsBy

-----------------------------------------------------------------------------
(* Masks *)

LastFour == {"SSN", "CREDIT_CARD", "BANK_ACCOUNT", "PHONE"}
Types == LastFour \cup {"ADDRESS", "PERSON", "EMAIL"}
Padding(type) == CASE type = "SSN" -> 7
                   [] type = "CREDIT_CARD" -> 15
                   [] type = "BANK_ACCOUNT" -> 6
                   [] type = "PHONE" -> 8

\* Matches that a text may have, one of them at a time.
Lies(t, ms) ==
  /\ t.length \in Nat /\ t.at \in Nat /\ IsFiniteSet(ms)
  /\ \A m \in ms : /\ m.type \in Types
                   /\ m.start \in Nat /\ m.end \in Nat /\ m.start < m.end /\ m.end <= t.length
                   /\ m.type = "EMAIL" => m.start + 2 <= t.at /\ t.at < m.end
  /\ \A m, n \in ms : m = n \/ m.start # n.start \/ m.type # n.type

\* The types are those the patterns have.
LEMMA PatternTypes ==
  {Patterns[i] : i \in DOMAIN Patterns} = Types
<1>1. DOMAIN Patterns = 1..7
  BY DEF Patterns
<1>2. /\ Patterns[1] = "SSN" /\ Patterns[2] = "CREDIT_CARD" /\ Patterns[3] = "EMAIL"
      /\ Patterns[4] = "PHONE" /\ Patterns[5] = "ADDRESS" /\ Patterns[6] = "BANK_ACCOUNT"
      /\ Patterns[7] = "PERSON"
  BY DEF Patterns
<1>3. ASSUME NEW i \in 1..7 PROVE Patterns[i] \in Types
  <2>1. i = 1 \/ i = 2 \/ i = 3 \/ i = 4 \/ i = 5 \/ i = 6 \/ i = 7
    BY <1>3
  <2> QED
    BY <1>2, <2>1 DEF Types, LastFour
<1>4. ASSUME NEW type \in Types PROVE \E i \in 1..7 : Patterns[i] = type
  BY <1>2 DEF Types, LastFour
<1> QED
  BY <1>1, <1>3, <1>4

\* Different types have different places in the order of the patterns.
LEMMA Orders ==
  ASSUME NEW type \in Types
  PROVE  Order(type) \in 1..7 /\ Patterns[Order(type)] = type
<1>1. DOMAIN Patterns = 1..7
  BY DEF Patterns
<1>2. \E i \in DOMAIN Patterns : Patterns[i] = type
  BY PatternTypes
<1> QED
  BY <1>1, <1>2 DEF Order

\* A piece of a text.
LEMMA Piecewise ==
  ASSUME NEW v \in Seq(Nat), NEW a \in Nat, a >= 1, NEW b \in Int, b <= Len(v)
  PROVE  /\ SubSeq(v, a, b) \in Seq(Nat)
         /\ Len(SubSeq(v, a, b)) = IF a <= b THEN b - a + 1 ELSE 0
         /\ \A q \in 1..Len(SubSeq(v, a, b)) : SubSeq(v, a, b)[q] = v[a - 1 + q]
<1>1. \A q \in a..b : v[q] \in Nat
  <2> SUFFICES ASSUME NEW q \in a..b PROVE v[q] \in Nat
    OBVIOUS
  <2>1. q \in 1..Len(v)
    BY LenProperties
  <2> QED
    BY <2>1, ElementOfSeq
<1>2. /\ SubSeq(v, a, b) \in Seq(Nat)
      /\ Len(SubSeq(v, a, b)) = IF a <= b THEN b - a + 1 ELSE 0
      /\ \A q \in 1..b - a + 1 : SubSeq(v, a, b)[q] = v[a + q - 1]
  BY <1>1, SubSeqProperties
<1>3. \A q \in 1..Len(SubSeq(v, a, b)) : q \in 1..b - a + 1 /\ a + q - 1 = a - 1 + q
  BY <1>2
<1> QED
  BY <1>2, <1>3

\* That w is the piece of v from a to b.
Cut(w, v, a, b) ==
  /\ w \in Seq(Nat) /\ Len(w) = IF a <= b THEN b - a + 1 ELSE 0
  /\ \A q \in 1..Len(w) : w[q] = v[a - 1 + q]

LEMMA PieceIs ==
  ASSUME NEW v, v \in Seq(Nat), NEW a, a \in Nat /\ a >= 1, NEW b, b \in Int /\ b <= Len(v)
  PROVE  Cut(SubSeq(v, a, b), v, a, b)
<1> DEFINE w == SubSeq(v, a, b)
<1>1. /\ w \in Seq(Nat) /\ Len(w) = (IF a <= b THEN b - a + 1 ELSE 0)
      /\ \A q \in 1..Len(w) : w[q] = v[a - 1 + q]
  BY Piecewise
<1> HIDE DEF w
<1>2. Cut(w, v, a, b)
  BY <1>1 DEF Cut
<1> QED
  BY <1>2 DEF w

\* Two pieces in a row.
LEMMA Joined ==
  ASSUME NEW v \in Seq(Nat), NEW w \in Seq(Nat)
  PROVE  /\ (v \o w) \in Seq(Nat) /\ Len(v \o w) = Len(v) + Len(w)
         /\ \A q \in 1..Len(v) : (v \o w)[q] = v[q]
         /\ \A q \in Len(v) + 1..Len(v) + Len(w) : (v \o w)[q] = w[q - Len(v)]
<1>1. Len(v) \in Nat /\ Len(w) \in Nat
  BY LenProperties
<1>2. /\ (v \o w) \in Seq(Nat) /\ Len(v \o w) = Len(v) + Len(w)
      /\ \A q \in 1..Len(v) + Len(w) : (v \o w)[q] = IF q <= Len(v) THEN v[q] ELSE w[q - Len(v)]
  BY ConcatProperties
<1> QED
  BY <1>1, <1>2

\* Mask characters hide.
LEMMA PadIs ==
  ASSUME NEW n \in Nat
  PROVE  Pad(n) \in Seq(Nat) /\ Len(Pad(n)) = n /\ \A q \in 1..n : Pad(n)[q] = 0
  BY DEF Pad, Hidden

\* The last four of a text are its end.
LEMMA Last4Is ==
  ASSUME NEW v \in Seq(Nat)
  PROVE  /\ Last4(v) \in Seq(Nat)
         /\ Len(Last4(v)) = IF Len(v) > 4 THEN 4 ELSE Len(v)
         /\ \A q \in 1..Len(Last4(v)) : Last4(v)[q] = v[Len(v) - Len(Last4(v)) + q]
<1>1. Len(v) \in Nat
  BY LenProperties
<1> DEFINE a == IF Len(v) > 4 THEN Len(v) - 3 ELSE 1
<1>2. a \in Nat /\ a >= 1
  BY <1>1
<1>3. /\ Last4(v) \in Seq(Nat)
      /\ Len(Last4(v)) = IF a <= Len(v) THEN Len(v) - a + 1 ELSE 0
      /\ \A q \in 1..Len(Last4(v)) : Last4(v)[q] = v[a - 1 + q]
  <2> HIDE DEF a
  <2> QED
    BY <1>1, <1>2, Piecewise DEF Last4, a
<1>4. Len(Last4(v)) = (IF Len(v) > 4 THEN 4 ELSE Len(v)) /\ a - 1 = Len(v) - Len(Last4(v))
  <2> DEFINE k == Len(Last4(v))
             n == Len(v)
  <2>1. n \in Nat /\ k = IF a <= n THEN n - a + 1 ELSE 0
    BY <1>1, <1>3
  <2>2. a = IF n > 4 THEN n - 3 ELSE 1
    OBVIOUS
  <2> HIDE DEF k, n, a
  <2>3. k = (IF n > 4 THEN 4 ELSE n) /\ a - 1 = n - k
    BY <2>1, <2>2
  <2> QED
    BY <2>3 DEF k, n
<1> QED
  BY <1>3, <1>4

\* Such a mask hides everything before the last four.
LEMMA LastFourMask ==
  ASSUME NEW type \in LastFour, NEW v \in Seq(Nat), NEW at
  PROVE  LET mask == Mask(type, v, at)
             pad == Padding(type)
         IN  /\ pad \in 6..15
             /\ mask \in Seq(Nat)
             /\ Len(mask) = pad + IF Len(v) > 4 THEN 4 ELSE Len(v)
             /\ \A q \in 1..pad : mask[q] = 0
             /\ \A q \in pad + 1..Len(mask) : mask[q] = v[Len(v) - Len(mask) + q]
<1> DEFINE pad == Padding(type)
           tail == Last4(v)
<1>1. pad \in 6..15
  BY DEF Padding, LastFour
<1>2. Mask(type, v, at) = Pad(pad) \o tail
  BY DEF Mask, Padding, LastFour
<1>3. tail \in Seq(Nat) /\ Len(tail) = (IF Len(v) > 4 THEN 4 ELSE Len(v))
  BY Last4Is
<1>4. \A q \in 1..Len(tail) : tail[q] = v[Len(v) - Len(tail) + q]
  BY Last4Is
<1> HIDE DEF pad, tail
<1>5. Pad(pad) \in Seq(Nat) /\ Len(Pad(pad)) = pad /\ \A q \in 1..pad : Pad(pad)[q] = 0
  <2>1. pad \in Nat
    BY <1>1
  <2> QED
    BY <2>1, PadIs
<1>6. Len(v) \in Nat /\ Len(tail) \in Nat
  BY <1>3, LenProperties
<1>7. /\ (Pad(pad) \o tail) \in Seq(Nat) /\ Len(Pad(pad) \o tail) = pad + Len(tail)
      /\ \A q \in 1..pad : (Pad(pad) \o tail)[q] = 0
      /\ \A q \in pad + 1..pad + Len(tail) : (Pad(pad) \o tail)[q] = tail[q - pad]
  <2> DEFINE hidden == Pad(pad)
  <2>1. hidden \in Seq(Nat) /\ Len(hidden) = pad /\ \A q \in 1..pad : hidden[q] = 0
    BY <1>5
  <2> HIDE DEF hidden
  <2>2. /\ (hidden \o tail) \in Seq(Nat) /\ Len(hidden \o tail) = Len(hidden) + Len(tail)
        /\ \A q \in 1..Len(hidden) : (hidden \o tail)[q] = hidden[q]
        /\ \A q \in Len(hidden) + 1..Len(hidden) + Len(tail) : (hidden \o tail)[q] = tail[q - Len(hidden)]
    BY <1>3, <2>1, Joined
  <2> QED
    BY <2>1, <2>2 DEF hidden
<1>8. ASSUME NEW q \in pad + 1..pad + Len(tail)
      PROVE  (Pad(pad) \o tail)[q] = v[Len(v) - (pad + Len(tail)) + q]
  <2>1. q - pad \in 1..Len(tail)
    BY <1>1, <1>6
  <2>2. Len(v) - Len(tail) + (q - pad) = Len(v) - (pad + Len(tail)) + q
    BY <1>1, <1>6
  <2> QED
    BY <1>4, <1>7, <2>1, <2>2
<1> QED
  BY <1>1, <1>2, <1>3, <1>7, <1>8 DEF pad

\* Names and addresses are hidden as a whole.
LEMMA WholeMask ==
  ASSUME NEW type \in {"ADDRESS", "PERSON"}, NEW v, NEW at
  PROVE  Mask(type, v, at) = Pad(18) \/ Mask(type, v, at) = Pad(15)
  BY DEF Mask

\* Where the "@" stands as it should, the first character and the domain are shown.
LEMMA EmailMask ==
  ASSUME NEW v \in Seq(Nat), NEW at
  PROVE  \/ /\ Mask("EMAIL", v, at) = Pad(16)
            /\ \A i \in 2..Len(v) - 1 : v[i] # at
         \/ \E i \in 2..Len(v) - 1 :
              LET mask == Mask("EMAIL", v, at)
              IN  /\ v[i] = at
                  /\ mask \in Seq(Nat) /\ Len(mask) = 5 + Len(v) - i
                  /\ mask[1] = v[1]
                  /\ \A q \in 2..5 : mask[q] = 0
                  /\ \A q \in 6..Len(mask) : mask[q] = v[q - 5 + i]
<1> DEFINE split == {i \in 2..Len(v) - 1 : v[i] = at}
           i == CHOOSE i \in split : TRUE
           domain == SubSeq(v, i + 1, Len(v))
<1>1. Mask("EMAIL", v, at) = IF split = {} THEN Pad(16) ELSE <<v[1]>> \o Pad(4) \o domain
  BY DEF Mask
<1>2. CASE split = {}
  BY <1>1, <1>2
<1>3. CASE split # {}
  <2>1. i \in split
    BY <1>3
  <2>2. i \in 2..Len(v) - 1 /\ v[i] = at /\ Len(v) \in Nat
    BY <2>1, LenProperties
  <2> HIDE DEF i
  <2>3. /\ domain \in Seq(Nat) /\ Len(domain) = Len(v) - i
        /\ \A q \in 1..Len(domain) : domain[q] = v[i + q]
    <3> DEFINE a == i + 1
               b == Len(v)
    <3>1. a \in Nat /\ a >= 1 /\ b \in Int /\ b <= Len(v) /\ a <= b /\ b - a + 1 = Len(v) - i /\ a - 1 = i
      BY <2>2
    <3>2. domain = SubSeq(v, a, b)
      OBVIOUS
    <3> HIDE DEF a, b, domain
    <3>3. /\ SubSeq(v, a, b) \in Seq(Nat)
          /\ Len(SubSeq(v, a, b)) = IF a <= b THEN b - a + 1 ELSE 0
          /\ \A q \in 1..Len(SubSeq(v, a, b)) : SubSeq(v, a, b)[q] = v[a - 1 + q]
      BY <3>1, Piecewise
    <3>4. /\ domain \in Seq(Nat) /\ Len(domain) = b - a + 1
          /\ \A q \in 1..Len(domain) : domain[q] = v[a - 1 + q]
      <4> DEFINE w == SubSeq(v, a, b)
      <4>1. /\ w \in Seq(Nat) /\ Len(w) = (IF a <= b THEN b - a + 1 ELSE 0)
            /\ \A q \in 1..Len(w) : w[q] = v[a - 1 + q]
        BY <3>3
      <4> HIDE DEF w
      <4> QED
        BY <3>1, <3>2, <4>1 DEF w
    <3> QED
      BY <3>1, <3>4
  <2>4. Pad(4) \in Seq(Nat) /\ Len(Pad(4)) = 4 /\ \A q \in 1..4 : Pad(4)[q] = 0
    BY PadIs
  <2>5. <<v[1]>> \in Seq(Nat) /\ Len(<<v[1]>>) = 1 /\ <<v[1]>>[1] = v[1]
    <3>1. 1 \in 1..Len(v)
      BY <2>2
    <3>2. v[1] \in Nat
      BY <3>1, ElementOfSeq
    <3> QED
      BY <3>2
  <2>6. Mask("EMAIL", v, at) = <<v[1]>> \o Pad(4) \o domain
    BY <1>1, <1>3 DEF i
  <2> HIDE DEF domain
  <2> DEFINE head == <<v[1]>> \o Pad(4)
  <2>7. /\ head \in Seq(Nat) /\ Len(head) = 5 /\ head[1] = v[1]
        /\ \A q \in 2..5 : head[q] = 0
    <3>1. /\ head \in Seq(Nat) /\ Len(head) = Len(<<v[1]>>) + Len(Pad(4))
          /\ \A q \in 1..Len(<<v[1]>>) : head[q] = <<v[1]>>[q]
          /\ \A q \in Len(<<v[1]>>) + 1..Len(<<v[1]>>) + Len(Pad(4)) : head[q] = Pad(4)[q - Len(<<v[1]>>)]
      BY <2>4, <2>5, Joined
    <3> HIDE DEF head
    <3>2. \A q \in 2..5 : head[q] = 0
      <4> SUFFICES ASSUME NEW q \in 2..5 PROVE head[q] = 0
        OBVIOUS
      <4>1. q - 1 \in 1..4 /\ q \in Len(<<v[1]>>) + 1..Len(<<v[1]>>) + Len(Pad(4))
        BY <2>4, <2>5
      <4>2. head[q] = Pad(4)[q - Len(<<v[1]>>)]
        BY <3>1, <4>1
      <4>3. head[q] = Pad(4)[q - 1]
        BY <2>5, <4>2
      <4> QED
        BY <2>4, <4>1, <4>3
    <3>3. 1 \in 1..Len(<<v[1]>>)
      BY <2>5
    <3>4. head[1] = v[1]
      BY <2>5, <3>1, <3>3
    <3>5. Len(head) = 5
      <4>1. Len(head) = 1 + 4
        BY <2>4, <2>5, <3>1, Zenon
      <4> QED
        BY <4>1
    <3> QED
      BY <3>1, <3>2, <3>4, <3>5
  <2> HIDE DEF head
  <2>8. /\ (head \o domain) \in Seq(Nat) /\ Len(head \o domain) = 5 + Len(domain)
        /\ \A q \in 1..5 : (head \o domain)[q] = head[q]
        /\ \A q \in 6..5 + Len(domain) : (head \o domain)[q] = domain[q - 5]
    <3>1. /\ (head \o domain) \in Seq(Nat) /\ Len(head \o domain) = Len(head) + Len(domain)
          /\ \A q \in 1..Len(head) : (head \o domain)[q] = head[q]
          /\ \A q \in Len(head) + 1..Len(head) + Len(domain) : (head \o domain)[q] = domain[q - Len(head)]
      BY <2>3, <2>7, Joined
    <3> QED
      BY <2>7, <3>1
  <2>9. ASSUME NEW q \in 6..5 + Len(domain)
        PROVE  (head \o domain)[q] = v[q - 5 + i]
    <3>1. q - 5 \in 1..Len(domain) /\ i + (q - 5) = q - 5 + i
      <4>1. Len(domain) \in Nat /\ i \in Int
        BY <2>2, <2>3, LenProperties
      <4> HIDE DEF i
      <4> QED
        BY <4>1
    <3> QED
      BY <2>3, <2>8, <3>1
  <2> DEFINE mask == head \o domain
  <2>10. /\ mask \in Seq(Nat) /\ Len(mask) = 5 + Len(v) - i
         /\ mask[1] = v[1]
         /\ \A q \in 2..5 : mask[q] = 0
         /\ \A q \in 6..Len(mask) : mask[q] = v[q - 5 + i]
    <3>1. mask \in Seq(Nat) /\ Len(mask) = 5 + Len(domain)
      BY <2>8
    <3>2. 5 + Len(domain) = 5 + Len(v) - i
      BY <2>2, <2>3
    <3>3. mask[1] = v[1] /\ \A q \in 2..5 : mask[q] = 0
      BY <2>7, <2>8
    <3>4. \A q \in 6..Len(mask) : mask[q] = v[q - 5 + i]
      BY <2>9, <3>1
    <3> HIDE DEF mask
    <3> QED
      BY <3>1, <3>2, <3>3, <3>4
  <2>11. Mask("EMAIL", v, at) = mask
    BY <2>6 DEF head
  <2> HIDE DEF mask
  <2> QED
    BY <2>2, <2>10, <2>11
<1> QED
  BY <1>2, <1>3

-----------------------------------------------------------------------------
(* The order of replacement *)

\* Of some matches one comes last, and none begins before it.
LEMMA LastOfIs ==
  ASSUME NEW t, NEW ms, Lies(t, ms), NEW T \in SUBSET ms, T # {}
  PROVE  LastOf(T) \in T /\ \A n \in T : LastOf(T).start <= n.start
<1> DEFINE Starts == {n.start : n \in T}
           Goes(m) == \A n \in T \ {m} : \/ m.start < n.start
                                         \/ m.start = n.start /\ Order(n.type) < Order(m.type)
<1>1. \A m \in T : m.start \in Nat /\ m.type \in Types
  BY DEF Lies
<1>2. PICK a \in Starts : \A b \in Starts : a <= b
  <2>1. Starts \in SUBSET Nat /\ Starts # {}
    BY <1>1
  <2> HIDE DEF Starts
  <2> QED
    BY <2>1, Least
<1>3. \A n \in T : a <= n.start
  BY <1>2
<1> DEFINE First == {n \in T : n.start = a}
           Left == {7 - Order(n.type) : n \in First}
<1>4. PICK k \in Left : \A l \in Left : k <= l
  <2>1. \A n \in First : 7 - Order(n.type) \in Nat
    BY <1>1, Orders
  <2>2. Left \in SUBSET Nat /\ Left # {}
    BY <1>2, <2>1
  <2> HIDE DEF Left
  <2> QED
    BY <2>2, Least
<1>5. PICK m \in First : k = 7 - Order(m.type)
  BY <1>4
<1>6. Goes(m)
  <2> SUFFICES ASSUME NEW n \in T \ {m}, ~(m.start < n.start)
               PROVE  m.start = n.start /\ Order(n.type) < Order(m.type)
    OBVIOUS
  <2>1. n.start = a /\ m.start = a
    BY <1>1, <1>3
  <2>2. m.type # n.type
    BY <2>1 DEF Lies
  <2>3. 7 - Order(m.type) <= 7 - Order(n.type)
    BY <1>4, <1>5, <2>1
  <2>4. /\ Order(m.type) \in 1..7 /\ Order(n.type) \in 1..7
        /\ Patterns[Order(m.type)] = m.type /\ Patterns[Order(n.type)] = n.type
    BY <1>1, Orders
  <2>5. Order(m.type) # Order(n.type)
    BY <2>2, <2>4
  <2> QED
    BY <2>1, <2>3, <2>4, <2>5
<1>7. LastOf(T) \in T /\ Goes(LastOf(T))
  <2>1. LastOf(T) = CHOOSE x \in T : Goes(x)
    BY DEF LastOf
  <2>2. \E x \in T : Goes(x)
    BY <1>6
  <2> HIDE DEF Goes
  <2> QED
    BY <2>1, <2>2
<1> QED
  BY <1>1, <1>7

\* One less of the matches is still some of them.
LEMMA LiesLess ==
  ASSUME NEW t, NEW ms, Lies(t, ms), NEW T \in SUBSET ms
  PROVE  Lies(t, T)
<1>1. IsFiniteSet(T)
  BY FS_Subset DEF Lies
<1> QED
  BY <1>1 DEF Lies

\* The value of a match is the piece of the text it covers.
LEMMA ValueIs ==
  ASSUME NEW m, m.start \in Nat, m.end \in Nat, m.start < m.end
  PROVE  /\ Value(m) \in Seq(Nat) /\ Len(Value(m)) = m.end - m.start
         /\ \A q \in 1..m.end - m.start : Value(m)[q] = m.start + q
<1> DEFINE whole == [i \in 1..m.end |-> i]
           a == m.start + 1
           b == m.end
<1>1. whole \in Seq(Nat) /\ Len(whole) = m.end /\ \A q \in 1..m.end : whole[q] = q
  OBVIOUS
<1>2. a \in Nat /\ a >= 1 /\ b \in Int /\ b <= Len(whole) /\ a <= b /\ b - a + 1 = m.end - m.start /\ a - 1 = m.start
  BY <1>1
<1>3. Value(m) = SubSeq(whole, a, b)
  BY DEF Value
<1> HIDE DEF whole, a
<1> DEFINE w == SubSeq(whole, a, b)
<1>4. /\ w \in Seq(Nat) /\ Len(w) = (IF a <= b THEN b - a + 1 ELSE 0)
      /\ \A q \in 1..Len(w) : w[q] = whole[a - 1 + q]
  BY <1>1, <1>2, Piecewise
<1> HIDE DEF w, b
<1>5. Len(w) = m.end - m.start
  BY <1>2, <1>4
<1>6. ASSUME NEW q \in 1..m.end - m.start PROVE w[q] = m.start + q
  <2>1. w[q] = whole[m.start + q]
    BY <1>2, <1>4, <1>5
  <2>2. m.start + q \in 1..m.end
    OBVIOUS
  <2> QED
    BY <1>1, <2>1, <2>2
<1>7. Value(m) = w
  BY <1>3 DEF w
<1> QED
  BY <1>4, <1>5, <1>6, <1>7

\* Some hide that many.
LEMMA LongPad ==
  ASSUME NEW n \in Nat, n >= 5
  PROVE  Pad(n) \in Seq(Nat) /\ Len(Pad(n)) >= 5
<1>1. Pad(n) \in Seq(Nat) /\ Len(Pad(n)) = n
  BY PadIs
<1> QED
  BY <1>1

\* Every mask is a text of at least five characters.
LEMMA MaskIs ==
  ASSUME NEW type \in Types, NEW v \in Seq(Nat), NEW at
  PROVE  Mask(type, v, at) \in Seq(Nat) /\ Len(Mask(type, v, at)) >= 5
<1>1. CASE type \in LastFour
  <2>1. Len(v) \in Nat
    BY LenProperties
  <2> DEFINE mask == Mask(type, v, at)
             pad == Padding(type)
  <2>2. pad \in 6..15 /\ mask \in Seq(Nat) /\ Len(mask) = pad + IF Len(v) > 4 THEN 4 ELSE Len(v)
    BY <1>1, LastFourMask
  <2> HIDE DEF mask, pad
  <2>3. mask \in Seq(Nat) /\ Len(mask) >= 5
    BY <2>1, <2>2
  <2> QED
    BY <2>3 DEF mask
<1>2. CASE type \in {"ADDRESS", "PERSON"}
  <2>1. Mask(type, v, at) = Pad(18) \/ Mask(type, v, at) = Pad(15)
    BY <1>2, WholeMask
  <2>2. \A n \in {15, 18} : Pad(n) \in Seq(Nat) /\ Len(Pad(n)) >= 5
    BY LongPad
  <2> QED
    BY <2>1, <2>2, Zenon
<1>3. CASE type = "EMAIL"
  <2> DEFINE mask == Mask("EMAIL", v, at)
  <2>1. CASE mask = Pad(16)
    <3>1. \A n \in {16} : Pad(n) \in Seq(Nat) /\ Len(Pad(n)) >= 5
      BY LongPad
    <3> QED
      BY <1>3, <2>1, <3>1, Zenon
  <2>2. CASE \E i \in 2..Len(v) - 1 : mask \in Seq(Nat) /\ Len(mask) = 5 + Len(v) - i
    <3>1. Len(v) \in Nat
      BY LenProperties
    <3> HIDE DEF mask
    <3>2. mask \in Seq(Nat) /\ Len(mask) >= 5
      BY <2>2, <3>1
    <3> QED
      BY <1>3, <3>2 DEF mask
  <2> QED
    BY <2>1, <2>2, EmailMask
<1> QED
  BY <1>1, <1>2, <1>3 DEF Types

\* A mask grows by a number of characters.
LEMMA GrowsIs ==
  ASSUME NEW t, NEW ms, Lies(t, ms), NEW m \in ms
  PROVE  Grows(t, m) \in Nat
<1>1. m.start \in Nat /\ m.end \in Nat /\ m.start < m.end /\ m.type \in Types
  BY DEF Lies
<1>2. Value(m) \in Seq(Nat)
  BY <1>1, ValueIs
<1>3. Mask(m.type, Value(m), t.at) \in Seq(Nat)
  BY <1>1, <1>2, MaskIs
<1>4. Len(Mask(m.type, Value(m), t.at)) \in Nat
  BY <1>3, LenProperties
<1> QED
  BY <1>1, <1>4 DEF Grows

-----------------------------------------------------------------------------
(* Sums over matches *)

\* How much longer the masks of some matches are than the matches.
Total(t, ms) == FoldSet(LAMBDA n, d : d + Grows(t, n), 0, ms)

\* The sum takes its matches one by one.
LEMMA TotalUnfolds ==
  ASSUME NEW t, NEW W, IsFiniteSet(W), \A n \in W : Grows(t, n) \in Nat
  PROVE  \A T \in SUBSET W :
           /\ Total(t, T) \in Nat
           /\ T = {} => Total(t, T) = 0
           /\ T # {} => \E x \in T : Total(t, T) = Total(t, T \ {x}) + Grows(t, x)
<1> DEFINE C(T) == CHOOSE x \in T : TRUE
           pick == [T \in SUBSET W |-> C(T)]
           F == [y \in W \X Nat |-> y[2] + Grows(t, y[1])]
<1>1. \A T \in SUBSET W : T # {} => pick[T] \in T
  OBVIOUS
<1>2. F \in [W \X Nat -> Nat]
  OBVIOUS
<1>3. PICK g \in [SUBSET W -> Nat] :
        \A T \in SUBSET W : g[T] = IF T = {} THEN 0 ELSE F[<<pick[T], g[T \ {pick[T]}]>>]
  <2> DEFINE V == Nat
             base == 0
  <2>1. base \in V /\ Steps(W, V, F) /\ Picks(W, pick)
    BY <1>1, <1>2 DEF Steps, Picks
  <2> HIDE DEF pick, F, V, base
  <2>2. \E g : FoldsBy(W, V, base, pick, F, g)
    BY <2>1, FoldExists
  <2> QED
    BY <2>2 DEF V, base, FoldsBy
<1>4. ASSUME NEW T \in SUBSET W PROVE g[T] = IF T = {} THEN 0 ELSE g[T \ {C(T)}] + Grows(t, C(T))
  <2>1. CASE T = {}
    BY <1>3, <2>1
  <2>2. CASE T # {}
    <3>1. g[T] = F[<<C(T), g[T \ {C(T)}]>>]
      BY <1>3, <2>2
    <3>2. C(T) \in W /\ T \ {C(T)} \in SUBSET W
      BY <2>2
    <3> HIDE DEF C
    <3>3. <<C(T), g[T \ {C(T)}]>> \in W \X Nat
      BY <3>2
    <3> QED
      BY <2>2, <3>1, <3>3
  <2> QED
    BY <2>1, <2>2
<1>5. ASSUME NEW T \in SUBSET W PROVE Total(t, T) = g[T]
  <2> DEFINE Eq(f) == f = [S \in SUBSET T |-> IF S = {} THEN 0 ELSE f[S \ {C(S)}] + Grows(t, C(S))]
             h == CHOOSE f : Eq(f)
             e == [S \in SUBSET T |-> g[S]]
  <2>1. Eq(e)
    <3>1. ASSUME NEW S \in SUBSET T
          PROVE  g[S] = IF S = {} THEN 0 ELSE e[S \ {C(S)}] + Grows(t, C(S))
      <4>1. S \ {C(S)} \in SUBSET T
        OBVIOUS
      <4> HIDE DEF C
      <4> QED
        BY <1>4, <4>1
    <3> QED
      BY <3>1
  <2>2. Total(t, T) = h[T]
    BY DEF Total, FoldSet, MapThenFoldSet
  <2>3. Eq(h)
    <3> HIDE DEF Eq, e
    <3> QED
      BY <2>1
  <2> HIDE DEF h
  <2> DEFINE Good == {S \in SUBSET T : h[S] = g[S]}
  <2>4. ASSUME NEW S \in SUBSET T, \A U \in SUBSET S : U # S => U \in Good
        PROVE  S \in Good
    <3>1. h[S] = IF S = {} THEN 0 ELSE h[S \ {C(S)}] + Grows(t, C(S))
      BY <2>3
    <3>2. S # {} => S \ {C(S)} \in SUBSET S /\ S \ {C(S)} # S
      OBVIOUS
    <3>3. S # {} => h[S \ {C(S)}] = g[S \ {C(S)}]
      BY <2>4, <3>2
    <3>4. g[S] = IF S = {} THEN 0 ELSE g[S \ {C(S)}] + Grows(t, C(S))
      BY <1>4
    <3> HIDE DEF C
    <3> QED
      BY <3>1, <3>3, <3>4
  <2>5. \A S \in SUBSET T : S \in Good
    <3>1. IsFiniteSet(T)
      BY FS_Subset
    <3> HIDE DEF Good
    <3> QED
      BY <2>4, <3>1, SubsetInduction
  <2>6. T \in Good
    BY <2>5
  <2> QED
    BY <2>2, <2>6
<1> SUFFICES ASSUME NEW T \in SUBSET W
             PROVE  /\ Total(t, T) \in Nat
                    /\ T = {} => Total(t, T) = 0
                    /\ T # {} => \E x \in T : Total(t, T) = Total(t, T \ {x}) + Grows(t, x)
  OBVIOUS
<1>6. T # {} => C(T) \in T /\ Total(t, T \ {C(T)}) = g[T \ {C(T)}]
  BY <1>5
<1> HIDE DEF C
<1> QED
  BY <1>4, <1>5, <1>6

\* The order does not matter.
LEMMA TotalAdds ==
  ASSUME NEW t, NEW W, IsFiniteSet(W), \A n \in W : Grows(t, n) \in Nat
  PROVE  \A T \in SUBSET W : \A x \in T : Total(t, T) = Total(t, T \ {x}) + Grows(t, x)
<1> DEFINE Good == {T \in SUBSET W : \A x \in T : Total(t, T) = Total(t, T \ {x}) + Grows(t, x)}
<1>1. \A T \in SUBSET W : Total(t, T) \in Nat
  BY TotalUnfolds
<1>2. ASSUME NEW T \in SUBSET W, \A U \in SUBSET T : U # T => U \in Good
      PROVE  T \in Good
  <2> SUFFICES ASSUME NEW x \in T PROVE Total(t, T) = Total(t, T \ {x}) + Grows(t, x)
    OBVIOUS
  <2>1. PICK y \in T : Total(t, T) = Total(t, T \ {y}) + Grows(t, y)
    BY TotalUnfolds
  <2>2. CASE x = y
    BY <2>1, <2>2
  <2>3. CASE x # y
    <3>1. T \ {y} \in Good /\ T \ {x} \in Good
      BY <1>2
    <3>2. x \in T \ {y} /\ y \in T \ {x}
      BY <2>3
    <3>3. Total(t, T \ {y}) = Total(t, (T \ {y}) \ {x}) + Grows(t, x)
      BY <3>1, <3>2
    <3>4. Total(t, T \ {x}) = Total(t, (T \ {x}) \ {y}) + Grows(t, y)
      BY <3>1, <3>2
    <3>5. (T \ {y}) \ {x} = (T \ {x}) \ {y}
      OBVIOUS
    <3>6. Total(t, (T \ {x}) \ {y}) \in Nat /\ Grows(t, x) \in Nat /\ Grows(t, y) \in Nat
      BY <1>1
    <3> QED
      BY <2>1, <3>3, <3>4, <3>5, <3>6
  <2> QED
    BY <2>2, <2>3
<1>3. \A T \in SUBSET W : T \in Good
  <2> HIDE DEF Good
  <2> QED
    BY <1>2, SubsetInduction
<1> QED
  BY <1>3

\* More matches have no smaller sum.
LEMMA TotalMonotone ==
  ASSUME NEW t, NEW W, IsFiniteSet(W), \A n \in W : Grows(t, n) \in Nat, NEW S \in SUBSET W
  PROVE  Total(t, S) \in Nat /\ Total(t, W) \in Nat /\ Total(t, S) <= Total(t, W)
<1> DEFINE Good == {T \in SUBSET W : S \subseteq T => Total(t, S) <= Total(t, T)}
<1>1. \A T \in SUBSET W : Total(t, T) \in Nat
  BY TotalUnfolds
<1>2. ASSUME NEW T \in SUBSET W, \A U \in SUBSET T : U # T => U \in Good
      PROVE  T \in Good
  <2> SUFFICES ASSUME S \subseteq T PROVE Total(t, S) <= Total(t, T)
    OBVIOUS
  <2>1. CASE S = T
    BY <1>1, <2>1
  <2>2. CASE S # T
    <3>1. PICK x \in T : x \notin S
      BY <2>2
    <3>2. T \ {x} \in Good
      BY <1>2
    <3>3. Total(t, S) <= Total(t, T \ {x})
      BY <3>1, <3>2
    <3>4. Total(t, T) = Total(t, T \ {x}) + Grows(t, x)
      BY TotalAdds
    <3>5. Total(t, S) \in Nat /\ Total(t, T \ {x}) \in Nat /\ Grows(t, x) \in Nat
      BY <1>1
    <3> QED
      BY <3>3, <3>4, <3>5
  <2> QED
    BY <2>1, <2>2
<1>3. W \in Good
  <2> HIDE DEF Good
  <2> QED
    BY <1>2, SubsetInduction
<1> QED
  BY <1>1, <1>3

-----------------------------------------------------------------------------
(* One replacement *)

\* Three pieces in a row.
LEMMA JoinedThree ==
  ASSUME NEW u \in Seq(Nat), NEW v \in Seq(Nat), NEW w \in Seq(Nat)
  PROVE  LET x == u \o v \o w
         IN  /\ x \in Seq(Nat) /\ Len(x) = Len(u) + Len(v) + Len(w)
             /\ \A q \in 1..Len(u) : x[q] = u[q]
             /\ \A q \in Len(u) + 1..Len(u) + Len(v) : x[q] = v[q - Len(u)]
             /\ \A q \in Len(u) + Len(v) + 1..Len(x) : x[q] = w[q - Len(u) - Len(v)]
<1>1. Len(u) \in Nat /\ Len(v) \in Nat /\ Len(w) \in Nat
  BY LenProperties
<1>2. /\ (u \o v) \in Seq(Nat) /\ Len(u \o v) = Len(u) + Len(v)
      /\ \A q \in 1..Len(u) : (u \o v)[q] = u[q]
      /\ \A q \in Len(u) + 1..Len(u) + Len(v) : (u \o v)[q] = v[q - Len(u)]
  BY Joined
<1> DEFINE y == u \o v
           x == y \o w
<1>3. /\ y \in Seq(Nat) /\ Len(y) = Len(u) + Len(v)
      /\ \A q \in 1..Len(u) : y[q] = u[q]
      /\ \A q \in Len(u) + 1..Len(u) + Len(v) : y[q] = v[q - Len(u)]
  BY <1>2
<1> HIDE DEF y
<1>4. /\ (y \o w) \in Seq(Nat) /\ Len(y \o w) = Len(y) + Len(w)
      /\ \A q \in 1..Len(y) : (y \o w)[q] = y[q]
      /\ \A q \in Len(y) + 1..Len(y) + Len(w) : (y \o w)[q] = w[q - Len(y)]
  BY <1>3, Joined
<1>5. /\ x \in Seq(Nat) /\ Len(x) = Len(y) + Len(w)
      /\ \A q \in 1..Len(y) : x[q] = y[q]
      /\ \A q \in Len(y) + 1..Len(y) + Len(w) : x[q] = w[q - Len(y)]
  BY <1>4
<1> HIDE DEF x
<1>6. Len(x) = Len(u) + Len(v) + Len(w)
  BY <1>1, <1>3, <1>5
<1>7. \A q \in 1..Len(u) : x[q] = u[q]
  BY <1>1, <1>3, <1>5
<1>8. \A q \in Len(u) + 1..Len(u) + Len(v) : x[q] = v[q - Len(u)]
  BY <1>1, <1>3, <1>5
<1>9. \A q \in Len(u) + Len(v) + 1..Len(x) : x[q] = w[q - Len(u) - Len(v)]
  <2> SUFFICES ASSUME NEW q \in Len(u) + Len(v) + 1..Len(x)
               PROVE  x[q] = w[q - Len(u) - Len(v)]
    OBVIOUS
  <2>1. q \in Len(y) + 1..Len(y) + Len(w)
    BY <1>1, <1>3, <1>6
  <2>2. q - Len(y) = q - Len(u) - Len(v)
    BY <1>1, <1>3, <1>6
  <2> QED
    BY <1>5, <2>1, <2>2
<1> QED
  BY <1>5, <1>6, <1>7, <1>8, <1>9 DEF x, y

\* That x consists of u, v and w.
Three(x, u, v, w) ==
  /\ x \in Seq(Nat) /\ Len(x) = Len(u) + Len(v) + Len(w)
  /\ \A q \in 1..Len(u) : x[q] = u[q]
  /\ \A q \in Len(u) + 1..Len(u) + Len(v) : x[q] = v[q - Len(u)]
  /\ \A q \in Len(u) + Len(v) + 1..Len(x) : x[q] = w[q - Len(u) - Len(v)]

LEMMA ThreeIs ==
  ASSUME NEW u, u \in Seq(Nat), NEW v, v \in Seq(Nat), NEW w, w \in Seq(Nat)
  PROVE  Three(u \o v \o w, u, v, w)
<1> DEFINE x == u \o v \o w
<1>1. /\ x \in Seq(Nat) /\ Len(x) = Len(u) + Len(v) + Len(w)
      /\ \A q \in 1..Len(u) : x[q] = u[q]
      /\ \A q \in Len(u) + 1..Len(u) + Len(v) : x[q] = v[q - Len(u)]
      /\ \A q \in Len(u) + Len(v) + 1..Len(x) : x[q] = w[q - Len(u) - Len(v)]
  BY JoinedThree
<1> HIDE DEF x
<1>2. Three(x, u, v, w)
  BY <1>1 DEF Three
<1> QED
  BY <1>2 DEF x

\* A replacement leaves what is before the match and what is behind it.
LEMMA SpliceIs ==
  ASSUME NEW v \in Seq(Nat), NEW m, m.start \in Nat, m.end \in Nat, m.start < m.end,
         m.start <= Len(v), NEW mask \in Seq(Nat)
  PROVE  LET w == Splice(v, m, mask)
             behind == m.start + Len(mask)
         IN  /\ w \in Seq(Nat)
             /\ Len(w) = behind + IF m.end < Len(v) THEN Len(v) - m.end ELSE 0
             /\ \A q \in 1..m.start : w[q] = v[q]
             /\ \A q \in m.start + 1..behind : w[q] = mask[q - m.start]
             /\ \A q \in behind + 1..Len(w) : w[q] = v[q - behind + m.end]
<1> DEFINE one == 1
           b == m.start
           c == m.end + 1
           d == Len(v)
           before == SubSeq(v, one, b)
           after == SubSeq(v, c, d)
           w == before \o mask \o after
           behind == m.start + Len(mask)
<1>14. Splice(v, m, mask) = w
  BY DEF Splice
<1>1. Len(v) \in Nat /\ Len(mask) \in Nat
  BY LenProperties
<1>2. /\ one \in Nat /\ one >= 1 /\ b \in Int /\ b <= Len(v) /\ one = 1 /\ b = m.start
      /\ c \in Nat /\ c >= 1 /\ d \in Int /\ d <= Len(v) /\ c = m.end + 1 /\ d = Len(v)
  BY <1>1
<1> HIDE DEF one, b, c, d
<1>3. Cut(before, v, one, b)
  BY <1>2, PieceIs
<1>4. Cut(after, v, c, d)
  BY <1>2, PieceIs
<1> HIDE DEF before, after
<1>5. /\ before \in Seq(Nat) /\ Len(before) = (IF one <= b THEN b - one + 1 ELSE 0)
      /\ \A q \in 1..Len(before) : before[q] = v[one - 1 + q]
  BY <1>3 DEF Cut
<1>6. /\ after \in Seq(Nat) /\ Len(after) = (IF c <= d THEN d - c + 1 ELSE 0)
      /\ \A q \in 1..Len(after) : after[q] = v[c - 1 + q]
  BY <1>4 DEF Cut
<1>7. Len(before) = m.start /\ \A q \in 1..m.start : before[q] = v[q]
  BY <1>2, <1>5
<1>8. Len(after) = (IF m.end < Len(v) THEN Len(v) - m.end ELSE 0)
  <2>1. Len(after) = IF c <= d THEN d - c + 1 ELSE 0
    BY <1>6
  <2>2. c = m.end + 1 /\ d = Len(v) /\ m.end \in Nat
    BY <1>2
  <2> QED
    BY <1>1, <2>1, <2>2
<1>9. \A q \in 1..Len(after) : after[q] = v[m.end + q]
  <2>1. c - 1 = m.end
    BY <1>2
  <2> QED
    BY <1>6, <2>1
<1>10. /\ w \in Seq(Nat) /\ Len(w) = Len(before) + Len(mask) + Len(after)
       /\ \A q \in 1..Len(before) : w[q] = before[q]
       /\ \A q \in Len(before) + 1..Len(before) + Len(mask) : w[q] = mask[q - Len(before)]
       /\ \A q \in Len(before) + Len(mask) + 1..Len(w) : w[q] = after[q - Len(before) - Len(mask)]
  <2>1. Three(w, before, mask, after)
    BY <1>5, <1>6, ThreeIs
  <2> HIDE DEF w
  <2> QED
    BY <2>1 DEF Three
<1> HIDE DEF w
<1>11. Len(w) = behind + Len(after) /\ Len(after) \in Nat
  BY <1>1, <1>7, <1>8, <1>10
<1>12. ASSUME NEW q \in behind + 1..Len(w) PROVE w[q] = v[q - behind + m.end]
  <2>1. q - behind \in 1..Len(after)
    BY <1>1, <1>11
  <2>2. w[q] = after[q - Len(before) - Len(mask)] /\ q - Len(before) - Len(mask) = q - behind
    BY <1>1, <1>7, <1>10, <1>11
  <2>3. m.end + (q - behind) = q - behind + m.end
    BY <1>1
  <2> QED
    BY <1>9, <2>1, <2>2, <2>3
<1>13. /\ \A q \in 1..m.start : w[q] = v[q]
       /\ \A q \in m.start + 1..behind : w[q] = mask[q - m.start]
  BY <1>7, <1>10
<1> QED
  BY <1>8, <1>10, <1>11, <1>12, <1>13, <1>14

\* What the text has at the place of a match by now.
LEMMA NowIs ==
  ASSUME NEW v \in Seq(Nat), NEW m, m.start \in Nat, m.end \in Nat, m.start < m.end, m.start <= Len(v)
  PROVE  LET end == IF m.end < Len(v) THEN m.end ELSE Len(v)
         IN  /\ Now(v, m) \in Seq(Nat) /\ Len(Now(v, m)) = end - m.start
             /\ \A q \in 1..end - m.start : Now(v, m)[q] = v[m.start + q]
<1> DEFINE a == m.start + 1
           b == IF m.end < Len(v) THEN m.end ELSE Len(v)
           w == SubSeq(v, a, b)
<1>1. Len(v) \in Nat
  BY LenProperties
<1>2. /\ a \in Nat /\ a >= 1 /\ b \in Int /\ b <= Len(v) /\ a - 1 = m.start
      /\ b - m.start = IF a <= b THEN b - a + 1 ELSE 0
  BY <1>1
<1>3. Now(v, m) = w
  BY DEF Now
<1> HIDE DEF a, b
<1>4. /\ w \in Seq(Nat) /\ Len(w) = (IF a <= b THEN b - a + 1 ELSE 0)
      /\ \A q \in 1..Len(w) : w[q] = v[a - 1 + q]
  BY <1>2, Piecewise
<1> HIDE DEF w
<1>5. Len(w) = b - m.start /\ \A q \in 1..b - m.start : w[q] = v[m.start + q]
  BY <1>2, <1>4
<1> QED
  BY <1>3, <1>4, <1>5 DEF b

\* What a mask shows is hidden, one of the last four, in the domain of an e-mail
\* address, or the first character of one.
Shown(type, u, at, mask, q) ==
  \E r \in 1..Len(u) :
    /\ mask[q] = u[r] /\ Len(mask) - q = Len(u) - r
    /\ \/ type \in LastFour /\ Len(u) - 4 < r
       \/ type = "EMAIL" /\ \E i \in 2..Len(u) - 1 : i < r /\ u[i] = at

LEMMA MaskShows ==
  ASSUME NEW type \in Types, NEW u \in Seq(Nat), NEW at, NEW q \in 1..Len(Mask(type, u, at))
  PROVE  \/ Mask(type, u, at)[q] = 0
         \/ Shown(type, u, at, Mask(type, u, at), q)
         \/ /\ type = "EMAIL" /\ q = 1 /\ 1 \in 1..Len(u)
            /\ Mask(type, u, at)[q] = u[1]
            /\ \E i \in 2..Len(u) - 1 : u[i] = at
<1>1. Len(u) \in Nat
  BY LenProperties
<1>2. CASE type \in LastFour
  <2> DEFINE mask == Mask(type, u, at)
             pad == Padding(type)
  <2>1. /\ pad \in 6..15 /\ mask \in Seq(Nat)
        /\ Len(mask) = pad + IF Len(u) > 4 THEN 4 ELSE Len(u)
        /\ \A k \in 1..pad : mask[k] = 0
        /\ \A k \in pad + 1..Len(mask) : mask[k] = u[Len(u) - Len(mask) + k]
    BY <1>2, LastFourMask
  <2>2. q \in 1..Len(mask)
    OBVIOUS
  <2> HIDE DEF mask, pad
  <2>3. CASE q \in 1..pad
    BY <2>1, <2>3 DEF mask
  <2>4. CASE q \notin 1..pad
    <3> DEFINE r == Len(u) - Len(mask) + q
    <3>1. q \in pad + 1..Len(mask)
      BY <2>1, <2>2, <2>4
    <3>2. r \in 1..Len(u) /\ Len(mask) - q = Len(u) - r /\ Len(u) - 4 < r
      <4> DEFINE l == Len(mask)
                 n == Len(u)
                 k == IF n > 4 THEN 4 ELSE n
      <4>1. n \in Nat /\ k \in Nat /\ k <= 4 /\ k <= n
        BY <1>1
      <4>2. pad \in 6..15 /\ l = pad + k /\ q \in pad + 1..l
        BY <2>1, <3>1
      <4>3. r = n - l + q
        OBVIOUS
      <4> HIDE DEF l, n, k, r
      <4>4. r \in 1..n /\ l - q = n - r /\ n - 4 < r
        BY <4>1, <4>2, <4>3
      <4> QED
        BY <4>4 DEF l, n
    <3>3. mask[q] = u[r]
      BY <2>1, <3>1
    <3> HIDE DEF r
    <3>4. Shown(type, u, at, mask, q)
      BY <1>2, <3>2, <3>3 DEF Shown
    <3> QED
      BY <3>4 DEF mask
  <2> QED
    BY <2>3, <2>4
<1>3. ASSUME NEW n \in Nat, Mask(type, u, at) = Pad(n) PROVE Mask(type, u, at)[q] = 0
  <2> DEFINE mask == Mask(type, u, at)
             pad == Pad(n)
  <2>1. q \in 1..Len(mask) /\ mask = pad /\ Len(pad) = n /\ \A k \in 1..n : pad[k] = 0
    BY <1>3, PadIs
  <2> HIDE DEF mask, pad
  <2>2. Len(mask) = n /\ \A k \in 1..n : mask[k] = 0
    BY <2>1
  <2>3. mask[q] = 0
    BY <2>1, <2>2
  <2> QED
    BY <2>3 DEF mask
<1>4. CASE type \in {"ADDRESS", "PERSON"}
  BY <1>3, <1>4, WholeMask
<1>5. CASE type = "EMAIL"
  <2> DEFINE mask == Mask("EMAIL", u, at)
  <2>1. CASE mask = Pad(16)
    BY <1>3, <1>5, <2>1
  <2>2. CASE \E i \in 2..Len(u) - 1 :
               /\ u[i] = at
               /\ mask \in Seq(Nat) /\ Len(mask) = 5 + Len(u) - i
               /\ mask[1] = u[1]
               /\ \A k \in 2..5 : mask[k] = 0
               /\ \A k \in 6..Len(mask) : mask[k] = u[k - 5 + i]
    <3>1. q \in 1..Len(mask)
      BY <1>5
    <3> HIDE DEF mask
    <3>2. PICK i \in 2..Len(u) - 1 :
               /\ u[i] = at
               /\ mask \in Seq(Nat) /\ Len(mask) = 5 + Len(u) - i
               /\ mask[1] = u[1]
               /\ \A k \in 2..5 : mask[k] = 0
               /\ \A k \in 6..Len(mask) : mask[k] = u[k - 5 + i]
      BY <2>2
    <3>3. CASE q = 1
      <4>1. 1 \in 1..Len(u) /\ mask[q] = u[1]
        BY <1>1, <3>2, <3>3
      <4> QED
        BY <1>5, <3>2, <3>3, <4>1 DEF mask
    <3>4. CASE q \in 2..5
      <4>1. mask[q] = 0
        BY <3>2, <3>4
      <4> QED
        BY <1>5, <4>1 DEF mask
    <3>5. CASE q \in 6..Len(mask)
      <4> DEFINE r == q - 5 + i
      <4>1. r \in 1..Len(u) /\ Len(mask) - q = Len(u) - r /\ i < r
        BY <1>1, <3>2, <3>5
      <4>2. mask[q] = u[r]
        BY <3>2, <3>5
      <4> HIDE DEF r
      <4>3. Shown("EMAIL", u, at, mask, q)
        BY <3>2, <4>1, <4>2 DEF Shown
      <4> QED
        BY <1>5, <4>3 DEF mask
    <3> QED
      BY <1>1, <3>1, <3>2, <3>3, <3>4, <3>5
  <2>3. \/ mask = Pad(16)
        \/ \E i \in 2..Len(u) - 1 :
               /\ u[i] = at
               /\ mask \in Seq(Nat) /\ Len(mask) = 5 + Len(u) - i
               /\ mask[1] = u[1]
               /\ \A k \in 2..5 : mask[k] = 0
               /\ \A k \in 6..Len(mask) : mask[k] = u[k - 5 + i]
    BY EmailMask
  <2> QED
    BY <2>1, <2>2, <2>3
<1> QED
  BY <1>2, <1>4, <1>5 DEF Types

\* No mask is longer than the match it stands for by more than it grows.
LEMMA MaskGrows ==
  ASSUME NEW t, NEW ms, Lies(t, ms), NEW m \in ms, NEW u \in Seq(Nat), Len(u) <= m.end - m.start
  PROVE  Len(Mask(m.type, u, t.at)) <= m.end - m.start + Grows(t, m)
<1> DEFINE size == m.end - m.start
<1>1. m.start \in Nat /\ m.end \in Nat /\ m.start < m.end /\ m.type \in Types
  BY DEF Lies
<1>2. Value(m) \in Seq(Nat) /\ Len(Value(m)) = size /\ size \in Nat /\ Len(u) \in Nat
  BY <1>1, ValueIs, LenProperties
<1> DEFINE usual == Len(Mask(m.type, Value(m), t.at))
           now == Len(Mask(m.type, u, t.at))
<1>3. usual \in Nat /\ now \in Nat
  <2>1. Mask(m.type, Value(m), t.at) \in Seq(Nat) /\ Mask(m.type, u, t.at) \in Seq(Nat)
    BY <1>1, <1>2, MaskIs
  <2> QED
    BY <2>1, LenProperties
<1>4. m.type # "EMAIL" => now <= usual
  <2>1. CASE m.type \in LastFour
    <3> DEFINE pad == Padding(m.type)
    <3>1. /\ pad \in 6..15
          /\ usual = pad + IF Len(Value(m)) > 4 THEN 4 ELSE Len(Value(m))
      BY <1>2, <2>1, LastFourMask
    <3>2. now = pad + IF Len(u) > 4 THEN 4 ELSE Len(u)
      BY <2>1, LastFourMask
    <3> HIDE DEF pad, usual, now
    <3> QED
      BY <1>2, <3>1, <3>2
  <2>2. CASE m.type \in {"ADDRESS", "PERSON"}
    <3>1. Mask(m.type, u, t.at) = Mask(m.type, Value(m), t.at)
      BY <2>2 DEF Mask
    <3> QED
      BY <1>3, <3>1
  <2> QED
    BY <1>1, <2>1, <2>2 DEF Types
<1>5. m.type = "EMAIL" => now <= (IF Len(u) + 3 > 16 THEN Len(u) + 3 ELSE 16)
  <2> SUFFICES ASSUME m.type = "EMAIL"
               PROVE  now <= (IF Len(u) + 3 > 16 THEN Len(u) + 3 ELSE 16)
    OBVIOUS
  <2> DEFINE mask == Mask("EMAIL", u, t.at)
  <2>1. mask = Pad(16) \/ \E i \in 2..Len(u) - 1 : Len(mask) = 5 + Len(u) - i
    BY EmailMask
  <2>2. now = Len(mask)
    OBVIOUS
  <2> HIDE DEF mask, now
  <2>3. CASE mask = Pad(16)
    <3>1. 16 \in Nat
      OBVIOUS
    <3>2. Len(mask) = 16
      BY <2>3, <3>1, PadIs, Zenon
    <3> QED
      BY <1>2, <2>2, <3>2
  <2>4. CASE \E i \in 2..Len(u) - 1 : Len(mask) = 5 + Len(u) - i
    BY <1>2, <2>2, <2>4
  <2> QED
    BY <2>1, <2>3, <2>4
<1>6. Grows(t, m) = LET d == IF m.type = "EMAIL" THEN IF size > 13 THEN 3 ELSE 16 - size ELSE usual - size
                    IN  IF d > 0 THEN d ELSE 0
  BY DEF Grows
<1> HIDE DEF usual, now, size
<1>7. Len(u) <= size
  BY DEF size
<1>8. now <= size + Grows(t, m)
  BY <1>2, <1>3, <1>4, <1>5, <1>6, <1>7
<1> QED
  BY <1>8 DEF now, size

\* The service masks as the gateway does, or keeps the first character alone.
FirstAlone(type, u, mask) ==
  /\ type = "EMAIL" /\ Len(u) > 1
  /\ mask \in Seq(Nat) /\ Len(mask) = 5 /\ mask[1] = u[1] /\ \A q \in 2..5 : mask[q] = 0

LEMMA ServiceMaskIs ==
  ASSUME NEW type, NEW u \in Seq(Nat), NEW at
  PROVE  \/ ServiceMask(type, u, at) = Mask(type, u, at)
         \/ /\ u[Len(u)] = at
            /\ FirstAlone(type, u, ServiceMask(type, u, at))
<1> SUFFICES ASSUME type = "EMAIL", Len(u) > 1, u[Len(u)] = at,
                    ServiceMask(type, u, at) = <<u[1]>> \o Pad(4)
             PROVE  FirstAlone(type, u, ServiceMask(type, u, at))
  BY DEF ServiceMask
<1> DEFINE first == <<u[1]>>
           rest == Pad(4)
<1>1. Len(u) \in Nat /\ 1 \in 1..Len(u)
  BY LenProperties
<1>2. first \in Seq(Nat) /\ Len(first) = 1 /\ first[1] = u[1]
  <2>1. u[1] \in Nat
    BY <1>1, ElementOfSeq
  <2> QED
    BY <2>1
<1>3. rest \in Seq(Nat) /\ Len(rest) = 4 /\ \A q \in 1..4 : rest[q] = 0
  BY PadIs
<1> HIDE DEF first, rest
<1> DEFINE mask == first \o rest
<1>4. /\ mask \in Seq(Nat) /\ Len(mask) = Len(first) + Len(rest)
      /\ \A q \in 1..Len(first) : mask[q] = first[q]
      /\ \A q \in Len(first) + 1..Len(first) + Len(rest) : mask[q] = rest[q - Len(first)]
  BY <1>2, <1>3, Joined
<1> HIDE DEF mask
<1>5. mask[1] = u[1] /\ Len(mask) = 5
  <2>1. 1 \in 1..Len(first) /\ Len(mask) = 1 + 4
    BY <1>2, <1>3, <1>4
  <2>2. mask[1] = first[1]
    BY <1>4, <2>1, Zenon
  <2>3. mask[1] = u[1]
    BY <1>2, <2>2, Zenon
  <2> QED
    BY <2>1, <2>3
<1>6. ASSUME NEW q \in 2..5 PROVE mask[q] = 0
  <2>1. q \in Len(first) + 1..Len(first) + Len(rest) /\ q - Len(first) = q - 1 /\ q - 1 \in 1..4
    BY <1>2, <1>3
  <2> QED
    BY <1>3, <1>4, <2>1
<1>7. FirstAlone(type, u, mask)
  BY <1>4, <1>5, <1>6 DEF FirstAlone
<1> QED
  BY <1>7 DEF mask, first, rest

\* What the masks of the gateway are, those of the service are as well.
MaskBy(side, type, u, at) == IF side = "local" THEN Mask(type, u, at) ELSE ServiceMask(type, u, at)

LEMMA EitherMask ==
  ASSUME NEW side, NEW type, NEW u \in Seq(Nat), NEW at
  PROVE  \/ MaskBy(side, type, u, at) = Mask(type, u, at)
         \/ /\ u[Len(u)] = at
            /\ FirstAlone(type, u, MaskBy(side, type, u, at))
  BY ServiceMaskIs DEF MaskBy

LEMMA MaskByIs ==
  ASSUME NEW side, NEW type \in Types, NEW u \in Seq(Nat), NEW at
  PROVE  MaskBy(side, type, u, at) \in Seq(Nat) /\ Len(MaskBy(side, type, u, at)) >= 5
<1> DEFINE mask == MaskBy(side, type, u, at)
<1>1. mask = Mask(type, u, at) \/ FirstAlone(type, u, mask)
  BY EitherMask
<1> HIDE DEF mask
<1>2. ASSUME mask = Mask(type, u, at) PROVE mask \in Seq(Nat) /\ Len(mask) >= 5
  BY <1>2, MaskIs
<1>3. ASSUME FirstAlone(type, u, mask) PROVE mask \in Seq(Nat) /\ Len(mask) >= 5
  <2>1. mask \in Seq(Nat) /\ Len(mask) = 5
    BY <1>3 DEF FirstAlone
  <2> QED
    BY <2>1
<1> QED
  BY <1>1, <1>2, <1>3 DEF mask

LEMMA MaskByShows ==
  ASSUME NEW side, NEW type \in Types, NEW u \in Seq(Nat), NEW at,
         NEW q \in 1..Len(MaskBy(side, type, u, at))
  PROVE  \/ MaskBy(side, type, u, at)[q] = 0
         \/ Shown(type, u, at, MaskBy(side, type, u, at), q)
         \/ /\ type = "EMAIL" /\ q = 1 /\ 1 \in 1..Len(u)
            /\ MaskBy(side, type, u, at)[q] = u[1]
<1> DEFINE mask == MaskBy(side, type, u, at)
<1>1. mask = Mask(type, u, at) \/ FirstAlone(type, u, mask)
  BY EitherMask
<1>2. q \in 1..Len(mask) /\ Len(u) \in Nat
  BY LenProperties
<1> HIDE DEF mask
<1>3. CASE mask = Mask(type, u, at)
  BY <1>2, <1>3, MaskShows DEF mask
<1>4. CASE FirstAlone(type, u, mask)
  <2>1. /\ type = "EMAIL" /\ 1 \in 1..Len(u)
        /\ q \in 1..5 /\ mask[1] = u[1] /\ \A k \in 2..5 : mask[k] = 0
    BY <1>2, <1>4 DEF FirstAlone
  <2>2. q = 1 \/ q \in 2..5
    BY <2>1
  <2> QED
    BY <2>1, <2>2 DEF mask
<1> QED
  BY <1>1, <1>3, <1>4

LEMMA MaskByGrows ==
  ASSUME NEW side, NEW t, NEW ms, Lies(t, ms), NEW m \in ms, NEW u \in Seq(Nat),
         Len(u) <= m.end - m.start
  PROVE  Len(MaskBy(side, m.type, u, t.at)) <= m.end - m.start + Grows(t, m)
<1> DEFINE mask == MaskBy(side, m.type, u, t.at)
           size == m.end - m.start
<1>1. m.start \in Nat /\ m.end \in Nat /\ m.start < m.end
  BY DEF Lies
<1>2. mask = Mask(m.type, u, t.at) \/ FirstAlone(m.type, u, mask)
  BY EitherMask
<1> HIDE DEF mask
<1>3. CASE mask = Mask(m.type, u, t.at)
  BY <1>3, MaskGrows DEF mask
<1>4. CASE FirstAlone(m.type, u, mask)
  <2>1. m.type = "EMAIL" /\ Len(mask) = 5
    BY <1>4 DEF FirstAlone
  <2>2. Grows(t, m) = LET d == IF size > 13 THEN 3 ELSE 16 - size IN IF d > 0 THEN d ELSE 0
    BY <2>1 DEF Grows
  <2>3. size \in Nat
    BY <1>1
  <2> HIDE DEF size
  <2>4. 5 <= size + Grows(t, m)
    BY <2>2, <2>3
  <2> QED
    BY <2>1, <2>4 DEF mask, size
<1> QED
  BY <1>2, <1>3, <1>4

-----------------------------------------------------------------------------
(* How far a character is pushed *)

\* What the matches before character c add to the text.
Before(t, T, c) == Total(t, {n \in T : n.start < c})
Inner(T, m) == {n \in T \ {m} : Cover(n) \subseteq Cover(m)}
Covered(T) == UNION {Cover(m) : m \in T}
Copied(t, T) == UNION {Repeated(t, m) : m \in T}
AllPushed(t, T) == UNION {Pushed(t, T, m) : m \in T}

\* Sums over some of the matches of a text are numbers, and grow with them.
LEMMA TotalLies ==
  ASSUME NEW t, NEW ms, Lies(t, ms), NEW T \in SUBSET ms, NEW S \in SUBSET T
  PROVE  Total(t, S) \in Nat /\ Total(t, T) \in Nat /\ Total(t, S) <= Total(t, T)
<1>1. IsFiniteSet(T)
  BY FS_Subset DEF Lies
<1>2. \A n \in T : Grows(t, n) \in Nat
  BY GrowsIs
<1> QED
  BY <1>1, <1>2, TotalMonotone

\* Characters behind a match move by what it grows, those before it do not.
LEMMA BeforeAdds ==
  ASSUME NEW t, NEW ms, Lies(t, ms), NEW T \in SUBSET ms, NEW m \in T, NEW c \in Nat
  PROVE  /\ Before(t, T \ {m}, c) \in Nat /\ Before(t, T, c) \in Nat
         /\ Before(t, T \ {m}, c) <= Before(t, T, c)
         /\ m.start < c => Before(t, T, c) = Before(t, T \ {m}, c) + Grows(t, m)
<1> DEFINE S == {n \in T : n.start < c}
           R == {n \in T \ {m} : n.start < c}
<1>1. S \in SUBSET ms /\ R \in SUBSET S
  OBVIOUS
<1>2. Total(t, R) \in Nat /\ Total(t, S) \in Nat /\ Total(t, R) <= Total(t, S)
  <2> HIDE DEF S, R
  <2> QED
    BY <1>1, TotalLies
<1>3. ASSUME m.start < c PROVE Total(t, S) = Total(t, R) + Grows(t, m)
  <2>1. R = S \ {m} /\ m \in S
    BY <1>3
  <2>2. IsFiniteSet(S)
    BY <1>1, FS_Subset DEF Lies
  <2>3. \A n \in S : Grows(t, n) \in Nat
    BY <1>1, GrowsIs
  <2> HIDE DEF S, R
  <2>4. S \in SUBSET S
    OBVIOUS
  <2>5. Total(t, S) = Total(t, S \ {m}) + Grows(t, m)
    BY <2>1, <2>2, <2>3, <2>4, TotalAdds
  <2> QED
    BY <2>1, <2>5
<1> QED
  BY <1>2, <1>3 DEF Before

\* The matches that begin before a character only m covers lie inside m.
LEMMA BeforeInner ==
  ASSUME NEW t, NEW ms, Lies(t, ms), NEW T \in SUBSET ms, NEW m \in T,
         \A n \in T : m.start <= n.start,
         NEW c \in Cover(m), c \notin Covered(T \ {m})
  PROVE  /\ Before(t, T \ {m}, c) \in Nat /\ Total(t, Inner(T, m)) \in Nat
         /\ Before(t, T \ {m}, c) <= Total(t, Inner(T, m))
<1> DEFINE R == {n \in T \ {m} : n.start < c}
           I == Inner(T, m)
<1>1. R \subseteq I
  <2> SUFFICES ASSUME NEW n \in T \ {m}, n.start < c PROVE Cover(n) \subseteq Cover(m)
    BY DEF Inner
  <2>1. /\ m.start \in Nat /\ m.end \in Nat /\ n.start \in Nat /\ n.end \in Nat
        /\ m.start <= n.start
    BY DEF Lies
  <2>2. c \in m.start + 1..m.end /\ c \notin n.start + 1..n.end
    BY DEF Cover, Covered
  <2>3. n.end < c
    BY <2>1, <2>2
  <2> QED
    BY <2>1, <2>2, <2>3 DEF Cover
<1>2. I \in SUBSET ms
  BY DEF Inner
<1> HIDE DEF R, I
<1>3. Total(t, R) \in Nat /\ Total(t, I) \in Nat /\ Total(t, R) <= Total(t, I)
  BY <1>1, <1>2, TotalLies
<1> QED
  BY <1>3 DEF Before, R, I

\* What is pushed out of reach of a mask, as a sum.
LEMMA PushedIs ==
  ASSUME NEW t, NEW T, NEW m
  PROVE  Pushed(t, T, m) = IF Total(t, Inner(T, m)) = 0 THEN {}
                           ELSE {i \in Cover(m) : i > m.end - Total(t, Inner(T, m)) - 4}
  BY DEF Pushed, Total, Inner

\* More matches push at least as much out of reach.
LEMMA PushedGrows ==
  ASSUME NEW t, NEW ms, Lies(t, ms), NEW T \in SUBSET ms, NEW S \in SUBSET T
  PROVE  AllPushed(t, S) \subseteq AllPushed(t, T)
<1> SUFFICES ASSUME NEW m \in S PROVE Pushed(t, S, m) \subseteq Pushed(t, T, m)
  BY DEF AllPushed
<1> DEFINE a == Total(t, Inner(S, m))
           b == Total(t, Inner(T, m))
<1>1. Inner(S, m) \in SUBSET Inner(T, m) /\ Inner(T, m) \in SUBSET ms
  BY DEF Inner
<1>2. a \in Nat /\ b \in Nat /\ a <= b
  BY <1>1, TotalLies
<1>3. Pushed(t, S, m) = (IF a = 0 THEN {} ELSE {i \in Cover(m) : i > m.end - a - 4})
  BY PushedIs
<1>4. Pushed(t, T, m) = (IF b = 0 THEN {} ELSE {i \in Cover(m) : i > m.end - b - 4})
  BY PushedIs
<1> HIDE DEF a, b
<1>5. m.start \in Nat /\ m.end \in Nat
  BY DEF Lies
<1>6. ASSUME NEW i \in Cover(m), i > m.end - a - 4 PROVE i > m.end - b - 4
  <2>1. i \in Int
    BY <1>5 DEF Cover
  <2> QED
    BY <1>2, <1>5, <1>6, <2>1
<1> QED
  BY <1>2, <1>3, <1>4, <1>6

\* A character only m covers that has got to the end of m by more than its own
\* last four is pushed.
LEMMA PushedBehind ==
  ASSUME NEW t, NEW ms, Lies(t, ms), NEW T \in SUBSET ms, NEW m \in T,
         \A n \in T : m.start <= n.start,
         NEW c \in Cover(m), c \notin Covered(T \ {m}),
         NEW p \in Nat, p <= c + Before(t, T \ {m}, c), m.end - 4 < p
  PROVE  c \in AllPushed(t, T) \/ (m.end - 4 < c /\ p <= c)
<1> DEFINE b == Total(t, Inner(T, m))
           d == Before(t, T \ {m}, c)
<1>1. d \in Nat /\ b \in Nat /\ d <= b
  BY BeforeInner
<1>2. c \in Nat /\ m.end \in Nat
  BY DEF Lies, Cover
<1>3. Pushed(t, T, m) = (IF b = 0 THEN {} ELSE {i \in Cover(m) : i > m.end - b - 4})
  BY PushedIs
<1>4. p <= c + d
  OBVIOUS
<1> HIDE DEF b, d
<1>5. CASE b = 0
  BY <1>1, <1>2, <1>4, <1>5
<1>6. CASE b # 0
  <2>1. c > m.end - b - 4
    BY <1>1, <1>2, <1>4
  <2>2. c \in Pushed(t, T, m)
    BY <1>3, <1>6, <2>1
  <2>3. c \in AllPushed(t, T)
    BY <2>2 DEF AllPushed
  <2> QED
    BY <2>3
<1> QED
  BY <1>5, <1>6

-----------------------------------------------------------------------------
(* What is before the matches stays where it is *)

Intact(t, T, v) ==
  \A b \in 0..t.length : (\A n \in T : b <= n.start) =>
    /\ b <= Len(v)
    /\ \A p \in 1..b : v[p] = p
    /\ \A p \in b + 1..Len(v) : v[p] = 0 \/ v[p] > b

\* At first everything does.
LEMMA WholeIs ==
  ASSUME NEW t, t.length \in Nat
  PROVE  /\ Whole(t) \in Seq(Nat) /\ Len(Whole(t)) = t.length
         /\ \A p \in 1..t.length : Whole(t)[p] = p
  BY DEF Whole

LEMMA WholeIntact ==
  ASSUME NEW t, t.length \in Nat
  PROVE  Intact(t, {}, Whole(t))
<1> DEFINE v == Whole(t)
<1>1. Len(v) = t.length /\ \A p \in 1..t.length : v[p] = p
  BY WholeIs
<1> HIDE DEF v
<1>2. ASSUME NEW b \in 0..t.length
      PROVE  /\ b <= Len(v) /\ \A p \in 1..b : v[p] = p
             /\ \A p \in b + 1..Len(v) : v[p] = 0 \/ v[p] > b
  <2>1. b \in Nat /\ b <= t.length
    OBVIOUS
  <2>2. \A p \in 1..b : p \in 1..t.length
    BY <2>1
  <2>3. \A p \in b + 1..t.length : p \in 1..t.length /\ p > b
    BY <2>1
  <2> QED
    BY <1>1, <2>1, <2>2, <2>3
<1>3. Intact(t, {}, v)
  BY <1>2 DEF Intact
<1> QED
  BY <1>3 DEF v

\* Where a character behind a match was before the replacement.
LEMMA Behind ==
  ASSUME NEW start, start \in Nat, NEW end, end \in Nat, start < end, NEW len, len \in Nat,
         NEW behind, behind \in Nat, NEW q, q \in behind + 1..behind + (len - end)
  PROVE  q - behind + end \in start + 1..len /\ q - behind + end > end
  OBVIOUS

\* A replacement of a match that begins before all others leaves it there.
LEMMA SpliceIntact ==
  ASSUME NEW t, NEW ms, Lies(t, ms), NEW T \in SUBSET ms, NEW m \in T,
         \A n \in T : m.start <= n.start,
         NEW v \in Seq(Nat), Intact(t, T \ {m}, v),
         NEW mask \in Seq(Nat), \A q \in 1..Len(mask) : mask[q] = 0 \/ mask[q] > m.start
  PROVE  Splice(v, m, mask) \in Seq(Nat) /\ Intact(t, T, Splice(v, m, mask))
<1> DEFINE w == Splice(v, m, mask)
           behind == m.start + Len(mask)
<1>1. /\ m.start \in Nat /\ m.end \in Nat /\ m.start < m.end /\ m.end <= t.length /\ t.length \in Nat
      /\ \A n \in T : n.start \in Nat
      /\ Len(v) \in Nat /\ Len(mask) \in Nat
  BY LenProperties DEF Lies
<1>2. /\ m.start <= Len(v)
      /\ \A p \in 1..m.start : v[p] = p
      /\ \A p \in m.start + 1..Len(v) : v[p] = 0 \/ v[p] > m.start
  <2>1. m.start \in 0..t.length
    BY <1>1
  <2> QED
    BY <2>1 DEF Intact
<1>3. /\ w \in Seq(Nat)
      /\ Len(w) = behind + IF m.end < Len(v) THEN Len(v) - m.end ELSE 0
      /\ \A q \in 1..m.start : w[q] = v[q]
      /\ \A q \in m.start + 1..behind : w[q] = mask[q - m.start]
      /\ \A q \in behind + 1..Len(w) : w[q] = v[q - behind + m.end]
  BY <1>1, <1>2, SpliceIs
<1> HIDE DEF w
<1> DEFINE after == IF m.end < Len(v) THEN Len(v) - m.end ELSE 0
<1>9. after \in Nat /\ (after = 0 \/ after = Len(v) - m.end)
  BY <1>1
<1>10. behind \in Nat /\ m.start <= behind
  BY <1>1
<1>11. Len(w) = behind + after
  BY <1>3
<1> HIDE DEF after, behind
<1>4. behind \in Nat /\ Len(w) \in Nat /\ m.start <= behind /\ behind <= Len(w)
  BY <1>1, <1>9, <1>10, <1>11
<1>5. \A q \in 1..m.start : w[q] = q
  BY <1>2, <1>3
<1>6. ASSUME NEW q \in m.start + 1..Len(w) PROVE w[q] = 0 \/ w[q] > m.start
  <2>1. CASE q \in m.start + 1..behind
    <3>1. w[q] = mask[q - m.start]
      BY <1>3, <2>1
    <3>2. q - m.start \in 1..Len(mask)
      BY <1>1, <2>1 DEF behind
    <3> QED
      BY <3>1, <3>2
  <2>2. CASE q \in behind + 1..Len(w)
    <3> DEFINE r == q - behind + m.end
    <3>1. w[q] = v[r]
      BY <1>3, <2>2
    <3>2. r \in m.start + 1..Len(v)
      <4>1. /\ m.start \in Nat /\ m.end \in Nat /\ m.start < m.end /\ Len(v) \in Nat
            /\ q \in behind + 1..behind + after
        BY <1>1, <1>11, <2>2
      <4>2. after = Len(v) - m.end
        BY <1>9, <1>10, <4>1
      <4>3. q \in behind + 1..behind + (Len(v) - m.end) /\ behind \in Nat
        BY <1>10, <4>1, <4>2
      <4> QED
        BY <4>1, <4>3, Behind
    <3> HIDE DEF r
    <3> QED
      BY <1>2, <3>1, <3>2
  <2> QED
    BY <1>1, <1>4, <1>6, <2>1, <2>2
<1>7. ASSUME NEW b \in 0..t.length, \A n \in T : b <= n.start
      PROVE  /\ b <= Len(w)
             /\ \A p \in 1..b : w[p] = p
             /\ \A p \in b + 1..Len(w) : w[p] = 0 \/ w[p] > b
  <2>1. b <= m.start /\ b \in Nat
    BY <1>1, <1>7
  <2>2. b <= Len(w)
    BY <1>1, <1>4, <2>1
  <2>3. \A p \in 1..b : w[p] = p
    BY <1>1, <1>5, <2>1
  <2>4. ASSUME NEW p \in b + 1..Len(w) PROVE w[p] = 0 \/ w[p] > b
    <3>1. CASE p <= m.start
      BY <1>1, <1>5, <2>1, <3>1
    <3>2. CASE ~(p <= m.start)
      <4>1. p \in m.start + 1..Len(w)
        BY <1>1, <1>4, <2>1, <3>2
      <4>2. w[p] = 0 \/ w[p] > m.start
        BY <1>6, <4>1
      <4>3. w[p] \in Nat
        <5>1. p \in 1..Len(w)
          BY <1>1, <4>1
        <5> QED
          BY <1>3, <5>1, ElementOfSeq
      <4> QED
        BY <1>1, <2>1, <4>2, <4>3
    <3> QED
      BY <3>1, <3>2
  <2> QED
    BY <2>2, <2>3, <2>4
<1>8. Intact(t, T, w)
  BY <1>7 DEF Intact
<1> QED
  BY <1>3, <1>8 DEF w

-----------------------------------------------------------------------------
(* The loop over the matches *)

\* The gateway masks the value a match had, the service what is there by now.
Read(side, v, m) == IF side = "local" THEN Value(m) ELSE Now(v, m)
MaskOf(side, t, v, m) == MaskBy(side, m.type, Read(side, v, m), t.at)
StepOf(side, t, v, m) == Splice(v, m, MaskOf(side, t, v, m))

\* The text after the first replacements, for some or all of the matches.
Runs(side, t, ms, f) ==
  \A T \in SUBSET ms :
    f[T] = IF T = {} THEN Whole(t) ELSE StepOf(side, t, f[T \ {LastOf(T)}], LastOf(T))

\* Either reads no more than the match is long.
LEMMA ReadIs ==
  ASSUME NEW side, NEW t, NEW ms, Lies(t, ms), NEW m \in ms, NEW v \in Seq(Nat), m.start <= Len(v)
  PROVE  /\ Read(side, v, m) \in Seq(Nat) /\ Len(Read(side, v, m)) <= m.end - m.start
         /\ MaskOf(side, t, v, m) \in Seq(Nat) /\ Len(MaskOf(side, t, v, m)) >= 5
<1>1. /\ m.start \in Nat /\ m.end \in Nat /\ m.start < m.end /\ m.type \in Types /\ Len(v) \in Nat
  BY LenProperties DEF Lies
<1>2. Read(side, v, m) \in Seq(Nat) /\ Len(Read(side, v, m)) <= m.end - m.start
  <2>1. CASE side = "local"
    <3>1. Value(m) \in Seq(Nat) /\ Len(Value(m)) = m.end - m.start
      BY <1>1, ValueIs
    <3>2. Len(Value(m)) <= m.end - m.start
      BY <1>1, <3>1
    <3> QED
      BY <2>1, <3>1, <3>2 DEF Read
  <2>2. CASE side # "local"
    <3> DEFINE end == IF m.end < Len(v) THEN m.end ELSE Len(v)
    <3>1. Now(v, m) \in Seq(Nat) /\ Len(Now(v, m)) = end - m.start
      BY <1>1, NowIs
    <3>2. end - m.start <= m.end - m.start
      BY <1>1
    <3> HIDE DEF end
    <3>3. Len(Now(v, m)) <= m.end - m.start
      BY <3>1, <3>2
    <3> QED
      BY <2>2, <3>1, <3>3 DEF Read
  <2> QED
    BY <2>1, <2>2
<1>3. MaskOf(side, t, v, m) \in Seq(Nat) /\ Len(MaskOf(side, t, v, m)) >= 5
  BY <1>1, <1>2, MaskByIs DEF MaskOf
<1> QED
  BY <1>2, <1>3

\* Either shows characters of the match or of what is behind it.
LEMMA ReadAbove ==
  ASSUME NEW side, NEW t, NEW ms, Lies(t, ms), NEW T \in SUBSET ms, NEW m \in T,
         \A n \in T : m.start <= n.start,
         NEW v \in Seq(Nat), Intact(t, T \ {m}, v)
  PROVE  /\ m.start <= Len(v)
         /\ \A q \in 1..Len(MaskOf(side, t, v, m)) :
              MaskOf(side, t, v, m)[q] = 0 \/ MaskOf(side, t, v, m)[q] > m.start
<1> DEFINE u == Read(side, v, m)
<1>1. /\ m.start \in Nat /\ m.end \in Nat /\ m.start < m.end /\ m.end <= t.length /\ t.length \in Nat
      /\ m.type \in Types
      /\ \A n \in T : n.start \in Nat
      /\ Len(v) \in Nat
  BY LenProperties DEF Lies
<1>2. m.start <= Len(v) /\ \A p \in m.start + 1..Len(v) : v[p] = 0 \/ v[p] > m.start
  <2>1. m.start \in 0..t.length
    BY <1>1
  <2> QED
    BY <2>1 DEF Intact
<1>3. u \in Seq(Nat) /\ Len(u) \in Nat /\ \A r \in 1..Len(u) : u[r] = 0 \/ u[r] > m.start
  <2>1. CASE side = "local"
    <3>1. u = Value(m)
      BY <2>1 DEF Read
    <3>2. Value(m) \in Seq(Nat) /\ Len(Value(m)) = m.end - m.start /\ \A q \in 1..m.end - m.start : Value(m)[q] = m.start + q
      BY <1>1, ValueIs
    <3> HIDE DEF u
    <3>3. \A r \in 1..m.end - m.start : m.start + r > m.start
      BY <1>1
    <3>4. m.end - m.start \in Nat
      BY <1>1
    <3> QED
      BY <3>1, <3>2, <3>3, <3>4
  <2>2. CASE side # "local"
    <3> DEFINE end == IF m.end < Len(v) THEN m.end ELSE Len(v)
    <3>1. u = Now(v, m)
      BY <2>2 DEF Read
    <3>2. Now(v, m) \in Seq(Nat) /\ Len(Now(v, m)) = end - m.start /\ \A q \in 1..end - m.start : Now(v, m)[q] = v[m.start + q]
      BY <1>1, <1>2, NowIs
    <3>3. \A r \in 1..end - m.start : m.start + r \in m.start + 1..Len(v)
      BY <1>1
    <3>4. end - m.start \in Nat
      BY <1>1, <1>2
    <3> HIDE DEF u, end
    <3> QED
      BY <1>2, <3>1, <3>2, <3>3, <3>4
  <2> QED
    BY <2>1, <2>2
<1>4. MaskOf(side, t, v, m) = MaskBy(side, m.type, u, t.at)
  BY DEF MaskOf
<1> HIDE DEF u
<1>5. ASSUME NEW q \in 1..Len(MaskBy(side, m.type, u, t.at))
      PROVE  MaskBy(side, m.type, u, t.at)[q] = 0 \/ MaskBy(side, m.type, u, t.at)[q] > m.start
  <2>1. \/ MaskBy(side, m.type, u, t.at)[q] = 0
        \/ \E r \in 1..Len(u) : MaskBy(side, m.type, u, t.at)[q] = u[r]
    BY <1>1, <1>3, MaskByShows DEF Shown
  <2> QED
    BY <1>3, <2>1
<1> QED
  BY <1>2, <1>4, <1>5

\* A step leaves what is before its match where it is.
LEMMA StepIntact ==
  ASSUME NEW side, NEW t, NEW ms, Lies(t, ms), NEW T \in SUBSET ms, NEW m \in T,
         \A n \in T : m.start <= n.start,
         NEW v \in Seq(Nat), Intact(t, T \ {m}, v)
  PROVE  StepOf(side, t, v, m) \in Seq(Nat) /\ Intact(t, T, StepOf(side, t, v, m))
<1> DEFINE mask == MaskOf(side, t, v, m)
<1>1. m.start <= Len(v) /\ \A q \in 1..Len(mask) : mask[q] = 0 \/ mask[q] > m.start
  BY ReadAbove
<1>2. mask \in Seq(Nat)
  BY <1>1, ReadIs
<1> HIDE DEF mask
<1>3. Splice(v, m, mask) \in Seq(Nat) /\ Intact(t, T, Splice(v, m, mask))
  BY <1>1, <1>2, SpliceIntact
<1> QED
  BY <1>3 DEF StepOf, mask

\* There is a loop over the matches of a text.
LEMMA LoopExists ==
  ASSUME NEW side, NEW t, NEW ms, Lies(t, ms)
  PROVE  \E g : DOMAIN g = SUBSET ms /\ g = [T \in SUBSET ms |-> g[T]] /\ Runs(side, t, ms, g)
<1> DEFINE V == Seq(Nat)
           base == Whole(t)
           pick == [T \in SUBSET ms |-> LastOf(T)]
           step(v, m) == IF m.start <= Len(v) THEN StepOf(side, t, v, m) ELSE <<>>
           F == [y \in ms \X V |-> step(y[2], y[1])]
<1>1. base \in V /\ Len(base) = t.length
  BY WholeIs DEF Lies
<1>2. Picks(ms, pick)
  BY LastOfIs DEF Picks
<1>3. ASSUME NEW m \in ms, NEW v \in V PROVE step(v, m) \in V
  <2>1. ASSUME m.start <= Len(v) PROVE StepOf(side, t, v, m) \in Seq(Nat)
    <3> DEFINE mask == MaskOf(side, t, v, m)
    <3>1. mask \in Seq(Nat)
      BY <2>1, ReadIs
    <3>2. m.start \in Nat /\ m.end \in Nat /\ m.start < m.end
      BY DEF Lies
    <3> HIDE DEF mask
    <3>3. Splice(v, m, mask) \in Seq(Nat)
      BY <2>1, <3>1, <3>2, SpliceIs
    <3> QED
      BY <3>3 DEF StepOf, mask
  <2>2. <<>> \in Seq(Nat)
    OBVIOUS
  <2> QED
    BY <2>1, <2>2
<1>4. Steps(ms, V, F)
  <2> HIDE DEF V, step
  <2> QED
    BY <1>3 DEF Steps
<1>5. IsFiniteSet(ms)
  BY DEF Lies
<1>6. PICK g : FoldsBy(ms, V, base, pick, F, g)
  <2> HIDE DEF V, base, pick, F
  <2> QED
    BY <1>1, <1>2, <1>4, <1>5, FoldExists
<1>7. g \in [SUBSET ms -> V] /\ \A T \in SUBSET ms : g[T] \in V
  BY <1>6 DEF FoldsBy
<1>8. ASSUME NEW T \in SUBSET ms, T # {}
      PROVE  g[T] = step(g[T \ {LastOf(T)}], LastOf(T))
  <2> DEFINE m == LastOf(T)
  <2>1. m \in ms /\ T \ {m} \in SUBSET ms /\ pick[T] = m
    BY <1>8, LastOfIs
  <2>2. g[T] = F[<<pick[T], g[T \ {pick[T]}]>>]
    BY <1>6, <1>8 DEF FoldsBy
  <2> HIDE DEF m, V, step
  <2>3. <<m, g[T \ {m}]>> \in ms \X V
    BY <1>7, <2>1
  <2>4. g[T] = F[<<m, g[T \ {m}]>>]
    <3> HIDE DEF F, pick
    <3> QED
      BY <2>1, <2>2
  <2>5. F[<<m, g[T \ {m}]>>] = step(g[T \ {m}], m)
    BY <2>3
  <2> QED
    BY <2>4, <2>5 DEF m
<1>9. g[{}] = base
  BY <1>6 DEF FoldsBy
<1>10. ASSUME NEW T \in SUBSET ms PROVE Intact(t, T, g[T])
  <2> DEFINE Good == {S \in SUBSET ms : Intact(t, S, g[S])}
  <2>1. ASSUME NEW S \in SUBSET ms, \A U \in SUBSET S : U # S => U \in Good
        PROVE  S \in Good
    <3>1. CASE S = {}
      BY <1>9, <3>1, WholeIntact DEF Lies
    <3>2. CASE S # {}
      <4> DEFINE m == LastOf(S)
                 v == g[S \ {m}]
      <4>1. m \in S /\ \A n \in S : m.start <= n.start
        BY <3>2, LastOfIs
      <4>2. S \ {m} \in SUBSET S /\ S \ {m} # S
        BY <4>1
      <4>3. v \in Seq(Nat) /\ Intact(t, S \ {m}, v)
        BY <1>7, <2>1, <4>2
      <4>4. g[S] = step(v, m)
        BY <1>8, <3>2
      <4> HIDE DEF m, v
      <4>5. m.start <= Len(v) /\ Intact(t, S, StepOf(side, t, v, m))
        BY <4>1, <4>3, ReadAbove, StepIntact
      <4> QED
        BY <4>4, <4>5
    <3> QED
      BY <3>1, <3>2
  <2>2. \A S \in SUBSET ms : S \in Good
    <3> HIDE DEF Good
    <3> QED
      BY <1>5, <2>1, SubsetInduction
  <2> QED
    BY <2>2
<1>11. ASSUME NEW T \in SUBSET ms, T # {} PROVE g[T] = StepOf(side, t, g[T \ {LastOf(T)}], LastOf(T))
  <2> DEFINE m == LastOf(T)
             v == g[T \ {m}]
  <2>1. m \in T /\ \A n \in T : m.start <= n.start
    BY <1>11, LastOfIs
  <2>2. v \in Seq(Nat) /\ Intact(t, T \ {m}, v)
    BY <1>7, <1>10
  <2>3. g[T] = step(v, m)
    BY <1>8, <1>11
  <2> HIDE DEF m, v
  <2>4. m.start <= Len(v)
    BY <2>1, <2>2, ReadAbove
  <2>5. g[T] = StepOf(side, t, v, m)
    BY <2>3, <2>4
  <2> QED
    BY <2>5 DEF m, v
<1>12. Runs(side, t, ms, g)
  BY <1>9, <1>11 DEF Runs
<1> QED
  BY <1>7, <1>12

\* G holds the matches whose replacement has some property: none, and some
\* if those after the first of them.
Inductive(side, t, ms, f, G) ==
  /\ {} \in G
  /\ \A T \in SUBSET ms : \A m \in T :
       LET v == f[T \ {m}] IN
       (/\ \A n \in T : m.start <= n.start
        /\ T \ {m} \in G /\ v \in Seq(Nat) /\ Intact(t, T \ {m}, v)
        /\ f[T] = StepOf(side, t, v, m)) => T \in G

\* Such a property the loop has.
LEMMA LoopInduction ==
  ASSUME NEW side, NEW t, NEW ms, Lies(t, ms), NEW f, Runs(side, t, ms, f),
         NEW G, Inductive(side, t, ms, f, G)
  PROVE  \A T \in SUBSET ms : T \in G /\ f[T] \in Seq(Nat) /\ Intact(t, T, f[T])
<1> DEFINE Good == {T \in SUBSET ms : T \in G /\ f[T] \in Seq(Nat) /\ Intact(t, T, f[T])}
<1>1. ASSUME NEW T \in SUBSET ms, \A U \in SUBSET T : U # T => U \in Good
      PROVE  T \in Good
  <2>1. CASE T = {}
    <3>1. f[{}] = Whole(t)
      BY <2>1 DEF Runs
    <3>2. f[{}] \in Seq(Nat) /\ Intact(t, {}, f[{}])
      BY <3>1, WholeIs, WholeIntact DEF Lies
    <3> QED
      BY <2>1, <3>2 DEF Inductive
  <2>2. CASE T # {}
    <3> DEFINE m == LastOf(T)
               v == f[T \ {m}]
    <3>1. m \in T /\ \A n \in T : m.start <= n.start
      BY <2>2, LastOfIs
    <3>2. T \ {m} \in Good
      BY <1>1, <3>1
    <3>3. f[T] = StepOf(side, t, v, m)
      BY <2>2 DEF Runs
    <3>4. v \in Seq(Nat) /\ Intact(t, T \ {m}, v) /\ T \ {m} \in G
      BY <3>2
    <3> HIDE DEF m
    <3>5. T \in G
      BY <3>1, <3>3, <3>4 DEF Inductive
    <3> HIDE DEF v
    <3>6. f[T] \in Seq(Nat) /\ Intact(t, T, f[T])
      BY <3>1, <3>3, <3>4, StepIntact
    <3> QED
      BY <3>5, <3>6
  <2> QED
    BY <2>1, <2>2
<1>2. \A T \in SUBSET ms : T \in Good
  <2>1. IsFiniteSet(ms)
    BY DEF Lies
  <2> HIDE DEF Good
  <2> QED
    BY <1>1, <2>1, SubsetInduction
<1> QED
  BY <1>2

-----------------------------------------------------------------------------
(* What the masks repeat *)

\* A mask repeats what it shows of the value.
LEMMA RepeatedIs ==
  ASSUME NEW t, NEW ms, Lies(t, ms), NEW m \in ms, NEW c \in Nat, c # 0,
         NEW q \in 1..Len(Mask(m.type, Value(m), t.at)), Mask(m.type, Value(m), t.at)[q] = c
  PROVE  c \in Repeated(t, m)
<1> DEFINE mask == Mask(m.type, Value(m), t.at)
<1>1. /\ m.start \in Nat /\ m.end \in Nat /\ m.start < m.end /\ m.type \in Types
  BY DEF Lies
<1>2. mask \in Seq(Nat)
  BY <1>1, ValueIs, MaskIs
<1>3. q \in 1..Len(mask) /\ mask[q] = c /\ Repeated(t, m) = Visible(mask)
  BY DEF Repeated
<1> HIDE DEF mask
<1>4. DOMAIN mask = 1..Len(mask)
  BY <1>2, LenProperties
<1> QED
  BY <1>3, <1>4 DEF Visible, Hidden

\* It repeats nothing but what the match covers.
LEMMA RepeatedCovers ==
  ASSUME NEW t, NEW ms, Lies(t, ms), NEW m \in ms, NEW c \in Repeated(t, m)
  PROVE  /\ c \in Cover(m)
         /\ \E q \in 1..Len(Mask(m.type, Value(m), t.at)) : Mask(m.type, Value(m), t.at)[q] = c
<1> DEFINE mask == Mask(m.type, Value(m), t.at)
           u == Value(m)
<1>1. /\ m.start \in Nat /\ m.end \in Nat /\ m.start < m.end /\ m.type \in Types
  BY DEF Lies
<1>2. /\ u \in Seq(Nat) /\ Len(u) = m.end - m.start
      /\ \A q \in 1..m.end - m.start : u[q] = m.start + q
  BY <1>1, ValueIs
<1>3. mask \in Seq(Nat) /\ Repeated(t, m) = Visible(mask)
  BY <1>1, <1>2, MaskIs DEF Repeated
<1>4. \A q \in 1..Len(mask) : mask[q] = 0 \/ \E r \in 1..Len(u) : mask[q] = u[r]
  BY <1>1, <1>2, MaskShows DEF Shown
<1> HIDE DEF mask, u
<1>5. DOMAIN mask = 1..Len(mask)
  BY <1>3, LenProperties
<1>6. PICK q \in 1..Len(mask) : mask[q] = c /\ c # 0
  BY <1>3, <1>5 DEF Visible, Hidden
<1>7. PICK r \in 1..Len(u) : c = u[r]
  BY <1>4, <1>6
<1>8. r \in 1..m.end - m.start /\ c = m.start + r
  BY <1>2, <1>7
<1>9. c \in Cover(m)
  BY <1>1, <1>8 DEF Cover
<1> QED
  BY <1>6, <1>9 DEF mask

\* The last four.
LEMMA RepeatedLast ==
  ASSUME NEW t, NEW ms, Lies(t, ms), NEW m \in ms, m.type \in LastFour,
         NEW c \in Cover(m), m.end - 4 < c
  PROVE  c \in Repeated(t, m)
<1> DEFINE mask == Mask(m.type, Value(m), t.at)
           u == Value(m)
           pad == Padding(m.type)
           k == c - m.end + Len(mask)
<1>1. /\ m.start \in Nat /\ m.end \in Nat /\ m.start < m.end /\ m.type \in Types
      /\ c \in Nat /\ m.start < c /\ c <= m.end
  BY DEF Lies, Cover
<1>2. /\ u \in Seq(Nat) /\ Len(u) = m.end - m.start
      /\ \A q \in 1..m.end - m.start : u[q] = m.start + q
  BY <1>1, ValueIs
<1>3. /\ pad \in 6..15 /\ mask \in Seq(Nat)
      /\ Len(mask) = pad + IF Len(u) > 4 THEN 4 ELSE Len(u)
      /\ \A q \in pad + 1..Len(mask) : mask[q] = u[Len(u) - Len(mask) + q]
  <2> DEFINE type == m.type
             at == t.at
             now == Mask(type, u, at)
             hidden == Padding(type)
  <2>1. type \in LastFour
    OBVIOUS
  <2> HIDE DEF type, at, u
  <2>2. /\ hidden \in 6..15 /\ now \in Seq(Nat)
        /\ Len(now) = hidden + IF Len(u) > 4 THEN 4 ELSE Len(u)
        /\ \A q \in hidden + 1..Len(now) : now[q] = u[Len(u) - Len(now) + q]
    BY <1>2, <2>1, LastFourMask
  <2> HIDE DEF now, hidden
  <2>3. mask = now /\ pad = hidden
    BY DEF now, hidden, type, at, u
  <2> HIDE DEF mask, pad
  <2> QED
    BY <2>2, <2>3
<1>4. /\ Len(mask) \in Nat
      /\ k \in pad + 1..Len(mask) /\ k \in 1..Len(mask)
      /\ Len(u) - Len(mask) + k = c - m.start
  <2> DEFINE l == Len(mask)
             a == m.start
             b == m.end
             size == Len(u)
             shown == IF size > 4 THEN 4 ELSE size
  <2>1. /\ l = pad + shown /\ size = b - a
        /\ a \in Nat /\ b \in Nat /\ a < b /\ c \in Nat /\ a < c /\ c <= b /\ b - 4 < c
    BY <1>1, <1>2, <1>3
  <2>2. pad \in Nat
    BY <1>3
  <2> HIDE DEF l, a, b, size, pad
  <2>3. shown \in Nat /\ size - shown + 1 <= c - a
    BY <2>1
  <2>4. c - b + shown >= 1
    BY <2>1
  <2> HIDE DEF shown
  <2>5. l \in Nat /\ c - b + l \in pad + 1..l /\ c - b + l \in 1..l /\ size - l + (c - b + l) = c - a
    BY <2>1, <2>2, <2>3, <2>4
  <2> QED
    BY <2>5 DEF l, a, b, size
<1>5. c - m.start \in 1..m.end - m.start /\ m.start + (c - m.start) = c /\ c # 0
  BY <1>1
<1>6. mask[k] = c
  <2> HIDE DEF mask, u, pad, k
  <2>1. mask[k] = u[c - m.start]
    BY <1>3, <1>4
  <2> QED
    BY <1>2, <1>5, <2>1
<1> HIDE DEF k
<1> QED
  BY <1>1, <1>4, <1>5, <1>6, RepeatedIs

\* The first character and the domain of an e-mail address.
LEMMA RepeatedEmail ==
  ASSUME NEW t, NEW ms, Lies(t, ms), NEW m \in ms, m.type = "EMAIL",
         NEW c \in Cover(m), c = m.start + 1 \/ t.at < c
  PROVE  c \in Repeated(t, m)
<1> DEFINE mask == Mask("EMAIL", Value(m), t.at)
           u == Value(m)
<1>1. /\ m.start \in Nat /\ m.end \in Nat /\ m.start < m.end
      /\ c \in Nat /\ m.start < c /\ c <= m.end
      /\ t.at \in Nat /\ m.start + 2 <= t.at /\ t.at < m.end
  BY DEF Lies, Cover
<1>2. /\ u \in Seq(Nat) /\ Len(u) = m.end - m.start
      /\ \A q \in 1..m.end - m.start : u[q] = m.start + q
  BY <1>1, ValueIs
<1>3. t.at - m.start \in 2..Len(u) - 1 /\ u[t.at - m.start] = t.at
  <2>1. t.at - m.start \in 1..m.end - m.start /\ m.start + (t.at - m.start) = t.at
    BY <1>1
  <2> HIDE DEF u
  <2> QED
    BY <1>1, <1>2, <2>1
<1>4. PICK i \in 2..Len(u) - 1 :
        /\ u[i] = t.at
        /\ mask \in Seq(Nat) /\ Len(mask) = 5 + Len(u) - i
        /\ mask[1] = u[1]
        /\ \A q \in 6..Len(mask) : mask[q] = u[q - 5 + i]
  BY <1>2, <1>3, EmailMask
<1> HIDE DEF mask, u
<1>5. i \in 1..m.end - m.start /\ i = t.at - m.start
  <2>1. i \in 1..m.end - m.start
    BY <1>1, <1>2, <1>4
  <2>2. t.at = m.start + i
    BY <1>2, <1>4, <2>1
  <2> QED
    BY <1>1, <2>1, <2>2
<1>6. \E q \in 1..Len(mask) : mask[q] = c
  <2>1. CASE c = m.start + 1
    <3>1. 1 \in 1..m.end - m.start /\ 1 \in 1..Len(mask)
      BY <1>1, <1>2, <1>4, <1>5
    <3>2. mask[1] = c
      BY <1>2, <1>4, <2>1, <3>1
    <3> QED
      BY <3>1, <3>2
  <2>2. CASE t.at < c
    <3> DEFINE q == c - m.start - i + 5
    <3>1. /\ q \in 6..Len(mask) /\ q \in 1..Len(mask)
          /\ q - 5 + i = c - m.start
          /\ c - m.start \in 1..m.end - m.start /\ m.start + (c - m.start) = c
      <4> DEFINE a == m.start
                 b == m.end
                 at == t.at
                 l == Len(mask)
      <4>1. /\ a \in Nat /\ b \in Nat /\ at \in Nat /\ c \in Nat /\ a < c /\ c <= b
            /\ a + 2 <= at /\ at < b /\ at < c
        BY <1>1, <2>2
      <4>2. i = at - a
        BY <1>5
      <4>3. l = 5 + (b - a) - i
        BY <1>2, <1>4
      <4> HIDE DEF a, b, at, l
      <4>4. /\ c - a - i + 5 \in 6..l /\ c - a - i + 5 \in 1..l
            /\ c - a - i + 5 - 5 + i = c - a
            /\ c - a \in 1..b - a /\ a + (c - a) = c
        BY <4>1, <4>2, <4>3
      <4> QED
        BY <4>4 DEF a, b, l
    <3> HIDE DEF q
    <3>2. mask[q] = u[c - m.start]
      BY <1>4, <3>1
    <3>3. mask[q] = c
      BY <1>2, <3>1, <3>2
    <3> QED
      BY <3>1, <3>3
  <2> QED
    BY <2>1, <2>2
<1>7. c # 0
  BY <1>1
<1> QED
  BY <1>1, <1>6, <1>7, RepeatedIs DEF mask, u

-----------------------------------------------------------------------------
(* What the gateway leaves to see *)

LocalBound(t, T, v) ==
  \A p \in 1..Len(v) :
    \/ v[p] = 0 \/ v[p] \in Copied(t, T)
    \/ /\ v[p] \in 1..t.length
       /\ p <= v[p] + Before(t, T, v[p])
       /\ v[p] \in Covered(T) => v[p] \in AllPushed(t, T)

\* A step shows what its mask repeats, and else what was to be seen before.
LEMMA LocalStep ==
  ASSUME NEW t, NEW ms, Lies(t, ms), NEW T \in SUBSET ms, NEW m \in T,
         \A n \in T : m.start <= n.start,
         NEW v \in Seq(Nat), Intact(t, T \ {m}, v), LocalBound(t, T \ {m}, v)
  PROVE  LocalBound(t, T, StepOf("local", t, v, m))
<1> DEFINE mask == MaskOf("local", t, v, m)
           w == Splice(v, m, mask)
           behind == m.start + Len(mask)
           after == IF m.end < Len(v) THEN Len(v) - m.end ELSE 0
<1>1. /\ m.start \in Nat /\ m.end \in Nat /\ m.start < m.end /\ m.end <= t.length /\ t.length \in Nat
      /\ Len(v) \in Nat
  BY LenProperties DEF Lies
<1>2. /\ m.start <= Len(v)
      /\ \A p \in 1..m.start : v[p] = p
      /\ \A p \in m.start + 1..Len(v) : v[p] = 0 \/ v[p] > m.start
  <2>1. m.start \in 0..t.length
    BY <1>1
  <2> QED
    BY <2>1 DEF Intact
<1>3. mask \in Seq(Nat) /\ Len(mask) \in Nat /\ Len(mask) <= m.end - m.start + Grows(t, m)
  <2>1. mask \in Seq(Nat)
    BY <1>2, ReadIs
  <2>2. mask = Mask(m.type, Value(m), t.at)
    BY DEF MaskOf, MaskBy, Read
  <2>3. Value(m) \in Seq(Nat) /\ Len(Value(m)) <= m.end - m.start
    BY <1>1, ValueIs
  <2>4. Len(Mask(m.type, Value(m), t.at)) <= m.end - m.start + Grows(t, m)
    BY <2>3, MaskGrows
  <2> HIDE DEF mask
  <2> QED
    BY <2>1, <2>2, <2>4, LenProperties
<1>4. mask = Mask(m.type, Value(m), t.at) /\ StepOf("local", t, v, m) = w
  BY DEF MaskOf, MaskBy, Read, StepOf
<1> HIDE DEF mask
<1>5. /\ w \in Seq(Nat) /\ Len(w) = behind + after
      /\ \A q \in 1..m.start : w[q] = v[q]
      /\ \A q \in m.start + 1..behind : w[q] = mask[q - m.start]
      /\ \A q \in behind + 1..Len(w) : w[q] = v[q - behind + m.end]
  BY <1>1, <1>2, <1>3, SpliceIs
<1>6. Grows(t, m) \in Nat
  BY GrowsIs
<1>7. behind \in Nat /\ behind <= m.end + Grows(t, m) /\ m.start <= behind
  BY <1>1, <1>3, <1>6
<1> HIDE DEF w
<1> SUFFICES ASSUME NEW q \in 1..Len(w), w[q] # 0, w[q] \notin Copied(t, T)
             PROVE  /\ w[q] \in 1..t.length
                    /\ q <= w[q] + Before(t, T, w[q])
                    /\ w[q] \in Covered(T) => w[q] \in AllPushed(t, T)
  BY <1>4 DEF LocalBound
<1>8. CASE q \in 1..m.start
  <2>1. w[q] = q
    BY <1>2, <1>5, <1>8
  <2>2. q \in Nat /\ q \in 1..t.length
    BY <1>1, <1>8
  <2>3. Before(t, T, q) \in Nat
    BY <2>2, BeforeAdds
  <2>4. q \notin Covered(T)
    <3> SUFFICES ASSUME NEW n \in T, q \in Cover(n) PROVE FALSE
      BY DEF Covered
    <3>1. n.start \in Nat /\ n.end \in Nat /\ m.start <= n.start
      BY DEF Lies
    <3> QED
      BY <1>1, <1>8, <3>1 DEF Cover
  <2> QED
    BY <2>1, <2>2, <2>3, <2>4
<1>9. CASE q \in m.start + 1..behind
  <2>1. w[q] = mask[q - m.start] /\ q - m.start \in 1..Len(mask)
    <3>1. w[q] = mask[q - m.start]
      BY <1>5, <1>9
    <3> DEFINE a == m.start
               l == Len(mask)
    <3>2. a \in Nat /\ l \in Nat /\ q \in a + 1..a + l
      BY <1>1, <1>3, <1>9
    <3> HIDE DEF a, l
    <3>3. q - a \in 1..l
      BY <3>2
    <3> QED
      BY <3>1, <3>3 DEF a, l
  <2>2. w[q] \in Nat
    BY <1>5, ElementOfSeq
  <2>3. w[q] \in Repeated(t, m)
    BY <1>4, <2>1, <2>2, RepeatedIs
  <2> QED
    BY <2>3 DEF Copied
<1>10. CASE q \in behind + 1..Len(w)
  <2> DEFINE p == q - behind + m.end
             c == v[p]
  <2>1. w[q] = c
    BY <1>5, <1>10
  <2>2. p \in m.start + 1..Len(v) /\ p > m.end
    <3>1. after = Len(v) - m.end
      <4> HIDE DEF behind
      <4> QED
        BY <1>1, <1>5, <1>7, <1>10
    <3>2. q \in behind + 1..behind + (Len(v) - m.end)
      BY <1>5, <1>10, <3>1
    <3> HIDE DEF behind
    <3> QED
      BY <1>1, <1>7, <3>2, Behind
  <2>3. p \in Nat /\ p \in 1..Len(v) /\ q = p + behind - m.end
    <3> HIDE DEF behind
    <3>1. q \in Int
      BY <1>7, <1>10
    <3> DEFINE a == m.start
               b == m.end
               l == Len(v)
    <3>2. a \in Nat /\ b \in Nat /\ l \in Nat /\ behind \in Nat
      BY <1>1, <1>7
    <3>3. q - behind + b \in a + 1..l
      BY <2>2
    <3> HIDE DEF a, b, l
    <3>4. /\ q - behind + b \in Nat /\ q - behind + b \in 1..l
          /\ q = (q - behind + b) + behind - b
      BY <3>1, <3>2, <3>3
    <3> QED
      BY <3>4 DEF b, l
  <2> HIDE DEF p, behind
  <2>4. c # 0 /\ c > m.start
    BY <1>2, <2>1, <2>2
  <2>5. c \notin Copied(t, T \ {m})
    BY <2>1 DEF Copied
  <2>6. /\ c \in 1..t.length /\ p <= c + Before(t, T \ {m}, c)
        /\ c \in Covered(T \ {m}) => c \in AllPushed(t, T \ {m})
    BY <2>3, <2>4, <2>5 DEF LocalBound
  <2> HIDE DEF c
  <2>7. /\ Before(t, T \ {m}, c) \in Nat
        /\ Before(t, T, c) = Before(t, T \ {m}, c) + Grows(t, m)
    <3>1. c \in Nat /\ m.start < c
      BY <1>1, <2>4, <2>6
    <3> QED
      BY <3>1, BeforeAdds
  <2>8. q <= c + Before(t, T, c)
    <3> DEFINE b == m.end
               d == Before(t, T \ {m}, c)
               g == Grows(t, m)
    <3>1. /\ b \in Nat /\ g \in Nat /\ behind \in Nat /\ behind <= b + g
          /\ p \in Nat /\ q = p + behind - b /\ d \in Nat /\ p <= c + d
      BY <1>1, <1>6, <1>7, <2>3, <2>6, <2>7
    <3>2. c \in Nat
      BY <2>6
    <3> HIDE DEF b, d, g
    <3>3. q <= c + (d + g)
      BY <3>1, <3>2
    <3> QED
      BY <2>7, <3>3 DEF d, g
  <2>9. ASSUME c \in Covered(T) PROVE c \in AllPushed(t, T)
    <3>1. CASE c \in Covered(T \ {m})
      <4>1. T \ {m} \in SUBSET T
        OBVIOUS
      <4> QED
        BY <2>6, <3>1, <4>1, PushedGrows
    <3>2. CASE c \notin Covered(T \ {m})
      <4>1. c \in Cover(m)
        BY <2>9, <3>2 DEF Covered
      <4>2. c <= m.end /\ c \in Nat
        BY <1>1, <4>1 DEF Cover
      <4>3. m.end - 4 < p
        BY <1>1, <2>2, <2>3
      <4>4. c \in AllPushed(t, T) \/ p <= c
        BY <2>3, <2>6, <3>2, <4>1, <4>3, PushedBehind
      <4> QED
        BY <1>1, <2>2, <2>3, <4>2, <4>4
    <3> QED
      BY <3>1, <3>2
  <2> QED
    BY <2>1, <2>6, <2>8, <2>9
<1> QED
  BY <1>1, <1>5, <1>7, <1>8, <1>9, <1>10

-----------------------------------------------------------------------------
(* What the service leaves to see *)

\* That w[q], after m was masked, is what v[p] was before: it stood before m, it
\* is the first character the mask of an e-mail address keeps, it stood behind m,
\* or it is at the end of what a mask keeps.
From(t, m, v, w, q, p) ==
  /\ p \in 1..Len(v) /\ w[q] = v[p]
  /\ \/ q = p /\ p <= m.start
     \/ q = p /\ p = m.start + 1 /\ m.type = "EMAIL"
     \/ /\ m.start < p /\ m.start < q /\ Len(w) - q = Len(v) - p
        /\ \/ m.end < p /\ q <= p + Grows(t, m)
           \/ /\ q <= m.end + Grows(t, m)
              /\ \/ m.type \in LastFour /\ (m.end - 4 < p \/ Len(v) - 4 < p)
                 \/ m.type = "EMAIL" /\ \E i \in m.start + 2..p - 1 : v[i] = t.at

\* Every character the service leaves was there before.
LEMMA FromIs ==
  ASSUME NEW t, NEW ms, Lies(t, ms), NEW m \in ms, NEW v \in Seq(Nat), m.start <= Len(v)
  PROVE  LET w == StepOf("service", t, v, m)
         IN  /\ w \in Seq(Nat) /\ Len(w) >= m.start + 5
             /\ \A q \in 1..Len(w) : w[q] = 0 \/ \E p \in 1..Len(v) : From(t, m, v, w, q, p)
<1> DEFINE u == Now(v, m)
           mask == MaskBy("service", m.type, u, t.at)
           w == Splice(v, m, mask)
           a == m.start
           b == m.end
           g == Grows(t, m)
           end == IF m.end < Len(v) THEN m.end ELSE Len(v)
           after == IF m.end < Len(v) THEN Len(v) - m.end ELSE 0
           k == Len(mask)
           l == Len(v)
           behind == m.start + Len(mask)
<1>1. /\ m.start \in Nat /\ m.end \in Nat /\ m.start < m.end /\ m.type \in Types
      /\ Len(v) \in Nat
  BY LenProperties DEF Lies
<1>2. /\ u \in Seq(Nat) /\ Len(u) = end - m.start
      /\ \A q \in 1..end - m.start : u[q] = v[m.start + q]
  BY <1>1, NowIs
<1>3. end + after = l /\ end <= b /\ end <= l /\ (end = b \/ end = l) /\ a <= end
      /\ end \in Nat /\ after \in Nat /\ a \in Nat /\ b \in Nat /\ l \in Nat /\ (after = 0 \/ end = b)
  BY <1>1
<1>4. "service" # "local" /\ StepOf("service", t, v, m) = w
  BY DEF StepOf, MaskOf, Read
<1> HIDE DEF u, end, after
<1>5. mask \in Seq(Nat) /\ Len(mask) \in Nat /\ Len(mask) >= 5
  BY <1>1, <1>2, MaskByIs, LenProperties
<1>6. Len(u) <= m.end - m.start
  BY <1>1, <1>2, <1>3
<1>7. Len(mask) <= m.end - m.start + Grows(t, m) /\ Grows(t, m) \in Nat
  BY <1>2, <1>6, MaskByGrows, GrowsIs
<1>8. \A q \in 1..Len(mask) :
        \/ mask[q] = 0
        \/ Shown(m.type, u, t.at, mask, q)
        \/ m.type = "EMAIL" /\ q = 1 /\ 1 \in 1..Len(u) /\ mask[q] = u[1]
  BY <1>1, <1>2, MaskByShows
<1> HIDE DEF mask
<1>9. /\ w \in Seq(Nat) /\ Len(w) = behind + IF m.end < Len(v) THEN Len(v) - m.end ELSE 0
      /\ \A q \in 1..m.start : w[q] = v[q]
      /\ \A q \in m.start + 1..behind : w[q] = mask[q - m.start]
      /\ \A q \in behind + 1..Len(w) : w[q] = v[q - behind + m.end]
  BY <1>1, <1>5, SpliceIs
<1>10. Len(w) = behind + after
  BY <1>9 DEF after
<1> HIDE DEF w
<1>11. behind = a + k /\ k \in Nat /\ k >= 5 /\ g \in Nat /\ k <= b - a + g /\ a < b
  BY <1>1, <1>5, <1>7
<1> DEFINE x == Len(w)
<1>12. x = behind + after /\ x >= a + 5 /\ behind \in Nat
  <2> HIDE DEF a, k, b, g, behind, x
  <2> QED
    BY <1>3, <1>10, <1>11 DEF x
<1>13. ASSUME NEW q \in 1..Len(w), w[q] # 0
       PROVE  \E p \in 1..Len(v) : From(t, m, v, w, q, p)
  <2>1. CASE q \in 1..m.start
    <3>1. q \in 1..Len(v) /\ q <= m.start
      BY <1>1, <2>1
    <3> QED
      BY <1>9, <2>1, <3>1 DEF From
  <2>2. CASE q \in m.start + 1..behind
    <3> DEFINE r == q - m.start
    <3>1. r \in 1..Len(mask) /\ w[q] = mask[r]
      <4>1. q - a \in 1..k
        <5>1. q \in a + 1..behind
          BY <2>2
        <5> HIDE DEF a, k, b, g, behind
        <5> QED
          BY <1>3, <1>11, <5>1
      <4> QED
        BY <1>9, <2>2, <4>1
    <3>2. q \in Nat /\ q = a + r /\ m.start < q
      BY <1>1, <2>2
    <3> HIDE DEF r
    <3>3. CASE Shown(m.type, u, t.at, mask, r)
      <4>1. PICK s \in 1..Len(u) :
              /\ mask[r] = u[s] /\ Len(mask) - r = Len(u) - s
              /\ \/ m.type \in LastFour /\ Len(u) - 4 < s
                 \/ m.type = "EMAIL" /\ \E i \in 2..Len(u) - 1 : i < s /\ u[i] = t.at
        BY <3>3 DEF Shown
      <4> DEFINE p == a + s
      <4>2. /\ p \in 1..l /\ a < p /\ s \in 1..end - a /\ p <= end
            /\ x - q = l - p /\ q <= b + g
        <5>1. s \in 1..end - a /\ k - r = (end - a) - s
          BY <1>2, <4>1
        <5>2. r \in 1..k
          BY <3>1
        <5> HIDE DEF a, k, b, g, behind, l, x
        <5> QED
          BY <1>3, <1>11, <1>12, <3>2, <5>1, <5>2
      <4>3. w[q] = v[p]
        BY <1>2, <3>1, <4>1, <4>2
      <4>4. CASE m.type \in LastFour /\ Len(u) - 4 < s
        <5>1. b - 4 < p \/ l - 4 < p
          <6>1. (end - a) - 4 < s /\ s \in Nat
            BY <1>2, <4>1, <4>4
          <6> HIDE DEF a, b, l
          <6> QED
            BY <1>3, <6>1
        <5> QED
          BY <3>2, <4>2, <4>3, <4>4, <5>1 DEF From
      <4>5. CASE m.type = "EMAIL" /\ \E i \in 2..Len(u) - 1 : i < s /\ u[i] = t.at
        <5>1. PICK i \in 2..Len(u) - 1 : i < s /\ u[i] = t.at
          BY <4>5
        <5>2. a + i \in a + 2..p - 1 /\ i \in 1..end - a
          <6>1. i \in 2..(end - a) - 1 /\ i < s /\ s \in Nat
            BY <1>2, <4>1, <5>1
          <6> HIDE DEF a
          <6> QED
            BY <1>3, <6>1
        <5>3. v[a + i] = t.at
          BY <1>2, <5>1, <5>2
        <5> QED
          BY <3>2, <4>2, <4>3, <4>5, <5>2, <5>3 DEF From
      <4> QED
        BY <4>1, <4>4, <4>5
    <3>4. CASE m.type = "EMAIL" /\ r = 1 /\ 1 \in 1..Len(u) /\ mask[r] = u[1]
      <4>1. q = a + 1 /\ 1 \in 1..end - a
        BY <1>2, <3>2, <3>4
      <4>2. a + 1 \in 1..l
        <5> HIDE DEF a, l
        <5> QED
          BY <1>3, <4>1
      <4>3. w[q] = v[a + 1]
        BY <1>2, <3>1, <3>4, <4>1
      <4> QED
        BY <3>4, <4>1, <4>2, <4>3 DEF From
    <3> QED
      BY <1>8, <1>13, <3>1, <3>3, <3>4
  <2>3. CASE q \in behind + 1..Len(w)
    <3> DEFINE p == q - behind + b
    <3>1. /\ p \in 1..l /\ b < p /\ a < p /\ a < q
          /\ x - q = l - p /\ q <= p + g
      <4>1. q \in behind + 1..x
        BY <2>3
      <4> HIDE DEF a, k, b, g, behind, l, x
      <4> QED
        BY <1>3, <1>11, <1>12, <4>1
    <3>2. w[q] = v[p]
      BY <1>9, <2>3
    <3> QED
      BY <3>1, <3>2 DEF From
  <2>4. q \in 1..a \/ q \in a + 1..behind \/ q \in behind + 1..x
    <3>1. q \in 1..x
      OBVIOUS
    <3> HIDE DEF a, behind, x
    <3> QED
      BY <1>3, <1>12, <3>1
  <2> QED
    BY <2>1, <2>2, <2>3, <2>4
<1>14. Len(w) >= m.start + 5
  BY <1>12
<1> QED
  BY <1>4, <1>9, <1>13, <1>14

\* Characters keep their order, and one that no match covers is not pushed
\* further than the masks before it grow, nor behind the last three but from there.
ServiceBound(t, T, v) ==
  /\ \A p \in 1..Len(v) : v[p] = 0 \/ v[p] \in 1..t.length
  /\ \A p, q \in 1..Len(v) : p < q => v[p] = 0 \/ v[q] = 0 \/ v[p] < v[q]
  /\ \A p \in 1..Len(v) :
       \/ v[p] = 0
       \/ v[p] \in Copied(t, T) \cup AllPushed(t, T)
       \/ /\ v[p] \notin Covered(T)
          /\ p <= v[p] + Before(t, T, v[p])
          /\ Len(v) - p >= 4 \/ Len(v) - p >= t.length - v[p]

\* Of two characters the later one was the later one before.
LEMMA FromOrders ==
  ASSUME NEW t, NEW m, m.start \in Nat, NEW v \in Seq(Nat), NEW w \in Seq(Nat),
         NEW q1 \in 1..Len(w), NEW q2 \in 1..Len(w), q1 < q2,
         NEW p1 \in 1..Len(v), NEW p2 \in 1..Len(v),
         m.type = "EMAIL" => m.end \in Nat /\ m.start + 1 < m.end,
         From(t, m, v, w, q1, p1), From(t, m, v, w, q2, p2)
  PROVE  p1 < p2
<1> DEFINE a == m.start
           b == m.end
           x == Len(w)
           l == Len(v)
           First(q, p) == q = p /\ p <= a
           Second(q, p) == q = p /\ p = a + 1 /\ m.type = "EMAIL"
           Third(q, p) == a < p /\ a < q /\ x - q = l - p /\ (m.type = "EMAIL" => a + 1 < p)
<1>1. a \in Nat /\ x \in Nat /\ l \in Nat /\ q1 \in 1..x /\ q2 \in 1..x /\ p1 \in 1..l /\ p2 \in 1..l
  BY LenProperties
<1>2. ASSUME NEW q, NEW p \in 1..l, From(t, m, v, w, q, p)
      PROVE  First(q, p) \/ Second(q, p) \/ Third(q, p)
  <2>1. \/ First(q, p) \/ Second(q, p)
        \/ /\ a < p /\ a < q /\ x - q = l - p
           /\ b < p \/ m.type \in LastFour \/ \E i \in a + 2..p - 1 : v[i] = t.at
    BY <1>2 DEF From
  <2>2. ASSUME m.type = "EMAIL",
               b < p \/ m.type \in LastFour \/ \E i \in a + 2..p - 1 : v[i] = t.at
        PROVE  a + 1 < p
    <3>1. b < p \/ \E i \in a + 2..p - 1 : TRUE
      BY <2>2 DEF LastFour
    <3>2. b \in Nat /\ a + 1 < b
      BY <2>2
    <3> HIDE DEF a, b
    <3> QED
      BY <1>1, <3>1, <3>2
  <2> QED
    BY <2>1, <2>2
<1>3. First(q1, p1) \/ Second(q1, p1) \/ Third(q1, p1)
  BY <1>2
<1>4. First(q2, p2) \/ Second(q2, p2) \/ Third(q2, p2)
  BY <1>2
<1> HIDE DEF a, x, l
<1> QED
  BY <1>1, <1>3, <1>4

\* A replacement keeps what the last conjunct says of a character.
LEMMA ServiceStays ==
  ASSUME NEW t, NEW ms, Lies(t, ms), NEW T \in SUBSET ms, NEW m \in T,
         \A n \in T \ {m} : m.start < n.start,
         NEW v \in Seq(Nat), Intact(t, T \ {m}, v), ServiceBound(t, T \ {m}, v),
         NEW w \in Seq(Nat), Len(w) >= m.start + 5,
         NEW q \in 1..Len(w), NEW p \in 1..Len(v), From(t, m, v, w, q, p), w[q] # 0
  PROVE  \/ w[q] \in Copied(t, T) \cup AllPushed(t, T)
         \/ /\ w[q] \notin Covered(T)
            /\ q <= w[q] + Before(t, T, w[q])
            /\ Len(w) - q >= 4 \/ Len(w) - q >= t.length - w[q]
<1> DEFINE a == m.start
           b == m.end
           g == Grows(t, m)
           l == Len(v)
           x == Len(w)
           c == v[p]
           d == Before(t, T \ {m}, c)
           e == Before(t, T, c)
           Stays == /\ c \notin Covered(T)
                    /\ q <= c + e
                    /\ x - q >= 4 \/ x - q >= t.length - c
<1>1. /\ a \in Nat /\ b \in Nat /\ a < b /\ b <= t.length /\ t.length \in Nat /\ m.type \in Types
      /\ m.type = "EMAIL" => t.at \in Nat /\ a + 2 <= t.at /\ t.at < b
  BY DEF Lies
<1>2. l \in Nat /\ x \in Nat /\ x >= a + 5 /\ q \in 1..x /\ p \in 1..l /\ g \in Nat
  BY LenProperties, GrowsIs
<1>3. w[q] = c /\ c # 0 /\ c \in Nat
  BY ElementOfSeq DEF From
<1>4. \A n \in T : m.start <= n.start /\ (n \in T \ {m} => m.start + 1 <= n.start)
  <2> SUFFICES ASSUME NEW n \in T
               PROVE  m.start <= n.start /\ (n \in T \ {m} => m.start + 1 <= n.start)
    OBVIOUS
  <2> DEFINE s == n.start
  <2>1. s \in Nat /\ (n = m => s = a) /\ (n # m => a < s)
    BY DEF Lies
  <2> HIDE DEF a, s
  <2>2. a <= s /\ (n # m => a + 1 <= s)
    BY <1>1, <2>1
  <2> QED
    BY <2>2 DEF a, s
<1>5. /\ \A i \in 1..a : v[i] = i
      /\ \A i \in a + 1..l : v[i] = 0 \/ v[i] > a
      /\ a + 1 <= l /\ v[a + 1] = a + 1
  <2>1. a \in 0..t.length /\ a + 1 \in 0..t.length /\ a + 1 \in 1..a + 1
    <3> DEFINE n == t.length
    <3>1. a \in Nat /\ b \in Nat /\ a < b /\ b <= n /\ n \in Nat
      BY <1>1
    <3> HIDE DEF a, b, n
    <3>2. a \in 0..n /\ a + 1 \in 0..n /\ a + 1 \in 1..a + 1
      BY <3>1
    <3> QED
      BY <3>2 DEF n
  <2>2. \A n \in T \ {m} : a <= n.start /\ a + 1 <= n.start
    BY <1>4
  <2> HIDE DEF a
  <2> QED
    BY <2>1, <2>2 DEF Intact
<1>6. CASE c \in Copied(t, T \ {m}) \cup AllPushed(t, T \ {m})
  <2>1. T \ {m} \in SUBSET T
    OBVIOUS
  <2>2. AllPushed(t, T \ {m}) \subseteq AllPushed(t, T)
    BY <2>1, PushedGrows
  <2> QED
    BY <1>3, <1>6, <2>2 DEF Copied
<1>7. CASE c \notin Copied(t, T \ {m}) \cup AllPushed(t, T \ {m})
  <2>1. /\ c \in 1..t.length /\ c \notin Covered(T \ {m})
        /\ p <= c + d
        /\ l - p >= 4 \/ l - p >= t.length - c
    BY <1>3, <1>7 DEF ServiceBound
  <2>2. /\ d \in Nat /\ e \in Nat /\ d <= e
        /\ a < c => e = d + g
    BY <1>3, BeforeAdds
  <2>3. CASE q = p /\ p <= a
    <3>1. c = p
      BY <1>2, <1>5, <2>3
    <3>2. c \notin Cover(m)
      <4> HIDE DEF c
      <4> QED
        BY <1>1, <1>3, <2>3, <3>1 DEF Cover
    <3>3. c \notin Covered(T)
      BY <2>1, <3>2 DEF Covered
    <3>4. q <= c + e /\ x - q >= 4
      <4> HIDE DEF a, c, e, x
      <4> QED
        BY <1>1, <1>2, <1>3, <2>2, <2>3, <3>1
    <3> QED
      BY <1>3, <3>3, <3>4
  <2>4. CASE q = p /\ p = a + 1 /\ m.type = "EMAIL"
    <3>1. c = a + 1
      BY <1>5, <2>4
    <3>2. c \in Cover(m) /\ c = m.start + 1
      <4>1. a + 1 \in a + 1..b
        <5> HIDE DEF a, b
        <5> QED
          BY <1>1
      <4> QED
        BY <3>1, <4>1 DEF Cover
    <3>3. c \in Repeated(t, m)
      BY <2>4, <3>2, RepeatedEmail
    <3> QED
      BY <1>3, <3>3 DEF Copied
  <2>5. CASE /\ a < p /\ a < q /\ x - q = l - p
             /\ \/ b < p /\ q <= p + g
                \/ /\ q <= b + g
                   /\ \/ m.type \in LastFour /\ (b - 4 < p \/ l - 4 < p)
                      \/ m.type = "EMAIL" /\ \E i \in a + 2..p - 1 : v[i] = t.at
    <3>1. c > a
      <4>1. p \in a + 1..l
        <5> HIDE DEF a, l
        <5> QED
          BY <1>1, <1>2, <2>5
      <4> QED
        BY <1>3, <1>5, <4>1
    <3>2. e = d + g
      BY <2>2, <3>1
    <3>3. CASE c \in Cover(m)
      <4>1. a < c /\ c <= b
        BY <1>1, <3>1, <3>3 DEF Cover
      <4>2. p \in Nat
        BY <1>2
      <4>3. b - 4 < p => c \in AllPushed(t, T) \/ (b - 4 < c /\ p <= c)
        BY <1>4, <2>1, <3>3, <4>2, PushedBehind
      <4>4. CASE b < p
        <5>1. b - 4 < p /\ ~(p <= c)
          <6> HIDE DEF b, c
          <6> QED
            BY <1>1, <1>3, <4>1, <4>2, <4>4
        <5> QED
          BY <1>3, <4>3, <5>1
      <4>5. CASE m.type \in LastFour /\ (b - 4 < p \/ l - 4 < p)
        <5>1. c \in AllPushed(t, T) \/ b - 4 < c
          <6>1. CASE b - 4 < p
            BY <4>3, <6>1
          <6>2. CASE l - 4 < p
            <7>1. l - p < 4
              BY <1>2, <6>2
            <7>2. l - p >= t.length - c
              BY <1>2, <2>1, <7>1
            <7> DEFINE n == t.length
            <7>3. l - p >= n - c /\ b <= n /\ n \in Nat
              BY <1>1, <7>2
            <7> HIDE DEF b, c, l, n
            <7>4. b - 4 < c
              BY <1>1, <1>2, <1>3, <7>1, <7>3
            <7> QED
              BY <7>4
          <6> QED
            BY <4>5, <6>1, <6>2
        <5>2. b - 4 < c => c \in Repeated(t, m)
          BY <3>3, <4>5, RepeatedLast
        <5> QED
          BY <1>3, <5>1, <5>2 DEF Copied
      <4>6. CASE m.type = "EMAIL" /\ \E i \in a + 2..p - 1 : v[i] = t.at
        <5>1. PICK i \in a + 2..p - 1 : v[i] = t.at
          BY <4>6
        <5>2. i \in 1..l /\ i < p
          <6> HIDE DEF a, l
          <6> QED
            BY <1>1, <1>2, <5>1
        <5>3. v[i] # 0
          <6> DEFINE at == t.at
          <6>1. a \in Nat /\ at \in Nat /\ a + 2 <= at
            BY <1>1, <4>6
          <6> HIDE DEF a, at
          <6>2. at # 0
            BY <6>1
          <6> QED
            BY <5>1, <6>2 DEF at
        <5>4. t.at < c
          BY <1>3, <5>1, <5>2, <5>3 DEF ServiceBound
        <5>5. c \in Repeated(t, m)
          BY <3>3, <4>6, <5>4, RepeatedEmail
        <5> QED
          BY <1>3, <5>5 DEF Copied
      <4> QED
        BY <2>5, <4>4, <4>5, <4>6
    <3>4. CASE c \notin Cover(m)
      <4>1. c \notin Covered(T)
        BY <2>1, <3>4 DEF Covered
      <4>2. b < c
        <5>1. ~(c \in a + 1..b)
          BY <3>4 DEF Cover
        <5> HIDE DEF a, b, c
        <5> QED
          BY <1>1, <1>3, <3>1, <5>1
      <4>3. q <= c + e
        <5>1. q <= p + g \/ q <= b + g
          BY <2>5
        <5>2. e = d + g /\ p <= c + d
          BY <2>1, <3>2
        <5> HIDE DEF a, b, c, d, e, g, x, l
        <5> QED
          BY <1>1, <1>2, <1>3, <2>2, <4>2, <5>1, <5>2
      <4>4. x - q >= 4 \/ x - q >= t.length - c
        BY <2>1, <2>5
      <4> QED
        BY <1>3, <4>1, <4>3, <4>4
    <3> QED
      BY <3>3, <3>4
  <2> QED
    BY <2>3, <2>4, <2>5 DEF From
<1> QED
  BY <1>6, <1>7

\* A step keeps the bounds.
LEMMA ServiceStep ==
  ASSUME NEW t, NEW ms, Lies(t, ms), NEW T \in SUBSET ms, NEW m \in T,
         \A n \in T \ {m} : m.start < n.start,
         NEW v \in Seq(Nat), Intact(t, T \ {m}, v), ServiceBound(t, T \ {m}, v)
  PROVE  ServiceBound(t, T, StepOf("service", t, v, m))
<1> DEFINE w == StepOf("service", t, v, m)
<1>1. /\ m.start \in Nat /\ m.end \in Nat /\ m.start < m.end /\ m.end <= t.length /\ t.length \in Nat
      /\ m.type = "EMAIL" => m.start + 1 < m.end
  BY DEF Lies
<1>2. m.start <= Len(v)
  <2>1. m.start \in 0..t.length
    BY <1>1
  <2>2. \A n \in T \ {m} : m.start <= n.start
    BY DEF Lies
  <2> QED
    BY <2>1, <2>2 DEF Intact
<1>3. /\ w \in Seq(Nat) /\ Len(w) >= m.start + 5
      /\ \A q \in 1..Len(w) : w[q] = 0 \/ \E p \in 1..Len(v) : From(t, m, v, w, q, p)
  BY <1>2, FromIs
<1> HIDE DEF w
<1>4. \A q \in 1..Len(w), p \in 1..Len(v) : From(t, m, v, w, q, p) => w[q] = v[p]
  BY DEF From
<1>5. ASSUME NEW q \in 1..Len(w), w[q] # 0 PROVE w[q] \in 1..t.length
  <2>1. PICK p \in 1..Len(v) : w[q] = v[p]
    BY <1>3, <1>4, <1>5
  <2> QED
    BY <1>5, <2>1 DEF ServiceBound
<1>6. ASSUME NEW q1 \in 1..Len(w), NEW q2 \in 1..Len(w), q1 < q2, w[q1] # 0, w[q2] # 0
      PROVE  w[q1] < w[q2]
  <2>1. PICK p1 \in 1..Len(v) : From(t, m, v, w, q1, p1)
    BY <1>3, <1>6
  <2>2. PICK p2 \in 1..Len(v) : From(t, m, v, w, q2, p2)
    BY <1>3, <1>6
  <2>3. p1 < p2
    BY <1>1, <1>3, <1>6, <2>1, <2>2, FromOrders
  <2>4. w[q1] = v[p1] /\ w[q2] = v[p2]
    BY <1>4, <2>1, <2>2
  <2> QED
    BY <1>6, <2>3, <2>4 DEF ServiceBound
<1>7. ASSUME NEW q \in 1..Len(w), w[q] # 0
      PROVE  \/ w[q] \in Copied(t, T) \cup AllPushed(t, T)
             \/ /\ w[q] \notin Covered(T)
                /\ q <= w[q] + Before(t, T, w[q])
                /\ Len(w) - q >= 4 \/ Len(w) - q >= t.length - w[q]
  <2>1. PICK p \in 1..Len(v) : From(t, m, v, w, q, p)
    BY <1>3, <1>7
  <2> QED
    BY <1>3, <1>7, <2>1, ServiceStays
<1>8. ServiceBound(t, T, w)
  BY <1>5, <1>6, <1>7 DEF ServiceBound
<1> QED
  BY <1>8 DEF w

-----------------------------------------------------------------------------
(* Matches that lie apart *)

Separate(T) == \A m, n \in T : m = n \/ Apart(m, n)
AllShown(t, T, v) ==
  \A c \in 1..t.length :
    (c \notin Covered(T) \/ c \in Copied(t, T)) => \E p \in 1..Len(v) : v[p] = c

\* They push nothing out of reach.
LEMMA NothingPushed ==
  ASSUME NEW t, NEW ms, Lies(t, ms), Separate(ms)
  PROVE  AllPushed(t, ms) = {}
<1> SUFFICES ASSUME NEW m \in ms PROVE Pushed(t, ms, m) = {}
  BY DEF AllPushed
<1>1. Inner(ms, m) = {}
  <2> SUFFICES ASSUME NEW n \in ms \ {m}, Cover(n) \subseteq Cover(m) PROVE FALSE
    BY DEF Inner
  <2>1. n.start \in Nat /\ n.end \in Nat /\ n.start < n.end
    BY DEF Lies
  <2>2. n.start + 1 \in Cover(n)
    <3> DEFINE a == n.start
               b == n.end
    <3>1. a \in Nat /\ b \in Nat /\ a < b
      BY <2>1
    <3> HIDE DEF a, b
    <3>2. a + 1 \in a + 1..b
      BY <3>1
    <3> QED
      BY <3>2 DEF a, b, Cover
  <2> QED
    BY <2>2 DEF Separate, Apart
<1>2. Total(t, {}) = 0
  <2> DEFINE W == {}
  <2>1. IsFiniteSet(W) /\ W \in SUBSET W /\ \A n \in W : Grows(t, n) \in Nat
    BY FS_EmptySet
  <2> HIDE DEF W
  <2>2. W = {} => Total(t, W) = 0
    BY <2>1, TotalUnfolds
  <2> QED
    BY <2>2 DEF W
<1> QED
  BY <1>1, <1>2, PushedIs

\* The first of them is still as it was when the others are masked, so that
\* either side reads its value.
LEMMA SameRead ==
  ASSUME NEW t, NEW ms, Lies(t, ms), NEW T \in SUBSET ms, NEW m \in T, Separate(T),
         \A n \in T : m.start <= n.start,
         NEW v \in Seq(Nat), Intact(t, T \ {m}, v)
  PROVE  /\ \A n \in T \ {m} : m.end <= n.start
         /\ m.end <= Len(v) /\ \A p \in 1..m.end : v[p] = p
         /\ Now(v, m) = Value(m)
<1> DEFINE a == m.start
           b == m.end
           l == Len(v)
<1>1. a \in Nat /\ b \in Nat /\ a < b /\ b <= t.length /\ t.length \in Nat /\ l \in Nat
  BY LenProperties DEF Lies
<1>2. ASSUME NEW n \in T \ {m} PROVE b <= n.start
  <2> DEFINE c == n.start
             d == n.end
  <2>1. c \in Nat /\ d \in Nat /\ c < d /\ a <= c
    BY DEF Lies
  <2>2. c + 1 \notin a + 1..b \/ c + 1 \notin c + 1..d
    BY DEF Separate, Apart, Cover
  <2> HIDE DEF a, b, c, d
  <2>3. b <= c
    BY <1>1, <2>1, <2>2
  <2> QED
    BY <2>3 DEF c
<1>3. b <= l /\ \A p \in 1..b : v[p] = p
  <2>1. b \in 0..t.length
    BY <1>1
  <2> HIDE DEF b
  <2> QED
    BY <1>2, <2>1 DEF Intact
<1>4. Value(m) \in Seq(Nat) /\ Len(Value(m)) = b - a /\ \A q \in 1..b - a : Value(m)[q] = a + q
  BY <1>1, ValueIs
<1> DEFINE end == IF m.end < Len(v) THEN m.end ELSE Len(v)
<1>5. /\ Now(v, m) \in Seq(Nat) /\ Len(Now(v, m)) = end - a
      /\ \A q \in 1..end - a : Now(v, m)[q] = v[a + q]
  <2>1. a <= l
    BY <1>1, <1>3
  <2> QED
    BY <1>1, <2>1, NowIs
<1>6. end = b
  BY <1>1, <1>3
<1> HIDE DEF end
<1>7. \A q \in 1..b - a : a + q \in 1..b
  <2> HIDE DEF a, b
  <2> QED
    BY <1>1
<1>8. Now(v, m) = Value(m)
  <2> DEFINE x == Now(v, m)
             y == Value(m)
  <2>1. /\ x \in Seq(Nat) /\ y \in Seq(Nat) /\ Len(x) = b - a /\ Len(y) = b - a
        /\ \A q \in 1..b - a : x[q] = y[q]
    BY <1>3, <1>4, <1>5, <1>6, <1>7
  <2> HIDE DEF x, y, a, b
  <2>2. x = y
    BY <2>1, SeqEqual
  <2> QED
    BY <2>2 DEF x, y
<1> QED
  BY <1>2, <1>3, <1>8

\* A replacement leaves what is behind it.
LEMMA SpliceKeeps ==
  ASSUME NEW v \in Seq(Nat), NEW m, m.start \in Nat, m.end \in Nat, m.start < m.end,
         m.end <= Len(v), NEW mask \in Seq(Nat)
  PROVE  LET w == Splice(v, m, mask)
         IN  /\ \A p \in m.end + 1..Len(v) : \E q \in 1..Len(w) : w[q] = v[p]
             /\ \A p \in 1..Len(mask) : \E q \in 1..Len(w) : w[q] = mask[p]
             /\ \A p \in 1..m.start : p \in 1..Len(w) /\ w[p] = v[p]
<1> DEFINE w == Splice(v, m, mask)
           behind == m.start + Len(mask)
           a == m.start
           b == m.end
           l == Len(v)
           k == Len(mask)
           x == Len(w)
           after == IF m.end < Len(v) THEN Len(v) - m.end ELSE 0
<1>1. a \in Nat /\ b \in Nat /\ l \in Nat /\ k \in Nat /\ a < b /\ b <= l
  BY LenProperties
<1>2. m.start <= Len(v)
  BY <1>1
<1>3. /\ w \in Seq(Nat) /\ Len(w) = behind + IF m.end < Len(v) THEN Len(v) - m.end ELSE 0
      /\ \A q \in 1..m.start : w[q] = v[q]
      /\ \A q \in m.start + 1..behind : w[q] = mask[q - m.start]
      /\ \A q \in behind + 1..Len(w) : w[q] = v[q - behind + m.end]
  BY <1>2, SpliceIs
<1> HIDE DEF w
<1>4. after = l - b
  BY <1>1
<1>5. Len(w) = behind + after
  BY <1>3
<1> HIDE DEF after
<1>6. behind = a + k /\ x = a + k + (l - b)
  BY <1>4, <1>5
<1>7. ASSUME NEW p \in b + 1..l PROVE \E q \in 1..x : w[q] = v[p]
  <2> DEFINE q == p - b + behind
  <2>1. q \in 1..x /\ q \in behind + 1..x /\ q - behind + b = p
    <3> HIDE DEF a, b, k, l, x, behind
    <3> QED
      BY <1>1, <1>6
  <2> HIDE DEF q
  <2>2. w[q] = v[p]
    BY <1>3, <2>1
  <2> QED
    BY <2>1, <2>2
<1>8. ASSUME NEW p \in 1..k PROVE \E q \in 1..x : w[q] = mask[p]
  <2> DEFINE q == a + p
  <2>1. q \in 1..x /\ q \in a + 1..behind /\ q - a = p
    <3> HIDE DEF a, b, k, l, x, behind
    <3> QED
      BY <1>1, <1>6
  <2> HIDE DEF q
  <2>2. w[q] = mask[p]
    BY <1>3, <2>1
  <2> QED
    BY <2>1, <2>2
<1>9. \A p \in 1..a : p \in 1..x
  <2> HIDE DEF a, b, k, l, x, behind
  <2> QED
    BY <1>1, <1>6
<1> QED
  BY <1>3, <1>7, <1>8, <1>9 DEF w

\* A step shows all that is to be shown.
LEMMA StepShows ==
  ASSUME NEW side, NEW t, NEW ms, Lies(t, ms), NEW T \in SUBSET ms, NEW m \in T, Separate(T),
         \A n \in T : m.start <= n.start,
         NEW v \in Seq(Nat), Intact(t, T \ {m}, v), AllShown(t, T \ {m}, v)
  PROVE  AllShown(t, T, StepOf(side, t, v, m))
<1> DEFINE mask == Mask(m.type, Value(m), t.at)
           w == Splice(v, m, mask)
           a == m.start
           b == m.end
           l == Len(v)
<1>1. a \in Nat /\ b \in Nat /\ a < b /\ b <= t.length /\ t.length \in Nat /\ l \in Nat /\ m.type \in Types
  BY LenProperties DEF Lies
<1>2. /\ \A n \in T \ {m} : b <= n.start
      /\ b <= l /\ \A p \in 1..b : v[p] = p
      /\ Now(v, m) = Value(m)
  BY SameRead
<1>3. StepOf(side, t, v, m) = w
  <2>1. /\ Value(m) \in Seq(Nat) /\ Len(Value(m)) = b - a
        /\ \A q \in 1..b - a : Value(m)[q] = a + q
    BY <1>1, ValueIs
  <2>2. Value(m)[Len(Value(m))] = b
    <3>1. b - a \in 1..b - a /\ a + (b - a) = b
      <4> HIDE DEF a, b
      <4> QED
        BY <1>1
    <3> QED
      BY <2>1, <3>1
  <2>3. m.type = "EMAIL" => t.at # b
    BY DEF Lies
  <2>4. MaskBy(side, m.type, Value(m), t.at) = mask
    BY <2>1, <2>2, <2>3, EitherMask DEF FirstAlone
  <2> QED
    BY <1>2, <2>4 DEF StepOf, MaskOf, Read
<1>4. mask \in Seq(Nat)
  <2>1. Value(m) \in Seq(Nat)
    BY <1>1, ValueIs
  <2> QED
    BY <1>1, <2>1, MaskIs
<1>5. \A c \in Repeated(t, m) : \E q \in 1..Len(mask) : mask[q] = c
  BY RepeatedCovers
<1> HIDE DEF mask
<1>6. /\ \A p \in m.end + 1..Len(v) : \E q \in 1..Len(w) : w[q] = v[p]
      /\ \A p \in 1..Len(mask) : \E q \in 1..Len(w) : w[q] = mask[p]
      /\ \A p \in 1..m.start : p \in 1..Len(w) /\ w[p] = v[p]
  BY <1>1, <1>2, <1>4, SpliceKeeps
<1> HIDE DEF w
<1>7. ASSUME NEW c \in 1..t.length, b < c,
             c \notin Covered(T \ {m}) \/ c \in Copied(t, T \ {m})
      PROVE  \E q \in 1..Len(w) : w[q] = c
  <2>1. PICK p \in 1..l : v[p] = c
    BY <1>7 DEF AllShown
  <2>2. p \in b + 1..l
    <3>1. p \in 1..b => p = c
      BY <1>2, <2>1
    <3>2. c \in Nat
      BY <1>1, <1>7
    <3> HIDE DEF b, l
    <3> QED
      BY <1>1, <1>7, <2>1, <3>1, <3>2
  <2> QED
    BY <1>6, <2>1, <2>2
<1>8. ASSUME NEW c \in 1..t.length, c \notin Covered(T) PROVE \E q \in 1..Len(w) : w[q] = c
  <2>1. c \notin Covered(T \ {m}) /\ c \notin a + 1..b
    BY <1>8 DEF Covered, Cover
  <2>2. c \in 1..a \/ b < c
    <3> DEFINE n == t.length
    <3>1. n \in Nat /\ c \in 1..n
      BY <1>1
    <3> HIDE DEF a, b, n
    <3> QED
      BY <1>1, <2>1, <3>1
  <2>3. CASE c \in 1..a
    <3>1. c \in 1..b
      <4> HIDE DEF a, b
      <4> QED
        BY <1>1, <2>3
    <3> QED
      BY <1>2, <1>6, <2>3, <3>1
  <2> QED
    BY <1>7, <2>1, <2>2, <2>3
<1>9. ASSUME NEW c \in 1..t.length, c \in Copied(t, T) PROVE \E q \in 1..Len(w) : w[q] = c
  <2>1. PICK n \in T : c \in Repeated(t, n)
    BY <1>9 DEF Copied
  <2>2. CASE n = m
    BY <1>5, <1>6, <2>1, <2>2
  <2>3. CASE n # m
    <3>1. c \in Cover(n)
      BY <2>1, RepeatedCovers
    <3>2. b < c
      <4> DEFINE s == n.start
                 e == n.end
      <4>1. s \in Nat /\ e \in Nat /\ b <= s /\ c \in s + 1..e
        BY <1>2, <2>3, <3>1 DEF Lies, Cover
      <4> HIDE DEF b, s, e
      <4> QED
        BY <1>1, <4>1
    <3>3. c \in Copied(t, T \ {m})
      BY <2>1, <2>3 DEF Copied
    <3> QED
      BY <1>7, <3>2, <3>3
  <2> QED
    BY <2>2, <2>3
<1>10. AllShown(t, T, w)
  BY <1>8, <1>9 DEF AllShown
<1> QED
  BY <1>3, <1>10

-----------------------------------------------------------------------------
(* What is left to see of a text *)

\* The whole text is within either bound.
LEMMA WholeBound ==
  ASSUME NEW t, t.length \in Nat
  PROVE  /\ LocalBound(t, {}, Whole(t)) /\ ServiceBound(t, {}, Whole(t))
         /\ AllShown(t, {}, Whole(t))
<1> DEFINE v == Whole(t)
           n == t.length
<1>1. Len(v) = n /\ n \in Nat /\ \A p \in 1..n : v[p] = p
  BY WholeIs
<1> HIDE DEF v, n
<1>2. \A p \in 1..n : p \in Nat
  BY <1>1
<1>3. Covered({}) = {}
  BY DEF Covered
<1>4. \A c \in Nat : Before(t, {}, c) = 0
  <2> DEFINE W == {}
  <2>1. IsFiniteSet(W) /\ W \in SUBSET W /\ \A m \in W : Grows(t, m) \in Nat
    BY FS_EmptySet
  <2> HIDE DEF W
  <2>2. W = {} => Total(t, W) = 0
    BY <2>1, TotalUnfolds
  <2>3. Total(t, {}) = 0
    BY <2>2 DEF W
  <2>4. \A c \in Nat : {m \in {} : m.start < c} = {}
    OBVIOUS
  <2> QED
    BY <2>3, <2>4 DEF Before
<1>5. ASSUME NEW p \in 1..n
      PROVE  p \in 1..n /\ p <= p + Before(t, {}, p) /\ p \notin Covered({}) /\ n - p >= n - p
  <2>1. p \in Nat /\ Before(t, {}, p) = 0
    BY <1>2, <1>4
  <2>2. p <= p + 0 /\ n - p >= n - p
    BY <1>1, <2>1
  <2> QED
    BY <1>3, <2>1, <2>2
<1>6. LocalBound(t, {}, v)
  BY <1>1, <1>5 DEF LocalBound, n
<1>7. ServiceBound(t, {}, v)
  <2>1. \A p \in 1..n : v[p] \in 1..n
    BY <1>1
  <2>2. \A p, q \in 1..n : p < q => v[p] < v[q]
    BY <1>1
  <2>3. \A p \in 1..n : /\ v[p] \notin Covered({})
                        /\ p <= v[p] + Before(t, {}, v[p])
                        /\ n - p >= n - v[p]
    BY <1>1, <1>5
  <2> QED
    BY <1>1, <2>1, <2>2, <2>3 DEF ServiceBound, n
<1>8. AllShown(t, {}, v)
  BY <1>1 DEF AllShown, n
<1> QED
  BY <1>6, <1>7, <1>8 DEF v

\* What the gateway's loop leaves.
LEMMA LocalLoop ==
  ASSUME NEW t, NEW ms, Lies(t, ms), NEW f, Runs("local", t, ms, f)
  PROVE  f[ms] \in Seq(Nat) /\ LocalBound(t, ms, f[ms])
<1> DEFINE G == {T \in SUBSET ms : LocalBound(t, T, f[T])}
<1>1. {} \in G
  <2>1. t.length \in Nat /\ f[{}] = Whole(t)
    BY DEF Lies, Runs
  <2> QED
    BY <2>1, WholeBound
<1>2. ASSUME NEW T \in SUBSET ms, NEW m \in T, \A n \in T : m.start <= n.start,
             T \ {m} \in G, f[T \ {m}] \in Seq(Nat), Intact(t, T \ {m}, f[T \ {m}]),
             f[T] = StepOf("local", t, f[T \ {m}], m)
      PROVE  T \in G
  <2> DEFINE v == f[T \ {m}]
  <2>1. v \in Seq(Nat) /\ Intact(t, T \ {m}, v) /\ LocalBound(t, T \ {m}, v)
    BY <1>2
  <2> HIDE DEF v
  <2>2. LocalBound(t, T, StepOf("local", t, v, m))
    BY <1>2, <2>1, LocalStep
  <2> QED
    BY <1>2, <2>2 DEF v
<1> HIDE DEF G
<1>3. Inductive("local", t, ms, f, G)
  BY <1>1, <1>2 DEF Inductive
<1>4. \A T \in SUBSET ms : T \in G /\ f[T] \in Seq(Nat) /\ Intact(t, T, f[T])
  BY <1>3, LoopInduction
<1> QED
  BY <1>4 DEF G

\* What the service's loop leaves, over entities that start apart.
LEMMA ServiceLoop ==
  ASSUME NEW t, NEW ms, Lies(t, ms), \A m, n \in ms : m = n \/ m.start # n.start,
         NEW f, Runs("service", t, ms, f)
  PROVE  f[ms] \in Seq(Nat) /\ ServiceBound(t, ms, f[ms])
<1> DEFINE G == {T \in SUBSET ms : ServiceBound(t, T, f[T])}
<1>1. {} \in G
  <2>1. t.length \in Nat /\ f[{}] = Whole(t)
    BY DEF Lies, Runs
  <2> QED
    BY <2>1, WholeBound
<1>2. ASSUME NEW T \in SUBSET ms, NEW m \in T, \A n \in T : m.start <= n.start,
             T \ {m} \in G, f[T \ {m}] \in Seq(Nat), Intact(t, T \ {m}, f[T \ {m}]),
             f[T] = StepOf("service", t, f[T \ {m}], m)
      PROVE  T \in G
  <2> DEFINE v == f[T \ {m}]
  <2>1. v \in Seq(Nat) /\ Intact(t, T \ {m}, v) /\ ServiceBound(t, T \ {m}, v)
    BY <1>2
  <2> HIDE DEF v
  <2>2. \A n \in T \ {m} : m.start < n.start
    <3> SUFFICES ASSUME NEW n \in T \ {m} PROVE m.start < n.start
      OBVIOUS
    <3> DEFINE a == m.start
               b == n.start
    <3>1. a \in Nat /\ b \in Nat /\ a <= b /\ a # b
      BY <1>2 DEF Lies
    <3> HIDE DEF a, b
    <3>2. a < b
      BY <3>1
    <3> QED
      BY <3>2 DEF a, b
  <2>3. ServiceBound(t, T, StepOf("service", t, v, m))
    BY <2>1, <2>2, ServiceStep
  <2> QED
    BY <1>2, <2>3 DEF v
<1> HIDE DEF G
<1>3. Inductive("service", t, ms, f, G)
  BY <1>1, <1>2 DEF Inductive
<1>4. \A T \in SUBSET ms : T \in G /\ f[T] \in Seq(Nat) /\ Intact(t, T, f[T])
  BY <1>3, LoopInduction
<1> QED
  BY <1>4 DEF G

\* Where matches lie apart, either loop shows all that is to be shown.
LEMMA ShownLoop ==
  ASSUME NEW side, NEW t, NEW ms, Lies(t, ms), Separate(ms), NEW f, Runs(side, t, ms, f)
  PROVE  AllShown(t, ms, f[ms])
<1> DEFINE G == {T \in SUBSET ms : AllShown(t, T, f[T])}
<1>1. {} \in G
  <2>1. t.length \in Nat /\ f[{}] = Whole(t)
    BY DEF Lies, Runs
  <2> QED
    BY <2>1, WholeBound
<1>2. ASSUME NEW T \in SUBSET ms, NEW m \in T, \A n \in T : m.start <= n.start,
             T \ {m} \in G, f[T \ {m}] \in Seq(Nat), Intact(t, T \ {m}, f[T \ {m}]),
             f[T] = StepOf(side, t, f[T \ {m}], m)
      PROVE  T \in G
  <2> DEFINE v == f[T \ {m}]
  <2>1. v \in Seq(Nat) /\ Intact(t, T \ {m}, v) /\ AllShown(t, T \ {m}, v)
    BY <1>2
  <2> HIDE DEF v
  <2>2. Separate(T)
    BY DEF Separate
  <2>3. AllShown(t, T, StepOf(side, t, v, m))
    BY <1>2, <2>1, <2>2, StepShows
  <2> QED
    BY <1>2, <2>3 DEF v
<1> HIDE DEF G
<1>3. Inductive(side, t, ms, f, G)
  BY <1>1, <1>2 DEF Inductive
<1>4. \A T \in SUBSET ms : T \in G /\ f[T] \in Seq(Nat) /\ Intact(t, T, f[T])
  BY <1>3, LoopInduction
<1> QED
  BY <1>4 DEF G

\* What the bounds say of the characters that are to be seen.
LEMMA BoundShows ==
  ASSUME NEW t, NEW ms, Lies(t, ms), NEW v \in Seq(Nat),
         LocalBound(t, ms, v) \/ ServiceBound(t, ms, v)
  PROVE  /\ Visible(v) \subseteq Reference(t, ms) \cup AllPushed(t, ms)
         /\ AllPushed(t, ms) = {} /\ AllShown(t, ms, v) => Visible(v) = Reference(t, ms)
<1>1. Reference(t, ms) = ((1..t.length) \ Covered(ms)) \cup Copied(t, ms)
  BY DEF Reference, Covered, Copied
<1>2. DOMAIN v = 1..Len(v)
  BY LenProperties
<1>3. \A c : c \in Visible(v) <=> c # 0 /\ \E p \in 1..Len(v) : c = v[p]
  BY <1>2 DEF Visible, Hidden
<1>4. ASSUME NEW p \in 1..Len(v), v[p] # 0
      PROVE  v[p] \in Reference(t, ms) \cup AllPushed(t, ms)
  <2>1. CASE LocalBound(t, ms, v)
    BY <1>1, <1>4, <2>1 DEF LocalBound
  <2>2. CASE ServiceBound(t, ms, v)
    BY <1>1, <1>4, <2>2 DEF ServiceBound
  <2> QED
    BY <2>1, <2>2
<1>5. ASSUME NEW c \in Reference(t, ms)
      PROVE  c \in 1..t.length /\ c # 0 /\ (c \notin Covered(ms) \/ c \in Copied(t, ms))
  <2>1. CASE c \in (1..t.length) \ Covered(ms)
    <3>1. t.length \in Nat
      BY DEF Lies
    <3> QED
      BY <2>1, <3>1
  <2>2. CASE c \in Copied(t, ms)
    <3>1. PICK m \in ms : c \in Repeated(t, m)
      BY <2>2 DEF Copied
    <3>2. c \in Cover(m)
      BY <3>1, RepeatedCovers
    <3> DEFINE a == m.start
               b == m.end
               n == t.length
    <3>3. a \in Nat /\ b \in Nat /\ b <= n /\ n \in Nat /\ c \in a + 1..b
      BY <3>2 DEF Lies, Cover
    <3> HIDE DEF a, b, n
    <3>4. c \in 1..n /\ c # 0
      BY <3>3
    <3> QED
      BY <2>2, <3>4 DEF n
  <2> QED
    BY <1>1, <2>1, <2>2
<1>6. Visible(v) \subseteq Reference(t, ms) \cup AllPushed(t, ms)
  BY <1>3, <1>4
<1>7. AllShown(t, ms, v) => Reference(t, ms) \subseteq Visible(v)
  <2> SUFFICES ASSUME AllShown(t, ms, v), NEW c \in Reference(t, ms) PROVE c \in Visible(v)
    OBVIOUS
  <2>1. c \in 1..t.length /\ c # 0 /\ (c \notin Covered(ms) \/ c \in Copied(t, ms))
    BY <1>5
  <2>2. \E p \in 1..Len(v) : v[p] = c
    BY <2>1 DEF AllShown
  <2> QED
    BY <1>3, <2>1, <2>2
<1> QED
  BY <1>6, <1>7

-----------------------------------------------------------------------------
(* What either side replaces *)

\* What is recognised of a text lies in it.
LEMMA RecognisableLies ==
  ASSUME NEW t, Recognisable(t), NEW ms \in {t.found, t.entities}
  PROVE  Lies(t, ms)
<1>1. /\ t.length \in Nat /\ t.at \in Nat /\ IsFiniteSet(ms)
      /\ \A m \in ms :
           /\ m.type \in {Patterns[i] : i \in DOMAIN Patterns}
           /\ m.start \in Nat /\ m.end \in m.start + 1..t.length
           /\ m.type = "EMAIL" => t.at \in m.start + 2..m.end - 1
      /\ \A m, n \in ms : m = n \/ m.start # n.start \/ m.type # n.type
  BY DEF Recognisable
<1>2. ASSUME NEW m \in ms
      PROVE  /\ m.type \in Types
             /\ m.start \in Nat /\ m.end \in Nat /\ m.start < m.end /\ m.end <= t.length
             /\ m.type = "EMAIL" => m.start + 2 <= t.at /\ t.at < m.end
  <2>1. m.type \in Types
    BY <1>1, PatternTypes
  <2> DEFINE a == m.start
             b == m.end
             n == t.length
             at == t.at
  <2>2. /\ a \in Nat /\ n \in Nat /\ at \in Nat /\ b \in a + 1..n
        /\ m.type = "EMAIL" => at \in a + 2..b - 1
    BY <1>1
  <2> HIDE DEF a, b, n, at
  <2>3. /\ b \in Nat /\ a < b /\ b <= n
        /\ m.type = "EMAIL" => a + 2 <= at /\ at < b
    BY <2>2
  <2> QED
    BY <2>1, <2>2, <2>3 DEF a, b, n, at
<1> QED
  BY <1>1, <1>2 DEF Lies

\* Matches that lie apart do not overlap by either side's test.
LEMMA ApartOverlaps ==
  ASSUME NEW t, NEW ms, Lies(t, ms), NEW m \in ms, NEW n \in ms, Apart(m, n)
  PROVE  ~Overlaps(m, n)
<1> DEFINE a == m.start
           b == m.end
           c == n.start
           d == n.end
<1>1. a \in Nat /\ b \in Nat /\ a < b /\ c \in Nat /\ d \in Nat /\ c < d
  BY DEF Lies
<1>2. \A p : ~(p \in a + 1..b /\ p \in c + 1..d)
  BY DEF Apart, Cover
<1> HIDE DEF a, b, c, d
<1>3. a + 1 \in a + 1..b /\ b \in a + 1..b
  BY <1>1
<1>4. a + 1 \notin c + 1..d /\ b \notin c + 1..d
  BY <1>2, <1>3
<1>5. a \notin c..d - 1
  BY <1>1, <1>4
<1> QED
  BY <1>4, <1>5 DEF Overlaps, a, b, c, d

\* The gateway replaces some of the matches of its patterns, all of them where
\* they lie apart.
LEMMA DetectedLies ==
  ASSUME NEW t, Recognisable(t)
  PROVE  /\ Lies(t, Detected(t))
         /\ Separate(t.found) => Detected(t) = t.found
<1>1. Lies(t, t.found)
  BY RecognisableLies
<1>2. Detected(t) \in SUBSET t.found
  BY DEF Detected
<1> HIDE DEF Recognisable
<1>3. Lies(t, Detected(t))
  BY <1>1, <1>2, LiesLess
<1>4. ASSUME Separate(t.found), NEW m \in t.found, NEW n \in t.found \ {m}
      PROVE  ~Overlaps(m, n)
  <2>1. Apart(m, n)
    BY <1>4 DEF Separate
  <2> DEFINE ms == t.found
  <2>2. Lies(t, ms) /\ m \in ms /\ n \in ms
    BY <1>1
  <2> HIDE DEF ms
  <2> QED
    BY <2>1, <2>2, ApartOverlaps
<1>5. Separate(t.found) => Detected(t) = t.found
  BY <1>4 DEF Detected
<1> QED
  BY <1>3, <1>5

\* The service replaces entities that start apart, all of them where they lie
\* apart.
LEMMA KeptLies ==
  ASSUME NEW t, Recognisable(t)
  PROVE  /\ Lies(t, Kept(t))
         /\ \A m, n \in Kept(t) : m = n \/ m.start # n.start
         /\ Separate(t.entities) => Kept(t) = t.entities
<1> DEFINE ms == t.entities
           V == SUBSET ms
           base == {}
           pick == [T \in SUBSET ms |-> LastOf(T)]
           step(kept, m) == IF \E n \in kept : Overlaps(m, n) THEN kept ELSE kept \cup {m}
           F == [y \in ms \X V |-> step(y[2], y[1])]
           Eq(f) == f = [S \in SUBSET ms |-> IF S = {} THEN base ELSE step(f[S \ {LastOf(S)}], LastOf(S))]
           h == CHOOSE f : Eq(f)
<1>1. Lies(t, ms)
  BY RecognisableLies
<1> HIDE DEF ms
<1>2. IsFiniteSet(ms) /\ \A T \in SUBSET ms : T # {} => LastOf(T) \in T
  BY <1>1, LastOfIs DEF Lies
<1>3. PICK g : FoldsBy(ms, V, base, pick, F, g)
  <2>1. base \in V
    OBVIOUS
  <2>2. Picks(ms, pick)
    BY <1>2 DEF Picks
  <2>3. Steps(ms, V, F)
    <3>1. \A m \in ms : \A kept \in V : step(kept, m) \in V
      OBVIOUS
    <3> HIDE DEF V, step
    <3> QED
      BY <3>1 DEF Steps
  <2> HIDE DEF V, base, pick, F
  <2> QED
    BY <1>2, <2>1, <2>2, <2>3, FoldExists
<1>4. g \in [SUBSET ms -> V] /\ g[{}] = base
  BY <1>3 DEF FoldsBy
<1>5. ASSUME NEW T \in SUBSET ms, T # {}
      PROVE  g[T] = step(g[T \ {LastOf(T)}], LastOf(T))
  <2> DEFINE m == LastOf(T)
  <2>1. m \in ms /\ T \ {m} \in SUBSET ms /\ pick[T] = m
    BY <1>2, <1>5
  <2>2. g[T] = F[<<pick[T], g[T \ {pick[T]}]>>]
    BY <1>3, <1>5 DEF FoldsBy
  <2> HIDE DEF m, step
  <2>3. <<m, g[T \ {m}]>> \in ms \X V
    BY <1>4, <2>1
  <2>4. g[T] = F[<<m, g[T \ {m}]>>]
    <3> HIDE DEF F, pick
    <3> QED
      BY <2>1, <2>2
  <2>5. F[<<m, g[T \ {m}]>>] = step(g[T \ {m}], m)
    <3> HIDE DEF V
    <3> QED
      BY <2>3
  <2> QED
    BY <2>4, <2>5 DEF m
<1>6. Eq(h)
  <2>1. Eq(g)
    <3> DEFINE e == [S \in SUBSET ms |-> IF S = {} THEN base ELSE step(g[S \ {LastOf(S)}], LastOf(S))]
    <3>1. \A S \in SUBSET ms : g[S] = e[S]
      <4> HIDE DEF step
      <4> QED
        BY <1>4, <1>5
    <3>2. DOMAIN g = SUBSET ms /\ g = [S \in SUBSET ms |-> g[S]]
      BY <1>4
    <3>3. e = [S \in SUBSET ms |-> e[S]]
      OBVIOUS
    <3> HIDE DEF e, step, base
    <3>4. g = e
      BY <3>1, <3>2, <3>3
    <3> QED
      BY <3>4 DEF e
  <2> HIDE DEF Eq
  <2> QED
    BY <2>1
<1>7. Kept(t) = h[ms]
  BY DEF Kept, InTurn, MapThenFoldSet, ms
<1>8. \A T \in SUBSET ms : h[T] = IF T = {} THEN base ELSE step(h[T \ {LastOf(T)}], LastOf(T))
  <2> HIDE DEF step, h, base
  <2> QED
    BY <1>6
<1> HIDE DEF h
<1> DEFINE Good == {T \in SUBSET ms : /\ h[T] \in SUBSET T
                                      /\ \A m, n \in h[T] : m = n \/ m.start # n.start
                                      /\ Separate(ms) => h[T] = T}
<1>9. ASSUME NEW T \in SUBSET ms, \A U \in SUBSET T : U # T => U \in Good
      PROVE  T \in Good
  <2>1. CASE T = {}
    <3>1. h[T] = {}
      BY <1>8, <2>1
    <3> QED
      BY <2>1, <3>1
  <2>2. CASE T # {}
    <3> DEFINE x == LastOf(T)
               k == h[T \ {x}]
    <3>1. x \in T
      BY <1>2, <2>2
    <3>2. T \ {x} \in Good
      BY <1>9, <3>1
    <3>3. /\ k \in SUBSET T /\ \A m, n \in k : m = n \/ m.start # n.start
          /\ Separate(ms) => k = T \ {x}
      BY <3>2
    <3>4. h[T] = step(k, x)
      BY <1>8, <2>2
    <3> HIDE DEF x, k
    <3>5. CASE \E n \in k : Overlaps(x, n)
      <4>1. ~Separate(ms)
        <5> SUFFICES ASSUME Separate(ms) PROVE FALSE
          OBVIOUS
        <5>1. PICK n \in k : Overlaps(x, n)
          BY <3>5
        <5>2. x \in ms /\ n \in ms /\ x # n
          BY <3>1, <3>3, <5>1
        <5>3. Apart(x, n)
          BY <5>2 DEF Separate
        <5> QED
          BY <1>1, <5>1, <5>2, <5>3, ApartOverlaps
      <4>2. h[T] = k
        BY <3>4, <3>5
      <4> QED
        BY <3>3, <4>1, <4>2
    <3>6. CASE ~\E n \in k : Overlaps(x, n)
      <4>1. h[T] = k \cup {x}
        BY <3>4, <3>6
      <4>2. ASSUME NEW n \in k PROVE n.start # x.start
        <5> DEFINE a == n.start
                   b == n.end
        <5>1. a \in Nat /\ b \in Nat /\ a < b
          BY <1>1, <3>3 DEF Lies
        <5> HIDE DEF a, b
        <5>2. a \in a..b - 1
          BY <5>1
        <5> QED
          BY <3>6, <5>2 DEF Overlaps, a, b
      <4>3. Separate(ms) => h[T] = T
        BY <3>1, <3>3, <4>1
      <4> QED
        BY <3>1, <3>3, <4>1, <4>2, <4>3
    <3> QED
      BY <3>5, <3>6
  <2> QED
    BY <2>1, <2>2
<1>10. \A T \in SUBSET ms : T \in Good
  <2> HIDE DEF Good
  <2> QED
    BY <1>2, <1>9, SubsetInduction
<1>11. /\ h[ms] \in SUBSET ms /\ \A m, n \in h[ms] : m = n \/ m.start # n.start
       /\ Separate(ms) => h[ms] = ms
  BY <1>10
<1>12. Lies(t, h[ms])
  BY <1>1, <1>11, LiesLess
<1> QED
  BY <1>7, <1>11, <1>12 DEF ms

\* Either side's text is what its loop makes of it.
LEMMA LocalRuns ==
  ASSUME NEW t, Recognisable(t)
  PROVE  \E f : Runs("local", t, Detected(t), f) /\ RedactString(t) = f[Detected(t)]
<1> DEFINE ms == Detected(t)
           Eq(f) == f = [S \in SUBSET ms |->
             IF S = {} THEN Whole(t)
             ELSE Splice(f[S \ {LastOf(S)}], LastOf(S),
                         Mask(LastOf(S).type, Value(LastOf(S)), t.at))]
           h == CHOOSE f : Eq(f)
<1>1. Lies(t, ms)
  BY DetectedLies
<1>2. RedactString(t) = h[ms]
  BY DEF RedactString, InTurn, MapThenFoldSet
<1> HIDE DEF ms
<1>3. PICK g : g = [T \in SUBSET ms |-> g[T]] /\ Runs("local", t, ms, g)
  BY <1>1, LoopExists
<1>4. Eq(g)
  <2>1. \A S \in SUBSET ms : g[S] = IF S = {} THEN Whole(t)
             ELSE Splice(g[S \ {LastOf(S)}], LastOf(S),
                         Mask(LastOf(S).type, Value(LastOf(S)), t.at))
    BY <1>3 DEF Runs, StepOf, MaskOf, MaskBy, Read
  <2> QED
    BY <1>3, <2>1
<1>5. Eq(h)
  <2> HIDE DEF Eq
  <2> QED
    BY <1>4
<1>6. \A S \in SUBSET ms : h[S] = IF S = {} THEN Whole(t)
             ELSE Splice(h[S \ {LastOf(S)}], LastOf(S),
                         Mask(LastOf(S).type, Value(LastOf(S)), t.at))
  <2> HIDE DEF h
  <2> QED
    BY <1>5
<1> HIDE DEF h
<1>7. Runs("local", t, ms, h)
  BY <1>6 DEF Runs, StepOf, MaskOf, MaskBy, Read
<1> QED
  BY <1>2, <1>7 DEF ms

LEMMA ServiceRuns ==
  ASSUME NEW t, Recognisable(t)
  PROVE  \E f : Runs("service", t, Kept(t), f) /\ RedactEntities(t) = f[Kept(t)]
<1> DEFINE ms == Kept(t)
           Eq(f) == f = [S \in SUBSET ms |->
             IF S = {} THEN Whole(t)
             ELSE Splice(f[S \ {LastOf(S)}], LastOf(S),
                         ServiceMask(LastOf(S).type, Now(f[S \ {LastOf(S)}], LastOf(S)), t.at))]
           h == CHOOSE f : Eq(f)
<1>1. Lies(t, ms)
  BY KeptLies
<1>2. RedactEntities(t) = h[ms]
  BY DEF RedactEntities, InTurn, MapThenFoldSet
<1> HIDE DEF ms
<1>3. PICK g : g = [T \in SUBSET ms |-> g[T]] /\ Runs("service", t, ms, g)
  BY <1>1, LoopExists
<1>4. Eq(g)
  <2>1. \A S \in SUBSET ms : g[S] = IF S = {} THEN Whole(t)
             ELSE Splice(g[S \ {LastOf(S)}], LastOf(S),
                         ServiceMask(LastOf(S).type, Now(g[S \ {LastOf(S)}], LastOf(S)), t.at))
    BY <1>3 DEF Runs, StepOf, MaskOf, MaskBy, Read
  <2> QED
    BY <1>3, <2>1
<1>5. Eq(h)
  <2> HIDE DEF Eq
  <2> QED
    BY <1>4
<1>6. \A S \in SUBSET ms : h[S] = IF S = {} THEN Whole(t)
             ELSE Splice(h[S \ {LastOf(S)}], LastOf(S),
                         ServiceMask(LastOf(S).type, Now(h[S \ {LastOf(S)}], LastOf(S)), t.at))
  <2> HIDE DEF h
  <2> QED
    BY <1>5
<1> HIDE DEF h
<1>7. Runs("service", t, ms, h)
  BY <1>6 DEF Runs, StepOf, MaskOf, MaskBy, Read
<1> QED
  BY <1>2, <1>7 DEF ms

\* What either side leaves to see of a text, of whose matches ms it replaced.
Leaves(t, ms, shown) ==
  /\ shown \subseteq Reference(t, ms) \cup AllPushed(t, ms)
  /\ Separate(ms) => shown = Reference(t, ms)

LEMMA LocalLeaves ==
  ASSUME NEW t, Recognisable(t)
  PROVE  Leaves(t, Detected(t), Visible(RedactString(t)))
<1> DEFINE ms == Detected(t)
           v == RedactString(t)
<1>1. Lies(t, ms)
  BY DetectedLies
<1>2. PICK f : Runs("local", t, ms, f) /\ v = f[ms]
  BY LocalRuns
<1> HIDE DEF ms, v
<1>3. v \in Seq(Nat) /\ LocalBound(t, ms, v)
  BY <1>1, <1>2, LocalLoop
<1>4. Separate(ms) => AllPushed(t, ms) = {} /\ AllShown(t, ms, v)
  BY <1>1, <1>2, NothingPushed, ShownLoop
<1>5. Leaves(t, ms, Visible(v))
  BY <1>1, <1>3, <1>4, BoundShows DEF Leaves
<1> QED
  BY <1>5 DEF ms, v

LEMMA ServiceLeaves ==
  ASSUME NEW t, Recognisable(t)
  PROVE  Leaves(t, Kept(t), Visible(RedactEntities(t)))
<1> DEFINE ms == Kept(t)
           v == RedactEntities(t)
<1>1. Lies(t, ms) /\ \A m, n \in ms : m = n \/ m.start # n.start
  BY KeptLies
<1>2. PICK f : Runs("service", t, ms, f) /\ v = f[ms]
  BY ServiceRuns
<1> HIDE DEF ms, v
<1>3. v \in Seq(Nat) /\ ServiceBound(t, ms, v)
  BY <1>1, <1>2, ServiceLoop
<1>4. Separate(ms) => AllPushed(t, ms) = {} /\ AllShown(t, ms, v)
  BY <1>1, <1>2, NothingPushed, ShownLoop
<1>5. Leaves(t, ms, Visible(v))
  BY <1>1, <1>3, <1>4, BoundShows DEF Leaves
<1> QED
  BY <1>5 DEF ms, v

-----------------------------------------------------------------------------
(* What the tool sees *)

\* What the bounds on either side say of a request.
LEMMA ScannedLeaves ==
  ASSUME Shaped, OwnRedaction, NEW j \in Jobs, Scanned(j)
  PROVE  /\ Leaves(text[j], Used(j), Visible(result[j].shown))
         /\ Separate(Recognised(j)) => Used(j) = Recognised(j)
<1> DEFINE t == text[j]
           ms == Used(j)
           shown == result[j].shown
           theirs == Service(t)
           ours == Local(t)
<1>1. Recognisable(t)
  <2>1. t \in AllTexts
    BY DEF Shaped
  <2> QED
    BY <2>1, PiiAssumption DEF AllTexts
<1>2. /\ t.key = "none" \/ (result[j].by = "local" /\ ms # {})
      /\ \/ result[j].by = "service" /\ shown = theirs
         \/ result[j].by = "local" /\ shown = ours
  <2>1. \/ result[j] = [by |-> "service", of |-> j, shown |-> theirs]
        \/ result[j] = [by |-> "local", of |-> j, shown |-> ours]
    BY DEF OwnRedaction, Scanned
  <2>2. t.key = "none" \/ (result[j].by = "local" /\ ms # {})
    BY DEF Scanned
  <2> HIDE DEF theirs, ours, ms, t
  <2> QED
    BY <2>1, <2>2
<1>3. CASE result[j].by = "service" /\ shown = theirs
  <2>1. shown = RedactEntities(t) /\ ms = Kept(t) /\ Recognised(j) = t.entities
    BY <1>2, <1>3 DEF Service, Used, Recognised
  <2> HIDE DEF t, ms, shown
  <2>2. Leaves(t, ms, Visible(shown)) /\ (Separate(t.entities) => ms = t.entities)
    BY <1>1, <2>1, ServiceLeaves, KeptLies
  <2> QED
    BY <2>1, <2>2 DEF t, ms, shown
<1>4. CASE result[j].by = "local" /\ shown = ours
  <2>1. ms = Detected(t) /\ Recognised(j) = t.found
    BY <1>4 DEF Used, Recognised
  <2>2. shown = RedactString(t)
    BY <1>2, <1>4, <2>1 DEF Local
  <2> HIDE DEF t, ms, shown
  <2>3. Leaves(t, ms, Visible(shown)) /\ (Separate(t.found) => ms = t.found)
    BY <1>1, <2>1, <2>2, LocalLeaves, DetectedLies
  <2> QED
    BY <2>1, <2>3 DEF t, ms, shown
<1> QED
  BY <1>2, <1>3, <1>4

LEMMA ScannedBounded ==
  ASSUME Shaped, OwnRedaction
  PROVE  ApartRedacted /\ OverlapBounded
<1>1. ASSUME NEW j \in Jobs, Scanned(j), \A m, n \in Recognised(j) : m = n \/ Apart(m, n)
      PROVE  Visible(result[j].shown) = Reference(text[j], Recognised(j))
  <2>1. Separate(Recognised(j))
    BY <1>1 DEF Separate
  <2> QED
    BY <1>1, <2>1, ScannedLeaves DEF Leaves
<1>2. ASSUME NEW j \in Jobs, Scanned(j)
      PROVE  Visible(result[j].shown) \subseteq
               Reference(text[j], Used(j)) \cup UNION {Pushed(text[j], Used(j), m) : m \in Used(j)}
  BY <1>2, ScannedLeaves DEF Leaves, AllPushed
<1> QED
  BY <1>1, <1>2 DEF ApartRedacted, OverlapBounded

\* What the mask of a text under the name of a secret shows, on either side.
LEMMA KeyMaskShows ==
  ASSUME NEW side, NEW t, Recognisable(t), t.key # "none"
  PROVE  Visible(MaskBy(side, t.key, Whole(t), t.at)) \subseteq SecretShows(t)
<1> DEFINE u == Whole(t)
           mask == MaskBy(side, t.key, u, t.at)
           n == t.length
           type == t.key
           at == t.at
<1>1. n \in Nat /\ type \in Types \ {"PERSON"}
  BY DEF Recognisable, Types, LastFour
<1>2. u \in Seq(Nat) /\ Len(u) = n /\ \A r \in 1..n : u[r] = r
  BY <1>1, WholeIs
<1>3. SecretShows(t) = IF type = "ADDRESS" THEN {}
                       ELSE IF type = "EMAIL"
                       THEN IF at \in 2..n THEN {i \in 1..n : i = 1 \/ i > at} ELSE {}
                       ELSE {i \in 1..n : i > n - 4}
  BY DEF SecretShows
<1> HIDE DEF u, n, type, at
<1>4. mask = Mask(type, u, at) \/ (u[Len(u)] = at /\ FirstAlone(type, u, mask))
  BY <1>2, EitherMask DEF type, at
<1>5. mask \in Seq(Nat)
  BY <1>1, <1>2, MaskByIs DEF type, at
<1> HIDE DEF mask
<1> SUFFICES ASSUME NEW q \in 1..Len(mask), mask[q] # 0
             PROVE  mask[q] \in SecretShows(t)
  <2>1. DOMAIN mask = 1..Len(mask)
    BY <1>5, LenProperties
  <2> QED
    BY <2>1 DEF Visible, Hidden, mask, u, type, at
<1>6. CASE mask = Mask(type, u, at)
  <2>1. \/ Shown(type, u, at, mask, q)
        \/ /\ type = "EMAIL" /\ 1 \in 1..Len(u) /\ mask[q] = u[1]
           /\ \E i \in 2..Len(u) - 1 : u[i] = at
    BY <1>1, <1>2, <1>6, MaskShows
  <2>2. CASE Shown(type, u, at, mask, q)
    <3>1. PICK r \in 1..Len(u) :
            /\ mask[q] = u[r]
            /\ \/ type \in LastFour /\ Len(u) - 4 < r
               \/ type = "EMAIL" /\ \E i \in 2..Len(u) - 1 : i < r /\ u[i] = at
      BY <2>2 DEF Shown
    <3>2. r \in 1..n /\ mask[q] = r
      BY <1>2, <3>1
    <3>3. CASE type \in LastFour /\ Len(u) - 4 < r
      <4>1. type # "ADDRESS" /\ type # "EMAIL" /\ r > n - 4
        BY <1>1, <1>2, <3>2, <3>3 DEF LastFour
      <4> QED
        BY <1>3, <3>2, <4>1
    <3>4. CASE type = "EMAIL" /\ \E i \in 2..Len(u) - 1 : i < r /\ u[i] = at
      <4>1. PICK i \in 2..n - 1 : i < r /\ u[i] = at
        BY <1>2, <3>4
      <4>2. i \in 1..n /\ i \in 2..n
        BY <1>1, <4>1
      <4>3. at \in 2..n /\ r > at
        BY <1>1, <1>2, <3>2, <4>1, <4>2
      <4> QED
        BY <1>3, <3>2, <3>4, <4>3
    <3> QED
      BY <3>1, <3>3, <3>4
  <2>3. CASE /\ type = "EMAIL" /\ 1 \in 1..Len(u) /\ mask[q] = u[1]
             /\ \E i \in 2..Len(u) - 1 : u[i] = at
    <3>1. PICK i \in 2..n - 1 : u[i] = at
      BY <1>2, <2>3
    <3>2. i \in 1..n /\ i \in 2..n /\ 1 \in 1..n
      BY <1>1, <3>1
    <3>3. at \in 2..n /\ mask[q] = 1
      BY <1>2, <2>3, <3>1, <3>2
    <3> QED
      BY <1>3, <2>3, <3>2, <3>3
  <2> QED
    BY <2>1, <2>2, <2>3
<1>7. CASE u[Len(u)] = at /\ FirstAlone(type, u, mask)
  <2>1. /\ type = "EMAIL" /\ n > 1 /\ u[n] = at
        /\ Len(mask) = 5 /\ mask[1] = u[1] /\ \A k \in 2..5 : mask[k] = 0
    BY <1>2, <1>7 DEF FirstAlone
  <2>2. 1 \in 1..n /\ n \in 1..n /\ n \in 2..n
    BY <1>1, <2>1
  <2>3. at = n /\ at \in 2..n /\ mask[1] = 1
    BY <1>2, <2>1, <2>2
  <2>4. q = 1
    <3>1. q \in 1..5 /\ q \notin 2..5
      BY <2>1
    <3> QED
      BY <3>1
  <2> QED
    BY <1>3, <2>1, <2>2, <2>3, <2>4
<1> QED
  BY <1>4, <1>6, <1>7

LEMMA SecretsMasked ==
  ASSUME Shaped, OwnRedaction
  PROVE  SensitiveMasked
<1> SUFFICES ASSUME NEW j \in Jobs, result[j] # Idle, text[j].key # "none",
                    result[j].by = "service" \/ Detected(text[j]) = {}
             PROVE  Visible(result[j].shown) \subseteq SecretShows(text[j])
  BY DEF SensitiveMasked
<1> DEFINE t == text[j]
           theirs == Service(t)
           ours == Local(t)
<1>1. Recognisable(t)
  <2>1. t \in AllTexts
    BY DEF Shaped
  <2> QED
    BY <2>1, PiiAssumption DEF AllTexts
<1>2. \/ result[j].by = "service" /\ result[j].shown = theirs
      \/ result[j].by = "local" /\ result[j].shown = ours
  <2>1. \/ result[j] = [by |-> "service", of |-> j, shown |-> theirs]
        \/ result[j] = [by |-> "local", of |-> j, shown |-> ours]
    BY DEF OwnRedaction
  <2> HIDE DEF theirs, ours
  <2> QED
    BY <2>1
<1>3. \E side : result[j].shown = MaskBy(side, t.key, Whole(t), t.at)
  <2>1. CASE result[j].by = "service" /\ result[j].shown = theirs
    <3>1. theirs = MaskBy("service", t.key, Whole(t), t.at)
      BY DEF Service, MaskBy
    <3> QED
      BY <2>1, <3>1
  <2>2. CASE result[j].by = "local" /\ result[j].shown = ours
    <3>1. Detected(t) = {}
      BY <2>2
    <3>2. ours = MaskBy("local", t.key, Whole(t), t.at)
      BY <3>1 DEF Local, MaskBy
    <3> QED
      BY <2>2, <3>2
  <2> QED
    BY <1>2, <2>1, <2>2
<1>4. t.key # "none"
  OBVIOUS
<1> HIDE DEF t
<1>5. Visible(result[j].shown) \subseteq SecretShows(t)
  BY <1>1, <1>3, <1>4, KeyMaskShows
<1> QED
  BY <1>5 DEF t

\* Of a text under the name of a secret, in which the gateway's patterns recognise
\* nothing where it masked it, the tool sees at most the last four characters,
\* or the first one and the domain of an e-mail address, whichever side masked
\* it and whatever happened on the connection.
THEOREM SensitiveMaskedHolds == Spec => []SensitiveMasked
<1>1. Spec => []TypeInv
  BY TypeInvHolds
<1>2. Init => OwnInv
  BY OwnInit
<1>3. TypeInv /\ OwnInv /\ [Next]_vars => OwnInv'
  BY OwnNext
<1>4. TypeInv /\ OwnInv => SensitiveMasked
  BY SecretsMasked DEF TypeInv, OwnInv
<1> QED
  BY <1>1, <1>2, <1>3, <1>4, PTL DEF Spec

\* What the tool sees of the parameters is bounded: where no two recognised values
\* overlap, exactly the rest of the text and what the masks repeat; where some
\* do, besides that, of a value that is replaced the characters that the masks
\* inside it push out of reach, and of one that is dropped what lies in no value
\* that is replaced; of a named secret what SensitiveMasked allows.  It does not
\* say that nothing recognised leaks: where values overlap, some of it does
\* (NothingLeaks is violated).  That holds of texts of any length, with any
\* number of matches, and whatever happens on the connection.
THEOREM LeakBoundedHolds == Spec => []LeakBounded
<1>1. Spec => []TypeInv
  BY TypeInvHolds
<1>2. Init => OwnInv
  BY OwnInit
<1>3. TypeInv /\ OwnInv /\ [Next]_vars => OwnInv'
  BY OwnNext
<1>4. TypeInv /\ OwnInv => ApartRedacted /\ OverlapBounded
  BY ScannedBounded DEF TypeInv, OwnInv
<1>5. Spec => []SensitiveMasked
  BY SensitiveMaskedHolds
<1>6. ApartRedacted /\ OverlapBounded /\ SensitiveMasked => LeakBounded
  BY DEF LeakBounded
<1> QED
  BY <1>1, <1>2, <1>3, <1>4, <1>5, <1>6, PTL DEF Spec

=============================================================================
