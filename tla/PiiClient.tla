------------------------------ MODULE PiiClient ------------------------------
(***************************************************************************)
(* The redaction step of the queue workers: TcpClientService asks the PII  *)
(* service over a connection of its own for every request, and PiiRedactor *)
(* falls back to the local patterns.  A worker takes its next job when the *)
(* one before is redacted.  Every event of a socket is a step; time passes *)
(* freely, so the inactivity timer may fire in any state of the socket.    *)
(***************************************************************************)
EXTENDS Redactor, FiniteSets

CONSTANTS
  Pods,         \* gateway processes, one worker each
  Jobs,         \* queued requests with one string parameter
  TextsOf,      \* the parameters a job may carry
  MaxFaults     \* bound: stops of the service and failing analyses

ASSUME PiiAssumption ==
  /\ IsFiniteSet(Jobs) /\ "none" \notin Jobs
  /\ MaxFaults \in Nat
  /\ \A j \in Jobs : \A t \in TextsOf[j] : Recognisable(t)

VARIABLES
  text,     \* the parameter of each job
  queue,    \* the jobs no worker has taken
  job,      \* per worker, its job or "none"
  socket,   \* per worker, the state of its newest net.Socket
  buffer,   \* per worker, the pieces of an answer it has read
  promise,  \* per worker, the promise of send()
  handler,  \* per worker, handle_client() of its newest connection
  wire,     \* per worker, what that connection still carries to the client
  service,  \* "up" or "down"
  result,   \* per job, what the pipeline goes on with
  faults

worker == <<queue, job>>
client == <<socket, buffer, promise>>
server == <<handler, wire, service>>
vars == <<text, worker, client, server, result, faults>>

Pending == [state |-> "pending"]
Rejected == [state |-> "rejected"]
Resolved(answer) == [state |-> "resolved", answer |-> answer]
Live(p) == socket[p] \in {"connecting", "open"}

\* An answer comes in two pieces, the line feed with the second one.
Piece(answer, half) == [kind |-> "data", answer |-> answer, half |-> half]
NoHandler == [state |-> "none"]
Fin == [kind |-> "fin"]
Rst == [kind |-> "rst"]

-----------------------------------------------------------------------------
(* The worker *)

\* Variant: a connection is kept for the next request.
SendPooled(p) ==
  /\ socket' = [socket EXCEPT ![p] = "connecting"]
  /\ promise' = [promise EXCEPT ![p] = Pending]
  /\ UNCHANGED <<buffer, handler, wire>>

\* send(): a new socket with its timer, and an empty buffer.
Send(p) ==
  /\ socket' = [socket EXCEPT ![p] = "connecting"]
  /\ promise' = [promise EXCEPT ![p] = Pending]
  /\ buffer' = [buffer EXCEPT ![p] = <<>>]
  /\ handler' = [handler EXCEPT ![p] = NoHandler]
  /\ wire' = [wire EXCEPT ![p] = <<>>]

PopJob(p) ==
  /\ job[p] = "none" /\ queue # {}
  /\ \E j \in queue : job' = [job EXCEPT ![p] = j] /\ queue' = queue \ {j}
  /\ Send(p)
  /\ UNCHANGED <<text, service, result, faults>>

\* redactParametersAsync() goes on: an answer with redactedParams, or the
\* local patterns.
Redact(p) ==
  LET j == job[p] IN
  /\ j # "none" /\ promise[p] # Pending
  /\ result' = [result EXCEPT ![j] =
       IF promise[p].state = "resolved" /\ promise[p].answer.ok
       THEN [by |-> "service", of |-> promise[p].answer.of, shown |-> promise[p].answer.shown]
       ELSE [by |-> "local", of |-> j, shown |-> Local(text[j])]]
  /\ job' = [job EXCEPT ![p] = "none"]
  /\ UNCHANGED <<text, queue, client, server, faults>>

-----------------------------------------------------------------------------
(* Socket events *)

Settle(p, outcome) ==
  /\ socket' = [socket EXCEPT ![p] = "destroyed"]
  /\ promise' = [promise EXCEPT ![p] = outcome]

Connect(p) ==
  /\ socket[p] = "connecting" /\ service = "up"
  /\ socket' = [socket EXCEPT ![p] = "open"]
  /\ handler' = [handler EXCEPT ![p] = [state |-> "asked", of |-> job[p]]]
  /\ UNCHANGED <<text, worker, buffer, promise, wire, service, result, faults>>

Refused(p) ==
  /\ socket[p] = "connecting" /\ service = "down"
  /\ Settle(p, Rejected)
  /\ UNCHANGED <<text, worker, buffer, server, result, faults>>

\* on('data'): the first line is parsed once there is one.
Data(p) ==
  LET read == Append(buffer[p], Head(wire[p])) IN
  /\ Live(p) /\ wire[p] # <<>> /\ Head(wire[p]).kind = "data"
  /\ buffer' = [buffer EXCEPT ![p] = read]
  /\ wire' = [wire EXCEPT ![p] = Tail(@)]
  /\ IF Head(wire[p]).half = 2
     THEN Settle(p, IF Head(read).half = 1 THEN Resolved(Head(wire[p]).answer) ELSE Rejected)
     ELSE UNCHANGED <<socket, promise>>
  /\ UNCHANGED <<text, worker, handler, service, result, faults>>

\* on('error')
Error(p) ==
  /\ Live(p) /\ wire[p] # <<>> /\ Head(wire[p]) = Rst
  /\ Settle(p, Rejected)
  /\ UNCHANGED <<text, worker, buffer, server, result, faults>>

\* Nothing listens to 'end' or 'close': the socket closes itself, its timer
\* is cleared, and the promise stays as it is.
End(p) ==
  /\ Live(p) /\ wire[p] # <<>> /\ Head(wire[p]) = Fin
  /\ socket' = [socket EXCEPT ![p] = "destroyed"]
  /\ UNCHANGED <<text, worker, buffer, promise, server, result, faults>>

\* Variant: only connecting is timed.
TimeoutConnecting(p) ==
  /\ socket[p] = "connecting"
  /\ Settle(p, Rejected)
  /\ UNCHANGED <<text, worker, buffer, server, result, faults>>

\* Variant: the timeout rejects without destroying the socket.
TimeoutUndestroyed(p) ==
  /\ Live(p)
  /\ promise' = [promise EXCEPT ![p] = Rejected]
  /\ UNCHANGED <<text, worker, socket, buffer, server, result, faults>>

\* on('timeout'): three seconds without an event.
Timeout(p) ==
  /\ Live(p)
  /\ Settle(p, Rejected)
  /\ UNCHANGED <<text, worker, buffer, server, result, faults>>

-----------------------------------------------------------------------------
(* The service *)

Answers(p, answer) ==
  /\ wire' = [wire EXCEPT ![p] = @ \o <<Piece(answer, 1), Piece(answer, 2)>>]
  /\ handler' = [handler EXCEPT ![p].state = "answered"]
  /\ UNCHANGED <<text, worker, client, service, result>>

\* handle_client(): one line, however long that takes.
Handle(p) ==
  /\ handler[p].state = "asked" /\ service = "up"
  /\ Answers(p, [ok |-> TRUE, of |-> handler[p].of, shown |-> Service(text[handler[p].of])])
  /\ UNCHANGED faults

\* An exception in the analysis is answered as an error.
HandleFails(p) ==
  /\ handler[p].state = "asked" /\ service = "up"
  /\ faults < MaxFaults /\ faults' = faults + 1
  /\ Answers(p, [ok |-> FALSE, of |-> handler[p].of])

\* The process stops, and every connection with it: closed where the tasks are
\* cancelled first, reset where a request was not read yet.  A piece that was
\* not sent is lost.
Stop ==
  /\ service = "up" /\ faults < MaxFaults
  /\ service' = "down" /\ faults' = faults + 1
  /\ \E last \in {Fin, Rst} :
       \E sent \in 0..2 :
         wire' = [p \in Pods |->
           IF handler[p] # NoHandler
           THEN Append(SubSeq(wire[p], 1, IF sent < Len(wire[p]) THEN sent ELSE Len(wire[p])), last)
           ELSE wire[p]]
  /\ handler' = [p \in Pods |-> NoHandler]
  /\ UNCHANGED <<text, worker, client, result>>

Restart ==
  /\ service = "down"
  /\ service' = "up"
  /\ UNCHANGED <<text, worker, client, handler, wire, result, faults>>

-----------------------------------------------------------------------------
Init ==
  /\ text \in {t \in [Jobs -> UNION {TextsOf[j] : j \in Jobs}] : \A j \in Jobs : t[j] \in TextsOf[j]}
  /\ queue = Jobs
  /\ job = [p \in Pods |-> "none"]
  /\ socket = [p \in Pods |-> "destroyed"]
  /\ buffer = [p \in Pods |-> <<>>]
  /\ promise = [p \in Pods |-> Rejected]
  /\ handler = [p \in Pods |-> NoHandler]
  /\ wire = [p \in Pods |-> <<>>]
  /\ service \in {"up", "down"}
  /\ result = [j \in Jobs |-> [by |-> "nobody"]]
  /\ faults = 0

Event(p) == Connect(p) \/ Refused(p) \/ Data(p) \/ Error(p) \/ End(p) \/ Timeout(p)

Next ==
  \/ \E p \in Pods : PopJob(p) \/ Event(p) \/ Redact(p) \/ Handle(p) \/ HandleFails(p)
  \/ Stop \/ Restart

\* The event loop of a gateway runs, and its timers fire.  Nothing is assumed
\* of the service.
Fairness == \A p \in Pods : WF_vars(PopJob(p)) /\ WF_vars(Timeout(p)) /\ WF_vars(Redact(p))

Spec == Init /\ [][Next]_vars /\ Fairness

-----------------------------------------------------------------------------
(* Properties *)

Idle == [by |-> "nobody"]

\* Each job is in one place: queued, with one worker, or redacted.  A promise
\* that is settled leaves no open socket behind.
TypeOK ==
  /\ queue \subseteq Jobs
  /\ \A p \in Pods :
       /\ socket[p] \in {"connecting", "open", "destroyed"}
       /\ handler[p].state \in {"none", "asked", "answered"}
       /\ promise[p] # Pending => ~Live(p)
       /\ job[p] = "none" => promise[p] # Pending
  /\ \A j \in Jobs :
       Cardinality({p \in Pods : job[p] = j})
       + (IF j \in queue THEN 1 ELSE 0) + (IF result[j] = Idle THEN 0 ELSE 1) = 1
  /\ service \in {"up", "down"} /\ faults \in 0..MaxFaults

\* A request goes on with the redaction of its own parameters: an answer that
\* comes after the timeout is never taken for that of the next request.
OwnAnswer == \A j \in Jobs : result[j] # Idle => result[j].of = j

Recognised(j) == IF result[j].by = "local" THEN text[j].found ELSE text[j].entities
Used(j) == IF result[j].by = "local" THEN Detected(text[j]) ELSE Kept(text[j])

\* What is recognised in the text decides: it has no key the service goes by,
\* or the gateway recognised something in it.
Scanned(j) ==
  /\ result[j] # Idle
  /\ text[j].key = "none" \/ (result[j].by = "local" /\ Used(j) # {})

\* Where no two recognised values overlap, the tool sees what their masks
\* repeat, and everything else as it was: the replacements never miss their
\* place, though each changes the length of the text.
ApartRedacted ==
  \A j \in Jobs :
    Scanned(j) /\ (\A m, n \in Recognised(j) : m = n \/ Apart(m, n)) =>
      Visible(result[j].shown) = Reference(text[j], Recognised(j))

\* The characters of m that the longer masks of matches inside it push out of
\* reach of its own, and the last four before them.
Pushed(t, ms, m) ==
  LET inner == {n \in ms \ {m} : Cover(n) \subseteq Cover(m)}
      shift == FoldSet(LAMBDA n, d : d + Grows(t, n), 0, inner)
  IN  IF shift = 0 THEN {} ELSE {i \in Cover(m) : i > m.end - shift - 4}

\* Where recognised values overlap, some of them leak (NothingLeaks); this
\* bounds what: of a value that is replaced, the last characters that longer
\* masks inside it push out of reach; of one that is dropped, what lies in no
\* value that is replaced.
OverlapBounded ==
  \A j \in Jobs :
    Scanned(j) => Visible(result[j].shown) \subseteq
                    Reference(text[j], Used(j)) \cup UNION {Pushed(text[j], Used(j), m) : m \in Used(j)}

\* A text under the name of a secret is masked as a whole, by the gateway when
\* its patterns recognise nothing in it.  Of a short one the mask repeats all.
SensitiveMasked ==
  \A j \in Jobs :
    (result[j] # Idle /\ text[j].key # "none"
       /\ (result[j].by = "service" \/ Detected(text[j]) = {})) =>
      Visible(result[j].shown) \subseteq SecretShows(text[j])

\* What the tool sees of the parameters, whichever side redacted: nothing of a
\* value that overlaps no other, or of a named secret, but what its mask
\* repeats, and a bounded part of values that do overlap.
LeakBounded == ApartRedacted /\ OverlapBounded /\ SensitiveMasked

\* "PII is redacted before passing outbound": no character of a recognised value
\* reaches the tool but those a mask repeats.
NothingLeaks ==
  \A j \in Jobs :
    Scanned(j) =>
      Visible(result[j].shown) \cap UNION {Cover(m) : m \in Recognised(j)}
        \subseteq UNION {Repeated(text[j], m) : m \in Recognised(j)}

\* A worker whose connection was closed without an answer.
Hung(p) == job[p] # "none" /\ promise[p] = Pending /\ ~Live(p)

\* Every request is redacted by somebody, whatever the service does short of
\* that: refuse, reset, fail, answer late or never.
Stuck(j) == (\E p \in Pods : Hung(p) /\ job[p] = j) \/ (\A p \in Pods : Hung(p))
RedactedUnlessHung == <>(\A j \in Jobs : result[j] # Idle \/ Stuck(j))

\* The same without exception: requests are not blocked by the service.
AllRedacted == <>(\A j \in Jobs : result[j] # Idle)

=============================================================================
