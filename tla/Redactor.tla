------------------------------- MODULE Redactor -------------------------------
(***************************************************************************)
(* How a string parameter is masked: by PiiRedactor in the gateway, and by *)
(* the PII service.  A text is the sequence of its characters, a character *)
(* is the position it had in the original, and Hidden is one of a mask.    *)
(* What the patterns and the analyzer recognise are attributes of a text:  *)
(*   length, key: the type its key name stands for or "none", at: where    *)
(*   its "@" is or 0, found: the matches of the patterns, entities: those  *)
(*   of the analyzer.  A match covers the positions start + 1 .. end.      *)
(***************************************************************************)
EXTENDS Integers, Sequences, FiniteSetsExt

Hidden == 0
Pad(n) == [i \in 1..n |-> Hidden]
Last4(v) == SubSeq(v, IF Len(v) > 4 THEN Len(v) - 3 ELSE 1, Len(v))

\* getMask(), get_mask(): "XXX-XX-" and the last four, "X***@" and the domain.
\* A card number keeps the last four digits: of one that ends with four digits
\* in a row these are its last four characters, and other ones are left out.
Mask(type, v, at) ==
  CASE type = "SSN"          -> Pad(7) \o Last4(v)
    [] type = "CREDIT_CARD"  -> Pad(15) \o Last4(v)
    [] type = "BANK_ACCOUNT" -> Pad(6) \o Last4(v)
    [] type = "PHONE"        -> Pad(8) \o Last4(v)
    [] type = "ADDRESS"      -> Pad(18)
    [] type = "PERSON"       -> Pad(15)
    [] type = "EMAIL"        -> LET split == {i \in 2..Len(v) - 1 : v[i] = at}
                                IN  IF split = {} THEN Pad(16)
                                    ELSE LET i == CHOOSE i \in split : TRUE
                                         IN  <<v[1]>> \o Pad(4) \o SubSeq(v, i + 1, Len(v))

\* get_mask() of an e-mail address that ends with its "@" keeps the first
\* character all the same.
ServiceMask(type, v, at) ==
  IF type = "EMAIL" /\ Len(v) > 1 /\ v[Len(v)] = at /\ v[1] # at
  THEN <<v[1]>> \o Pad(4)
  ELSE Mask(type, v, at)

\* The patterns in the order detect() tries them.
Patterns == <<"SSN", "CREDIT_CARD", "EMAIL", "PHONE", "ADDRESS", "BANK_ACCOUNT", "PERSON">>

\* What is recognised lies in the text, an e-mail address around its "@", and
\* two matches differ in their place or in their type.
Recognisable(text) ==
  /\ text.length \in Nat /\ text.at \in Nat
  /\ text.key \in {"none", "SSN", "CREDIT_CARD", "BANK_ACCOUNT", "ADDRESS", "EMAIL", "PHONE"}
  /\ \A ms \in {text.found, text.entities} :
       /\ IsFiniteSet(ms)
       /\ \A m \in ms :
            /\ m.type \in {Patterns[i] : i \in DOMAIN Patterns}
            /\ m.start \in Nat /\ m.end \in m.start + 1..text.length
            /\ m.type = "EMAIL" => text.at \in m.start + 2..m.end - 1
       /\ \A m, n \in ms : m = n \/ m.start # n.start \/ m.type # n.type

Whole(text) == [i \in 1..text.length |-> i]
Value(m) == SubSeq([i \in 1..m.end |-> i], m.start + 1, m.end)
Cover(m) == (m.start + 1)..m.end
Apart(m, n) == Cover(m) \cap Cover(n) = {}

Order(type) == CHOOSE i \in DOMAIN Patterns : Patterns[i] = type

\* Variant: matches are replaced from the start of the text to its end.
RightmostOf(ms) == CHOOSE m \in ms : \A n \in ms : n.start <= m.start

\* Matches are sorted by start, descending and stable: the one that comes last.
LastOf(ms) ==
  CHOOSE m \in ms : \A n \in ms \ {m} :
    m.start < n.start \/ (m.start = n.start /\ Order(n.type) < Order(m.type))

\* What a loop over the sorted matches makes of base.
InTurn(step(_, _), base, ms) ==
  MapThenFoldSet(LAMBDA m, v : step(v, m), base, LAMBDA m : m, LAMBDA rest : LastOf(rest), ms)

Splice(v, m, mask) == SubSeq(v, 1, m.start) \o mask \o SubSeq(v, m.end + 1, Len(v))

\* Its start or its end lies in n.
Overlaps(m, n) == m.start \in n.start..n.end - 1 \/ m.end \in n.start + 1..n.end

-----------------------------------------------------------------------------
(* The gateway *)

\* detect(): digits that belong to something else are no account number.
Detected(text) ==
  {m \in text.found : m.type = "BANK_ACCOUNT" =>
                        \A n \in text.found \ {m} : n.type # "BANK_ACCOUNT" => ~Overlaps(m, n)}

\* redactString(): each match by its original text, at its original place.
RedactString(text) ==
  InTurn(LAMBDA v, m : Splice(v, m, Mask(m.type, Value(m), text.at)),
         Whole(text), Detected(text))

\* redactParametersLocal(): the key counts when nothing was recognised.
Local(text) ==
  IF Detected(text) = {} /\ text.key # "none"
  THEN Mask(text.key, Whole(text), text.at)
  ELSE RedactString(text)

-----------------------------------------------------------------------------
(* The service *)

\* An entity that overlaps one that is kept is dropped.  Of entities that start
\* together the analyzer lists any first; here it is the later pattern's.
Kept(text) ==
  InTurn(LAMBDA kept, m : IF \E n \in kept : Overlaps(m, n) THEN kept ELSE kept \cup {m},
         {}, text.entities)

Now(v, m) == SubSeq(v, m.start + 1, IF m.end < Len(v) THEN m.end ELSE Len(v))

\* redact_string(): masks what the text has at that place by now.
RedactEntities(text) ==
  InTurn(LAMBDA v, m : Splice(v, m, ServiceMask(m.type, Now(v, m), text.at)),
         Whole(text), Kept(text))

\* redact_value(): the key counts first.
Service(text) ==
  IF text.key # "none" THEN ServiceMask(text.key, Whole(text), text.at) ELSE RedactEntities(text)

-----------------------------------------------------------------------------
(* What a result may show *)

Visible(v) == {v[i] : i \in DOMAIN v} \ {Hidden}

\* The characters a mask repeats.
Repeated(text, m) == Visible(Mask(m.type, Value(m), text.at))

\* How much longer its mask may be than m.  That of an e-mail address with
\* other masks in it may begin earlier, or miss the "@".
Grows(text, m) ==
  LET size == m.end - m.start
      d == IF m.type = "EMAIL" THEN IF size > 13 THEN 3 ELSE 16 - size
           ELSE Len(Mask(m.type, Value(m), text.at)) - size
  IN  IF d > 0 THEN d ELSE 0

\* What a secret called by its name may show: its last four characters, the
\* domain and the first character of an e-mail address, nothing of an address.
SecretShows(text) ==
  CASE text.key = "ADDRESS" -> {}
    [] text.key = "EMAIL"   -> IF text.at \in 2..text.length
                               THEN {i \in 1..text.length : i = 1 \/ i > text.at} ELSE {}
    [] OTHER                -> {i \in 1..text.length : i > text.length - 4}

Reference(text, ms) ==
  ((1..text.length) \ UNION {Cover(m) : m \in ms}) \cup UNION {Repeated(text, m) : m \in ms}

===============================================================================
