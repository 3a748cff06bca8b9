-------------------------------- MODULE MCPii --------------------------------
(***************************************************************************)
(* Small instances of PiiClient for TLC: one request with any of the texts *)
(* below, and others with a plain one.  Lengths are the real ones.         *)
(***************************************************************************)
EXTENDS PiiClient

CONSTANTS p1, j1, j2

Longest == 30

\* What occurs in a text, at some of the places it fits.
Lengths == [SSN |-> {11}, CREDIT_CARD |-> {16}, EMAIL |-> {14}, PHONE |-> {10, 12},
            ADDRESS |-> {22}, BANK_ACCOUNT |-> {8}, PERSON |-> {10}]
Places == {0, 1, 3, 8, 16}
Candidates ==
  {[type |-> type, start |-> s, end |-> s + l] :
     type \in DOMAIN Lengths, s \in Places, l \in UNION {Lengths[type] : type \in DOMAIN Lengths}}
Matches == {m \in Candidates : m.end - m.start \in Lengths[m.type] /\ m.end <= Longest}

\* Matches of one pattern never overlap; those of two patterns do where digits
\* stand inside an address or an e-mail address, or where one begins in them.
Inside(m, n) == Cover(m) \subseteq Cover(n)
                /\ m.type \in {"SSN", "CREDIT_CARD", "PHONE", "BANK_ACCOUNT"} /\ n.type \in {"ADDRESS", "EMAIL"}
Occur(m, n) == Apart(m, n) \/ Inside(m, n) \/ Inside(n, m)

\* Entities of different types may overlap in any way.
Entangled(m, n) == m.type # n.type /\ m.start # n.start

Groups(S, Together(_, _)) ==
  {G \in {{m, n} : m \in S, n \in S} : \A m, n \in G : m = n \/ (m.type # n.type /\ Together(m, n))}

Text(length, key, found, entities) ==
  [length |-> length, key |-> key, found |-> found, entities |-> entities,
   at |-> LET emails == {m \in found \cup entities : m.type = "EMAIL"}
          IN  IF emails = {} THEN 0 ELSE (CHOOSE m \in emails : TRUE).start + 4]

\* Two telephone numbers inside an address.
Crowded == {[type |-> "ADDRESS", start |-> 0, end |-> 30], [type |-> "PHONE", start |-> 3, end |-> 13],
            [type |-> "PHONE", start |-> 14, end |-> 24]}

\* A telephone number inside an e-mail address inside an address.
Chain ==
  LET ms == {[type |-> "ADDRESS", start |-> 0, end |-> 28], [type |-> "EMAIL", start |-> 4, end |-> 20],
             [type |-> "PHONE", start |-> 5, end |-> 15]}
  IN  [length |-> Longest, key |-> "none", at |-> 16, found |-> ms, entities |-> ms]

\* Two account numbers in an e-mail address: their masks push its domain out of
\* reach of its own.
Nested ==
  LET ms == {[type |-> "EMAIL", start |-> 0, end |-> 24], [type |-> "BANK_ACCOUNT", start |-> 2, end |-> 10],
             [type |-> "BANK_ACCOUNT", start |-> 11, end |-> 19]}
  IN  [length |-> Longest, key |-> "none", at |-> 20, found |-> ms, entities |-> ms]

\* No e-mail address by the patterns, under the name of one: "@" first, inside, last.
Addressed(at) == [length |-> 9, key |-> "EMAIL", at |-> at, found |-> {}, entities |-> {}]

\* A person and the street of that name: "John Smith Street".
Street == Text(17, "none", {}, {[type |-> "PERSON", start |-> 0, end |-> 10],
                                [type |-> "ADDRESS", start |-> 5, end |-> 17]})

Plain == Text(5, "none", {}, {})
Texts ==
  {Text(Longest, "none", G, G) : G \in Groups({m \in Matches : m.type # "PERSON"}, Occur) \cup {Crowded}}
  \cup {Text(Longest, "none", {m \in G : m.type # "PERSON"}, G) : G \in Groups(Matches, Entangled)}
  \cup {Chain, Nested} \cup {Addressed(at) : at \in {1, 4, 9}}
  \cup {Text(length, key, {}, {}) : length \in {3, 9, 20}, key \in DOMAIN Lengths \ {"PERSON"}}
  \cup {Text(12, "SSN", {m}, {m}) : m \in {m \in Matches : m.end <= 12}}

\* Any text for one request, a plain one for the others.
AnyForOne == [j \in Jobs |-> IF j = j1 THEN Texts ELSE {Plain}]
StreetForOne == [j \in Jobs |-> IF j = j1 THEN {Street} ELSE {Plain}]
PlainOnes == [j \in Jobs |-> {Plain}]

=============================================================================
