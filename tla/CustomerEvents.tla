--------------------------- MODULE CustomerEvents ---------------------------
(***************************************************************************)
(* Canonical customer events (domain/models.py) and the words the analysis *)
(* knows by name.  A text is a number, in the order of the texts; an event *)
(* is                                                                      *)
(*   [id, evidence, source, at, customer, identities,                      *)
(*    type, action, topic, outcome, values]                                *)
(* with values by the name of the dimension or measure.                    *)
(***************************************************************************)
EXTENDS Integers, SequencesExt

\* Event types, actions and outcomes.
Search == 1
Feedback == 2
Voc == 3
RepeatSearch == 4
Contact == 5
Started == 6
Completed == 7
Failed == 8
Negative == 9
Unresolved == 10
Other == 11
\* The topic of signing up; every other topic is larger.
Signup == 20

\* The order every list of events is brought into.
Earlier(a, b) == a.at < b.at \/ (a.at = b.at /\ a.id < b.id)

Chronological(events) == \A i \in 1..(Len(events) - 1) : Earlier(events[i], events[i + 1])

InOrder(events) == SetToSortSeq(events, Earlier)

OfCustomer(events, c) == SelectSeq(events, LAMBDA e : e.customer = c)

CustomersOf(events) == {events[i].customer : i \in DOMAIN events}

Ascending(S) == SetToSortSeq(S, <)

Smallest(S) == CHOOSE x \in S : \A y \in S : x <= y
Largest(S) == CHOOSE x \in S : \A y \in S : x >= y
Lower(a, b) == IF a < b THEN a ELSE b

\* The first n of a list.
Upto(list, n) == SubSeq(list, 1, Lower(n, Len(list)))
=============================================================================
