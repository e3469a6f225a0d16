--------------------------- MODULE MCSignalAlerts ---------------------------
(***************************************************************************)
(* Instances of SignalAlerts for TLC: one metric, a rule on its change,    *)
(* three consecutive days.                                                 *)
(***************************************************************************)
EXTENDS SignalAlerts

CONSTANTS fall, e1, p1

MCKindOf == [k \in {fall} |-> "relative"]
MCOperatorOf == [k \in {fall} |-> "lt"]
MCMetricOf == [k \in {fall} |-> "customers"]

\* A fall by more than half.
Half == {-50}

\* Days one after the other, out of order and measured again.
Days == {<<0, 2>>, <<2, 4>>, <<4, 6>>}

\* Zero is no baseline of a relative change.
ZeroOne == [{"customers"} -> {0, 1}]
=============================================================================
