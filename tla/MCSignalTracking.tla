-------------------------- MODULE MCSignalTracking --------------------------
(***************************************************************************)
(* Instances of SignalTracking for TLC: one signal, two scheduler threads, *)
(* a request thread, fast-forwards of one and two days.                    *)
(***************************************************************************)
EXTENDS SignalTracking

CONSTANTS s1, w1, w2, c1, ff1, ff2, reset1

\* ff1 names its signal and asks for two days, ff2 takes what is registered.
MCSelection == [q \in Requests |-> IF q = ff1 THEN {s1} ELSE {}]
MCDaysOf == [q \in Requests |-> IF q = ff1 THEN 2 ELSE 1]

\* Windows of registrations that end at midnight and off it, and single days.
FirstDay == <<0, 2>>
Partial == <<0, 3>>
SecondDay == <<2, 4>>

FirstDays == {FirstDay}
EarlyWindows == {FirstDay, Partial}
SecondDays == {SecondDay}
NoWindows == {}
=============================================================================
