---------------------------- MODULE MCAutomation ----------------------------
(* Instances of AutomationRuns for TLC: a chain of three steps, of which the
   second is gated and the third may be an item of a fan-out. *)
EXTENDS AutomationProperties

\* The first step may be attempted twice.
OneRetry == [s \in Step |-> IF s = 1 THEN 2 ELSE 1]
First == {1}
Second == {2}
Third == {3}
Later == {2, 3}
Nothing == {}
=============================================================================
