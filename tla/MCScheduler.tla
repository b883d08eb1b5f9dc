---------------------------- MODULE MCScheduler ----------------------------
(* Instances of the scheduler for TLC: which tasks there are, and how they  *)
(* depend on each other.                                                    *)
EXTENDS SchedulerProperties, TLC

CONSTANTS a, b, c

Pair == {a, b}
Trio == {a, b, c}

\* One resource class for all, with one permit.
OneClass == {"tool"}
PairClass == [t \in Pair |-> "tool"]
TrioClass == [t \in Trio |-> "tool"]
OnePermit == [k \in OneClass |-> 1]

\* Two classes: a and b share one, c has the other.
TwoClasses == {"agent", "tool"}
SplitClass == [t \in Trio |-> IF t = c THEN "agent" ELSE "tool"]
OneOfEach == [k \in TwoClasses |-> 1]

PairFlat == [t \in Pair |-> 1]
TrioFlat == [t \in Trio |-> 1]
\* a is what the user waits for, b and c are background work.
TrioMixed == a :> 1 @@ b :> 0 @@ c :> 0

PairNoParent == [t \in Pair |-> NoTask]
TrioNoParent == [t \in Trio |-> NoTask]
PairTree == a :> NoTask @@ b :> a
\* b is a child of a, and c of b.
TrioTree == a :> NoTask @@ b :> a @@ c :> b

PairNoDeps == [t \in Pair |-> {}]
TrioNoDeps == [t \in Trio |-> {}]
PairChain == a :> {} @@ b :> {a}
\* b waits for a, and c for both.
TrioChain == a :> {} @@ b :> {a} @@ c :> {a, b}

PairRetryA == a :> 3 @@ b :> 1
TrioRetryA == a :> 2 @@ b :> 1 @@ c :> 1

Nobody == {}
OnlyA == {a}
OnlyB == {b}
============================================================================
