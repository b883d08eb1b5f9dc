--------------------------- MODULE MCTaskJournal ---------------------------
(* Instances of the task journal for TLC. *)
EXTENDS TaskJournal, TLC

CONSTANTS a, b

Pair == {a, b}
PairSymmetry == Permutations(Pair)
AllFaults == {"write", "rotate", "open"}
WholeChars == {"Fragment"}
HalfChars == {"Fragment", "SplitChar"}
============================================================================
