----------------------------- MODULE MCContext -----------------------------
(* Instances of ConversationContext for TLC.                                 *)
EXTENDS ConversationContext
CONSTANTS a, b

Both == {a, b}
Whole == Read("f", 1, 2)
Part  == Read("f", 1, 1)
(* Rereads of the whole file, of a part, a part beside a write.              *)
Batches == {<<Whole>>, <<Part, Write("f")>>}
(* One long conversation and one that is just opened.                        *)
Lengths == [c \in Both |-> IF c = a THEN 8 ELSE 1]
Short   == [c \in Both |-> 4]
NoBatch == {}
=============================================================================
