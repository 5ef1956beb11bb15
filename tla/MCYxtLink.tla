---------------------------- MODULE MCYxtLink ----------------------------
(* Instances of YxtLink for TLC: calls c1 and c2 belong to lines 1 and 2,  *)
(* c3 is made by the dwhook of event e1, which is addressed to line 1.     *)
EXTENDS YxtLink, TLC

CONSTANTS c1, c2, c3, e1, e2

MCLines == {1, 2}
LineTable == (c1 :> 1 @@ c2 :> 2 @@ c3 :> 1 @@ e1 :> 1 @@ e2 :> 2)
MCLinesOf == [i \in Calls \cup Events |-> LineTable[i]]
MCHook == [e \in Events |-> IF e = e1 /\ c3 \in Calls THEN c3 ELSE Nil]
\* Numbers in the order the calls are made; the table has room for all of them
\* or, in the runs about collisions, for one.
MCNumber == [c \in Calls |-> IF c = c1 THEN 1 ELSE IF c = c2 THEN 2 ELSE 3]

=============================================================================
