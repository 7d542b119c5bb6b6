-------------------------- MODULE ReferenceValues --------------------------
(***************************************************************************)
(* What a reference value store promises: a map from names to values that  *)
(* changes one name at a time.  The whole map may be lost, and then it     *)
(* stays lost.                                                             *)
(***************************************************************************)
CONSTANTS Name, Val, NoVal, Lost

VARIABLE store

vars == store

Empty == [n \in Name |-> NoVal]

Init == store = Empty

Put(n, v) ==
    /\ store # Lost
    /\ store' = [store EXCEPT ![n] = v]

Lose == store' = Lost

Next ==
    \/ \E n \in Name, v \in Val : Put(n, v)
    \/ Lose

Spec == Init /\ [][Next]_vars
====
