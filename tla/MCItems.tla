------------------------------ MODULE MCItems -------------------------------
(* Items with two containers, three stacks of arrows and one of spears, which   *)
(* is heavier and fits a hand too.  The stacks of arrows are interchangeable.   *)
EXTENDS Items, TLC

CONSTANTS a1, a2, a3

Arrows  == {a1, a2, a3}
MCItemsSet == {"bag", "pouch", "spear"} \cup Arrows
MCkind == [i \in MCItemsSet |-> IF i \in Arrows THEN "arrow" ELSE i]
MCcapacity == [b \in {"bag", "pouch"} |-> 2]
MCweight == [i \in MCItemsSet |-> IF i = "spear" THEN 4 ELSE 1]
MCfits == [i \in MCItemsSet |->
             CASE i \in {"bag", "pouch"} -> {"backpack"} [] i = "spear" -> {"left", "ammo"} [] OTHER -> {"ammo"}]
Symmetry == Permutations(Arrows)
=============================================================================
