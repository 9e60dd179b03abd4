-------------------------- MODULE MaterialsLifecycle --------------------------
(* What a prove session promises of the materials of each call: they are   *)
(* held by the session at most once, one call at a time; a newer call or a *)
(* failed prove loses them for good; and they are proved at most once.     *)
CONSTANT Calls

VARIABLE life   \* where each call's materials are

Init == life = [k \in Calls |-> "none"]

(* Call k completes: the session holds its materials and no others.        *)
Hold(k) ==
  /\ life[k] = "none"
  /\ life' = [j \in Calls |->
       IF j = k THEN "held" ELSE IF life[j] = "held" THEN "lost" ELSE life[j]]

Move(k, from, to) == life[k] = from /\ life' = [life EXCEPT ![k] = to]

Next == \E k \in Calls :
  \/ Hold(k)
  \/ Move(k, "held", "taken")
  \/ Move(k, "taken", "proved")
  \/ Move(k, "taken", "lost")

Spec == Init /\ [][Next]_life
===============================================================================
