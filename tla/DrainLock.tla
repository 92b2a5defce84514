----------------------------- MODULE DrainLock -----------------------------
(***************************************************************************)
(* What serialisation promises, with nothing about how: the drain is a     *)
(* lock on the cluster.  One hero holds it, over a set of nodes that it    *)
(* may extend; nodes are given back one by one, and only with the last one *)
(* does the lock become free for another hero.                             *)
(***************************************************************************)
CONSTANTS Node, Hero, None

VARIABLES
  holder,  \* the hero whose drain is in flight, or None
  held     \* the nodes it has tainted

Init == holder = None /\ held = {}

Claim(h, n) ==
  /\ holder \in {None, h} /\ n \notin held
  /\ holder' = h /\ held' = held \cup {n}

GiveBack(n) ==
  /\ n \in held
  /\ held' = held \ {n}
  /\ holder' = IF held = {n} THEN None ELSE holder

Next == \E n \in Node : GiveBack(n) \/ \E h \in Hero : Claim(h, n)

Spec == Init /\ [][Next]_<<holder, held>>
============================================================================
