------------------------------ MODULE Mirrors -------------------------------
(***************************************************************************)
(* What mirror creation promises to everybody who downloads: a mirror that *)
(* is there stays, complete; new ones only ever join it.                   *)
(***************************************************************************)
CONSTANT Mirror          \* the mirrors there can be

VARIABLE mirrored        \* those that can be downloaded from

Init == mirrored \in SUBSET Mirror

Publish(new) == new # {} /\ new \cap mirrored = {} /\ mirrored' = mirrored \cup new

Next == \E new \in SUBSET Mirror : Publish(new)
Spec == Init /\ [][Next]_mirrored
=============================================================================
