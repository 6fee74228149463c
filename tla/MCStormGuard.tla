---------------------------- MODULE MCStormGuard ----------------------------
(* Two users beside the manager: enough for a write or a configuration      *)
(* change to overlap a start, and for two starts to race.                   *)
EXTENDS StormGuard, TLC

GVal      == 0 .. 2
GStorm    == [i \in 1 .. 1 |-> 1]
GRequests == {[targetSoc |-> 2, maxCurrent |-> 2]}

\* One slot word, enable word, current, cutoff SOC.
GOwner    == {[r \in 1 .. 4 |-> CASE r = 1 -> 2 [] r = 2 -> 0 [] OTHER -> 1]}

SlotEdit    == {<<1, 0>>}
CurrentEdit == {<<3, 0>>}

UserSymmetry == Permutations(Users)
=============================================================================
