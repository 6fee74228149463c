--------------------------- MODULE MCStormCharge ---------------------------
(* Instances of StormCharge small enough for TLC: two slot words instead of *)
(* six (a first and a last word tell the write orders apart), and owners    *)
(* whose every register differs from the storm settings.                    *)
EXTENDS StormCharge

MCVal      == 0 .. 2
MCStorm    == [i \in 1 .. 2 |-> 1]
MCRequests == {[targetSoc |-> 2, maxCurrent |-> 2]}

\* slot words, enable word, current, cutoff SOC
OwnerOff == [r \in 1 .. 5 |-> CASE r <= 2 -> 2 [] r = 3 -> 0 [] OTHER -> 1]
OwnerOn  == [OwnerOff EXCEPT ![3] = 1]

MCOff    == {OwnerOff}
MCOffOn  == {OwnerOff, OwnerOn}

\* A slot word changed at the panel.
NoEdits   == {}
SlotEdits == {<<1, 0>>}
=============================================================================
