---------------------------- MODULE RegisterBus ----------------------------
(***************************************************************************)
(* What the Modbus service promises those who write registers through it,  *)
(* without callers, locks, connections, retries and read plans.            *)
(*                                                                         *)
(* A write is one step with one of a few outcomes, and its caller is told  *)
(* that it is done in one of them only.  A poll refreshes some of the      *)
(* cached words.  Nothing is written that nobody asked for.                *)
(***************************************************************************)

CONSTANTS Cached,     \* registers with a word in the store
          Blocks,     \* registers that are written as words of a block
          WriteOnly,  \* registers that cannot be read back
          Contents,   \* what the inverter may hold at the start
          NoVal,      \* nothing cached
          Asked,      \* <<register, word>> writes that are asked for
          Adjusted    \* <<register, word, word>>: the inverter stores another

VARIABLES regs,     \* what the inverter holds
          cache,    \* what the store holds
          link,     \* the inverter is reported as connected
          result    \* what the last write was answered

vars == <<regs, cache, link, result>>

NotDone    == [ok |-> FALSE]
Done(r, v) == [ok |-> TRUE, reg |-> r, val |-> v]

Init ==
    /\ regs \in Contents
    /\ cache = [r \in Cached |-> NoVal]
    /\ link = FALSE
    /\ result = NotDone

\* What a register may hold after it took a word.
Stored(r, v) == {v} \cup {a[3]: a \in {x \in Adjusted: x[1] = r /\ x[2] = v}}

SetCache(r, v) ==
    cache' = IF r \in Cached THEN [cache EXCEPT ![r] = v] ELSE cache

\* The word is in the inverter, unless that cannot be looked up, and in the
\* store.
WriteSucceeds(r, v) ==
    /\ \E held \in IF r \in WriteOnly THEN Stored(r, v) ELSE {v}:
         regs' = [regs EXCEPT ![r] = held]
    /\ SetCache(r, v)
    /\ link' = TRUE

\* Refused, or the link is reported lost, with the word in the inverter or
\* not and the store left alone, ahead of the inverter or in step with it.
WriteRegisterFails(r, v) ==
    \/ UNCHANGED <<regs, cache, link>>
    \/ \E held \in Stored(r, v) \cup {regs[r]}:
         /\ regs' = [regs EXCEPT ![r] = held]
         /\ \/ UNCHANGED cache
            \/ \E seen \in {v, held}: SetCache(r, seen)
         /\ link' = FALSE

\* A block has no words in the store, and its loss may go unreported.
WriteHoldingFails(r, v) ==
    /\ \E held \in Stored(r, v) \cup {regs[r]}: regs' = [regs EXCEPT ![r] = held]
    /\ link' \in {link, FALSE}
    /\ UNCHANGED cache

Write(r, v) ==
    \/ WriteSucceeds(r, v) /\ result' = Done(r, v)
    \/ /\ IF r \in Blocks THEN WriteHoldingFails(r, v)
                          ELSE WriteRegisterFails(r, v)
       /\ result' = NotDone

\* A poll puts what it read of the inverter into the store, all at once.
Poll ==
    /\ \E read \in SUBSET Cached:
         /\ cache' = [r \in Cached |-> IF r \in read THEN regs[r] ELSE cache[r]]
         /\ link' = (read # {})
    /\ UNCHANGED <<regs, result>>

\* A read, or a service without a port, tells of the link only.
Report == link' \in BOOLEAN /\ UNCHANGED <<regs, cache, result>>

\* The next operation has begun.
Forget == result' = NotDone /\ UNCHANGED <<regs, cache, link>>

Next == (\E w \in Asked: Write(w[1], w[2])) \/ Poll \/ Report \/ Forget

Spec == Init /\ [][Next]_vars
=============================================================================
