---------------------------- MODULE ModbusAtomic ----------------------------
(***************************************************************************)
(* The Modbus service, shown to do what RegisterBus promises.  A write     *)
(* reaches the inverter some transfers before its caller is answered; the  *)
(* history variable `before' is what its register held until then.         *)
(***************************************************************************)
EXTENDS ModbusService

VARIABLE before

atomicVars == <<vars, before>>

\* A word was sent, and its caller is not answered yet.
Sent == pc \in {"verify", "readback"} /\ Op.kind # "readWords"

AtomicInit == Init /\ before = 0

AtomicNext ==
    /\ Next
    /\ before' = IF pc' \notin {"verify", "readback"} THEN 0
                 ELSE IF pc = "send" THEN inv[Op.reg] ELSE before

AtomicSpec == AtomicInit /\ [][AtomicNext]_atomicVars

FairAtomicSpec == AtomicSpec /\ Fairness

Regs  == IF Sent THEN [inv EXCEPT ![Op.reg] = before] ELSE inv
Link  == status \in {"connected", "degraded"}
Asked == UNION {l.writes: l \in Loads}

Bus == INSTANCE RegisterBus
    WITH Contents <- Initial, regs <- Regs, link <- Link, result <- last

\* However callers, polls, reconnections and lost answers interleave, a write
\* takes effect as if in one step when it returns, with one of the outcomes
\* that the storm charge manager reckons with, and is reported as done only if
\* it is; no poll undoes a newer word in the store, and nothing is written that
\* nobody asked for (service.go:51-240, 437-543).
WritesAreAtomic == Bus!Spec
=============================================================================
