------------------------------ MODULE UndoLog ------------------------------
(***************************************************************************)
(* What a storm charge session promises the owner of the inverter, without *)
(* the manager, the runtime file, the Modbus link or crashes.              *)
(*                                                                         *)
(* The inverter is a set of registers.  Its owner edits them while no      *)
(* session is open.  A session first logs the registers as they are, and   *)
(* only then changes them, one at a time.  Once it is being undone it only *)
(* ever puts logged values back, and the log is thrown away only when every *)
(* register holds its logged value again.                                  *)
(***************************************************************************)

CONSTANTS Registers,  \* the registers a session may change
          Values,     \* what a register can hold
          NoLog       \* not in [Registers -> Values]: no session is open

VARIABLES regs,     \* what the inverter holds
          log,      \* the values to give back, or NoLog
          undoing   \* the session only gives values back

vars == <<regs, log, undoing>>

Init ==
    /\ regs \in [Registers -> Values]
    /\ log = NoLog
    /\ undoing = FALSE

\* The owner changes the inverter between two sessions.
Edit ==
    /\ log = NoLog
    /\ \E r \in Registers, v \in Values: regs' = [regs EXCEPT ![r] = v]
    /\ UNCHANGED <<log, undoing>>

Begin ==
    /\ log = NoLog
    /\ log' = regs
    /\ UNCHANGED <<regs, undoing>>

Write ==
    /\ log # NoLog
    /\ \E r \in Registers:
         \E v \in IF undoing THEN {log[r]} ELSE Values:
            regs' = [regs EXCEPT ![r] = v]
    /\ UNCHANGED <<log, undoing>>

\* From here on the session can only end.
Abort ==
    /\ log # NoLog
    /\ undoing' = TRUE
    /\ UNCHANGED <<regs, log>>

Close ==
    /\ log # NoLog
    /\ regs = log
    /\ log' = NoLog
    /\ undoing' = FALSE
    /\ UNCHANGED regs

Next == Edit \/ Begin \/ Write \/ Abort \/ Close

Spec == Init /\ [][Next]_vars
=============================================================================
