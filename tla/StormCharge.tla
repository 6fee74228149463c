---------------------------- MODULE StormCharge ----------------------------
(***************************************************************************)
(* The storm charge manager (internal/stormcharge/manager.go) with the     *)
(* inverter it writes to, the runtime file it recovers from and the part   *)
(* of the state store it reads.                                            *)
(*                                                                         *)
(* A session borrows nine inverter registers (the seven words of the timed *)
(* charging schedule, the grid charge current and the charge cutoff SOC):  *)
(* it captures them, saves them, overwrites them, and gives them back when *)
(* it ends.  Every operation of the manager runs under m.mu, so at most    *)
(* one is in progress: `stage' says where it is.  A step of the model is   *)
(* one effect that outlives a crash: one save of the file, or one register *)
(* write.  The process may die between any two of them.                    *)
(***************************************************************************)
EXTENDS Integers

CONSTANTS
    SlotWords,    \* schedule words before the enable word; 6 in the code
    Val,          \* raw register values
    NoVal,        \* the store holds no value of a register yet
    StormSlots,   \* the slot words of the storm schedule (manager.go:393)
    Requests,     \* the settings users start sessions with
    InitialRegs,  \* the register contents before the first session
    PanelEdits,   \* <<register, value>> edits made at the inverter's panel
    MaxFaults     \* bound on injected faults (failed I/O, crashes)

---------------------------------------------------------------------------
(* Registers, numbered in schedule order.                                  *)

Slots      == 1 .. SlotWords
EnableReg  == SlotWords + 1   \* 0xE02C, OnTimeChargeEn
CurrentReg == SlotWords + 2   \* 0xE205, mains_charge_current_limit
CutoffReg  == SlotWords + 3   \* 0xE01D, battery_charge_cutoff_soc

Reg      == 1 .. SlotWords + 3
Schedule == 1 .. SlotWords + 1
Managed  == {CurrentReg, CutoffReg}   \* known to the store by their IDs
LastPos  == SlotWords + 3

RegVals  == [Reg -> Val]
Settings == [targetSoc: Val, maxCurrent: Val]

ASSUME SlotWordsAssumption == SlotWords \in Nat \ {0}
ASSUME ValAssumption       == {0, 1} \subseteq Val /\ NoVal \notin Val
ASSUME StormSlotsAssumption == StormSlots \in [Slots -> Val]
ASSUME RequestsAssumption  == Requests \subseteq Settings
ASSUME InitialAssumption   == InitialRegs \subseteq RegVals
ASSUME BoundsAssumption    ==
    PanelEdits \subseteq Reg \X Val /\ MaxFaults \in Nat

---------------------------------------------------------------------------
(* The runtime record.  Deadline is whether it is set; timestamps and the  *)
(* error text are left out.                                                *)

FinalPhases == {"completed", "cancelled", "timed_out", "error"}
Phases      == {"idle", "starting", "charging", "restoring"} \cup FinalPhases
Reasons     == {"", "start_failed", "persistence_failed", "manual_cancel",
                "modbus_lost", "resume_failed", "timeout", "fault",
                "grid_lost", "target_reached"}

\* A file of version 1 may lack the phase.
RuntimeFile == [version: {1, 2}, active: BOOLEAN, phase: Phases \cup {""},
                settings: Settings, previous: RegVals,
                deadline: BOOLEAN, reason: Reasons]

NoSettings == [targetSoc |-> 0, maxCurrent |-> 0]
NoCapture  == [r \in Managed |-> 0]

\* Runtime{Version: 2, Phase: PhaseIdle}: also what an absent file means.
IdleRuntime ==
    [version |-> 2, active |-> FALSE, phase |-> "idle",
     settings |-> NoSettings, previous |-> [r \in Reg |-> 0],
     deadline |-> FALSE, reason |-> ""]

OldRuntime == [IdleRuntime EXCEPT !.version = 1, !.phase = ""]

VARIABLES
    \* the process
    up, runtime, resumePending, stage, op, pos, failed, final,
    request, captured,
    \* the state store: cached registers, fast telemetry seen, Modbus status
    tele, fastSeen, link,
    \* outside the process: the runtime file, the inverter, the clock
    disk, inv, overdue,
    \* injected faults so far
    faults,
    \* history: the owner's settings; this process began the session
    original, startedHere

manager == <<up, runtime, resumePending, stage, op, pos, failed, final,
             request, captured, startedHere>>
store   == <<tele, fastSeen, link>>
vars    == <<manager, store, disk, inv, overdue, faults, original>>

Stages == {"idle", "capture", "apply", "abort", "applied", "observe",
           "restore", "finish"}
Ops    == {"none", "start", "resume", "stop", "retry"}

ManagerOK ==
    /\ up \in BOOLEAN /\ resumePending \in BOOLEAN /\ startedHere \in BOOLEAN
    /\ runtime \in RuntimeFile /\ runtime.version = 2 /\ runtime.phase # ""

OperationOK ==
    /\ stage \in Stages /\ op \in Ops /\ pos \in 1 .. LastPos + 1
    /\ failed \in BOOLEAN /\ final \in Phases
    /\ request \in Settings /\ captured \in [Managed -> Val]

StoreOK ==
    /\ tele \in [Managed -> Val \cup {NoVal}]
    /\ fastSeen \in BOOLEAN /\ link \in BOOLEAN

WorldOK ==
    /\ disk \in RuntimeFile /\ inv \in RegVals /\ overdue \in BOOLEAN
    /\ faults \in 0 .. MaxFaults /\ original \in RegVals

TypeOK == ManagerOK /\ OperationOK /\ StoreOK /\ WorldOK

Init ==
    /\ up = FALSE /\ runtime = IdleRuntime /\ resumePending = FALSE
    /\ stage = "idle" /\ op = "none" /\ pos = 1 /\ failed = FALSE
    /\ final = "idle" /\ request = NoSettings /\ captured = NoCapture
    /\ tele = [r \in Managed |-> NoVal] /\ fastSeen = FALSE /\ link = FALSE
    /\ disk \in {IdleRuntime, OldRuntime}
    /\ inv \in InitialRegs /\ original = inv
    /\ overdue = FALSE /\ faults = 0 /\ startedHere = FALSE

---------------------------------------------------------------------------
(* Helpers shared by the operations.                                       *)

Fault   == faults < MaxFaults /\ faults' = faults + 1
NoFault == faults' = faults

\* _ = m.saveLocked(): the new content replaces the file whole, or an error
\* that nobody looks at leaves the old one.
SaveIgnored(rt) ==
    \/ disk' = rt /\ NoFault
    \/ disk' = disk /\ Fault

\* The operation returns and m.mu is free again.
Release ==
    /\ stage' = "idle" /\ op' = "none" /\ pos' = 1 /\ failed' = FALSE
    /\ final' = "idle" /\ request' = NoSettings /\ captured' = NoCapture

\* The registers a session with these settings wants.
StormRegs(s) ==
    [r \in Reg |-> CASE r \in Slots    -> StormSlots[r]
                     [] r = EnableReg  -> 1
                     [] r = CurrentReg -> s.maxCurrent
                     [] r = CutoffReg  -> s.targetSoc]

\* Mutant: the slot words first, whether the schedule is on or off.
SlotsFirst(enable, i) == i

\* Which register is written i-th by writeTimedChargeSchedule: a schedule
\* that is off is switched off first, one that is on is switched on last.
ScheduleReg(enable, i) ==
    IF enable = 0 THEN IF i = 1 THEN EnableReg ELSE i - 1 ELSE i

\* Mutant: the current is left out.
ApplyRegNoCurrent(i) ==
    IF i <= 2 THEN CutoffReg ELSE ScheduleReg(1, i - 2)

\* applyStormSettingsLocked: cutoff SOC, current, then the schedule, on.
ApplyReg(i) ==
    CASE i = 1 -> CutoffReg
      [] i = 2 -> CurrentReg
      [] OTHER -> ScheduleReg(1, i - 2)

\* Mutant: the cutoff SOC is not given back.
RestoreRegNoCutoff(prev, i) ==
    IF i <= SlotWords + 1 THEN ScheduleReg(prev[EnableReg], i) ELSE CurrentReg

\* Mutant: an incomplete schedule is given back.
RestoreRegNoEnable(prev, i) == IF i <= SlotWords + 1 THEN 1 ELSE i

\* restoreLocked: the schedule, then current and cutoff SOC.
RestoreReg(prev, i) ==
    IF i <= SlotWords + 1 THEN ScheduleReg(prev[EnableReg], i) ELSE i

FinalPhaseForReason(reason) ==
    CASE reason = "target_reached"                 -> "completed"
      [] reason = "timeout"                        -> "timed_out"
      [] reason \in {"manual_cancel", "grid_lost"} -> "cancelled"
      [] OTHER                                     -> "error"

\* A register write that is confirmed by reading it back.  Only registers
\* known to the store have a cached value to refresh.
WriteSucceeds(r, v) ==
    /\ inv' = [inv EXCEPT ![r] = v]
    /\ tele' = IF r \in Managed THEN [tele EXCEPT ![r] = v] ELSE tele
    /\ link' = TRUE
    /\ UNCHANGED fastSeen

\* modbus.WriteRegister fails: refused before the bus is touched, or the
\* link is reported lost with the write done or not and the cache holding
\* the old value, the optimistic one or what was read back.
WriteRegisterFails(r, v) ==
    \/ UNCHANGED <<inv, tele, link>>
    \/ \E held \in {inv[r], v}: \E seen \in {tele[r], v, held}:
         /\ inv' = [inv EXCEPT ![r] = held]
         /\ tele' = [tele EXCEPT ![r] = seen]
         /\ link' = FALSE

\* modbus.WriteHoldingWords fails: no cache, and a failed readback does not
\* touch the reported status.
WriteHoldingFails(r, v) ==
    /\ \E held \in {inv[r], v}: inv' = [inv EXCEPT ![r] = held]
    /\ link' \in {link, FALSE}
    /\ UNCHANGED tele

WriteFails(r, v) ==
    /\ IF r \in Managed THEN WriteRegisterFails(r, v)
                        ELSE WriteHoldingFails(r, v)
    /\ Fault
    /\ UNCHANGED fastSeen

\* The head of restoreLocked: the intent to restore is saved, then the
\* writes begin, whether that save succeeded or not.
BeginRestore(finalPhase, reason, from) ==
    /\ runtime' = [runtime EXCEPT !.phase = "restoring", !.reason = reason]
    /\ SaveIgnored(runtime')
    /\ stage' = "restore" /\ op' = from /\ pos' = 1 /\ failed' = FALSE
    /\ final' = finalPhase

---------------------------------------------------------------------------
(* Start.                                                                  *)

\* What a snapshot says of the battery and the grid, as far as the manager
\* distinguishes it: a fault code is set, all phases and the frequency are
\* in range, SOC is at the target, the BMS allows less than requested.
Reading == [fault: BOOLEAN, grid: BOOLEAN, reached: BOOLEAN, limited: BOOLEAN]

HasRequiredTelemetry == fastSeen /\ \A r \in Managed: tele[r] # NoVal

\* Start up to and including the cached half of previousSettings.  A
\* rejected request changes nothing.
StartSnapshot ==
    /\ up /\ stage = "idle" /\ ~runtime.active
    /\ HasRequiredTelemetry
    /\ \E r \in Reading: ~r.reached /\ r.grid /\ ~r.limited
    /\ request' \in Requests
    /\ captured' = tele
    /\ stage' = "capture" /\ op' = "start"
    /\ UNCHANGED <<up, runtime, resumePending, pos, failed, final,
                   startedHere, store, disk, inv, overdue, faults, original>>

\* Mutant: a schedule captured by an earlier session is taken for current.
PreviousSettingsOnce ==
    [r \in Reg |-> IF r \in Managed THEN captured[r]
                   ELSE IF runtime.reason # "" THEN runtime.previous[r]
                   ELSE inv[r]]

\* What previousSettings returns: two cached values, the schedule read.
PreviousSettings ==
    [r \in Reg |-> IF r \in Managed THEN captured[r] ELSE inv[r]]

StartedRuntime ==
    [version |-> 2, active |-> TRUE, phase |-> "starting",
     settings |-> request, previous |-> PreviousSettings,
     deadline |-> TRUE, reason |-> ""]

\* The rest of previousSettings reads the schedule from the inverter; then
\* the session is saved before any register changes.
StartCapture ==
    /\ stage = "capture"
    /\ runtime' = StartedRuntime
    /\ disk' = runtime'
    /\ link' = TRUE
    /\ stage' = "apply" /\ pos' = 1
    /\ request' = NoSettings /\ captured' = NoCapture
    /\ overdue' = FALSE /\ startedHere' = TRUE
    /\ UNCHANGED <<up, resumePending, op, failed, final, tele, fastSeen, inv,
                   faults, original>>

\* The schedule cannot be read: Start returns the error.
StartReadFails ==
    /\ stage = "capture"
    /\ Fault
    /\ link' \in {link, FALSE}
    /\ Release
    /\ UNCHANGED <<up, runtime, resumePending, startedHere, tele, fastSeen,
                   disk, inv, overdue, original>>

\* Mutant: the error of the first save is ignored like those of the others.
StartUnsaved ==
    /\ stage = "capture"
    /\ Fault
    /\ link' = TRUE
    /\ runtime' = StartedRuntime
    /\ stage' = "apply" /\ pos' = 1
    /\ request' = NoSettings /\ captured' = NoCapture
    /\ overdue' = FALSE /\ startedHere' = TRUE
    /\ UNCHANGED <<up, resumePending, op, failed, final, tele, fastSeen, disk,
                   inv, original>>

\* The session cannot be saved: Start forgets it and returns the error.
StartSaveFails ==
    /\ stage = "capture"
    /\ Fault
    /\ link' = TRUE
    /\ runtime' = IdleRuntime
    /\ Release
    /\ UNCHANGED <<up, resumePending, startedHere, tele, fastSeen, disk, inv,
                   overdue, original>>

---------------------------------------------------------------------------
(* Applying the storm settings, for Start or for a resumed session.        *)

ApplyWrite ==
    /\ stage = "apply"
    /\ WriteSucceeds(ApplyReg(pos), StormRegs(runtime.settings)[ApplyReg(pos)])
    /\ pos' = pos + 1
    /\ stage' = IF pos = LastPos THEN "applied" ELSE "apply"
    /\ UNCHANGED <<up, runtime, resumePending, op, failed, final, request,
                   captured, startedHere, disk, overdue, faults, original>>

ApplyWriteFails ==
    /\ stage = "apply"
    /\ WriteFails(ApplyReg(pos), StormRegs(runtime.settings)[ApplyReg(pos)])
    /\ stage' = "abort"
    /\ UNCHANGED <<up, runtime, resumePending, op, pos, failed, final,
                   request, captured, startedHere, disk, overdue, original>>

\* Start gives everything back at once (its own save and the one that opens
\* restoreLocked write the same content).
AbortStart ==
    /\ stage = "abort" /\ op = "start"
    /\ BeginRestore("error", "start_failed", "stop")
    /\ UNCHANGED <<up, resumePending, request, captured, startedHere, store,
                   inv, overdue, original>>

\* A resumed session is marked; the next evaluation gives everything back.
AbortResume ==
    /\ stage = "abort" /\ op = "resume"
    /\ runtime' = [runtime EXCEPT !.phase = "restoring",
                                  !.reason = "resume_failed"]
    /\ SaveIgnored(runtime')
    /\ Release
    /\ UNCHANGED <<up, resumePending, startedHere, store, inv, overdue,
                   original>>

StartCharging ==
    /\ stage = "applied" /\ op = "start"
    /\ runtime' = [runtime EXCEPT !.phase = "charging"]
    /\ disk' = runtime'
    /\ Release
    /\ UNCHANGED <<up, resumePending, startedHere, store, inv, overdue,
                   faults, original>>

\* A session that cannot be saved as charging is given back; the save that
\* opens restoreLocked may fail as well.
StartChargingSaveFails ==
    /\ stage = "applied" /\ op = "start"
    /\ Fault
    /\ runtime' = [runtime EXCEPT !.phase = "restoring",
                                  !.reason = "persistence_failed"]
    /\ disk' \in {disk, runtime'}
    /\ stage' = "restore" /\ op' = "stop" /\ pos' = 1
    /\ final' = "error"
    /\ UNCHANGED <<up, resumePending, failed, request, captured, startedHere,
                   store, inv, overdue, original>>

ResumeCharging ==
    /\ stage = "applied" /\ op = "resume"
    /\ resumePending' = FALSE
    /\ runtime' = [runtime EXCEPT !.phase = "charging"]
    /\ SaveIgnored(runtime')
    /\ stage' = "observe" /\ pos' = 1
    /\ UNCHANGED <<up, op, failed, final, request, captured, startedHere,
                   store, inv, overdue, original>>

---------------------------------------------------------------------------
(* Giving the registers back.                                              *)

RestoreStep ==
    /\ stage = "restore"
    /\ WriteSucceeds(RestoreReg(runtime.previous, pos),
                     runtime.previous[RestoreReg(runtime.previous, pos)])
    /\ pos' = pos + 1
    /\ stage' = IF pos = LastPos THEN "finish" ELSE "restore"
    /\ UNCHANGED <<up, runtime, resumePending, op, failed, final, request,
                   captured, startedHere, disk, overdue, faults, original>>

\* The first failing word ends the schedule; the other two registers are
\* tried whatever happened before.
RestoreStepFails ==
    /\ stage = "restore"
    /\ WriteFails(RestoreReg(runtime.previous, pos),
                  runtime.previous[RestoreReg(runtime.previous, pos)])
    /\ failed' = TRUE
    /\ pos' = IF pos <= SlotWords + 1 THEN SlotWords + 2 ELSE pos + 1
    /\ stage' = IF pos = LastPos THEN "finish" ELSE "restore"
    /\ UNCHANGED <<up, runtime, resumePending, op, final, request, captured,
                   startedHere, disk, overdue, original>>

\* Something could not be given back: the session stays active, restoring.
FinishIncomplete ==
    /\ stage = "finish" /\ failed
    /\ SaveIgnored(runtime)
    /\ Release
    /\ UNCHANGED <<up, runtime, resumePending, startedHere, store, inv,
                   overdue, original>>

FinishRestore ==
    /\ stage = "finish" /\ ~failed
    /\ runtime' = [runtime EXCEPT !.active = FALSE, !.phase = final,
                                  !.deadline = FALSE]
    /\ disk' = runtime'
    /\ overdue' = FALSE
    /\ Release
    /\ UNCHANGED <<up, resumePending, startedHere, store, inv, faults,
                   original>>

\* Mutant: the phase is not put back to restoring.
FinishSaveFailsFinal ==
    /\ stage = "finish" /\ ~failed
    /\ Fault
    /\ runtime' = [runtime EXCEPT !.phase = final, !.deadline = FALSE]
    /\ disk' \in {disk} \cup (IF op = "retry" THEN {runtime'} ELSE {})
    /\ Release
    /\ UNCHANGED <<up, resumePending, startedHere, store, inv, overdue,
                   original>>

\* The end of the session cannot be saved: it is active again, without a
\* deadline.  Only evaluate's own retry saves once more.
FinishSaveFails ==
    /\ stage = "finish" /\ ~failed
    /\ Fault
    /\ runtime' = [runtime EXCEPT !.phase = "restoring", !.deadline = FALSE]
    /\ disk' \in {disk} \cup (IF op = "retry" THEN {runtime'} ELSE {})
    /\ Release
    /\ UNCHANGED <<up, resumePending, startedHere, store, inv, overdue,
                   original>>

Cancel ==
    /\ up /\ stage = "idle" /\ runtime.active
    /\ BeginRestore("cancelled", "manual_cancel", "stop")
    /\ UNCHANGED <<up, resumePending, request, captured, startedHere, store,
                   inv, overdue, original>>

---------------------------------------------------------------------------
(* evaluate, every two seconds: one action per branch that changes state.  *)

Evaluating == up /\ stage = "idle" /\ runtime.active

\* Modbus is down: note that the registers must be given back.  A session
\* still waiting to be resumed after a restart is left alone.
EvaluateLinkLost ==
    /\ Evaluating
    /\ ~link
    /\ ~resumePending
    /\ runtime.phase # "restoring"
    /\ runtime' = [runtime EXCEPT !.phase = "restoring",
                                  !.reason = "modbus_lost"]
    /\ SaveIgnored(runtime')
    /\ UNCHANGED <<up, resumePending, stage, op, pos, failed, final, request,
                   captured, startedHere, store, inv, overdue, original>>

\* Mutant: a retried restore always ends as an error.
EvaluateRetryAsError ==
    /\ Evaluating /\ link
    /\ runtime.phase = "restoring"
    /\ BeginRestore("error", runtime.reason, "retry")
    /\ UNCHANGED <<up, resumePending, request, captured, startedHere, store,
                   inv, overdue, original>>

EvaluateRetry ==
    /\ Evaluating /\ link
    /\ runtime.phase = "restoring"
    /\ BeginRestore(FinalPhaseForReason(runtime.reason), runtime.reason,
                    "retry")
    /\ UNCHANGED <<up, resumePending, request, captured, startedHere, store,
                   inv, overdue, original>>

\* Mutant: the deadline is only looked at once all telemetry is known.
TimedOutLate == runtime.deadline /\ overdue /\ HasRequiredTelemetry

TimedOut == runtime.deadline /\ overdue

EvaluateTimeout ==
    /\ Evaluating /\ link
    /\ runtime.phase # "restoring"
    /\ TimedOut
    /\ BeginRestore("timed_out", "timeout", "stop")
    /\ UNCHANGED <<up, resumePending, request, captured, startedHere, store,
                   inv, overdue, original>>

\* Mutant: a session being given back is monitored like any other.
MonitoringAny == Evaluating /\ link /\ ~TimedOut /\ HasRequiredTelemetry

Monitoring ==
    /\ Evaluating /\ link
    /\ runtime.phase # "restoring"
    /\ ~TimedOut
    /\ HasRequiredTelemetry

EvaluateResume ==
    /\ Monitoring
    /\ resumePending
    /\ stage' = "apply" /\ op' = "resume"
    /\ UNCHANGED <<up, runtime, resumePending, pos, failed, final, request,
                   captured, startedHere, store, disk, inv, overdue, faults,
                   original>>

\* The three observations that end a session, in the order they are made.
StopOn(r) ==
    \/ r.fault /\ BeginRestore("error", "fault", "stop")
    \/ ~r.fault /\ ~r.grid /\ BeginRestore("cancelled", "grid_lost", "stop")
    \/ ~r.fault /\ r.grid /\ r.reached
       /\ BeginRestore("completed", "target_reached", "stop")

EvaluateObserve ==
    /\ Monitoring /\ ~resumePending
    /\ \E r \in Reading: StopOn(r)
    /\ UNCHANGED <<up, resumePending, request, captured, startedHere, store,
                   inv, overdue, original>>

\* The same evaluation that resumed the session goes on with its snapshot.
ObserveResumed ==
    /\ stage = "observe"
    /\ \E r \in Reading:
         \/ StopOn(r) /\ UNCHANGED <<request, captured>>
         \/ /\ ~r.fault /\ r.grid /\ ~r.reached
            /\ Release /\ UNCHANGED <<runtime, disk, faults>>
    /\ UNCHANGED <<up, resumePending, startedHere, store, inv, overdue,
                   original>>

---------------------------------------------------------------------------
(* The rest of the program, the inverter's owner and the clock.            *)

\* modbus.pollGroup of the fast group: every value evaluate waits for, but
\* the two managed registers, is in the store.
PollFast ==
    /\ up
    /\ fastSeen' = TRUE /\ link' = TRUE
    /\ UNCHANGED <<manager, tele, disk, inv, overdue, faults, original>>

\* The slow group, any part of which may fail to be read as long as some
\* register of the group is.
PollSlow(read) ==
    /\ up
    /\ tele' = [r \in Managed |-> IF r \in read THEN inv[r] ELSE tele[r]]
    /\ link' = TRUE
    /\ UNCHANGED <<manager, fastSeen, disk, inv, overdue, faults, original>>

\* A poll that reads nothing.
PollFails ==
    /\ up /\ link
    /\ Fault
    /\ link' = FALSE
    /\ UNCHANGED <<manager, tele, fastSeen, disk, inv, overdue, original>>

DeadlinePasses ==
    /\ disk.deadline /\ ~overdue
    /\ overdue' = TRUE
    /\ UNCHANGED <<manager, store, disk, inv, faults, original>>

\* The owner changes a setting at the inverter, between two sessions.
PanelWrite ==
    /\ stage = "idle" /\ ~disk.active
    /\ \E edit \in PanelEdits:
         /\ inv' = [inv EXCEPT ![edit[1]] = edit[2]]
         /\ original' = [original EXCEPT ![edit[1]] = edit[2]]
    /\ UNCHANGED <<manager, store, disk, overdue, faults>>

\* The process dies wherever it is, or is stopped.
Crash ==
    /\ up
    /\ Fault
    /\ up' = FALSE /\ runtime' = IdleRuntime /\ resumePending' = FALSE
    /\ Release
    /\ tele' = [r \in Managed |-> NoVal] /\ fastSeen' = FALSE /\ link' = FALSE
    /\ startedHere' = FALSE
    /\ UNCHANGED <<disk, inv, overdue, original>>

LoadAccepts(file) == file.version = 2 \/ ~file.active

\* Mutant: the missing phase of an old file is kept.
LoadVersion(file) == [file EXCEPT !.version = 2]

Load(file) ==
    [file EXCEPT !.version = 2,
                 !.phase = IF file.phase = "" THEN "idle" ELSE file.phase]

\* New and load.
Boot ==
    /\ ~up
    /\ LoadAccepts(disk)
    /\ up' = TRUE
    /\ runtime' = Load(disk)
    /\ resumePending' = disk.active
    /\ UNCHANGED <<stage, op, pos, failed, final, request, captured,
                   startedHere, store, disk, inv, overdue, faults, original>>

---------------------------------------------------------------------------

Start    == StartSnapshot \/ StartCapture \/ StartReadFails \/ StartSaveFails
Apply    == ApplyWrite \/ ApplyWriteFails \/ AbortStart \/ AbortResume
            \/ StartCharging \/ StartChargingSaveFails \/ ResumeCharging
Restore  == RestoreStep \/ RestoreStepFails \/ FinishIncomplete
            \/ FinishRestore \/ FinishSaveFails
Evaluate == EvaluateLinkLost \/ EvaluateRetry \/ EvaluateTimeout
            \/ EvaluateResume \/ EvaluateObserve \/ ObserveResumed
Poll     == PollFast \/ (\E read \in SUBSET Managed: PollSlow(read))
            \/ PollFails
World    == DeadlinePasses \/ PanelWrite \/ Crash \/ Boot

Next == Start \/ Apply \/ Restore \/ Cancel \/ Evaluate \/ Poll \/ World

Spec == Init /\ [][Next]_vars

\* An operation in progress goes on; systemd restarts the process
\* (Restart=always); the ticker keeps evaluating; the scheduler keeps
\* polling; time passes.  No reading of battery or grid is ever fair, so a
\* session that ends must end by its deadline.
Fairness ==
    /\ WF_vars(StartCapture) /\ WF_vars(ApplyWrite)
    /\ WF_vars(AbortStart) /\ WF_vars(AbortResume)
    /\ WF_vars(StartCharging) /\ WF_vars(ResumeCharging)
    /\ WF_vars(ObserveResumed)
    /\ WF_vars(RestoreStep) /\ WF_vars(FinishIncomplete)
    /\ WF_vars(FinishRestore)
    /\ WF_vars(Boot) /\ WF_vars(PollFast) /\ WF_vars(DeadlinePasses)
    /\ WF_vars(EvaluateLinkLost) /\ WF_vars(EvaluateRetry)
    /\ WF_vars(EvaluateTimeout) /\ WF_vars(EvaluateResume)

FairSpec == Spec /\ Fairness

---------------------------------------------------------------------------
(* Properties.                                                             *)

\* The storm registers are never ahead of the file: whenever the inverter
\* differs from what its owner had, the file holds an active session whose
\* captured values are the owner's, so that a crash at this very moment can
\* still be undone.  Start saves before it writes, the final save follows
\* the last write (manager.go:206-211, 433-438).
WriteAhead ==
    inv # original =>
        disk.version = 2 /\ disk.active /\ disk.previous = original

\* The manager says that no session is active only when every register has
\* its owner's value back: a partial restore, a failed save, a crash and a
\* reload never lose the obligation (manager.go:426-446, 588-610).
IdleMeansRestored ==
    up /\ stage = "idle" /\ ~runtime.active => inv = original

\* The same for the timed charging schedule alone, which is read from the
\* inverter when a session starts and not from the cache: it holds even if
\* the owner edits the schedule at the panel (manager.go:495).
ScheduleGivenBack ==
    up /\ stage = "idle" /\ ~runtime.active =>
        \A r \in Schedule: inv[r] = original[r]

\* A session shown as charging, once resumed if it had to be, really has all
\* its registers in the inverter (manager.go:211-223, 339-348).
ChargingMeansApplied ==
    up /\ stage = "idle" /\ runtime.active /\ runtime.phase = "charging"
    /\ ~resumePending => inv = StormRegs(runtime.settings)

\* An owner whose schedule is off never sees it on with slot words that are
\* partly his and partly the session's, not even between two writes of an
\* apply or a restore, after a failed one or after a crash: off first, on
\* last (manager.go:453-469).
NoTornSchedule ==
    original[EnableReg] = 0 /\ inv[EnableReg] # 0 =>
        \A r \in Slots: inv[r] = StormSlots[r]

\* The phase a session ends in is the one its recorded reason calls for, no
\* matter through which of the nine calls of restoreLocked or after how many
\* retries and restarts it ended.
FinalPhaseMatchesReason ==
    \A rt \in {runtime, disk}:
        rt.phase \in FinalPhases => rt.phase = FinalPhaseForReason(rt.reason)

\* A session always has a way to end without being asked: either it is being
\* restored, which evaluate retries for ever, or its deadline is set, in
\* memory and in the file.  Clearing the deadline before a save that fails
\* must not leave a session without either (manager.go:433-443).
NoImmortalSession ==
    \A rt \in {runtime, disk}:
        rt.active => rt.phase = "restoring" \/ rt.deadline

\* Once the file says that a session is being given back, no crash, reload
\* or late save makes it a charging session again: only its end can replace
\* it.
PersistedRestoreIsFinal ==
    [][disk.active /\ disk.phase = "restoring" =>
         \/ disk'.active /\ disk'.phase = "restoring"
         \/ ~disk'.active /\ inv = original]_vars

\* Every session ends, with the owner's registers back, however its process
\* fails (a bounded number of times) and whatever the battery and grid do.
SessionEnds == disk.active ~> (~disk.active /\ inv = original)

---------------------------------------------------------------------------
(* Why the properties hold: an inductive invariant, in three layers.  The  *)
(* first is about memory and file only, the second about what the inverter *)
(* is owed, the third about what a session has put there.                  *)

AfterSave == {"apply", "abort", "applied", "observe", "restore", "finish"}

\* Memory and file tell of the same session.
Agree ==
    /\ ~up => ~runtime.active /\ runtime.phase = "idle" /\ stage = "idle"
    /\ up => (runtime.active <=> disk.active)
    /\ runtime.active => runtime.previous = disk.previous
    /\ disk.active => disk.version = 2 /\ disk.phase # ""
    /\ stage \in AfterSave => up /\ runtime.active
    /\ stage = "capture" => up /\ ~runtime.active

\* The phase fits the operation in progress; memory never falls behind a
\* file that says restoring.
PhaseFits ==
    /\ stage \in {"restore", "finish"} =>
         /\ runtime.phase = "restoring"
         /\ final = FinalPhaseForReason(runtime.reason)
    /\ stage \in {"apply", "abort", "applied", "observe"} =>
         runtime.phase # "restoring"
    /\ up /\ disk.active /\ disk.phase = "restoring" =>
         runtime.phase = "restoring"

ControlInv == Agree /\ PhaseFits /\ FinalPhaseMatchesReason /\ NoImmortalSession

\* The registers a session must give back: all but those that the owner may
\* have changed at the panel behind the cache's back.
Uncached == {r \in Managed: \E v \in Val: <<r, v>> \in PanelEdits}
Tracked  == Reg \ Uncached

\* The file owes the owner's values of the registers T, and only the file does.
Owed(T) ==
    /\ disk.active => \A r \in T: disk.previous[r] = original[r]
    /\ ~disk.active => \A r \in T: inv[r] = original[r]

\* Between sessions the cache has nothing but the owner's values.
CacheFits(T) ==
    \A r \in Managed \cap T:
        /\ ~disk.active => tele[r] \in {NoVal, original[r]}
        /\ stage = "capture" => captured[r] = original[r]

\* The register, and what the store says of it, are as before the session.
GivenBack(r) ==
    /\ inv[r] = runtime.previous[r]
    /\ r \in Managed => tele[r] = runtime.previous[r]

\* A restore without an error so far has given back what it has passed.
RestoreProgress(T) ==
    /\ stage \in {"restore", "finish"} /\ ~failed =>
         \A j \in 1 .. pos - 1:
            RestoreReg(runtime.previous, j) \in T =>
                GivenBack(RestoreReg(runtime.previous, j))
    /\ stage = "finish" /\ ~failed => pos = LastPos + 1
    /\ failed => stage \in {"restore", "finish"} /\ pos >= SlotWords + 2

DebtInv(T) == Owed(T) /\ CacheFits(T) /\ RestoreProgress(T)

\* An apply has put in what it has passed.
ApplyProgress ==
    stage \in {"apply", "applied"} =>
        \A j \in 1 .. pos - 1:
            inv[ApplyReg(j)] = StormRegs(runtime.settings)[ApplyReg(j)]

\* ChargingMeansApplied, extended to the evaluation that resumed a session.
ChargingFits ==
    up /\ stage \in {"idle", "observe"} /\ runtime.active
    /\ runtime.phase = "charging" /\ ~resumePending =>
        inv = StormRegs(runtime.settings)

StormInv == ApplyProgress /\ ChargingFits /\ NoTornSchedule

---------------------------------------------------------------------------
(* The session is an undo log: the file is the log, a file that says       *)
(* restoring is a log being undone.                                        *)

ASSUME LogAssumption == \A T \in SUBSET Reg: NoVal \notin [T -> Val]

LogOf(T) == IF disk.active THEN [r \in T |-> disk.previous[r]] ELSE NoVal

Undo == INSTANCE UndoLog
            WITH Registers <- Tracked, Values <- Val, NoLog <- NoVal,
                 regs <- [r \in Tracked |-> inv[r]], log <- LogOf(Tracked),
                 undoing <- disk.active /\ disk.phase = "restoring"

\* The manager, with crashes, failed saves and failed writes, implements the
\* undo log.
ImplementsUndoLog == Undo!Spec

---------------------------------------------------------------------------
(* What a test says, and the code does not do.                             *)

\* A session this process began and that is charging is marked for restoring
\* by the next evaluation after Modbus is lost
\* (TestRestoreWaitsUntilModbusReconnects).
LinkLossHandled ==
    Evaluating /\ startedHere /\ ~link /\ runtime.phase = "charging" =>
        ~resumePending
=============================================================================
