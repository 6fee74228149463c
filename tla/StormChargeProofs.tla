------------------------- MODULE StormChargeProofs -------------------------
(***************************************************************************)
(* Proofs about StormCharge for every number of slot words, every set of   *)
(* values, requests and initial registers, and any number of faults.       *)
(***************************************************************************)
EXTENDS StormCharge, TLAPS

USE SlotWordsAssumption, ValAssumption, StormSlotsAssumption,
    RequestsAssumption, InitialAssumption, BoundsAssumption

---------------------------------------------------------------------------
(* The write orders and the values written.                                *)

\* Every register applyStormSettingsLocked writes is one of the nine.
LEMMA ApplyRegType == \A i \in 1 .. LastPos: ApplyReg(i) \in Reg
  BY DEF ApplyReg, ScheduleReg, Reg, LastPos, CutoffReg, CurrentReg, EnableReg

\* Every register restoreLocked writes is one of the nine.
LEMMA RestoreRegType ==
    \A prev \in RegVals, i \in 1 .. LastPos: RestoreReg(prev, i) \in Reg
  BY DEF RestoreReg, ScheduleReg, Reg, LastPos, EnableReg

\* applyStormSettingsLocked leaves no register out.
LEMMA ApplyRegOnto == \A r \in Reg: \E i \in 1 .. LastPos: ApplyReg(i) = r
  <1> TAKE r \in Reg
  <1> DEFINE i == IF r = CutoffReg THEN 1
                  ELSE IF r = CurrentReg THEN 2 ELSE r + 2
  <1>1. i \in 1 .. LastPos
    BY DEF Reg, LastPos, CutoffReg, CurrentReg
  <1>2. ApplyReg(i) = r
    BY DEF ApplyReg, ScheduleReg, Reg, CutoffReg, CurrentReg
  <1> QED BY <1>1, <1>2

\* restoreLocked leaves no register out, in either order of the schedule.
LEMMA RestoreRegOnto ==
    \A prev \in RegVals, r \in Reg:
        \E i \in 1 .. LastPos: RestoreReg(prev, i) = r
  <1> TAKE prev \in RegVals, r \in Reg
  <1> DEFINE i == IF prev[EnableReg] = 0 /\ r <= SlotWords THEN r + 1
                  ELSE IF prev[EnableReg] = 0 /\ r = EnableReg THEN 1 ELSE r
  <1>1. i \in 1 .. LastPos
    BY DEF Reg, LastPos, EnableReg
  <1>2. RestoreReg(prev, i) = r
    BY DEF RestoreReg, ScheduleReg, Reg, EnableReg
  <1> QED BY <1>1, <1>2

\* The storm settings are values the registers can hold.
LEMMA StormRegsType == \A s \in Settings: StormRegs(s) \in RegVals
  BY DEF StormRegs, RegVals, Reg, Settings, Slots, EnableReg, CurrentReg,
         CutoffReg

\* What New and load put in memory is a runtime record: an idle one, and an
\* accepted file with its version and missing phase filled in.
LEMMA RuntimeTypes ==
    /\ NoSettings \in Settings
    /\ NoCapture \in [Managed -> Val]
    /\ IdleRuntime \in RuntimeFile
    /\ OldRuntime \in RuntimeFile
  BY DEF NoSettings, NoCapture, Settings, IdleRuntime, OldRuntime,
         RuntimeFile, RegVals, Phases, FinalPhases, Reasons

---------------------------------------------------------------------------
(* Type correctness.  The position of a write must be known to be in range *)
(* for the register it names to be one.                                    *)

PosOK ==
    /\ stage \in {"idle", "capture", "observe"} => pos = 1
    /\ stage \in {"apply", "restore"} => pos <= LastPos
    /\ stage = "applied" => pos = LastPos + 1

TypeInv == TypeOK /\ PosOK

RuntimeOK(rt) == rt \in RuntimeFile /\ rt.version = 2 /\ rt.phase # ""

\* A runtime record stays one when its phase, and its reason or deadline,
\* are overwritten, and when it is closed.
LEMMA MarkedType ==
    ASSUME NEW rt, RuntimeOK(rt), NEW ph \in Phases, NEW rs \in Reasons
    PROVE  /\ RuntimeOK([rt EXCEPT !.phase = ph])
           /\ RuntimeOK([rt EXCEPT !.phase = ph, !.reason = rs])
           /\ RuntimeOK([rt EXCEPT !.phase = ph, !.deadline = FALSE])
           /\ RuntimeOK([rt EXCEPT !.active = FALSE, !.phase = ph,
                                   !.deadline = FALSE])
  BY DEF RuntimeFile, RuntimeOK, Phases, FinalPhases

\* An operation that returns leaves the bookkeeping of operations in type.
LEMMA ReleaseType == Release => OperationOK' /\ PosOK'
  <1> SUFFICES ASSUME Release PROVE OperationOK' /\ PosOK'
    OBVIOUS
  <1>1. pos' \in 1 .. LastPos + 1
    BY DEF Release, LastPos
  <1>2. stage' \in Stages /\ op' \in Ops /\ final' \in Phases
    BY DEF Release, Stages, Ops, Phases
  <1>3. OperationOK'
    BY <1>1, <1>2, RuntimeTypes, Zenon DEF Release, OperationOK
  <1>4. PosOK'
    BY DEF Release, PosOK
  <1> QED BY <1>3, <1>4

\* An injected fault stays within the bound.
LEMMA FaultType ==
    faults \in 0 .. MaxFaults /\ (Fault \/ NoFault) => faults' \in 0 .. MaxFaults
  BY DEF Fault, NoFault

\* saveLocked, successful or not, leaves a runtime record in the file.
LEMMA SaveType ==
    ASSUME WorldOK, NEW rt \in RuntimeFile, SaveIgnored(rt)
    PROVE  disk' \in RuntimeFile /\ faults' \in 0 .. MaxFaults
  BY FaultType DEF SaveIgnored, WorldOK

\* The head of restoreLocked keeps every type it touches.
LEMMA BeginRestoreType ==
    ASSUME TypeInv, NEW ph \in Phases, NEW rs \in Reasons, NEW from \in Ops,
           BeginRestore(ph, rs, from)
    PROVE  /\ RuntimeOK(runtime')
           /\ disk' \in RuntimeFile /\ faults' \in 0 .. MaxFaults
           /\ stage' \in Stages /\ op' \in Ops /\ pos' \in 1 .. LastPos + 1
           /\ failed' \in BOOLEAN /\ final' \in Phases /\ PosOK'
  <1>1. RuntimeOK(runtime')
    <2>1. RuntimeOK(runtime) /\ "restoring" \in Phases
      BY DEF TypeInv, TypeOK, ManagerOK, RuntimeOK, Phases
    <2> QED BY <2>1, MarkedType DEF BeginRestore
  <1>2. disk' \in RuntimeFile /\ faults' \in 0 .. MaxFaults
    BY <1>1, SaveType DEF BeginRestore, RuntimeOK, TypeInv, TypeOK
  <1>3. stage' \in Stages /\ op' \in Ops /\ pos' \in 1 .. LastPos + 1 /\ PosOK'
    BY DEF BeginRestore, Stages, LastPos, PosOK
  <1>4. failed' \in BOOLEAN /\ final' \in Phases
    BY Zenon DEF BeginRestore
  <1> QED BY <1>1, <1>2, <1>3, <1>4

\* A register write, confirmed or failed, leaves register values in the
\* inverter and cached values in the store.
LEMMA WriteType ==
    ASSUME StoreOK, WorldOK, NEW r \in Reg, NEW v \in Val,
           \/ WriteSucceeds(r, v)
           \/ WriteFails(r, v)
    PROVE  StoreOK' /\ inv' \in RegVals
  <1>1. CASE WriteSucceeds(r, v)
    <2>1. inv' \in RegVals
      BY <1>1 DEF WriteSucceeds, WorldOK, RegVals
    <2>2. tele' \in [Managed -> Val \cup {NoVal}]
      BY <1>1 DEF WriteSucceeds, StoreOK
    <2>3. link' \in BOOLEAN /\ fastSeen' \in BOOLEAN
      BY <1>1, Zenon DEF WriteSucceeds, StoreOK
    <2> QED BY <2>1, <2>2, <2>3 DEF StoreOK
  <1>2. CASE WriteFails(r, v)
    <2>1. inv' \in RegVals
      BY <1>2 DEF WriteFails, WriteRegisterFails, WriteHoldingFails, WorldOK,
                  RegVals
    <2>2. tele' \in [Managed -> Val \cup {NoVal}]
      <3>1. CASE UNCHANGED tele
        BY <3>1 DEF StoreOK
      <3>2. ASSUME r \in Managed, NEW held \in {inv[r], v},
                   NEW seen \in {tele[r], v, held},
                   tele' = [tele EXCEPT ![r] = seen]
            PROVE  tele' \in [Managed -> Val \cup {NoVal}]
        <4>1. seen \in Val \cup {NoVal}
          BY <3>2 DEF StoreOK, WorldOK, RegVals
        <4> QED BY <3>2, <4>1 DEF StoreOK
      <3> QED BY <1>2, <3>1, <3>2 DEF WriteFails, WriteRegisterFails,
                                      WriteHoldingFails
    <2>3. link' \in BOOLEAN /\ fastSeen' \in BOOLEAN
      BY <1>2, Zenon DEF WriteFails, WriteRegisterFails, WriteHoldingFails,
                         StoreOK
    <2> QED BY <2>1, <2>2, <2>3 DEF StoreOK
  <1> QED BY <1>1, <1>2

\* The first start of the process, with no state file or an old one.
LEMMA InitTypeInv == Init => TypeInv
  <1> SUFFICES ASSUME Init PROVE TypeInv
    OBVIOUS
  <1>1. inv \in RegVals /\ original \in RegVals
    BY DEF Init
  <1>2. LastPos \in Nat /\ 1 <= LastPos
    BY DEF LastPos
  <1>3. tele \in [Managed -> Val \cup {NoVal}]
    BY DEF Init
  <1>4. IdleRuntime.version = 2 /\ IdleRuntime.phase = "idle"
    BY DEF IdleRuntime
  <1>5. TypeOK
    <2>1. pos \in 1 .. LastPos + 1 /\ faults \in 0 .. MaxFaults
      BY <1>2 DEF Init
    <2>2. stage \in Stages /\ op \in Ops /\ final \in Phases
      BY DEF Init, Stages, Ops, Phases
    <2>3. runtime \in RuntimeFile /\ runtime.version = 2 /\ runtime.phase # ""
      BY <1>4, RuntimeTypes DEF Init
    <2> QED BY <1>1, <1>3, <2>1, <2>2, <2>3, RuntimeTypes, Zenon
         DEF Init, TypeOK, ManagerOK, OperationOK, StoreOK, WorldOK
  <1> QED BY <1>2, <1>5 DEF Init, TypeInv, PosOK

\* The steps that enter restoreLocked leave everything else alone.
LEMMA EnterRestoreType ==
    ASSUME TypeInv, NEW ph \in Phases, NEW rs \in Reasons, NEW from \in Ops,
           BeginRestore(ph, rs, from),
           UNCHANGED <<up, resumePending, request, captured, startedHere,
                       store, inv, overdue, original>>
    PROVE  TypeInv'
  <1>1. ManagerOK'
    BY BeginRestoreType, Zenon DEF TypeInv, TypeOK, ManagerOK, RuntimeOK
  <1>2. OperationOK' /\ PosOK'
    BY BeginRestoreType, Zenon DEF TypeInv, TypeOK, OperationOK
  <1>3. StoreOK'
    BY Zenon DEF TypeInv, TypeOK, StoreOK, store
  <1>4. WorldOK'
    BY BeginRestoreType, Zenon DEF TypeInv, TypeOK, WorldOK
  <1> QED BY <1>1, <1>2, <1>3, <1>4 DEF TypeInv, TypeOK

\* finalPhaseForReason returns a phase.
LEMMA FinalPhaseType ==
    \A rs \in Reasons: FinalPhaseForReason(rs) \in Phases
  BY DEF FinalPhaseForReason, Phases, FinalPhases

\* A register write that leaves the position in range.
LEMMA StepType ==
    ASSUME TypeInv, NEW r \in Reg, NEW v \in Val,
           (WriteSucceeds(r, v) /\ UNCHANGED faults) \/ WriteFails(r, v),
           OperationOK', PosOK',
           UNCHANGED <<up, runtime, resumePending, startedHere, disk,
                       overdue, original>>
    PROVE  TypeInv'
  <1>1. ManagerOK'
    BY Zenon DEF TypeInv, TypeOK, ManagerOK
  <1>2. StoreOK' /\ inv' \in RegVals
    BY WriteType DEF TypeInv, TypeOK
  <1>3. faults' \in 0 .. MaxFaults
    BY FaultType DEF TypeInv, TypeOK, WorldOK, WriteFails, NoFault
  <1>4. WorldOK'
    BY <1>2, <1>3, Zenon DEF TypeInv, TypeOK, WorldOK
  <1> QED BY <1>1, <1>2, <1>4 DEF TypeInv, TypeOK

\* What the writes of the two loops are given.
LEMMA ApplyArgsType ==
    TypeInv /\ stage = "apply" =>
        /\ ApplyReg(pos) \in Reg
        /\ StormRegs(runtime.settings)[ApplyReg(pos)] \in Val
  <1> SUFFICES ASSUME TypeInv, stage = "apply"
               PROVE  /\ ApplyReg(pos) \in Reg
                      /\ StormRegs(runtime.settings)[ApplyReg(pos)] \in Val
    OBVIOUS
  <1>1. pos \in 1 .. LastPos
    BY DEF TypeInv, TypeOK, OperationOK, PosOK, LastPos
  <1>2. runtime.settings \in Settings
    BY DEF TypeInv, TypeOK, ManagerOK, RuntimeFile
  <1> QED BY <1>1, <1>2, ApplyRegType, StormRegsType DEF RegVals

\* restoreLocked writes captured values to registers in range.
LEMMA RestoreArgsType ==
    TypeInv /\ stage = "restore" =>
        /\ RestoreReg(runtime.previous, pos) \in Reg
        /\ runtime.previous[RestoreReg(runtime.previous, pos)] \in Val
  <1> SUFFICES ASSUME TypeInv, stage = "restore"
               PROVE  /\ RestoreReg(runtime.previous, pos) \in Reg
                      /\ runtime.previous[RestoreReg(runtime.previous, pos)]
                            \in Val
    OBVIOUS
  <1>1. pos \in 1 .. LastPos
    BY DEF TypeInv, TypeOK, OperationOK, PosOK, LastPos
  <1>2. runtime.previous \in RegVals
    BY DEF TypeInv, TypeOK, ManagerOK, RuntimeFile
  <1> QED BY <1>1, <1>2, RestoreRegType DEF RegVals

\* No step of the manager, the poller, the owner or the process leaves the
\* types: one case per action.
LEMMA NextTypeInv == TypeInv /\ [Next]_vars => TypeInv'
  <1> SUFFICES ASSUME TypeInv, [Next]_vars PROVE TypeInv'
    OBVIOUS
  <1>1. CASE StartSnapshot
    <2>1. ManagerOK'
      BY <1>1, Zenon DEF StartSnapshot, TypeInv, TypeOK, ManagerOK
    <2>2. OperationOK' /\ PosOK'
      <3>1. stage' \in Stages /\ op' \in Ops /\ pos' \in 1 .. LastPos + 1
        BY <1>1 DEF StartSnapshot, TypeInv, TypeOK, OperationOK, PosOK,
           Stages, Ops,
                    LastPos
      <3>2. PosOK'
        BY <1>1 DEF StartSnapshot, TypeInv, TypeOK, OperationOK, PosOK, LastPos
      <3>3. failed' \in BOOLEAN /\ final' \in Phases
        BY <1>1, Zenon DEF StartSnapshot, TypeInv, TypeOK, OperationOK, Phases
      <3>4. request' \in Settings /\ captured' \in [Managed -> Val]
        BY <1>1, RuntimeTypes DEF StartSnapshot, TypeInv, TypeOK, OperationOK,
           HasRequiredTelemetry, StoreOK
      <3> QED BY <3>1, <3>2, <3>3, <3>4 DEF OperationOK
    <2>3. StoreOK'
      BY <1>1, Zenon DEF StartSnapshot, TypeInv, TypeOK, StoreOK, store
    <2>4. WorldOK'
      BY <1>1, Zenon DEF StartSnapshot, TypeInv, TypeOK, WorldOK
    <2> QED BY <2>1, <2>2, <2>3, <2>4 DEF TypeInv, TypeOK
  <1>2. CASE StartCapture
    <2>1. ManagerOK'
      <3>1. PreviousSettings \in RegVals
        BY DEF PreviousSettings, RegVals, TypeInv, TypeOK, OperationOK, WorldOK
      <3>2. RuntimeOK(runtime')
        BY <1>2, <3>1 DEF StartCapture, StartedRuntime, RuntimeOK, RuntimeFile,
           Phases, Reasons, TypeInv, TypeOK, OperationOK
      <3> QED BY <1>2, <3>2, Zenon DEF StartCapture, TypeInv, TypeOK,
                 ManagerOK, RuntimeOK
    <2>2. OperationOK' /\ PosOK'
      <3>1. stage' \in Stages /\ op' \in Ops /\ pos' \in 1 .. LastPos + 1
        BY <1>2 DEF StartCapture, TypeInv, TypeOK, OperationOK, PosOK, Stages,
           Ops,
                    LastPos
      <3>2. PosOK'
        BY <1>2 DEF StartCapture, TypeInv, TypeOK, OperationOK, PosOK, LastPos
      <3>3. failed' \in BOOLEAN /\ final' \in Phases
        BY <1>2, Zenon DEF StartCapture, TypeInv, TypeOK, OperationOK, Phases
      <3>4. request' \in Settings /\ captured' \in [Managed -> Val]
        BY <1>2, RuntimeTypes DEF StartCapture, TypeInv, TypeOK, OperationOK
      <3> QED BY <3>1, <3>2, <3>3, <3>4 DEF OperationOK
    <2>3. StoreOK'
      BY <1>2, Zenon DEF StartCapture, TypeInv, TypeOK, StoreOK, store
    <2>4. WorldOK'
      BY <1>2, <2>1, Zenon DEF StartCapture, TypeInv, TypeOK, WorldOK,
         ManagerOK
    <2> QED BY <2>1, <2>2, <2>3, <2>4 DEF TypeInv, TypeOK
  <1>3. CASE StartReadFails
    <2>1. ManagerOK'
      BY <1>3, Zenon DEF StartReadFails, TypeInv, TypeOK, ManagerOK
    <2>2. OperationOK' /\ PosOK'
      BY <1>3, ReleaseType DEF StartReadFails
    <2>3. StoreOK'
      BY <1>3, Zenon DEF StartReadFails, TypeInv, TypeOK, StoreOK, store
    <2>4. WorldOK'
      <3>1. faults' \in 0 .. MaxFaults
        BY <1>3, FaultType DEF StartReadFails, TypeInv, TypeOK, WorldOK
      <3> QED BY <1>3, <3>1, Zenon DEF StartReadFails, TypeInv, TypeOK, WorldOK
    <2> QED BY <2>1, <2>2, <2>3, <2>4 DEF TypeInv, TypeOK
  <1>4. CASE StartSaveFails
    <2>1. ManagerOK'
      <3>1. RuntimeOK(runtime')
        BY <1>4, RuntimeTypes DEF StartSaveFails, RuntimeOK, IdleRuntime
      <3> QED BY <1>4, <3>1, Zenon DEF StartSaveFails, TypeInv, TypeOK,
                 ManagerOK, RuntimeOK
    <2>2. OperationOK' /\ PosOK'
      BY <1>4, ReleaseType DEF StartSaveFails
    <2>3. StoreOK'
      BY <1>4, Zenon DEF StartSaveFails, TypeInv, TypeOK, StoreOK, store
    <2>4. WorldOK'
      <3>1. faults' \in 0 .. MaxFaults
        BY <1>4, FaultType DEF StartSaveFails, TypeInv, TypeOK, WorldOK
      <3> QED BY <1>4, <3>1, Zenon DEF StartSaveFails, TypeInv, TypeOK, WorldOK
    <2> QED BY <2>1, <2>2, <2>3, <2>4 DEF TypeInv, TypeOK
  <1>5. CASE ApplyWrite
    <2>1. OperationOK' /\ PosOK'
      <3>1. stage' \in Stages /\ op' \in Ops /\ pos' \in 1 .. LastPos + 1
        BY <1>5 DEF ApplyWrite, TypeInv, TypeOK, OperationOK, PosOK, Stages,
           Ops,
                    LastPos
      <3>2. PosOK'
        BY <1>5 DEF ApplyWrite, TypeInv, TypeOK, OperationOK, PosOK, LastPos
      <3>3. failed' \in BOOLEAN /\ final' \in Phases
        BY <1>5, Zenon DEF ApplyWrite, TypeInv, TypeOK, OperationOK, Phases
      <3>4. request' \in Settings /\ captured' \in [Managed -> Val]
        BY <1>5, RuntimeTypes DEF ApplyWrite, TypeInv, TypeOK, OperationOK
      <3> QED BY <3>1, <3>2, <3>3, <3>4 DEF OperationOK
    <2> QED BY <1>5, <2>1, ApplyArgsType, StepType DEF ApplyWrite
  <1>6. CASE ApplyWriteFails
    <2>1. OperationOK' /\ PosOK'
      <3>1. stage' \in Stages /\ op' \in Ops /\ pos' \in 1 .. LastPos + 1
        BY <1>6 DEF ApplyWriteFails, TypeInv, TypeOK, OperationOK, PosOK,
           Stages, Ops,
                    LastPos
      <3>2. PosOK'
        BY <1>6 DEF ApplyWriteFails, TypeInv, TypeOK, OperationOK, PosOK,
           LastPos
      <3>3. failed' \in BOOLEAN /\ final' \in Phases
        BY <1>6, Zenon DEF ApplyWriteFails, TypeInv, TypeOK, OperationOK,
           Phases
      <3>4. request' \in Settings /\ captured' \in [Managed -> Val]
        BY <1>6, RuntimeTypes DEF ApplyWriteFails, TypeInv, TypeOK, OperationOK
      <3> QED BY <3>1, <3>2, <3>3, <3>4 DEF OperationOK
    <2> QED BY <1>6, <2>1, ApplyArgsType, StepType DEF ApplyWriteFails
  <1>7. CASE AbortStart
    BY <1>7, EnterRestoreType DEF AbortStart, Phases, FinalPhases, Reasons, Ops
  <1>8. CASE AbortResume
    <2>1. ManagerOK'
      <3>1. RuntimeOK(runtime')
        <4>1. RuntimeOK(runtime) /\ final \in Phases
          BY DEF TypeInv, TypeOK, ManagerOK, OperationOK, RuntimeOK
        <4> QED BY <1>8, <4>1, MarkedType DEF AbortResume, Phases, Reasons
      <3> QED BY <1>8, <3>1, Zenon DEF AbortResume, TypeInv, TypeOK,
                 ManagerOK, RuntimeOK
    <2>2. OperationOK' /\ PosOK'
      BY <1>8, ReleaseType DEF AbortResume
    <2>3. StoreOK'
      BY <1>8, Zenon DEF AbortResume, TypeInv, TypeOK, StoreOK, store
    <2>4. WorldOK'
      <3>1. disk' \in RuntimeFile /\ faults' \in 0 .. MaxFaults
        BY <1>8, <2>1, SaveType DEF AbortResume, TypeInv, TypeOK, ManagerOK
      <3> QED BY <1>8, <3>1, Zenon DEF AbortResume, TypeInv, TypeOK, WorldOK
    <2> QED BY <2>1, <2>2, <2>3, <2>4 DEF TypeInv, TypeOK
  <1>9. CASE StartCharging
    <2>1. ManagerOK'
      <3>1. RuntimeOK(runtime')
        <4>1. RuntimeOK(runtime) /\ final \in Phases
          BY DEF TypeInv, TypeOK, ManagerOK, OperationOK, RuntimeOK
        <4> QED BY <1>9, <4>1, MarkedType DEF StartCharging, Phases, Reasons
      <3> QED BY <1>9, <3>1, Zenon DEF StartCharging, TypeInv, TypeOK,
                 ManagerOK, RuntimeOK
    <2>2. OperationOK' /\ PosOK'
      BY <1>9, ReleaseType DEF StartCharging
    <2>3. StoreOK'
      BY <1>9, Zenon DEF StartCharging, TypeInv, TypeOK, StoreOK, store
    <2>4. WorldOK'
      BY <1>9, <2>1, Zenon DEF StartCharging, TypeInv, TypeOK, WorldOK,
         ManagerOK
    <2> QED BY <2>1, <2>2, <2>3, <2>4 DEF TypeInv, TypeOK
  <1>10. CASE StartChargingSaveFails
    <2>1. ManagerOK'
      <3>1. RuntimeOK(runtime')
        <4>1. RuntimeOK(runtime) /\ final \in Phases
          BY DEF TypeInv, TypeOK, ManagerOK, OperationOK, RuntimeOK
        <4> QED BY <1>10, <4>1, MarkedType DEF StartChargingSaveFails, Phases,
                   Reasons
      <3> QED BY <1>10, <3>1, Zenon DEF StartChargingSaveFails, TypeInv,
                 TypeOK, ManagerOK, RuntimeOK
    <2>2. OperationOK' /\ PosOK'
      <3>1. stage' \in Stages /\ op' \in Ops /\ pos' \in 1 .. LastPos + 1
        BY <1>10 DEF StartChargingSaveFails, TypeInv, TypeOK, OperationOK,
           PosOK, Stages, Ops,
                    LastPos
      <3>2. PosOK'
        BY <1>10 DEF StartChargingSaveFails, TypeInv, TypeOK, OperationOK,
           PosOK, LastPos
      <3>3. failed' \in BOOLEAN /\ final' \in Phases
        BY <1>10, Zenon DEF StartChargingSaveFails, TypeInv, TypeOK,
           OperationOK,
                           Phases, FinalPhases
      <3>4. request' \in Settings /\ captured' \in [Managed -> Val]
        BY <1>10, RuntimeTypes DEF StartChargingSaveFails, TypeInv, TypeOK,
           OperationOK
      <3> QED BY <3>1, <3>2, <3>3, <3>4 DEF OperationOK
    <2>3. StoreOK'
      BY <1>10, Zenon DEF StartChargingSaveFails, TypeInv, TypeOK, StoreOK,
         store
    <2>4. WorldOK'
      <3>1. faults' \in 0 .. MaxFaults
        BY <1>10, FaultType DEF StartChargingSaveFails, TypeInv, TypeOK,
           WorldOK
      <3>2. disk' \in RuntimeFile
        BY <1>10, <2>1 DEF StartChargingSaveFails, TypeInv, TypeOK, WorldOK,
           ManagerOK
      <3> QED BY <1>10, <3>1, <3>2, Zenon DEF StartChargingSaveFails, TypeInv,
                 TypeOK, WorldOK
    <2> QED BY <2>1, <2>2, <2>3, <2>4 DEF TypeInv, TypeOK
  <1>11. CASE ResumeCharging
    <2>1. ManagerOK'
      <3>1. RuntimeOK(runtime')
        <4>1. RuntimeOK(runtime) /\ final \in Phases
          BY DEF TypeInv, TypeOK, ManagerOK, OperationOK, RuntimeOK
        <4> QED BY <1>11, <4>1, MarkedType DEF ResumeCharging, Phases, Reasons
      <3> QED BY <1>11, <3>1, Zenon DEF ResumeCharging, TypeInv, TypeOK,
                 ManagerOK, RuntimeOK
    <2>2. OperationOK' /\ PosOK'
      <3>1. stage' \in Stages /\ op' \in Ops /\ pos' \in 1 .. LastPos + 1
        BY <1>11 DEF ResumeCharging, TypeInv, TypeOK, OperationOK, PosOK,
           Stages, Ops,
                    LastPos
      <3>2. PosOK'
        BY <1>11 DEF ResumeCharging, TypeInv, TypeOK, OperationOK, PosOK,
           LastPos
      <3>3. failed' \in BOOLEAN /\ final' \in Phases
        BY <1>11, Zenon DEF ResumeCharging, TypeInv, TypeOK, OperationOK,
           Phases
      <3>4. request' \in Settings /\ captured' \in [Managed -> Val]
        BY <1>11, RuntimeTypes DEF ResumeCharging, TypeInv, TypeOK, OperationOK
      <3> QED BY <3>1, <3>2, <3>3, <3>4 DEF OperationOK
    <2>3. StoreOK'
      BY <1>11, Zenon DEF ResumeCharging, TypeInv, TypeOK, StoreOK, store
    <2>4. WorldOK'
      <3>1. disk' \in RuntimeFile /\ faults' \in 0 .. MaxFaults
        BY <1>11, <2>1, SaveType DEF ResumeCharging, TypeInv, TypeOK, ManagerOK
      <3> QED BY <1>11, <3>1, Zenon DEF ResumeCharging, TypeInv, TypeOK,
                 WorldOK
    <2> QED BY <2>1, <2>2, <2>3, <2>4 DEF TypeInv, TypeOK
  <1>12. CASE RestoreStep
    <2>1. OperationOK' /\ PosOK'
      <3>1. stage' \in Stages /\ op' \in Ops /\ pos' \in 1 .. LastPos + 1
        BY <1>12 DEF RestoreStep, TypeInv, TypeOK, OperationOK, PosOK, Stages,
           Ops,
                    LastPos
      <3>2. PosOK'
        BY <1>12 DEF RestoreStep, TypeInv, TypeOK, OperationOK, PosOK, LastPos
      <3>3. failed' \in BOOLEAN /\ final' \in Phases
        BY <1>12, Zenon DEF RestoreStep, TypeInv, TypeOK, OperationOK, Phases
      <3>4. request' \in Settings /\ captured' \in [Managed -> Val]
        BY <1>12, RuntimeTypes DEF RestoreStep, TypeInv, TypeOK, OperationOK
      <3> QED BY <3>1, <3>2, <3>3, <3>4 DEF OperationOK
    <2> QED BY <1>12, <2>1, RestoreArgsType, StepType DEF RestoreStep
  <1>13. CASE RestoreStepFails
    <2>1. OperationOK' /\ PosOK'
      <3>1. stage' \in Stages /\ op' \in Ops /\ pos' \in 1 .. LastPos + 1
        BY <1>13 DEF RestoreStepFails, TypeInv, TypeOK, OperationOK, PosOK,
           Stages, Ops,
                    LastPos
      <3>2. PosOK'
        BY <1>13 DEF RestoreStepFails, TypeInv, TypeOK, OperationOK, PosOK,
           LastPos
      <3>3. failed' \in BOOLEAN /\ final' \in Phases
        BY <1>13, Zenon DEF RestoreStepFails, TypeInv, TypeOK, OperationOK,
           Phases
      <3>4. request' \in Settings /\ captured' \in [Managed -> Val]
        BY <1>13, RuntimeTypes DEF RestoreStepFails, TypeInv, TypeOK,
           OperationOK
      <3> QED BY <3>1, <3>2, <3>3, <3>4 DEF OperationOK
    <2> QED BY <1>13, <2>1, RestoreArgsType, StepType DEF RestoreStepFails
  <1>14. CASE FinishIncomplete
    <2>1. ManagerOK'
      BY <1>14, Zenon DEF FinishIncomplete, TypeInv, TypeOK, ManagerOK
    <2>2. OperationOK' /\ PosOK'
      BY <1>14, ReleaseType DEF FinishIncomplete
    <2>3. StoreOK'
      BY <1>14, Zenon DEF FinishIncomplete, TypeInv, TypeOK, StoreOK, store
    <2>4. WorldOK'
      <3>1. disk' \in RuntimeFile /\ faults' \in 0 .. MaxFaults
        BY <1>14, <2>1, SaveType DEF FinishIncomplete, TypeInv, TypeOK,
           ManagerOK
      <3> QED BY <1>14, <3>1, Zenon DEF FinishIncomplete, TypeInv, TypeOK,
                 WorldOK
    <2> QED BY <2>1, <2>2, <2>3, <2>4 DEF TypeInv, TypeOK
  <1>15. CASE FinishRestore
    <2>1. ManagerOK'
      <3>1. RuntimeOK(runtime')
        <4>1. RuntimeOK(runtime) /\ final \in Phases
          BY DEF TypeInv, TypeOK, ManagerOK, OperationOK, RuntimeOK
        <4> QED BY <1>15, <4>1, MarkedType DEF FinishRestore, Phases, Reasons
      <3> QED BY <1>15, <3>1, Zenon DEF FinishRestore, TypeInv, TypeOK,
                 ManagerOK, RuntimeOK
    <2>2. OperationOK' /\ PosOK'
      BY <1>15, ReleaseType DEF FinishRestore
    <2>3. StoreOK'
      BY <1>15, Zenon DEF FinishRestore, TypeInv, TypeOK, StoreOK, store
    <2>4. WorldOK'
      BY <1>15, <2>1, Zenon DEF FinishRestore, TypeInv, TypeOK, WorldOK,
         ManagerOK
    <2> QED BY <2>1, <2>2, <2>3, <2>4 DEF TypeInv, TypeOK
  <1>16. CASE FinishSaveFails
    <2>1. ManagerOK'
      <3>1. RuntimeOK(runtime')
        <4>1. RuntimeOK(runtime) /\ final \in Phases
          BY DEF TypeInv, TypeOK, ManagerOK, OperationOK, RuntimeOK
        <4> QED BY <1>16, <4>1, MarkedType DEF FinishSaveFails, Phases, Reasons
      <3> QED BY <1>16, <3>1, Zenon DEF FinishSaveFails, TypeInv, TypeOK,
                 ManagerOK, RuntimeOK
    <2>2. OperationOK' /\ PosOK'
      BY <1>16, ReleaseType DEF FinishSaveFails
    <2>3. StoreOK'
      BY <1>16, Zenon DEF FinishSaveFails, TypeInv, TypeOK, StoreOK, store
    <2>4. WorldOK'
      <3>1. faults' \in 0 .. MaxFaults
        BY <1>16, FaultType DEF FinishSaveFails, TypeInv, TypeOK, WorldOK
      <3>2. disk' \in RuntimeFile
        BY <1>16, <2>1 DEF FinishSaveFails, TypeInv, TypeOK, WorldOK, ManagerOK
      <3> QED BY <1>16, <3>1, <3>2, Zenon DEF FinishSaveFails, TypeInv,
                 TypeOK, WorldOK
    <2> QED BY <2>1, <2>2, <2>3, <2>4 DEF TypeInv, TypeOK
  <1>17. CASE Cancel
    BY <1>17, EnterRestoreType DEF Cancel, Phases, FinalPhases, Reasons, Ops
  <1>18. CASE EvaluateLinkLost
    <2>1. ManagerOK'
      <3>1. RuntimeOK(runtime')
        <4>1. RuntimeOK(runtime) /\ final \in Phases
          BY DEF TypeInv, TypeOK, ManagerOK, OperationOK, RuntimeOK
        <4> QED BY <1>18, <4>1, MarkedType DEF EvaluateLinkLost, Phases,
                   Reasons
      <3> QED BY <1>18, <3>1, Zenon DEF EvaluateLinkLost, TypeInv, TypeOK,
                 ManagerOK, RuntimeOK
    <2>2. OperationOK' /\ PosOK'
      BY <1>18, Zenon DEF EvaluateLinkLost, TypeInv, TypeOK, OperationOK, PosOK
    <2>3. StoreOK'
      BY <1>18, Zenon DEF EvaluateLinkLost, TypeInv, TypeOK, StoreOK, store
    <2>4. WorldOK'
      <3>1. disk' \in RuntimeFile /\ faults' \in 0 .. MaxFaults
        BY <1>18, <2>1, SaveType DEF EvaluateLinkLost, TypeInv, TypeOK,
           ManagerOK
      <3> QED BY <1>18, <3>1, Zenon DEF EvaluateLinkLost, TypeInv, TypeOK,
                 WorldOK
    <2> QED BY <2>1, <2>2, <2>3, <2>4 DEF TypeInv, TypeOK
  <1>19. CASE EvaluateRetry
    <2>1. runtime.reason \in Reasons
      BY DEF TypeInv, TypeOK, ManagerOK, RuntimeFile
    <2> QED BY <1>19, <2>1, FinalPhaseType,
               EnterRestoreType DEF EvaluateRetry, Ops
  <1>20. CASE EvaluateTimeout
    BY <1>20, EnterRestoreType DEF EvaluateTimeout, Phases, FinalPhases,
       Reasons, Ops
  <1>21. CASE EvaluateResume
    <2>1. ManagerOK'
      BY <1>21, Zenon DEF EvaluateResume, TypeInv, TypeOK, ManagerOK
    <2>2. OperationOK' /\ PosOK'
      <3>1. stage' \in Stages /\ op' \in Ops /\ pos' \in 1 .. LastPos + 1
        BY <1>21 DEF EvaluateResume, Monitoring, Evaluating, TypeInv, TypeOK,
           OperationOK, PosOK, Stages, Ops,
                    LastPos
      <3>2. PosOK'
        BY <1>21 DEF EvaluateResume, Monitoring, Evaluating, TypeInv, TypeOK,
           OperationOK, PosOK, LastPos
      <3>3. failed' \in BOOLEAN /\ final' \in Phases
        BY <1>21, Zenon DEF EvaluateResume, Monitoring, Evaluating, TypeInv,
           TypeOK, OperationOK, Phases
      <3>4. request' \in Settings /\ captured' \in [Managed -> Val]
        BY <1>21, RuntimeTypes DEF EvaluateResume, Monitoring, Evaluating,
           TypeInv, TypeOK, OperationOK
      <3> QED BY <3>1, <3>2, <3>3, <3>4 DEF OperationOK
    <2>3. StoreOK'
      BY <1>21, Zenon DEF EvaluateResume, TypeInv, TypeOK, StoreOK, store
    <2>4. WorldOK'
      BY <1>21, Zenon DEF EvaluateResume, TypeInv, TypeOK, WorldOK
    <2> QED BY <2>1, <2>2, <2>3, <2>4 DEF TypeInv, TypeOK
  <1>22. CASE EvaluateObserve
    BY <1>22, EnterRestoreType DEF EvaluateObserve, Phases, FinalPhases,
       Reasons, Ops, StopOn
  <1>23. CASE ObserveResumed
    <2>1. CASE Release /\ UNCHANGED <<runtime, disk, faults>>
      <3>1. ManagerOK'
        BY <1>23, <2>1, Zenon DEF ObserveResumed, TypeInv, TypeOK, ManagerOK
      <3>2. OperationOK' /\ PosOK'
        BY <2>1, ReleaseType
      <3>3. StoreOK'
        BY <1>23, Zenon DEF ObserveResumed, TypeInv, TypeOK, StoreOK, store
      <3>4. WorldOK'
        BY <1>23, <2>1, Zenon DEF ObserveResumed, TypeInv, TypeOK, WorldOK
      <3> QED BY <3>1, <3>2, <3>3, <3>4 DEF TypeInv, TypeOK
    <2>2. ASSUME NEW r \in Reading, StopOn(r),
                 UNCHANGED <<request, captured>>
          PROVE  TypeInv'
      BY <1>23, <2>2, EnterRestoreType
      DEF ObserveResumed, StopOn, Phases, FinalPhases, Reasons, Ops
    <2> QED BY <1>23, <2>1, <2>2 DEF ObserveResumed
  <1>24. CASE PollFast
    <2>1. ManagerOK'
      BY <1>24, Zenon DEF PollFast, manager, TypeInv, TypeOK, ManagerOK
    <2>2. OperationOK' /\ PosOK'
      BY <1>24, Zenon DEF PollFast, manager, TypeInv, TypeOK, OperationOK,
         PosOK
    <2>3. StoreOK'
      BY <1>24, Zenon DEF PollFast, TypeInv, TypeOK, StoreOK, store
    <2>4. WorldOK'
      BY <1>24, Zenon DEF PollFast, TypeInv, TypeOK, WorldOK
    <2> QED BY <2>1, <2>2, <2>3, <2>4 DEF TypeInv, TypeOK
  <1>25. CASE \E read \in SUBSET Managed: PollSlow(read)
    <2> PICK read \in SUBSET Managed: PollSlow(read)
      BY <1>25
    <2>1. ManagerOK'
      BY Zenon DEF PollSlow, manager, TypeInv, TypeOK, ManagerOK
    <2>2. OperationOK' /\ PosOK'
      BY Zenon DEF PollSlow, manager, TypeInv, TypeOK, OperationOK, PosOK
    <2>3. StoreOK'
      <3>1. tele' \in [Managed -> Val \cup {NoVal}]
        BY DEF PollSlow, TypeInv, TypeOK, StoreOK, WorldOK, RegVals, Managed,
               Reg, CurrentReg, CutoffReg
      <3> QED BY <3>1, Zenon DEF PollSlow, TypeInv, TypeOK, StoreOK
    <2>4. WorldOK'
      BY Zenon DEF PollSlow, TypeInv, TypeOK, WorldOK
    <2> QED BY <2>1, <2>2, <2>3, <2>4 DEF TypeInv, TypeOK
  <1>26. CASE PollFails
    <2>1. ManagerOK'
      BY <1>26, Zenon DEF PollFails, manager, TypeInv, TypeOK, ManagerOK
    <2>2. OperationOK' /\ PosOK'
      BY <1>26, Zenon DEF PollFails, manager, TypeInv, TypeOK, OperationOK,
         PosOK
    <2>3. StoreOK'
      BY <1>26, Zenon DEF PollFails, TypeInv, TypeOK, StoreOK, store
    <2>4. WorldOK'
      <3>1. faults' \in 0 .. MaxFaults
        BY <1>26, FaultType DEF PollFails, TypeInv, TypeOK, WorldOK
      <3> QED BY <1>26, <3>1, Zenon DEF PollFails, TypeInv, TypeOK, WorldOK
    <2> QED BY <2>1, <2>2, <2>3, <2>4 DEF TypeInv, TypeOK
  <1>27. CASE DeadlinePasses
    <2>1. ManagerOK'
      BY <1>27, Zenon DEF DeadlinePasses, manager, TypeInv, TypeOK, ManagerOK
    <2>2. OperationOK' /\ PosOK'
      BY <1>27, Zenon DEF DeadlinePasses, manager, TypeInv, TypeOK,
         OperationOK, PosOK
    <2>3. StoreOK'
      BY <1>27, Zenon DEF DeadlinePasses, TypeInv, TypeOK, StoreOK, store
    <2>4. WorldOK'
      BY <1>27, Zenon DEF DeadlinePasses, TypeInv, TypeOK, WorldOK
    <2> QED BY <2>1, <2>2, <2>3, <2>4 DEF TypeInv, TypeOK
  <1>28. CASE PanelWrite
    <2>1. ManagerOK'
      BY <1>28, Zenon DEF PanelWrite, manager, TypeInv, TypeOK, ManagerOK
    <2>2. OperationOK' /\ PosOK'
      BY <1>28, Zenon DEF PanelWrite, manager, TypeInv, TypeOK, OperationOK,
         PosOK
    <2>3. StoreOK'
      BY <1>28, Zenon DEF PanelWrite, TypeInv, TypeOK, StoreOK, store
    <2>4. WorldOK'
      <3>1. inv' \in RegVals /\ original' \in RegVals
        BY <1>28 DEF PanelWrite, TypeInv, TypeOK, WorldOK, RegVals
      <3> QED BY <1>28, <3>1, Zenon DEF PanelWrite, TypeInv, TypeOK, WorldOK
    <2> QED BY <2>1, <2>2, <2>3, <2>4 DEF TypeInv, TypeOK
  <1>29. CASE Crash
    <2>1. ManagerOK'
      <3>1. RuntimeOK(runtime')
        BY <1>29, RuntimeTypes DEF Crash, RuntimeOK, IdleRuntime
      <3> QED BY <1>29, <3>1, Zenon DEF Crash, TypeInv, TypeOK, ManagerOK,
                 RuntimeOK
    <2>2. OperationOK' /\ PosOK'
      BY <1>29, ReleaseType DEF Crash
    <2>3. StoreOK'
      <3>1. tele' \in [Managed -> Val \cup {NoVal}]
        BY <1>29 DEF Crash
      <3> QED BY <1>29, <3>1, Zenon DEF Crash, StoreOK
    <2>4. WorldOK'
      <3>1. faults' \in 0 .. MaxFaults
        BY <1>29, FaultType DEF Crash, TypeInv, TypeOK, WorldOK
      <3> QED BY <1>29, <3>1, Zenon DEF Crash, TypeInv, TypeOK, WorldOK
    <2> QED BY <2>1, <2>2, <2>3, <2>4 DEF TypeInv, TypeOK
  <1>30. CASE Boot
    <2>1. ManagerOK'
      <3>1. RuntimeOK(runtime') /\ disk.active \in BOOLEAN
        BY <1>30 DEF Boot, Load, RuntimeOK, RuntimeFile, Phases, TypeInv,
           TypeOK,
                    WorldOK
      <3> QED BY <1>30, <3>1, Zenon DEF Boot, TypeInv, TypeOK, ManagerOK,
                 RuntimeOK
    <2>2. OperationOK' /\ PosOK'
      BY <1>30, Zenon DEF Boot, TypeInv, TypeOK, OperationOK, PosOK
    <2>3. StoreOK'
      BY <1>30, Zenon DEF Boot, TypeInv, TypeOK, StoreOK, store
    <2>4. WorldOK'
      BY <1>30, Zenon DEF Boot, TypeInv, TypeOK, WorldOK
    <2> QED BY <2>1, <2>2, <2>3, <2>4 DEF TypeInv, TypeOK
  <1>31. CASE UNCHANGED vars
    BY <1>31 DEF vars, manager, store, TypeInv, TypeOK, ManagerOK, OperationOK,
                StoreOK, WorldOK, PosOK
  <1> QED
    BY <1>1, <1>2, <1>3, <1>4, <1>5, <1>6, <1>7, <1>8, <1>9, <1>10, <1>11,
       <1>12, <1>13, <1>14, <1>15, <1>16, <1>17, <1>18, <1>19, <1>20, <1>21,
       <1>22, <1>23, <1>24, <1>25, <1>26, <1>27, <1>28, <1>29, <1>30, <1>31
    DEF Next, Start, Apply, Restore, Evaluate, Poll, World

\* Type correctness: in particular a loaded file always has a phase
\* (manager.go:605-607) and every write names a register in range.
THEOREM TypeCorrect == Spec => []TypeOK
  <1>1. Spec => []TypeInv
    BY InitTypeInv, NextTypeInv, PTL DEF Spec
  <1>2. TypeInv => TypeOK
    BY DEF TypeInv
  <1> QED BY <1>1, <1>2, PTL
=============================================================================
