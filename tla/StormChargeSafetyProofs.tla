----------------------- MODULE StormChargeSafetyProofs -----------------------
(***************************************************************************)
(* The safety properties of StormCharge, from its inductive invariant.     *)
(***************************************************************************)
EXTENDS StormChargeProofs

USE SlotWordsAssumption, ValAssumption, StormSlotsAssumption,
    RequestsAssumption, InitialAssumption, BoundsAssumption

---------------------------------------------------------------------------
(* Layer one: memory and file.                                             *)

\* The phases the manager passes to restoreLocked with its reasons.
LEMMA FinalPhaseValues ==
    /\ FinalPhaseForReason("start_failed") = "error"
    /\ FinalPhaseForReason("persistence_failed") = "error"
    /\ FinalPhaseForReason("fault") = "error"
    /\ FinalPhaseForReason("manual_cancel") = "cancelled"
    /\ FinalPhaseForReason("grid_lost") = "cancelled"
    /\ FinalPhaseForReason("timeout") = "timed_out"
    /\ FinalPhaseForReason("target_reached") = "completed"
  BY DEF FinalPhaseForReason

\* The fields of an idle record and of the first release's file.
LEMMA IdleFields ==
    /\ ~IdleRuntime.active /\ IdleRuntime.phase = "idle"
    /\ ~OldRuntime.active /\ OldRuntime.phase = ""
  BY DEF IdleRuntime, OldRuntime

\* The first layer holds when the process is first started.
LEMMA InitControl == Init => ControlInv
  BY IdleFields
  DEF Init, ControlInv, Agree, PhaseFits, FinalPhaseMatchesReason,
      NoImmortalSession, AfterSave, FinalPhases

\* Entering restoreLocked with an active session.
LEMMA EnterRestoreControl ==
    ASSUME TypeInv, ControlInv, up, runtime.active,
           NEW rs \in Reasons, NEW from, UNCHANGED up,
           BeginRestore(FinalPhaseForReason(rs), rs, from)
    PROVE  ControlInv'
  <1>1. /\ runtime'.active /\ runtime'.phase = "restoring"
        /\ runtime'.reason = rs /\ runtime'.version = 2
        /\ runtime'.previous = runtime.previous
    BY DEF TypeInv, TypeOK, ManagerOK, RuntimeFile, BeginRestore
  <1>2. stage' = "restore" /\ final' = FinalPhaseForReason(rs)
    BY DEF BeginRestore
  <1>3. disk.active /\ disk.previous = runtime.previous
    BY DEF ControlInv, Agree
  <1>4. CASE disk' = runtime'
    BY <1>1, <1>2, <1>4
    DEF ControlInv, Agree, PhaseFits, FinalPhaseMatchesReason,
        NoImmortalSession, AfterSave, FinalPhases
  <1>5. CASE disk' = disk
    BY <1>1, <1>2, <1>3, <1>5
    DEF ControlInv, Agree, PhaseFits, FinalPhaseMatchesReason,
        NoImmortalSession, AfterSave, FinalPhases
  <1> QED BY <1>4, <1>5 DEF BeginRestore, SaveIgnored

\* An operation of an active session returns without touching anything.
LEMMA ReturnControl ==
    ASSUME ControlInv, up, runtime.active, stage' = "idle",
           UNCHANGED <<up, runtime, disk>>
    PROVE  ControlInv'
  <1>1. Agree'
    BY DEF ControlInv, Agree, AfterSave
  <1>2. PhaseFits'
    BY DEF ControlInv, PhaseFits
  <1>3. FinalPhaseMatchesReason' /\ NoImmortalSession'
    BY DEF ControlInv, FinalPhaseMatchesReason, NoImmortalSession
  <1> QED BY <1>1, <1>2, <1>3 DEF ControlInv

\* No step breaks the agreement of memory and file: one case per action.
LEMMA NextControl == TypeInv /\ ControlInv /\ [Next]_vars => ControlInv'
  <1> SUFFICES ASSUME TypeInv, ControlInv, [Next]_vars PROVE ControlInv'
    OBVIOUS
  <1> USE DEF TypeInv, TypeOK, ManagerOK, WorldOK, RuntimeFile, ControlInv,
         Agree, PhaseFits,
         FinalPhaseMatchesReason, NoImmortalSession, AfterSave, FinalPhases,
         Release, SaveIgnored, BeginRestore, manager
  <1>1. CASE StartSnapshot
    BY <1>1 DEF StartSnapshot
  <1>2. CASE StartCapture
    <2>1. /\ runtime'.active /\ runtime'.phase = "starting"
          /\ runtime'.version = 2 /\ runtime'.deadline
      BY <1>2 DEF StartCapture, StartedRuntime
    <2>2. up /\ disk' = runtime' /\ stage' = "apply" /\ up' = up
      BY <1>2 DEF StartCapture
    <2> QED BY <2>1, <2>2
  <1>3. CASE StartReadFails
    BY <1>3 DEF StartReadFails
  <1>4. CASE StartSaveFails
    BY <1>4, IdleFields DEF StartSaveFails
  <1>5. CASE ApplyWrite
    BY <1>5 DEF ApplyWrite
  <1>6. CASE ApplyWriteFails
    BY <1>6 DEF ApplyWriteFails
  <1>7. CASE AbortStart
    BY <1>7, FinalPhaseValues, EnterRestoreControl DEF Reasons, AbortStart
  <1>8. CASE AbortResume
    BY <1>8 DEF AbortResume
  <1>9. CASE StartCharging
    BY <1>9 DEF StartCharging
  <1>10. CASE StartChargingSaveFails
    BY <1>10, FinalPhaseValues DEF StartChargingSaveFails
  <1>11. CASE ResumeCharging
    BY <1>11 DEF ResumeCharging
  <1>12. CASE RestoreStep
    BY <1>12 DEF RestoreStep
  <1>13. CASE RestoreStepFails
    BY <1>13 DEF RestoreStepFails
  <1>14. CASE FinishIncomplete
    BY <1>14 DEF FinishIncomplete
  <1>15. CASE FinishRestore
    BY <1>15 DEF FinishRestore
  <1>16. CASE FinishSaveFails
    BY <1>16 DEF FinishSaveFails
  <1>17. CASE Cancel
    BY <1>17, FinalPhaseValues, EnterRestoreControl DEF Reasons, Cancel
  <1>18. CASE EvaluateLinkLost
    BY <1>18 DEF EvaluateLinkLost, Evaluating
  <1>19. CASE EvaluateRetry
    BY <1>19, EnterRestoreControl DEF EvaluateRetry, Evaluating
  <1>20. CASE EvaluateTimeout
    BY <1>20, FinalPhaseValues, EnterRestoreControl DEF Reasons,
       EvaluateTimeout, Evaluating
  <1>21. CASE EvaluateResume
    BY <1>21 DEF EvaluateResume, Monitoring, Evaluating
  <1>22. CASE EvaluateObserve
    <2>1. \E rs \in Reasons: BeginRestore(FinalPhaseForReason(rs), rs, "stop")
      BY <1>22, FinalPhaseValues, Zenon DEF Reasons, EvaluateObserve, StopOn
    <2>2. up /\ runtime.active /\ UNCHANGED up
      BY <1>22 DEF EvaluateObserve, Monitoring, Evaluating
    <2> QED BY <2>1, <2>2, EnterRestoreControl
  <1>23. CASE ObserveResumed
    <2>1. up /\ runtime.active /\ UNCHANGED up
      BY <1>23 DEF ObserveResumed
    <2>2. CASE Release /\ UNCHANGED <<runtime, disk, faults>>
      <3>1. stage' = "idle" /\ UNCHANGED <<up, runtime, disk>>
        BY <2>1, <2>2
      <3> QED BY <2>1, <3>1, ReturnControl
    <2>3. CASE \E r \in Reading: StopOn(r)
      <3>1. \E rs \in Reasons: BeginRestore(FinalPhaseForReason(rs), rs, "stop")
        BY <2>3, FinalPhaseValues, Zenon DEF Reasons, StopOn
      <3> QED BY <2>1, <3>1, EnterRestoreControl
    <2> QED BY <1>23, <2>2, <2>3 DEF ObserveResumed
  <1>24. CASE PollFast
    BY <1>24 DEF PollFast
  <1>25. CASE \E read \in SUBSET Managed: PollSlow(read)
    <2>1. UNCHANGED <<manager, disk>>
      BY <1>25 DEF PollSlow
    <2> QED BY <2>1
  <1>26. CASE PollFails
    BY <1>26 DEF PollFails
  <1>27. CASE DeadlinePasses
    BY <1>27 DEF DeadlinePasses
  <1>28. CASE PanelWrite
    BY <1>28 DEF PanelWrite
  <1>29. CASE Crash
    BY <1>29, IdleFields DEF Crash
  <1>30. CASE Boot
    BY <1>30 DEF Boot, Load
  <1>31. CASE UNCHANGED vars
    BY <1>31 DEF vars, manager
  <1> QED
    BY <1>1, <1>2, <1>3, <1>4, <1>5, <1>6, <1>7, <1>8, <1>9, <1>10, <1>11,
       <1>12, <1>13, <1>14, <1>15, <1>16, <1>17, <1>18, <1>19, <1>20, <1>21,
       <1>22, <1>23, <1>24, <1>25, <1>26, <1>27, <1>28, <1>29, <1>30, <1>31
    DEF Next, Start, Apply, Restore, Evaluate, Poll, World

\* The first layer is an invariant.
THEOREM ControlInvariant == Spec => [](TypeInv /\ ControlInv)
  BY InitTypeInv, NextTypeInv, InitControl, NextControl, PTL DEF Spec

\* However a session ends, its final phase is the one its reason calls for.
THEOREM FinalPhaseCorrect == Spec => []FinalPhaseMatchesReason
  <1>1. ControlInv => FinalPhaseMatchesReason
    BY DEF ControlInv
  <1> QED BY <1>1, ControlInvariant, PTL

\* No active session, in memory or on disk, is without a way to end.
THEOREM NoSessionIsImmortal == Spec => []NoImmortalSession
  <1>1. ControlInv => NoImmortalSession
    BY DEF ControlInv
  <1> QED BY <1>1, ControlInvariant, PTL
---------------------------------------------------------------------------
(* Layer two: what the inverter is owed.                                   *)

\* Schedule words are always tracked, and of the managed two those that the
\* cache is right about.
LEMMA ManagedTracked ==
    /\ Tracked \subseteq Reg /\ Managed \subseteq Reg
    /\ Schedule \subseteq Tracked
    /\ \A r \in Managed: r \in Tracked <=> r \notin Uncached
  <1>1. Schedule \subseteq Reg /\ Managed \subseteq Reg
    BY DEF Managed, Schedule, Reg, CurrentReg, CutoffReg
  <1>2. Schedule \cap Managed = {}
    BY DEF Managed, Schedule, CurrentReg, CutoffReg
  <1> QED BY <1>1, <1>2, Zenon DEF Tracked, Uncached

\* Nothing is owed before the first session.
LEMMA InitDebt == ASSUME NEW T \in SUBSET Tracked PROVE Init => DebtInv(T)
  BY IdleFields, ManagedTracked
  DEF Init, DebtInv, Owed, CacheFits, RestoreProgress, OldRuntime

\* While a session stays open, only the file's captured values matter.
LEMMA OpenSession ==
    ASSUME NEW T, DebtInv(T), disk.active, disk'.active,
           disk'.previous = disk.previous, original' = original, stage' # "capture"
    PROVE  Owed(T)' /\ CacheFits(T)'
  BY DEF DebtInv, Owed, CacheFits

\* Entering restoreLocked: nothing is given back yet.
LEMMA EnterRestoreDebt ==
    ASSUME NEW T, TypeInv, ControlInv, DebtInv(T), up, runtime.active,
           NEW ph, NEW rs, NEW from, BeginRestore(ph, rs, from),
           UNCHANGED <<inv, original>>
    PROVE  DebtInv(T)'
  <1>1. /\ disk.active /\ disk'.active /\ disk'.previous = disk.previous
        /\ stage' = "restore" /\ pos' = 1 /\ ~failed'
    BY DEF TypeInv, TypeOK, ManagerOK, RuntimeFile, ControlInv, Agree,
           BeginRestore, SaveIgnored
  <1>2. Owed(T)' /\ CacheFits(T)'
    BY <1>1, OpenSession
  <1>3. RestoreProgress(T)'
    BY <1>1 DEF RestoreProgress
  <1> QED BY <1>2, <1>3 DEF DebtInv

\* An operation of an open session returns, or goes on with something else
\* than a restore.
LEMMA OpenRelease ==
    ASSUME NEW T, ControlInv, DebtInv(T), up, runtime.active,
           disk'.active, disk'.previous = disk.previous, original' = original,
           stage' \in {"idle", "apply", "abort", "applied", "observe"}, ~failed'
    PROVE  DebtInv(T)'
  <1>1. Owed(T)' /\ CacheFits(T)'
    BY OpenSession DEF ControlInv, Agree
  <1> QED BY <1>1 DEF DebtInv, RestoreProgress

\* No step loses what the owner is owed: one case per action.
LEMMA NextDebt ==
    ASSUME NEW T \in SUBSET Tracked, TypeInv, ControlInv, DebtInv(T), [Next]_vars
    PROVE  DebtInv(T)'
  <1>1. CASE StartSnapshot
    <2>1. /\ stage' = "capture" /\ captured' = tele /\ ~failed' /\ ~disk.active
          /\ UNCHANGED <<disk, inv, original, tele>>
      BY <1>1 DEF StartSnapshot, store, ControlInv, Agree, DebtInv,
         RestoreProgress
    <2>2. \A r \in Managed: tele[r] # NoVal
      BY <1>1 DEF StartSnapshot, HasRequiredTelemetry
    <2> QED BY <2>1, <2>2 DEF DebtInv, Owed, CacheFits, RestoreProgress
  <1>2. CASE StartCapture
    <2>1. /\ ~disk.active /\ ~failed /\ ~failed'
          /\ stage' = "apply" /\ UNCHANGED <<inv, original>>
      BY <1>2 DEF StartCapture, ControlInv, Agree, DebtInv, RestoreProgress
    <2>2. disk'.active /\ disk'.previous = PreviousSettings
      BY <1>2 DEF StartCapture, StartedRuntime
    <2>3. \A r \in T: PreviousSettings[r] = original[r]
      BY <1>2, <2>1, ManagedTracked
      DEF StartCapture, PreviousSettings, DebtInv, Owed, CacheFits
    <2> QED BY <2>1, <2>2, <2>3 DEF DebtInv, Owed, CacheFits, RestoreProgress
  <1>3. CASE StartReadFails
    BY <1>3 DEF StartReadFails, Release, DebtInv, Owed, CacheFits,
       RestoreProgress
  <1>4. CASE StartSaveFails
    BY <1>4 DEF StartSaveFails, Release, DebtInv, Owed, CacheFits,
       RestoreProgress
  <1>5. CASE ApplyWrite
    <2>1. /\ up /\ runtime.active /\ disk.active
          /\ stage \in AfterSave \/ stage = "idle"
      BY <1>5 DEF ApplyWrite, ControlInv, Agree, AfterSave
    <2>2. /\ disk'.active /\ disk'.previous = disk.previous
          /\ original' = original /\ ~failed'
          /\ stage' \in {"idle", "apply", "abort", "applied", "observe"}
      BY <1>5, <2>1 DEF ApplyWrite, ControlInv, Agree, TypeInv, TypeOK,
         ManagerOK, RuntimeFile, DebtInv, RestoreProgress
    <2> QED BY <2>1, <2>2, OpenRelease
  <1>6. CASE ApplyWriteFails
    <2>1. /\ up /\ runtime.active /\ disk.active
          /\ stage \in AfterSave \/ stage = "idle"
      BY <1>6 DEF ApplyWriteFails, ControlInv, Agree, AfterSave
    <2>2. /\ disk'.active /\ disk'.previous = disk.previous
          /\ original' = original /\ ~failed'
          /\ stage' \in {"idle", "apply", "abort", "applied", "observe"}
      BY <1>6, <2>1 DEF ApplyWriteFails, ControlInv, Agree, TypeInv, TypeOK,
         ManagerOK, RuntimeFile, DebtInv, RestoreProgress
    <2> QED BY <2>1, <2>2, OpenRelease
  <1>7. CASE AbortStart
    BY <1>7, EnterRestoreDebt DEF AbortStart, Evaluating, ControlInv, Agree,
       AfterSave
  <1>8. CASE AbortResume
    <2>1. /\ up /\ runtime.active /\ disk.active
          /\ stage \in AfterSave \/ stage = "idle"
      BY <1>8 DEF AbortResume, ControlInv, Agree, AfterSave
    <2>2. /\ disk'.active /\ disk'.previous = disk.previous
          /\ original' = original /\ ~failed'
          /\ stage' \in {"idle", "apply", "abort", "applied", "observe"}
      BY <1>8, <2>1 DEF AbortResume, Release, SaveIgnored, ControlInv, Agree,
         TypeInv, TypeOK,
         ManagerOK, RuntimeFile, DebtInv, RestoreProgress
    <2> QED BY <2>1, <2>2, OpenRelease
  <1>9. CASE StartCharging
    <2>1. /\ up /\ runtime.active /\ disk.active
          /\ stage \in AfterSave \/ stage = "idle"
      BY <1>9 DEF StartCharging, ControlInv, Agree, AfterSave
    <2>2. /\ disk'.active /\ disk'.previous = disk.previous
          /\ original' = original /\ ~failed'
          /\ stage' \in {"idle", "apply", "abort", "applied", "observe"}
      BY <1>9, <2>1 DEF StartCharging, Release, ControlInv, Agree, TypeInv,
         TypeOK,
         ManagerOK, RuntimeFile, DebtInv, RestoreProgress
    <2> QED BY <2>1, <2>2, OpenRelease
  <1>10. CASE StartChargingSaveFails
    <2>1. up /\ runtime.active /\ disk.active
      BY <1>10 DEF StartChargingSaveFails, ControlInv, Agree, AfterSave
    <2>2. /\ disk'.active /\ disk'.previous = disk.previous
          /\ original' = original /\ stage' = "restore" /\ pos' = 1 /\ ~failed'
      BY <1>10, <2>1 DEF StartChargingSaveFails, ControlInv, Agree, TypeInv,
         TypeOK, ManagerOK, RuntimeFile, DebtInv, RestoreProgress
    <2>3. Owed(T)' /\ CacheFits(T)'
      BY <2>1, <2>2, OpenSession
    <2> QED BY <2>2, <2>3 DEF DebtInv, RestoreProgress
  <1>11. CASE ResumeCharging
    <2>1. /\ up /\ runtime.active /\ disk.active
          /\ stage \in AfterSave \/ stage = "idle"
      BY <1>11 DEF ResumeCharging, ControlInv, Agree, AfterSave
    <2>2. /\ disk'.active /\ disk'.previous = disk.previous
          /\ original' = original /\ ~failed'
          /\ stage' \in {"idle", "apply", "abort", "applied", "observe"}
      BY <1>11, <2>1 DEF ResumeCharging, SaveIgnored, ControlInv, Agree,
         TypeInv, TypeOK,
         ManagerOK, RuntimeFile, DebtInv, RestoreProgress
    <2> QED BY <2>1, <2>2, OpenRelease
  <1>12. CASE RestoreStep
    <2> DEFINE r == RestoreReg(runtime.previous, pos)
    <2>1. r \in Reg /\ pos \in 1 .. LastPos
      BY <1>12, RestoreArgsType
      DEF RestoreStep, TypeInv, TypeOK, OperationOK, PosOK, LastPos
    <2>2. /\ up /\ runtime.active /\ disk.active
          /\ UNCHANGED <<runtime, disk, original, failed>> /\ pos' = pos + 1
          /\ stage' = IF pos = LastPos THEN "finish" ELSE "restore"
      BY <1>12 DEF RestoreStep, ControlInv, Agree, AfterSave
    <2>3. Owed(T)' /\ CacheFits(T)'
      BY <2>2, OpenSession
    <2>4. \A q \in Reg: q = r \/ GivenBack(q) => GivenBack(q)'
      BY <1>12, <2>1, <2>2 DEF RestoreStep, WriteSucceeds, GivenBack, TypeInv,
         TypeOK, WorldOK, StoreOK, RegVals
    <2>5. \A j \in 1 .. LastPos: RestoreReg(runtime.previous, j) \in Reg
      <3>1. runtime.previous \in RegVals
        BY DEF TypeInv, TypeOK, ManagerOK, RuntimeFile
      <3> QED BY <3>1, RestoreRegType
    <2>6. ASSUME ~failed, NEW j \in 1 .. pos,
                 RestoreReg(runtime.previous, j) \in T
          PROVE  GivenBack(RestoreReg(runtime.previous, j))'
      <3>1. j \in 1 .. LastPos
        BY <2>1 DEF LastPos
      <3>2. PICK q \in Reg: q = RestoreReg(runtime.previous, j)
        BY <2>5, <3>1
      <3>3. q = r \/ GivenBack(q)
        <4>1. CASE j = pos
          BY <3>2, <4>1
        <4>2. CASE j # pos
          <5>1. j \in 1 .. pos - 1
            BY <2>1, <4>2
          <5> QED BY <1>12, <2>6, <3>2, <5>1
                  DEF RestoreStep, DebtInv, RestoreProgress
        <4> QED BY <4>1, <4>2
      <3>4. GivenBack(q)'
        BY <2>4, <3>3
      <3>5. q = RestoreReg(runtime.previous, j)'
        BY <2>2, <3>2
      <3> QED BY <3>4, <3>5
    <2>7. pos' - 1 = pos
      BY <2>1, <2>2
    <2>8. RestoreProgress(T)'
      BY <1>12, <2>1, <2>2, <2>6, <2>7
      DEF RestoreStep, DebtInv, RestoreProgress, LastPos
    <2> QED BY <2>3, <2>8 DEF DebtInv
  <1>13. CASE RestoreStepFails
    <2>1. /\ up /\ runtime.active /\ disk.active /\ UNCHANGED <<disk, original>>
          /\ failed' /\ stage' \in {"restore", "finish"}
      BY <1>13 DEF RestoreStepFails, ControlInv, Agree, AfterSave
    <2>2. Owed(T)' /\ CacheFits(T)'
      BY <2>1, OpenSession
    <2>3. pos' >= SlotWords + 2
      BY <1>13 DEF RestoreStepFails, TypeInv, TypeOK, OperationOK, LastPos
    <2> QED BY <2>1, <2>2, <2>3 DEF DebtInv, RestoreProgress
  <1>14. CASE FinishIncomplete
    <2>1. /\ up /\ runtime.active /\ disk.active
          /\ stage \in AfterSave \/ stage = "idle"
      BY <1>14 DEF FinishIncomplete, ControlInv, Agree, AfterSave
    <2>2. /\ disk'.active /\ disk'.previous = disk.previous
          /\ original' = original /\ ~failed'
          /\ stage' \in {"idle", "apply", "abort", "applied", "observe"}
      BY <1>14, <2>1 DEF FinishIncomplete, Release, SaveIgnored, ControlInv,
         Agree, TypeInv, TypeOK,
         ManagerOK, RuntimeFile, DebtInv, RestoreProgress
    <2> QED BY <2>1, <2>2, OpenRelease
  <1>15. CASE FinishRestore
    <2>1. /\ up /\ runtime.active /\ disk.active /\ ~disk'.active
          /\ UNCHANGED <<inv, original, tele>> /\ stage' = "idle" /\ ~failed'
      BY <1>15 DEF FinishRestore, Release, store, ControlInv, Agree, AfterSave,
                  TypeInv, TypeOK, ManagerOK, RuntimeFile
    <2>2. \A r \in T: GivenBack(r)
      <3> TAKE r \in T
      <3>1. PICK j \in 1 .. LastPos: RestoreReg(runtime.previous, j) = r
        BY RestoreRegOnto, ManagedTracked
        DEF TypeInv, TypeOK, ManagerOK, RuntimeFile
      <3>2. j \in 1 .. pos - 1
        BY <1>15 DEF FinishRestore, DebtInv, RestoreProgress, LastPos
      <3> QED BY <1>15, <3>1, <3>2 DEF FinishRestore, DebtInv, RestoreProgress
    <2>3. \A r \in T: runtime.previous[r] = original[r]
      BY <2>1 DEF DebtInv, Owed, ControlInv, Agree
    <2> QED BY <2>1, <2>2, <2>3, ManagedTracked
            DEF DebtInv, Owed, CacheFits, RestoreProgress, GivenBack
  <1>16. CASE FinishSaveFails
    <2>1. /\ up /\ runtime.active /\ disk.active
          /\ stage \in AfterSave \/ stage = "idle"
      BY <1>16 DEF FinishSaveFails, ControlInv, Agree, AfterSave
    <2>2. /\ disk'.active /\ disk'.previous = disk.previous
          /\ original' = original /\ ~failed'
          /\ stage' \in {"idle", "apply", "abort", "applied", "observe"}
      BY <1>16, <2>1 DEF FinishSaveFails, Release, ControlInv, Agree, TypeInv,
         TypeOK,
         ManagerOK, RuntimeFile, DebtInv, RestoreProgress
    <2> QED BY <2>1, <2>2, OpenRelease
  <1>17. CASE Cancel
    BY <1>17, EnterRestoreDebt DEF Cancel, Evaluating, ControlInv, Agree,
       AfterSave
  <1>18. CASE EvaluateLinkLost
    <2>1. /\ up /\ runtime.active /\ disk.active
          /\ stage \in AfterSave \/ stage = "idle"
      BY <1>18 DEF EvaluateLinkLost, Monitoring, Evaluating, ControlInv,
         Agree, AfterSave
    <2>2. /\ disk'.active /\ disk'.previous = disk.previous
          /\ original' = original /\ ~failed'
          /\ stage' \in {"idle", "apply", "abort", "applied", "observe"}
      BY <1>18, <2>1 DEF EvaluateLinkLost, Evaluating, SaveIgnored,
         ControlInv, Agree, TypeInv, TypeOK,
         ManagerOK, RuntimeFile, DebtInv, RestoreProgress
    <2> QED BY <2>1, <2>2, OpenRelease
  <1>19. CASE EvaluateRetry
    BY <1>19, EnterRestoreDebt DEF EvaluateRetry, Evaluating, ControlInv,
       Agree, AfterSave
  <1>20. CASE EvaluateTimeout
    BY <1>20, EnterRestoreDebt DEF EvaluateTimeout, Evaluating, ControlInv,
       Agree, AfterSave
  <1>21. CASE EvaluateResume
    <2>1. /\ up /\ runtime.active /\ disk.active
          /\ stage \in AfterSave \/ stage = "idle"
      BY <1>21 DEF EvaluateResume, Monitoring, Evaluating, ControlInv, Agree,
         AfterSave
    <2>2. /\ disk'.active /\ disk'.previous = disk.previous
          /\ original' = original /\ ~failed'
          /\ stage' \in {"idle", "apply", "abort", "applied", "observe"}
      BY <1>21, <2>1 DEF EvaluateResume, Monitoring, Evaluating, ControlInv,
         Agree, TypeInv, TypeOK,
         ManagerOK, RuntimeFile, DebtInv, RestoreProgress
    <2> QED BY <2>1, <2>2, OpenRelease
  <1>22. CASE EvaluateObserve
    BY <1>22, EnterRestoreDebt DEF EvaluateObserve, StopOn, Monitoring,
       Evaluating
  <1>23. CASE ObserveResumed
    <2>1. up /\ runtime.active /\ disk.active
      BY <1>23 DEF ObserveResumed, ControlInv, Agree, AfterSave
    <2>2. CASE Release /\ UNCHANGED <<runtime, disk, faults>>
      BY <1>23, <2>1, <2>2, OpenRelease DEF ObserveResumed, Release
    <2>3. CASE \E r \in Reading: StopOn(r)
      BY <1>23, <2>1, <2>3, EnterRestoreDebt DEF ObserveResumed, StopOn
    <2> QED BY <1>23, <2>2, <2>3 DEF ObserveResumed
  <1>24. CASE PollFast
    BY <1>24 DEF PollFast, manager, DebtInv, Owed, CacheFits, RestoreProgress,
                GivenBack
  <1>25. CASE \E read \in SUBSET Managed: PollSlow(read)
    <2> PICK read \in SUBSET Managed: PollSlow(read)
      BY <1>25
    <2>1. UNCHANGED <<manager, disk, inv, original>>
      BY DEF PollSlow
    <2>2. \A r \in Managed: tele'[r] \in {inv[r], tele[r]}
      BY DEF PollSlow
    <2>3. Owed(T)'
      BY <2>1 DEF DebtInv, Owed
    <2>4. CacheFits(T)'
      BY <2>1, <2>2, ManagedTracked DEF manager, DebtInv, Owed, CacheFits
    <2>5. \A r: GivenBack(r) => GivenBack(r)'
      BY <2>1, <2>2 DEF GivenBack, manager
    <2>6. RestoreProgress(T)'
      BY <2>1, <2>5 DEF DebtInv, RestoreProgress, manager
    <2> QED BY <2>3, <2>4, <2>6 DEF DebtInv
  <1>26. CASE PollFails
    BY <1>26 DEF PollFails, manager, DebtInv, Owed, CacheFits, RestoreProgress,
                GivenBack
  <1>27. CASE DeadlinePasses
    BY <1>27 DEF DeadlinePasses, manager, store, DebtInv, Owed, CacheFits,
                RestoreProgress, GivenBack
  <1>28. CASE PanelWrite
    <2>1. PICK edit \in PanelEdits:
            /\ inv' = [inv EXCEPT ![edit[1]] = edit[2]]
            /\ original' = [original EXCEPT ![edit[1]] = edit[2]]
      BY <1>28 DEF PanelWrite
    <2>2. ~disk.active /\ stage = "idle" /\ UNCHANGED <<stage, failed, disk, tele>>
      BY <1>28 DEF PanelWrite, manager, store
    <2>3. \A r \in T: inv'[r] = original'[r]
      BY <2>1, <2>2, ManagedTracked
      DEF DebtInv, Owed, TypeInv, TypeOK, WorldOK, RegVals
    <2>4. edit[1] \in Reg /\ edit[2] \in Val /\ edit = <<edit[1], edit[2]>>
      BY BoundsAssumption
    <2>5. \A r \in Managed \ Uncached: original'[r] = original[r]
      <3>1. edit[1] \notin Managed \ Uncached
        BY <2>4 DEF Uncached
      <3> QED BY <2>1, <3>1, ManagedTracked
              DEF TypeInv, TypeOK, WorldOK, RegVals
    <2>6. Managed \cap T \subseteq Managed \ Uncached
      BY ManagedTracked
    <2> QED BY <2>2, <2>3, <2>5, <2>6
            DEF DebtInv, Owed, CacheFits, RestoreProgress
  <1>29. CASE Crash
    <2>1. /\ tele' = [r \in Managed |-> NoVal] /\ stage' = "idle" /\ ~failed'
          /\ UNCHANGED <<disk, inv, original>>
      BY <1>29 DEF Crash, Release
    <2> QED BY <2>1 DEF DebtInv, Owed, CacheFits, RestoreProgress
  <1>30. CASE Boot
    <2>1. stage = "idle" /\ ~failed
      BY <1>30 DEF Boot, ControlInv, Agree, DebtInv, RestoreProgress
    <2> QED BY <1>30, <2>1 DEF Boot, store, DebtInv, Owed, CacheFits,
               RestoreProgress
  <1>31. CASE UNCHANGED vars
    BY <1>31 DEF vars, manager, store, DebtInv, Owed, CacheFits,
       RestoreProgress, GivenBack
  <1> QED
    BY <1>1, <1>2, <1>3, <1>4, <1>5, <1>6, <1>7, <1>8, <1>9, <1>10, <1>11,
       <1>12, <1>13, <1>14, <1>15, <1>16, <1>17, <1>18, <1>19, <1>20, <1>21,
       <1>22, <1>23, <1>24, <1>25, <1>26, <1>27, <1>28, <1>29, <1>30, <1>31
    DEF Next, Start, Apply, Restore, Evaluate, Poll, World

\* The second layer is an invariant.
THEOREM DebtInvariant == Spec => []DebtInv(Tracked)
  <1>1. Init => DebtInv(Tracked)
    BY InitDebt
  <1>2. TypeInv /\ ControlInv /\ DebtInv(Tracked) /\ [Next]_vars
            => DebtInv(Tracked)'
    BY NextDebt
  <1> QED BY <1>1, <1>2, ControlInvariant, PTL DEF Spec

\* The timed charging schedule is as its owner left it whenever no session
\* is active, panel edits included.
THEOREM ScheduleIsGivenBack == Spec => []ScheduleGivenBack
  <1>1. ControlInv /\ DebtInv(Tracked) => ScheduleGivenBack
    <2>1. Schedule \subseteq Tracked
      BY ManagedTracked
    <2>2. ControlInv /\ up /\ ~runtime.active => ~disk.active
      BY DEF ControlInv, Agree
    <2> QED BY <2>1, <2>2 DEF DebtInv, Owed, ScheduleGivenBack
  <1> QED BY <1>1, ControlInvariant, DebtInvariant, PTL

\* If the panel is not used to change a managed register, every change of the
\* inverter is covered by the file first.
THEOREM WritesAreLoggedFirst ==
    ASSUME Uncached = {} PROVE Spec => []WriteAhead
  <1>1. TypeInv /\ ControlInv /\ DebtInv(Tracked) => WriteAhead
    <2> SUFFICES ASSUME TypeInv, ControlInv, DebtInv(Tracked), inv # original
                 PROVE  disk.version = 2 /\ disk.active
                        /\ disk.previous = original
      BY DEF WriteAhead
    <2>1. Tracked = Reg /\ inv \in RegVals /\ original \in RegVals
          /\ disk.previous \in RegVals
      BY DEF Tracked, TypeInv, TypeOK, WorldOK, RuntimeFile
    <2>2. disk.active
      BY <2>1 DEF DebtInv, Owed, RegVals
    <2>3. disk.version = 2
      BY <2>2 DEF ControlInv, Agree
    <2>4. disk.previous = original
      BY <2>1, <2>2 DEF DebtInv, Owed, RegVals
    <2> QED BY <2>2, <2>3, <2>4
  <1> QED BY <1>1, ControlInvariant, DebtInvariant, PTL

\* If the panel is not used to change a managed register, a manager that says
\* that no session is active has given back every register.
THEOREM NothingIsForgotten ==
    ASSUME Uncached = {} PROVE Spec => []IdleMeansRestored
  <1>1. TypeInv /\ ControlInv /\ DebtInv(Tracked) => IdleMeansRestored
    <2> SUFFICES ASSUME TypeInv, ControlInv, DebtInv(Tracked), up, ~runtime.active
                 PROVE  inv = original
      BY DEF IdleMeansRestored
    <2>1. Tracked = Reg /\ inv \in RegVals /\ original \in RegVals
      BY DEF Tracked, TypeInv, TypeOK, WorldOK
    <2>2. ~disk.active
      BY DEF ControlInv, Agree
    <2> QED BY <2>1, <2>2 DEF DebtInv, Owed, RegVals
  <1> QED BY <1>1, ControlInvariant, DebtInvariant, PTL


---------------------------------------------------------------------------
(* Layer three: what a session has put into the inverter.                  *)

\* Nothing claims to be applied.
NothingApplied ==
    /\ stage \notin {"apply", "applied"}
    /\ ~(/\ up /\ stage \in {"idle", "observe"} /\ runtime.active
         /\ runtime.phase = "charging" /\ ~resumePending)

\* Before the first session nothing is applied and nothing is torn.
LEMMA InitStorm == Init => StormInv
  BY DEF Init, StormInv, ApplyProgress, ChargingFits, NoTornSchedule

\* A step that leaves the inverter alone and ends with nothing applied.
LEMMA StormQuiet ==
    ASSUME StormInv, UNCHANGED <<inv, original>>, NothingApplied'
    PROVE  StormInv'
  BY DEF StormInv, NothingApplied, ApplyProgress, ChargingFits, NoTornSchedule

\* An apply that begins has passed no register yet.
LEMMA StormBegins ==
    ASSUME StormInv, UNCHANGED <<inv, original>>, stage' = "apply", pos' = 1
    PROVE  StormInv'
  BY DEF StormInv, ApplyProgress, ChargingFits, NoTornSchedule

\* A step that leaves the inverter and the manager alone.
LEMMA StormStutters ==
    ASSUME StormInv, UNCHANGED <<manager, inv, original>>
    PROVE  StormInv'
  BY DEF StormInv, ApplyProgress, ChargingFits, NoTornSchedule, manager

\* Entering restoreLocked puts nothing into the inverter.
LEMMA EnterRestoreStorm ==
    ASSUME StormInv, NEW ph, NEW rs, NEW from, BeginRestore(ph, rs, from),
           UNCHANGED <<inv, original>>
    PROVE  StormInv'
  BY StormQuiet DEF BeginRestore, NothingApplied

\* An apply that has passed every register has put them all in.
LEMMA AllApplied ==
    ASSUME TypeInv, StormInv, stage = "applied"
    PROVE  inv = StormRegs(runtime.settings)
  <1>1. pos = LastPos + 1 /\ LastPos \in Nat
    BY DEF TypeInv, PosOK, LastPos
  <1>2. \A r \in Reg: inv[r] = StormRegs(runtime.settings)[r]
    <2> TAKE r \in Reg
    <2>1. PICK j \in 1 .. LastPos: ApplyReg(j) = r
      BY ApplyRegOnto
    <2>2. j \in 1 .. pos - 1
      BY <1>1
    <2> QED BY <2>1, <2>2 DEF StormInv, ApplyProgress
  <1>3. inv \in RegVals /\ StormRegs(runtime.settings) \in RegVals
    BY StormRegsType DEF TypeInv, TypeOK, ManagerOK, WorldOK, RuntimeFile
  <1> QED BY <1>2, <1>3 DEF RegVals

\* A write changes one register, to the value sent or not at all.
LEMMA WriteEffect ==
    ASSUME TypeInv, NEW r \in Reg, NEW v,
           WriteSucceeds(r, v) \/ WriteFails(r, v)
    PROVE  /\ \A q \in Reg \ {r}: inv'[q] = inv[q]
           /\ inv'[r] \in {inv[r], v}
           /\ WriteSucceeds(r, v) => inv'[r] = v
  BY DEF WriteSucceeds, WriteFails, WriteRegisterFails, WriteHoldingFails,
         TypeInv, TypeOK, WorldOK, RegVals

\* The slot words, the enable word and the managed registers are different
\* registers.
LEMMA RegsApart ==
    /\ Slots \subseteq Reg /\ EnableReg \in Reg /\ EnableReg \notin Slots
    /\ Slots \subseteq Schedule /\ EnableReg \in Schedule
    /\ Schedule \cap Managed = {}
  BY DEF Slots, Reg, EnableReg, Schedule, Managed, CurrentReg, CutoffReg

\* The words of a storm schedule.
LEMMA StormWords ==
    ASSUME NEW s
    PROVE  \A r \in Slots: StormRegs(s)[r] = StormSlots[r]
  BY DEF StormRegs, Slots, Reg, EnableReg, CurrentReg, CutoffReg

\* A write of applyStormSettingsLocked, confirmed or not, tears no schedule:
\* the enable word comes when all slot words are in.
LEMMA ApplyTearsNothing ==
    ASSUME TypeInv, StormInv, stage = "apply", UNCHANGED original,
           \/ WriteSucceeds(ApplyReg(pos),
                            StormRegs(runtime.settings)[ApplyReg(pos)])
           \/ WriteFails(ApplyReg(pos),
                         StormRegs(runtime.settings)[ApplyReg(pos)])
    PROVE  NoTornSchedule'
  <1> DEFINE r == ApplyReg(pos)
             v == StormRegs(runtime.settings)[r]
  <1>1. r \in Reg
    BY ApplyArgsType
  <1>2. /\ \A q \in Reg \ {r}: inv'[q] = inv[q]
        /\ inv'[r] \in {inv[r], v}
    BY <1>1, WriteEffect
  <1>3. r \in Slots => v = StormSlots[r]
    BY StormWords
  <1>4. ASSUME r = EnableReg PROVE \A q \in Slots: inv[q] = StormSlots[q]
    <2> TAKE q \in Slots
    <2>1. pos = LastPos
      BY <1>4 DEF ApplyReg, ScheduleReg, EnableReg, LastPos, CutoffReg,
         CurrentReg, TypeInv, TypeOK, OperationOK
    <2>2. q + 2 \in 1 .. pos - 1 /\ ApplyReg(q + 2) = q
      BY <2>1 DEF ApplyReg, ScheduleReg, LastPos, Slots
    <2>3. inv[q] = StormRegs(runtime.settings)[q]
      BY <2>2 DEF StormInv, ApplyProgress
    <2> QED BY <2>3, StormWords
  <1>5. CASE r = EnableReg
    BY <1>2, <1>4, <1>5, RegsApart DEF NoTornSchedule
  <1>6. CASE r # EnableReg
    <2>1. inv'[EnableReg] = inv[EnableReg]
      BY <1>2, <1>6, RegsApart
    <2>2. ASSUME \A q \in Slots: inv[q] = StormSlots[q]
          PROVE  \A q \in Slots: inv'[q] = StormSlots[q]
      BY <1>2, <1>3, <2>2, RegsApart
    <2> QED BY <2>1, <2>2 DEF StormInv, NoTornSchedule
  <1> QED BY <1>5, <1>6

\* A write of restoreLocked, confirmed or not, tears no schedule: one that was
\* off is switched off before its slot words come back.
LEMMA RestoreTearsNothing ==
    ASSUME TypeInv, ControlInv, DebtInv(Tracked), StormInv,
           stage = "restore",
           UNCHANGED original,
           \/ WriteSucceeds(RestoreReg(runtime.previous, pos),
                     runtime.previous[RestoreReg(runtime.previous, pos)])
           \/ WriteFails(RestoreReg(runtime.previous, pos),
                     runtime.previous[RestoreReg(runtime.previous, pos)])
    PROVE  NoTornSchedule'
  <1> DEFINE r == RestoreReg(runtime.previous, pos)
             v == runtime.previous[r]
  <1>1. r \in Reg /\ pos \in 1 .. LastPos
    BY RestoreArgsType DEF TypeInv, TypeOK, OperationOK, PosOK, LastPos
  <1>2. /\ \A q \in Reg \ {r}: inv'[q] = inv[q]
        /\ inv'[r] \in {inv[r], v}
    BY <1>1, WriteEffect
  <1>3. runtime.previous[EnableReg] = original[EnableReg]
    BY RegsApart, ManagedTracked
    DEF ControlInv, Agree, AfterSave, DebtInv, Owed
  <1> SUFFICES ASSUME original[EnableReg] = 0, inv'[EnableReg] # 0
               PROVE  \A q \in Slots: inv'[q] = StormSlots[q]
    BY DEF NoTornSchedule
  <1>4. runtime.previous[EnableReg] = 0
    BY <1>3
  <1>5. inv[EnableReg] # 0
    BY <1>2, <1>4, RegsApart
  <1>6. r \notin Slots
    <2> SUFFICES ASSUME r \in Slots PROVE FALSE
      OBVIOUS
    <2>1. pos \in 2 .. SlotWords + 1
      BY <1>1, <1>4 DEF RestoreReg, ScheduleReg, Slots, EnableReg, LastPos
    <2>2. ~failed
      BY <2>1 DEF DebtInv, RestoreProgress
    <2>3. RestoreReg(runtime.previous, 1) = EnableReg
      BY <1>4 DEF RestoreReg, ScheduleReg
    <2>4. GivenBack(RestoreReg(runtime.previous, 1))
      BY <2>1, <2>2, <2>3, RegsApart, ManagedTracked DEF DebtInv, RestoreProgress
    <2> QED BY <1>4, <1>5, <2>3, <2>4 DEF GivenBack
  <1>7. \A q \in Slots: inv[q] = StormSlots[q]
    BY <1>5 DEF StormInv, NoTornSchedule
  <1> QED BY <1>2, <1>6, <1>7, RegsApart

\* No step leaves a session that only seems applied, or a torn schedule: one
\* case per action.
LEMMA NextStorm ==
    TypeInv /\ ControlInv /\ DebtInv(Tracked) /\ StormInv /\ [Next]_vars
        => StormInv'
  <1> SUFFICES ASSUME TypeInv, ControlInv, DebtInv(Tracked), StormInv,
                      [Next]_vars
               PROVE  StormInv'
    OBVIOUS
  <1> USE DEF Release
  <1>1. CASE StartSnapshot
    BY <1>1, StormQuiet DEF StartSnapshot, NothingApplied
  <1>2. CASE StartCapture
    BY <1>2, StormBegins DEF StartCapture
  <1>3. CASE StartReadFails
    BY <1>3, StormQuiet DEF StartReadFails, NothingApplied, ControlInv, Agree
  <1>4. CASE StartSaveFails
    BY <1>4, StormQuiet, IdleFields DEF StartSaveFails, NothingApplied
  <1>5. CASE ApplyWrite
    <2> DEFINE r == ApplyReg(pos)
               S == StormRegs(runtime.settings)
    <2>1. /\ r \in Reg /\ pos \in 1 .. LastPos /\ stage = "apply"
          /\ WriteSucceeds(r, S[r]) /\ pos' = pos + 1
          /\ UNCHANGED <<original, runtime>> /\ stage' \in {"apply", "applied"}
      BY <1>5, ApplyArgsType
      DEF ApplyWrite, TypeInv, TypeOK, OperationOK, PosOK, LastPos
    <2>2. /\ \A q \in Reg \ {r}: inv'[q] = inv[q]
          /\ inv'[r] = S[r]
      BY <2>1, WriteEffect
    <2>3. NoTornSchedule'
      BY <2>1, ApplyTearsNothing
    <2>4. ASSUME NEW j \in 1 .. pos PROVE inv'[ApplyReg(j)] = S[ApplyReg(j)]
      <3>1. ApplyReg(j) \in Reg
        BY <2>1, ApplyRegType DEF LastPos
      <3>2. CASE ApplyReg(j) = r
        BY <2>2, <3>2
      <3>3. CASE ApplyReg(j) # r
        <4>1. j \in 1 .. pos - 1
          BY <2>1, <3>3
        <4> QED BY <2>1, <2>2, <3>1, <3>3, <4>1 DEF StormInv, ApplyProgress
      <3> QED BY <3>2, <3>3
    <2>5. pos' - 1 = pos
      BY <2>1
    <2>6. ApplyProgress'
      BY <2>1, <2>4, <2>5 DEF ApplyProgress
    <2>7. ChargingFits'
      BY <2>1 DEF ChargingFits
    <2> QED BY <2>3, <2>6, <2>7 DEF StormInv
  <1>6. CASE ApplyWriteFails
    <2>1. NoTornSchedule'
      BY <1>6, ApplyTearsNothing DEF ApplyWriteFails
    <2> QED BY <1>6, <2>1 DEF ApplyWriteFails, StormInv, ApplyProgress,
               ChargingFits
  <1>7. CASE AbortStart
    BY <1>7, EnterRestoreStorm DEF AbortStart
  <1>8. CASE AbortResume
    <2>1. runtime'.phase = "restoring"
      BY <1>8 DEF AbortResume, TypeInv, TypeOK, ManagerOK, RuntimeFile
    <2> QED BY <1>8, <2>1, StormQuiet DEF AbortResume, NothingApplied
  <1>9. CASE StartCharging
    <2>1. inv' = StormRegs(runtime'.settings)
      BY <1>9, AllApplied
      DEF StartCharging, TypeInv, TypeOK, ManagerOK, RuntimeFile
    <2> QED BY <1>9, <2>1 DEF StartCharging, StormInv, ApplyProgress,
               ChargingFits, NoTornSchedule
  <1>10. CASE StartChargingSaveFails
    BY <1>10, StormQuiet DEF StartChargingSaveFails, NothingApplied
  <1>11. CASE ResumeCharging
    <2>1. inv' = StormRegs(runtime'.settings)
      BY <1>11, AllApplied
      DEF ResumeCharging, TypeInv, TypeOK, ManagerOK, RuntimeFile
    <2> QED BY <1>11, <2>1 DEF ResumeCharging, StormInv, ApplyProgress,
               ChargingFits, NoTornSchedule
  <1>12. CASE RestoreStep
    <2>1. NoTornSchedule'
      BY <1>12, RestoreTearsNothing DEF RestoreStep
    <2> QED BY <1>12, <2>1 DEF RestoreStep, StormInv, ApplyProgress,
               ChargingFits
  <1>13. CASE RestoreStepFails
    <2>1. NoTornSchedule'
      BY <1>13, RestoreTearsNothing DEF RestoreStepFails
    <2> QED BY <1>13, <2>1 DEF RestoreStepFails, StormInv, ApplyProgress,
               ChargingFits
  <1>14. CASE FinishIncomplete
    <2>1. runtime'.phase = "restoring"
      BY <1>14 DEF FinishIncomplete, ControlInv, PhaseFits
    <2> QED BY <1>14, <2>1, StormQuiet DEF FinishIncomplete, NothingApplied
  <1>15. CASE FinishRestore
    <2>1. ~runtime'.active
      BY <1>15 DEF FinishRestore, TypeInv, TypeOK, ManagerOK, RuntimeFile
    <2> QED BY <1>15, <2>1, StormQuiet DEF FinishRestore, NothingApplied
  <1>16. CASE FinishSaveFails
    <2>1. runtime'.phase = "restoring"
      BY <1>16 DEF FinishSaveFails, TypeInv, TypeOK, ManagerOK, RuntimeFile
    <2> QED BY <1>16, <2>1, StormQuiet DEF FinishSaveFails, NothingApplied
  <1>17. CASE Cancel \/ EvaluateRetry \/ EvaluateTimeout
    BY <1>17, EnterRestoreStorm DEF Cancel, EvaluateRetry, EvaluateTimeout
  <1>18. CASE EvaluateLinkLost
    <2>1. runtime'.phase = "restoring" /\ stage' = "idle"
      BY <1>18 DEF EvaluateLinkLost, Evaluating, TypeInv, TypeOK, ManagerOK,
         RuntimeFile
    <2> QED BY <1>18, <2>1, StormQuiet DEF EvaluateLinkLost, NothingApplied
  <1>19. CASE EvaluateResume
    <2>1. pos' = 1
      BY <1>19 DEF EvaluateResume, Monitoring, Evaluating, TypeInv, PosOK
    <2> QED BY <1>19, <2>1, StormBegins DEF EvaluateResume
  <1>20. CASE EvaluateObserve
    BY <1>20, EnterRestoreStorm DEF EvaluateObserve, StopOn
  <1>21. CASE ObserveResumed
    <2>1. CASE Release /\ UNCHANGED <<runtime, disk, faults>>
      BY <1>21, <2>1 DEF ObserveResumed, StormInv, ApplyProgress,
         ChargingFits, NoTornSchedule
    <2>2. CASE \E r \in Reading: StopOn(r)
      BY <1>21, <2>2, EnterRestoreStorm DEF ObserveResumed, StopOn
    <2> QED BY <1>21, <2>1, <2>2 DEF ObserveResumed
  <1>22. CASE PollFast \/ (\E read \in SUBSET Managed: PollSlow(read))
              \/ PollFails \/ DeadlinePasses \/ UNCHANGED vars
    BY <1>22, StormStutters DEF PollFast, PollSlow, PollFails, DeadlinePasses,
       vars
  <1>23. CASE PanelWrite
    <2>1. ~disk'.active /\ UNCHANGED manager /\ stage = "idle" /\ ~disk.active
      BY <1>23 DEF PanelWrite
    <2>2. NoTornSchedule'
      <3>1. Owed(Tracked)'
        BY NextDebt DEF DebtInv
      <3> QED BY <2>1, <3>1, RegsApart, ManagedTracked DEF Owed, NoTornSchedule
    <2>3. ApplyProgress' /\ ChargingFits'
      BY <2>1 DEF ApplyProgress, ChargingFits, manager, ControlInv, Agree
    <2> QED BY <2>2, <2>3 DEF StormInv
  <1>24. CASE Crash
    BY <1>24, StormQuiet DEF Crash, NothingApplied
  <1>25. CASE Boot
    <2>1. stage = "idle" /\ UNCHANGED stage
      BY <1>25 DEF Boot, ControlInv, Agree
    <2>2. runtime'.active <=> resumePending'
      BY <1>25 DEF Boot, Load, TypeInv, TypeOK, WorldOK, RuntimeFile
    <2> QED BY <1>25, <2>1, <2>2, StormQuiet DEF Boot, NothingApplied
  <1> QED
    BY <1>1, <1>2, <1>3, <1>4, <1>5, <1>6, <1>7, <1>8, <1>9, <1>10, <1>11,
       <1>12, <1>13, <1>14, <1>15, <1>16, <1>17, <1>18, <1>19, <1>20, <1>21,
       <1>22, <1>23, <1>24, <1>25
    DEF Next, Start, Apply, Restore, Evaluate, Poll, World

\* The third layer is an invariant.
THEOREM StormInvariant == Spec => []StormInv
  BY InitStorm, NextStorm, ControlInvariant, DebtInvariant, PTL DEF Spec

\* A session shown as charging has all its registers in the inverter.
THEOREM ChargingIsReal == Spec => []ChargingMeansApplied
  <1>1. StormInv => ChargingMeansApplied
    BY DEF StormInv, ChargingFits, ChargingMeansApplied
  <1> QED BY <1>1, StormInvariant, PTL

\* An owner whose schedule is off never sees it on with words that are partly
\* his, whatever write fails and whenever the process dies.
THEOREM NoScheduleIsTorn == Spec => []NoTornSchedule
  <1>1. StormInv => NoTornSchedule
    BY DEF StormInv
  <1> QED BY <1>1, StormInvariant, PTL


---------------------------------------------------------------------------
(* What a step does to the file and the inverter, seen from outside.       *)

Settled == UNCHANGED <<disk, inv>>

\* A session is saved, with what it will have to give back of the registers T.
FileBegins(T) ==
    /\ ~disk.active /\ disk'.active /\ disk'.phase # "restoring"
    /\ \A r \in T: disk'.previous[r] = inv[r]
    /\ UNCHANGED inv

\* An open session is saved once more: as being restored, or as charging if it
\* was not being restored.
FileMarked ==
    /\ disk.active /\ disk'.active /\ disk'.previous = disk.previous
    /\ disk'.phase = "restoring" \/ disk.phase # "restoring"
    /\ UNCHANGED inv

FileCloses(T) ==
    /\ disk.active /\ ~disk'.active
    /\ \A r \in T: inv[r] = disk.previous[r]
    /\ UNCHANGED inv

\* A register of an open session is written.
SessionWrites ==
    /\ disk.active /\ UNCHANGED disk
    /\ \E r \in Reg, v \in Val:
         /\ inv' = [inv EXCEPT ![r] = v]
         /\ disk.phase = "restoring" => v \in {inv[r], disk.previous[r]}

OwnerWrites ==
    /\ ~disk.active /\ UNCHANGED disk
    /\ \E r \in Reg, v \in Val: inv' = [inv EXCEPT ![r] = v]

Outside(T) == \/ Settled \/ FileBegins(T) \/ FileMarked \/ FileCloses(T)
              \/ SessionWrites \/ OwnerWrites

\* Entering restoreLocked marks the file or leaves it.
LEMMA EnterRestoreMoves ==
    ASSUME TypeInv, ControlInv, up, runtime.active,
           NEW ph, NEW rs, NEW from, BeginRestore(ph, rs, from), UNCHANGED inv,
           NEW T
    PROVE  Outside(T)
  BY DEF TypeInv, TypeOK, ManagerOK, RuntimeFile, ControlInv, Agree,
         BeginRestore, SaveIgnored, Outside, Settled, FileMarked

\* A write, confirmed or not, puts one value into one register.
LEMMA WriteMoves ==
    ASSUME TypeInv, NEW r \in Reg, NEW v \in Val,
           WriteSucceeds(r, v) \/ WriteFails(r, v)
    PROVE  \E w \in {v, inv[r]}: w \in Val /\ inv' = [inv EXCEPT ![r] = w]
  <1>1. inv[r] \in Val /\ inv = [inv EXCEPT ![r] = inv[r]]
    BY DEF TypeInv, TypeOK, WorldOK, RegVals
  <1> QED BY <1>1 DEF WriteSucceeds, WriteFails, WriteRegisterFails,
             WriteHoldingFails

\* A restore that has passed every register without an error has them all back.
LEMMA AllGivenBack ==
    ASSUME NEW T \in SUBSET Tracked, TypeInv, DebtInv(T), stage = "finish",
           ~failed
    PROVE  \A r \in T: inv[r] = runtime.previous[r]
  <1> TAKE r \in T
  <1>1. PICK j \in 1 .. LastPos: RestoreReg(runtime.previous, j) = r
    BY RestoreRegOnto, ManagedTracked
    DEF TypeInv, TypeOK, ManagerOK, RuntimeFile
  <1>2. j \in 1 .. pos - 1
    BY DEF DebtInv, RestoreProgress, LastPos
  <1> QED BY <1>1, <1>2 DEF DebtInv, RestoreProgress, GivenBack

\* Every step is one of these: one case per action.
LEMMA NextMoves ==
    ASSUME NEW T \in SUBSET Tracked, TypeInv, ControlInv,
           stage = "idle" \/ DebtInv(T), [Next]_vars
    PROVE  Outside(T)
  <1>1. CASE StartSnapshot \/ StartReadFails \/ StartSaveFails
    BY <1>1 DEF StartSnapshot, StartReadFails, StartSaveFails, Outside, Settled
  <1>2. CASE StartCapture
    <2>1. ~disk.active /\ UNCHANGED inv
      BY <1>2 DEF StartCapture, ControlInv, Agree
    <2>2. /\ disk'.active /\ disk'.phase = "starting"
          /\ disk'.previous = PreviousSettings
      BY <1>2 DEF StartCapture, StartedRuntime
    <2>3. \A r \in T: PreviousSettings[r] = inv[r]
      BY <1>2, <2>1, ManagedTracked
      DEF StartCapture, PreviousSettings, DebtInv, Owed, CacheFits
    <2> QED BY <2>1, <2>2, <2>3 DEF Outside, FileBegins
  <1>3. CASE ApplyWrite \/ ApplyWriteFails
    <2> DEFINE r == ApplyReg(pos)
               v == StormRegs(runtime.settings)[r]
    <2>1. (WriteSucceeds(r, v) \/ WriteFails(r, v)) /\ UNCHANGED disk
      BY <1>3 DEF ApplyWrite, ApplyWriteFails
    <2>2. r \in Reg /\ v \in Val /\ stage = "apply"
      BY <1>3, ApplyArgsType DEF ApplyWrite, ApplyWriteFails
    <2>3. disk.active /\ disk.phase # "restoring"
      BY <2>2 DEF ControlInv, Agree, PhaseFits, AfterSave
    <2> HIDE DEF r, v
    <2> QED BY <2>1, <2>2, <2>3, WriteMoves DEF Outside, SessionWrites
  <1>4. CASE RestoreStep \/ RestoreStepFails
    <2> DEFINE r == RestoreReg(runtime.previous, pos)
               v == runtime.previous[r]
    <2>1. WriteSucceeds(r, v) \/ WriteFails(r, v)
      BY <1>4 DEF RestoreStep, RestoreStepFails
    <2>2. /\ r \in Reg /\ v \in Val /\ stage = "restore" /\ UNCHANGED disk
      BY <1>4, RestoreArgsType DEF RestoreStep, RestoreStepFails
    <2>3. disk.active /\ disk.previous[r] = v
      BY <2>2 DEF ControlInv, Agree, AfterSave
    <2> HIDE DEF r, v
    <2> QED BY <2>1, <2>2, <2>3, WriteMoves DEF Outside, SessionWrites
  <1>5. CASE AbortStart
    BY <1>5, EnterRestoreMoves DEF AbortStart, ControlInv, Agree, AfterSave
  <1>6. CASE AbortResume
    BY <1>6 DEF AbortResume, SaveIgnored, ControlInv, Agree, AfterSave, TypeInv,
       TypeOK, ManagerOK, RuntimeFile, Outside, Settled, FileMarked
  <1>7. CASE StartCharging
    BY <1>7 DEF StartCharging, ControlInv, Agree, PhaseFits, AfterSave, TypeInv,
       TypeOK, ManagerOK, RuntimeFile, Outside, FileMarked
  <1>8. CASE StartChargingSaveFails
    BY <1>8 DEF StartChargingSaveFails, ControlInv, Agree, AfterSave, TypeInv,
       TypeOK, ManagerOK, RuntimeFile, Outside, Settled, FileMarked
  <1>9. CASE ResumeCharging
    BY <1>9 DEF ResumeCharging, SaveIgnored, ControlInv, Agree, PhaseFits,
       AfterSave, TypeInv, TypeOK, ManagerOK, RuntimeFile, Outside, Settled,
       FileMarked
  <1>10. CASE FinishIncomplete
    BY <1>10 DEF FinishIncomplete, SaveIgnored, ControlInv, Agree, PhaseFits,
       AfterSave, Outside, Settled, FileMarked
  <1>11. CASE FinishRestore
    <2>1. disk.active /\ ~disk'.active /\ runtime.previous = disk.previous
      BY <1>11 DEF FinishRestore, ControlInv, Agree, AfterSave, TypeInv, TypeOK,
         ManagerOK, RuntimeFile
    <2> QED BY <1>11, <2>1, AllGivenBack DEF FinishRestore, Outside, FileCloses
  <1>12. CASE FinishSaveFails
    <2>1. disk' \in {disk, runtime'}
      BY <1>12 DEF FinishSaveFails
    <2> QED BY <1>12, <2>1 DEF FinishSaveFails, ControlInv, Agree, AfterSave,
               TypeInv, TypeOK, ManagerOK, RuntimeFile, Outside, Settled,
               FileMarked
  <1>13. CASE Cancel \/ EvaluateRetry \/ EvaluateTimeout
    BY <1>13, EnterRestoreMoves DEF Cancel, EvaluateRetry, EvaluateTimeout,
       Evaluating
  <1>14. CASE EvaluateLinkLost
    BY <1>14 DEF EvaluateLinkLost, Evaluating, SaveIgnored, ControlInv, Agree,
       TypeInv, TypeOK, ManagerOK, RuntimeFile, Outside, Settled, FileMarked
  <1>15. CASE EvaluateResume
    BY <1>15 DEF EvaluateResume, Outside, Settled
  <1>16. CASE EvaluateObserve
    BY <1>16, EnterRestoreMoves DEF EvaluateObserve, StopOn, Monitoring,
       Evaluating
  <1>17. CASE ObserveResumed
    <2>1. CASE Release /\ UNCHANGED <<runtime, disk, faults>>
      BY <1>17, <2>1 DEF ObserveResumed, Outside, Settled
    <2>2. CASE \E r \in Reading: StopOn(r)
      BY <1>17, <2>2, EnterRestoreMoves DEF ObserveResumed, StopOn, ControlInv,
         Agree, AfterSave
    <2> QED BY <1>17, <2>1, <2>2 DEF ObserveResumed
  <1>18. CASE PollFast \/ (\E read \in SUBSET Managed: PollSlow(read))
              \/ PollFails \/ DeadlinePasses \/ Crash \/ Boot \/ UNCHANGED vars
    BY <1>18 DEF PollFast, PollSlow, PollFails, DeadlinePasses, Crash, Boot,
       vars, Outside, Settled
  <1>19. CASE PanelWrite
    <2>1. \A edit \in PanelEdits: edit[1] \in Reg /\ edit[2] \in Val
      BY BoundsAssumption
    <2> QED BY <1>19, <2>1 DEF PanelWrite, Outside, OwnerWrites
  <1> QED
    BY <1>1, <1>2, <1>3, <1>4, <1>5, <1>6, <1>7, <1>8, <1>9, <1>10, <1>11,
       <1>12, <1>13, <1>14, <1>15, <1>16, <1>17, <1>18, <1>19
    DEF Next, Start, Apply, Restore, Evaluate, Poll, World

\* Once the file says that a session is being given back, only its end replaces
\* it, and then the owner has everything back.
THEOREM RestoresAreFinal ==
    ASSUME Uncached = {} PROVE Spec => PersistedRestoreIsFinal
  <1>1. TypeInv /\ ControlInv /\ DebtInv(Tracked) /\ [Next]_vars =>
            (disk.active /\ disk.phase = "restoring" =>
                \/ disk'.active /\ disk'.phase = "restoring"
                \/ ~disk'.active /\ inv = original)
    <2> SUFFICES ASSUME TypeInv, ControlInv, DebtInv(Tracked), [Next]_vars,
                        disk.active, disk.phase = "restoring"
                 PROVE  \/ disk'.active /\ disk'.phase = "restoring"
                        \/ ~disk'.active /\ inv = original
      OBVIOUS
    <2>1. Outside(Tracked)
      BY NextMoves
    <2>2. CASE FileCloses(Tracked)
      <3>1. Tracked = Reg /\ inv \in RegVals /\ original \in RegVals
        BY DEF Tracked, TypeInv, TypeOK, WorldOK
      <3>2. \A r \in Reg: inv[r] = original[r]
        BY <2>2, <3>1 DEF FileCloses, DebtInv, Owed
      <3> QED BY <2>2, <3>1, <3>2 DEF FileCloses, RegVals
    <2> QED BY <2>1, <2>2 DEF Outside, Settled, FileBegins, FileMarked,
               SessionWrites, OwnerWrites
  <1> QED BY <1>1, ControlInvariant, DebtInvariant, PTL
          DEF Spec, PersistedRestoreIsFinal

---------------------------------------------------------------------------
(* The manager implements the undo log.                                    *)

\* The undo log of the registers T.
UndoOf(T) == INSTANCE UndoLog
    WITH Registers <- T, Values <- Val, NoLog <- NoVal,
         regs <- [r \in T |-> inv[r]], log <- LogOf(T),
         undoing <- disk.active /\ disk.phase = "restoring"

\* A register has a value, and a log is not the absence of one.
LEMMA LogType ==
    ASSUME NEW T \in SUBSET Reg, TypeInv
    PROVE  /\ [r \in T |-> inv[r]] \in [T -> Val]
           /\ [r \in T |-> disk.previous[r]] \in [T -> Val]
           /\ LogOf(T) = NoVal <=> ~disk.active
  <1>1. /\ [r \in T |-> inv[r]] \in [T -> Val]
        /\ [r \in T |-> disk.previous[r]] \in [T -> Val]
    BY DEF TypeInv, TypeOK, WorldOK, RuntimeFile, RegVals
  <1> QED BY <1>1, LogAssumption DEF LogOf

\* A write changes the registers T in one place or not at all.
LEMMA WriteWithin ==
    ASSUME NEW T \in SUBSET Reg, TypeInv, NEW r \in Reg, NEW v,
           inv' = [inv EXCEPT ![r] = v]
    PROVE  [q \in T |-> inv'[q]] =
                IF r \in T THEN [[q \in T |-> inv[q]] EXCEPT ![r] = v]
                           ELSE [q \in T |-> inv[q]]
  BY DEF TypeInv, TypeOK, WorldOK, RegVals

\* A file without a session is an undo log in its initial state.
LEMMA IdleUndo ==
    ASSUME NEW T \in SUBSET Reg, TypeInv, ~disk.active PROVE UndoOf(T)!Init
  BY LogType DEF UndoOf!Init

\* What is seen from outside is a step of the undo log, or leaves it alone.
LEMMA OutsideUndo ==
    ASSUME NEW T \in SUBSET Reg, TypeInv, Outside(T)
    PROVE  [UndoOf(T)!Next]_(UndoOf(T)!vars)
  <1> DEFINE regs    == [r \in T |-> inv[r]]
             undoing == disk.active /\ disk.phase = "restoring"
  <1>1. LogOf(T) = NoVal <=> ~disk.active
    BY LogType
  <1>2. CASE Settled
    <2>1. UNCHANGED <<regs, LogOf(T), undoing>>
      BY <1>2 DEF Settled, LogOf
    <2> QED BY <2>1 DEF UndoOf!vars
  <1>3. CASE FileBegins(T)
    <2>1. LogOf(T)' = regs /\ regs' = regs
      BY <1>3 DEF FileBegins, LogOf
    <2>2. ~undoing /\ ~undoing' /\ LogOf(T) = NoVal
      BY <1>1, <1>3 DEF FileBegins
    <2> QED BY <2>1, <2>2 DEF UndoOf!Next, UndoOf!Begin
  <1>4. CASE FileMarked
    <2>1. UNCHANGED <<regs, LogOf(T)>> /\ LogOf(T) # NoVal
      BY <1>1, <1>4 DEF FileMarked, LogOf
    <2>2. undoing' = TRUE \/ UNCHANGED undoing
      BY <1>4 DEF FileMarked
    <2> QED BY <2>1, <2>2 DEF UndoOf!Next, UndoOf!Abort, UndoOf!vars
  <1>5. CASE FileCloses(T)
    <2>1. regs = LogOf(T) /\ LogOf(T) # NoVal /\ LogOf(T)' = NoVal
      BY <1>1, <1>5 DEF FileCloses, LogOf
    <2>2. undoing' = FALSE /\ regs' = regs
      BY <1>5 DEF FileCloses
    <2> QED BY <2>1, <2>2 DEF UndoOf!Next, UndoOf!Close
  <1>6. CASE SessionWrites
    <2>1. PICK r \in Reg, v \in Val:
            /\ inv' = [inv EXCEPT ![r] = v]
            /\ disk.phase = "restoring" => v \in {inv[r], disk.previous[r]}
      BY <1>6 DEF SessionWrites
    <2>2. UNCHANGED <<LogOf(T), undoing>> /\ LogOf(T) # NoVal
      BY <1>1, <1>6 DEF SessionWrites, LogOf
    <2>3. CASE r \notin T \/ v = inv[r]
      <3>1. regs' = regs
        BY <2>1, <2>3, WriteWithin
      <3> QED BY <2>2, <3>1 DEF UndoOf!vars
    <2>4. CASE r \in T /\ v # inv[r]
      <3>1. regs' = [regs EXCEPT ![r] = v]
        BY <2>1, <2>4, WriteWithin
      <3>2. v \in IF undoing THEN {LogOf(T)[r]} ELSE Val
        BY <1>6, <2>1, <2>4 DEF SessionWrites, LogOf
      <3> QED BY <2>2, <2>4, <3>1, <3>2 DEF UndoOf!Next, UndoOf!Write
    <2> QED BY <2>3, <2>4
  <1>7. CASE OwnerWrites
    <2>1. PICK r \in Reg, v \in Val: inv' = [inv EXCEPT ![r] = v]
      BY <1>7 DEF OwnerWrites
    <2>2. UNCHANGED <<LogOf(T), undoing>> /\ LogOf(T) = NoVal
      BY <1>1, <1>7 DEF OwnerWrites, LogOf
    <2>3. CASE r \notin T
      <3>1. regs' = regs
        BY <2>1, <2>3, WriteWithin
      <3> QED BY <2>2, <3>1 DEF UndoOf!vars
    <2>4. CASE r \in T
      <3>1. regs' = [regs EXCEPT ![r] = v]
        BY <2>1, <2>4, WriteWithin
      <3> QED BY <2>2, <2>4, <3>1 DEF UndoOf!Next, UndoOf!Edit
    <2> QED BY <2>3, <2>4
  <1> QED BY <1>2, <1>3, <1>4, <1>5, <1>6, <1>7 DEF Outside

\* Every step of the manager is a step of the undo log, or leaves it alone.
LEMMA NextUndo ==
    TypeInv /\ ControlInv /\ DebtInv(Tracked) /\ [Next]_vars
        => [Undo!Next]_(Undo!vars)
  <1> SUFFICES ASSUME TypeInv, ControlInv, DebtInv(Tracked), [Next]_vars
               PROVE  [Undo!Next]_(Undo!vars)
    OBVIOUS
  <1>1. Outside(Tracked)
    BY NextMoves
  <1>2. [UndoOf(Tracked)!Next]_(UndoOf(Tracked)!vars)
    BY <1>1, OutsideUndo, ManagedTracked
  <1> QED BY <1>2 DEF Undo!Next, Undo!vars, Undo!Edit, Undo!Begin, Undo!Write,
             Undo!Abort, Undo!Close, UndoOf!Next, UndoOf!vars, UndoOf!Edit,
             UndoOf!Begin, UndoOf!Write, UndoOf!Abort, UndoOf!Close

\* The manager, with its crashes, failed saves and failed writes, keeps the
\* promise of UndoLog: nothing is changed that is not logged, and a log is
\* thrown away only when everything in it is back.
THEOREM ManagerIsAnUndoLog == Spec => ImplementsUndoLog
  <1>1. Init => Undo!Init
    <2> SUFFICES ASSUME Init PROVE Undo!Init
      OBVIOUS
    <2>1. TypeInv /\ ~disk.active
      BY InitTypeInv, IdleFields DEF Init
    <2>2. UndoOf(Tracked)!Init
      BY <2>1, IdleUndo, ManagedTracked
    <2> QED BY <2>2 DEF Undo!Init, UndoOf!Init
  <1> QED BY <1>1, NextUndo, ControlInvariant, DebtInvariant, PTL
          DEF Spec, ImplementsUndoLog, Undo!Spec


---------------------------------------------------------------------------
(* The bus.                                                                *)

Bus == INSTANCE RegisterBus
    WITH Cached <- Managed, Blocks <- Schedule, WriteOnly <- {},
         Contents <- InitialRegs, Asked <- Reg \X Val, Adjusted <- {},
         regs <- inv, cache <- tele, result <- [ok |-> FALSE]

\* The outcomes of a register write that the manager is shown to survive are
\* exactly the ones that RegisterBus promises and ModbusService keeps to, for an
\* inverter that stores the words it is sent (manager.go:385, 422, 450-471,
\* modbus/service.go:51-240).
THEOREM WritesAreThoseOfTheBus ==
    ASSUME TypeOK, NEW r \in Reg, NEW v \in Val
    PROVE  /\ WriteSucceeds(r, v) <=>
                Bus!WriteSucceeds(r, v) /\ UNCHANGED fastSeen
           /\ WriteFails(r, v) <=>
                /\ IF r \in Schedule THEN Bus!WriteHoldingFails(r, v)
                                     ELSE Bus!WriteRegisterFails(r, v)
                /\ Fault /\ UNCHANGED fastSeen
  <1>1. tele \in [Managed -> Val \cup {NoVal}] /\ inv \in [Reg -> Val]
    BY DEF TypeOK, StoreOK, WorldOK, RegVals
  <1>2. Bus!Stored(r, v) = {v}
    BY DEF Bus!Stored
  <1>3. r \in Schedule <=> r \notin Managed
    BY DEF Reg, Schedule, Managed, CurrentReg, CutoffReg
  <1>4. WriteSucceeds(r, v) <=> Bus!WriteSucceeds(r, v) /\ UNCHANGED fastSeen
    BY DEF WriteSucceeds, Bus!WriteSucceeds, Bus!SetCache
  <1>5. r \in Managed =>
            (WriteRegisterFails(r, v) <=> Bus!WriteRegisterFails(r, v))
    BY <1>1, <1>2 DEF WriteRegisterFails, Bus!WriteRegisterFails, Bus!SetCache
  <1>6. WriteHoldingFails(r, v) <=> Bus!WriteHoldingFails(r, v)
    BY <1>2 DEF WriteHoldingFails, Bus!WriteHoldingFails
  <1> QED BY <1>3, <1>4, <1>5, <1>6 DEF WriteFails
=============================================================================
