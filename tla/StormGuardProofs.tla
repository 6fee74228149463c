-------------------------- MODULE StormGuardProofs --------------------------
(***************************************************************************)
(* Proofs about StormGuard for any number of users and any writes of the   *)
(* managed registers.  The steps of the manager, the poller and the owner  *)
(* are steps of StormCharge, whose lemmas are used for them; what is new   *)
(* are the writes of users.                                                *)
(***************************************************************************)
EXTENDS StormGuard, StormChargeSafetyProofs

USE UsersAssumption, UserEditsAssumption

---------------------------------------------------------------------------
(* The inductive invariant.                                                *)

\* A process that is down serves nobody; s.mu is held by the one whose write
\* has landed.
CallsFit ==
    /\ call \in [Users -> Calls]
    /\ bus \in Users \cup {NoUser}
    /\ ~up => \A u \in Users: call[u] = NoCall
    /\ \A u \in Users: bus = u <=> InFlight(u) /\ call[u].landed

\* As long as no write overlapped a Start, writes in flight meet no session.
CleanFits == clean => \A u \in Users: InFlight(u) => PassesCheck

\* While a write holds s.mu the cache lags behind in one register.
DebtBut(edit) ==
    /\ ~failed
    /\ \A r \in Tracked: inv[r] = original[r]
    /\ \A r \in (Managed \cap Tracked) \ {edit[1]}:
          tele[r] \in {NoVal, original[r]}
    /\ edit[1] \in Tracked => original[edit[1]] = edit[2]

CleanDebt ==
    clean => /\ bus = NoUser => DebtInv(Tracked)
             /\ \A u \in Users: bus = u => DebtBut(call[u].edit)

\* The schedule, which users do not write, is owed whether clean or not.
GuardInv == /\ TypeInv /\ ControlInv /\ DebtInv(Schedule)
            /\ CallsFit /\ CleanFits /\ CleanDebt


---------------------------------------------------------------------------
(* The steps.                                                              *)

\* The steps of a user's register write.
UserWrites(u) == WriteLands(u) \/ WriteConfirmed(u) \/ WriteRejected(u)

\* Every other step is one of the manager and its surroundings, or invisible
\* to them.
LEMMA GuardSteps ==
    ASSUME [GuardNext]_guardVars
    PROVE  [Next]_vars \/ \E u \in Users: UserWrites(u)
  <1>1. CASE BusStep \/ LocalStep \/ GuardCrash
    BY <1>1 DEF BusStep, LocalStep, GuardCrash, Next, Start, Apply, Restore,
       World
  <1>2. ASSUME NEW u \in Users, UserStep(u)
        PROVE  [Next]_vars \/ UserWrites(u)
    BY <1>2 DEF UserStep, UserWrites, WriteRegister, UpdateConfig, StoreConfig,
       StartStormCharge, StoreSettings, ManagerStart, ManagerRefuses, Begin,
       Next, Start
  <1> QED BY <1>1, <1>2 DEF GuardNext, guardVars

\* A write in flight is of a managed register.
LEMMA EditType ==
    ASSUME NEW u \in Users, InFlight(u)
    PROVE  /\ call[u].edit[1] \in Managed /\ call[u].edit[2] \in Val
           /\ call[u].edit[1] \in Reg /\ call[u].edit[1] \notin Schedule
           /\ call[u].landed \in BOOLEAN /\ call[u] # NoCall
  <1>1. call[u].edit \in UserEdits /\ call[u].landed \in BOOLEAN
    BY DEF InFlight, WriteCalls
  <1>2. call[u] # NoCall
    BY DEF InFlight, WriteCalls, NoCall
  <1>3. call[u].edit[1] \in Managed /\ call[u].edit[2] \in Val
    BY <1>1
  <1> QED BY <1>1, <1>2, <1>3, ManagedTracked, RegsApart

\* A user's write touches one managed register and its cache.
LEMMA UserWriteEffect ==
    ASSUME TypeInv, NEW u \in Users, UserWrites(u)
    PROVE  /\ InFlight(u) /\ UNCHANGED <<manager, disk>>
           /\ inv' \in RegVals /\ original' \in RegVals
           /\ \A r \in Schedule: inv'[r] = inv[r] /\ original'[r] = original[r]
  <1>1. InFlight(u) /\ UNCHANGED <<manager, disk>>
    BY DEF UserWrites, WriteLands, WriteConfirmed, WriteRejected
  <1> DEFINE r == call[u].edit[1]
             v == call[u].edit[2]
  <1>2. r \in Reg /\ v \in Val /\ r \notin Schedule
    BY <1>1, EditType
  <1>3. inv \in RegVals /\ original \in RegVals /\ Schedule \subseteq Reg
    BY ManagedTracked DEF TypeInv, TypeOK, WorldOK
  <1>4. \E w \in Val: inv' \in {inv, [inv EXCEPT ![r] = w]}
    BY <1>2, <1>3 DEF UserWrites, WriteLands, WriteConfirmed, WriteRejected,
       WriteRegisterFails, RegVals
  <1>5. original' \in {original, [original EXCEPT ![r] = v]}
    BY DEF UserWrites, WriteLands, WriteConfirmed, WriteRejected
  <1> HIDE DEF r, v
  <1> QED BY <1>1, <1>2, <1>3, <1>4, <1>5 DEF RegVals

\* A user's write leaves the types, the agreement of memory and file, and what
\* is owed of the schedule.
LEMMA UserWriteBase ==
    ASSUME TypeInv, ControlInv, DebtInv(Schedule), NEW u \in Users,
           UserWrites(u)
    PROVE  TypeInv' /\ ControlInv' /\ DebtInv(Schedule)'
  <1>1. InFlight(u) /\ UNCHANGED <<manager, disk>>
    BY UserWriteEffect
  <1>2. StoreOK'
    <2> DEFINE r == call[u].edit[1]
               v == call[u].edit[2]
    <2>1. r \in Managed /\ r \in Reg /\ v \in Val
      BY <1>1, EditType
    <2>2. tele' \in [Managed -> Val \cup {NoVal}]
      <3>1. \E w \in Val \cup {NoVal}: tele' \in {tele, [tele EXCEPT ![r] = w]}
        BY <2>1 DEF UserWrites, WriteLands, WriteConfirmed, WriteRejected,
           WriteRegisterFails, store, TypeInv, TypeOK, StoreOK, WorldOK, RegVals
      <3> HIDE DEF r
      <3> QED BY <2>1, <3>1 DEF TypeInv, TypeOK, StoreOK
    <2>3. link' \in BOOLEAN /\ fastSeen' \in BOOLEAN
      BY Zenon DEF UserWrites, WriteLands, WriteConfirmed, WriteRejected,
         WriteRegisterFails, store, TypeInv, TypeOK, StoreOK
    <2> QED BY <2>2, <2>3 DEF StoreOK
  <1>3. WorldOK'
    <2>1. faults' \in 0 .. MaxFaults
      BY FaultType DEF UserWrites, WriteLands, WriteConfirmed, WriteRejected,
         NoFault, TypeInv, TypeOK, WorldOK
    <2>2. UNCHANGED <<overdue, disk>>
      BY DEF UserWrites, WriteLands, WriteConfirmed, WriteRejected
    <2> QED BY <2>1, <2>2, UserWriteEffect, Zenon DEF TypeInv, TypeOK, WorldOK
  <1>4. ManagerOK' /\ OperationOK' /\ PosOK'
    BY <1>1, Zenon DEF manager, TypeInv, TypeOK, ManagerOK, OperationOK, PosOK
  <1>5. ControlInv'
    BY <1>1 DEF manager, ControlInv, Agree, PhaseFits, FinalPhaseMatchesReason,
       NoImmortalSession
  <1>6. DebtInv(Schedule)'
    <2>1. \A r \in Schedule: inv'[r] = inv[r] /\ original'[r] = original[r]
      BY UserWriteEffect
    <2>2. Schedule \cap Managed = {}
      BY RegsApart
    <2> QED BY <1>1, <2>1, <2>2 DEF manager, DebtInv, Owed, CacheFits,
               RestoreProgress, GivenBack
  <1> QED BY <1>2, <1>3, <1>4, <1>5, <1>6 DEF TypeInv, TypeOK

\* No step loses track of who is served.
LEMMA NextCalls ==
    ASSUME TypeInv, CallsFit, [GuardNext]_guardVars PROVE CallsFit'
  <1>1. ASSUME UNCHANGED <<call, bus>>, up' \/ UNCHANGED up PROVE CallsFit'
    BY <1>1 DEF CallsFit, InFlight
  <1>2. CASE BusStep \/ LocalStep \/ UNCHANGED guardVars
    <2>1. up' \/ UNCHANGED up
      BY <1>2 DEF BusStep, LocalStep, StartCapture, StartReadFails,
         StartSaveFails, ApplyWrite, ApplyWriteFails, RestoreStep,
         RestoreStepFails, Poll, PollFast, PollSlow, PollFails, AbortStart,
         AbortResume, StartCharging, StartChargingSaveFails, ResumeCharging,
         FinishIncomplete, FinishRestore, FinishSaveFails, Cancel, Evaluate,
         EvaluateLinkLost, EvaluateRetry, EvaluateTimeout, EvaluateResume,
         EvaluateObserve, ObserveResumed, DeadlinePasses, PanelWrite, Boot,
         manager, guardVars, vars
    <2> QED BY <1>1, <1>2, <2>1 DEF BusStep, LocalStep, guardVars, guard
  <1>3. CASE GuardCrash
    <2>1. NoCall \in Calls /\ NoCall \notin WriteCalls
      BY DEF Calls, NoCall, WriteCalls
    <2> QED BY <1>3, <2>1 DEF GuardCrash, CallsFit, InFlight
  <1>4. ASSUME NEW u \in Users, NEW c \in Calls, NEW b,
               call' = [call EXCEPT ![u] = c], bus' = b, up' = up,
               c # NoCall => up,
               \/ b = bus /\ bus # u /\ ~(c \in WriteCalls /\ c.landed)
               \/ b = u /\ bus = NoUser /\ c \in WriteCalls /\ c.landed
               \/ b = NoUser /\ bus = u /\ c = NoCall
        PROVE  CallsFit'
    <2>1. NoCall \notin WriteCalls
      BY DEF NoCall, WriteCalls
    <2>2. call' \in [Users -> Calls] /\ bus' \in Users \cup {NoUser}
      BY <1>4 DEF CallsFit
    <2>3. ~up' => \A w \in Users: call'[w] = NoCall
      BY <1>4 DEF CallsFit
    <2>4. ASSUME NEW w \in Users
          PROVE  bus' = w <=> call'[w] \in WriteCalls /\ call'[w].landed
      BY <1>4, <2>1, <2>4 DEF CallsFit, InFlight
    <2> QED BY <2>2, <2>3, <2>4 DEF CallsFit, InFlight
  <1>5. ASSUME NEW u \in Users, UserStep(u) PROVE CallsFit'
    <2>1. NoCall \in Calls /\ NoCall \notin WriteCalls
      BY DEF Calls, NoCall, WriteCalls
    <2>2. call[u] # NoCall => up
      BY DEF CallsFit
    <2>3. bus = u <=> InFlight(u) /\ call[u].landed
      BY DEF CallsFit
    <2>4. CASE \E c \in Calls: Begin(u, c) /\ (c \in WriteCalls => ~c.landed)
      <3>1. PICK c \in Calls: Begin(u, c) /\ (c \in WriteCalls => ~c.landed)
        BY <2>4
      <3>2. bus # u /\ UNCHANGED <<bus, up>> /\ up
        BY <2>1, <2>3, <3>1 DEF Begin, InFlight, PassesCheck, vars, manager
      <3> QED BY <1>4, <3>1, <3>2 DEF Begin
    <2>5. CASE WriteLands(u)
      <3> DEFINE c == [call[u] EXCEPT !.landed = TRUE]
      <3>1. c \in WriteCalls /\ c.landed /\ c \in Calls
        BY <2>5 DEF WriteLands, InFlight, WriteCalls, Calls
      <3>2. call' = [call EXCEPT ![u] = c] /\ bus' = u /\ bus = NoUser
            /\ up' = up /\ up
        BY <2>1, <2>2, <2>5 DEF WriteLands, InFlight, manager
      <3> HIDE DEF c
      <3> QED BY <1>4, <3>1, <3>2
    <2>6. CASE WriteConfirmed(u)
      BY <1>4, <2>1, <2>3, <2>6 DEF WriteConfirmed, Return, manager
    <2>7. CASE WriteRejected(u)
      BY <1>4, <2>1, <2>3, <2>7 DEF WriteRejected, Return, manager
    <2>8. CASE StoreConfig(u) \/ ManagerStart(u) \/ ManagerRefuses(u)
      <3>1. ~InFlight(u) /\ UNCHANGED up /\ UNCHANGED bus /\ Return(u)
        BY <2>8 DEF StoreConfig, ManagerStart, ManagerRefuses, InFlight,
           WriteCalls, StartSnapshot, vars, manager
      <3> QED BY <1>4, <2>1, <2>3, <3>1 DEF Return
    <2>9. CASE StoreSettings(u)
      <3> DEFINE c == [call[u] EXCEPT !.saved = TRUE]
      <3>1. call[u].kind = "start" /\ call[u] \in Calls
        BY <2>9 DEF StoreSettings, CallsFit
      <3>2. c \in Calls /\ c \notin WriteCalls /\ call[u] # NoCall
            /\ ~InFlight(u)
        <4>1. call[u] \in [kind: {"start"}, saved: BOOLEAN]
          BY <3>1 DEF Calls, WriteCalls, NoCall
        <4>2. c.kind = "start" /\ c \in [kind: {"start"}, saved: BOOLEAN]
          BY <4>1
        <4> HIDE DEF c
        <4> QED BY <3>1, <4>2 DEF Calls, WriteCalls, NoCall, InFlight
      <3>3. call' = [call EXCEPT ![u] = c] /\ UNCHANGED <<bus, up>>
        BY <2>9 DEF StoreSettings, vars, manager
      <3> HIDE DEF c
      <3> QED BY <1>4, <2>2, <2>3, <3>2, <3>3
    <2>10. CASE WriteRegister(u) \/ UpdateConfig(u) \/ StartStormCharge(u)
      <3>1. CASE WriteRegister(u)
        <4>1. PICK edit \in UserEdits:
                Begin(u, [kind |-> "write", edit |-> edit, landed |-> FALSE])
          BY <3>1 DEF WriteRegister
        <4> DEFINE c == [kind |-> "write", edit |-> edit, landed |-> FALSE]
        <4>2. c \in Calls /\ c.landed = FALSE
          BY Zenon DEF Calls, WriteCalls
        <4> HIDE DEF c
        <4> QED BY <2>4, <4>1, <4>2 DEF c
      <3>2. CASE UpdateConfig(u)
        BY <2>4, <3>2 DEF UpdateConfig, Calls, WriteCalls
      <3>3. CASE StartStormCharge(u)
        <4> DEFINE c == [kind |-> "start", saved |-> FALSE]
        <4>1. c \in Calls /\ c.kind = "start"
          BY Zenon DEF Calls
        <4>2. c \notin WriteCalls
          BY <4>1 DEF WriteCalls
        <4> QED BY <2>4, <3>3, <4>1, <4>2 DEF StartStormCharge
      <3> QED BY <2>10, <3>1, <3>2, <3>3
    <2> QED BY <1>5, <2>5, <2>6, <2>7, <2>8, <2>9, <2>10 DEF UserStep
  <1> QED BY <1>2, <1>3, <1>5 DEF GuardNext


\* Where no session is active and no operation in progress, only the clock
\* and the owner take a step that needs no s.mu.
LEMMA LocalStays ==
    ASSUME PassesCheck, LocalStep PROVE DeadlinePasses \/ PanelWrite
  <1>1. ~(\/ AbortStart \/ AbortResume \/ StartCharging
          \/ StartChargingSaveFails \/ ResumeCharging \/ FinishIncomplete
          \/ FinishRestore \/ FinishSaveFails)
    BY DEF PassesCheck, AbortStart, AbortResume, StartCharging,
       StartChargingSaveFails, ResumeCharging, FinishIncomplete, FinishRestore,
       FinishSaveFails
  <1>2. ~(Cancel \/ Evaluate \/ Boot)
    BY DEF PassesCheck, Cancel, Evaluate, EvaluateLinkLost, EvaluateRetry,
       EvaluateTimeout, EvaluateResume, EvaluateObserve, Monitoring, Evaluating,
       ObserveResumed, Boot
  <1> QED BY <1>1, <1>2 DEF LocalStep

\* It stays so, but for a Start and the end of the process.
LEMMA PassesStays ==
    ASSUME PassesCheck, BusStep \/ LocalStep PROVE PassesCheck'
  <1>1. BusStep => Poll
    BY DEF PassesCheck, BusStep, StartCapture, StartReadFails, StartSaveFails,
       ApplyWrite, ApplyWriteFails, RestoreStep, RestoreStepFails
  <1>2. UNCHANGED manager
    BY <1>1, LocalStays
       DEF Poll, PollFast, PollSlow, PollFails, DeadlinePasses, PanelWrite
  <1> QED BY <1>2 DEF manager, PassesCheck

\* No step lets a write in flight meet a session, or it is not clean.
LEMMA NextClean ==
    ASSUME CallsFit, CleanFits, [GuardNext]_guardVars PROVE CleanFits'
  <1> SUFFICES ASSUME clean', NEW w \in Users, InFlight(w)'
               PROVE  PassesCheck'
    BY DEF CleanFits
  <1>1. NoCall \notin WriteCalls
    BY DEF NoCall, WriteCalls
  <1>2. CASE BusStep \/ LocalStep
    <2>1. InFlight(w) /\ clean
      BY <1>2 DEF BusStep, LocalStep, guard, InFlight
    <2> QED BY <1>2, <2>1, PassesStays DEF CleanFits
  <1>3. ~GuardCrash
    BY <1>1 DEF GuardCrash, InFlight
  <1>4. CASE UNCHANGED guardVars
    BY <1>4 DEF guardVars, guard, vars, manager, InFlight, CleanFits,
       PassesCheck
  <1>5. ASSUME NEW u \in Users, UserStep(u) PROVE PassesCheck'
    <2>1. ASSUME UNCHANGED manager, clean, InFlight(w) \/ PassesCheck
          PROVE  PassesCheck'
      BY <2>1 DEF CleanFits, PassesCheck, manager
    <2>2. CASE WriteRegister(u) \/ UpdateConfig(u) \/ StartStormCharge(u)
      BY <2>1, <2>2 DEF WriteRegister, UpdateConfig, StartStormCharge, Begin,
         vars
    <2>3. CASE WriteLands(u)
      BY <2>1, <2>3 DEF WriteLands, InFlight, CallsFit
    <2>4. CASE WriteConfirmed(u) \/ StoreConfig(u) \/ ManagerRefuses(u)
      BY <1>1, <2>1, <2>4 DEF WriteConfirmed, StoreConfig, ManagerRefuses,
         Return, InFlight, CallsFit, vars
    <2>5. CASE StoreSettings(u)
      <3>1. call'[u] \notin WriteCalls
        <4>1. call[u].kind = "start" /\ call[u] \in Calls
          BY <2>5 DEF StoreSettings, CallsFit
        <4>2. call[u] \in [kind: {"start"}, saved: BOOLEAN]
          BY <4>1 DEF Calls, WriteCalls, NoCall
        <4>3. call'[u].kind = "start"
          BY <2>5, <4>2 DEF StoreSettings, CallsFit
        <4> QED BY <4>3 DEF WriteCalls
      <3> QED BY <2>1, <2>5, <3>1 DEF StoreSettings, InFlight, CallsFit, vars
    <2>6. ~ManagerStart(u) /\ ~WriteRejected(u)
      BY <1>1 DEF ManagerStart, WriteRejected, Return, InFlight, CallsFit
    <2> QED BY <1>5, <2>2, <2>3, <2>4, <2>5, <2>6 DEF UserStep
  <1> QED BY <1>2, <1>3, <1>4, <1>5 DEF GuardNext

\* What is owed, while no write holds s.mu.
LEMMA NextFreeDebt ==
    ASSUME TypeInv, ControlInv, CallsFit, CleanFits, clean, clean',
           bus = NoUser, DebtInv(Tracked), [GuardNext]_guardVars
    PROVE  /\ bus' = NoUser => DebtInv(Tracked)'
           /\ \A u \in Users: bus' = u => DebtBut(call[u].edit)'
  <1>1. CASE [Next]_vars /\ bus' = NoUser
    BY <1>1, NextDebt
  <1>2. ASSUME NEW u \in Users, WriteLands(u)
        PROVE  bus' = u /\ DebtBut(call[u].edit)'
    <2> DEFINE e == call[u].edit
    <2>1. /\ InFlight(u) /\ bus' = u /\ UNCHANGED <<tele, failed>>
          /\ inv' = [inv EXCEPT ![e[1]] = e[2]]
          /\ original' = [original EXCEPT ![e[1]] = e[2]]
      BY <1>2 DEF WriteLands, store, manager
    <2>2. call'[u].edit = e
      BY <1>2 DEF WriteLands, InFlight, WriteCalls, CallsFit
    <2>3. e[1] \in Reg
      BY <2>1, EditType
    <2>4. PassesCheck
      BY <2>1 DEF CleanFits
    <2>5. ~disk.active /\ ~failed
      BY <2>4 DEF PassesCheck, ControlInv, Agree, DebtInv, RestoreProgress
    <2>6. \A r \in Tracked: inv[r] = original[r]
      BY <2>5 DEF DebtInv, Owed
    <2>7. \A r \in Managed \cap Tracked: tele[r] \in {NoVal, original[r]}
      BY <2>5 DEF DebtInv, CacheFits
    <2>8. inv \in RegVals /\ original \in RegVals
      BY DEF TypeInv, TypeOK, WorldOK
    <2> HIDE DEF e
    <2>9. \A r \in Reg: /\ inv'[r] = IF r = e[1] THEN e[2] ELSE inv[r]
                        /\ original'[r] = IF r = e[1] THEN e[2] ELSE original[r]
      BY <2>1, <2>3, <2>8 DEF RegVals
    <2> QED BY <2>1, <2>2, <2>3, <2>5, <2>6, <2>7, <2>9, ManagedTracked
            DEF DebtBut
  <1>3. \A u \in Users: ~WriteConfirmed(u) /\ ~WriteRejected(u)
    BY DEF WriteConfirmed, WriteRejected, CallsFit
  <1>4. ASSUME ~\E u \in Users: WriteLands(u) PROVE bus' = NoUser
    BY <1>3, <1>4 DEF GuardNext, BusStep, LocalStep, GuardCrash, guard, UserStep,
       WriteRegister, UpdateConfig, StoreConfig, StartStormCharge,
       StoreSettings, ManagerStart, ManagerRefuses, Begin, guardVars
  <1>5. CASE \E u \in Users: WriteLands(u)
    BY <1>2, <1>5
  <1>6. CASE ~\E u \in Users: WriteLands(u)
    BY <1>1, <1>3, <1>4, <1>6, GuardSteps DEF UserWrites
  <1> QED BY <1>5, <1>6

\* What is owed, while a write holds s.mu.
LEMMA NextBusDebt ==
    ASSUME TypeInv, ControlInv, CallsFit, CleanFits, clean, clean',
           NEW u \in Users, bus = u, DebtBut(call[u].edit),
           [GuardNext]_guardVars
    PROVE  \/ bus' = NoUser /\ DebtInv(Tracked)'
           \/ bus' = u /\ DebtBut(call[u].edit)'
  <1> DEFINE e == call[u].edit
  <1>1. InFlight(u) /\ call[u].landed /\ call[u] # NoCall /\ u # NoUser
    BY EditType DEF CallsFit
  <1>2. PassesCheck /\ ~disk.active
    BY <1>1 DEF CleanFits, PassesCheck, ControlInv, Agree
  <1>3. e[1] \in Managed /\ e[1] \in Reg /\ e[2] \in Val
    BY <1>1, EditType
  <1>4. ASSUME UNCHANGED <<inv, original, tele, failed>>, bus' = u,
               call'[u] = call[u]
        PROVE  bus' = u /\ DebtBut(call[u].edit)'
    BY <1>4 DEF DebtBut
  <1>5. CASE WriteConfirmed(u)
    <2>1. /\ bus' = NoUser /\ UNCHANGED <<stage, failed, disk, inv, original>>
          /\ tele' = [tele EXCEPT ![e[1]] = e[2]]
      BY <1>5 DEF WriteConfirmed, manager
    <2>2. \A r \in Managed: tele'[r] = IF r = e[1] THEN e[2] ELSE tele[r]
      BY <2>1 DEF TypeInv, TypeOK, StoreOK
    <2> QED BY <1>2, <1>3, <2>1, <2>2
            DEF PassesCheck, DebtBut, DebtInv, Owed, CacheFits, RestoreProgress
  <1>6. CASE GuardCrash
    <2>1. /\ bus' = NoUser /\ tele' = [r \in Managed |-> NoVal]
          /\ stage' = "idle" /\ ~failed' /\ UNCHANGED <<disk, inv, original>>
      BY <1>6 DEF GuardCrash, Crash, Release
    <2> QED BY <1>2, <2>1 DEF DebtBut, DebtInv, Owed, CacheFits,
               RestoreProgress
  <1>7. CASE BusStep \/ LocalStep
    <2>1. LocalStep /\ UNCHANGED guard
      BY <1>1, <1>7 DEF BusStep, LocalStep
    <2>2. DeadlinePasses \/ PanelWrite
      BY <1>2, <2>1, LocalStays
    <2>3. bus' = u /\ call'[u] = call[u]
      BY <2>1 DEF guard
    <2>4. CASE DeadlinePasses
      BY <1>4, <2>3, <2>4 DEF DeadlinePasses, manager, store
    <2>5. CASE PanelWrite
      <3>1. PICK edit \in PanelEdits:
              /\ inv' = [inv EXCEPT ![edit[1]] = edit[2]]
              /\ original' = [original EXCEPT ![edit[1]] = edit[2]]
        BY <2>5 DEF PanelWrite
      <3>2. UNCHANGED <<tele, failed>>
        BY <2>5 DEF PanelWrite, manager, store
      <3>3. edit[1] \in Reg /\ edit[2] \in Val /\ edit = <<edit[1], edit[2]>>
        BY BoundsAssumption
      <3>4. edit[1] \in Managed => edit[1] \notin Tracked
        BY <3>3 DEF Tracked, Uncached
      <3>5. inv \in RegVals /\ original \in RegVals
        BY DEF TypeInv, TypeOK, WorldOK
      <3>6. \A r \in Reg:
              /\ inv'[r] = IF r = edit[1] THEN edit[2] ELSE inv[r]
              /\ original'[r] = IF r = edit[1] THEN edit[2] ELSE original[r]
        BY <3>1, <3>3, <3>5 DEF RegVals
      <3>7. \A r \in Tracked: r \in Reg
        BY DEF Tracked
      <3>8. call'[u].edit = e
        BY <2>3
      <3> HIDE DEF e
      <3> QED BY <1>3, <2>3, <3>2, <3>4, <3>6, <3>7, <3>8 DEF DebtBut, e
    <2> QED BY <2>2, <2>4, <2>5
  <1>8. CASE UNCHANGED guardVars
    BY <1>4, <1>8 DEF guardVars, guard, vars, manager, store
  <1>9. ASSUME NEW w \in Users, UserStep(w)
        PROVE  \/ WriteConfirmed(u)
               \/ /\ UNCHANGED <<inv, original, tele, failed>>
                  /\ bus' = u /\ call'[u] = call[u]
    <2>1. ~WriteLands(w) /\ ~WriteRejected(w) /\ ~ManagerStart(w)
      BY <1>1 DEF WriteLands, WriteRejected, ManagerStart
    <2>2. CASE WriteConfirmed(w)
      BY <1>9, <2>2 DEF WriteConfirmed, CallsFit
    <2>3. CASE w = u /\ ~WriteConfirmed(w)
      <3>1. call[u].kind = "write"
        BY <1>1 DEF InFlight, WriteCalls
      <3> QED BY <1>1, <1>9, <2>1, <2>3, <3>1
              DEF UserStep, WriteRegister, UpdateConfig, StoreConfig,
                  StartStormCharge, StoreSettings, ManagerRefuses, Begin
    <2>4. CASE w # u /\ ~WriteConfirmed(w)
      <3>1. UNCHANGED <<vars, bus>> /\ call'[u] = call[u]
        BY <1>9, <2>1, <2>4
           DEF UserStep, WriteRegister, UpdateConfig, StoreConfig, Return,
               StartStormCharge, StoreSettings, ManagerRefuses, Begin, CallsFit
      <3> QED BY <3>1 DEF vars, manager, store
    <2> QED BY <2>2, <2>3, <2>4
  <1> QED BY <1>4, <1>5, <1>6, <1>7, <1>8, <1>9 DEF GuardNext


---------------------------------------------------------------------------
(* The theorems.                                                           *)

\* Nobody is served, and nothing is owed, before the process is started.
LEMMA InitGuard == GuardInit => GuardInv
  <1> SUFFICES ASSUME GuardInit PROVE GuardInv
    OBVIOUS
  <1>1. TypeInv /\ ControlInv /\ DebtInv(Schedule) /\ DebtInv(Tracked)
    BY InitTypeInv, InitControl, InitDebt, ManagedTracked DEF GuardInit
  <1>2. NoCall \in Calls /\ NoCall \notin WriteCalls
    BY DEF Calls, NoCall, WriteCalls
  <1>3. CallsFit /\ CleanFits
    BY <1>2 DEF GuardInit, CallsFit, CleanFits, InFlight
  <1>4. CleanDebt
    BY <1>1 DEF GuardInit, CleanDebt
  <1> QED BY <1>1, <1>3, <1>4 DEF GuardInv

\* clean, once lost, stays lost.
LEMMA CleanIsLost == [GuardNext]_guardVars /\ clean' => clean
  BY DEF GuardNext, guardVars, guard, UserStep, BusStep, LocalStep, GuardCrash,
     WriteRegister, WriteLands, WriteConfirmed, WriteRejected, UpdateConfig,
     StoreConfig, StartStormCharge, StoreSettings, ManagerStart, ManagerRefuses,
     Begin

\* Every step keeps the invariant.
LEMMA NextGuard == GuardInv /\ [GuardNext]_guardVars => GuardInv'
  <1> SUFFICES ASSUME GuardInv, [GuardNext]_guardVars PROVE GuardInv'
    OBVIOUS
  <1> USE DEF GuardInv
  <1>1. TypeInv' /\ ControlInv' /\ DebtInv(Schedule)'
    <2>1. CASE [Next]_vars
      BY <2>1, NextTypeInv, NextControl, NextDebt, ManagedTracked
    <2>2. CASE \E u \in Users: UserWrites(u)
      BY <2>2, UserWriteBase
    <2> QED BY <2>1, <2>2, GuardSteps
  <1>2. CallsFit' /\ CleanFits'
    BY NextCalls, NextClean
  <1>3. CleanDebt'
    <2> SUFFICES ASSUME clean'
                 PROVE  /\ bus' = NoUser => DebtInv(Tracked)'
                        /\ \A u \in Users: bus' = u => DebtBut(call[u].edit)'
      BY DEF CleanDebt
    <2>1. clean
      BY CleanIsLost
    <2>2. CASE bus = NoUser
      BY <2>1, <2>2, NextFreeDebt DEF CleanDebt
    <2>3. ASSUME NEW u \in Users, bus = u
          PROVE  /\ bus' = NoUser => DebtInv(Tracked)'
                 /\ \A w \in Users: bus' = w => DebtBut(call[w].edit)'
      BY <2>1, <2>3, NextBusDebt DEF CleanDebt
    <2>4. bus \in Users \cup {NoUser}
      BY DEF CallsFit
    <2> QED BY <2>2, <2>3, <2>4
  <1> QED BY <1>1, <1>2, <1>3

\* With any number of users whose writes meet the session anywhere, a manager
\* that says that no session is active has given back the timed charging
\* schedule.
THEOREM ScheduleIsGivenBackToUsers == GuardSpec => []ScheduleGivenBack
  <1>1. GuardInv => ScheduleGivenBack
    BY DEF GuardInv, ControlInv, Agree, DebtInv, Owed, ScheduleGivenBack
  <1> QED BY <1>1, InitGuard, NextGuard, PTL DEF GuardSpec

\* If the panel is not used to change a managed register, no user's write
\* failed and none overlapped a Start, then whatever users wrote is what is in
\* the inverter whenever no session is active and no write is in progress.
THEOREM ConfirmedWritesAreKept ==
    ASSUME Uncached = {} PROVE GuardSpec => []ConfirmedWritesSurvive
  <1>1. GuardInv => ConfirmedWritesSurvive
    <2> SUFFICES ASSUME GuardInv, clean, up, ~runtime.active, bus = NoUser
                 PROVE  inv = original
      BY DEF ConfirmedWritesSurvive
    <2>1. Tracked = Reg /\ inv \in RegVals /\ original \in RegVals
      BY DEF GuardInv, Tracked, TypeInv, TypeOK, WorldOK
    <2>2. DebtInv(Tracked) /\ ~disk.active
      BY DEF GuardInv, CleanDebt, ControlInv, Agree
    <2> QED BY <2>1, <2>2 DEF DebtInv, Owed, RegVals
  <1> QED BY <1>1, InitGuard, NextGuard, PTL DEF GuardSpec


---------------------------------------------------------------------------
(* The undo log, with users.                                               *)

\* A user's write between two sessions is one of the owner.
LEMMA UserWriteMoves ==
    ASSUME TypeInv, NEW u \in Users, UserWrites(u), ~disk.active
    PROVE  Outside(Tracked)
  <1>1. InFlight(u) /\ UNCHANGED disk
    BY UserWriteEffect
  <1> DEFINE r == call[u].edit[1]
             v == call[u].edit[2]
  <1>2. r \in Reg /\ v \in Val
    BY <1>1, EditType
  <1>3. inv[r] \in Val /\ inv = [inv EXCEPT ![r] = inv[r]]
    BY <1>2 DEF TypeInv, TypeOK, WorldOK, RegVals
  <1>4. inv' \in {inv, [inv EXCEPT ![r] = v]}
    BY <1>3 DEF UserWrites, WriteLands, WriteConfirmed, WriteRejected,
       WriteRegisterFails
  <1> HIDE DEF r, v
  <1> QED BY <1>1, <1>2, <1>3, <1>4 DEF Outside, OwnerWrites

\* Users do not touch the schedule.
LEMMA NextScheduleUndo ==
    GuardInv /\ [GuardNext]_guardVars
        => [ScheduleUndo!Next]_(ScheduleUndo!vars)
  <1> SUFFICES ASSUME GuardInv, [GuardNext]_guardVars
               PROVE  [ScheduleUndo!Next]_(ScheduleUndo!vars)
    OBVIOUS
  <1> USE DEF GuardInv
  <1>1. CASE [Next]_vars
    <2>1. Outside(Schedule)
      BY <1>1, NextMoves, ManagedTracked
    <2>2. [UndoOf(Schedule)!Next]_(UndoOf(Schedule)!vars)
      BY <2>1, OutsideUndo, ManagedTracked
    <2> QED BY <2>2 DEF ScheduleUndo!Next, ScheduleUndo!vars,
               ScheduleUndo!Edit, ScheduleUndo!Begin, ScheduleUndo!Write,
               ScheduleUndo!Abort, ScheduleUndo!Close, UndoOf!Next,
               UndoOf!vars, UndoOf!Edit, UndoOf!Begin, UndoOf!Write,
               UndoOf!Abort, UndoOf!Close
  <1>2. ASSUME NEW u \in Users, UserWrites(u)
        PROVE  UNCHANGED ScheduleUndo!vars
    <2>1. UNCHANGED disk /\ \A r \in Schedule: inv'[r] = inv[r]
      BY <1>2, UserWriteEffect
    <2>2. [r \in Schedule |-> inv'[r]] = [r \in Schedule |-> inv[r]]
      BY <2>1
    <2> QED BY <2>1, <2>2 DEF ScheduleUndo!vars, LogOf
  <1> QED BY <1>1, <1>2, GuardSteps

\* For any number of users who write the managed registers whenever they pass
\* the check, the timed charging schedule stays under the undo log: a session
\* changes none of it that is not in the file, and the file forgets none of it
\* that is not back.
THEOREM ScheduleIsUnderAnUndoLog == GuardSpec => ScheduleUndone
  <1>1. GuardInit => ScheduleUndo!Init
    <2> SUFFICES ASSUME GuardInit PROVE ScheduleUndo!Init
      OBVIOUS
    <2>1. TypeInv /\ ~disk.active
      BY InitTypeInv, IdleFields DEF GuardInit, Init
    <2>2. UndoOf(Schedule)!Init
      BY <2>1, IdleUndo, ManagedTracked
    <2> QED BY <2>2 DEF ScheduleUndo!Init, UndoOf!Init
  <1> QED BY <1>1, InitGuard, NextGuard, NextScheduleUndo, PTL
          DEF GuardSpec, ScheduleUndone, ScheduleUndo!Spec

\* As long as no user's write failed or overlapped a Start, the registers that
\* users write are under the undo log as well: their writes meet no session,
\* and a session logs what they have left.
THEOREM UserWritesAreUnderAnUndoLog == GuardSpec => CleanlyUndone
  <1>1. GuardInv /\ [GuardNext]_guardVars
          => (clean' => [Undo!Next]_(Undo!vars))
    <2> SUFFICES ASSUME GuardInv, [GuardNext]_guardVars, clean'
                 PROVE  [Undo!Next]_(Undo!vars)
      OBVIOUS
    <2> USE DEF GuardInv
    <2>1. clean
      BY CleanIsLost
    <2>2. ASSUME NEW u \in Users, InFlight(u)
          PROVE  stage = "idle" /\ ~disk.active
      BY <2>1, <2>2 DEF CleanFits, PassesCheck, ControlInv, Agree
    <2>3. Outside(Tracked)
      <3>1. CASE [Next]_vars
        <4>1. stage = "idle" \/ DebtInv(Tracked)
          BY <2>1, <2>2 DEF CallsFit, CleanDebt
        <4> QED BY <3>1, <4>1, NextMoves
      <3>2. ASSUME NEW u \in Users, UserWrites(u) PROVE Outside(Tracked)
        BY <2>2, <3>2, UserWriteEffect, UserWriteMoves
      <3> QED BY <3>1, <3>2, GuardSteps
    <2>4. [UndoOf(Tracked)!Next]_(UndoOf(Tracked)!vars)
      BY <2>3, OutsideUndo, ManagedTracked
    <2> QED BY <2>4 DEF Undo!Next, Undo!vars, Undo!Edit, Undo!Begin,
               Undo!Write, Undo!Abort, Undo!Close, UndoOf!Next, UndoOf!vars,
               UndoOf!Edit, UndoOf!Begin, UndoOf!Write, UndoOf!Abort,
               UndoOf!Close
  <1> QED BY <1>1, InitGuard, NextGuard, PTL DEF GuardSpec, CleanlyUndone
=============================================================================
