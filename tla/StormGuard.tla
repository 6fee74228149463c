----------------------------- MODULE StormGuard -----------------------------
(***************************************************************************)
(* The storm charge manager among the other users of the inverter: the     *)
(* entry points of internal/app/app.go that HTTP handlers and MQTT command *)
(* callbacks call concurrently.                                            *)
(*                                                                         *)
(* The App keeps users away from an active session by asking IsActive      *)
(* first.  IsActive takes and gives back m.mu, so the answer may be old    *)
(* when the write or the new configuration takes effect.  The Modbus       *)
(* mutex s.mu is held for one register operation at a time: a user's write *)
(* may fall between any two writes of the manager, and the manager's       *)
(* snapshot, which does not take s.mu, between a user's write and the      *)
(* refresh of the cache.                                                   *)
(***************************************************************************)
EXTENDS StormCharge

CONSTANTS
    Users,       \* concurrent requests and command callbacks
    NoUser,      \* nobody
    UserEdits    \* <<managed register, value>> writes users ask for

ASSUME UsersAssumption == NoUser \notin Users
ASSUME UserEditsAssumption == UserEdits \subseteq Managed \X Val

VARIABLES
    call,    \* the App call each user has in progress
    bus,     \* the user whose register write holds s.mu, or NoUser
    cfgBy,   \* who stored the configuration in use (a.cfg), or NoUser
    clean    \* history: no user's write failed or overlapped a Start

guard     == <<call, bus, cfgBy, clean>>
guardVars == <<vars, guard>>

NoCall     == [kind |-> "none"]
WriteCalls == [kind: {"write"}, edit: UserEdits, landed: BOOLEAN]
Calls      == {NoCall} \cup WriteCalls \cup [kind: {"config"}]
              \cup [kind: {"start"}, saved: BOOLEAN]

GuardInit ==
    /\ Init
    /\ call = [u \in Users |-> NoCall]
    /\ bus = NoUser /\ cfgBy = NoUser /\ clean = TRUE

---------------------------------------------------------------------------
(* The App's calls.                                                        *)

\* IsActive answers no; it waits for m.mu, that is, for the operation in
\* progress.  A call that finds a session is rejected and changes nothing.
PassesCheck == up /\ stage = "idle" /\ ~runtime.active

Begin(u, c) ==
    /\ call[u] = NoCall
    /\ PassesCheck
    /\ call' = [call EXCEPT ![u] = c]
    /\ UNCHANGED <<vars, bus, cfgBy, clean>>

Return(u) == call' = [call EXCEPT ![u] = NoCall]

\* App.WriteRegister of a register the manager manages.
WriteRegister(u) ==
    \E edit \in UserEdits:
        Begin(u, [kind |-> "write", edit |-> edit, landed |-> FALSE])

InFlight(u) == call[u] \in WriteCalls

\* modbus.WriteRegister takes s.mu and the inverter takes the value.
WriteLands(u) ==
    /\ InFlight(u) /\ ~call[u].landed /\ bus = NoUser
    /\ LET r == call[u].edit[1]
           v == call[u].edit[2]
       IN /\ inv' = [inv EXCEPT ![r] = v]
          /\ original' = [original EXCEPT ![r] = v]
    /\ call' = [call EXCEPT ![u].landed = TRUE]
    /\ bus' = u
    /\ UNCHANGED <<manager, store, disk, overdue, faults, cfgBy, clean>>

\* Mutant: the cache is left to the next slow poll.
WriteUncached(u) ==
    /\ InFlight(u) /\ call[u].landed
    /\ link' = TRUE
    /\ bus' = NoUser
    /\ Return(u)
    /\ UNCHANGED <<manager, tele, fastSeen, disk, inv, overdue, faults,
                   original, cfgBy, clean>>

\* The value read back goes to the cache, then s.mu is released.
WriteConfirmed(u) ==
    /\ InFlight(u) /\ call[u].landed
    /\ tele' = [tele EXCEPT ![call[u].edit[1]] = call[u].edit[2]]
    /\ link' = TRUE
    /\ bus' = NoUser
    /\ Return(u)
    /\ UNCHANGED <<manager, fastSeen, disk, inv, overdue, faults, original,
                   cfgBy, clean>>

WriteRejected(u) ==
    /\ InFlight(u) /\ ~call[u].landed /\ bus = NoUser
    /\ WriteRegisterFails(call[u].edit[1], call[u].edit[2])
    /\ Fault
    /\ clean' = FALSE
    /\ Return(u)
    /\ UNCHANGED <<manager, fastSeen, disk, overdue, original, bus, cfgBy>>

\* App.UpdateConfig: check, save, then publish the configuration.
UpdateConfig(u) == Begin(u, [kind |-> "config"])

StoreConfig(u) ==
    /\ call[u].kind = "config"
    /\ cfgBy' = u
    /\ Return(u)
    /\ UNCHANGED <<vars, bus, clean>>

\* App.StartStormCharge stores the settings as new defaults before it starts
\* the session with them.
StartStormCharge(u) == Begin(u, [kind |-> "start", saved |-> FALSE])

StoreSettings(u) ==
    /\ call[u].kind = "start" /\ ~call[u].saved
    /\ cfgBy' = u
    /\ call' = [call EXCEPT ![u].saved = TRUE]
    /\ UNCHANGED <<vars, bus, clean>>

ManagerStart(u) ==
    /\ call[u].kind = "start" /\ call[u].saved
    /\ StartSnapshot
    /\ clean' = (clean /\ \A w \in Users: ~InFlight(w))
    /\ Return(u)
    /\ UNCHANGED <<bus, cfgBy>>

\* Manager.Start refuses: another session got there first, or the snapshot
\* is not good enough.
ManagerRefuses(u) ==
    /\ call[u].kind = "start" /\ call[u].saved
    /\ up /\ stage = "idle"
    /\ Return(u)
    /\ UNCHANGED <<vars, bus, cfgBy, clean>>

UserStep(u) ==
    \/ WriteRegister(u) \/ WriteLands(u) \/ WriteConfirmed(u)
    \/ WriteRejected(u)
    \/ UpdateConfig(u) \/ StoreConfig(u)
    \/ StartStormCharge(u) \/ StoreSettings(u) \/ ManagerStart(u)
    \/ ManagerRefuses(u)

---------------------------------------------------------------------------
(* The manager and the poller, which need s.mu for every bus access.       *)

BusStep ==
    /\ bus = NoUser
    /\ \/ StartCapture \/ StartReadFails \/ StartSaveFails
       \/ ApplyWrite \/ ApplyWriteFails \/ RestoreStep \/ RestoreStepFails
       \/ Poll
    /\ UNCHANGED guard

LocalStep ==
    /\ \/ AbortStart \/ AbortResume \/ StartCharging
       \/ StartChargingSaveFails \/ ResumeCharging
       \/ FinishIncomplete \/ FinishRestore \/ FinishSaveFails
       \/ Cancel \/ Evaluate
       \/ DeadlinePasses \/ PanelWrite \/ Boot
    /\ UNCHANGED guard

GuardCrash ==
    /\ Crash
    /\ call' = [u \in Users |-> NoCall] /\ bus' = NoUser
    /\ UNCHANGED <<cfgBy, clean>>

GuardNext == (\E u \in Users: UserStep(u)) \/ BusStep \/ LocalStep \/ GuardCrash

GuardSpec == GuardInit /\ [][GuardNext]_guardVars

---------------------------------------------------------------------------
(* Properties.                                                             *)

\* A write of cutoff SOC or charge current that was confirmed before a Start
\* took its snapshot is what the session gives back: the cache Start reads
\* never lags behind a confirmed write, whichever polls, failed starts,
\* crashes and restores come in between (modbus/service.go:116-148,
\* manager.go:487-494).
ConfirmedWritesSurvive ==
    clean /\ up /\ stage = "idle" /\ ~runtime.active /\ bus = NoUser =>
        inv = original

ScheduleUndo == INSTANCE UndoLog
    WITH Registers <- Schedule, Values <- Val, NoLog <- NoVal,
         regs <- [r \in Schedule |-> inv[r]], log <- LogOf(Schedule),
         undoing <- disk.active /\ disk.phase = "restoring"

\* Whatever users write and whenever: the timed charging schedule is under an
\* undo log, nothing of it is changed before it is in the file, and the file
\* says that a session is over only when it is back (manager.go:163-237,
\* 400-471, 486-504).
ScheduleUndone == ScheduleUndo!Spec

\* The managed registers too, as long as no user's write failed or overlapped a
\* Start: a user's write is then one of the owner, between two sessions, and
\* the next session logs what it has left (manager.go:486-504, app.go:242-250).
CleanlyUndone == [][clean' => [Undo!Next]_(Undo!vars)]_guardVars

\* What docs/SPI_H3P_OPERATION.md:107-110 promises: while a session is
\* active no manual write of a managed register reaches the inverter and no
\* configuration is stored.
ManualChangesRejected ==
    [][runtime.active =>
         /\ cfgBy' = cfgBy
         /\ \A u \in Users: bus' = u => bus = u]_guardVars
=============================================================================
