------------------------ MODULE ModbusServiceProofs ------------------------
(***************************************************************************)
(* Proofs about ModbusService for any number of callers, configurations    *)
(* and registers, any read plan and any number of faults.                  *)
(***************************************************************************)
EXTENDS ModbusAtomic, TLAPS

USE RegistersAssumption, CallersAssumption, KeysAssumption, WordsAssumption,
    PlanAssumption, LoadsAssumption, InitialAssumption, LimitsAssumption

---------------------------------------------------------------------------
(* Who holds the lock, and where.                                          *)

PollSteps == {"open", "read", "finish"}

\* The lock is held exactly while an operation is in progress, and the step of
\* the operation fits what its caller asked for.
HolderFits ==
    /\ holder = Nobody <=> pc = "free"
    /\ holder # Nobody => Op # Idle /\ last = NoWrite
    /\ pc \in PollSteps => Op.kind = "poll"
    /\ pc \in {"validate", "verify"} => Op.kind = "write"
    /\ pc = "send" => Op.kind \in {"write", "writeWords"}
    /\ pc \in {"ensure", "readback"} => Op.kind # "poll"

\* The locals of pollGroup are fresh when a cycle begins.
PollFits ==
    /\ pc \notin PollSteps =>
         range = 1 /\ openFailures = 0 /\ errors = FALSE /\ values = Nothing
    /\ pc \in {"open", "read"} => openFailures < MaxOpenFailures

TypeInv == ModbusTypeOK /\ HolderFits /\ PollFits

Transfers == [kind: {"write", "writeWords", "readWords"},
              reg: Registers, val: Word, key: Keys]
Polls     == [kind: {"poll"}, group: Groups, key: Keys]

\* What is known of the operation in progress.
LEMMA OpType ==
    ASSUME TypeInv, pc # "free"
    PROVE  /\ holder \in Callers /\ Op.key \in Keys
           /\ pc \in PollSteps => Op \in Polls
           /\ pc \notin PollSteps => Op \in Transfers
  <1>1. holder \in Callers /\ call[holder] \in Wanted
    BY DEF TypeInv, ModbusTypeOK, CallsOK, HolderFits, Op
  <1>2. Op \in Transfers \/ Op \in Polls
    BY <1>1 DEF Wanted, Op, Transfers, Polls
  <1>3. \A o \in Transfers: o.kind # "poll" /\ o.key \in Keys
    BY DEF Transfers
  <1>4. \A o \in Polls: o.kind = "poll" /\ o.key \in Keys
    BY DEF Polls
  <1>5. pc \in PollSteps <=> Op.kind = "poll"
    BY DEF TypeInv, ModbusTypeOK, CallsOK, HolderFits, PollSteps
  <1> QED BY <1>1, <1>2, <1>3, <1>4, <1>5

\* An operation that returns leaves the lock free.
LEMMA ReturnType ==
    ASSUME TypeInv, pc # "free", Return
    PROVE  /\ call' \in [Callers -> Wanted \cup {Idle}]
           /\ holder' = Nobody /\ pc' = "free"
  BY OpType DEF TypeInv, ModbusTypeOK, CallsOK, Return

\* Faults are counted up to their bound.
LEMMA FaultType ==
    ASSUME faults \in 0 .. MaxFaults, Fault \/ UNCHANGED faults
    PROVE  faults' \in 0 .. MaxFaults
  BY DEF Fault

\* The initial states.
LEMMA InitTypeInv == Init => TypeInv
  <1> SUFFICES ASSUME Init PROVE TypeInv
    OBVIOUS
  <1>1. CallsOK
    BY DEF Init, CallsOK
  <1>2. StoreOK /\ BusOK /\ HistoryOK
    BY DEF Init, StoreOK, BusOK, HistoryOK, Nothing, Results
  <1>3. PollOK
    <2>1. errors \in BOOLEAN
      BY Zenon DEF Init
    <2> QED BY <2>1 DEF Init, PollOK, Nothing
  <1>4. HolderFits /\ PollFits
    BY DEF Init, HolderFits, PollFits, PollSteps
  <1> QED BY <1>1, <1>2, <1>3, <1>4 DEF TypeInv, ModbusTypeOK

\* A caller that waits for the lock is not the one that holds it.
LEMMA CallType ==
    ASSUME TypeInv, NEW c \in Callers, NEW op \in Wanted, Call(c, op)
    PROVE  /\ call' \in [Callers -> Wanted \cup {Idle}]
           /\ pc # "free" => c # holder /\ Op' = Op
  <1>1. call' \in [Callers -> Wanted \cup {Idle}]
    BY DEF Call, TypeInv, ModbusTypeOK, CallsOK
  <1>2. pc # "free" => c # holder /\ Op' = Op
    BY OpType DEF Call, TypeInv, ModbusTypeOK, CallsOK, HolderFits, Op
  <1> QED BY <1>1, <1>2

\* What users and the poller ask for is well formed.
LEMMA RequestType ==
    ASSUME TypeInv, NEW c \in Callers, Request(c) \/ PollGroup
    PROVE  \E d \in Callers, op \in Wanted: Call(d, op)
  <1>1. cfg # NoKey => cfg \in Keys
    BY DEF TypeInv, ModbusTypeOK, CallsOK
  <1>2. \A w \in load.writes: w[1] \in Registers /\ w[2] \in Word
    BY DEF TypeInv, ModbusTypeOK, CallsOK
  <1>3. 0 \in Word /\ Blocks \subseteq Registers
    BY DEF Word, Registers
  <1>4. CASE Request(c)
    BY <1>1, <1>2, <1>3, <1>4 DEF Request, WriteRegister, WriteHoldingWords,
       ReadHoldingWords, Call, Wanted
  <1>5. CASE PollGroup
    BY <1>1, <1>5 DEF PollGroup, Call, Wanted
  <1> QED BY <1>4, <1>5

\* Every step of an operation leaves the lock with its holder, or returns.
LEMMA NextCalls == TypeInv /\ [Next]_vars => CallsOK' /\ HolderFits'
  <1> SUFFICES ASSUME TypeInv, [Next]_vars PROVE CallsOK' /\ HolderFits'
    OBVIOUS
  <1> USE DEF PollSteps
  <1>1. CASE SetConfig
    BY <1>1 DEF SetConfig, TypeInv, ModbusTypeOK, CallsOK, HolderFits, Op
  <1>2. ASSUME NEW c \in Callers, NEW op \in Wanted, Call(c, op)
        PROVE  CallsOK' /\ HolderFits'
    <2>1. UNCHANGED <<load, cfg, holder, pc, last>>
      BY <1>2 DEF Call
    <2>2. CallsOK'
      BY <1>2, <2>1, CallType DEF TypeInv, ModbusTypeOK, CallsOK
    <2>3. pc # "free" => Op' = Op
      BY <1>2, CallType
    <2> QED BY <2>1, <2>2, <2>3 DEF TypeInv, ModbusTypeOK, CallsOK, HolderFits
  <1>3. CASE PollDisabled
    BY <1>3 DEF PollDisabled, TypeInv, ModbusTypeOK, CallsOK, HolderFits, Op
  <1>4. ASSUME NEW c \in Callers, Lock(c) PROVE CallsOK' /\ HolderFits'
    <2>1. UNCHANGED <<load, cfg, call>> /\ holder' = c /\ last' = NoWrite
          /\ call[c] # Idle
          /\ pc' = IF call[c].kind = "poll" THEN "open" ELSE "ensure"
      BY <1>4 DEF Lock
    <2>2. CallsOK'
      BY <2>1 DEF TypeInv, ModbusTypeOK, CallsOK
    <2>3. HolderFits'
      BY <2>1 DEF HolderFits, Op
    <2> QED BY <2>2, <2>3
  <1>5. ASSUME pc # "free", Return, UNCHANGED <<load, cfg>>
        PROVE  CallsOK' /\ HolderFits'
    <2>1. CallsOK'
      BY <1>5, ReturnType DEF TypeInv, ModbusTypeOK, CallsOK
    <2> QED BY <1>5, <2>1, ReturnType DEF HolderFits
  <1>6. ASSUME pc # "free", UNCHANGED <<load, cfg, call, holder, last>>,
               Op.kind = "poll" => pc' \in PollSteps,
               Op.kind = "write" => pc' \in {"validate", "send", "verify",
                                             "readback"},
               Op.kind = "writeWords" => pc' \in {"send", "readback"},
               Op.kind = "readWords" => pc' = "readback"
        PROVE  CallsOK' /\ HolderFits'
    <2>1. Op' = Op /\ Op.kind \in {"poll", "write", "writeWords", "readWords"}
      BY <1>6, OpType DEF Op, Polls, Transfers
    <2>2. CallsOK'
      BY <1>6, <2>1 DEF TypeInv, ModbusTypeOK, CallsOK
    <2>3. HolderFits'
      BY <1>6, <2>1 DEF TypeInv, HolderFits
    <2> QED BY <2>2, <2>3
  <1>7. CASE EnsureClient
    <2>1. Op \in Transfers
      BY <1>7, OpType DEF EnsureClient
    <2> QED BY <1>5, <1>6, <1>7, <2>1 DEF EnsureClient, Failed, Transfers
  <1>8. CASE Validate
    BY <1>5, <1>6, <1>8 DEF Validate, Failed, TypeInv, HolderFits
  <1>9. CASE Send
    BY <1>5, <1>6, <1>9 DEF Send, Failed, Confirmed, TypeInv, HolderFits
  <1>10. CASE Verify
    BY <1>5, <1>6, <1>10 DEF Verify, Failed, TypeInv, HolderFits
  <1>11. CASE Readback
    BY <1>5, <1>11 DEF Readback, Failed, Confirmed
  <1>12. CASE ReadbackFails
    BY <1>5, <1>12 DEF ReadbackFails, Failed
  <1>13. CASE ReadWords
    BY <1>5, <1>13 DEF ReadWords, Failed
  <1>14. CASE PollOpen
    BY <1>6, <1>14 DEF PollOpen, NextRange, TypeInv, HolderFits
  <1>15. CASE PollRead
    BY <1>6, <1>15 DEF PollRead, NextRange, TypeInv, HolderFits
  <1>16. CASE PollFinish
    BY <1>5, <1>16 DEF PollFinish
  <1>17. CASE UNCHANGED vars
    BY <1>17 DEF vars, TypeInv, ModbusTypeOK, CallsOK, HolderFits, Op
  <1> QED
    BY <1>1, <1>2, <1>3, <1>4, <1>7, <1>8, <1>9, <1>10, <1>11, <1>12, <1>13,
       <1>14, <1>15, <1>16, <1>17, RequestType DEF Next, Work

\* Words the inverter may store.
LEMMA StoredType ==
    ASSUME NEW r \in Registers, NEW v \in Word
    PROVE  Stored(r, v) \subseteq Word
  BY DEF Stored

\* No step leaves anything in the store, on the bus or in the history that is
\* not of its type.
LEMMA NextStore ==
    TypeInv /\ [Next]_vars => StoreOK' /\ BusOK' /\ HistoryOK'
  <1> SUFFICES ASSUME TypeInv, [Next]_vars
               PROVE  StoreOK' /\ BusOK' /\ HistoryOK'
    OBVIOUS
  <1> USE DEF StoreOK, BusOK, HistoryOK
  <1>0. StoreOK /\ BusOK /\ HistoryOK /\ NoWrite \in Results
    BY DEF TypeInv, ModbusTypeOK, Results
  <1>1. CASE SetConfig
    BY <1>0, <1>1 DEF SetConfig
  <1>2. ASSUME NEW c \in Callers, NEW op \in Wanted, Call(c, op)
        PROVE  StoreOK' /\ BusOK' /\ HistoryOK'
    BY <1>0, <1>2 DEF Call
  <1>3. CASE PollDisabled
    BY <1>0, <1>3 DEF PollDisabled
  <1>4. ASSUME NEW c \in Callers, Lock(c)
        PROVE  StoreOK' /\ BusOK' /\ HistoryOK'
    BY <1>0, <1>4 DEF Lock
  <1>5. pc # "free" => Op.key \in Keys
    BY OpType
  <1>6. pc # "free" /\ pc \notin PollSteps =>
            Op.reg \in Registers /\ Op.val \in Word
    BY OpType DEF Transfers
  <1>7. CASE EnsureClient
    BY <1>0, <1>5, <1>7 DEF EnsureClient, Ensure, Fault, Failed
  <1>8. CASE Validate
    BY <1>0, <1>5, <1>8 DEF Validate, Read, Took, Left, Fault, Failed
  <1>9. CASE Send
    <2>1. Op.reg \in Registers /\ Op.val \in Word
      BY <1>6, <1>9 DEF Send, PollSteps
    <2>2. inv' \in [Registers -> Word]
      BY <1>0, <1>9, <2>1, StoredType DEF Send
    <2>3. [ok |-> TRUE, reg |-> Op.reg, val |-> Op.val] \in Results
      BY <2>1 DEF Results
    <2>4. UNCHANGED <<conn, cache>> /\ (UNCHANGED faults \/ Fault)
      BY <1>9 DEF Send
    <2>5. /\ status' \in {status, "connected", "error"}
          /\ doubtful' \in {doubtful, doubtful \cup {Op.reg}}
      BY <1>9 DEF Send
    <2>6. last' \in Results
      BY <1>0, <1>9, <2>3 DEF Send, Failed, Confirmed
    <2> QED BY <1>0, <2>1, <2>2, <2>4, <2>5, <2>6, FaultType
  <1>10. CASE Verify
    <2>1. Op.reg \in Registers
      BY <1>6, <1>10 DEF Verify, PollSteps
    <2> QED BY <1>0, <1>5, <1>10, <2>1
            DEF Verify, Read, Took, Left, Fault, Failed
  <1>11. CASE Readback
    <2>1. Op.reg \in Registers /\ Op.val \in Word
      BY <1>6, <1>11 DEF Readback, PollSteps
    <2>2. cache' \in [Cached -> Word \cup {NoVal}]
      BY <1>0, <1>11, <2>1 DEF Readback, SetCache
    <2>3. [ok |-> TRUE, reg |-> Op.reg, val |-> Op.val] \in Results
      BY <2>1 DEF Results
    <2> QED BY <1>0, <1>11, <2>2, <2>3 DEF Readback, Failed, Confirmed
  <1>12. CASE ReadbackFails
    <2>1. Op.reg \in Registers /\ Op.val \in Word
      BY <1>6, <1>12 DEF ReadbackFails, PollSteps
    <2>2. cache' \in [Cached -> Word \cup {NoVal}]
      BY <1>0, <1>12, <2>1 DEF ReadbackFails, SetCache
    <2> QED BY <1>0, <1>5, <1>12, <2>1, <2>2
            DEF ReadbackFails, Read, Took, Left, Fault, Failed
  <1>13. CASE ReadWords
    BY <1>0, <1>5, <1>13 DEF ReadWords, Read, Took, Left, Fault, Failed
  <1>14. CASE PollOpen
    BY <1>0, <1>5, <1>14 DEF PollOpen, Ensure, Fault
  <1>15. CASE PollRead
    BY <1>0, <1>5, <1>15 DEF PollRead, Collect, Took, Left, Fault
  <1>16. CASE PollFinish
    <2>1. values \in [Cached -> Word \cup {NoVal}]
      BY DEF TypeInv, ModbusTypeOK, PollOK
    <2>2. cache' \in [Cached -> Word \cup {NoVal}]
      BY <1>0, <1>16, <2>1 DEF PollFinish
    <2>3. status' \in {"error", "degraded", "connected"}
      BY <1>16 DEF PollFinish
    <2>4. doubtful' \subseteq doubtful /\ conn' \in {NoKey, conn}
          /\ UNCHANGED <<inv, faults, last>>
      BY <1>16 DEF PollFinish
    <2> QED BY <1>0, <2>2, <2>3, <2>4
  <1>17. CASE UNCHANGED vars
    BY <1>0, <1>17 DEF vars
  <1> QED
    BY <1>1, <1>2, <1>3, <1>4, <1>7, <1>8, <1>9, <1>10, <1>11, <1>12, <1>13,
       <1>14, <1>15, <1>16, <1>17, RequestType DEF Next, Work

\* The ranges of a plan are visited in order and none is left out: the index
\* of the range stays inside the plan.
LEMMA RangeType ==
    ASSUME TypeInv, pc \in {"open", "read"}, NextRange
    PROVE  /\ range' \in Nat
           /\ pc' # "finish" => pc' = "open" /\ range' \in DOMAIN Ranges
  <1>1. Op.group \in Groups
    BY OpType DEF PollSteps, Polls
  <1>2. Ranges \in Seq(SUBSET Cached) /\ range \in DOMAIN Ranges
    BY <1>1 DEF TypeInv, ModbusTypeOK, PollOK, Ranges, Op
  <1>3. DOMAIN Ranges = 1 .. Len(Ranges) /\ Len(Ranges) \in Nat
    BY <1>2
  <1> QED BY <1>2, <1>3 DEF NextRange

\* No step of a poll leaves its plan, and other operations leave the locals of
\* pollGroup alone.
LEMMA NextPoll == TypeInv /\ [Next]_vars => PollOK' /\ PollFits'
  <1> SUFFICES ASSUME TypeInv, [Next]_vars PROVE PollOK' /\ PollFits'
    OBVIOUS
  <1> USE DEF PollSteps
  <1>0. PollOK /\ PollFits
    BY DEF TypeInv, ModbusTypeOK
  <1>1. ASSUME UNCHANGED poll, pc \notin PollSteps, pc' \notin PollSteps
        PROVE  PollOK' /\ PollFits'
    BY <1>0, <1>1 DEF PollOK, PollFits, poll
  <1>2. ASSUME UNCHANGED <<pc, poll>>, pc # "free" => Op' = Op
        PROVE  PollOK' /\ PollFits'
    BY <1>0, <1>2 DEF PollOK, PollFits, poll, Op
  <1>3. ASSUME NEW c \in Callers, NEW op \in Wanted, Call(c, op)
        PROVE  PollOK' /\ PollFits'
    BY <1>2, <1>3, CallType DEF Call
  <1>4. CASE SetConfig \/ PollDisabled \/ UNCHANGED vars
    BY <1>2, <1>4 DEF SetConfig, PollDisabled, vars, Op
  <1>5. ASSUME NEW c \in Callers, Lock(c) PROVE PollOK' /\ PollFits'
    <2>1. pc = "free" /\ UNCHANGED <<poll, call>> /\ holder' = c
          /\ call[c] # Idle
          /\ pc' = IF call[c].kind = "poll" THEN "open" ELSE "ensure"
      BY <1>5 DEF Lock, TypeInv, HolderFits
    <2>2. CASE call[c].kind # "poll"
      BY <1>1, <2>1, <2>2
    <2>3. CASE call[c].kind = "poll"
      <3>1. call[c] \in Polls
        BY <2>1, <2>3 DEF TypeInv, ModbusTypeOK, CallsOK, Wanted, Polls
      <3>2. call[c].group \in Groups
        BY <3>1 DEF Polls
      <3>3. 1 \in DOMAIN Plan[call[c].group]
        BY <3>2
      <3>4. range = 1 /\ openFailures = 0
        BY <1>0, <2>1 DEF PollFits
      <3> QED BY <1>0, <2>1, <2>3, <3>3, <3>4 DEF PollOK, PollFits, poll
    <2> QED BY <2>2, <2>3
  <1>6. CASE EnsureClient
    BY <1>1, <1>6 DEF EnsureClient, Failed, Return
  <1>7. CASE Validate \/ Send \/ Verify
    BY <1>1, <1>7 DEF Validate, Send, Verify, Failed, Confirmed, Return
  <1>8. CASE Readback \/ ReadbackFails \/ ReadWords
    BY <1>1, <1>8 DEF Readback, ReadbackFails, ReadWords, Failed, Confirmed,
       Return
  <1>9. CASE PollOpen
    <2>1. Op' = Op
      BY <1>9 DEF PollOpen, Op
    <2>2. CASE pc' = "read"
      BY <1>0, <1>9, <2>1, <2>2 DEF PollOpen, NextRange, PollOK, PollFits, Op
    <2>3. CASE pc' # "read"
      <3>1. openFailures' = openFailures + 1 /\ UNCHANGED values
            /\ \/ openFailures + 1 >= MaxOpenFailures
                  /\ pc' = "finish" /\ UNCHANGED range
               \/ ~(openFailures + 1 >= MaxOpenFailures) /\ NextRange
        BY <1>9, <2>3, Zenon DEF PollOpen
      <3>2. openFailures' \in 0 .. MaxOpenFailures
        BY <1>0, <1>9, <3>1 DEF PollOpen, PollOK, PollFits
      <3>3. /\ range' \in Nat
            /\ pc' # "finish" => pc' = "open" /\ range' \in DOMAIN Ranges
                                 /\ openFailures' < MaxOpenFailures
        BY <1>0, <1>9, <3>1, RangeType DEF PollOpen, PollOK
      <3>4. errors' \in BOOLEAN
        BY <1>9, <2>3, Zenon DEF PollOpen
      <3> QED BY <1>0, <2>1, <3>1, <3>2, <3>3, <3>4
              DEF PollOK, PollFits, Op, Ranges
    <2> QED BY <2>2, <2>3
  <1>10. CASE PollRead
    <2>1. Op' = Op /\ UNCHANGED openFailures
      BY <1>10 DEF PollRead, Op
    <2>2. errors' \in BOOLEAN
      BY <1>10, Zenon DEF PollRead, Collect
    <2>3. values' \in [Cached -> Word \cup {NoVal}]
      BY <1>0, <1>10 DEF PollRead, Collect, PollOK, TypeInv, ModbusTypeOK,
         BusOK, Registers
    <2>4. /\ range' \in Nat
          /\ pc' # "finish" => pc' = "open" /\ range' \in DOMAIN Ranges
      BY <1>10, RangeType DEF PollRead
    <2> QED BY <1>0, <1>10, <2>1, <2>2, <2>3, <2>4
            DEF PollRead, PollOK, PollFits, Op, Ranges
  <1>11. CASE PollFinish
    <2>1. errors' \in BOOLEAN /\ errors' = FALSE
      BY <1>11, Zenon DEF PollFinish
    <2>2. pc' = "free" /\ range' = 1 /\ openFailures' = 0 /\ values' = Nothing
      BY <1>11 DEF PollFinish, Return
    <2> QED BY <2>1, <2>2 DEF PollOK, PollFits, Nothing
  <1> QED
    BY <1>3, <1>4, <1>5, <1>6, <1>7, <1>8, <1>9, <1>10, <1>11, RequestType
    DEF Next, Work

\* The types, with what their proof needs.
LEMMA TypeInvariant == Spec => []TypeInv
  <1>1. TypeInv /\ [Next]_vars => TypeInv'
    BY NextCalls, NextStore, NextPoll DEF TypeInv, ModbusTypeOK
  <1> QED BY <1>1, InitTypeInv, PTL DEF Spec

\* No step of any caller, however it fails, leaves the types: in particular no
\* poll leaves its plan, and no caller is forgotten with the lock.
THEOREM TypeCorrect == Spec => []ModbusTypeOK
  <1>1. TypeInv => ModbusTypeOK
    BY DEF TypeInv
  <1> QED BY <1>1, TypeInvariant, PTL

---------------------------------------------------------------------------
(* The connection.                                                         *)

PortInv == RightPort /\ FreshPortPerRange

\* No step lets a transfer go over another connection than its caller's, or a
\* serial port stay open between two ranges.
LEMMA NextPort == TypeInv /\ PortInv /\ [Next]_vars => PortInv'
  <1> SUFFICES ASSUME TypeInv, PortInv, [Next]_vars PROVE PortInv'
    OBVIOUS
  <1> USE DEF PortInv, RightPort, FreshPortPerRange
  <1>1. ASSUME UNCHANGED <<pc, conn>>, pc # "free" => Op' = Op PROVE PortInv'
    BY <1>1
  <1>2. ASSUME NEW c \in Callers, NEW op \in Wanted, Call(c, op)
        PROVE  PortInv'
    BY <1>1, <1>2, CallType DEF Call
  <1>3. CASE SetConfig \/ PollDisabled \/ UNCHANGED vars
    BY <1>1, <1>3 DEF SetConfig, PollDisabled, vars, Op
  <1>4. ASSUME NEW c \in Callers, Lock(c) PROVE PortInv'
    BY <1>4 DEF Lock, Op
  <1>5. ASSUME Return PROVE PortInv'
    BY <1>5 DEF Return
  <1>6. CASE EnsureClient
    BY <1>5, <1>6 DEF EnsureClient, Ensure, Failed, Op
  <1>7. CASE Validate
    BY <1>5, <1>7 DEF Validate, Failed, Op
  <1>8. CASE Send \/ Verify
    BY <1>5, <1>8 DEF Send, Verify, Failed, Confirmed
  <1>9. CASE Readback \/ ReadbackFails \/ ReadWords
    BY <1>5, <1>9 DEF Readback, ReadbackFails, ReadWords, Failed, Confirmed
  <1>10. CASE PollOpen
    BY <1>10 DEF PollOpen, Ensure, NextRange, Op
  <1>11. CASE PollRead
    BY <1>11 DEF PollRead, NextRange, Op
  <1>12. CASE PollFinish
    BY <1>5, <1>12 DEF PollFinish
  <1> QED
    BY <1>2, <1>3, <1>4, <1>6, <1>7, <1>8, <1>9, <1>10, <1>11, <1>12,
       RequestType
    DEF Next, Work

\* Both properties of the connection, for any number of configurations that
\* change while callers wait.
LEMMA PortInvariant == Spec => []PortInv
  <1>1. Init => PortInv
    BY DEF Init, PortInv, RightPort, FreshPortPerRange
  <1> QED BY <1>1, NextPort, TypeInvariant, PTL DEF Spec

\* Every transfer goes over a connection of the configuration its caller read.
THEOREM TransfersUseTheRightPort == Spec => []RightPort
  <1>1. PortInv => RightPort
    BY DEF PortInv
  <1> QED BY <1>1, PortInvariant, PTL

\* A serial port is never open across two ranges of a poll.
THEOREM SerialPortsAreReopened == Spec => []FreshPortPerRange
  <1>1. PortInv => FreshPortPerRange
    BY DEF PortInv
  <1> QED BY <1>1, PortInvariant, PTL

---------------------------------------------------------------------------
(* The cache.                                                              *)

\* The register that is being written, until it is read back.
Unread(r) == /\ pc \in {"verify", "readback"}
             /\ Op.kind # "readWords" /\ r = Op.reg

\* CacheHonest in the middle of operations too.
CacheFits ==
    \A r \in Cached \ doubtful: cache[r] \in {NoVal, inv[r]} \/ Unread(r)

\* What a poll has read so far is still there when the cycle ends.
ValuesFit == \A r \in Cached: values[r] \in {NoVal, inv[r]}

CacheInv == CacheFits /\ ValuesFit /\ ConfirmedMeansWritten

\* A step that changes neither the inverter nor the cache, nor where the
\* operation is as far as the cache is concerned.
LEMMA CacheStutters ==
    ASSUME CacheInv, UNCHANGED <<inv, cache, doubtful, values>>,
           \A r \in Cached: Unread(r) => Unread(r)',
           last' \in {last, NoWrite}
    PROVE  CacheInv'
  BY DEF CacheInv, CacheFits, ValuesFit, ConfirmedMeansWritten, NoWrite

\* An operation that returns without having touched a register.
LEMMA CacheReturns ==
    ASSUME TypeInv, CacheInv, pc \in {"ensure", "validate"}, Failed,
           UNCHANGED <<inv, cache, doubtful, values>>
    PROVE  CacheInv'
  BY CacheStutters DEF Failed, Unread

\* No step makes the cache wrong about a register that was read back, nor a
\* confirmed write undone.
LEMMA NextCache == TypeInv /\ CacheInv /\ [Next]_vars => CacheInv'
  <1> SUFFICES ASSUME TypeInv, CacheInv, [Next]_vars PROVE CacheInv'
    OBVIOUS
  <1>0. /\ cache \in [Cached -> Word \cup {NoVal}] /\ inv \in [Registers -> Word]
        /\ Cached \subseteq Registers
    BY DEF TypeInv, ModbusTypeOK, StoreOK, BusOK, Registers
  <1>1. ASSUME NEW c \in Callers, NEW op \in Wanted, Call(c, op)
        PROVE  CacheInv'
    BY <1>1, CallType, CacheStutters DEF Call, poll, Unread
  <1>2. CASE SetConfig \/ PollDisabled \/ UNCHANGED vars
    BY <1>2, CacheStutters DEF SetConfig, PollDisabled, vars, poll, Unread, Op
  <1>3. ASSUME NEW c \in Callers, Lock(c) PROVE CacheInv'
    BY <1>3, CacheStutters DEF Lock, poll, Unread, TypeInv, HolderFits
  <1>4. CASE EnsureClient
    <2>1. CASE Failed
      BY <1>4, <2>1, CacheReturns DEF EnsureClient, poll
    <2>2. CASE UNCHANGED last
      BY <1>4, <2>2, CacheStutters DEF EnsureClient, poll, Unread
    <2> QED BY <1>4, <2>1, <2>2 DEF EnsureClient
  <1>5. CASE Validate
    <2>1. CASE Failed
      BY <1>5, <2>1, CacheReturns DEF Validate, poll
    <2>2. CASE UNCHANGED last
      BY <1>5, <2>2, CacheStutters DEF Validate, poll, Unread
    <2> QED BY <1>5, <2>1, <2>2 DEF Validate
  <1>6. ASSUME pc \notin PollSteps, UNCHANGED values PROVE ValuesFit'
    BY <1>6 DEF TypeInv, PollFits, ValuesFit, Nothing
  <1>7. CASE Send
    <2>1. /\ Op.reg \in Registers /\ UNCHANGED <<cache, values>>
          /\ \A r \in Registers \ {Op.reg}: inv'[r] = inv[r]
          /\ \A r \in Cached: ~Unread(r)
      BY <1>0, <1>7, OpType DEF Send, PollSteps, Transfers, poll, Unread
    <2>2. doubtful \subseteq doubtful'
      BY <1>7 DEF Send
    <2>3. CacheFits'
      <3>1. ASSUME NEW r \in Cached \ doubtful', r = Op.reg PROVE Unread(r)'
        BY <1>7, <3>1 DEF Send, Unread, TypeInv, HolderFits, Op
      <3>2. ASSUME NEW r \in Cached \ doubtful', r # Op.reg
            PROVE  cache'[r] \in {NoVal, inv'[r]}
        BY <1>0, <2>1, <2>2, <3>2 DEF CacheInv, CacheFits
      <3> QED BY <3>1, <3>2 DEF CacheFits
    <2>4. ConfirmedMeansWritten'
      BY <1>7 DEF Send, Failed, Confirmed, ConfirmedMeansWritten, NoWrite,
         TypeInv, HolderFits
    <2>5. ValuesFit'
      BY <1>6, <1>7, <2>1 DEF Send, PollSteps
    <2> QED BY <2>3, <2>4, <2>5 DEF CacheInv
  <1>8. CASE Verify
    <2>1. UNCHANGED <<inv, cache, values>> /\ doubtful \subseteq doubtful'
      BY <1>8 DEF Verify, poll
    <2>2. ASSUME NEW r \in Cached \ doubtful', Unread(r) PROVE Unread(r)'
      BY <1>8, <2>2 DEF Verify, Unread, TypeInv, HolderFits, Op
    <2>3. CacheFits'
      <3>1. ASSUME NEW r \in Cached \ doubtful', ~Unread(r)
            PROVE  cache'[r] \in {NoVal, inv'[r]}
        BY <2>1, <3>1 DEF CacheInv, CacheFits
      <3> QED BY <2>2, <3>1 DEF CacheFits
    <2>4. ConfirmedMeansWritten'
      <3>1. last' = NoWrite
        BY <1>8 DEF Verify, Failed, TypeInv, HolderFits
      <3> QED BY <3>1 DEF ConfirmedMeansWritten, NoWrite
    <2>5. ValuesFit'
      BY <1>6, <1>8, <2>1 DEF Verify, PollSteps
    <2> QED BY <2>3, <2>4, <2>5 DEF CacheInv
  <1>9. CASE Readback
    <2>1. /\ UNCHANGED <<inv, values>> /\ Op.reg \in Registers
          /\ \A r \in Cached: cache'[r] = IF r = Op.reg THEN inv[r] ELSE cache[r]
          /\ \A r \in Cached: Unread(r) => r = Op.reg
          /\ doubtful' = doubtful \ {Op.reg}
      BY <1>0, <1>9, OpType DEF Readback, SetCache, poll, PollSteps, Transfers,
         Unread
    <2>2. CacheFits'
      BY <2>1 DEF CacheInv, CacheFits
    <2>3. ConfirmedMeansWritten'
      <3>1. CASE Failed
        BY <3>1 DEF Failed, NoWrite, ConfirmedMeansWritten
      <3>2. CASE Confirmed
        BY <1>9, <2>1, <3>2 DEF Readback, Failed, Confirmed,
           ConfirmedMeansWritten, NoWrite
      <3> QED BY <1>9, <3>1, <3>2 DEF Readback
    <2>4. ValuesFit'
      BY <1>6, <1>9, <2>1 DEF Readback, PollSteps
    <2> QED BY <2>2, <2>3, <2>4 DEF CacheInv
  <1>10. CASE ReadbackFails
    <2>1. /\ UNCHANGED <<inv, values>>
          /\ \A r \in Cached: r # Op.reg => cache'[r] = cache[r]
          /\ \A r \in Cached: Unread(r) => r = Op.reg
          /\ doubtful' = doubtful \cup {Op.reg}
      BY <1>0, <1>10 DEF ReadbackFails, SetCache, poll, Unread
    <2>2. CacheFits'
      BY <2>1 DEF CacheInv, CacheFits
    <2>3. ConfirmedMeansWritten'
      BY <1>10 DEF ReadbackFails, Failed, NoWrite, ConfirmedMeansWritten
    <2>4. ValuesFit'
      BY <1>6, <1>10, <2>1 DEF ReadbackFails, PollSteps
    <2> QED BY <2>2, <2>3, <2>4 DEF CacheInv
  <1>11. CASE ReadWords
    BY <1>11, CacheStutters DEF ReadWords, Failed, poll, Unread
  <1>12. CASE PollOpen
    BY <1>12, CacheStutters DEF PollOpen, Unread
  <1>13. CASE PollRead
    <2>1. UNCHANGED <<inv, cache, doubtful, last>>
      BY <1>13 DEF PollRead
    <2>2. ValuesFit'
      BY <1>13, <2>1 DEF PollRead, Collect, CacheInv, ValuesFit
    <2>3. CacheFits'
      BY <1>13, <2>1 DEF PollRead, CacheInv, CacheFits, Unread
    <2>4. ConfirmedMeansWritten'
      BY <2>1 DEF CacheInv, ConfirmedMeansWritten
    <2> QED BY <2>2, <2>3, <2>4 DEF CacheInv
  <1>14. CASE PollFinish
    <2>1. /\ UNCHANGED inv /\ last' = NoWrite /\ values' = Nothing
          /\ \A r \in Cached: cache'[r] =
                IF values[r] # NoVal THEN values[r] ELSE cache[r]
          /\ doubtful' = doubtful \ {r \in Cached: values[r] # NoVal}
      BY <1>14 DEF PollFinish, TypeInv, HolderFits
    <2>2. \A r \in Cached: ~Unread(r)
      BY <1>14 DEF PollFinish, Unread
    <2>3. CacheFits'
      BY <2>1, <2>2 DEF CacheInv, CacheFits, ValuesFit
    <2> QED BY <2>1, <2>3 DEF CacheInv, ValuesFit, Nothing,
               ConfirmedMeansWritten, NoWrite
  <1> QED
    BY <1>1, <1>2, <1>3, <1>4, <1>5, <1>7, <1>8, <1>9, <1>10, <1>11, <1>12,
       <1>13, <1>14, RequestType
    DEF Next, Work

\* The cache, in the middle of operations too.
LEMMA CacheInvariant == Spec => []CacheInv
  <1>1. Init => CacheInv
    BY DEF Init, CacheInv, CacheFits, ValuesFit, ConfirmedMeansWritten,
       Nothing, NoWrite
  <1> QED BY <1>1, NextCache, TypeInvariant, PTL DEF Spec

\* A write that was reported as done is in the inverter and in the cache,
\* whatever the firmware, the line and the other callers did.
THEOREM ConfirmedWritesAreWritten == Spec => []ConfirmedMeansWritten
  <1>1. CacheInv => ConfirmedMeansWritten
    BY DEF CacheInv
  <1> QED BY <1>1, CacheInvariant, PTL

\* Between operations the cache is what the inverter holds, but for registers
\* whose last write could not be read back.
THEOREM TheCacheIsHonest == Spec => []CacheHonest
  <1>1. TypeInv /\ CacheInv => CacheHonest
    BY DEF TypeInv, HolderFits, CacheInv, CacheFits, Unread, CacheHonest
  <1> QED BY <1>1, TypeInvariant, CacheInvariant, PTL


---------------------------------------------------------------------------
(* The gaps between the thresholds.                                        *)

\* uint16 addition of the gap to a threshold does not wrap: what the inverter
\* holds at the start, what EncodeWrite lets through (at most 100) and what the
\* firmware makes of it are percentages.
Percentages ==
    /\ \A regs \in Initial, r \in Thresholds: regs[r] + Gap < WordSize
    /\ \A l \in Loads: \A w \in l.writes:
          w[1] \in Thresholds => w[2] + Gap < WordSize
    /\ \A a \in Adjusted: a[1] \in Thresholds => a[3] + Gap < WordSize

Sends == {"write", "writeWords"}

\* The thresholds stay percentages, and a block is no threshold.
WordsFit ==
    /\ \A r \in Thresholds: inv[r] + Gap < WordSize
    /\ \A c \in Callers: call[c].kind \in Sends /\ call[c].reg \in Thresholds =>
          call[c].kind = "write" /\ call[c].val + Gap < WordSize

\* A request is for a percentage.
LEMMA CallFits ==
    ASSUME Percentages, TypeInv, WordsFit, NEW c \in Callers,
           Request(c) \/ PollGroup
    PROVE  WordsFit'
  <1>1. ASSUME NEW d \in Callers, NEW op, Call(d, op), op.kind \in Sends,
               op.reg \in Thresholds => op.kind = "write" /\ op.val + Gap < WordSize
        PROVE  WordsFit'
    BY <1>1 DEF Call, TypeInv, ModbusTypeOK, CallsOK, WordsFit
  <1>2. ASSUME NEW d \in Callers, NEW op, Call(d, op), op.kind \notin Sends
        PROVE  WordsFit'
    BY <1>2 DEF Call, TypeInv, ModbusTypeOK, CallsOK, WordsFit
  <1>3. load \in Loads
    BY DEF TypeInv, ModbusTypeOK, CallsOK
  <1>4. CASE WriteRegister(c)
    <2>1. PICK w \in load.writes:
            Call(c, [kind |-> "write", reg |-> w[1], val |-> w[2], key |-> cfg])
      BY <1>4 DEF WriteRegister
    <2>2. w[1] \in Thresholds => w[2] + Gap < WordSize
      BY <1>3 DEF Percentages
    <2> QED BY <1>1, <2>1, <2>2 DEF Sends
  <1>5. CASE WriteHoldingWords(c)
    <2>1. PICK w \in load.writes:
            /\ w[1] \in Blocks
            /\ Call(c, [kind |-> "writeWords", reg |-> w[1], val |-> w[2],
                        key |-> cfg])
      BY <1>5 DEF WriteHoldingWords
    <2>2. w[1] \notin Thresholds
      BY <2>1 DEF Cached
    <2> QED BY <1>1, <2>1, <2>2 DEF Sends
  <1>6. CASE ReadHoldingWords(c)
    <2>1. PICK r \in Blocks:
            Call(c, [kind |-> "readWords", reg |-> r, val |-> 0, key |-> cfg])
      BY <1>6 DEF ReadHoldingWords
    <2> QED BY <1>2, <2>1 DEF Sends
  <1>7. CASE PollGroup
    <2>1. PICK g \in Groups:
            Call(Poller, [kind |-> "poll", group |-> g, key |-> cfg])
      BY <1>7 DEF PollGroup
    <2> QED BY <1>2, <2>1 DEF Sends
  <1> QED BY <1>4, <1>5, <1>6, <1>7 DEF Request

\* No step makes a threshold more than a percentage.
LEMMA NextWords ==
    ASSUME Percentages
    PROVE  TypeInv /\ WordsFit /\ [Next]_vars => WordsFit'
  <1> SUFFICES ASSUME TypeInv, WordsFit, [Next]_vars PROVE WordsFit'
    OBVIOUS
  <1>1. ASSUME NEW c \in Callers, Request(c) \/ PollGroup PROVE WordsFit'
    BY <1>1, CallFits
  <1>2. ASSUME UNCHANGED call \/ (pc # "free" /\ Return), UNCHANGED inv
        PROVE  WordsFit'
    BY <1>2, OpType DEF Return, WordsFit, TypeInv, ModbusTypeOK, CallsOK, Idle,
       Sends
  <1>3. CASE Send
    <2>1. Op \in Transfers /\ holder \in Callers /\ Op.kind \in Sends
      BY <1>3, OpType DEF Send, PollSteps, TypeInv, HolderFits, Sends
    <2>2. PICK v \in Stored(Op.reg, Op.val) \cup {inv[Op.reg]}:
            inv' = [inv EXCEPT ![Op.reg] = v]
      BY <1>3 DEF Send
    <2>3. Op.reg \in Thresholds => v + Gap < WordSize
      BY <2>1 DEF Stored, WordsFit, Percentages, Op
    <2>4. \A r \in Thresholds: inv'[r] + Gap < WordSize
      BY <2>1, <2>2, <2>3 DEF WordsFit, TypeInv, ModbusTypeOK, BusOK, Registers,
         Cached
    <2>5. UNCHANGED call \/ Return
      BY <1>3 DEF Send, Failed, Confirmed
    <2>6. \A c \in Callers: call'[c] \in {call[c], Idle}
      BY <2>1, <2>5 DEF Return, TypeInv, ModbusTypeOK, CallsOK
    <2> QED BY <2>4, <2>6 DEF WordsFit, Idle, Sends
  <1>4. CASE SetConfig \/ PollDisabled \/ UNCHANGED vars
    BY <1>2, <1>4 DEF SetConfig, PollDisabled, vars
  <1>5. ASSUME NEW c \in Callers, Lock(c) PROVE WordsFit'
    BY <1>2, <1>5 DEF Lock
  <1>6. CASE EnsureClient \/ Validate \/ Verify
    BY <1>2, <1>6 DEF EnsureClient, Validate, Verify, Failed
  <1>7. CASE Readback \/ ReadbackFails \/ ReadWords
    BY <1>2, <1>7 DEF Readback, ReadbackFails, ReadWords, Failed, Confirmed
  <1>8. CASE PollOpen \/ PollRead \/ PollFinish
    BY <1>2, <1>8 DEF PollOpen, PollRead, PollFinish
  <1> QED
    BY <1>1, <1>3, <1>4, <1>5, <1>6, <1>7, <1>8 DEF Next, Work

\* A write that passes validateWriteLocked keeps the gaps, as long as the cache
\* is right about the neighbours.
LEMMA ValidateKeepsGaps ==
    ASSUME TypeInv, CacheInv, WordsFit, pc = "validate",
           Fits(Op.reg, Op.val, [n \in Neighbours(Op.reg) |-> Current(n)]),
           Neighbours(Op.reg) \cap doubtful = {}
    PROVE  GapsHold
  <1>1. Op \in Transfers /\ holder \in Callers /\ Op.kind = "write"
    BY OpType DEF PollSteps, TypeInv, HolderFits
  <1>2. Op.reg \in Registers /\ Op.val \in Word
    BY <1>1 DEF Transfers
  <1>3. \A n \in Neighbours(Op.reg): n \in Thresholds
    BY DEF Neighbours, Rules, Thresholds
  <1>4. \A n \in Neighbours(Op.reg): Current(n) = inv[n]
    BY <1>3 DEF Current, CacheInv, CacheFits, Unread, Cached
  <1>5. \A r \in Thresholds: inv[r] \in Word /\ inv[r] + Gap < WordSize
    BY DEF WordsFit, TypeInv, ModbusTypeOK, BusOK, Registers, Cached
  <1>6. Op.reg \in Thresholds => Op.val + Gap < WordSize
    BY <1>1 DEF WordsFit, Op, Sends
  <1>7. \A x \in Word, y \in {0, Gap}:
          x + Gap < WordSize => Plus(x, y) = x + y
    BY DEF Plus, Word
  <1>8. ASSUME NEW rule \in Rules, rule[1] = Op.reg
        PROVE  Op.val + rule[3] <= inv[rule[2]]
    <2>1. rule[2] \in Neighbours(Op.reg)
      BY <1>8 DEF Neighbours
    <2>2. Plus(Op.val, rule[3]) <= inv[rule[2]]
      BY <1>4, <1>8, <2>1 DEF Fits
    <2>3. rule[3] \in {0, Gap} /\ Op.reg \in Thresholds
      BY <1>8 DEF Rules, Thresholds
    <2> QED BY <1>2, <1>6, <1>7, <2>2, <2>3
  <1>9. ASSUME NEW rule \in Rules, rule[2] = Op.reg
        PROVE  inv[rule[1]] + rule[3] <= Op.val
    <2>1. rule[1] \in Neighbours(Op.reg)
      BY <1>9 DEF Neighbours
    <2>2. Op.val >= Plus(inv[rule[1]], rule[3])
      BY <1>4, <1>9, <2>1 DEF Fits
    <2>3. rule[3] \in {0, Gap}
      BY DEF Rules
    <2>4. Plus(inv[rule[1]], rule[3]) = inv[rule[1]] + rule[3]
      BY <1>3, <1>5, <1>7, <2>1, <2>3
    <2> QED BY <1>2, <1>3, <1>5, <2>1, <2>2, <2>3, <2>4 DEF Word
  <1>10. \A rule \in Rules: rule[1] # rule[2]
    BY DEF Rules
  <1> QED
    <2>1. /\ inv \in [Registers -> Word]
          /\ \A rule \in Rules: rule[1] \in Registers /\ rule[2] \in Registers
      BY DEF TypeInv, ModbusTypeOK, BusOK, Rules, Registers, Cached, Thresholds
    <2> QED BY <1>2, <1>8, <1>9, <1>10, <2>1 DEF GapsHold

\* No step puts the gaps of the write in progress at risk.
LEMMA NextGaps ==
    TypeInv /\ CacheInv /\ WordsFit /\ GapsKept /\ [Next]_vars => GapsKept'
  <1> SUFFICES ASSUME TypeInv, CacheInv, WordsFit, GapsKept, [Next]_vars,
                      pc' = "send"
               PROVE  (Neighbours(Op.reg) \cap doubtful = {} => GapsHold)'
    BY DEF GapsKept
  <1>1. ASSUME pc = "send", Op' = Op, UNCHANGED <<inv, doubtful>>
        PROVE  (Neighbours(Op.reg) \cap doubtful = {} => GapsHold)'
    BY <1>1 DEF GapsKept, GapsHold
  <1>2. ASSUME NEW c \in Callers, NEW op \in Wanted, Call(c, op)
        PROVE  (Neighbours(Op.reg) \cap doubtful = {} => GapsHold)'
    BY <1>1, <1>2, CallType DEF Call
  <1>3. CASE SetConfig \/ PollDisabled \/ UNCHANGED vars
    BY <1>1, <1>3 DEF SetConfig, PollDisabled, vars, Op
  <1>4. CASE EnsureClient
    <2>1. /\ Op' = Op /\ Op.kind = "writeWords"
          /\ holder \in Callers
      BY <1>4, OpType DEF EnsureClient, Failed, Return, Op
    <2>2. Op.reg \notin Thresholds
      BY <2>1 DEF WordsFit, Op, Sends
    <2>3. \A rule \in Rules: Op.reg \notin {rule[1], rule[2]}
      BY <2>2 DEF Rules, Thresholds
    <2> QED BY <2>1, <2>3 DEF GapsHold
  <1>5. CASE Validate
    <2>1. /\ Op' = Op /\ UNCHANGED <<inv, doubtful>>
          /\ Fits(Op.reg, Op.val, [n \in Neighbours(Op.reg) |-> Current(n)])
      BY <1>5 DEF Validate, Failed, Return, Op
    <2>2. Neighbours(Op.reg) \cap doubtful = {} => GapsHold
      BY <1>5, <2>1, ValidateKeepsGaps DEF Validate
    <2> QED BY <2>1, <2>2 DEF GapsHold
  <1>6. ~\E c \in Callers: Lock(c)
    BY DEF Lock
  <1>7. ~(Send \/ Verify \/ Readback \/ ReadbackFails \/ ReadWords)
    BY DEF Send, Verify, Readback, ReadbackFails, ReadWords, Failed, Confirmed,
       Return
  <1>8. ~(PollOpen \/ PollRead \/ PollFinish)
    BY DEF PollOpen, PollRead, PollFinish, NextRange, Return
  <1> QED
    BY <1>2, <1>3, <1>4, <1>5, <1>6, <1>7, <1>8, RequestType DEF Next, Work

\* No threshold is sent that comes too close to one the cache is right about,
\* as long as thresholds are percentages: without that uint16 addition wraps.
THEOREM ThresholdsKeepTheirGaps ==
    ASSUME Percentages PROVE Spec => []GapsKept
  <1>1. Init => WordsFit /\ GapsKept
    BY DEF Init, WordsFit, GapsKept, Percentages, Idle, Sends
  <1>2. TypeInv /\ WordsFit /\ [Next]_vars => WordsFit'
    BY NextWords
  <1> QED
    BY <1>1, <1>2, NextGaps, TypeInvariant, CacheInvariant, PTL DEF Spec


---------------------------------------------------------------------------
(* The service as a register bus.                                          *)

\* What is in progress was asked for, by the operation of its register.
AskedFits ==
    \A c \in Callers: call[c].kind \in Sends =>
        /\ <<call[c].reg, call[c].val>> \in Asked
        /\ call[c].reg \in Blocks <=> call[c].kind = "writeWords"

\* The register of a write that is not answered yet holds what it held before,
\* or what the inverter makes of the word that was sent.
SentFits ==
    Sent => inv[Op.reg] \in Stored(Op.reg, Op.val) \cup {before}

BusInv == AskedFits /\ SentFits

\* A call is for what some workload asks.
LEMMA CallAsked ==
    ASSUME TypeInv, AskedFits, NEW c \in Callers, Request(c) \/ PollGroup
    PROVE  AskedFits'
  <1>1. ASSUME NEW d \in Callers, NEW op, Call(d, op),
               op.kind \in Sends => /\ <<op.reg, op.val>> \in Asked
                                    /\ op.reg \in Blocks <=> op.kind = "writeWords"
        PROVE  AskedFits'
    BY <1>1 DEF Call, TypeInv, ModbusTypeOK, CallsOK, AskedFits
  <1>2. \A w \in load.writes: w \in Asked /\ w = <<w[1], w[2]>>
    BY DEF TypeInv, ModbusTypeOK, CallsOK, Asked
  <1>3. CASE WriteRegister(c)
    <2>1. PICK w \in load.writes:
            /\ w[1] \notin Blocks
            /\ Call(c, [kind |-> "write", reg |-> w[1], val |-> w[2], key |-> cfg])
      BY <1>3 DEF WriteRegister
    <2> QED BY <1>1, <1>2, <2>1
  <1>4. CASE WriteHoldingWords(c)
    <2>1. PICK w \in load.writes:
            /\ w[1] \in Blocks
            /\ Call(c, [kind |-> "writeWords", reg |-> w[1], val |-> w[2],
                        key |-> cfg])
      BY <1>4 DEF WriteHoldingWords
    <2> QED BY <1>1, <1>2, <2>1
  <1>5. CASE ReadHoldingWords(c)
    <2>1. PICK r \in Blocks:
            Call(c, [kind |-> "readWords", reg |-> r, val |-> 0, key |-> cfg])
      BY <1>5 DEF ReadHoldingWords
    <2> QED BY <1>1, <2>1 DEF Sends
  <1>6. CASE PollGroup
    <2>1. PICK g \in Groups:
            Call(Poller, [kind |-> "poll", group |-> g, key |-> cfg])
      BY <1>6 DEF PollGroup
    <2> QED BY <1>1, <2>1 DEF Sends
  <1> QED BY <1>3, <1>4, <1>5, <1>6 DEF Request

\* Whatever is done, what is in progress stays as it was asked for.
LEMMA NextAsked == TypeInv /\ AskedFits /\ [Next]_vars => AskedFits'
  <1> SUFFICES ASSUME TypeInv, AskedFits, [Next]_vars PROVE AskedFits'
    OBVIOUS
  <1>1. ASSUME NEW c \in Callers, Request(c) \/ PollGroup PROVE AskedFits'
    BY <1>1, CallAsked
  <1>2. ASSUME UNCHANGED call \/ (pc # "free" /\ Return) PROVE AskedFits'
    BY <1>2, OpType DEF Return, AskedFits, TypeInv, ModbusTypeOK, CallsOK, Idle,
       Sends
  <1>3. CASE SetConfig \/ PollDisabled \/ UNCHANGED vars
    BY <1>2, <1>3 DEF SetConfig, PollDisabled, vars
  <1>4. ASSUME NEW c \in Callers, Lock(c) PROVE AskedFits'
    BY <1>2, <1>4 DEF Lock
  <1>5. CASE Work
    <2>1. UNCHANGED call \/ (pc # "free" /\ Return)
      BY <1>5 DEF Work, EnsureClient, Validate, Send, Verify, Readback,
         ReadbackFails, ReadWords, PollOpen, PollRead, PollFinish, Failed,
         Confirmed
    <2> QED BY <1>2, <2>1
  <1> QED BY <1>1, <1>3, <1>4, <1>5 DEF Next


\* What the history variable does in a step.
Remembers ==
    before' = IF pc' \notin {"verify", "readback"} THEN 0
              ELSE IF pc = "send" THEN inv[Op.reg] ELSE before

\* A step that leaves the inverter, and the operation if one is in progress,
\* leaves what a caller can tell of the registers.
LEMMA RegsStay ==
    ASSUME Remembers, UNCHANGED <<inv, pc>>, pc # "free" => Op' = Op
    PROVE  UNCHANGED Regs /\ (SentFits => SentFits')
  BY DEF Remembers, Regs, Sent, SentFits, Stored

\* So does one inside an operation that has sent nothing.
LEMMA NothingSent ==
    ASSUME UNCHANGED inv, ~Sent, ~Sent'
    PROVE  UNCHANGED Regs /\ SentFits'
  BY DEF Regs, SentFits

\* A word that is sent is not to be seen yet.
LEMMA SendStays ==
    ASSUME TypeInv, Send, Remembers, pc' # "free"
    PROVE  /\ UNCHANGED <<Regs, cache, status, last>>
           /\ SentFits'
  <1>1. /\ Op.reg \in Registers /\ Op.val \in Word /\ Op.kind \in Sends
        /\ inv \in [Registers -> Word] /\ ~Sent
    BY OpType DEF Send, PollSteps, Transfers, TypeInv, HolderFits, Sends,
       ModbusTypeOK, BusOK, Sent
  <1>2. /\ pc' \in {"verify", "readback"} /\ UNCHANGED <<call, holder>>
        /\ UNCHANGED <<cache, status, last>>
    BY DEF Send, Return, Failed, Confirmed
  <1>3. Op' = Op /\ before' = inv[Op.reg]
    BY <1>2 DEF Send, Op, Remembers
  <1>4. PICK v \in Stored(Op.reg, Op.val) \cup {inv[Op.reg]}:
          inv' = [inv EXCEPT ![Op.reg] = v]
    BY DEF Send
  <1>5. Sent'
    BY <1>1, <1>2, <1>3 DEF Sent, Sends
  <1>6. Regs' = [inv' EXCEPT ![Op.reg] = inv[Op.reg]] /\ Regs = inv
    BY <1>1, <1>3, <1>5 DEF Regs
  <1>7. Regs' = Regs
    BY <1>1, <1>4, <1>6
  <1>8. SentFits'
    BY <1>1, <1>3, <1>4 DEF SentFits, Stored
  <1> QED BY <1>2, <1>7, <1>8


\* The write in progress is one that was asked for.
LEMMA WriteAsked ==
    ASSUME TypeInv, AskedFits, Sent \/ pc = "send"
    PROVE  /\ Op.reg \in Registers /\ Op.val \in Word
           /\ <<Op.reg, Op.val>> \in Asked
           /\ Op.kind = "writeWords" => Op.reg \in Blocks
           /\ Op.kind # "writeWords" => Op.kind = "write" /\ Op.reg \notin Blocks
  <1>1. pc # "free" /\ pc \notin PollSteps
    BY DEF Sent, PollSteps
  <1>2. holder \in Callers /\ Op \in Transfers
    BY <1>1, OpType
  <1>3. Op.kind \in Sends
    BY <1>2 DEF Sent, TypeInv, HolderFits, Sends, Transfers
  <1>4. /\ <<Op.reg, Op.val>> \in Asked
        /\ Op.reg \in Blocks <=> Op.kind = "writeWords"
    BY <1>2, <1>3 DEF AskedFits, Op
  <1>5. Op.reg \in Registers /\ Op.val \in Word
    BY <1>2 DEF Transfers
  <1> QED BY <1>3, <1>4, <1>5 DEF Sends

\* When a write is answered, its register is seen to hold what it holds.
LEMMA Answered ==
    ASSUME TypeInv, BusInv, Sent, UNCHANGED inv, pc' = "free"
    PROVE  /\ Regs' = [Regs EXCEPT ![Op.reg] = inv[Op.reg]]
           /\ inv[Op.reg] \in Bus!Stored(Op.reg, Op.val) \cup {Regs[Op.reg]}
  <1>1. Op.reg \in Registers /\ inv \in [Registers -> Word]
    BY WriteAsked DEF BusInv, TypeInv, ModbusTypeOK, BusOK
  <1>2. Regs' = inv /\ Regs = [inv EXCEPT ![Op.reg] = before]
    BY DEF Regs, Sent
  <1>3. Regs' = [Regs EXCEPT ![Op.reg] = inv[Op.reg]] /\ Regs[Op.reg] = before
    BY <1>1, <1>2
  <1>4. inv[Op.reg] \in Stored(Op.reg, Op.val) \cup {before}
    BY DEF BusInv, SentFits
  <1> QED BY <1>3, <1>4 DEF Stored, Bus!Stored

\* A write with an outcome that the bus promises is a step of the bus.
LEMMA IsBusWrite ==
    ASSUME TypeInv, AskedFits, Sent \/ pc = "send",
           \/ /\ Bus!WriteSucceeds(Op.reg, Op.val)
              /\ last' = [ok |-> TRUE, reg |-> Op.reg, val |-> Op.val]
           \/ /\ Op.kind = "writeWords"
              /\ Bus!WriteHoldingFails(Op.reg, Op.val)
              /\ last' = NoWrite
           \/ /\ Op.kind # "writeWords"
              /\ Bus!WriteRegisterFails(Op.reg, Op.val)
              /\ last' = NoWrite
    PROVE  Bus!Next
  <1>1. Bus!Write(Op.reg, Op.val)
    BY WriteAsked DEF Bus!Write, Bus!Done, Bus!NotDone, NoWrite
  <1>2. <<Op.reg, Op.val>> \in Asked
    BY WriteAsked
  <1>3. \E w \in Asked: Bus!Write(w[1], w[2])
    <2> DEFINE w == <<Op.reg, Op.val>>
    <2>1. w[1] = Op.reg /\ w[2] = Op.val
      OBVIOUS
    <2>2. Bus!Write(w[1], w[2])
      BY <1>1, <2>1, Zenon
    <2> HIDE DEF w
    <2> QED BY <1>2, <2>2 DEF w
  <1> QED BY <1>3 DEF Bus!Next

\* What is reported of the connection.
LEMMA Reported ==
    /\ status' = "connected" => Link' = TRUE
    /\ status' = "error" => Link' = FALSE
    /\ status' = status => Link' = Link
  <1>1. status' = "connected" => Link'
    BY DEF Link
  <1>2. status' = "error" => ~Link'
    BY DEF Link
  <1>3. status' = status => (Link' <=> Link)
    BY DEF Link
  <1>4. Link \in BOOLEAN /\ Link' \in BOOLEAN
    BY DEF Link
  <1> QED BY <1>1, <1>2, <1>3, <1>4


\* A word that is sent and answered at once: an action that cannot be read back,
\* or a loss that is not looked into.
LEMMA SendAnswers ==
    ASSUME TypeInv, AskedFits, Send, pc' = "free"
    PROVE  Bus!Next
  <1>1. /\ Op.reg \in Registers /\ Op.val \in Word
        /\ inv \in [Registers -> Word] /\ Regs = inv /\ Regs' = inv'
    BY WriteAsked DEF Send, TypeInv, ModbusTypeOK, BusOK, Regs, Sent
  <1>2. Stored(Op.reg, Op.val) = Bus!Stored(Op.reg, Op.val)
    BY DEF Stored, Bus!Stored
  <1>3. UNCHANGED cache
    BY DEF Send
  <1>4. CASE last' = NoWrite
    <2>1. /\ \E v \in Stored(Op.reg, Op.val) \cup {inv[Op.reg]}:
               inv' = [inv EXCEPT ![Op.reg] = v]
          /\ status' = "error"
      BY <1>4 DEF Send, Failed, Confirmed, NoWrite
    <2>2. Link' = FALSE
      BY <2>1, Reported
    <2>3. Bus!WriteHoldingFails(Op.reg, Op.val)
      BY <1>1, <1>2, <1>3, <2>1, <2>2 DEF Bus!WriteHoldingFails
    <2>4. Bus!WriteRegisterFails(Op.reg, Op.val)
      BY <1>1, <1>2, <1>3, <2>1, <2>2 DEF Bus!WriteRegisterFails
    <2> QED BY <1>4, <2>3, <2>4, IsBusWrite DEF Send
  <1>5. CASE last' # NoWrite
    <2>1. /\ \E v \in Stored(Op.reg, Op.val): inv' = [inv EXCEPT ![Op.reg] = v]
          /\ Op.reg \in WriteOnly /\ status' = "connected"
          /\ last' = [ok |-> TRUE, reg |-> Op.reg, val |-> Op.val]
      BY <1>5 DEF Send, Failed, Confirmed
    <2>2. Link' = TRUE
      BY <2>1, Reported
    <2>3. Op.reg \notin Cached
      BY <2>1
    <2>4. Bus!WriteSucceeds(Op.reg, Op.val)
      BY <1>1, <1>2, <1>3, <2>1, <2>2, <2>3 DEF Bus!WriteSucceeds, Bus!SetCache
    <2> QED BY <2>1, <2>4, IsBusWrite DEF Send
  <1> QED BY <1>4, <1>5

\* A lost answer that is looked into: the word is found, or the loss reported.
LEMMA VerifyAnswers ==
    ASSUME TypeInv, BusInv, Verify, pc' = "free"
    PROVE  Bus!Next
  <1>1. /\ Sent /\ UNCHANGED <<inv, cache>> /\ status' = "error"
        /\ last' = NoWrite /\ Op.kind = "write"
    BY DEF Verify, Failed, Sent, TypeInv, HolderFits
  <1>2. Link' = FALSE
    BY <1>1, Reported
  <1>3. /\ Regs' = [Regs EXCEPT ![Op.reg] = inv[Op.reg]]
        /\ inv[Op.reg] \in Bus!Stored(Op.reg, Op.val) \cup {Regs[Op.reg]}
    BY <1>1, Answered
  <1>4. Bus!WriteRegisterFails(Op.reg, Op.val)
    BY <1>1, <1>2, <1>3 DEF Bus!WriteRegisterFails
  <1> QED BY <1>1, <1>4, IsBusWrite DEF BusInv

\* What is read back is what the caller is told.
LEMMA ReadbackAnswers ==
    ASSUME TypeInv, BusInv, Readback \/ ReadbackFails
    PROVE  Bus!Next
  <1>1. Sent /\ UNCHANGED inv /\ pc' = "free"
    BY DEF Readback, ReadbackFails, Failed, Confirmed, Return, Sent
  <1>2. /\ Regs' = [Regs EXCEPT ![Op.reg] = inv[Op.reg]]
        /\ inv[Op.reg] \in Bus!Stored(Op.reg, Op.val) \cup {Regs[Op.reg]}
    BY <1>1, Answered
  <1>3. /\ Op.val \in Bus!Stored(Op.reg, Op.val)
        /\ Op.kind = "writeWords" => Op.reg \in Blocks
        /\ Op.kind # "writeWords" => Op.kind = "write"
    BY <1>1, WriteAsked DEF Bus!Stored, BusInv
  <1>4. \E seen \in {Op.val, inv[Op.reg]}: SetCache(Op.reg, seen)
    BY DEF Readback, ReadbackFails
  <1>5. CASE last' # NoWrite
    <2>1. /\ inv[Op.reg] = Op.val /\ SetCache(Op.reg, Op.val)
          /\ status' = "connected"
          /\ last' = [ok |-> TRUE, reg |-> Op.reg, val |-> Op.val]
      BY <1>5 DEF Readback, ReadbackFails, Failed, Confirmed
    <2>2. Link' = TRUE
      BY <2>1, Reported
    <2>3. Bus!WriteSucceeds(Op.reg, Op.val)
      BY <1>2, <1>3, <2>1, <2>2 DEF Bus!WriteSucceeds, Bus!SetCache, SetCache
    <2> QED BY <1>1, <2>1, <2>3, IsBusWrite DEF BusInv
  <1>6. CASE last' = NoWrite /\ Op.kind = "writeWords"
    <2>1. Op.reg \notin Cached
      BY <1>3, <1>6
    <2>2. UNCHANGED cache /\ status' = status
      BY <1>6, <2>1 DEF Readback, ReadbackFails, Confirmed, SetCache, NoWrite
    <2>3. Link' = Link
      BY <2>2, Reported
    <2>4. Bus!WriteHoldingFails(Op.reg, Op.val)
      BY <1>2, <2>2, <2>3 DEF Bus!WriteHoldingFails
    <2> QED BY <1>1, <1>6, <2>4, IsBusWrite DEF BusInv
  <1>7. CASE last' = NoWrite /\ Op.kind # "writeWords"
    <2>1. status' = "error"
      BY <1>3, <1>7 DEF Readback, ReadbackFails, Confirmed, NoWrite
    <2>2. Link' = FALSE
      BY <2>1, Reported
    <2>3. Bus!WriteRegisterFails(Op.reg, Op.val)
      BY <1>2, <1>4, <2>2 DEF Bus!WriteRegisterFails, Bus!SetCache, SetCache
    <2> QED BY <1>1, <1>7, <2>3, IsBusWrite DEF BusInv
  <1> QED BY <1>5, <1>6, <1>7

\* A poll that ends is one of the bus: what it read is still there.
LEMMA PollAnswers ==
    ASSUME TypeInv, CacheInv, PollFinish
    PROVE  Bus!Next
  <1> DEFINE read == {r \in Cached: values[r] # NoVal}
  <1>1. Regs = inv /\ Regs' = inv
    BY DEF PollFinish, Regs, Sent, Return
  <1>2. \A r \in read: values[r] = inv[r]
    BY DEF CacheInv, ValuesFit
  <1>3. cache' = [r \in Cached |-> IF r \in read THEN Regs[r] ELSE cache[r]]
    BY <1>1, <1>2 DEF PollFinish
  <1>4. status' = IF read = {} THEN "error"
                  ELSE IF errors THEN "degraded" ELSE "connected"
    BY DEF PollFinish
  <1>5. Link' = (read # {})
    BY <1>4 DEF Link
  <1>6. read \in SUBSET Cached
    OBVIOUS
  <1>7. UNCHANGED <<Regs, last>>
    BY <1>1 DEF PollFinish
  <1> HIDE DEF read
  <1> QED BY <1>3, <1>5, <1>6, <1>7 DEF Bus!Next, Bus!Poll


\* A step that only reports of the connection.
LEMMA OnlyReports ==
    ASSUME UNCHANGED <<Regs, cache, last>>
    PROVE  Bus!Next
  <1>1. Link' \in BOOLEAN
    BY DEF Link
  <1> QED BY <1>1 DEF Bus!Next, Bus!Report

\* A step that a caller cannot tell, or one of the bus.
LEMMA NextBus ==
    TypeInv /\ CacheInv /\ BusInv /\ [AtomicNext]_atomicVars =>
        [Bus!Next]_(Bus!vars) /\ SentFits'
  <1> SUFFICES ASSUME TypeInv, CacheInv, BusInv, [AtomicNext]_atomicVars
               PROVE  [Bus!Next]_(Bus!vars) /\ SentFits'
    OBVIOUS
  <1>1. CASE UNCHANGED atomicVars
    <2>1. UNCHANGED <<inv, pc, before, call, holder, cache, status, last>>
      BY <1>1 DEF atomicVars, vars
    <2>2. UNCHANGED <<Regs, Link>> /\ SentFits'
      BY <2>1 DEF Regs, Link, Sent, Op, SentFits, BusInv, Stored
    <2> QED BY <2>1, <2>2 DEF Bus!vars
  <1> SUFFICES ASSUME Next, Remembers
               PROVE  [Bus!Next]_(Bus!vars) /\ SentFits'
    BY <1>1 DEF AtomicNext, Remembers
  <1>2. ASSUME UNCHANGED <<Regs, cache, last>> PROVE [Bus!Next]_(Bus!vars)
    BY <1>2, OnlyReports
  <1>3. ASSUME UNCHANGED <<inv, pc, cache, last>>, pc # "free" => Op' = Op
        PROVE  [Bus!Next]_(Bus!vars) /\ SentFits'
    BY <1>2, <1>3, RegsStay DEF BusInv
  <1>4. ASSUME UNCHANGED <<inv, cache, last>>, ~Sent, ~Sent'
        PROVE  [Bus!Next]_(Bus!vars) /\ SentFits'
    BY <1>2, <1>4, NothingSent
  <1>5. ASSUME pc' = "free" PROVE ~Sent' /\ SentFits'
    BY <1>5 DEF Sent, SentFits
  <1>6. pc # "free" => last = NoWrite
    BY DEF TypeInv, HolderFits
  <1>7. ASSUME NEW c \in Callers, NEW op \in Wanted, Call(c, op)
        PROVE  [Bus!Next]_(Bus!vars) /\ SentFits'
    BY <1>3, <1>7, CallType DEF Call
  <1>8. CASE SetConfig \/ PollDisabled
    BY <1>3, <1>8 DEF SetConfig, PollDisabled, Op
  <1>9. ASSUME NEW c \in Callers, Lock(c)
        PROVE  [Bus!Next]_(Bus!vars) /\ SentFits'
    <2>1. /\ UNCHANGED <<inv, cache, status>> /\ last' = NoWrite
          /\ ~Sent /\ ~Sent'
      BY <1>9 DEF Lock, Sent, TypeInv, HolderFits
    <2>2. UNCHANGED <<Regs, Link>> /\ SentFits'
      BY <2>1, NothingSent, Reported
    <2> QED BY <2>1, <2>2 DEF Bus!Next, Bus!Forget, Bus!NotDone, NoWrite
  <1>10. CASE EnsureClient
    <2>1. UNCHANGED <<inv, cache, last>> /\ ~Sent
      BY <1>6, <1>10 DEF EnsureClient, Failed, Sent
    <2>2. ~Sent'
      BY <1>10, OpType DEF EnsureClient, Failed, Return, Sent, Op, PollSteps,
         Transfers
    <2> QED BY <1>4, <2>1, <2>2
  <1>11. CASE Validate
    BY <1>4, <1>6, <1>11 DEF Validate, Failed, Return, Sent
  <1>12. CASE Send
    BY <1>2, <1>5, <1>12, SendStays, SendAnswers DEF BusInv
  <1>13. CASE Verify
    <2>1. CASE pc' = "free"
      BY <1>5, <1>13, <2>1, VerifyAnswers
    <2>2. CASE pc' # "free"
      <3>1. /\ UNCHANGED <<inv, cache, call, holder, last>> /\ pc' = "readback"
            /\ pc = "verify"
        BY <1>13, <2>2 DEF Verify, Failed, Return
      <3>2. before' = before /\ Op' = Op /\ (Sent <=> Sent')
        BY <3>1 DEF Remembers, Op, Sent
      <3>3. UNCHANGED Regs /\ SentFits'
        BY <3>1, <3>2 DEF Regs, SentFits, BusInv, Stored
      <3> QED BY <1>2, <3>1, <3>3
    <2> QED BY <2>1, <2>2
  <1>14. CASE Readback \/ ReadbackFails
    <2>1. pc' = "free"
      BY <1>14 DEF Readback, ReadbackFails, Failed, Confirmed, Return
    <2> QED BY <1>5, <1>14, <2>1, ReadbackAnswers
  <1>15. CASE ReadWords
    BY <1>4, <1>6, <1>15 DEF ReadWords, Failed, Return, Sent
  <1>16. CASE PollOpen
    BY <1>4, <1>16 DEF PollOpen, NextRange, Sent
  <1>17. CASE PollRead
    BY <1>4, <1>17 DEF PollRead, NextRange, Sent
  <1>18. CASE PollFinish
    BY <1>5, <1>18, PollAnswers DEF PollFinish, Return
  <1> QED
    BY <1>7, <1>8, <1>9, <1>10, <1>11, <1>12, <1>13, <1>14, <1>15, <1>16,
       <1>17, <1>18, RequestType
    DEF Next, Work

\* Any number of callers over one connection are one register bus: writes
\* appear to take effect in one step, with the outcomes the storm charge manager
\* reckons with, and what callers are told of them is true.
THEOREM ServiceIsARegisterBus == AtomicSpec => WritesAreAtomic
  <1>1. AtomicInit => Init /\ BusInv
    <2> SUFFICES ASSUME AtomicInit PROVE Init /\ BusInv
      OBVIOUS
    <2>1. AskedFits
      BY DEF AtomicInit, Init, AskedFits, Idle, Sends
    <2>2. SentFits
      BY DEF AtomicInit, Init, SentFits, Sent
    <2> QED BY <2>1, <2>2 DEF AtomicInit, BusInv
  <1>2. AtomicInit => Bus!Init
    <2> SUFFICES ASSUME AtomicInit PROVE Bus!Init
      OBVIOUS
    <2>1. Regs \in Initial
      BY DEF AtomicInit, Init, Regs, Sent
    <2>2. Link = FALSE
      BY DEF AtomicInit, Init, Link
    <2> QED BY <2>1, <2>2 DEF AtomicInit, Init, Nothing, NoWrite, Bus!Init,
               Bus!NotDone
  <1>3. [AtomicNext]_atomicVars => [Next]_vars
    BY DEF AtomicNext, atomicVars
  <1>4. AtomicSpec => Spec
    BY <1>1, <1>3, PTL DEF AtomicSpec, Spec
  <1>5. TypeInv /\ BusInv /\ CacheInv /\ [AtomicNext]_atomicVars => BusInv'
    BY <1>3, NextAsked, NextBus DEF BusInv
  <1>6. AtomicSpec => []BusInv
    BY <1>1, <1>4, <1>5, TypeInvariant, CacheInvariant, PTL DEF AtomicSpec
  <1> QED
    BY <1>2, <1>4, <1>6, NextBus, TypeInvariant, CacheInvariant, PTL
    DEF AtomicSpec, WritesAreAtomic, Bus!Spec
=============================================================================
