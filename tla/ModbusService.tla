--------------------------- MODULE ModbusService ---------------------------
(***************************************************************************)
(* The Modbus service (internal/modbus/service.go): polls, register writes *)
(* and block transfers of concurrent callers over one connection, under    *)
(* s.mu.                                                                   *)
(*                                                                         *)
(* A caller reads the configuration first and takes s.mu later, so it may  *)
(* work with a port that is no longer the configured one.  The lock is     *)
(* held for a whole operation; a step is one transfer on the bus.  A read  *)
(* that succeeds at its second attempt (readHoldingWithRetryLocked) is a   *)
(* read that succeeds.                                                     *)
(***************************************************************************)
EXTENDS Integers, Sequences

CONSTANTS
    Callers,      \* goroutines that use the service
    Nobody,       \* the lock is free
    Poller,       \* the one that runs pollScheduler
    Keys,         \* configurations with a port, as serialKey tells them apart
    NoKey,        \* no client, and the configuration whose port is empty
    SerialKeys,   \* those of a local port, reopened for every range
    NoVal,        \* nothing cached
    WordSize,     \* 2^16 in the code
    Gap,          \* batterySOCThresholdGap, 5 in the code
    Groups,       \* GroupFast and GroupSlow
    Plan,         \* the ranges that a group reads, in order of address
    Free,         \* catalogue registers that validateWriteLocked ignores
    Blocks,       \* registers outside the catalogue
    WriteOnly,    \* actions such as reset_machine
    Loads,        \* workloads: the configurations in use, and the writes
                  \* <<register, word>> that EncodeWrite accepts
    Adjusted,     \* <<register, word, word>>: the firmware stores another word
    Initial,      \* register contents at the start
    MaxOpenFailures,   \* maxOpenFailuresPerCycle
    MaxFaults     \* bound on failed transfers and failed opens

Thresholds == {"battery_discharge_cutoff_soc", "battery_low_soc_alarm",
               "battery_discharge_stop", "battery_discharge_start"}
Cached     == Thresholds \cup Free
Registers  == Cached \cup Blocks \cup WriteOnly
Word       == 0 .. WordSize - 1

\* What is only written, or is not in the catalogue, is never cached.
ASSUME RegistersAssumption == (WriteOnly \cup Blocks) \cap Cached = {}
ASSUME CallersAssumption == Poller \in Callers /\ Nobody \notin Callers
ASSUME KeysAssumption    == NoKey \notin Keys /\ SerialKeys \subseteq Keys
ASSUME WordsAssumption   == /\ WordSize \in Nat \ {0} /\ Gap \in Word
                            /\ NoVal \notin Word
ASSUME PlanAssumption    == \A g \in Groups:
    Plan[g] \in Seq(SUBSET Cached) /\ Plan[g] # <<>>
ASSUME LoadsAssumption ==
    /\ Loads \subseteq [keys: SUBSET Keys, writes: SUBSET (Registers \X Word)]
    /\ Adjusted \subseteq Registers \X Word \X Word
ASSUME InitialAssumption == Initial \subseteq [Registers -> Word]
ASSUME LimitsAssumption  == MaxOpenFailures \in Nat \ {0} /\ MaxFaults \in Nat

---------------------------------------------------------------------------

VARIABLES
    load,       \* what users ask for in this behaviour
    cfg,        \* provider.GetConfig(), as a key
    call,       \* what each caller is doing, with the configuration it read
    holder,     \* who holds s.mu
    pc,         \* where the holder is
    conn,       \* s.key: with what s.client was opened
    cache,      \* the store's values
    status,     \* the store's status of "modbus"
    inv,        \* the inverter's registers
    range, openFailures, errors, values,   \* locals of pollGroup
    faults,
    last,       \* history: the last write that returned
    doubtful    \* history: registers whose last write failed unread

poll  == <<range, openFailures, errors, values>>
vars  == <<load, cfg, call, holder, pc, conn, cache, status, inv, poll, faults,
           last, doubtful>>

Idle   == [kind |-> "idle"]
Wanted == [kind: {"write", "writeWords", "readWords"},
           reg: Registers, val: Word, key: Keys]
          \cup [kind: {"poll"}, group: Groups, key: Keys]
Nothing == [r \in Cached |-> NoVal]
NoWrite == [ok |-> FALSE]
Results == {NoWrite} \cup [ok: {TRUE}, reg: Registers, val: Word]

CallsOK ==
    /\ load \in Loads /\ cfg \in Keys \cup {NoKey}
    /\ call \in [Callers -> Wanted \cup {Idle}]
    /\ holder \in Callers \cup {Nobody}
    /\ pc \in {"free", "ensure", "validate", "send", "verify", "readback",
               "open", "read", "finish"}

StoreOK ==
    /\ cache \in [Cached -> Word \cup {NoVal}]
    /\ status \in {"starting", "connected", "degraded", "error", "disabled"}

BusOK ==
    /\ conn \in Keys \cup {NoKey} /\ inv \in [Registers -> Word]
    /\ faults \in 0 .. MaxFaults

PollOK ==
    /\ range \in Nat /\ openFailures \in 0 .. MaxOpenFailures
    /\ pc \in {"open", "read"} => range \in DOMAIN Plan[call[holder].group]
    /\ errors \in BOOLEAN
    /\ values \in [Cached -> Word \cup {NoVal}]

HistoryOK == last \in Results /\ doubtful \subseteq Registers

ModbusTypeOK == CallsOK /\ StoreOK /\ BusOK /\ PollOK /\ HistoryOK

Init ==
    /\ load \in Loads
    /\ cfg \in load.keys /\ conn = NoKey
    /\ call = [c \in Callers |-> Idle] /\ holder = Nobody /\ pc = "free"
    /\ cache = Nothing /\ status = "starting"
    /\ inv \in Initial
    /\ range = 1 /\ openFailures = 0 /\ errors = FALSE /\ values = Nothing
    /\ faults = 0 /\ last = NoWrite /\ doubtful = {}

---------------------------------------------------------------------------
(* Helpers.                                                                *)

Fault == faults < MaxFaults /\ faults' = faults + 1

Op == call[holder]

\* uint16 addition.
Plus(x, y) == (x + y) % WordSize

\* Each rule: the first register, plus the gap, is at most the second.
Rules == {<<"battery_discharge_cutoff_soc", "battery_low_soc_alarm", Gap>>,
          <<"battery_low_soc_alarm", "battery_discharge_start", Gap>>,
          <<"battery_discharge_stop", "battery_discharge_start", 0>>}

Neighbours(r) == {rule[1]: rule \in {x \in Rules: x[2] = r}}
                 \cup {rule[2]: rule \in {x \in Rules: x[1] = r}}

\* Mutant: the register that must be above is forgotten.
FitsBelow(r, v, held) ==
    \A rule \in Rules: rule[2] = r => v >= Plus(held[rule[1]], rule[3])

\* validateWriteLocked, with `held' the neighbours' words.
Fits(r, v, held) ==
    \A rule \in Rules:
        /\ rule[1] = r => Plus(v, rule[3]) <= held[rule[2]]
        /\ rule[2] = r => v >= Plus(held[rule[1]], rule[3])

\* Mutant: a client once opened serves every configuration.
EnsureAnyClient(ok) ==
    \/ ok /\ conn' = (IF conn = NoKey THEN Op.key ELSE conn)
          /\ UNCHANGED faults
    \/ ~ok /\ conn = NoKey /\ conn' = NoKey /\ Fault

\* ensureClientLocked: the client of this configuration, or a new one.
Ensure(ok) ==
    \/ ok /\ conn' = Op.key /\ UNCHANGED faults
    \/ ~ok /\ conn # Op.key /\ conn' = NoKey /\ Fault

\* readHoldingWithRetryLocked: the second attempt reconnects.
Took(ok) == IF ok THEN UNCHANGED faults ELSE Fault
Left(ok) == IF ok THEN {conn} ELSE {NoKey, Op.key}

Read(ok) == Took(ok) /\ conn' \in Left(ok)

\* defer s.mu.Unlock()
Return ==
    /\ call' = [call EXCEPT ![holder] = Idle]
    /\ holder' = Nobody /\ pc' = "free"

Failed == last' = NoWrite /\ Return

Confirmed == last' = [ok |-> TRUE, reg |-> Op.reg, val |-> Op.val] /\ Return

---------------------------------------------------------------------------
(* Calls: the configuration is read, then the lock is waited for.          *)

\* The configuration is changed by its own path, App.UpdateConfig.
SetConfig ==
    /\ cfg' \in load.keys \cup {NoKey}
    /\ cfg' # cfg
    /\ UNCHANGED <<load, call, holder, pc, conn, cache, status, inv, poll,
                   faults, last, doubtful>>

Call(c, op) ==
    /\ call[c] = Idle /\ cfg # NoKey
    /\ call' = [call EXCEPT ![c] = op]
    /\ UNCHANGED <<load, cfg, holder, pc, conn, cache, status, inv, poll,
                   faults, last, doubtful>>

WriteRegister(c) ==
    \E w \in load.writes:
        /\ w[1] \notin Blocks
        /\ Call(c, [kind |-> "write", reg |-> w[1], val |-> w[2], key |-> cfg])

WriteHoldingWords(c) ==
    \E w \in load.writes:
        /\ w[1] \in Blocks
        /\ Call(c, [kind |-> "writeWords", reg |-> w[1], val |-> w[2],
                    key |-> cfg])

ReadHoldingWords(c) ==
    \E r \in Blocks:
        Call(c, [kind |-> "readWords", reg |-> r, val |-> 0, key |-> cfg])

\* pollScheduler runs one group after the other, each when it is due.
PollGroup ==
    \E g \in Groups: Call(Poller, [kind |-> "poll", group |-> g, key |-> cfg])

\* Without a port a poll only reports so, and takes no lock.
PollDisabled ==
    /\ call[Poller] = Idle /\ cfg = NoKey
    /\ status' = "disabled"
    /\ UNCHANGED <<load, cfg, call, holder, pc, conn, cache, inv, poll, faults,
                   last, doubtful>>

\* s.mu.Lock(); a poll of a serial port closes it first.
Lock(c) ==
    /\ holder = Nobody /\ call[c] # Idle
    /\ holder' = c
    /\ LET polls == call[c].kind = "poll"
       IN /\ pc' = IF polls THEN "open" ELSE "ensure"
          /\ conn' = IF polls /\ call[c].key \in SerialKeys THEN NoKey
                                                         ELSE conn
    /\ last' = NoWrite
    /\ UNCHANGED <<load, cfg, call, cache, status, inv, poll, faults,
                   doubtful>>

\* The client of a register or block operation.
EnsureClient ==
    /\ pc = "ensure"
    /\ \/ /\ Ensure(TRUE)
          /\ pc' = CASE Op.kind = "write"      -> "validate"
                     [] Op.kind = "writeWords" -> "send"
                     [] OTHER                  -> "readback"
          /\ UNCHANGED <<call, holder, status, last>>
       \/ /\ Ensure(FALSE)
          /\ status' = "error" /\ Failed
    /\ UNCHANGED <<load, cfg, cache, inv, poll, doubtful>>

---------------------------------------------------------------------------
(* WriteRegister, WriteHoldingWords and ReadHoldingWords.                  *)

\* currentRegisterRawLocked: the cached word, else the inverter's.
Current(n) == IF cache[n] # NoVal THEN cache[n] ELSE inv[n]

Uncached(r) == {n \in Neighbours(r): cache[n] = NoVal}

\* Mutant: a refused write returns with the lock held.
ValidateLocked ==
    /\ pc = "validate"
    /\ LET held == [n \in Neighbours(Op.reg) |-> Current(n)]
       IN \/ /\ Fits(Op.reg, Op.val, held)
             /\ pc' = "send"
          \/ /\ ~Fits(Op.reg, Op.val, held)
             /\ pc' = "free"
    /\ UNCHANGED <<load, cfg, call, holder, conn, cache, status, inv, poll,
                   faults, last, doubtful>>

\* A refused write, or a neighbour that cannot be read, leaves the status.
Validate ==
    /\ pc = "validate"
    /\ LET held == [n \in Neighbours(Op.reg) |-> Current(n)]
       IN \/ /\ Fits(Op.reg, Op.val, held)
             /\ pc' = "send"
             /\ UNCHANGED <<call, holder, conn, faults, last>>
          \/ /\ ~Fits(Op.reg, Op.val, held)
             /\ Failed
             /\ UNCHANGED <<conn, faults>>
          \/ /\ Uncached(Op.reg) # {}
             /\ Read(FALSE)
             /\ Failed
    /\ UNCHANGED <<load, cfg, cache, status, inv, poll, doubtful>>

\* What the inverter may hold after it took a word.
Stored(r, v) == {v} \cup {a[3]: a \in {x \in Adjusted: x[1] = r /\ x[2] = v}}

\* The unlock register first, whose errors are ignored, then the word.  The
\* answer may be lost after the word was stored.
Send ==
    /\ pc = "send"
    /\ \/ /\ \E v \in Stored(Op.reg, Op.val): inv' = [inv EXCEPT ![Op.reg] = v]
          /\ IF Op.reg \in WriteOnly
             THEN status' = "connected" /\ Confirmed
             ELSE /\ pc' = "readback"
                  /\ UNCHANGED <<call, holder, status, last>>
          /\ UNCHANGED <<faults, doubtful>>
       \/ /\ \E v \in Stored(Op.reg, Op.val) \cup {inv[Op.reg]}:
                inv' = [inv EXCEPT ![Op.reg] = v]
          /\ Fault
          /\ IF Op.kind = "writeWords" \/ Op.reg \in WriteOnly
             THEN /\ status' = "error" /\ Failed
                  /\ doubtful' = doubtful \cup {Op.reg}
             ELSE /\ pc' = "verify"
                  /\ UNCHANGED <<call, holder, status, last, doubtful>>
    /\ UNCHANGED <<load, cfg, conn, cache, poll>>

\* verifyWriteLocked: reconnect and look.  Another word than the one that was
\* sent is reported, and not put into the cache.
Verify ==
    /\ pc = "verify"
    /\ \/ /\ inv[Op.reg] = Op.val
          /\ conn' = Op.key
          /\ pc' = "readback"
          /\ UNCHANGED <<call, holder, status, faults, last, doubtful>>
       \/ /\ inv[Op.reg] # Op.val
          /\ conn' = Op.key
          /\ status' = "error" /\ Failed
          /\ doubtful' = doubtful \cup {Op.reg}
          /\ UNCHANGED faults
       \/ /\ Read(FALSE)
          /\ status' = "error" /\ Failed
          /\ doubtful' = doubtful \cup {Op.reg}
    /\ UNCHANGED <<load, cfg, cache, inv, poll>>

SetCache(r, v) ==
    cache' = IF r \in Cached THEN [cache EXCEPT ![r] = v] ELSE cache

\* Mutant: what was written is taken for what is there.
ReadbackUnchecked ==
    /\ pc = "readback" /\ Op.kind # "readWords"
    /\ SetCache(Op.reg, Op.val)
    /\ doubtful' = doubtful \ {Op.reg}
    /\ status' = "connected" /\ Confirmed
    /\ UNCHANGED <<load, cfg, conn, inv, poll, faults>>

\* Mutant: after a mismatch the optimistic value stays in the cache.
ReadbackKeepsOptimistic ==
    /\ pc = "readback" /\ Op.kind # "readWords"
    /\ SetCache(Op.reg, Op.val)
    /\ doubtful' = doubtful \ {Op.reg}
    /\ IF inv[Op.reg] = Op.val THEN status' = "connected" /\ Confirmed
                               ELSE status' = "error" /\ Failed
    /\ UNCHANGED <<load, cfg, conn, inv, poll, faults>>

\* The optimistic value goes to the cache, then what is read replaces it.  A
\* block has no cache, and a mismatch of it leaves the status.
Readback ==
    /\ pc = "readback" /\ Op.kind # "readWords"
    /\ SetCache(Op.reg, inv[Op.reg])
    /\ doubtful' = doubtful \ {Op.reg}
    /\ IF inv[Op.reg] = Op.val
       THEN status' = "connected" /\ Confirmed
       ELSE /\ status' = IF Op.kind = "write" THEN "error" ELSE status
            /\ Failed
    /\ UNCHANGED <<load, cfg, conn, inv, poll, faults>>

ReadbackFails ==
    /\ pc = "readback" /\ Op.kind # "readWords"
    /\ Read(FALSE)
    /\ SetCache(Op.reg, Op.val)
    /\ doubtful' = doubtful \cup {Op.reg}
    /\ status' = IF Op.kind = "write" THEN "error" ELSE status
    /\ Failed
    /\ UNCHANGED <<load, cfg, inv, poll>>

ReadWords ==
    /\ pc = "readback" /\ Op.kind = "readWords"
    /\ \E ok \in BOOLEAN:
         /\ Read(ok)
         /\ status' = IF ok THEN "connected" ELSE "error"
    /\ Failed
    /\ UNCHANGED <<load, cfg, cache, inv, poll, doubtful>>

---------------------------------------------------------------------------
(* pollGroup.                                                              *)

Ranges == Plan[Op.group]

\* Mutant: one range too many.
NextRangeTooMany ==
    /\ range' = range + 1
    /\ pc' = IF range > Len(Ranges) THEN "finish" ELSE "open"

\* On to the next range, or to the end of the cycle.
NextRange ==
    /\ range' = range + 1
    /\ pc' = IF range = Len(Ranges) THEN "finish" ELSE "open"

\* A client for the next range.  Two failures in a row end the cycle.
PollOpen ==
    /\ pc = "open"
    /\ \/ /\ Ensure(TRUE)
          /\ openFailures' = 0
          /\ pc' = "read"
          /\ UNCHANGED <<range, errors>>
       \/ /\ Ensure(FALSE)
          /\ openFailures' = openFailures + 1
          /\ errors' = TRUE
          /\ IF openFailures + 1 >= MaxOpenFailures
             THEN pc' = "finish" /\ UNCHANGED range
             ELSE NextRange
    /\ UNCHANGED <<load, cfg, call, holder, values, last, cache, status, inv,
                   doubtful>>

\* What a range adds to the values of this cycle.
Collect(ok) ==
    /\ Took(ok)
    /\ errors' = (errors \/ ~ok)
    /\ values' = [r \in Cached |->
                    IF ok /\ r \in Ranges[range] THEN inv[r] ELSE values[r]]

\* Mutant: the port stays open for the next range.
PollReadKeepsOpen ==
    /\ pc = "read"
    /\ \E ok \in BOOLEAN: Collect(ok) /\ conn' \in Left(ok)
    /\ NextRange
    /\ UNCHANGED <<load, cfg, call, holder, openFailures, cache, status, inv,
                   last, doubtful>>

\* One range.  A local port is closed after it.
PollRead ==
    /\ pc = "read"
    /\ \E ok \in BOOLEAN:
         /\ Collect(ok)
         /\ conn' \in IF Op.key \in SerialKeys THEN {NoKey} ELSE Left(ok)
    /\ NextRange
    /\ UNCHANGED <<load, cfg, call, holder, openFailures, cache, status, inv,
                   last, doubtful>>

\* The store gets everything that was read at once.
PollFinish ==
    /\ pc = "finish"
    /\ LET read == {r \in Cached: values[r] # NoVal}
       IN /\ cache' = [r \in Cached |->
                        IF r \in read THEN values[r] ELSE cache[r]]
          /\ doubtful' = doubtful \ read
          /\ status' = IF read = {} THEN "error"
                       ELSE IF errors THEN "degraded" ELSE "connected"
    /\ conn' = IF Op.key \in SerialKeys THEN NoKey ELSE conn
    /\ range' = 1 /\ openFailures' = 0 /\ errors' = FALSE /\ values' = Nothing
    /\ Return
    /\ UNCHANGED <<load, cfg, inv, faults, last>>

---------------------------------------------------------------------------

Request(c) == WriteRegister(c) \/ WriteHoldingWords(c) \/ ReadHoldingWords(c)

Work == EnsureClient \/ Validate \/ Send \/ Verify \/ Readback \/ ReadbackFails
        \/ ReadWords \/ PollOpen \/ PollRead \/ PollFinish

Next ==
    \/ SetConfig \/ PollGroup \/ PollDisabled
    \/ \E c \in Callers \ {Poller}: Request(c)
    \/ \E c \in Callers: Lock(c)
    \/ Work

Spec == Init /\ [][Next]_vars

\* A caller that holds the lock goes on, since every transfer has a timeout;
\* a Go mutex starves nobody.
Fairness == WF_vars(Work) /\ \A c \in Callers: SF_vars(Lock(c))

---------------------------------------------------------------------------
(* Properties.                                                             *)

\* A write that was reported as done is in the inverter and in the cache,
\* although the firmware may store something else, the answer may have been
\* lost and the connection reopened (service.go:90-146, 216-239).
ConfirmedMeansWritten ==
    last.ok => \/ last.reg \in WriteOnly
               \/ /\ inv[last.reg] = last.val
                  /\ last.reg \in Cached => cache[last.reg] = last.val

\* Between operations the cache is what the inverter holds, but for registers
\* whose last write could not be read back: refused and mismatched writes,
\* failed polls and reopened connections do not spoil it.
CacheHonest ==
    holder = Nobody =>
        \A r \in Cached \ doubtful: cache[r] \in {NoVal, inv[r]}

\* The gaps around the register that is about to be written, were the word
\* stored: in percentage points rather than words.
GapsHold ==
    LET after == [inv EXCEPT ![Op.reg] = Op.val]
    IN \A rule \in Rules: Op.reg \in {rule[1], rule[2]} =>
            after[rule[1]] + rule[3] <= after[rule[2]]

\* No threshold is sent that comes too close to another one in the inverter,
\* unless the last write of the other one failed without being read back: what
\* validateWriteLocked compares with is otherwise what the inverter holds
\* (service.go:244-311).
GapsKept ==
    pc = "send" /\ Neighbours(Op.reg) \cap doubtful = {} => GapsHold

\* Every transfer goes over a connection opened with the configuration its
\* caller read, although configurations change while callers wait
\* (service.go:609-625).
RightPort ==
    pc \in {"validate", "send", "read"} => conn = Op.key

\* A local serial port is never open across two ranges of a poll
\* (service.go:450-458, 487-489).
FreshPortPerRange ==
    pc \in {"open", "finish"} /\ Op.key \in SerialKeys => conn = NoKey

\* Every call returns, and so every caller gets the lock.
CallsReturn == \A c \in Callers: call[c] # Idle ~> call[c] = Idle

---------------------------------------------------------------------------
(* What the documentation says, and the code does not do.                  *)

\* CHANGELOG.md:27: "SOC threshold writes enforce the firmware's validated
\* five-percentage-point safety gaps before sending Modbus commands."  Broken by
\* a neighbour whose new word is in the inverter and not in the cache.
GapsEnforced == pc = "send" => GapsHold
=============================================================================
