------------------------- MODULE PollWatchdogProofs -------------------------
(***************************************************************************)
(* Proofs about PollWatchdog for all intervals, all lengths of polls and   *)
(* any number of changes, faults and restarts.                             *)
(***************************************************************************)
EXTENDS PollWatchdog, TLAPS

USE ConfigsAssumption, LongestAssumption, TimesAssumption, BoundsAssumption,
    ShortFastPolls

---------------------------------------------------------------------------
(* Durations.                                                              *)

Longest == Larger(MaxFast, MaxSlow)

\* The longest of two durations is one, and no less than either.
LEMMA LongestType ==
    /\ Longest \in Nat /\ MaxFast <= Longest /\ MaxSlow <= Longest
    /\ Longest \in {MaxFast, MaxSlow}
  BY DEF Longest, Larger

\* An age at which everything is too old, with the longest poll on top.
LEMMA OldestType ==
    Oldest \in Nat /\ Longest <= Oldest
  <1> DEFINE Ages == {Floor} \cup {2 * c.slow: c \in Configs}
             top  == CHOOSE t \in Ages: \A u \in Ages: u <= t
  <1>1. Ages \subseteq Nat
    OBVIOUS
  <1>2. \E t \in Ages: \A u \in Ages: u <= t
    <2>1. PICK c \in Configs: \A d \in Configs: d.slow <= c.slow
      OBVIOUS
    <2>2. \A d \in Configs: 2 * d.slow <= 2 * c.slow
      BY <2>1
    <2>3. CASE Floor <= 2 * c.slow
      <3>1. 2 * c.slow \in Ages /\ \A u \in Ages: u <= 2 * c.slow
        BY <2>2, <2>3
      <3> QED BY <3>1
    <2>4. CASE ~(Floor <= 2 * c.slow)
      <3>1. Floor \in Ages /\ \A u \in Ages: u <= Floor
        BY <2>2, <2>4
      <3> QED BY <3>1
    <2> QED BY <2>3, <2>4
  <1>3. top \in Ages /\ \A u \in Ages: u <= top
    BY <1>2
  <1>4. Oldest = 1 + MaxSlow + top
    BY DEF Oldest
  <1>5. MaxFast <= top
    <2>1. PICK c \in Configs: c.slow \in Nat
      OBVIOUS
    <2>2. MaxFast < c.slow /\ 2 * c.slow <= top
      BY <1>3
    <2> QED BY <1>1, <1>3, <2>1, <2>2
  <1> HIDE DEF top, Ages
  <1> QED BY <1>1, <1>3, <1>4, <1>5, LongestType

\* A success that ages stays within bounds, and no age is the absence of one.
LEMMA OlderType ==
    \A age \in 0 .. Oldest: Older(age) \in 0 .. Oldest /\ Older(age) # None
  BY OldestType DEF Older, Smaller

---------------------------------------------------------------------------
(* Type correctness.  How long a poll has taken bounds how late the other  *)
(* group is.                                                               *)

SchedOK == sched \in {"top", "fast", "mid", "slow", "select", "ended"}

\* Where the loop is, what is due and for how long it can have been.
TimeFits ==
    /\ nextFast \in Int /\ nextSlow \in Int /\ elapsed \in Nat
    /\ sched = "fast" => elapsed <= MaxFast /\ nextSlow >= -elapsed
    /\ sched = "slow" => elapsed <= MaxSlow /\ nextFast > -elapsed
    /\ sched \notin {"fast", "slow"} => elapsed = 0
    /\ sched = "top" => nextFast >= -MaxSlow /\ nextSlow >= 0
    /\ sched = "mid" => nextFast > 0 /\ nextSlow >= -MaxFast
    /\ sched \in {"select", "ended"} => nextFast >= 0 /\ nextSlow >= 0

PollerInv == SchedOK /\ TimeFits /\ cfg \in Configs

\* The first poll is a fast one, the first slow one comes half an interval later.
LEMMA StartFits ==
    ASSUME NEW c \in Configs
    PROVE  SlowOffset(c) \in Nat /\ SlowOffset(c) >= 1
  <1>1. c.fast \in Nat
    OBVIOUS
  <1> QED BY <1>1 DEF SlowOffset, Larger

\* The end of a poll.
LEMMA PolledFits ==
    ASSUME PollerInv, Polling, Polled, UNCHANGED cfg PROVE PollerInv'
  <1>1. cfg.fast \in Nat \ {0} /\ cfg.slow \in Nat \ {0}
    BY DEF PollerInv
  <1>2. CASE sched = "fast"
    BY <1>1, <1>2 DEF PollerInv, SchedOK, TimeFits, Polled
  <1>3. CASE sched = "slow"
    BY <1>1, <1>3 DEF PollerInv, SchedOK, TimeFits, Polled
  <1> QED BY <1>2, <1>3 DEF Polling

\* No step lets a group wait longer: one case per action.
LEMMA NextPoller == PollerInv /\ [Next]_vars => PollerInv'
  <1> SUFFICES ASSUME PollerInv, [Next]_vars PROVE PollerInv'
    OBVIOUS
  <1>1. CASE PollFast
    BY <1>1 DEF PollFast, PollerInv, SchedOK, TimeFits
  <1>2. CASE PollSlow
    BY <1>2 DEF PollSlow, PollerInv, SchedOK, TimeFits
  <1>3. CASE PollDisabled \/ PollSucceeds \/ PollFails
    BY <1>3, PolledFits DEF PollDisabled, PollSucceeds, PollFails
  <1>4. CASE Select
    BY <1>4 DEF Select, PollerInv, SchedOK, TimeFits
  <1>5. ASSUME UNCHANGED <<sched, nextFast, nextSlow, elapsed>>, cfg' \in Configs
        PROVE  PollerInv'
    BY <1>5 DEF PollerInv, SchedOK, TimeFits
  <1>6. CASE Operation \/ Watchdog \/ WatchdogEnds \/ Return \/ Terminate
             \/ \E o \in Others: ServiceEnds(o)
    BY <1>5, <1>6 DEF Operation, Watchdog, WatchdogEnds, Return, Terminate,
       ServiceEnds, poller, PollerInv
  <1>7. CASE UpdateConfig \/ LinkChanges \/ UNCHANGED vars
    BY <1>5, <1>7 DEF UpdateConfig, LinkChanges, vars, poller, PollerInv
  <1>8. CASE Restart
    <2>1. SlowOffset(cfg) \in Nat
      BY StartFits DEF PollerInv
    <2> QED BY <1>8, <2>1 DEF Restart, PollerInv, SchedOK, TimeFits
  <1>9. CASE Tick
    BY <1>9 DEF Tick, Waiting, Polling, PollerInv, SchedOK, TimeFits
  <1> QED BY <1>1, <1>2, <1>3, <1>4, <1>6, <1>7, <1>8, <1>9 DEF Next, Poller

\* How late the groups are.
LEMMA PollerInvariant == Spec => []PollerInv
  <1>1. Init => PollerInv
    BY StartFits DEF Init, PollerInv, SchedOK, TimeFits
  <1> QED BY <1>1, NextPoller, PTL DEF Spec

\* No group starves the other: one that is due waits for one poll of the other.
THEOREM GroupsArePunctual == Spec => []Punctual
  <1>1. PollerInv => Punctual
    BY DEF PollerInv, SchedOK, TimeFits, Punctual
  <1> QED BY <1>1, PollerInvariant, PTL


---------------------------------------------------------------------------
(* What the store says of the link, and how old it is.                     *)

ReportOK ==
    /\ status \in {"starting", "disabled", "connected", "degraded", "error"}
    /\ success \in 0 .. Oldest \cup {None} /\ heard \in 0 .. Oldest \cup {None}
    /\ success = None <=> heard = None
    /\ tried \in BOOLEAN

\* A success is no older than its answer but for the poll it came from, and an
\* error is an operation that failed since.
ReportFits ==
    /\ success # None => success <= heard + Longest
    /\ status = "error" => tried

ReportInv == ReportOK /\ ReportFits

\* An answer to an operation that took at most the longest poll.
LEMMA SucceedsFits ==
    ASSUME NEW s \in {"connected", "degraded"}, NEW age \in 0 .. Longest,
           Succeeds(s, age)
    PROVE  ReportInv'
  <1>1. age \in 0 .. Oldest /\ 0 \in 0 .. Oldest
    BY OldestType, LongestType
  <1>2. success' # None /\ heard' # None
    BY <1>1 DEF Succeeds
  <1>3. success' \in 0 .. Oldest \cup {None} /\ heard' \in 0 .. Oldest \cup {None}
    BY <1>1 DEF Succeeds
  <1>4. ReportFits'
    BY LongestType DEF Succeeds, ReportFits
  <1>5. tried' \in BOOLEAN /\ status' \in {"connected", "degraded"}
    BY Zenon DEF Succeeds
  <1> QED BY <1>2, <1>3, <1>4, <1>5 DEF ReportInv, ReportOK

\* A failure leaves the last success as it is.
LEMMA FailsFits == ASSUME ReportInv, Fails PROVE ReportInv'
  <1>1. tried' \in BOOLEAN
    BY Zenon DEF Fails
  <1> QED BY <1>1 DEF Fails, ReportInv, ReportOK, ReportFits

\* A success and its answer grow old together.
LEMMA TickFits == ASSUME ReportInv, Tick PROVE ReportInv'
  <1>1. /\ success' = Older(success) /\ heard' = Older(heard)
        /\ UNCHANGED <<status, tried>>
    BY DEF Tick
  <1>2. CASE success = None
    BY <1>1, <1>2 DEF Older, ReportInv, ReportOK, ReportFits
  <1>3. CASE success # None
    <2>1. success \in 0 .. Oldest /\ heard \in 0 .. Oldest
      BY <1>3 DEF ReportInv, ReportOK
    <2>2. success' # None /\ heard' # None
      BY <1>1, <2>1, OlderType
    <2>3. success' <= heard' + Longest
      BY <1>1, <1>3, <2>1, OldestType, LongestType
      DEF Older, Smaller, ReportInv, ReportFits
    <2> QED BY <1>1, <2>1, <2>2, <2>3, OlderType
            DEF ReportInv, ReportOK, ReportFits
  <1> QED BY <1>2, <1>3

\* No step makes the report disagree with what happened: one case per action.
LEMMA NextReport == PollerInv /\ ReportInv /\ [Next]_vars => ReportInv'
  <1> SUFFICES ASSUME PollerInv, ReportInv, [Next]_vars PROVE ReportInv'
    OBVIOUS
  <1>1. CASE UNCHANGED report
    BY <1>1 DEF report, ReportInv, ReportOK, ReportFits
  <1>2. CASE PollFast \/ PollSlow \/ Select \/ Watchdog \/ WatchdogEnds
             \/ Return \/ Terminate \/ (\E o \in Others: ServiceEnds(o))
             \/ UpdateConfig \/ LinkChanges \/ UNCHANGED vars
    BY <1>1, <1>2 DEF PollFast, PollSlow, Select, Watchdog, WatchdogEnds,
       Return, Terminate, ServiceEnds, UpdateConfig, LinkChanges, vars
  <1>3. CASE PollDisabled
    BY <1>3 DEF PollDisabled, ReportInv, ReportOK, ReportFits
  <1>4. CASE PollSucceeds
    <2>1. elapsed \in 0 .. Longest
      BY <1>4, LongestType DEF PollSucceeds, Polling, PollerInv, TimeFits
    <2> QED BY <1>4, <2>1, SucceedsFits DEF PollSucceeds
  <1>5. CASE PollFails
    BY <1>5, FailsFits DEF PollFails
  <1>6. CASE Operation
    <2>1. 0 \in 0 .. Longest
      BY LongestType
    <2> QED BY <1>6, <2>1, SucceedsFits, FailsFits DEF Operation
  <1>7. CASE Restart
    <2>1. tried' \in BOOLEAN
      BY <1>7, Zenon DEF Restart
    <2> QED BY <1>7, <2>1 DEF Restart, ReportInv, ReportOK, ReportFits
  <1>8. CASE Tick
    BY <1>8, TickFits
  <1> QED BY <1>2, <1>3, <1>4, <1>5, <1>6, <1>7, <1>8 DEF Next, Poller

\* What the watchdog goes by.
LEMMA ReportInvariant == Spec => []ReportInv
  <1>1. Init => ReportInv
    <2> SUFFICES ASSUME Init PROVE ReportInv
      OBVIOUS
    <2>1. tried \in BOOLEAN
      BY Zenon DEF Init
    <2> QED BY <2>1 DEF Init, ReportInv, ReportOK, ReportFits
  <1> QED BY <1>1, NextReport, PollerInvariant, PTL DEF Spec

\* The watchdog restarts the program only after a failure, with no answer for
\* the shortest threshold but for the length of a poll, and never before a
\* first answer.
THEOREM RestartsAreJustified == Spec => RestartJustified
  <1>1. PollerInv /\ ReportInv /\ [Next]_vars =>
          (up = "running" /\ up' = "down" /\ wd # Ended =>
             heard # None /\ tried /\ heard + Larger(MaxFast, MaxSlow) >= Floor)
    <2> SUFFICES ASSUME PollerInv, ReportInv, [Next]_vars, up = "running",
                        up' = "down", wd # Ended
                 PROVE  /\ heard # None /\ tried
                        /\ heard + Larger(MaxFast, MaxSlow) >= Floor
      OBVIOUS
    <2>1. Watchdog /\ Trigger
      BY DEF Next, Poller, PollFast, PollSlow, PollDisabled, PollSucceeds,
         PollFails, Select, Operation, Watchdog, WatchdogEnds, Return, Restart,
         Terminate, ServiceEnds, UpdateConfig, LinkChanges, Tick, vars, process
    <2>2. status = "error" /\ success # None /\ success >= Threshold
      BY <2>1 DEF Trigger, ReportInv, ReportOK
    <2>3. heard # None /\ tried /\ success <= heard + Longest
      BY <2>2 DEF ReportInv, ReportOK, ReportFits
    <2>4. success \in Nat /\ heard \in Nat
      BY <2>2, <2>3, OldestType DEF ReportInv, ReportOK
    <2>5. Threshold >= Floor /\ Threshold \in Nat
      <3>1. cfg.slow \in Nat
        BY DEF PollerInv
      <3> QED BY <3>1 DEF Threshold, Larger
    <2>6. heard + Longest >= Floor
      BY <2>2, <2>3, <2>4, <2>5, LongestType
    <2> QED BY <2>3, <2>6 DEF Longest
  <1> QED BY <1>1, PollerInvariant, ReportInvariant, PTL
          DEF Spec, RestartJustified

---------------------------------------------------------------------------
(* Everything else about the types.                                        *)

\* The timers and counters of the process.
RestOK ==
    /\ link \in {"up", "down"} /\ up \in {"running", "down"}
    /\ ran \in BOOLEAN /\ answered \in BOOLEAN /\ done \in BOOLEAN
    /\ wd \in 0 .. Period \cup {Ended} /\ ended \subseteq Others
    /\ changes \in 0 .. MaxChanges /\ faults \in 0 .. MaxFaults

\* The watchdog's ticker is set to at most its period.
LEMMA IntervalType ==
    ASSUME NEW c \in Configs
    PROVE  Smaller(c.fast, Period) \in 0 .. Period
  BY DEF Smaller

\* No step leaves the types: one step per variable.
LEMMA NextRest == PollerInv /\ RestOK /\ [Next]_vars => RestOK'
  <1> SUFFICES ASSUME PollerInv, RestOK, [Next]_vars PROVE RestOK'
    OBVIOUS
  <1> USE DEF Next, Poller, PollFast, PollSlow, PollDisabled, PollSucceeds,
         PollFails, Select, Operation, Watchdog, WatchdogEnds, Return, Restart,
         Terminate, ServiceEnds, UpdateConfig, LinkChanges, Tick, vars, process,
         poller, RestOK
  <1>1. link' \in {"up", "down"} /\ up' \in {"running", "down"}
    OBVIOUS
  <1>2. ran' \in BOOLEAN
    <2>1. CASE PollFast
      <3>1. ran' = TRUE \/ ran' = FALSE
        BY <2>1
      <3> QED BY <3>1, Zenon
    <2>2. CASE PollSlow
      BY <2>2, Zenon
    <2>3. CASE ~PollFast /\ ~PollSlow
      <3>1. UNCHANGED ran \/ ran' = FALSE
        BY <2>3
      <3> QED BY <3>1, Zenon
    <2> QED BY <2>1, <2>2, <2>3
  <1>3. answered' \in BOOLEAN
    BY Zenon DEF Polled
  <1>4. done' \in BOOLEAN
    BY Zenon
  <1>5. wd' \in 0 .. Period \cup {Ended}
    BY IntervalType DEF Interval, PollerInv, Waiting, Ended
  <1>6. ended' \subseteq Others
    OBVIOUS
  <1>7. changes' \in 0 .. MaxChanges /\ faults' \in 0 .. MaxFaults
    BY DEF Fault
  <1> QED BY <1>1, <1>2, <1>3, <1>4, <1>5, <1>6, <1>7 DEF RestOK

\* Type correctness.
THEOREM TypeCorrect == Spec => []WatchdogTypeOK
  <1>1. Init => RestOK
    <2> SUFFICES ASSUME Init PROVE RestOK
      OBVIOUS
    <2>1. ran \in BOOLEAN /\ answered \in BOOLEAN /\ done \in BOOLEAN
      BY Zenon DEF Init
    <2>2. wd \in 0 .. Period
      BY IntervalType DEF Init, Interval
    <2> QED BY <2>1, <2>2 DEF Init, RestOK
  <1>2. Spec => []RestOK
    BY <1>1, NextRest, PollerInvariant, PTL DEF Spec
  <1>3. PollerInv => elapsed \in 0 .. Longest
    BY LongestType DEF PollerInv, SchedOK, TimeFits
  <1>4. PollerInv /\ ReportInv /\ RestOK => WatchdogTypeOK
    BY <1>3 DEF PollerInv, SchedOK, TimeFits, ReportInv, ReportOK, RestOK,
       WatchdogTypeOK, Longest
  <1> QED BY <1>2, <1>4, PollerInvariant, ReportInvariant, PTL
=============================================================================
