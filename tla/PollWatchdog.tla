---------------------------- MODULE PollWatchdog ----------------------------
(***************************************************************************)
(* When the Modbus service polls (pollScheduler in                         *)
(* internal/modbus/service.go), what it reports of it (SetServiceStatus in *)
(* internal/state/store.go), the watchdog that restarts the program on     *)
(* these reports, and how App.Run ends (internal/app/app.go).              *)
(*                                                                         *)
(* Time passes in ticks, and only while every goroutine waits for it: for  *)
(* an answer, or in a select.  A poll, with its wait for s.mu, its reads   *)
(* and retries, takes at most MaxFast or MaxSlow ticks, as the timeouts of *)
(* the transport see to.  Times are kept relative to now.                  *)
(***************************************************************************)
EXTENDS Integers, FiniteSets

CONSTANTS
    Configs,            \* [fast, slow: intervals, enabled: there is a port]
    Floor,              \* the 90 s of modbusWatchdogThreshold, in ticks
    Period,             \* the 15 s of watchdogInterval, in ticks
    MaxFast, MaxSlow,   \* how long a poll may take
    Others,             \* the other goroutines of App.Run
    MaxChanges,         \* bound on changes of the configuration
    MaxFaults,          \* bound on failed operations while the link is up
    None

ASSUME ConfigsAssumption ==
    \A c \in Configs: /\ c.fast \in Nat \ {0} /\ c.slow \in Nat \ {0}
                      /\ c.enabled \in BOOLEAN
\* A time.Duration is an int64: some slow interval is the longest.
ASSUME LongestAssumption ==
    \E c \in Configs: \A d \in Configs: d.slow <= c.slow
ASSUME TimesAssumption ==
    {Floor, Period} \subseteq Nat \ {0} /\ {MaxFast, MaxSlow} \subseteq Nat
ASSUME BoundsAssumption ==
    MaxChanges \in Nat /\ MaxFaults \in Nat /\ None \notin Int

\* The scheduler looks at ctx only when no group was due: with fast polls as
\* long as the slow interval it might never do so.
ASSUME ShortFastPolls == \A c \in Configs: MaxFast < c.slow

VARIABLES
    cfg,                \* provider.GetConfig()
    link,               \* "up", "down": whether the inverter answers
    up,                 \* "running", "down": the process
    sched, ran,         \* where pollScheduler is
    nextFast, nextSlow, \* ticks until the groups are due
    elapsed, answered,  \* of the poll in progress
    status, success,    \* of the service "modbus": its state, LastSuccess
    wd,                 \* ticks until the watchdog looks, or Ended
    done,               \* groupCtx is done
    ended,              \* the others that have returned
    changes, faults,
    heard,              \* history: since the last recorded answer
    tried               \* history: an operation has failed since then

poller  == <<sched, ran, nextFast, nextSlow, elapsed, answered>>
report  == <<status, success, heard, tried>>
process == <<up, done, ended>>
vars == <<cfg, link, process, poller, report, wd, changes, faults>>

Ended == -1

Larger(a, b)  == IF a > b THEN a ELSE b
Smaller(a, b) == IF a < b THEN a ELSE b

\* modbusWatchdogThreshold, watchdogInterval, initialSlowOffset.
Threshold == Larger(2 * cfg.slow, Floor)
Interval  == Smaller(cfg.fast, Period)
SlowOffset(c) == Larger(c.fast \div 2, 1)

\* Older successes are all the same.
Oldest == 1 + MaxSlow
          + CHOOSE t \in {Floor} \cup {2 * c.slow: c \in Configs}:
                \A u \in {Floor} \cup {2 * c.slow: c \in Configs}: u <= t
Older(age) == IF age = None THEN None ELSE Smaller(age + 1, Oldest)

WatchdogTypeOK ==
    /\ cfg \in Configs /\ link \in {"up", "down"} /\ up \in {"running", "down"}
    /\ sched \in {"top", "fast", "mid", "slow", "select", "ended"}
    /\ ran \in BOOLEAN /\ answered \in BOOLEAN
    /\ elapsed \in 0 .. Larger(MaxFast, MaxSlow)
    /\ nextFast \in Int /\ nextSlow \in Int
    /\ status \in {"starting", "disabled", "connected", "degraded", "error"}
    /\ success \in 0 .. Oldest \cup {None} /\ heard \in 0 .. Oldest \cup {None}
    /\ success = None <=> heard = None
    /\ wd \in 0 .. Period \cup {Ended} /\ ended \subseteq Others
    /\ done \in BOOLEAN /\ tried \in BOOLEAN
    /\ changes \in 0 .. MaxChanges /\ faults \in 0 .. MaxFaults

\* App.Run starts the services.
Init ==
    /\ cfg \in Configs /\ link \in {"up", "down"}
    /\ changes = 0 /\ faults = 0
    /\ up = "running" /\ done = FALSE /\ ended = {}
    /\ sched = "top" /\ ran = FALSE /\ elapsed = 0 /\ answered = FALSE
    /\ nextFast = 0 /\ nextSlow = SlowOffset(cfg)
    /\ status = "starting" /\ success = None
    /\ wd = Interval
    /\ heard = None /\ tried = FALSE

---------------------------------------------------------------------------
(* SetServiceStatus.                                                       *)

\* An operation that began `age' ticks ago was answered.
Succeeds(s, age) ==
    /\ status' = s /\ success' = age
    /\ heard' = 0 /\ tried' = FALSE

\* Mutant: every report counts as a success.
FailsStamped ==
    /\ status' = "error" /\ tried' = TRUE
    /\ success' = IF success = None THEN None ELSE 0
    /\ UNCHANGED heard

\* LastSuccess stays as it is.
Fails ==
    /\ status' = "error" /\ tried' = TRUE
    /\ UNCHANGED <<success, heard>>

Fault == faults < MaxFaults /\ faults' = faults + 1

---------------------------------------------------------------------------
(* pollScheduler.                                                          *)

Running == up = "running"

\* A group that is due is polled, else the loop goes on.
PollFast ==
    /\ Running /\ sched = "top"
    /\ sched' = IF nextFast <= 0 THEN "fast" ELSE "mid"
    /\ ran' = (nextFast <= 0)
    /\ answered' = (sched' \in {"fast", "slow"} /\ link = "up")
    /\ UNCHANGED <<cfg, link, process, nextFast, nextSlow, elapsed, report, wd,
                   changes, faults>>

PollSlow ==
    /\ Running /\ sched = "mid"
    /\ sched' = IF nextSlow <= 0 THEN "slow"
                ELSE IF ran THEN "top" ELSE "select"
    /\ ran' = (ran \/ nextSlow <= 0)
    /\ answered' = (sched' \in {"fast", "slow"} /\ link = "up")
    /\ UNCHANGED <<cfg, link, process, nextFast, nextSlow, elapsed, report, wd,
                   changes, faults>>

Polling == sched \in {"fast", "slow"}

\* Mutant: the next poll is counted from when this one was due.
PolledFromDue ==
    /\ IF sched = "fast"
       THEN /\ nextFast' = nextFast + cfg.fast /\ sched' = "mid"
            /\ UNCHANGED nextSlow
       ELSE /\ nextSlow' = nextSlow + cfg.slow /\ sched' = "top"
            /\ UNCHANGED nextFast
    /\ elapsed' = 0 /\ answered' = FALSE

\* The end of a poll: the next one is counted from now, with the interval
\* that is configured now.
Polled ==
    /\ IF sched = "fast"
       THEN nextFast' = cfg.fast /\ sched' = "mid" /\ UNCHANGED nextSlow
       ELSE nextSlow' = cfg.slow /\ sched' = "top" /\ UNCHANGED nextFast
    /\ elapsed' = 0 /\ answered' = FALSE

\* pollGroup: there is no port.
PollDisabled ==
    /\ Running /\ Polling /\ elapsed = 0 /\ ~cfg.enabled
    /\ Polled
    /\ status' = "disabled"
    /\ UNCHANGED <<cfg, link, process, ran, success, heard, tried, wd, changes,
                   faults>>

\* Some or all of the ranges were read: the success counts from the start.
PollSucceeds ==
    /\ Running /\ Polling /\ answered /\ (elapsed = 0 => cfg.enabled)
    /\ Polled
    /\ \E s \in {"connected", "degraded"}: Succeeds(s, elapsed)
    /\ UNCHANGED <<cfg, link, process, ran, wd, changes, faults>>

PollFails ==
    /\ Running /\ Polling /\ (elapsed = 0 => cfg.enabled)
    /\ IF answered THEN Fault ELSE UNCHANGED faults
    /\ Polled /\ Fails
    /\ UNCHANGED <<cfg, link, process, ran, wd, changes>>

\* Mutant: the loop sleeps and does not look at ctx.
SelectSleeps ==
    /\ Running /\ sched = "select"
    /\ nextFast <= 0 \/ nextSlow <= 0
    /\ sched' = "top"
    /\ UNCHANGED <<cfg, link, process, ran, nextFast, nextSlow, elapsed,
                   answered, report, wd, changes, faults>>

\* The wait of the loop ends: by the end of ctx, or as a group is due.
Select ==
    /\ Running /\ sched = "select"
    /\ \/ done /\ sched' = "ended"
       \/ (nextFast <= 0 \/ nextSlow <= 0) /\ sched' = "top"
    /\ UNCHANGED <<cfg, link, process, ran, nextFast, nextSlow, elapsed,
                   answered, report, wd, changes, faults>>

\* WriteRegister, ReadHoldingWords and WriteHoldingWords set the status too,
\* and wait for a poll that holds s.mu.
Operation ==
    /\ Running /\ ~Polling /\ cfg.enabled
    /\ \/ link = "up" /\ Succeeds("connected", 0) /\ UNCHANGED faults
       \/ /\ IF link = "up" THEN Fault ELSE UNCHANGED faults
          /\ Fails
    /\ UNCHANGED <<cfg, link, process, poller, wd, changes>>

---------------------------------------------------------------------------
(* The watchdog and the process.                                           *)

\* Mutant: a restart no sooner than two slow intervals, however short.
TriggerNoFloor ==
    /\ status = "error"
    /\ success # None /\ success >= 2 * cfg.slow

\* shouldTriggerWatchdog.
Trigger ==
    /\ status \notin {"connected", "degraded", "starting", "disabled"}
    /\ success # None
    /\ success >= Threshold

\* a.exit(1): the process is gone, with all it knew.
Watchdog ==
    /\ Running /\ wd = 0
    /\ IF Trigger
       THEN /\ up' = "down"
            /\ UNCHANGED wd
       ELSE /\ wd' = Interval
            /\ UNCHANGED up
    /\ UNCHANGED <<cfg, link, done, ended, poller, report, changes, faults>>

WatchdogEnds ==
    /\ Running /\ done /\ wd # Ended
    /\ wd' = Ended
    /\ UNCHANGED <<cfg, link, process, poller, report, changes, faults>>

\* Another service returns, or fails: then the group's context is done.
ServiceEnds(o) ==
    /\ Running /\ o \notin ended
    /\ IF done THEN UNCHANGED faults ELSE Fault
    /\ ended' = ended \cup {o} /\ done' = TRUE
    /\ UNCHANGED <<cfg, link, up, poller, report, wd, changes>>

\* SIGTERM.
Terminate ==
    /\ Running /\ ~done
    /\ done' = TRUE
    /\ UNCHANGED <<cfg, link, up, ended, poller, report, wd, changes, faults>>

\* group.Wait returns.
Return ==
    /\ Running /\ sched = "ended" /\ wd = Ended /\ ended = Others
    /\ up' = "down"
    /\ UNCHANGED <<cfg, link, done, ended, poller, report, wd, changes,
                   faults>>

\* systemd: Restart=always.
Restart ==
    /\ up = "down"
    /\ up' = "running" /\ done' = FALSE /\ ended' = {}
    /\ sched' = "top" /\ ran' = FALSE /\ elapsed' = 0 /\ answered' = FALSE
    /\ nextFast' = 0 /\ nextSlow' = SlowOffset(cfg)
    /\ status' = "starting" /\ success' = None
    /\ wd' = Interval
    /\ heard' = None /\ tried' = FALSE
    /\ UNCHANGED <<cfg, link, changes, faults>>

UpdateConfig ==
    /\ Running /\ changes < MaxChanges
    /\ changes' = changes + 1
    /\ cfg' \in Configs \ {cfg}
    /\ UNCHANGED <<link, process, poller, report, wd, faults>>

\* The cable, the adapter or the inverter.
LinkChanges ==
    /\ link' = IF link = "up" THEN "down" ELSE "up"
    /\ answered' = (answered \/ (Polling /\ link = "down"))
    /\ UNCHANGED <<cfg, process, sched, ran, nextFast, nextSlow, elapsed,
                   report, wd, changes, faults>>

---------------------------------------------------------------------------
(* Time.                                                                   *)

\* Nobody has anything to do before the next tick.
Waiting ==
    /\ \/ sched = "fast" /\ elapsed < MaxFast
       \/ sched = "slow" /\ elapsed < MaxSlow
       \/ sched = "select" /\ nextFast > 0 /\ nextSlow > 0 /\ ~done
       \/ sched = "ended"
    /\ wd # 0 /\ (done => wd = Ended)
    /\ elapsed = 0 /\ Polling => cfg.enabled

Tick ==
    /\ Running /\ Waiting
    /\ IF sched = "ended" THEN UNCHANGED <<nextFast, nextSlow>>
       ELSE nextFast' = nextFast - 1 /\ nextSlow' = nextSlow - 1
    /\ elapsed' = IF Polling THEN elapsed + 1 ELSE 0
    /\ wd' = IF wd = Ended THEN wd ELSE wd - 1
    /\ success' = Older(success) /\ heard' = Older(heard)
    /\ UNCHANGED <<cfg, link, process, sched, ran, answered, status, tried,
                   changes, faults>>

Poller == PollFast \/ PollSlow \/ PollDisabled \/ PollSucceeds \/ PollFails
          \/ Select

Next ==
    \/ Poller \/ Operation
    \/ Watchdog \/ WatchdogEnds \/ Return \/ Restart \/ Terminate
    \/ \E o \in Others: ServiceEnds(o)
    \/ UpdateConfig \/ LinkChanges \/ Tick

Spec == Init /\ [][Next]_vars

\* Time goes on, polls end (their transfers have timeouts), and a goroutine
\* that can go on does.  Of two branches of a select that are ready again and
\* again, each is taken some time.
FairSpec ==
    /\ Spec /\ WF_vars(Tick) /\ WF_vars(Poller)
    /\ SF_vars(Select /\ sched' = "ended")
    /\ WF_vars(Watchdog) /\ SF_vars(WatchdogEnds)
    /\ WF_vars(Return) /\ WF_vars(Restart)
    /\ \A o \in Others: WF_vars(done /\ ServiceEnds(o))

---------------------------------------------------------------------------
(* Properties.                                                             *)

\* A group that is due waits for one poll of the other group and no longer,
\* however long the polls take and however the intervals change meanwhile: no
\* group starves the other (modbus/service.go:387-428).
Punctual ==
    /\ sched # "fast" => nextFast >= -MaxSlow
    /\ sched # "slow" => nextSlow >= -MaxFast

\* The watchdog restarts the program only when an operation failed and nothing
\* was answered for as long as the shortest threshold, but for the length of a
\* poll, whose success counts from its start; and never before a first answer,
\* so that an inverter that stays away causes one restart and no more
\* (app.go:172-216, store.go:49-66).
RestartJustified ==
    [][up = "running" /\ up' = "down" /\ wd # Ended =>
         heard # None /\ tried /\ heard + Larger(MaxFast, MaxSlow) >= Floor]_vars

\* When the inverter stays away for good and there is a port, the process that
\* once had an answer does not stay: the watchdog restarts it, whatever users
\* try and whatever polls are in progress (app.go:146-216).
OutageRestarts ==
    <>[](link = "down" /\ cfg.enabled) => <>[](success = None)

\* SIGTERM, or the failure of one service, ends the program: the scheduler
\* comes to its select between long polls (modbus/service.go:387-428,
\* app.go:105-143).
Stops == done ~> up = "down"
=============================================================================
