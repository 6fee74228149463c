---------------------------- MODULE ConfigStore ----------------------------
(***************************************************************************)
(* The configuration (internal/config/config.go) in its file and in memory *)
(* (internal/app/app.go): users who store a whole configuration they read  *)
(* earlier, or one setting of the storm charge over MQTT, in goroutines of *)
(* their own, around one temporary file; and the start of the program,     *)
(* which reads the file or creates it.                                     *)
(*                                                                         *)
(* The file system (external) has inodes that names refer to: a rename     *)
(* moves a name, an open file stays with its inode, and O_TRUNC empties    *)
(* whatever inode the name has.  A small file is written by one call,      *)
(* which may fail after a part of it.  A text is a sequence of sections.   *)
(***************************************************************************)
EXTENDS Integers, Sequences, SequencesExt, FiniteSets

CONSTANTS
    Users,          \* goroutines of HTTP requests and of MQTT commands
    Main,           \* the goroutine of App.Run, while it starts
    Mains,          \* the part of the configuration that is not below
    DefaultMain,
    SOCs, Currents, \* settings of the storm charge that users ask for
    Workloads,      \* bounds on requests and on faults (failed calls, deaths)
    None

ASSUME UsersAssumption == Main \notin Users /\ IsFiniteSet(Users)
ASSUME MainsAssumption ==
    /\ DefaultMain \in Mains
    /\ \A m \in Mains: DOMAIN m = {"inverterType", "protocol", "port", "sane"}
ASSUME SettingsAssumption ==
    95 \in SOCs /\ 50 \in Currents /\ SOCs \cup Currents \subseteq Int
ASSUME WorkloadsAssumption ==
    Workloads \subseteq [requests: Nat, faults: Nat, users: SUBSET Users]

Workers == Users \cup {Main}
Configs == [main: Mains, soc: SOCs, current: Currents]
Inodes  == 1 .. Cardinality(Workers) + 2
ASSUME NoneAssumption == None \notin Configs \cup Inodes

\* Default.
Default == [main |-> DefaultMain, soc |-> 95, current |-> 50]

VARIABLES
    load,           \* the workload of this behaviour
    up,             \* "boot", "running" or "failed": the process
    cfg,            \* a.cfg
    file, tmp,      \* the inodes that the two names refer to
    disk,           \* the text in each inode
    job,            \* what each goroutine is doing
    requests, faults,
    promised,       \* history: what a restart may come back with
    overlapped      \* history: two calls were in progress at a time

vars == <<load, up, cfg, file, tmp, disk, job, requests, faults, promised,
          overlapped>>

---------------------------------------------------------------------------
(* What a configuration must be.                                           *)

\* NormalizedInverterType, with None for its error.
NormalizedInverterType(type) ==
    CASE type \in {"", "single_phase", "single", "1p"}       -> "single_phase"
      [] type \in {"spi_h3p", "spi", "three_phase", "3p"}    -> "spi_h3p"
      [] type \in {"hesp_sh3", "hesp"}                       -> "hesp_sh3"
      [] OTHER                                               -> None

\* TCPAddress and isTCPPort: a port is a device, or tcp: with or without an
\* address.
TCPAddress(port) == port = "tcp:address"
IsTCPPort(port)  == port \in {"tcp:address", "tcp:"}

\* ConnectionMode, with None for its error.
ConnectionMode(protocol, port) ==
    CASE protocol \in {"", "rtu"} ->
            IF TCPAddress(port) THEN "rtu_over_tcp"
            ELSE IF IsTCPPort(port) THEN None ELSE "rtu"
      [] protocol \in {"rtu_over_tcp", "modbus_tcp"} ->
            IF TCPAddress(port) THEN protocol ELSE None
      [] OTHER -> None

\* Mutant: the port is not looked at.
ValidateAnyPort(c) ==
    /\ c.main.sane /\ NormalizedInverterType(c.main.inverterType) # None
    /\ c.soc \in 50 .. 100 /\ c.current \in 1 .. 120

\* Validate.  The fields that have bounds of their own and nothing else to do
\* with one another are `sane' or not.
Validate(c) ==
    /\ c.main.sane
    /\ NormalizedInverterType(c.main.inverterType) # None
    /\ ConnectionMode(c.main.protocol, c.main.port) # None
    /\ c.soc \in 50 .. 100
    /\ c.current \in 1 .. 120

\* The YAML text: the address of a converter makes it longer than a device.
Text(c) == <<<<"main", c.main>>>>
           \o (IF TCPAddress(c.main.port) THEN <<<<"address", c.main>>>>
                                          ELSE <<>>)
           \o <<<<"soc", c.soc>>, <<"current", c.current>>>>

\* yaml.Unmarshal over Default: what is not in the text keeps its default, so
\* that an empty file is a configuration.
Parsed(text) ==
    {c \in Configs:
        \/ Text(c) = text
        \/ text = <<>> /\ c = Default
        \/ c.current = Default.current /\ text = Front(Text(c))
        \/ c.current = Default.current /\ c.soc = Default.soc
           /\ text = Front(Front(Text(c)))}

\* Load: the configuration, or None.
Loaded(text) ==
    IF \E c \in Parsed(text): Validate(c)
    THEN CHOOSE c \in Parsed(text): Validate(c) ELSE None

---------------------------------------------------------------------------
Idle == [at |-> "idle", cfg |-> None, field |-> None, fd |-> None]

Sections == ({"main", "address"} \X Mains) \cup ({"soc"} \X SOCs)
            \cup ({"current"} \X Currents)
Jobs == [at: {"idle", "read", "save", "write", "rename", "publish"},
         cfg: Configs \cup {None}, field: {"main", "soc", "current", None},
         fd: Inodes \cup {None}]

ProcessOK ==
    /\ up \in {"boot", "running", "failed"}
    /\ cfg \in Configs \cup {None} /\ (up = "running" => cfg # None)
FilesOK ==
    /\ file \in Inodes \cup {None} /\ tmp \in Inodes \cup {None}
    /\ file # None => file # tmp
    /\ disk \in [Inodes -> Seq(Sections)]
    /\ \A i \in Inodes: Len(disk[i]) <= 4
JobsOK ==
    /\ job \in [Workers -> Jobs]
    /\ \A w \in Workers:
         job[w].at # "idle" => up = (IF w = Main THEN "boot" ELSE "running")
HistoryOK ==
    /\ load \in Workloads
    /\ requests \in 0 .. load.requests /\ faults \in 0 .. load.faults
    /\ promised \subseteq Configs /\ overlapped \in BOOLEAN

ConfigTypeOK == ProcessOK /\ FilesOK /\ JobsOK /\ HistoryOK

Init ==
    /\ load \in Workloads
    /\ up = "boot" /\ cfg = None
    /\ file = None /\ tmp = None /\ disk = [i \in Inodes |-> <<>>]
    /\ job = [w \in Workers |-> Idle]
    /\ requests = 0 /\ faults = 0
    /\ promised = {} /\ overlapped = FALSE

Fault == faults < load.faults /\ faults' = faults + 1

\* A call that fails: its user is told, the start of the program ends.
Fails(w) ==
    /\ job' = [job EXCEPT ![w] = Idle]
    /\ up' = IF w = Main THEN "failed" ELSE up

---------------------------------------------------------------------------
(* Requests.                                                               *)

\* The page reads the configuration; a command reads the settings
\* (GetStormChargeStatus).
Read(u) ==
    /\ up = "running" /\ job[u].at = "idle" /\ requests < load.requests
    /\ u \in load.users
    /\ requests' = requests + 1
    /\ job' = [job EXCEPT ![u].at = "read", ![u].cfg = cfg]
    /\ overlapped' = (overlapped \/ \E v \in Users: job[v].at # "idle")
    /\ UNCHANGED <<load, up, cfg, file, tmp, disk, faults, promised>>

\* PUT /api/config: the page's configuration with its changes.
UpdateConfig(u) ==
    /\ job[u].at = "read"
    /\ \E m \in Mains:
          job' = [job EXCEPT ![u].at = "save", ![u].field = "main",
                             ![u].cfg.main = m]
    /\ UNCHANGED <<load, up, cfg, file, tmp, disk, requests, faults, promised,
                   overlapped>>

\* Mutant: the settings that the command does not name are the defaults.
StormSettingsReset(u, f, v) ==
    [cfg EXCEPT !.soc = Default.soc, !.current = Default.current, ![f] = v]

\* The settings that were read with one of them changed, in the configuration
\* as it is now.
StormSettings(u, f, v) ==
    [cfg EXCEPT !.soc = job[u].cfg.soc, !.current = job[u].cfg.current,
                ![f] = v]

UpdateStormChargeSettings(u) ==
    /\ job[u].at = "read"
    /\ \E f \in {"soc", "current"}:
         \E v \in IF f = "soc" THEN SOCs ELSE Currents:
            job' = [job EXCEPT ![u].at = "save", ![u].field = f,
                               ![u].cfg = StormSettings(u, f, v)]
    /\ UNCHANGED <<load, up, cfg, file, tmp, disk, requests, faults, promised,
                   overlapped>>

---------------------------------------------------------------------------
(* Save.                                                                   *)

\* The configuration is not valid; or a session is active, or the directory
\* cannot be made.
Refuse(w) ==
    /\ job[w].at = "save"
    /\ IF Validate(job[w].cfg) THEN Fault ELSE UNCHANGED faults
    /\ Fails(w)
    /\ UNCHANGED <<load, cfg, file, tmp, disk, requests, promised, overlapped>>

Free == Inodes \ ({file, tmp} \cup {job[w].fd: w \in Workers})

\* Mutant: the file itself is opened.
OpenInPlace(w) ==
    /\ job[w].at = "save" /\ Validate(job[w].cfg)
    /\ LET i == IF file # None THEN file ELSE Min(Free)
       IN /\ tmp' = i
          /\ disk' = [disk EXCEPT ![i] = <<>>]
          /\ job' = [job EXCEPT ![w].at = "write", ![w].fd = i]
    /\ UNCHANGED <<load, up, cfg, file, requests, faults, promised,
                   overlapped>>

\* os.WriteFile: O_CREATE and O_TRUNC.
Open(w) ==
    /\ job[w].at = "save" /\ Validate(job[w].cfg)
    /\ LET i == IF tmp # None THEN tmp ELSE Min(Free)
       IN /\ tmp' = i
          /\ disk' = [disk EXCEPT ![i] = <<>>]
          /\ job' = [job EXCEPT ![w].at = "write", ![w].fd = i]
    /\ UNCHANGED <<load, up, cfg, file, requests, faults, promised,
                   overlapped>>

\* A text over another: the end of a longer one stays.
Over(text, old) == text \o SubSeq(old, Len(text) + 1, Len(old))

Write(w) ==
    /\ job[w].at = "write"
    /\ disk' = [disk EXCEPT ![job[w].fd] = Over(Text(job[w].cfg), @)]
    /\ job' = [job EXCEPT ![w].at = "rename", ![w].fd = None]
    /\ UNCHANGED <<load, up, cfg, file, tmp, requests, faults, promised,
                   overlapped>>

WriteFails(w) ==
    /\ job[w].at = "write" /\ Fault
    /\ \E n \in 0 .. 1: disk' = [disk EXCEPT ![job[w].fd] =
                            Over(SubSeq(Text(job[w].cfg), 1, n), @)]
    /\ Fails(w)
    /\ UNCHANGED <<load, cfg, file, tmp, requests, promised, overlapped>>

Rename(w) ==
    /\ job[w].at = "rename" /\ tmp # None
    /\ file' = tmp /\ tmp' = None
    /\ job' = [job EXCEPT ![w].at = "publish"]
    /\ promised' = promised \cup {job[w].cfg}
    /\ UNCHANGED <<load, up, cfg, disk, requests, faults, overlapped>>

\* Another call has renamed it, or the system refuses.
RenameFails(w) ==
    /\ job[w].at = "rename"
    /\ IF tmp # None THEN Fault ELSE UNCHANGED faults
    /\ Fails(w)
    /\ UNCHANGED <<load, cfg, file, tmp, disk, requests, promised, overlapped>>

\* The configuration is put in use.  A user is told so, the program runs.
Publish(w) ==
    /\ job[w].at = "publish"
    /\ cfg' = job[w].cfg /\ promised' = {job[w].cfg}
    /\ job' = [job EXCEPT ![w] = Idle]
    /\ up' = "running"
    /\ UNCHANGED <<load, file, tmp, disk, requests, faults, overlapped>>

---------------------------------------------------------------------------
(* The process.                                                            *)

\* Mutant: the program starts only with a file.
LoadOnly ==
    /\ up = "boot" /\ job[Main].at = "idle"
    /\ LET c == IF file = None THEN None ELSE Loaded(disk[file])
       IN /\ cfg' = c
          /\ up' = IF c = None THEN "failed" ELSE "running"
          /\ promised' = {c} \ {None}
    /\ UNCHANGED <<load, file, tmp, disk, job, requests, faults, overlapped>>

\* LoadOrCreate.
LoadOrCreate ==
    /\ up = "boot" /\ job[Main].at = "idle"
    /\ IF file = None
       THEN /\ job' = [job EXCEPT ![Main].at = "save", ![Main].cfg = Default]
            /\ UNCHANGED <<up, cfg, promised>>
       ELSE LET c == Loaded(disk[file])
            IN /\ cfg' = c
               /\ up' = IF c = None THEN "failed" ELSE "running"
               /\ promised' = IF c = None THEN promised ELSE {c}
               /\ UNCHANGED job
    /\ UNCHANGED <<load, file, tmp, disk, requests, faults, overlapped>>

Crash ==
    /\ up # "failed" /\ Fault
    /\ up' = "failed" /\ cfg' = None
    /\ job' = [w \in Workers |-> Idle]
    /\ UNCHANGED <<load, file, tmp, disk, requests, promised, overlapped>>

\* systemd starts the program again.
Restart ==
    /\ up = "failed"
    /\ up' = "boot" /\ cfg' = None
    /\ UNCHANGED <<load, file, tmp, disk, job, requests, faults, promised,
                   overlapped>>

Step(w) == Refuse(w) \/ Open(w) \/ Write(w) \/ WriteFails(w) \/ Rename(w)
           \/ RenameFails(w) \/ Publish(w)

Next ==
    \/ \E u \in Users:
          Read(u) \/ UpdateConfig(u) \/ UpdateStormChargeSettings(u)
    \/ \E w \in Workers: Step(w)
    \/ LoadOrCreate \/ Crash \/ Restart

Spec == Init /\ [][Next]_vars

\* Calls of the system end, and systemd restarts the program for ever.
FairSpec ==
    /\ Spec /\ WF_vars(LoadOrCreate) /\ WF_vars(Restart)
    /\ \A w \in Workers: WF_vars(Step(w))

---------------------------------------------------------------------------
(* Properties.                                                             *)

\* Whatever was asked for, and whatever the file held at the last start, the
\* configuration in use names a profile and a connection mode: the status page
\* and mqttKey ignore the errors of both (config.go:216-351, server.go:131-132,
\* mqtt/service.go:767).
UsableServed ==
    up = "running" =>
        /\ NormalizedInverterType(cfg.main.inverterType) # None
        /\ ConnectionMode(cfg.main.protocol, cfg.main.port) # None

\* If calls do not overlap, a restart at any moment, after any failed call,
\* finds the configuration that was acknowledged last, or the one that is
\* being acknowledged; and with no call in progress the file and the memory
\* agree (config.go:186-214, app.go:224-236).
Durable ==
    ~overlapped /\ promised # {} =>
        /\ file # None /\ Loaded(disk[file]) \in promised
        /\ up = "running" /\ (\A u \in Users: job[u].at # "publish") =>
              Loaded(disk[file]) = cfg

\* If calls do not overlap, a request changes only what it is about: the rest
\* of the configuration, read at another time, is what it was
\* (app.go:260-275, mqtt/service.go:593-619).
OnlyItsChange ==
    [][up = "running" /\ up' = "running" /\ ~overlapped =>
         \A f \in {"main", "soc", "current"}: cfg'[f] # cfg[f] =>
             \E u \in Users: job[u].at = "publish" /\ job[u].field = f]_vars

\* If calls do not overlap, the program comes back from every failure.
Restarts == []~overlapped => []<>(up = "running")

\* What IMPLEMENTATION_PLAN.md:287 asks for: the file holds the whole of a
\* configuration that somebody saved, at any moment.
SavedAtomically ==
    file # None => \E c \in Configs: disk[file] = Text(c)
=============================================================================
