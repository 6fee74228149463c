---------------------------- MODULE MqttService ----------------------------
(***************************************************************************)
(* The MQTT service (internal/mqtt/service.go): the sync loop that         *)
(* replaces and resets clients and publishes, the callbacks of the MQTT    *)
(* library, and the handlers of commands, which publish too.               *)
(*                                                                         *)
(* The library (external) reconnects a client that lost its connection     *)
(* until the client is disconnected, and runs callbacks and handlers in    *)
(* goroutines of their own.  Messages have QoS 0: a publish may succeed    *)
(* and be lost, or fail after it was delivered.  A place is a broker with  *)
(* a client id, a user name and topic prefixes.  Availability is a publish *)
(* that may fail, and the time since unhealthySince is long or not as it   *)
(* comes: both are left to chance.                                         *)
(***************************************************************************)
EXTENDS Integers, Sequences

CONSTANTS
    Places,         \* brokers and prefixes
    Loads,          \* workloads: the configurations that follow one another,
                    \* the topics whose values change, and a bound on the
                    \* faults: lost connections, failed and lost messages
    NoKey,          \* the empty string: no client
    Telemetry,      \* state topics of registers
    Storm,          \* state topics of the storm charge
    Values, NoVal,
    Handlers,       \* goroutines that handle commands
    Sync,           \* the goroutine of Run
    MaxClients,     \* bound on the clients that exist at a time
    MaxUpdates      \* bound on new values, from polls and from commands

Profiles == {"single_phase", "spi_h3p", "hesp_sh3"}
Configs  == [place: Places, profile: Profiles, enabled: BOOLEAN]
Key      == [place: Places, profile: Profiles]
Topics   == Telemetry \cup Storm
Clients  == 1 .. MaxClients
NoClient == 0
Entities == {"telemetry", "hesp_controls", "storm_charge"}
Publishers == Handlers \cup {Sync}

\* The topic under which a lost discovery message is held in doubt.
Discovery == "discovery"

ASSUME PlacesAssumption  == NoKey \notin Key \cup Configs
ASSUME TopicsAssumption  ==
    Telemetry \cap Storm = {} /\ Discovery \notin Topics
ASSUME LoadsAssumption   ==
    \A l \in Loads: l.configs \in Seq(Configs) /\ l.configs # <<>>
                     /\ l.topics \subseteq Topics /\ l.faults \in Nat
ASSUME ValuesAssumption  == NoVal \notin Values /\ Values # {}
ASSUME WorkersAssumption == Sync \notin Handlers
ASSUME BoundsAssumption  ==
    MaxClients \in Nat /\ MaxUpdates \in Nat

VARIABLES
    load,           \* what this behaviour goes through
    cfg,            \* provider.GetConfig()
    store,          \* the snapshot's values and the storm charge status
    client, key, discoveryKey, lastPublished, unhealthySince,   \* under s.mu
    conn, of,       \* of each client: its connection, its configuration
    subscribing,    \* clients whose OnConnect is running
    resetting,      \* clients for which `go s.resetClient' is pending
    work,           \* what each publisher is doing
    broker,         \* the last value received on each state topic
    entities,       \* what discovery has announced at each place
    left,           \* configurations that are still to come
    updates, faults,
    orphans,        \* history: clients that disconnect() left reconnecting
    dirty, doubt    \* history: see Doubt

service == <<client, key, discoveryKey, lastPublished, unhealthySince>>
library == <<conn, of, subscribing, resetting>>
bounds  == <<load, left, updates, faults>>
history == <<orphans, dirty, doubt>>
vars == <<cfg, store, service, library, work, broker, entities, bounds,
          history>>

\* mqttKey.  `enabled' means that mqtt.broker is not empty.
MqttKey(c) == [place |-> c.place, profile |-> c.profile]

Nowhere == [p \in Places |-> [t \in Topics |-> NoVal]]
NoWork  == [at |-> "idle", cfg |-> NoKey, cl |-> NoClient, todo |-> {},
            topic |-> Discovery, val |-> [t \in Topics |-> NoVal]]

Ats  == {"idle", "replace", "check", "discovery", "telemetry", "storm", "note",
         "error", "reset", "written", "command"}
Work == [at: Ats, cfg: Configs \cup {NoKey}, cl: Clients \cup {NoClient},
         todo: SUBSET Topics, topic: Topics \cup {Discovery},
         val: [Topics -> Values \cup {NoVal}]]

ServiceOK ==
    /\ client \in Clients \cup {NoClient} /\ key \in Key \cup {NoKey}
    /\ discoveryKey \in Key \cup {NoKey}
    /\ lastPublished \in [Places -> [Topics -> Values \cup {NoVal}]]
    /\ unhealthySince \in {"zero", "set"}
    /\ client = NoClient <=> key = NoKey
    /\ client # NoClient => MqttKey(of[client]) = key

LibraryOK ==
    /\ conn \in [Clients -> {"connecting", "open", "down", "closed"}]
    /\ of \in [Clients -> Configs \cup {NoKey}]
    /\ subscribing \subseteq Clients /\ resetting \subseteq Clients

WorkOK == work \in [Publishers -> Work]

OutsideOK ==
    /\ load \in Loads /\ left \in Seq(Configs)
    /\ cfg \in Configs /\ store \in [Topics -> Values]
    /\ broker \in [Places -> [Topics -> Values \cup {NoVal}]]
    /\ entities \in [Places -> SUBSET Entities]
    /\ updates \in 0 .. MaxUpdates /\ faults \in 0 .. load.faults

HistoryOK ==
    /\ orphans \subseteq Clients /\ dirty \subseteq Publishers
    /\ doubt \subseteq Places \X (Topics \cup {Discovery})

MqttTypeOK == ServiceOK /\ LibraryOK /\ WorkOK /\ OutsideOK /\ HistoryOK

Init ==
    /\ load \in Loads
    /\ cfg = Head(load.configs) /\ left = Tail(load.configs)
    /\ store = [t \in Topics |-> CHOOSE v \in Values: TRUE]
    /\ client = NoClient /\ key = NoKey /\ discoveryKey = NoKey
    /\ lastPublished = Nowhere /\ unhealthySince = "zero"
    /\ conn = [c \in Clients |-> "closed"] /\ of = [c \in Clients |-> NoKey]
    /\ subscribing = {} /\ resetting = {}
    /\ work = [p \in Publishers |-> NoWork]
    /\ broker = Nowhere /\ entities = [p \in Places |-> {}]
    /\ updates = 0 /\ faults = 0
    /\ orphans = {} /\ dirty = {} /\ doubt = {}

---------------------------------------------------------------------------
(* Helpers.                                                                *)

Fault == faults < load.faults /\ faults' = faults + 1

Go(p, at) == work' = [work EXCEPT ![p].at = at]
End(p)    == work' = [work EXCEPT ![p] = NoWork]

MarkUnhealthy == unhealthySince' = "set"

\* A snapshot of the topics to publish next.
Snapshot(ts) == [t \in Topics |-> IF t \in ts THEN store[t] ELSE NoVal]

\* publishTelemetry and publishStormCharge begin.
Take(ts) ==
    work' = [work EXCEPT ![Sync].at = IF ts = Storm THEN "storm"
                                                    ELSE "telemetry",
                         ![Sync].topic = Discovery,
                         ![Sync].todo = ts, ![Sync].val = Snapshot(ts)]

\* The connection of the client that publish() finds.
Link == IF client = NoClient THEN "closed" ELSE conn[client]

Noting(p) == work[p].at = "note"

\* The fields under s.mu when a client is given up.  A publisher that has yet
\* to note what it sent will note it for the next client.
Drop(since) ==
    /\ client' = NoClient /\ key' = NoKey /\ discoveryKey' = NoKey
    /\ lastPublished' = Nowhere /\ unhealthySince' = since
    /\ dirty' = dirty \cup {p \in Publishers: Noting(p)}
    /\ doubt' = {}

\* Mutant: the client in use is reset, whichever it is.
ResetAnyClient(c) ==
    /\ conn' = [d \in Clients |->
                   IF d \in {c, client} THEN "closed" ELSE conn[d]]
    /\ Drop("set")

\* resetClient, with the client it expects to find.
ResetClient(c) ==
    /\ conn' = [conn EXCEPT ![c] = "closed"]
    /\ IF client = c THEN Drop("set") ELSE UNCHANGED <<service, dirty, doubt>>

---------------------------------------------------------------------------
(* sync: the client.                                                       *)

\* disconnect: a client that is not connected is forgotten, not stopped.
SyncDisabled ==
    /\ work[Sync].at = "idle" /\ ~cfg.enabled
    /\ Drop("zero")
    /\ conn' = [c \in Clients |-> IF c = client /\ conn[c] = "open"
                                  THEN "closed" ELSE conn[c]]
    /\ orphans' = orphans \cup {c \in {client} \ {NoClient}: conn[c] # "open"}
    /\ UNCHANGED <<cfg, store, of, subscribing, resetting, work, broker,
                   entities, bounds>>

EnsureClient ==
    /\ work[Sync].at = "idle" /\ cfg.enabled
    /\ LET same == client # NoClient /\ key = MqttKey(cfg)
       IN /\ work' = [work EXCEPT ![Sync].cfg = cfg, ![Sync].cl = client,
                       ![Sync].at = IF same THEN "check" ELSE "replace"]
          /\ IF same THEN UNCHANGED <<service, dirty, doubt>> ELSE Drop("zero")
    /\ UNCHANGED <<cfg, store, library, broker, entities, bounds, orphans>>

\* Clients that nobody refers to any more, or yet.
Unused == {c \in Clients: conn[c] = "closed"
                          /\ c \notin subscribing \cup resetting}

\* Mutant: the old client goes on.
ReplaceLeaks ==
    /\ work[Sync].at = "replace" /\ Unused # {}
    /\ LET new == CHOOSE c \in Unused: \A d \in Unused: c <= d
       IN /\ conn' = [conn EXCEPT ![new] = "connecting"]
          /\ of' = [of EXCEPT ![new] = work[Sync].cfg]
          /\ client' = new
          /\ work' = [work EXCEPT ![Sync].cl = new, ![Sync].at = "check"]
    /\ key' = MqttKey(work[Sync].cfg)
    /\ discoveryKey' = NoKey /\ lastPublished' = Nowhere
    /\ unhealthySince' = "set"
    /\ dirty' = dirty \cup {p \in Publishers: Noting(p)}
    /\ doubt' = {}
    /\ UNCHANGED <<cfg, store, subscribing, resetting, broker, entities, load,
                   left, updates, faults, orphans>>

\* The old client is disconnected, then a new one is stored and connects.
ReplaceClient ==
    /\ work[Sync].at = "replace" /\ Unused # {}
    /\ LET new == CHOOSE c \in Unused: \A d \in Unused: c <= d
           old == work[Sync].cl
       IN /\ conn' = [c \in Clients |->
                        IF c = new THEN "connecting"
                        ELSE IF c = old THEN "closed" ELSE conn[c]]
          /\ of' = [of EXCEPT ![new] = work[Sync].cfg]
          /\ client' = new
          /\ work' = [work EXCEPT ![Sync].cl = new, ![Sync].at = "check"]
    /\ key' = MqttKey(work[Sync].cfg)
    /\ discoveryKey' = NoKey /\ lastPublished' = Nowhere
    /\ unhealthySince' = "set"
    /\ dirty' = dirty \cup {p \in Publishers: Noting(p)}
    /\ doubt' = {}
    /\ UNCHANGED <<cfg, store, subscribing, resetting, broker, entities, load,
                   left, updates, faults, orphans>>

\* Connect gives up, or the wait for it times out.
ConnectFails ==
    /\ work[Sync].at = "check" /\ conn[work[Sync].cl] = "connecting"
    /\ Fault
    /\ Go(Sync, "reset")
    /\ \E to \in {"connecting", "closed"}:
          conn' = [conn EXCEPT ![work[Sync].cl] = to]
    /\ UNCHANGED <<cfg, store, service, of, subscribing, resetting, broker,
                   entities, load, left, updates, history>>

\* An open client is told that the service is online.
Check ==
    /\ work[Sync].at = "check" /\ conn[work[Sync].cl] = "open"
    /\ \/ /\ IF discoveryKey # MqttKey(work[Sync].cfg)
             THEN Go(Sync, "discovery") ELSE Take(Telemetry)
          /\ UNCHANGED faults
       \/ Fault /\ Go(Sync, "error")
    /\ UNCHANGED <<cfg, store, service, library, broker, entities, load, left,
                   updates, history>>

Down == /\ work[Sync].at = "check"
        /\ conn[work[Sync].cl] \notin {"connecting", "open"}

CheckDown ==
    /\ Down
    /\ End(Sync)
    /\ MarkUnhealthy
    /\ UNCHANGED <<cfg, store, client, key, discoveryKey, lastPublished,
                   library, broker, entities, bounds, history>>

\* Mutant: every failure sets unhealthySince anew, so none is ever old.
CheckNeverStalled == FALSE

\* It was down for mqttClientResetAfter.
CheckStalled ==
    /\ Down /\ unhealthySince = "set"
    /\ Go(Sync, "reset")
    /\ UNCHANGED <<cfg, store, service, library, broker, entities, bounds,
                   history>>

Reset ==
    /\ work[Sync].at = "reset"
    /\ ResetClient(work[Sync].cl)
    /\ End(Sync)
    /\ UNCHANGED <<cfg, store, of, subscribing, resetting, broker, entities,
                   bounds, orphans>>

\* recordError: the client is reset when nothing went well for long enough.
RecordError ==
    /\ work[Sync].at = "error"
    /\ \/ /\ MarkUnhealthy
          /\ UNCHANGED <<client, key, discoveryKey, lastPublished, conn, dirty,
                         doubt>>
       \/ /\ unhealthySince = "set"
          /\ Drop("set")
          /\ conn' = [c \in Clients |->
                        IF c = client THEN "closed" ELSE conn[c]]
    /\ End(Sync)
    /\ UNCHANGED <<cfg, store, of, subscribing, resetting, broker, entities,
                   bounds, orphans>>

---------------------------------------------------------------------------
(* Publishing.                                                             *)

\* Mutant: the controls of another profile stay.
AnnouncedKeepsStale(profile, n, e) ==
    IF n < 2 THEN e
    ELSE e \cup {"telemetry"}
         \cup CASE profile = "hesp_sh3" -> {"hesp_controls"}
                [] profile = "spi_h3p"  -> {"storm_charge"}
                [] OTHER                -> {}

\* staleDiscoveryTopics: the controls that SPI inverters do not have.
WithoutStale(profile, e) ==
    IF profile = "spi_h3p" THEN e \ {"hesp_controls"} ELSE e

\* publishStormChargeDiscovery and clearStormChargeDiscovery.
WithStormCharge(profile, e) ==
    IF profile = "spi_h3p" THEN e \cup {"storm_charge"}
                           ELSE e \ {"storm_charge"}

\* publishDiscovery up to its n-th part: stale controls are removed, the
\* catalogue is announced, the storm charge is announced or removed.
Announced(profile, n, e) ==
    LET cleared   == WithoutStale(profile, e)
        controls  == IF profile = "hesp_sh3" THEN {"hesp_controls"} ELSE {}
        catalogue == cleared \cup {"telemetry"} \cup controls
    IN CASE n = 1 -> cleared
         [] n = 2 -> catalogue
         [] n = 3 -> WithStormCharge(profile, catalogue)

\* The client in use has the place for which the publisher makes its topics.
Here(p) == of[client].place = work[p].cfg.place

\* What the broker has after `parts' of a publish arrived.
Arrives(p, t, parts) ==
    LET pl == work[p].cfg.place
    IN IF t = Discovery
       THEN /\ entities' = IF Here(p)
                THEN [entities EXCEPT ![pl] =
                          Announced(work[p].cfg.profile, parts, @)]
                ELSE entities
            /\ UNCHANGED broker
       ELSE /\ broker' = IF Here(p)
                THEN [broker EXCEPT ![pl][t] = work[p].val[t]] ELSE broker
            /\ UNCHANGED entities

\* Those who will note an older message on the topic than the broker has.
Overtaken(p, t) ==
    {q \in Publishers \ {p}: Noting(q) /\ work[q].topic = t
                             /\ work[q].cfg.place = work[p].cfg.place}

\* The publish succeeds and is noted next; on the way it may have been lost.
PublishOk(p, t) ==
    /\ \/ /\ Link = "open"
          /\ Arrives(p, t, 3)
          /\ dirty' = dirty \cup Overtaken(p, t)
                           \cup IF Here(p) THEN {} ELSE {p}
          /\ UNCHANGED faults
       \/ /\ Link \in {"open", "down"}
          /\ IF Link = "open" THEN Fault ELSE UNCHANGED faults
          /\ dirty' = dirty \cup {p}
          /\ UNCHANGED <<broker, entities>>
    /\ work' = [work EXCEPT ![p].at = "note", ![p].topic = t]
    /\ UNCHANGED <<cfg, store, service, library, load, left, updates, orphans,
                   doubt>>

\* Mutant: the error is ignored.
PublishFailsNoted(p, t) ==
    /\ IF Link = "open" THEN Fault ELSE UNCHANGED faults
    /\ work' = [work EXCEPT ![p].at = IF t = Discovery THEN "error"
                                                       ELSE "note",
                            ![p].topic = t]
    /\ UNCHANGED <<cfg, store, service, library, broker, entities, load, left,
                   updates, history>>

\* The publish fails, which does not mean that it did not arrive.
PublishFails(p, t) ==
    /\ \/ /\ IF Link = "open" THEN Fault ELSE UNCHANGED faults
          /\ UNCHANGED <<broker, entities, dirty, doubt>>
       \/ /\ Link = "open" /\ Fault
          /\ \E n \in 1 .. 3: Arrives(p, t, n)
          /\ dirty' = dirty \cup Overtaken(p, t)
          /\ doubt' = doubt \cup {<<work[p].cfg.place, t>>}
    /\ IF p = Sync THEN Go(p, "error") ELSE End(p)
    /\ UNCHANGED <<cfg, store, service, library, load, left, updates, orphans>>

Publish(p, t) == PublishOk(p, t) \/ PublishFails(p, t)

PublishDiscovery ==
    /\ work[Sync].at = "discovery"
    /\ Publish(Sync, Discovery)

\* Mutant: a topic is published once.
ChangedOnce(p) == {t \in work[p].todo:
                     lastPublished[work[p].cfg.place][t] = NoVal}

\* The topics of this snapshot that were not published with this value.
Changed(p) == {t \in work[p].todo:
                 lastPublished[work[p].cfg.place][t] # work[p].val[t]}

\* publishTelemetry and publishStormCharge: one topic.
PublishChanged(p) ==
    /\ work[p].at \in {"telemetry", "storm"}
    /\ \E t \in Changed(p): Publish(p, t)

\* All topics are done: on to the storm charge, whose status is read now, or
\* to the end, which is markHealthy for the sync loop.
PublishedAll(p) ==
    /\ work[p].at \in {"telemetry", "storm"} /\ Changed(p) = {}
    /\ IF work[p].at = "telemetry"
       THEN /\ Take(Storm)
            /\ UNCHANGED unhealthySince
       ELSE /\ End(p)
            /\ unhealthySince' = IF p = Sync THEN "zero" ELSE unhealthySince
    /\ UNCHANGED <<cfg, store, client, key, discoveryKey, lastPublished,
                   library, broker, entities, bounds, history>>

\* setLastPublished, or s.discoveryKey, after the publish returned.
Note(p) ==
    /\ Noting(p)
    /\ LET t  == work[p].topic
           pl == work[p].cfg.place
       IN /\ IF t = Discovery
             THEN /\ discoveryKey' = MqttKey(work[p].cfg)
                  /\ UNCHANGED lastPublished
             ELSE /\ lastPublished' = [lastPublished EXCEPT
                                            ![pl][t] = work[p].val[t]]
                  /\ UNCHANGED discoveryKey
          /\ doubt' = IF p \in dirty THEN doubt \cup {<<pl, t>>}
                                     ELSE doubt \ {<<pl, t>>}
          /\ \/ t = Discovery /\ Take(Telemetry)
             \/ p # Sync /\ t \in Telemetry /\ End(p)
             \/ /\ t \in Storm \/ (p = Sync /\ t \in Telemetry)
                /\ work' = [work EXCEPT
                     ![p].at = IF t \in Storm THEN "storm" ELSE "telemetry",
                     ![p].topic = Discovery, ![p].todo = @ \ {t},
                     ![p].val[t] = NoVal]
    /\ dirty' = dirty \ {p}
    /\ UNCHANGED <<cfg, store, client, key, unhealthySince, library, broker,
                   entities, bounds, orphans>>

---------------------------------------------------------------------------
(* Commands.                                                               *)

\* A command arrives over a subscribed client and left the setting.  One
\* that is empty, invalid or refused left nothing.
Command(h) ==
    /\ work[h].at = "idle" /\ updates < MaxUpdates
    /\ \E c \in Clients, t \in load.topics, v \in Values:
         /\ conn[c] = "open" /\ c \notin subscribing
         /\ t \in Storm => of[c].profile = "spi_h3p"
         /\ store' = [store EXCEPT ![t] = v]
         /\ work' = [work EXCEPT ![h].at = "written", ![h].topic = t,
                                 ![h].val[t] = v]
    /\ updates' = updates + 1
    /\ UNCHANGED <<cfg, service, library, broker, entities, load, left, faults,
                   history>>

\* The configuration is read only now.  A register is published as it was
\* sent, the storm charge as its status is.
Written(h) ==
    /\ work[h].at = "written"
    /\ work' = [work EXCEPT ![h].cfg = cfg,
            ![h].at   = IF work[h].topic \in Storm THEN "storm" ELSE "command",
            ![h].todo = IF work[h].topic \in Storm THEN Storm ELSE {},
            ![h].val  = IF work[h].topic \in Storm THEN Snapshot(Storm) ELSE @,
            ![h].topic = IF @ \in Storm THEN Discovery ELSE @]
    /\ UNCHANGED <<cfg, store, service, library, broker, entities, bounds,
                   history>>

PublishCommandState(h) ==
    /\ work[h].at = "command"
    /\ Publish(h, work[h].topic)

---------------------------------------------------------------------------
(* The library's clients, and the callbacks of clientOptions.              *)

\* Clients that want the same client id at the same broker would take it from
\* one another: no workload has two (NoStrayClient: how they come about).
Opens(c) ==
    /\ conn' = [conn EXCEPT ![c] = "open"]
    /\ subscribing' = subscribing \cup {c}
    /\ UNCHANGED <<cfg, store, service, of, resetting, work, broker, entities,
                   bounds, history>>

Connects(c)   == conn[c] = "connecting" /\ Opens(c)
Reconnects(c) == conn[c] = "down" /\ Opens(c)

OnConnectionLost(c) ==
    /\ conn[c] = "open" /\ Fault
    /\ conn' = [conn EXCEPT ![c] = "down"]
    /\ MarkUnhealthy
    /\ UNCHANGED <<cfg, store, client, key, discoveryKey, lastPublished, of,
                   subscribing, resetting, work, broker, entities, load, left,
                   updates, history>>

\* subscribeCommands succeeds, or the client is to be reset.
OnConnect(c) ==
    /\ c \in subscribing
    /\ subscribing' = subscribing \ {c}
    /\ \/ /\ conn[c] = "open"
          /\ unhealthySince' = "zero"
          /\ UNCHANGED <<resetting, faults>>
       \/ /\ IF conn[c] = "open" THEN Fault ELSE UNCHANGED faults
          /\ MarkUnhealthy
          /\ resetting' = resetting \cup {c}
    /\ UNCHANGED <<cfg, store, client, key, discoveryKey, lastPublished, conn,
                   of, work, broker, entities, load, left, updates, history>>

ResetAfterSubscribe(c) ==
    /\ c \in resetting
    /\ resetting' = resetting \ {c}
    /\ ResetClient(c)
    /\ UNCHANGED <<cfg, store, of, subscribing, work, broker, entities, bounds,
                   orphans>>

---------------------------------------------------------------------------
(* The rest of the program.                                                *)

UpdateConfig ==
    /\ left # <<>>
    /\ cfg' = Head(left) /\ left' = Tail(left)
    /\ UNCHANGED <<load, store, service, library, work, broker, entities,
                   updates, faults, history>>

\* A poll, or the storm charge manager.
UpdateStore ==
    /\ updates < MaxUpdates
    /\ updates' = updates + 1
    /\ \E t \in load.topics, v \in Values:
          v # store[t] /\ store' = [store EXCEPT ![t] = v]
    /\ UNCHANGED <<cfg, service, library, work, broker, entities, load, left,
                   faults, history>>

SyncStep ==
    \/ SyncDisabled \/ EnsureClient \/ ReplaceClient \/ ConnectFails
    \/ Check \/ CheckDown \/ CheckStalled \/ Reset \/ RecordError
    \/ PublishDiscovery \/ PublishChanged(Sync) \/ PublishedAll(Sync)
    \/ Note(Sync)

HandlerStep(h) ==
    \/ Written(h) \/ PublishCommandState(h) \/ PublishChanged(h)
    \/ PublishedAll(h) \/ Note(h)

Callback(c) == Connects(c) \/ OnConnect(c) \/ ResetAfterSubscribe(c)

Next ==
    \/ SyncStep
    \/ \E h \in Handlers: Command(h) \/ HandlerStep(h)
    \/ \E c \in Clients: Callback(c) \/ Reconnects(c) \/ OnConnectionLost(c)
    \/ UpdateConfig \/ UpdateStore

Spec == Init /\ [][Next]_vars

\* The ticker and the waits with timeouts keep every goroutine going, and a
\* client that is down whenever it is looked at is so for long enough one day.
\* A client that lost its connection may never get it back.
FairSpec ==
    /\ Spec
    /\ WF_vars(SyncStep) /\ SF_vars(CheckStalled)
    /\ \A h \in Handlers: WF_vars(HandlerStep(h))
    /\ \A c \in Clients: WF_vars(Callback(c))

---------------------------------------------------------------------------
(* Properties.                                                             *)

\* What lastPublished says of a state topic is what the broker received on it,
\* while the client and its broker are replaced, publishes fail and handlers
\* publish beside the sync loop: but for the topics in `doubt', where a message
\* that succeeded was lost, one that failed had arrived, or two publishers
\* noted their messages in another order than they sent them, or for another
\* client (service.go:462-524, 655-695, 803-814).
LastHonest ==
    client # NoClient =>
        \A t \in Topics:
            \/ lastPublished[key.place][t] \in {NoVal, broker[key.place][t]}
            \/ <<key.place, t>> \in doubt
            \/ \E p \in Publishers: Noting(p) /\ work[p].topic = t

\* Once discovery is done for the client in use, Home Assistant has the storm
\* charge of the SPI profile and of no other, and no HESP control of a former
\* profile is left under SPI, although a profile may change in the middle of
\* discovery and discovery may fail at any of its messages
\* (service.go:102-108, 215-304, 415-460).
EntitiesMatch ==
    client # NoClient /\ discoveryKey # NoKey
    /\ <<discoveryKey.place, Discovery>> \notin doubt =>
        LET there == entities[discoveryKey.place]
        IN /\ discoveryKey = key
           /\ "storm_charge" \in there <=> key.profile = "spi_h3p"
           /\ key.profile = "spi_h3p" => "hesp_controls" \notin there

Alive(c) == conn[c] \in {"connecting", "open", "down"}

\* Every client that holds a connection or tries to get one is the client in
\* use, or is about to be disconnected, or was left behind by disconnect()
\* while its connection was down: replacements, failed connects, failed
\* subscriptions and resets leave no client that goes on handling commands
\* (service.go:123-169, 744-764).
NoStrayClient ==
    \A c \in Clients: Alive(c) =>
        \/ c = client
        \/ c \in resetting \cup orphans
        \/ c = work[Sync].cl /\ work[Sync].at \in {"replace", "reset"}

Healthy == /\ Link = "open"
           /\ client \notin subscribing \cup resetting
           /\ unhealthySince = "zero"

\* A client that works is given up only for another configuration: no callback
\* of a former client resets it.  The sync loop may have found it down just
\* before it came back (service.go:88-92, 744-750).
NoNeedlessReset ==
    [][Healthy /\ client' # client =>
         ~cfg.enabled \/ MqttKey(cfg) # key \/ work[Sync].at = "reset"]_vars

Up == /\ Link = "open" /\ key = MqttKey(cfg)
      /\ discoveryKey = key

\* If no client was left behind, the service ends up connected with the
\* configuration in use, and has announced itself: clients that never
\* reconnect are replaced, and no error path forgets discovery.
Recovers == [](orphans = {}) => <>[](cfg.enabled => Up)

\* And the broker ends up with the current values, whatever was published in
\* between, but for the topics in doubt.
Converges ==
    [](orphans = {}) =>
        <>[](\A t \in Topics: Up /\ <<key.place, t>> \notin doubt =>
                broker[key.place][t] = store[t])
=============================================================================
