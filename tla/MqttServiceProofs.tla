------------------------- MODULE MqttServiceProofs -------------------------
(***************************************************************************)
(* Proofs about MqttService for any places, topics, values, handlers and   *)
(* bounds: however callbacks and handlers of commands meet the sync loop,  *)
(* no client is left behind, the entities that were announced are those of *)
(* the profile, and lastPublished is what the broker received.             *)
(***************************************************************************)
EXTENDS MqttService, WellFoundedInduction, TLAPS

USE PlacesAssumption, TopicsAssumption, LoadsAssumption, ValuesAssumption,
    WorkersAssumption, BoundsAssumption

---------------------------------------------------------------------------
(* The inductive invariant.                                                *)

\* Who does what: only the sync loop replaces clients and announces entities.
RolesFit ==
    /\ work[Sync].at \notin {"written", "command"}
    /\ \A h \in Handlers:
         /\ work[h].at \in {"idle", "written", "command", "storm", "note"}
         /\ work[h].at \in {"written", "command", "note"} =>
              work[h].topic \in Topics
    /\ \A p \in Publishers:
         work[p].at \notin {"idle", "written"} => work[p].cfg \in Configs

\* The client in use is of the configuration that the sync loop works with;
\* others may give it up, but only the sync loop makes a new one.
SyncFits ==
    /\ work[Sync].at = "replace" => client = NoClient
    /\ work[Sync].at \notin {"idle", "replace"} /\ client # NoClient =>
         key = MqttKey(work[Sync].cfg)
    /\ work[Sync].at = "discovery" => discoveryKey # MqttKey(work[Sync].cfg)

\* What discovery leaves behind for a profile.
Matches(profile, there) ==
    /\ "storm_charge" \in there <=> profile = "spi_h3p"
    /\ profile = "spi_h3p" => "hesp_controls" \notin there

\* A discovery that is yet to be noted, and is not dirty, has arrived whole.
DiscoveryFits ==
    /\ client # NoClient /\ discoveryKey # NoKey => discoveryKey = key
    /\ Noting(Sync) /\ work[Sync].topic = Discovery /\ Sync \notin dirty =>
         Matches(work[Sync].cfg.profile, entities[work[Sync].cfg.place])
    /\ EntitiesMatch

\* A value that is yet to be noted, and is not dirty, is the last that arrived.
NotesFit ==
    \A p \in Publishers:
        Noting(p) /\ work[p].topic \in Topics /\ p \notin dirty =>
            broker[work[p].cfg.place][work[p].topic] =
                work[p].val[work[p].topic]

\* LastHonest, with publishers that are about to note something for the place
\* of the client in use and no other.
LastFits ==
    client # NoClient =>
        \A t \in Topics:
            \/ lastPublished[key.place][t] \in {NoVal, broker[key.place][t]}
            \/ <<key.place, t>> \in doubt
            \/ \E p \in Publishers: /\ Noting(p) /\ work[p].topic = t
                                    /\ work[p].cfg.place = key.place

TypeInv == MqttTypeOK /\ RolesFit
MqttInv == TypeInv /\ SyncFits /\ NoStrayClient /\ DiscoveryFits /\ NotesFit
           /\ LastFits


---------------------------------------------------------------------------
(* The steps.                                                              *)

\* A publish with what is known of its publisher.
Publishes(p, t) ==
    /\ Publish(p, t)
    /\ work[p].at \in {"discovery", "telemetry", "storm", "command"}
    /\ t = Discovery <=> work[p].at = "discovery"
    /\ t \in Topics \cup {Discovery} /\ work[p].cfg \in Configs
    /\ p # Sync => t \in Topics

\* Steps of the sync loop that publish nothing.
ClientStep ==
    \/ SyncDisabled \/ EnsureClient \/ ReplaceClient \/ ConnectFails \/ Check
    \/ CheckDown \/ CheckStalled \/ Reset \/ RecordError

PublisherStep(p) ==
    \/ \E t \in Topics \cup {Discovery}: Publishes(p, t)
    \/ PublishedAll(p) \/ Note(p)

LibraryStep(c) ==
    \/ Connects(c) \/ Reconnects(c) \/ OnConnectionLost(c)
    \/ OnConnect(c) \/ ResetAfterSubscribe(c)

\* Every step, sorted by what it does.
LEMMA Steps ==
    ASSUME TypeInv, [Next]_vars
    PROVE  \/ ClientStep
           \/ \E p \in Publishers: PublisherStep(p)
           \/ \E h \in Handlers: Command(h) \/ Written(h)
           \/ \E c \in Clients: LibraryStep(c)
           \/ UpdateConfig \/ UpdateStore \/ UNCHANGED vars
  <1>1. Sync \in Publishers /\ \A h \in Handlers: h \in Publishers /\ h # Sync
    BY DEF Publishers
  <1>2. ASSUME PublishDiscovery PROVE PublisherStep(Sync)
    <2>1. work[Sync].cfg \in Configs
      BY <1>1, <1>2 DEF PublishDiscovery, TypeInv, RolesFit
    <2> QED BY <1>2, <2>1 DEF PublishDiscovery, PublisherStep, Publishes
  <1>3. ASSUME NEW p \in Publishers, PublishChanged(p) PROVE PublisherStep(p)
    <2>1. PICK t \in Changed(p): Publish(p, t)
      BY <1>3 DEF PublishChanged
    <2>2. t \in Topics
      BY DEF Changed, TypeInv, MqttTypeOK, WorkOK, Work
    <2>3. work[p].cfg \in Configs /\ work[p].at \in {"telemetry", "storm"}
      BY <1>3 DEF PublishChanged, TypeInv, RolesFit
    <2> QED BY <2>1, <2>2, <2>3 DEF PublisherStep, Publishes
  <1>4. ASSUME NEW h \in Handlers, PublishCommandState(h)
        PROVE  PublisherStep(h)
    <2>1. /\ work[h].topic \in Topics /\ work[h].cfg \in Configs
          /\ work[h].at = "command"
      BY <1>1, <1>4 DEF PublishCommandState, TypeInv, RolesFit
    <2> QED BY <1>1, <1>4, <2>1
            DEF PublishCommandState, PublisherStep, Publishes
  <1>5. SyncStep => ClientStep \/ PublisherStep(Sync)
    BY <1>1, <1>2, <1>3 DEF SyncStep, ClientStep, PublisherStep
  <1>6. \A h \in Handlers: HandlerStep(h) => Written(h) \/ PublisherStep(h)
    BY <1>1, <1>3, <1>4 DEF HandlerStep, PublisherStep
  <1>7. \A c \in Clients:
            Callback(c) \/ Reconnects(c) \/ OnConnectionLost(c) => LibraryStep(c)
    BY DEF Callback, LibraryStep
  <1> QED BY <1>1, <1>5, <1>6, <1>7 DEF Next

\* A publisher that turns to something else.
LEMMA WorkUpdate ==
    ASSUME WorkOK, NEW p \in Publishers, NEW w,
           work' = [work EXCEPT ![p] = w]
    PROVE  /\ work'[p] = w
           /\ \A q \in Publishers \ {p}: work'[q] = work[q]
           /\ w \in Work => WorkOK'
  BY DEF WorkOK

\* A publisher that is idle.
LEMMA NoWorkType == NoWork \in Work /\ NoWork.at = "idle"
  <1>1. [t \in Topics |-> NoVal] \in [Topics -> Values \cup {NoVal}]
    OBVIOUS
  <1> QED BY <1>1 DEF NoWork, Work, Ats

\* The fields of a piece of work.
LEMMA WorkFields ==
    ASSUME WorkOK, NEW p \in Publishers
    PROVE  /\ work[p] \in Work /\ work[p].at \in Ats
           /\ work[p].cfg \in Configs \cup {NoKey}
           /\ work[p].cl \in Clients \cup {NoClient}
           /\ work[p].todo \in SUBSET Topics
           /\ work[p].topic \in Topics \cup {Discovery}
           /\ work[p].val \in [Topics -> Values \cup {NoVal}]
  BY DEF WorkOK, Work

\* Only the stage changes.
LEMMA GoEffect ==
    ASSUME WorkOK, NEW p \in Publishers, NEW at \in Ats, Go(p, at)
    PROVE  /\ WorkOK'
           /\ \A q \in Publishers \ {p}: work'[q] = work[q]
           /\ work'[p].at = at /\ work'[p].cfg = work[p].cfg
           /\ work'[p].cl = work[p].cl /\ work'[p].topic = work[p].topic
  <1> DEFINE w == [work[p] EXCEPT !.at = at]
  <1>1. /\ w \in Work /\ w.at = at /\ w.cfg = work[p].cfg
        /\ w.cl = work[p].cl /\ w.topic = work[p].topic
    BY WorkFields DEF Work
  <1>2. work' = [work EXCEPT ![p] = w]
    BY DEF Go
  <1> HIDE DEF w
  <1> QED BY <1>1, <1>2, WorkUpdate

\* The publisher has nothing to do any more.
LEMMA EndEffect ==
    ASSUME WorkOK, NEW p \in Publishers, End(p)
    PROVE  /\ WorkOK' /\ work'[p] = NoWork
           /\ \A q \in Publishers \ {p}: work'[q] = work[q]
  BY WorkUpdate, NoWorkType DEF End

\* The sync loop turns to a group of topics.
LEMMA TakeEffect ==
    ASSUME WorkOK, OutsideOK, NEW ts \in {Telemetry, Storm}, Take(ts)
    PROVE  /\ WorkOK'
           /\ \A q \in Handlers: work'[q] = work[q]
           /\ work'[Sync].at \in {"telemetry", "storm"}
           /\ work'[Sync].cfg = work[Sync].cfg
           /\ work'[Sync].cl = work[Sync].cl
  <1> DEFINE w == [work[Sync] EXCEPT
                      !.at = IF ts = Storm THEN "storm" ELSE "telemetry",
                      !.topic = Discovery, !.todo = ts, !.val = Snapshot(ts)]
  <1>1. Snapshot(ts) \in [Topics -> Values \cup {NoVal}]
    BY DEF Snapshot, OutsideOK
  <1>2. Sync \in Publishers
    BY DEF Publishers
  <1>3. /\ w \in Work /\ w.at \in {"telemetry", "storm"}
        /\ w.cfg = work[Sync].cfg /\ w.cl = work[Sync].cl
    BY <1>1, <1>2, WorkFields DEF Work, Ats, Topics
  <1>4. work' = [work EXCEPT ![Sync] = w]
    BY DEF Take
  <1>5. Handlers = Publishers \ {Sync}
    BY DEF Publishers
  <1> HIDE DEF w
  <1> QED BY <1>2, <1>3, <1>4, <1>5, WorkUpdate


\* A publish leaves everything alone but its publisher and what arrives.
LEMMA PublishFrame ==
    ASSUME TypeInv, NEW p \in Publishers, NEW t, Publishes(p, t)
    PROVE  /\ UNCHANGED <<cfg, store, service, library, load, left, updates,
                          orphans>>
           /\ WorkOK'
           /\ \A q \in Publishers \ {p}: work'[q] = work[q]
           /\ \/ /\ PublishOk(p, t)
                 /\ work'[p].at = "note" /\ work'[p].topic = t
                 /\ work'[p].cfg = work[p].cfg /\ work'[p].val = work[p].val
              \/ /\ PublishFails(p, t) /\ p = Sync
                 /\ work'[p].at = "error" /\ work'[p].cfg = work[p].cfg
              \/ PublishFails(p, t) /\ p # Sync /\ work'[p] = NoWork
  <1>1. UNCHANGED <<cfg, store, service, library, load, left, updates, orphans>>
    BY DEF Publishes, Publish, PublishOk, PublishFails
  <1>2. WorkOK
    BY DEF TypeInv, MqttTypeOK
  <1>3. CASE PublishOk(p, t)
    <2> DEFINE w == [work[p] EXCEPT !.at = "note", !.topic = t]
    <2>1. /\ w \in Work /\ w.at = "note" /\ w.topic = t
          /\ w.cfg = work[p].cfg /\ w.val = work[p].val
      BY <1>2, WorkFields DEF Publishes, Work, Ats
    <2>2. work' = [work EXCEPT ![p] = w]
      BY <1>3 DEF PublishOk
    <2> HIDE DEF w
    <2> QED BY <1>1, <1>2, <1>3, <2>1, <2>2, WorkUpdate
  <1>4. CASE PublishFails(p, t) /\ p = Sync
    <2>1. Go(p, "error") /\ "error" \in Ats
      BY <1>4 DEF PublishFails, Ats
    <2> QED BY <1>1, <1>2, <1>4, <2>1, GoEffect
  <1>5. CASE PublishFails(p, t) /\ p # Sync
    <2>1. End(p)
      BY <1>5 DEF PublishFails
    <2> QED BY <1>1, <1>2, <1>5, <2>1, EndEffect
  <1> QED BY <1>3, <1>4, <1>5 DEF Publishes, Publish

\* What arrives at the place that the publisher makes its topics for.
Lands(p, t, parts) ==
    LET pl == work[p].cfg.place
    IN \/ /\ t = Discovery
          /\ entities' = [entities EXCEPT ![pl] =
                              Announced(work[p].cfg.profile, parts, @)]
          /\ UNCHANGED broker
       \/ /\ t # Discovery
          /\ broker' = [broker EXCEPT ![pl][t] = work[p].val[t]]
          /\ UNCHANGED entities

\* Either nothing arrives, and what would be noted is dirty; or the message
\* arrives over the client in use, whole unless it is in doubt, and the notes
\* of others on the topic are dirty.
LEMMA PublishArrives ==
    ASSUME TypeInv, NEW p \in Publishers, NEW t, Publishes(p, t)
    PROVE  /\ dirty \subseteq dirty' /\ doubt \subseteq doubt'
           /\ dirty' \subseteq Publishers
           /\ doubt' \subseteq doubt \cup {<<work[p].cfg.place, t>>}
           /\ faults' \in 0 .. load.faults
           /\ \/ /\ UNCHANGED <<broker, entities>>
                 /\ work'[p].at = "note" => p \in dirty'
              \/ \E n \in 1 .. 3:
                    /\ Lands(p, t, n)
                    /\ client # NoClient /\ key.place = work[p].cfg.place
                    /\ Overtaken(p, t) \subseteq dirty'
                    /\ work'[p].at = "note" => n = 3
                    /\ work'[p].at # "note" =>
                          <<work[p].cfg.place, t>> \in doubt'
  <1>1. dirty \subseteq Publishers /\ faults \in 0 .. load.faults
        /\ load.faults \in Nat /\ Overtaken(p, t) \subseteq Publishers
    BY DEF TypeInv, MqttTypeOK, HistoryOK, OutsideOK, Overtaken
  <1>2. client # NoClient => of[client].place = key.place
    BY DEF TypeInv, MqttTypeOK, ServiceOK, MqttKey
  <1>3. Link = "open" => client # NoClient
    BY DEF Link
  <1>4. \A n \in 1 .. 3: Arrives(p, t, n) =>
            IF Here(p) THEN Lands(p, t, n) ELSE UNCHANGED <<broker, entities>>
    BY DEF Arrives, Lands
  <1>5. client # NoClient /\ Here(p) => key.place = work[p].cfg.place
    BY <1>2 DEF Here
  <1>6. CASE PublishOk(p, t) /\ work'[p].at = "note"
    <2>1. doubt' = doubt /\ faults' \in 0 .. load.faults
      BY <1>1, <1>6 DEF PublishOk, Fault
    <2>2. CASE /\ Link = "open" /\ Arrives(p, t, 3)
               /\ dirty' = dirty \cup Overtaken(p, t)
                                 \cup IF Here(p) THEN {} ELSE {p}
      <3>1. CASE Here(p)
        BY <1>1, <1>3, <1>4, <1>5, <1>6, <2>1, <2>2, <3>1
      <3>2. CASE ~Here(p)
        BY <1>1, <1>4, <1>6, <2>1, <2>2, <3>2
      <3> QED BY <3>1, <3>2
    <2>3. CASE dirty' = dirty \cup {p} /\ UNCHANGED <<broker, entities>>
      BY <1>1, <2>1, <2>3
    <2> QED BY <1>6, <2>2, <2>3 DEF PublishOk
  <1>7. CASE PublishFails(p, t) /\ work'[p].at # "note"
    <2>1. faults' \in 0 .. load.faults
      BY <1>1, <1>7 DEF PublishFails, Fault
    <2>2. CASE UNCHANGED <<broker, entities, dirty, doubt>>
      BY <1>1, <1>7, <2>1, <2>2
    <2>3. CASE /\ Link = "open" /\ \E n \in 1 .. 3: Arrives(p, t, n)
               /\ dirty' = dirty \cup Overtaken(p, t)
               /\ doubt' = doubt \cup {<<work[p].cfg.place, t>>}
      <3>1. CASE Here(p)
        BY <1>1, <1>3, <1>4, <1>5, <1>7, <2>1, <2>3, <3>1
      <3>2. CASE ~Here(p)
        BY <1>1, <1>4, <1>7, <2>1, <2>3, <3>2
      <3> QED BY <3>1, <3>2
    <2> QED BY <1>7, <2>2, <2>3 DEF PublishFails
  <1> QED BY <1>6, <1>7, PublishFrame, NoWorkType

\* The parts of discovery are known to Home Assistant; the whole of it leaves
\* what the profile calls for.
LEMMA AnnouncedMatches ==
    ASSUME NEW e \in SUBSET Entities, NEW profile
    PROVE  /\ \A n \in 1 .. 3: Announced(profile, n, e) \in SUBSET Entities
           /\ Matches(profile, Announced(profile, 3, e))
  <1>1. Announced(profile, 1, e) \in SUBSET Entities
    BY DEF Announced, WithoutStale, Entities
  <1>2. Announced(profile, 2, e) \in SUBSET Entities
    BY DEF Announced, WithoutStale, Entities
  <1>3. Announced(profile, 3, e) \in SUBSET Entities
    BY DEF Announced, WithoutStale, WithStormCharge, Entities
  <1>4. Matches(profile, Announced(profile, 3, e))
    BY DEF Matches, Announced, WithoutStale, WithStormCharge, Entities
  <1> QED BY <1>1, <1>2, <1>3, <1>4

\* What a publish leaves outside has its type.
LEMMA PublishOutside ==
    ASSUME TypeInv, NEW p \in Publishers, NEW t, Publishes(p, t)
    PROVE  OutsideOK' /\ HistoryOK'
  <1>1. /\ work[p].cfg \in Configs /\ t \in Topics \cup {Discovery}
        /\ work[p].val \in [Topics -> Values \cup {NoVal}]
    BY WorkFields DEF Publishes, TypeInv, MqttTypeOK
  <1>2. work[p].cfg.place \in Places
    BY <1>1 DEF Configs
  <1>3. OutsideOK /\ HistoryOK
    BY DEF TypeInv, MqttTypeOK
  <1>4. ASSUME NEW n \in 1 .. 3, Lands(p, t, n)
        PROVE  /\ broker' \in [Places -> [Topics -> Values \cup {NoVal}]]
               /\ entities' \in [Places -> SUBSET Entities]
    <2>1. CASE t = Discovery
      <3> DEFINE e == Announced(work[p].cfg.profile, n,
                                entities[work[p].cfg.place])
      <3>1. entities[work[p].cfg.place] \in SUBSET Entities
        BY <1>2, <1>3 DEF OutsideOK
      <3>2. e \in SUBSET Entities
        BY <3>1, AnnouncedMatches
      <3>3. entities' = [entities EXCEPT ![work[p].cfg.place] = e]
            /\ UNCHANGED broker
        BY <1>4, <2>1 DEF Lands
      <3> HIDE DEF e
      <3> QED BY <1>3, <3>2, <3>3 DEF OutsideOK
    <2>2. CASE t # Discovery
      <3>1. t \in Topics /\ UNCHANGED entities
            /\ broker' = [broker EXCEPT ![work[p].cfg.place][t] =
                              work[p].val[t]]
        BY <1>1, <1>4, <2>2 DEF Lands
      <3> QED BY <1>1, <1>2, <1>3, <3>1 DEF OutsideOK
    <2> QED BY <2>1, <2>2
  <1>5. /\ broker' \in [Places -> [Topics -> Values \cup {NoVal}]]
        /\ entities' \in [Places -> SUBSET Entities]
        /\ faults' \in 0 .. load.faults /\ dirty' \subseteq Publishers
        /\ doubt' \subseteq doubt \cup {<<work[p].cfg.place, t>>}
    BY <1>3, <1>4, PublishArrives DEF OutsideOK
  <1>6. UNCHANGED <<cfg, store, load, left, updates, orphans>>
    BY PublishFrame
  <1>7. doubt' \subseteq Places \X (Topics \cup {Discovery})
    BY <1>1, <1>2, <1>3, <1>5 DEF HistoryOK
  <1> QED BY <1>3, <1>5, <1>6, <1>7 DEF OutsideOK, HistoryOK


\* What a publisher does after it noted a message.
LEMMA NoteEffect ==
    ASSUME TypeInv, NEW p \in Publishers, Note(p)
    PROVE  /\ WorkOK'
           /\ \A q \in Publishers \ {p}: work'[q] = work[q]
           /\ work[p].topic = Discovery => p = Sync
           /\ \/ work'[p] = NoWork /\ p # Sync
              \/ /\ work'[p].at \in {"telemetry", "storm"}
                 /\ p # Sync => work'[p].at = "storm"
                 /\ work'[p].cfg = work[p].cfg
  <1> DEFINE t == work[p].topic
  <1>1. WorkOK /\ OutsideOK
    BY DEF TypeInv, MqttTypeOK
  <1>2. Publishers = Handlers \cup {Sync} /\ Telemetry \cap Storm = {}
    BY DEF Publishers
  <1>3. t = Discovery => p = Sync
    BY <1>2 DEF TypeInv, RolesFit, Note, Noting
  <1>4. t \in Topics \cup {Discovery}
    BY <1>1, WorkFields
  <1>5. CASE t = Discovery
    <2>1. Take(Telemetry)
      BY <1>5 DEF Note, Topics
    <2> QED BY <1>1, <1>2, <1>3, <1>5, <2>1, TakeEffect
  <1>6. CASE p # Sync /\ t \in Telemetry
    <2>1. End(p)
      BY <1>6 DEF Note, Topics
    <2> QED BY <1>1, <1>3, <1>6, <2>1, EndEffect
  <1>7. CASE t # Discovery /\ ~(p # Sync /\ t \in Telemetry)
    <2> DEFINE v == [work[p].val EXCEPT ![t] = NoVal]
               d == work[p].todo \ {t}
               a == IF t \in Storm THEN "storm" ELSE "telemetry"
               w == [work[p] EXCEPT !.at = a, !.topic = Discovery, !.todo = d,
                                    !.val = v]
    <2>1. work' = [work EXCEPT ![p] = w]
      BY <1>1, <1>7, WorkFields DEF Note, Topics, Work
    <2>2. /\ v \in [Topics -> Values \cup {NoVal}] /\ d \in SUBSET Topics
          /\ a \in {"telemetry", "storm"} /\ (t \in Storm => a = "storm")
      BY <1>1, WorkFields
    <2> HIDE DEF v, d, a
    <2>3. /\ w \in Work /\ w.at \in {"telemetry", "storm"}
          /\ w.cfg = work[p].cfg /\ w.at = a
      BY <1>1, <2>2, WorkFields DEF Work, Ats
    <2>4. p # Sync => t \in Storm
      BY <1>4, <1>7 DEF Topics
    <2> HIDE DEF w
    <2> QED BY <1>1, <1>3, <2>1, <2>2, <2>3, <2>4, WorkUpdate
  <1> QED BY <1>5, <1>6, <1>7

\* A handler that a command or the configuration reaches.
LEMMA CommandEffect ==
    ASSUME TypeInv, NEW h \in Handlers, Command(h) \/ Written(h)
    PROVE  /\ WorkOK'
           /\ \A q \in Publishers \ {h}: work'[q] = work[q]
           /\ \/ work'[h].at = "written" /\ work'[h].topic \in Topics
              \/ /\ work'[h].at = "storm" /\ work'[h].cfg = cfg
              \/ /\ work'[h].at = "command" /\ work'[h].cfg = cfg
                 /\ work'[h].topic \in Topics
  <1>1. WorkOK /\ OutsideOK /\ h \in Publishers
    BY DEF TypeInv, MqttTypeOK, Publishers
  <1>2. CASE Command(h)
    <2>1. PICK t \in Topics, v \in Values:
              work' = [work EXCEPT ![h].at = "written", ![h].topic = t,
                                   ![h].val[t] = v]
      BY <1>1, <1>2 DEF Command, OutsideOK
    <2> DEFINE vs == [work[h].val EXCEPT ![t] = v]
               w  == [work[h] EXCEPT !.at = "written", !.topic = t, !.val = vs]
    <2>2. vs \in [Topics -> Values \cup {NoVal}]
      BY <1>1, WorkFields
    <2>4. work' = [work EXCEPT ![h] = w]
      BY <2>1
    <2> HIDE DEF vs
    <2>3. w \in Work /\ w.at = "written" /\ w.topic = t
      BY <1>1, <2>2, WorkFields DEF Work, Ats
    <2> HIDE DEF w
    <2> QED BY <1>1, <2>3, <2>4, WorkUpdate
  <1>3. CASE Written(h)
    <2>1. work[h].topic \in Topics
      BY <1>3 DEF Written, TypeInv, RolesFit
    <2>2. Snapshot(Storm) \in [Topics -> Values \cup {NoVal}]
      BY <1>1 DEF Snapshot, OutsideOK
    <2>3. CASE work[h].topic \in Storm
      <3> DEFINE w == [work[h] EXCEPT !.cfg = cfg, !.at = "storm",
                          !.todo = Storm, !.val = Snapshot(Storm),
                          !.topic = Discovery]
      <3>1. w \in Work /\ w.at = "storm" /\ w.cfg = cfg
        BY <1>1, <2>2, WorkFields DEF Work, Ats, OutsideOK, Topics
      <3>2. work' = [work EXCEPT ![h] = w]
        BY <1>3, <2>3 DEF Written
      <3> HIDE DEF w
      <3> QED BY <1>1, <3>1, <3>2, WorkUpdate
    <2>4. CASE work[h].topic \notin Storm
      <3> DEFINE w == [work[h] EXCEPT !.cfg = cfg, !.at = "command",
                          !.todo = {}]
      <3>1. /\ w \in Work /\ w.at = "command" /\ w.cfg = cfg
            /\ w.topic = work[h].topic
        BY <1>1, WorkFields DEF Work, Ats, OutsideOK
      <3>2. work' = [work EXCEPT ![h] = w]
        <4>1. work' = [work EXCEPT ![h] =
                [work[h] EXCEPT !.cfg = cfg, !.at = "command", !.todo = {},
                    !.val = @, !.topic = @]]
          BY <1>3, <2>4 DEF Written
        <4>2. [work[h] EXCEPT !.cfg = cfg, !.at = "command", !.todo = {},
                    !.val = @, !.topic = @] = w
          BY <1>1, WorkFields DEF Work
        <4> QED BY <4>1, <4>2
      <3> HIDE DEF w
      <3> QED BY <1>1, <2>1, <3>1, <3>2, WorkUpdate
    <2> QED BY <2>3, <2>4
  <1> QED BY <1>2, <1>3

\* The sync loop takes the configuration and looks at the client.
LEMMA EnsureEffect ==
    ASSUME TypeInv, EnsureClient
    PROVE  /\ WorkOK'
           /\ \A q \in Handlers: work'[q] = work[q]
           /\ work'[Sync].cfg = cfg /\ work'[Sync].cl = client
           /\ \/ /\ client # NoClient /\ key = MqttKey(cfg)
                 /\ work'[Sync].at = "check"
                 /\ UNCHANGED <<service, dirty, doubt>>
              \/ /\ ~(client # NoClient /\ key = MqttKey(cfg))
                 /\ work'[Sync].at = "replace" /\ Drop("zero")
  <1> DEFINE same == client # NoClient /\ key = MqttKey(cfg)
             w == [work[Sync] EXCEPT !.cfg = cfg, !.cl = client,
                       !.at = IF same THEN "check" ELSE "replace"]
  <1>1. Sync \in Publishers /\ Handlers = Publishers \ {Sync}
    BY DEF Publishers
  <1>2. WorkOK /\ cfg \in Configs /\ client \in Clients \cup {NoClient}
    BY DEF TypeInv, MqttTypeOK, OutsideOK, ServiceOK
  <1>3. /\ w \in Work /\ w.cfg = cfg /\ w.cl = client
        /\ w.at = IF same THEN "check" ELSE "replace"
    BY <1>1, <1>2, WorkFields DEF Work, Ats
  <1>4. work' = [work EXCEPT ![Sync] = w]
    BY DEF EnsureClient
  <1>5. IF same THEN UNCHANGED <<service, dirty, doubt>> ELSE Drop("zero")
    BY DEF EnsureClient
  <1> HIDE DEF w
  <1> QED BY <1>1, <1>2, <1>3, <1>4, <1>5, WorkUpdate

\* Of the clients that are free there is a first.
LEMMA UnusedLeast ==
    ASSUME Unused # {} PROVE \E c \in Unused: \A d \in Unused: c <= d
  <1> DEFINE R == OpToRel(<, Nat)
  <1>1. Unused \subseteq Nat
    BY DEF Unused, Clients
  <1>2. \A c, d \in Nat: <<d, c>> \notin R => c <= d
    BY DEF OpToRel
  <1>3. IsWellFoundedOn(R, Nat)
    BY NatLessThanWellFounded
  <1> HIDE DEF R
  <1>4. \E c \in Unused: \A d \in Unused: <<d, c>> \notin R
    BY <1>1, <1>3, WFMin
  <1> QED BY <1>1, <1>2, <1>4

\* The new client.
LEMMA ReplaceEffect ==
    ASSUME TypeInv, ReplaceClient
    PROVE  /\ WorkOK'
           /\ \A q \in Handlers: work'[q] = work[q]
           /\ work'[Sync].cfg = work[Sync].cfg /\ work'[Sync].at = "check"
           /\ client' \in Unused
           /\ of' = [of EXCEPT ![client'] = work[Sync].cfg]
           /\ conn' = [c \in Clients |->
                          IF c = client' THEN "connecting"
                          ELSE IF c = work[Sync].cl THEN "closed" ELSE conn[c]]
  <1> DEFINE new == CHOOSE c \in Unused: \A d \in Unused: c <= d
             w == [work[Sync] EXCEPT !.cl = new, !.at = "check"]
  <1>1. Sync \in Publishers /\ Handlers = Publishers \ {Sync}
    BY DEF Publishers
  <1>2. WorkOK
    BY DEF TypeInv, MqttTypeOK
  <1>3. new \in Unused
    BY UnusedLeast DEF ReplaceClient
  <1>4. new \in Clients
    BY <1>3 DEF Unused
  <1> HIDE DEF new
  <1>5. w \in Work /\ w.cfg = work[Sync].cfg /\ w.at = "check"
    BY <1>1, <1>2, <1>4, WorkFields DEF Work, Ats
  <1>6. client' = new /\ of' = [of EXCEPT ![new] = work[Sync].cfg]
    BY Zenon DEF ReplaceClient, new
  <1>7. conn' = [c \in Clients |->
                    IF c = new THEN "connecting"
                    ELSE IF c = work[Sync].cl THEN "closed" ELSE conn[c]]
    BY Zenon DEF ReplaceClient, new
  <1>8. work' = [work EXCEPT ![Sync].cl = new, ![Sync].at = "check"]
    BY Zenon DEF ReplaceClient, new
  <1>9. work' = [work EXCEPT ![Sync] = w]
    BY <1>8
  <1> HIDE DEF w
  <1> QED BY <1>1, <1>2, <1>3, <1>5, <1>6, <1>7, <1>9, WorkUpdate


---------------------------------------------------------------------------
(* Types and roles.                                                        *)

\* One publisher turns to something that is its to do.
LEMMA RolesUpdate ==
    ASSUME RolesFit, NEW p \in Publishers,
           \A q \in Publishers \ {p}: work'[q] = work[q],
           p = Sync => work'[p].at \notin {"written", "command"},
           p # Sync =>
             /\ work'[p].at \in {"idle", "written", "command", "storm", "note"}
             /\ work'[p].at \in {"written", "command", "note"} =>
                  work'[p].topic \in Topics,
           work'[p].at \notin {"idle", "written"} => work'[p].cfg \in Configs
    PROVE  RolesFit'
  <1>1. Publishers = Handlers \cup {Sync}
    BY DEF Publishers
  <1> QED BY <1>1 DEF RolesFit

\* A client that is given up leaves nothing behind under s.mu.
LEMMA DropService ==
    ASSUME NEW since \in {"zero", "set"}, Drop(since)
    PROVE  ServiceOK'
  <1>1. Nowhere \in [Places -> [Topics -> Values \cup {NoVal}]]
    BY DEF Nowhere
  <1> QED BY <1>1 DEF Drop, ServiceOK

\* Who waits to be noted when a client is given up is a publisher.
LEMMA DropHistory ==
    ASSUME HistoryOK, NEW since, Drop(since), orphans' \subseteq Clients
    PROVE  HistoryOK'
  BY DEF Drop, HistoryOK

\* The types of the fields under s.mu.
LEMMA NextService == TypeInv /\ [Next]_vars => ServiceOK'
  <1> SUFFICES ASSUME TypeInv, [Next]_vars PROVE ServiceOK'
    OBVIOUS
  <1>1. ServiceOK /\ LibraryOK /\ WorkOK
    BY DEF TypeInv, MqttTypeOK
  <1>2. ASSUME UNCHANGED <<client, key, discoveryKey, lastPublished, of>>,
               unhealthySince' \in {"zero", "set", unhealthySince}
        PROVE  ServiceOK'
    BY <1>1, <1>2 DEF ServiceOK, MqttKey
  <1>3. ASSUME UNCHANGED <<service, of>> PROVE ServiceOK'
    BY <1>1, <1>3 DEF ServiceOK, MqttKey, service
  <1>4. ASSUME NEW c, ResetClient(c), UNCHANGED of PROVE ServiceOK'
    BY <1>3, <1>4, DropService DEF ResetClient
  <1>5. CASE ClientStep
    <2>1. CASE SyncDisabled
      BY <2>1, DropService DEF SyncDisabled
    <2>2. CASE EnsureClient
      <3>1. UNCHANGED of
        BY <2>2 DEF EnsureClient, library
      <3> QED BY <1>3, <2>2, <3>1, DropService DEF EnsureClient
    <2>3. CASE ReplaceClient
      <3>1. /\ key' = MqttKey(work[Sync].cfg) /\ discoveryKey' = NoKey
            /\ lastPublished' = Nowhere /\ unhealthySince' = "set"
        BY <2>3, Zenon DEF ReplaceClient
      <3>2. work[Sync].cfg \in Configs
        BY <2>3 DEF ReplaceClient, TypeInv, RolesFit, Publishers
      <3>3. MqttKey(work[Sync].cfg) \in Key
        BY <3>2 DEF MqttKey, Configs, Key
      <3>4. client' \in Clients /\ of'[client'] = work[Sync].cfg
        BY <1>1, <2>3, ReplaceEffect DEF Unused, LibraryOK
      <3>5. Nowhere \in [Places -> [Topics -> Values \cup {NoVal}]]
        BY DEF Nowhere
      <3>6. MqttKey(of'[client']) = key' /\ client' # NoClient /\ key' # NoKey
        BY <3>1, <3>3, <3>4 DEF Clients, NoClient
      <3> QED BY <3>1, <3>3, <3>4, <3>5, <3>6 DEF ServiceOK, MqttKey
    <2>4. CASE ConnectFails \/ Check \/ CheckStalled
      BY <1>3, <2>4 DEF ConnectFails, Check, CheckStalled, library
    <2>5. CASE CheckDown
      BY <1>2, <2>5 DEF CheckDown, MarkUnhealthy, library
    <2>6. CASE Reset
      BY <1>4, <2>6 DEF Reset
    <2>7. CASE RecordError
      BY <1>2, <2>7, DropService DEF RecordError, MarkUnhealthy
    <2> QED BY <1>5, <2>1, <2>2, <2>3, <2>4, <2>5, <2>6, <2>7 DEF ClientStep
  <1>6. ASSUME NEW p \in Publishers, PublisherStep(p) PROVE ServiceOK'
    <2>1. CASE \E t \in Topics \cup {Discovery}: Publishes(p, t)
      BY <1>3, <2>1, PublishFrame DEF library
    <2>2. CASE PublishedAll(p)
      BY <1>2, <2>2 DEF PublishedAll, library
    <2>3. CASE Note(p)
      <3>1. UNCHANGED <<client, key, unhealthySince, of>>
        BY <2>3 DEF Note, library
      <3>2. /\ work[p].cfg \in Configs
            /\ work[p].val \in [Topics -> Values \cup {NoVal}]
            /\ work[p].topic \in Topics \cup {Discovery}
        BY <1>1, <2>3, WorkFields DEF Note, Noting, TypeInv, RolesFit
      <3>3. MqttKey(work[p].cfg) \in Key
        BY <3>2 DEF MqttKey, Configs, Key
      <3>4. discoveryKey' \in {discoveryKey, MqttKey(work[p].cfg)}
        BY <2>3 DEF Note
      <3>5. \/ UNCHANGED lastPublished
            \/ /\ work[p].topic \in Topics
               /\ lastPublished' = [lastPublished EXCEPT
                    ![work[p].cfg.place][work[p].topic] =
                        work[p].val[work[p].topic]]
        BY <2>3, <3>2 DEF Note
      <3>6. lastPublished' \in [Places -> [Topics -> Values \cup {NoVal}]]
        BY <1>1, <3>2, <3>5 DEF ServiceOK
      <3> QED BY <1>1, <3>1, <3>3, <3>4, <3>6 DEF ServiceOK, MqttKey
    <2> QED BY <1>6, <2>1, <2>2, <2>3 DEF PublisherStep
  <1>7. ASSUME NEW h \in Handlers, Command(h) \/ Written(h) PROVE ServiceOK'
    BY <1>3, <1>7 DEF Command, Written, library
  <1>8. ASSUME NEW c \in Clients, LibraryStep(c) PROVE ServiceOK'
    <2>1. CASE Connects(c) \/ Reconnects(c)
      BY <1>3, <2>1 DEF Connects, Reconnects, Opens
    <2>2. CASE OnConnectionLost(c) \/ OnConnect(c)
      BY <1>2, <2>2 DEF OnConnectionLost, OnConnect, MarkUnhealthy
    <2>3. CASE ResetAfterSubscribe(c)
      BY <1>4, <2>3 DEF ResetAfterSubscribe
    <2> QED BY <1>8, <2>1, <2>2, <2>3 DEF LibraryStep
  <1>9. CASE UpdateConfig \/ UpdateStore \/ UNCHANGED vars
    BY <1>3, <1>9 DEF UpdateConfig, UpdateStore, vars, library
  <1> QED BY <1>5, <1>6, <1>7, <1>8, <1>9, Steps


\* The types of what the library keeps.
LEMMA NextLibrary == TypeInv /\ [Next]_vars => LibraryOK'
  <1> SUFFICES ASSUME TypeInv, [Next]_vars PROVE LibraryOK'
    OBVIOUS
  <1> DEFINE Conns == {"connecting", "open", "down", "closed"}
  <1>1. LibraryOK /\ WorkOK /\ ServiceOK
    BY DEF TypeInv, MqttTypeOK
  <1>2. ASSUME UNCHANGED library PROVE LibraryOK'
    BY <1>1, <1>2 DEF LibraryOK, library
  <1>3. ASSUME UNCHANGED of, conn' \in [Clients -> Conns],
               subscribing' \subseteq Clients, resetting' \subseteq Clients
        PROVE  LibraryOK'
    BY <1>1, <1>3 DEF LibraryOK
  <1>4. \A c, to: to \in Conns => [conn EXCEPT ![c] = to] \in [Clients -> Conns]
    BY <1>1 DEF LibraryOK
  <1>5. ASSUME NEW c, ResetClient(c) PROVE conn' \in [Clients -> Conns]
    BY <1>4, <1>5 DEF ResetClient
  <1>6. CASE ClientStep
    <2>1. CASE SyncDisabled
      <3>1. conn' \in [Clients -> Conns]
        BY <1>1, <2>1 DEF SyncDisabled, LibraryOK
      <3> QED BY <1>1, <1>3, <2>1, <3>1 DEF SyncDisabled, LibraryOK
    <2>2. CASE EnsureClient \/ Check \/ CheckDown \/ CheckStalled
      BY <1>2, <2>2 DEF EnsureClient, Check, CheckDown, CheckStalled
    <2>3. CASE ReplaceClient
      <3>1. UNCHANGED <<subscribing, resetting>>
        BY <2>3 DEF ReplaceClient
      <3>2. /\ of' = [of EXCEPT ![client'] = work[Sync].cfg]
            /\ conn' = [c \in Clients |->
                          IF c = client' THEN "connecting"
                          ELSE IF c = work[Sync].cl THEN "closed" ELSE conn[c]]
        BY <2>3, ReplaceEffect
      <3>3. conn' \in [Clients -> Conns]
        BY <1>1, <3>2 DEF LibraryOK
      <3>4. work[Sync].cfg \in Configs \cup {NoKey}
        BY <1>1, WorkFields DEF Publishers
      <3> QED BY <1>1, <3>1, <3>2, <3>3, <3>4 DEF LibraryOK
    <2>4. CASE ConnectFails
      <3>1. PICK to \in {"connecting", "closed"}:
                conn' = [conn EXCEPT ![work[Sync].cl] = to]
        BY <2>4 DEF ConnectFails
      <3>2. conn' \in [Clients -> Conns]
        BY <1>4, <3>1
      <3> QED BY <1>1, <1>3, <2>4, <3>2 DEF ConnectFails, LibraryOK
    <2>5. CASE Reset
      BY <1>1, <1>3, <1>5, <2>5 DEF Reset, LibraryOK
    <2>6. CASE RecordError
      <3>1. conn' \in [Clients -> Conns]
        BY <1>1, <2>6 DEF RecordError, LibraryOK
      <3> QED BY <1>1, <1>3, <2>6, <3>1 DEF RecordError, LibraryOK
    <2> QED BY <1>6, <2>1, <2>2, <2>3, <2>4, <2>5, <2>6 DEF ClientStep
  <1>7. ASSUME NEW p \in Publishers, PublisherStep(p) PROVE LibraryOK'
    BY <1>2, <1>7, PublishFrame DEF PublisherStep, PublishedAll, Note
  <1>8. ASSUME NEW h \in Handlers, Command(h) \/ Written(h) PROVE LibraryOK'
    BY <1>2, <1>8 DEF Command, Written
  <1>9. ASSUME NEW c \in Clients, LibraryStep(c) PROVE LibraryOK'
    <2>1. conn' \in [Clients -> Conns] /\ UNCHANGED of
      BY <1>1, <1>4, <1>5, <1>9 DEF LibraryStep, Connects, Reconnects, Opens,
         OnConnectionLost, OnConnect, ResetAfterSubscribe, LibraryOK
    <2>2. subscribing' \subseteq Clients /\ resetting' \subseteq Clients
      BY <1>1, <1>9 DEF LibraryStep, Connects, Reconnects, Opens,
         OnConnectionLost, OnConnect, ResetAfterSubscribe, LibraryOK
    <2> QED BY <1>3, <2>1, <2>2
  <1>10. CASE UpdateConfig \/ UpdateStore \/ UNCHANGED vars
    BY <1>2, <1>10 DEF UpdateConfig, UpdateStore, vars
  <1> QED BY <1>6, <1>7, <1>8, <1>9, <1>10, Steps

\* The types of what the publishers do, and their roles.
LEMMA NextWork == TypeInv /\ [Next]_vars => WorkOK' /\ RolesFit'
  <1> SUFFICES ASSUME TypeInv, [Next]_vars PROVE WorkOK' /\ RolesFit'
    OBVIOUS
  <1>1. WorkOK /\ RolesFit /\ OutsideOK
    BY DEF TypeInv, MqttTypeOK
  <1>2. Sync \in Publishers /\ Handlers = Publishers \ {Sync}
    BY DEF Publishers
  <1>3. ASSUME UNCHANGED work PROVE WorkOK' /\ RolesFit'
    BY <1>1, <1>3 DEF WorkOK, RolesFit
  <1>4. ASSUME NEW at \in Ats \ {"written", "command"}, Go(Sync, at),
               work[Sync].at # "idle"
        PROVE  WorkOK' /\ RolesFit'
    <2>1. work[Sync].cfg \in Configs
      BY <1>1, <1>2, <1>4 DEF RolesFit
    <2> QED BY <1>1, <1>2, <1>4, <2>1, GoEffect, RolesUpdate
  <1>5. ASSUME NEW p \in Publishers, End(p) PROVE WorkOK' /\ RolesFit'
    <2>1. WorkOK' /\ work'[p].at = "idle"
          /\ \A q \in Publishers \ {p}: work'[q] = work[q]
      BY <1>1, <1>5, EndEffect, NoWorkType
    <2> QED BY <1>1, <2>1, RolesUpdate
  <1>6. ASSUME NEW ts \in {Telemetry, Storm}, Take(ts), work[Sync].at # "idle"
        PROVE  WorkOK' /\ RolesFit'
    <2>1. work[Sync].cfg \in Configs
      BY <1>1, <1>2, <1>6 DEF RolesFit
    <2> QED BY <1>1, <1>2, <1>6, <2>1, TakeEffect, RolesUpdate
  <1>7. CASE ClientStep
    <2>1. CASE SyncDisabled
      BY <1>3, <2>1 DEF SyncDisabled
    <2>2. CASE EnsureClient
      <3>1. cfg \in Configs
        BY <1>1 DEF OutsideOK
      <3> QED BY <1>1, <1>2, <2>2, <3>1, EnsureEffect, RolesUpdate
    <2>3. CASE ReplaceClient
      <3>1. work[Sync].cfg \in Configs
        BY <1>1, <1>2, <2>3 DEF RolesFit, ReplaceClient
      <3> QED BY <1>1, <1>2, <2>3, <3>1, ReplaceEffect, RolesUpdate
    <2>4. CASE ConnectFails \/ CheckStalled
      BY <1>4, <2>4 DEF ConnectFails, CheckStalled, Down, Ats
    <2>5. CASE Check
      <3>1. Go(Sync, "discovery") \/ Go(Sync, "error") \/ Take(Telemetry)
        BY <2>5 DEF Check
      <3> QED BY <1>4, <1>6, <2>5, <3>1 DEF Check, Ats
    <2>6. CASE CheckDown \/ Reset \/ RecordError
      BY <1>2, <1>5, <2>6 DEF CheckDown, Reset, RecordError
    <2> QED BY <1>7, <2>1, <2>2, <2>3, <2>4, <2>5, <2>6 DEF ClientStep
  <1>8. ASSUME NEW p \in Publishers, PublisherStep(p)
        PROVE  WorkOK' /\ RolesFit'
    <2>1. ASSUME NEW t, Publishes(p, t) PROVE WorkOK' /\ RolesFit'
      <3>1. work[p].cfg \in Configs /\ (p # Sync => t \in Topics)
        BY <2>1 DEF Publishes
      <3>2. \/ work'[p].at = "note" /\ work'[p].cfg \in Configs
               /\ work'[p].topic = t
            \/ work'[p].at = "error" /\ work'[p].cfg \in Configs /\ p = Sync
            \/ work'[p].at = "idle"
        BY <2>1, <3>1, PublishFrame, NoWorkType
      <3> QED BY <1>1, <2>1, <3>1, <3>2, PublishFrame, RolesUpdate
    <2>2. CASE PublishedAll(p)
      <3>1. (Take(Storm) /\ work[p].at = "telemetry") \/ End(p)
        BY <2>2 DEF PublishedAll
      <3>2. work[p].at = "telemetry" => p = Sync
        BY <1>1, <1>2 DEF RolesFit
      <3> QED BY <1>5, <1>6, <3>1, <3>2
    <2>3. CASE Note(p)
      <3>1. work[p].cfg \in Configs
        BY <1>1, <2>3 DEF RolesFit, Note, Noting
      <3>2. \/ work'[p].at = "idle"
            \/ /\ work'[p].at \in {"telemetry", "storm"}
               /\ p # Sync => work'[p].at = "storm"
               /\ work'[p].cfg \in Configs
        BY <2>3, <3>1, NoteEffect, NoWorkType
      <3> QED BY <1>1, <2>3, <3>2, NoteEffect, RolesUpdate
    <2> QED BY <1>8, <2>1, <2>2, <2>3 DEF PublisherStep
  <1>9. ASSUME NEW h \in Handlers, Command(h) \/ Written(h)
        PROVE  WorkOK' /\ RolesFit'
    <2>1. cfg \in Configs /\ h \in Publishers /\ h # Sync
      BY <1>1, <1>2 DEF OutsideOK
    <2> QED BY <1>1, <1>9, <2>1, CommandEffect, RolesUpdate
  <1>10. ASSUME NEW c \in Clients, LibraryStep(c) PROVE WorkOK' /\ RolesFit'
    BY <1>3, <1>10 DEF LibraryStep, Connects, Reconnects, Opens,
       OnConnectionLost, OnConnect, ResetAfterSubscribe
  <1>11. CASE UpdateConfig \/ UpdateStore \/ UNCHANGED vars
    BY <1>3, <1>11 DEF UpdateConfig, UpdateStore, vars
  <1> QED BY <1>7, <1>8, <1>9, <1>10, <1>11, Steps


\* The types of everything else.
LEMMA NextOutside == TypeInv /\ [Next]_vars => OutsideOK' /\ HistoryOK'
  <1> SUFFICES ASSUME TypeInv, [Next]_vars PROVE OutsideOK' /\ HistoryOK'
    OBVIOUS
  <1>1. OutsideOK /\ HistoryOK /\ WorkOK /\ ServiceOK
    BY DEF TypeInv, MqttTypeOK
  <1>2. load.faults \in Nat /\ load.topics \subseteq Topics
    BY <1>1 DEF OutsideOK
  <1>3. ASSUME UNCHANGED <<load, left, cfg, store, broker, entities, updates>>,
               Fault \/ UNCHANGED faults
        PROVE  OutsideOK'
    BY <1>1, <1>2, <1>3 DEF OutsideOK, Fault
  <1>4. ASSUME UNCHANGED history PROVE HistoryOK'
    BY <1>1, <1>4 DEF HistoryOK, history
  <1>5. ASSUME NEW c, ResetClient(c), UNCHANGED orphans PROVE HistoryOK'
    BY <1>1, <1>5, DropHistory DEF ResetClient, HistoryOK
  <1>6. CASE ClientStep
    <2>1. OutsideOK'
      BY <1>3, <1>6 DEF ClientStep, SyncDisabled, EnsureClient, ReplaceClient,
         ConnectFails, Check, CheckDown, CheckStalled, Reset, RecordError,
         bounds
    <2>2. CASE SyncDisabled
      <3>1. orphans' \subseteq Clients
        BY <1>1, <2>2 DEF SyncDisabled, ServiceOK, HistoryOK
      <3> QED BY <1>1, <2>1, <2>2, <3>1, DropHistory DEF SyncDisabled
    <2>3. CASE EnsureClient
      <3>1. UNCHANGED orphans
        BY <2>3 DEF EnsureClient
      <3> QED BY <1>1, <2>1, <2>3, <3>1, EnsureEffect, DropHistory DEF HistoryOK
    <2>4. CASE ReplaceClient
      <3>1. /\ dirty' = dirty \cup {p \in Publishers: Noting(p)} /\ doubt' = {}
            /\ UNCHANGED orphans
        BY <2>4 DEF ReplaceClient
      <3> QED BY <1>1, <2>1, <3>1 DEF HistoryOK
    <2>5. CASE ConnectFails \/ Check \/ CheckDown \/ CheckStalled
      BY <1>4, <2>1, <2>5 DEF ConnectFails, Check, CheckDown, CheckStalled
    <2>6. CASE Reset
      BY <1>5, <2>1, <2>6 DEF Reset
    <2>7. CASE RecordError
      BY <1>1, <2>1, <2>7, DropHistory DEF RecordError, HistoryOK
    <2> QED BY <1>6, <2>2, <2>3, <2>4, <2>5, <2>6, <2>7 DEF ClientStep
  <1>7. ASSUME NEW p \in Publishers, PublisherStep(p)
        PROVE  OutsideOK' /\ HistoryOK'
    <2>1. CASE \E t \in Topics \cup {Discovery}: Publishes(p, t)
      BY <2>1, PublishOutside
    <2>2. CASE PublishedAll(p)
      BY <1>3, <1>4, <2>2 DEF PublishedAll, bounds
    <2>3. CASE Note(p)
      <3>1. OutsideOK'
        BY <1>3, <2>3 DEF Note, bounds
      <3>2. /\ work[p].cfg \in Configs
            /\ work[p].topic \in Topics \cup {Discovery}
        BY <1>1, <2>3, WorkFields DEF Note, Noting, TypeInv, RolesFit
      <3>3. <<work[p].cfg.place, work[p].topic>>
                \in Places \X (Topics \cup {Discovery})
        BY <3>2 DEF Configs
      <3>4. /\ UNCHANGED orphans /\ dirty' = dirty \ {p}
            /\ doubt' \subseteq doubt \cup {<<work[p].cfg.place, work[p].topic>>}
        BY <2>3 DEF Note
      <3>5. doubt' \subseteq Places \X (Topics \cup {Discovery})
        BY <1>1, <3>3, <3>4 DEF HistoryOK
      <3> QED BY <1>1, <3>1, <3>4, <3>5 DEF HistoryOK
    <2> QED BY <1>7, <2>1, <2>2, <2>3 DEF PublisherStep
  <1>8. ASSUME UNCHANGED <<load, left, cfg, broker, entities, faults, history>>,
               NEW t \in Topics, NEW v \in Values,
               store' = [store EXCEPT ![t] = v],
               updates < MaxUpdates, updates' = updates + 1
        PROVE  OutsideOK' /\ HistoryOK'
    <2>1. store' \in [Topics -> Values] /\ updates' \in 0 .. MaxUpdates
      BY <1>1, <1>8 DEF OutsideOK
    <2> QED BY <1>1, <1>4, <1>8, <2>1 DEF OutsideOK
  <1>9. ASSUME NEW h \in Handlers, Command(h) \/ Written(h)
        PROVE  OutsideOK' /\ HistoryOK'
    <2>1. CASE Command(h)
      <3>1. PICK t \in Topics, v \in Values: store' = [store EXCEPT ![t] = v]
        BY <1>2, <2>1 DEF Command
      <3> QED BY <1>8, <2>1, <3>1 DEF Command
    <2>2. CASE Written(h)
      BY <1>3, <1>4, <2>2 DEF Written, bounds
    <2> QED BY <1>9, <2>1, <2>2
  <1>10. ASSUME NEW c \in Clients, LibraryStep(c)
         PROVE  OutsideOK' /\ HistoryOK'
    <2>1. OutsideOK'
      BY <1>3, <1>10 DEF LibraryStep, Connects, Reconnects, Opens,
         OnConnectionLost, OnConnect, ResetAfterSubscribe, bounds
    <2>2. HistoryOK'
      BY <1>4, <1>5, <1>10 DEF LibraryStep, Connects, Reconnects, Opens,
         OnConnectionLost, OnConnect, ResetAfterSubscribe
    <2> QED BY <2>1, <2>2
  <1>11. CASE UpdateConfig
    <2>1. left \in Seq(Configs) /\ left # <<>>
      BY <1>1, <1>11 DEF UpdateConfig, OutsideOK
    <2>2. cfg' \in Configs /\ left' \in Seq(Configs)
      BY <1>11, <2>1 DEF UpdateConfig
    <2> QED BY <1>1, <1>4, <1>11, <2>2 DEF UpdateConfig, OutsideOK
  <1>12. CASE UpdateStore
    <2>1. PICK t \in Topics, v \in Values: store' = [store EXCEPT ![t] = v]
      BY <1>2, <1>12 DEF UpdateStore
    <2> QED BY <1>8, <1>12, <2>1 DEF UpdateStore
  <1>13. CASE UNCHANGED vars
    BY <1>3, <1>4, <1>13 DEF vars, bounds
  <1> QED BY <1>6, <1>7, <1>9, <1>10, <1>11, <1>12, <1>13, Steps

\* The service starts without a client.
LEMMA InitTypeInv == Init => TypeInv
  <1> SUFFICES ASSUME Init PROVE TypeInv
    OBVIOUS
  <1>1. Nowhere \in [Places -> [Topics -> Values \cup {NoVal}]]
    BY DEF Nowhere
  <1>2. ServiceOK /\ LibraryOK
    BY <1>1 DEF Init, ServiceOK, LibraryOK
  <1>3. WorkOK /\ RolesFit
    BY NoWorkType DEF Init, WorkOK, RolesFit, Publishers
  <1>4. load \in Loads /\ load.configs \in Seq(Configs) /\ load.configs # <<>>
        /\ load.faults \in Nat
    BY DEF Init
  <1>5. cfg \in Configs /\ left \in Seq(Configs)
    BY <1>4 DEF Init
  <1>6. store \in [Topics -> Values]
    BY DEF Init
  <1>7. OutsideOK /\ HistoryOK
    BY <1>1, <1>4, <1>5, <1>6 DEF Init, OutsideOK, HistoryOK
  <1> QED BY <1>2, <1>3, <1>7 DEF TypeInv, MqttTypeOK

\* Types and roles are kept.
LEMMA NextTypeInv == TypeInv /\ [Next]_vars => TypeInv'
  BY NextService, NextLibrary, NextWork, NextOutside DEF TypeInv, MqttTypeOK

\* Every variable of the service keeps its type, a client in use has the
\* configuration of the key, and there is a key exactly when there is a client.
THEOREM TypeCorrect == Spec => []MqttTypeOK
  <1>1. TypeInv => MqttTypeOK
    BY DEF TypeInv
  <1> QED BY <1>1, InitTypeInv, NextTypeInv, PTL DEF Spec


---------------------------------------------------------------------------
(* The sync loop and its client.                                           *)

\* What Drop leaves.
LEMMA DropEffect ==
    ASSUME NEW since, Drop(since)
    PROVE  client' = NoClient /\ key' = NoKey /\ discoveryKey' = NoKey
  BY DEF Drop

\* Every step keeps the sync loop and the client in step.
LEMMA NextSync ==
    ASSUME TypeInv, SyncFits, [Next]_vars PROVE SyncFits'
  <1>1. Sync \in Publishers /\ Handlers = Publishers \ {Sync}
    BY DEF Publishers
  <1>2. WorkOK /\ OutsideOK /\ RolesFit
    BY DEF TypeInv, MqttTypeOK
  <1>3. work[Sync].at \notin {"idle", "written"} => MqttKey(work[Sync].cfg) # NoKey
    BY <1>1, <1>2 DEF RolesFit, MqttKey, Configs, Key
  <1>4. ASSUME work'[Sync] = work[Sync],
               \/ UNCHANGED <<client, key, discoveryKey>>
               \/ client' = NoClient /\ discoveryKey' = NoKey
        PROVE  SyncFits'
    BY <1>3, <1>4 DEF SyncFits
  <1>5. ASSUME work'[Sync].cfg = work[Sync].cfg,
               work[Sync].at \notin {"idle", "replace"},
               work'[Sync].at \notin {"idle", "replace", "discovery"},
               UNCHANGED <<client, key>>
        PROVE  SyncFits'
    BY <1>5 DEF SyncFits
  <1>6. ASSUME work'[Sync].at = "idle" PROVE SyncFits'
    BY <1>6 DEF SyncFits
  <1>7. ASSUME End(Sync) PROVE SyncFits'
    BY <1>1, <1>2, <1>6, <1>7, EndEffect, NoWorkType
  <1>8. ASSUME NEW ts \in {Telemetry, Storm}, Take(ts),
               work[Sync].at \notin {"idle", "replace"}, UNCHANGED <<client, key>>
        PROVE  SyncFits'
    BY <1>2, <1>5, <1>8, TakeEffect
  <1>9. CASE ClientStep
    <2>1. CASE SyncDisabled
      BY <1>4, <2>1, DropEffect DEF SyncDisabled
    <2>2. CASE EnsureClient
      <3>1. CASE UNCHANGED service /\ key = MqttKey(cfg)
                 /\ work'[Sync].at = "check"
        BY <2>2, <3>1, EnsureEffect DEF SyncFits, service
      <3>2. CASE work'[Sync].at = "replace" /\ Drop("zero")
        BY <3>2, DropEffect DEF SyncFits
      <3> QED BY <2>2, <3>1, <3>2, EnsureEffect
    <2>3. CASE ReplaceClient
      <3>1. key' = MqttKey(work[Sync].cfg)
        BY <2>3 DEF ReplaceClient
      <3> QED BY <2>3, <3>1, ReplaceEffect DEF SyncFits
    <2>4. CASE ConnectFails \/ CheckStalled
      <3>1. /\ Go(Sync, "reset") /\ work[Sync].at = "check"
            /\ UNCHANGED <<client, key>>
        BY <2>4 DEF ConnectFails, CheckStalled, Down, service
      <3>2. work'[Sync].at = "reset" /\ work'[Sync].cfg = work[Sync].cfg
        BY <1>1, <1>2, <3>1, GoEffect DEF Ats
      <3> QED BY <1>5, <3>1, <3>2
    <2>5. CASE Check
      <3>1. work[Sync].at = "check" /\ UNCHANGED <<client, key, discoveryKey>>
        BY <2>5 DEF Check, service
      <3>2. CASE Take(Telemetry)
        BY <1>8, <3>1, <3>2
      <3>3. CASE Go(Sync, "error")
        <4>1. work'[Sync].at = "error" /\ work'[Sync].cfg = work[Sync].cfg
          BY <1>1, <1>2, <3>3, GoEffect DEF Ats
        <4> QED BY <1>5, <3>1, <4>1
      <3>4. CASE /\ Go(Sync, "discovery")
                 /\ discoveryKey # MqttKey(work[Sync].cfg)
        <4>1. work'[Sync].at = "discovery" /\ work'[Sync].cfg = work[Sync].cfg
          BY <1>1, <1>2, <3>4, GoEffect DEF Ats
        <4> QED BY <3>1, <3>4, <4>1 DEF SyncFits
      <3> QED BY <2>5, <3>2, <3>3, <3>4 DEF Check
    <2>6. CASE CheckDown \/ Reset \/ RecordError
      BY <1>7, <2>6 DEF CheckDown, Reset, RecordError
    <2> QED BY <1>9, <2>1, <2>2, <2>3, <2>4, <2>5, <2>6 DEF ClientStep
  <1>10. ASSUME NEW p \in Publishers, PublisherStep(p) PROVE SyncFits'
    <2>1. ASSUME NEW t, Publishes(p, t) PROVE SyncFits'
      <3>1. /\ UNCHANGED <<client, key, discoveryKey>>
            /\ work[p].at \notin {"idle", "replace"}
        BY <2>1, PublishFrame DEF service, Publishes
      <3>2. CASE p = Sync
        BY <1>5, <2>1, <3>1, <3>2, PublishFrame
      <3>3. CASE p # Sync
        BY <1>1, <1>4, <2>1, <3>1, <3>3, PublishFrame
      <3> QED BY <3>2, <3>3
    <2>2. CASE PublishedAll(p)
      <3>1. UNCHANGED <<client, key, discoveryKey>>
        BY <2>2 DEF PublishedAll
      <3>2. (Take(Storm) /\ work[p].at = "telemetry") \/ End(p)
        BY <2>2 DEF PublishedAll
      <3>3. work[p].at = "telemetry" => p = Sync
        BY <1>1, <1>2 DEF RolesFit
      <3>4. CASE End(p) /\ p # Sync
        BY <1>1, <1>2, <1>4, <3>1, <3>4, EndEffect
      <3> QED BY <1>7, <1>8, <3>1, <3>2, <3>3, <3>4
    <2>3. CASE Note(p)
      <3>1. UNCHANGED <<client, key>> /\ work[p].at = "note"
        BY <2>3 DEF Note, Noting
      <3>2. CASE p = Sync
        BY <1>5, <2>3, <3>1, <3>2, NoteEffect
      <3>3. CASE p # Sync
        <4>1. UNCHANGED discoveryKey
          BY <2>3, <3>3, NoteEffect DEF Note
        <4> QED BY <1>1, <1>4, <2>3, <3>1, <3>3, <4>1, NoteEffect
      <3> QED BY <3>2, <3>3
    <2> QED BY <1>10, <2>1, <2>2, <2>3 DEF PublisherStep
  <1>11. ASSUME NEW h \in Handlers, Command(h) \/ Written(h) PROVE SyncFits'
    <2>1. work'[Sync] = work[Sync]
      BY <1>1, <1>11, CommandEffect
    <2> QED BY <1>4, <1>11, <2>1 DEF Command, Written, service
  <1>12. ASSUME NEW c \in Clients, LibraryStep(c) PROVE SyncFits'
    <2>1. \/ UNCHANGED <<client, key, discoveryKey>>
          \/ client' = NoClient /\ discoveryKey' = NoKey
      BY <1>12, DropEffect DEF LibraryStep, Connects, Reconnects, Opens,
         OnConnectionLost, OnConnect, ResetAfterSubscribe, ResetClient, service
    <2>2. UNCHANGED work
      BY <1>12 DEF LibraryStep, Connects, Reconnects, Opens, OnConnectionLost,
         OnConnect, ResetAfterSubscribe
    <2> QED BY <1>4, <2>1, <2>2
  <1>13. CASE UpdateConfig \/ UpdateStore \/ UNCHANGED vars
    BY <1>4, <1>13 DEF UpdateConfig, UpdateStore, vars, service
  <1> QED BY <1>9, <1>10, <1>11, <1>12, <1>13, Steps

\* The sync loop and its client are always in step.
LEMMA SyncInvariant == Spec => [](TypeInv /\ SyncFits)
  <1>1. Init => SyncFits
    BY NoWorkType DEF Init, SyncFits, Publishers
  <1>2. TypeInv /\ SyncFits /\ [Next]_vars => SyncFits'
    BY NextSync
  <1> QED BY <1>1, <1>2, InitTypeInv, NextTypeInv, PTL DEF Spec

\* A client that works is given up only for another configuration.
THEOREM NoClientIsResetNeedlessly == Spec => NoNeedlessReset
  <1>1. TypeInv /\ SyncFits /\ [Next]_vars =>
            [Healthy /\ client' # client =>
                \/ ~cfg.enabled \/ MqttKey(cfg) # key
                \/ work[Sync].at = "reset"]_vars
    <2> SUFFICES ASSUME TypeInv, SyncFits, [Next]_vars, Healthy,
                        client' # client
                 PROVE  \/ ~cfg.enabled \/ MqttKey(cfg) # key
                        \/ work[Sync].at = "reset"
      OBVIOUS
    <2>1. /\ client # NoClient /\ client \notin resetting
          /\ unhealthySince # "set"
      BY DEF Healthy, Link
    <2>2. CASE ClientStep
      <3>1. ~ReplaceClient /\ ~RecordError
        BY <2>1 DEF ReplaceClient, RecordError, SyncFits
      <3>2. ~(ConnectFails \/ Check \/ CheckDown \/ CheckStalled)
        BY DEF ConnectFails, Check, CheckDown, CheckStalled, service
      <3>3. CASE EnsureClient
        BY <2>1, <3>3, EnsureEffect DEF service
      <3>4. CASE SyncDisabled \/ Reset
        BY <3>4 DEF SyncDisabled, Reset
      <3> QED BY <2>2, <3>1, <3>2, <3>3, <3>4 DEF ClientStep
    <2>3. ASSUME NEW p \in Publishers, PublisherStep(p) PROVE FALSE
      BY <2>3, PublishFrame DEF PublisherStep, PublishedAll, Note, service
    <2>4. ASSUME NEW h \in Handlers, Command(h) \/ Written(h) PROVE FALSE
      BY <2>4 DEF Command, Written, service
    <2>5. ASSUME NEW c \in Clients, LibraryStep(c) PROVE FALSE
      BY <2>1, <2>5 DEF LibraryStep, Connects, Reconnects, Opens,
         OnConnectionLost, OnConnect, ResetAfterSubscribe, ResetClient, service
    <2>6. ~(UpdateConfig \/ UpdateStore \/ UNCHANGED vars)
      BY DEF UpdateConfig, UpdateStore, vars, service
    <2> QED BY <2>2, <2>3, <2>4, <2>5, <2>6, Steps
  <1> QED BY <1>1, SyncInvariant, PTL DEF Spec, NoNeedlessReset


---------------------------------------------------------------------------
(* No client is left behind.                                               *)

\* Every step keeps NoStrayClient: whoever gives a client up stops it, or has
\* someone stop it, or is disconnect().
LEMMA NextStray ==
    ASSUME TypeInv, SyncFits, NoStrayClient, [Next]_vars PROVE NoStrayClient'
  <1>1. Sync \in Publishers /\ Handlers = Publishers \ {Sync}
    BY DEF Publishers
  <1>2. WorkOK /\ LibraryOK /\ ServiceOK /\ RolesFit /\ OutsideOK
    BY DEF TypeInv, MqttTypeOK
  <1> DEFINE Kept(c) == \/ c = client
                        \/ c \in resetting \cup orphans
                        \/ c = work[Sync].cl
                           /\ work[Sync].at \in {"replace", "reset"}
  <1>3. \A c \in Clients: Alive(c) => Kept(c)
    BY DEF NoStrayClient
  <1>4. SUFFICES ASSUME NEW c \in Clients, Alive(c)' PROVE Kept(c)'
    BY DEF NoStrayClient, Alive
  <1>5. ASSUME UNCHANGED <<client, conn, resetting, orphans>>,
               \/ work'[Sync] = work[Sync]
               \/ work[Sync].at \notin {"replace", "reset"}
        PROVE  Kept(c)'
    BY <1>3, <1>4, <1>5 DEF Alive
  <1>6. ASSUME UNCHANGED <<client, resetting, orphans>>, Alive(c),
               \/ work'[Sync] = work[Sync]
               \/ work[Sync].at \notin {"replace", "reset"}
        PROVE  Kept(c)'
    BY <1>3, <1>6
  <1>7. CASE ClientStep
    <2>1. CASE SyncDisabled
      <3>1. /\ conn' = [d \in Clients |-> IF d = client /\ conn[d] = "open"
                                          THEN "closed" ELSE conn[d]]
            /\ orphans' = orphans \cup
                    {d \in {client} \ {NoClient}: conn[d] # "open"}
            /\ work[Sync].at = "idle" /\ UNCHANGED resetting
        BY <2>1 DEF SyncDisabled
      <3>2. Alive(c) /\ ~(c = client /\ conn[c] = "open")
        BY <1>4, <3>1 DEF Alive
      <3>3. c # NoClient
        BY DEF Clients, NoClient
      <3> QED BY <1>3, <3>1, <3>2, <3>3
    <2>2. CASE EnsureClient
      <3>1. work[Sync].at = "idle" /\ UNCHANGED <<conn, resetting, orphans>>
        BY <2>2 DEF EnsureClient, library
      <3>2. c = client \/ c \in resetting \cup orphans
        BY <1>3, <1>4, <3>1 DEF Alive
      <3>3. \/ UNCHANGED client
            \/ work'[Sync].cl = client /\ work'[Sync].at = "replace"
        BY <2>2, EnsureEffect DEF service
      <3> QED BY <3>1, <3>2, <3>3
    <2>3. CASE ReplaceClient
      <3>1. /\ UNCHANGED <<resetting, orphans>> /\ client = NoClient
            /\ work[Sync].at = "replace"
        BY <2>3 DEF ReplaceClient, SyncFits
      <3>2. c = client' \/ (Alive(c) /\ c # work[Sync].cl)
        BY <1>4, <2>3, ReplaceEffect DEF Alive
      <3>3. c # NoClient
        BY DEF Clients, NoClient
      <3> QED BY <1>3, <3>1, <3>2, <3>3
    <2>4. CASE ConnectFails
      <3>1. /\ work[Sync].at = "check" /\ conn[work[Sync].cl] = "connecting"
            /\ UNCHANGED <<client, resetting, orphans>>
        BY <2>4 DEF ConnectFails, service, history
      <3>2. Alive(c)
        BY <1>2, <1>4, <2>4, <3>1 DEF ConnectFails, Alive, LibraryOK
      <3> QED BY <1>6, <3>1, <3>2
    <2>5. CASE Check \/ CheckDown \/ CheckStalled
      <3>1. /\ work[Sync].at = "check"
            /\ UNCHANGED <<client, conn, resetting, orphans>>
        BY <2>5 DEF Check, CheckDown, CheckStalled, Down, service, library,
           history
      <3> QED BY <1>5, <3>1
    <2>6. CASE Reset
      <3>1. /\ conn' = [conn EXCEPT ![work[Sync].cl] = "closed"]
            /\ client' = client \/ client = work[Sync].cl
            /\ UNCHANGED <<resetting, orphans>>
        BY <2>6 DEF Reset, ResetClient, service
      <3>2. Alive(c) /\ c # work[Sync].cl
        BY <1>2, <1>4, <3>1 DEF Alive, LibraryOK
      <3> QED BY <1>3, <3>1, <3>2
    <2>7. CASE RecordError
      <3>1. work[Sync].at = "error" /\ UNCHANGED <<resetting, orphans>>
        BY <2>7 DEF RecordError
      <3>2. CASE UNCHANGED <<client, conn>>
        BY <1>5, <3>1, <3>2
      <3>3. CASE conn' = [d \in Clients |->
                            IF d = client THEN "closed" ELSE conn[d]]
        <4>1. Alive(c) /\ c # client
          BY <1>4, <3>3 DEF Alive
        <4> QED BY <1>3, <3>1, <4>1
      <3> QED BY <2>7, <3>2, <3>3 DEF RecordError
    <2> QED BY <1>7, <2>1, <2>2, <2>3, <2>4, <2>5, <2>6, <2>7 DEF ClientStep
  <1>8. ASSUME NEW p \in Publishers, PublisherStep(p) PROVE Kept(c)'
    <2>1. UNCHANGED <<client, conn, resetting, orphans>>
      BY <1>8, PublishFrame DEF PublisherStep, PublishedAll, Note, service,
         library, history
    <2>2. work[p].at \notin {"replace", "reset"}
      BY <1>8 DEF PublisherStep, PublishedAll, Note, Noting, Publishes
    <2>3. p = Sync \/ work'[Sync] = work[Sync]
      <3>1. CASE PublishedAll(p) /\ p # Sync
        <4>1. work[p].at # "telemetry"
          BY <1>1, <1>2, <3>1 DEF RolesFit
        <4>2. End(p)
          BY <3>1, <4>1 DEF PublishedAll
        <4> QED BY <1>1, <1>2, <3>1, <4>2, EndEffect
      <3> QED BY <1>1, <1>8, <3>1, PublishFrame, NoteEffect DEF PublisherStep
    <2> QED BY <1>5, <2>1, <2>2, <2>3
  <1>9. ASSUME NEW h \in Handlers, Command(h) \/ Written(h) PROVE Kept(c)'
    <2>1. work'[Sync] = work[Sync]
      BY <1>1, <1>9, CommandEffect
    <2> QED BY <1>5, <1>9, <2>1 DEF Command, Written, service, library, history
  <1>10. ASSUME NEW d \in Clients, LibraryStep(d) PROVE Kept(c)'
    <2>1. UNCHANGED <<work, orphans>>
      BY <1>10 DEF LibraryStep, Connects, Reconnects, Opens, OnConnectionLost,
         OnConnect, ResetAfterSubscribe, history
    <2>2. CASE Connects(d) \/ Reconnects(d) \/ OnConnectionLost(d)
      <3>1. Alive(c) /\ UNCHANGED <<client, resetting>>
        BY <1>2, <1>4, <2>2 DEF Connects, Reconnects, Opens, OnConnectionLost,
           Alive, LibraryOK, service
      <3> QED BY <1>6, <2>1, <3>1
    <2>3. CASE OnConnect(d)
      <3>1. UNCHANGED <<client, conn>> /\ resetting \subseteq resetting'
        BY <2>3 DEF OnConnect
      <3> QED BY <1>3, <1>4, <2>1, <3>1 DEF Alive
    <2>4. CASE ResetAfterSubscribe(d)
      <3>1. /\ conn' = [conn EXCEPT ![d] = "closed"]
            /\ client' = client \/ client = d
            /\ resetting' = resetting \ {d}
        BY <2>4 DEF ResetAfterSubscribe, ResetClient, service
      <3>2. Alive(c) /\ c # d
        BY <1>2, <1>4, <3>1 DEF Alive, LibraryOK
      <3> QED BY <1>3, <2>1, <3>1, <3>2
    <2> QED BY <1>10, <2>2, <2>3, <2>4 DEF LibraryStep
  <1>11. CASE UpdateConfig \/ UpdateStore \/ UNCHANGED vars
    BY <1>5, <1>11 DEF UpdateConfig, UpdateStore, vars, service, library, history
  <1> QED BY <1>7, <1>8, <1>9, <1>10, <1>11, Steps

\* Every client that holds a connection or tries to get one is in use, is about
\* to be stopped, or was left by disconnect() while it was down.
THEOREM NoClientIsLeftBehind == Spec => []NoStrayClient
  <1>1. Init => NoStrayClient
    BY DEF Init, NoStrayClient, Alive
  <1>2. TypeInv /\ SyncFits /\ NoStrayClient /\ [Next]_vars => NoStrayClient'
    BY NextStray
  <1> QED BY <1>1, <1>2, SyncInvariant, PTL DEF Spec


---------------------------------------------------------------------------
(* Discovery.                                                              *)

\* What was announced at a place changes only when the sync loop announces.
LEMMA EntitiesFrame ==
    ASSUME TypeInv, [Next]_vars, entities' # entities
    PROVE  /\ Publishes(Sync, Discovery)
           /\ work[Sync].at = "discovery"
  <1>1. ASSUME NEW p \in Publishers, NEW t, Publishes(p, t)
        PROVE  p = Sync /\ t = Discovery
    <2>1. PICK n \in 1 .. 3: Lands(p, t, n)
      BY <1>1, PublishArrives
    <2> QED BY <1>1, <2>1 DEF Lands, Publishes
  <1>2. \A p \in Publishers: ~PublishedAll(p) /\ ~Note(p)
    BY DEF PublishedAll, Note
  <1>3. ~ClientStep
    BY DEF ClientStep, SyncDisabled, EnsureClient, ReplaceClient, ConnectFails,
       Check, CheckDown, CheckStalled, Reset, RecordError
  <1>4. \A h \in Handlers: ~Command(h) /\ ~Written(h)
    BY DEF Command, Written
  <1>5. \A c \in Clients: ~LibraryStep(c)
    BY DEF LibraryStep, Connects, Reconnects, Opens, OnConnectionLost, OnConnect,
       ResetAfterSubscribe
  <1>6. ~(UpdateConfig \/ UpdateStore \/ UNCHANGED vars)
    BY DEF UpdateConfig, UpdateStore, vars
  <1>7. Publishes(Sync, Discovery)
    BY <1>1, <1>2, <1>3, <1>4, <1>5, <1>6, Steps DEF PublisherStep
  <1> QED BY <1>7 DEF Publishes

\* A message that waits to be noted stays as it is until it is noted, and
\* dirty if it was.
LEMMA NotingFrame ==
    ASSUME TypeInv, [Next]_vars, NEW p \in Publishers, Noting(p), ~Note(p)
    PROVE  /\ work'[p] = work[p]
           /\ p \in dirty => p \in dirty'
  <1>1. WorkOK /\ RolesFit
    BY DEF TypeInv, MqttTypeOK
  <1>2. Sync \in Publishers /\ Handlers = Publishers \ {Sync}
    BY DEF Publishers
  <1>3. work[p].at = "note"
    BY DEF Noting
  <1>4. CASE ClientStep
    <2>1. CASE p = Sync
      <3>1. FALSE
        BY <1>3, <1>4, <2>1 DEF ClientStep, SyncDisabled, EnsureClient,
           ReplaceClient, ConnectFails, Check, CheckDown, CheckStalled, Down,
           Reset, RecordError
      <3> QED BY <3>1
    <2>2. CASE p # Sync
      <3>1. dirty \subseteq dirty'
        BY <1>4, EnsureEffect DEF ClientStep, SyncDisabled, ReplaceClient,
           ConnectFails, Check, CheckDown, CheckStalled, Reset, ResetClient,
           RecordError, Drop, history
      <3>2. UNCHANGED work \/ \E at: Go(Sync, at) \/ End(Sync)
            \/ Take(Telemetry) \/ EnsureClient \/ ReplaceClient
        BY <1>4 DEF ClientStep, SyncDisabled, ConnectFails, Check, CheckDown,
           CheckStalled, Reset, RecordError
      <3>3. work'[p] = work[p]
        BY <1>1, <1>2, <2>2, <3>2, EnsureEffect, ReplaceEffect
           DEF Go, End, Take, WorkOK
      <3> QED BY <3>1, <3>3
    <2> QED BY <2>1, <2>2
  <1>5. ASSUME NEW q \in Publishers, PublisherStep(q)
        PROVE  work'[p] = work[p] /\ (p \in dirty => p \in dirty')
    <2>1. CASE \E t \in Topics \cup {Discovery}: Publishes(q, t)
      <3>1. PICK t \in Topics \cup {Discovery}: Publishes(q, t)
        BY <2>1
      <3>2. q # p
        BY <1>3, <3>1 DEF Publishes
      <3> QED BY <3>1, <3>2, PublishFrame, PublishArrives
    <2>2. CASE PublishedAll(q)
      <3>1. q # p /\ UNCHANGED dirty
        BY <1>3, <2>2 DEF PublishedAll, history
      <3>2. work[q].at = "telemetry" => q = Sync
        BY <1>1, <1>2 DEF RolesFit
      <3>3. (q = Sync /\ Take(Storm)) \/ End(q)
        BY <2>2, <3>2 DEF PublishedAll
      <3> QED BY <1>1, <3>1, <3>3 DEF Take, End, WorkOK
    <2>3. CASE Note(q)
      <3>1. q # p /\ dirty' = dirty \ {q}
        BY <2>3 DEF Note
      <3> QED BY <2>3, <3>1, NoteEffect
    <2> QED BY <1>5, <2>1, <2>2, <2>3 DEF PublisherStep
  <1>6. ASSUME NEW h \in Handlers, Command(h) \/ Written(h)
        PROVE  work'[p] = work[p] /\ UNCHANGED dirty
    <2>1. h # p /\ UNCHANGED dirty
      BY <1>3, <1>6 DEF Command, Written, history
    <2> QED BY <1>6, <2>1, CommandEffect
  <1>7. ASSUME NEW c \in Clients, LibraryStep(c)
        PROVE  UNCHANGED work /\ dirty \subseteq dirty'
    BY <1>7 DEF LibraryStep, Connects, Reconnects, Opens, OnConnectionLost,
       OnConnect, ResetAfterSubscribe, ResetClient, Drop, history
  <1>8. CASE UpdateConfig \/ UpdateStore \/ UNCHANGED vars
    BY <1>8 DEF UpdateConfig, UpdateStore, vars, history
  <1> QED BY <1>4, <1>5, <1>6, <1>7, <1>8, Steps


\* A publisher has something to note only after a publish that succeeded.
LEMMA NotingBegins ==
    ASSUME TypeInv, [Next]_vars, NEW p \in Publishers, ~Noting(p), Noting(p)'
    PROVE  \E t \in Topics \cup {Discovery}: Publishes(p, t)
  <1>1. WorkOK /\ RolesFit /\ OutsideOK
    BY DEF TypeInv, MqttTypeOK
  <1>2. Sync \in Publishers /\ Handlers = Publishers \ {Sync}
    BY DEF Publishers
  <1>3. work'[p].at = "note" /\ work[p].at # "note" /\ work'[p] # work[p]
    BY DEF Noting
  <1>4. ~ClientStep
    <2> SUFFICES ASSUME ClientStep PROVE FALSE
      OBVIOUS
    <2>1. \/ UNCHANGED work \/ EnsureClient \/ ReplaceClient \/ End(Sync)
          \/ Take(Telemetry)
          \/ \E at \in {"reset", "error", "discovery"}: Go(Sync, at)
      BY DEF ClientStep, SyncDisabled, ConnectFails, Check, CheckDown,
         CheckStalled, Reset, RecordError
    <2>2. CASE UNCHANGED work \/ EnsureClient \/ ReplaceClient
      BY <1>2, <1>3, <2>2, EnsureEffect, ReplaceEffect
    <2>3. CASE End(Sync) \/ Take(Telemetry)
      BY <1>1, <1>2, <1>3, <2>3, EndEffect, TakeEffect, NoWorkType
    <2>4. CASE \E at \in {"reset", "error", "discovery"}: Go(Sync, at)
      <3>1. PICK at \in {"reset", "error", "discovery"}: Go(Sync, at)
        BY <2>4
      <3>2. at \in Ats
        BY DEF Ats
      <3> QED BY <1>1, <1>2, <1>3, <3>1, <3>2, GoEffect
    <2> QED BY <2>1, <2>2, <2>3, <2>4
  <1>5. ASSUME NEW q \in Publishers, PublishedAll(q) PROVE FALSE
    <2>1. work[q].at = "telemetry" => q = Sync
      BY <1>1, <1>2 DEF RolesFit
    <2>2. (q = Sync /\ Take(Storm)) \/ End(q)
      BY <1>5, <2>1 DEF PublishedAll
    <2> QED BY <1>1, <1>2, <1>3, <2>2, EndEffect, TakeEffect, NoWorkType
  <1>6. ASSUME NEW q \in Publishers, Note(q) PROVE FALSE
    BY <1>3, <1>6, NoteEffect, NoWorkType
  <1>7. ASSUME NEW q \in Publishers, NEW t, Publishes(q, t) PROVE q = p
    BY <1>3, <1>7, PublishFrame
  <1>8. \A h \in Handlers: ~Command(h) /\ ~Written(h)
    BY <1>2, <1>3, CommandEffect
  <1>9. \A c \in Clients: ~LibraryStep(c)
    BY <1>3 DEF LibraryStep, Connects, Reconnects, Opens, OnConnectionLost,
       OnConnect, ResetAfterSubscribe
  <1>10. ~(UpdateConfig \/ UpdateStore \/ UNCHANGED vars)
    BY <1>3 DEF UpdateConfig, UpdateStore, vars
  <1> QED BY <1>4, <1>5, <1>6, <1>7, <1>8, <1>9, <1>10, Steps DEF PublisherStep

\* How what is under s.mu changes: a client is given up, a new one is made, a
\* message is noted, or not at all.
LEMMA ServiceFrame ==
    ASSUME TypeInv, [Next]_vars
    PROVE  \/ client' = NoClient
           \/ discoveryKey' = NoKey /\ lastPublished' = Nowhere
           \/ \E p \in Publishers: Note(p)
           \/ /\ UNCHANGED <<client, key, discoveryKey, lastPublished>>
              /\ doubt \subseteq doubt'
  <1>1. CASE ClientStep
    <2>1. CASE SyncDisabled \/ Reset \/ RecordError
      BY <2>1, DropEffect DEF SyncDisabled, Reset, RecordError, ResetClient,
         service
    <2>2. CASE EnsureClient
      BY <2>2, DropEffect, EnsureEffect DEF service
    <2>3. CASE ReplaceClient
      BY <2>3 DEF ReplaceClient
    <2>4. CASE ConnectFails \/ Check \/ CheckDown \/ CheckStalled
      BY <2>4 DEF ConnectFails, Check, CheckDown, CheckStalled, service, history
    <2> QED BY <1>1, <2>1, <2>2, <2>3, <2>4 DEF ClientStep
  <1>2. ASSUME NEW p \in Publishers, PublisherStep(p), ~Note(p)
        PROVE  /\ UNCHANGED <<client, key, discoveryKey, lastPublished>>
               /\ doubt \subseteq doubt'
    BY <1>2, PublishFrame, PublishArrives DEF PublisherStep, PublishedAll,
       service, history
  <1>3. ASSUME NEW h \in Handlers, Command(h) \/ Written(h)
        PROVE  UNCHANGED <<service, doubt>>
    BY <1>3 DEF Command, Written, history
  <1>4. ASSUME NEW c \in Clients, LibraryStep(c)
        PROVE  \/ client' = NoClient
               \/ UNCHANGED <<client, key, discoveryKey, lastPublished, doubt>>
    BY <1>4, DropEffect DEF LibraryStep, Connects, Reconnects, Opens,
       OnConnectionLost, OnConnect, ResetAfterSubscribe, ResetClient, service,
       history
  <1>5. CASE UpdateConfig \/ UpdateStore \/ UNCHANGED vars
    BY <1>5 DEF UpdateConfig, UpdateStore, vars, service, history
  <1> QED BY <1>1, <1>2, <1>3, <1>4, <1>5, Steps DEF service

\* What is about to be noted, and is not dirty, has arrived whole.
LEMMA NotedArrives ==
    ASSUME TypeInv, NEW p \in Publishers, NEW t, Publishes(p, t),
           work'[p].at = "note", p \notin dirty'
    PROVE  Lands(p, t, 3)
  <1>1. \E n \in 1 .. 3: Lands(p, t, n) /\ (work'[p].at = "note" => n = 3)
    BY PublishArrives
  <1> QED BY <1>1

\* Every step keeps what discovery promises.
LEMMA NextDiscovery ==
    ASSUME TypeInv, SyncFits, DiscoveryFits, [Next]_vars PROVE DiscoveryFits'
  <1> DEFINE s == work[Sync]
  <1>1. Sync \in Publishers /\ Handlers = Publishers \ {Sync}
    BY DEF Publishers
  <1>2. WorkOK /\ RolesFit /\ OutsideOK /\ ServiceOK
    BY DEF TypeInv, MqttTypeOK
  <1>3. ASSUME NEW p \in Publishers, Note(p)
        PROVE  /\ UNCHANGED <<client, key, entities>>
               /\ \/ /\ p = Sync /\ Noting(Sync) /\ s.topic = Discovery
                     /\ discoveryKey' = MqttKey(s.cfg)
                     /\ Sync \in dirty => <<s.cfg.place, Discovery>> \in doubt'
                  \/ /\ UNCHANGED discoveryKey
                     /\ \A pl \in Places: <<pl, Discovery>> \in doubt =>
                                          <<pl, Discovery>> \in doubt'
    <2>1. work[p].topic = Discovery => p = Sync
      BY <1>3, NoteEffect
    <2> QED BY <1>3, <2>1 DEF Note
  <1>4. Noting(Sync) /\ client # NoClient => key = MqttKey(s.cfg)
    BY DEF SyncFits, Noting
  <1>5. client' # NoClient /\ discoveryKey' # NoKey => discoveryKey' = key'
    BY <1>3, <1>4, ServiceFrame DEF DiscoveryFits
  <1>6. ASSUME Noting(Sync)', s'.topic = Discovery, Sync \notin dirty'
        PROVE  Matches(s'.cfg.profile, entities'[s'.cfg.place])
    <2>1. CASE Noting(Sync) /\ ~Note(Sync)
      <3>1. s' = s /\ Sync \notin dirty
        BY <1>1, <1>6, <2>1, NotingFrame
      <3>2. entities' = entities
        BY <2>1, EntitiesFrame DEF Noting
      <3> QED BY <1>6, <2>1, <3>1, <3>2 DEF DiscoveryFits
    <2>2. ~Note(Sync)
      BY <1>1, <1>6, NoteEffect, NoWorkType DEF Noting
    <2>3. CASE ~Noting(Sync)
      <3>1. PICK t \in Topics \cup {Discovery}: Publishes(Sync, t)
        BY <1>1, <1>6, <2>3, NotingBegins
      <3>2. s'.at = "note"
        BY <1>6 DEF Noting
      <3>3. s'.topic = t /\ s'.cfg = s.cfg
        BY <1>1, <3>1, <3>2, PublishFrame, NoWorkType
      <3>4. t = Discovery /\ Lands(Sync, t, 3)
        BY <1>1, <1>6, <3>1, <3>2, <3>3, NotedArrives
      <3>5. entities' = [entities EXCEPT ![s.cfg.place] =
                            Announced(s.cfg.profile, 3, @)]
        BY <3>4 DEF Lands
      <3>6. s.cfg.place \in Places
        BY <3>1 DEF Publishes, Configs
      <3>7. entities \in [Places -> SUBSET Entities]
        BY <1>2 DEF OutsideOK
      <3>8. entities'[s.cfg.place] =
                Announced(s.cfg.profile, 3, entities[s.cfg.place])
            /\ entities[s.cfg.place] \in SUBSET Entities
        BY <3>5, <3>6, <3>7
      <3> QED BY <3>3, <3>8, AnnouncedMatches
    <2> QED BY <2>1, <2>2, <2>3
  <1>7. ASSUME client' # NoClient, discoveryKey' # NoKey,
               <<discoveryKey'.place, Discovery>> \notin doubt'
        PROVE  Matches(discoveryKey'.profile, entities'[discoveryKey'.place])
    <2>1. CASE /\ Noting(Sync) /\ s.topic = Discovery
               /\ discoveryKey' = MqttKey(s.cfg) /\ UNCHANGED entities
               /\ Sync \in dirty => <<s.cfg.place, Discovery>> \in doubt'
      BY <1>7, <2>1 DEF DiscoveryFits, MqttKey
    <2>2. CASE /\ UNCHANGED <<client, key, discoveryKey>>
               /\ \A pl \in Places: <<pl, Discovery>> \in doubt =>
                                    <<pl, Discovery>> \in doubt'
      <3>1. discoveryKey = key /\ key \in Key
        BY <1>2, <1>7, <2>2 DEF DiscoveryFits, ServiceOK
      <3>2. UNCHANGED entities
        BY <1>7, <2>2, <3>1, EntitiesFrame DEF SyncFits
      <3>3. <<discoveryKey.place, Discovery>> \notin doubt
        BY <1>7, <2>2, <3>1 DEF Key
      <3>4. Matches(key.profile, entities[key.place])
        BY <1>7, <2>2, <3>1, <3>3 DEF DiscoveryFits, EntitiesMatch, Matches
      <3> QED BY <2>2, <3>1, <3>2, <3>4
    <2> QED BY <1>3, <1>7, <2>1, <2>2, ServiceFrame
  <1>8. EntitiesMatch'
    BY <1>5, <1>7 DEF EntitiesMatch, Matches
  <1> QED BY <1>5, <1>6, <1>8 DEF DiscoveryFits, Matches, Noting

\* Home Assistant has the entities of the profile once discovery is done.
THEOREM EntitiesAreThoseOfTheProfile == Spec => []EntitiesMatch
  <1>1. Init => DiscoveryFits
    BY NoWorkType DEF Init, DiscoveryFits, EntitiesMatch, Noting, Publishers
  <1>2. TypeInv /\ SyncFits /\ DiscoveryFits /\ [Next]_vars => DiscoveryFits'
    BY NextDiscovery
  <1>3. DiscoveryFits => EntitiesMatch
    BY DEF DiscoveryFits
  <1> QED BY <1>1, <1>2, <1>3, SyncInvariant, PTL DEF Spec


---------------------------------------------------------------------------
(* Values.                                                                 *)

\* What the broker has changes by a publish over the client in use.
LEMMA BrokerFrame ==
    ASSUME TypeInv, [Next]_vars, broker' # broker
    PROVE  \E q \in Publishers, t \in Topics:
              /\ Publishes(q, t)
              /\ broker' = [broker EXCEPT ![work[q].cfg.place][t] =
                                work[q].val[t]]
              /\ client # NoClient /\ key.place = work[q].cfg.place
              /\ Overtaken(q, t) \subseteq dirty'
              /\ \/ <<key.place, t>> \in doubt'
                 \/ work'[q].at = "note" /\ work'[q].topic = t
                    /\ work'[q].cfg = work[q].cfg
  <1>1. ASSUME NEW q \in Publishers, NEW t \in Topics \cup {Discovery},
               Publishes(q, t)
        PROVE  /\ t \in Topics
               /\ broker' = [broker EXCEPT ![work[q].cfg.place][t] =
                                work[q].val[t]]
               /\ client # NoClient /\ key.place = work[q].cfg.place
               /\ Overtaken(q, t) \subseteq dirty'
               /\ \/ <<key.place, t>> \in doubt'
                  \/ work'[q].at = "note" /\ work'[q].topic = t
                     /\ work'[q].cfg = work[q].cfg
    <2>1. PICK n \in 1 .. 3:
                /\ Lands(q, t, n)
                /\ client # NoClient /\ key.place = work[q].cfg.place
                /\ Overtaken(q, t) \subseteq dirty'
                /\ work'[q].at # "note" => <<work[q].cfg.place, t>> \in doubt'
      BY <1>1, PublishArrives
    <2>2. t # Discovery
      BY <2>1 DEF Lands
    <2>3. work'[q].at = "note" =>
                work'[q].topic = t /\ work'[q].cfg = work[q].cfg
      BY <1>1, PublishFrame, NoWorkType
    <2> QED BY <2>1, <2>2, <2>3 DEF Lands
  <1>2. \A p \in Publishers: ~PublishedAll(p) /\ ~Note(p)
    BY DEF PublishedAll, Note
  <1>3. ~ClientStep
    BY DEF ClientStep, SyncDisabled, EnsureClient, ReplaceClient, ConnectFails,
       Check, CheckDown, CheckStalled, Reset, RecordError
  <1>4. \A h \in Handlers: ~Command(h) /\ ~Written(h)
    BY DEF Command, Written
  <1>5. \A c \in Clients: ~LibraryStep(c)
    BY DEF LibraryStep, Connects, Reconnects, Opens, OnConnectionLost, OnConnect,
       ResetAfterSubscribe
  <1>6. ~(UpdateConfig \/ UpdateStore \/ UNCHANGED vars)
    BY DEF UpdateConfig, UpdateStore, vars
  <1>7. \E q \in Publishers, t \in Topics \cup {Discovery}: Publishes(q, t)
    BY <1>2, <1>3, <1>4, <1>5, <1>6, Steps DEF PublisherStep
  <1> QED BY <1>1, <1>7

\* One topic at one place.
LEMMA BrokerUpdate ==
    ASSUME OutsideOK, NEW pl \in Places, NEW t \in Topics, NEW v,
           broker' = [broker EXCEPT ![pl][t] = v]
    PROVE  /\ broker'[pl][t] = v
           /\ \A ql \in Places, u \in Topics:
                 ql # pl \/ u # t => broker'[ql][u] = broker[ql][u]
  BY DEF OutsideOK

\* What waits to be noted, and is not dirty, stays the last that arrived.
LEMMA NextNotes ==
    ASSUME TypeInv, NotesFit, [Next]_vars PROVE NotesFit'
  <1>1. OutsideOK /\ WorkOK
    BY DEF TypeInv, MqttTypeOK
  <1> SUFFICES ASSUME NEW p \in Publishers, Noting(p)',
                      work'[p].topic \in Topics, p \notin dirty'
               PROVE  broker'[work'[p].cfg.place][work'[p].topic] =
                          work'[p].val[work'[p].topic]
    BY DEF NotesFit, Noting
  <1>2. ~Note(p)
    BY NoteEffect, NoWorkType DEF Noting
  <1>3. CASE Noting(p)
    <2>1. work'[p] = work[p] /\ p \notin dirty
      BY <1>2, <1>3, NotingFrame
    <2>2. /\ work[p].topic \in Topics /\ work[p].cfg \in Configs
          /\ broker[work[p].cfg.place][work[p].topic] =
                work[p].val[work[p].topic]
      BY <1>3, <2>1 DEF NotesFit, Noting, TypeInv, RolesFit
    <2>3. CASE broker' = broker
      BY <2>1, <2>2, <2>3
    <2>4. CASE broker' # broker
      <3>1. PICK q \in Publishers, t \in Topics:
              /\ Publishes(q, t)
              /\ broker' = [broker EXCEPT ![work[q].cfg.place][t] =
                                work[q].val[t]]
              /\ Overtaken(q, t) \subseteq dirty'
        BY <2>4, BrokerFrame
      <3>2. q # p /\ work[q].cfg \in Configs
        BY <1>3, <3>1 DEF Publishes, Noting
      <3>3. work[p].cfg.place # work[q].cfg.place \/ work[p].topic # t
        BY <1>3, <3>1, <3>2 DEF Overtaken
      <3>4. work[q].cfg.place \in Places /\ work[p].cfg.place \in Places
        BY <2>2, <3>2 DEF Configs
      <3>5. broker'[work[p].cfg.place][work[p].topic] =
                broker[work[p].cfg.place][work[p].topic]
        BY <1>1, <2>2, <3>1, <3>3, <3>4, BrokerUpdate
      <3> QED BY <2>1, <2>2, <3>5
    <2> QED BY <2>3, <2>4
  <1>4. CASE ~Noting(p)
    <2>1. PICK t \in Topics \cup {Discovery}: Publishes(p, t)
      BY <1>4, NotingBegins
    <2>2. work'[p].at = "note"
      BY DEF Noting
    <2>3. /\ work'[p].topic = t /\ work'[p].cfg = work[p].cfg
          /\ work'[p].val = work[p].val
      BY <2>1, <2>2, PublishFrame, NoWorkType
    <2>4. Lands(p, t, 3)
      BY <2>1, <2>2, NotedArrives
    <2>5. t \in Topics /\ work[p].cfg.place \in Places
      BY <2>1, <2>3 DEF Publishes, Configs
    <2>6. broker' = [broker EXCEPT ![work[p].cfg.place][t] = work[p].val[t]]
      <3>1. t # Discovery
        BY <2>5, TopicsAssumption
      <3> QED BY <2>4, <3>1 DEF Lands
    <2>7. broker'[work[p].cfg.place][t] = work[p].val[t]
      BY <1>1, <2>5, <2>6 DEF OutsideOK
    <2> QED BY <2>3, <2>7
  <1> QED BY <1>3, <1>4

\* Every step keeps lastPublished honest.
LEMMA NextLast ==
    ASSUME TypeInv, TypeInv', NotesFit, LastFits, [Next]_vars PROVE LastFits'
  <1>1. OutsideOK /\ WorkOK /\ ServiceOK
    BY DEF TypeInv, MqttTypeOK
  <1> SUFFICES ASSUME client' # NoClient, NEW t \in Topics
               PROVE  \/ lastPublished'[key'.place][t] \in
                            {NoVal, broker'[key'.place][t]}
                      \/ <<key'.place, t>> \in doubt'
                      \/ \E p \in Publishers:
                            /\ work'[p].at = "note" /\ work'[p].topic = t
                            /\ work'[p].cfg.place = key'.place
    BY DEF LastFits, Noting
  <1>2. key' \in Key /\ key'.place \in Places
    BY DEF TypeInv, MqttTypeOK, ServiceOK, Key
  <1>3. CASE lastPublished' = Nowhere
    BY <1>2, <1>3 DEF Nowhere
  <1>4. ASSUME NEW p \in Publishers, Note(p)
        PROVE  \/ lastPublished'[key'.place][t] \in
                    {NoVal, broker'[key'.place][t]}
               \/ <<key'.place, t>> \in doubt'
               \/ \E q \in Publishers:
                    /\ work'[q].at = "note" /\ work'[q].topic = t
                    /\ work'[q].cfg.place = key'.place
    <2> DEFINE pl == work[p].cfg.place
               u  == work[p].topic
    <2>1. UNCHANGED <<client, key, broker>> /\ Noting(p)
      BY <1>4 DEF Note
    <2>2. /\ work[p].cfg \in Configs /\ pl \in Places
          /\ u \in Topics \cup {Discovery}
      BY <1>1, <2>1, WorkFields DEF Noting, TypeInv, RolesFit, Configs
    <2>3. /\ u = Discovery => UNCHANGED lastPublished
          /\ u # Discovery => lastPublished' = [lastPublished EXCEPT
                                    ![pl][u] = work[p].val[u]]
          /\ p \in dirty => doubt' = doubt \cup {<<pl, u>>}
          /\ p \notin dirty => doubt' = doubt \ {<<pl, u>>}
      BY <1>4 DEF Note
    <2> HIDE DEF pl, u
    <2>4. CASE t = u /\ key.place = pl
      <3>1. CASE p \in dirty
        BY <2>1, <2>3, <2>4, <3>1
      <3>2. CASE p \notin dirty
        <4>1. broker[pl][u] = work[p].val[u]
          BY <2>1, <2>4, <3>2 DEF NotesFit, pl, u
        <4>2. lastPublished'[pl][u] = work[p].val[u]
          BY <1>1, <2>2, <2>3, <2>4 DEF ServiceOK
        <4> QED BY <2>1, <2>4, <4>1, <4>2
      <3> QED BY <3>1, <3>2
    <2>5. CASE ~(t = u /\ key.place = pl)
      <3>1. lastPublished'[key.place][t] = lastPublished[key.place][t]
        BY <1>1, <1>2, <2>1, <2>2, <2>3, <2>5 DEF ServiceOK
      <3>2. <<key.place, t>> \in doubt => <<key.place, t>> \in doubt'
        BY <2>3, <2>5
      <3>3. ASSUME NEW q \in Publishers, Noting(q), work[q].topic = t,
                   work[q].cfg.place = key.place
            PROVE  work'[q] = work[q] /\ work[q].at = "note"
        BY <1>4, <2>5, <3>3, NoteEffect DEF pl, u, Noting
      <3> QED BY <2>1, <3>1, <3>2, <3>3 DEF LastFits
    <2> QED BY <2>4, <2>5
  <1>5. CASE /\ UNCHANGED <<client, key, lastPublished>>
             /\ doubt \subseteq doubt' /\ \A p \in Publishers: ~Note(p)
    <2>1. ASSUME NEW q \in Publishers, Noting(q)
          PROVE  work'[q] = work[q] /\ work[q].at = "note"
      BY <1>5, <2>1, NotingFrame DEF Noting
    <2>2. CASE broker'[key.place][t] = broker[key.place][t]
      BY <1>5, <2>1, <2>2 DEF LastFits
    <2>3. CASE broker'[key.place][t] # broker[key.place][t]
      <3>1. PICK q \in Publishers, u \in Topics:
              /\ Publishes(q, u)
              /\ broker' = [broker EXCEPT ![work[q].cfg.place][u] =
                                work[q].val[u]]
              /\ key.place = work[q].cfg.place
              /\ \/ <<key.place, u>> \in doubt'
                 \/ work'[q].at = "note" /\ work'[q].topic = u
                    /\ work'[q].cfg = work[q].cfg
        BY <2>3, BrokerFrame
      <3>2. u = t
        BY <1>1, <1>2, <1>5, <2>3, <3>1, BrokerUpdate
      <3> QED BY <1>5, <3>1, <3>2
    <2> QED BY <2>2, <2>3
  <1> QED BY <1>3, <1>4, <1>5, ServiceFrame

\* lastPublished is what the broker received, but for the topics in doubt.
THEOREM LastPublishedIsHonest == Spec => []LastHonest
  <1>1. Init => NotesFit /\ LastFits
    BY NoWorkType DEF Init, NotesFit, LastFits, Noting
  <1>2. TypeInv /\ NotesFit /\ [Next]_vars => NotesFit'
    BY NextNotes
  <1>3. TypeInv /\ TypeInv' /\ NotesFit /\ LastFits /\ [Next]_vars => LastFits'
    BY NextLast
  <1>4. LastFits => LastHonest
    BY DEF LastFits, LastHonest
  <1> QED BY <1>1, <1>2, <1>3, <1>4, SyncInvariant, PTL DEF Spec
=============================================================================
