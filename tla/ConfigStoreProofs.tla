-------------------------- MODULE ConfigStoreProofs --------------------------
(***************************************************************************)
(* Proofs about ConfigStore: types, the configuration in use is usable, a  *)
(* request changes only what it is about, and what was acknowledged is     *)
(* found again after any failure.  The last two are about calls that do    *)
(* not overlap: their invariants say what a single call may leave in the   *)
(* temporary file between its steps.                                       *)
(***************************************************************************)
EXTENDS ConfigStore, FiniteSetTheorems, SequenceTheorems, TLAPS

Ats == {"idle", "read", "save", "write", "rename", "publish"}

\* A call has a configuration; it holds an inode while it writes; the start of
\* the program reads no settings.
CallsFit ==
    \A w \in Workers:
        /\ job[w].at # "idle" => job[w].cfg \in Configs
        /\ job[w].fd # None <=> job[w].at = "write"
        /\ job[w].at = "read" => w # Main

TypeInv == ConfigTypeOK /\ CallsFit

\* What Save let pass, and what is in use, was validated.
ValidFits ==
    /\ up = "running" => Validate(cfg)
    /\ \A w \in Workers: job[w].at \in {"write", "rename", "publish"} =>
                             Validate(job[w].cfg)

\* One call at a time.
Single ==
    \A v, w \in Workers: job[v].at # "idle" /\ job[w].at # "idle" => v = w

\* A call holds the configuration in use, but for what it is about.
Fields == {"main", "soc", "current"}
ChangeFits ==
    \A u \in Users:
        /\ job[u].at = "read" => job[u].cfg = cfg
        /\ job[u].at \notin {"idle", "read"} =>
              \A f \in Fields \ {job[u].field}: job[u].cfg[f] = cfg[f]

\* What a call has done so far: the temporary file is open and empty, or
\* holds the text, or has become the file.
Done(w) ==
    /\ job[w].at = "write" =>
          tmp # None /\ job[w].fd = tmp /\ disk[tmp] = <<>>
    /\ job[w].at = "rename" => tmp # None /\ disk[tmp] = Text(job[w].cfg)
    /\ job[w].at = "publish" =>
          file # None /\ Loaded(disk[file]) = job[w].cfg

\* What the file holds.
FileFits ==
    /\ promised # {} => file # None /\ Loaded(disk[file]) \in promised
    /\ up = "running" => file # None
    /\ up = "running" /\ (\A u \in Users: job[u].at # "publish") =>
          Loaded(disk[file]) = cfg

AloneInv == ~overlapped =>
    Single /\ ChangeFits /\ FileFits /\ \A w \in Workers: Done(w)

ConfigInv == TypeInv /\ ValidFits /\ AloneInv

---------------------------------------------------------------------------
(* Texts.                                                                  *)

\* A text is a sequence of three sections, or of four.
LEMMA TextShape ==
    ASSUME NEW c \in Configs
    PROVE  /\ Text(c) \in Seq(Sections)
           /\ TCPAddress(c.main.port) => Text(c) =
                <<<<"main", c.main>>, <<"address", c.main>>,
                  <<"soc", c.soc>>, <<"current", c.current>>>>
           /\ ~TCPAddress(c.main.port) => Text(c) =
                <<<<"main", c.main>>, <<"soc", c.soc>>,
                  <<"current", c.current>>>>
  <1>1. c.main \in Mains /\ c.soc \in SOCs /\ c.current \in Currents
    BY DEF Configs
  <1> DEFINE m == <<"main", c.main>>
             a == <<"address", c.main>>
             s == <<"soc", c.soc>>
             k == <<"current", c.current>>
  <1>2. m \in Sections /\ a \in Sections /\ s \in Sections /\ k \in Sections
    BY <1>1 DEF Sections
  <1>3. Text(c) = <<m>> \o (IF TCPAddress(c.main.port) THEN <<a>> ELSE <<>>)
                  \o <<s, k>>
    BY DEF Text
  <1> HIDE DEF m, a, s, k
  <1>4. /\ <<m>> \in Seq(Sections) /\ <<a>> \in Seq(Sections)
        /\ <<s, k>> \in Seq(Sections) /\ <<m, a>> \in Seq(Sections)
        /\ <<m, s, k>> \in Seq(Sections) /\ <<m, a, s, k>> \in Seq(Sections)
    BY <1>2
  <1>5. <<m>> \o <<a>> = <<m, a>>
    <2>1. <<m>> \o <<a>> \in Seq(Sections) /\ Len(<<m>> \o <<a>>) = 2
          /\ \A i \in 1 .. 2: (<<m>> \o <<a>>)[i] = <<m, a>>[i]
      BY <1>4
    <2> QED BY <1>4, <2>1, SeqEqual
  <1>6. <<m, a>> \o <<s, k>> = <<m, a, s, k>>
    <2>1. <<m, a>> \o <<s, k>> \in Seq(Sections)
          /\ Len(<<m, a>> \o <<s, k>>) = 4
          /\ \A i \in 1 .. 4:
                (<<m, a>> \o <<s, k>>)[i] = <<m, a, s, k>>[i]
      BY <1>4
    <2> QED BY <1>4, <2>1, SeqEqual
  <1>7. <<m>> \o <<s, k>> = <<m, s, k>>
    <2>1. <<m>> \o <<s, k>> \in Seq(Sections) /\ Len(<<m>> \o <<s, k>>) = 3
          /\ \A i \in 1 .. 3: (<<m>> \o <<s, k>>)[i] = <<m, s, k>>[i]
      BY <1>4
    <2> QED BY <1>4, <2>1, SeqEqual
  <1>8. <<m>> \o <<>> = <<m>>
    BY <1>4, ConcatEmptySeq
  <1>9. Text(c) = IF TCPAddress(c.main.port) THEN <<m, a, s, k>>
                                             ELSE <<m, s, k>>
    BY <1>3, <1>5, <1>6, <1>7, <1>8
  <1> QED BY <1>4, <1>9 DEF m, a, s, k

\* A text has four sections at most.
LEMMA TextLength ==
    ASSUME NEW c \in Configs PROVE Len(Text(c)) <= 4
  <1>1. TCPAddress(c.main.port) => Len(Text(c)) = 4
    BY TextShape
  <1>2. ~TCPAddress(c.main.port) => Len(Text(c)) = 3
    BY TextShape
  <1>3. 3 <= 4 /\ 4 <= 4
    OBVIOUS
  <1> QED BY <1>1, <1>2, <1>3

\* Nothing of an empty file stays.
LEMMA OverNothing ==
    ASSUME NEW t \in Seq(Sections) PROVE Over(t, <<>>) = t
  <1>1. SubSeq(<<>>, Len(t) + 1, Len(<<>>)) = <<>>
    BY SubSeqEmpty
  <1> QED BY <1>1, ConcatEmptySeq DEF Over

\* One text over another is a text that is as long as the longer one.
LEMMA OverType ==
    ASSUME NEW t \in Seq(Sections), NEW old \in Seq(Sections)
    PROVE  /\ Over(t, old) \in Seq(Sections)
           /\ Len(t) <= 4 /\ Len(old) <= 4 => Len(Over(t, old)) <= 4
  <1> DEFINE rest == SubSeq(old, Len(t) + 1, Len(old))
  <1>1. \A i \in Len(t) + 1 .. Len(old): old[i] \in Sections
    BY ElementOfSeq
  <1>2. /\ rest \in Seq(Sections)
        /\ Len(rest) = IF Len(t) + 1 <= Len(old)
                       THEN Len(old) - Len(t) ELSE 0
    <2>1. Len(t) \in Nat /\ Len(old) \in Nat
      OBVIOUS
    <2> QED BY <1>1, <2>1, SubSeqProperties
  <1> HIDE DEF rest
  <1>3. t \o rest \in Seq(Sections) /\ Len(t \o rest) = Len(t) + Len(rest)
    BY <1>2
  <1> QED BY <1>2, <1>3 DEF Over, rest

\* What is left out of a text at its end.
LEMMA Fronts ==
    ASSUME NEW m, NEW a, NEW s, NEW k
    PROVE  /\ Front(<<m, a, s, k>>) = <<m, a, s>>
           /\ Front(<<m, s, k>>) = <<m, s>>
           /\ Front(<<m, s>>) = <<m>>
  <1> DEFINE S == {m, a, s, k}
  <1>1. ASSUME NEW q \in Seq(S), NEW t \in Seq(S), Len(q) = Len(t) + 1,
               \A i \in 1 .. Len(t): q[i] = t[i]
        PROVE  Front(q) = t
    <2>1. Len(t) \in Nat /\ \A i \in 1 .. Len(t): q[i] \in S
      BY <1>1
    <2>2. /\ SubSeq(q, 1, Len(t)) \in Seq(S)
          /\ Len(SubSeq(q, 1, Len(t))) = Len(t)
          /\ \A i \in 1 .. Len(t): SubSeq(q, 1, Len(t))[i] = q[i]
      BY <1>1, <2>1, SubSeqProperties
    <2>3. Front(q) = SubSeq(q, 1, Len(t))
      BY <1>1, <2>1 DEF Front
    <2> QED BY <1>1, <2>2, <2>3, SeqEqual
  <1>2. /\ <<m>> \in Seq(S) /\ <<m, s>> \in Seq(S) /\ <<m, a, s>> \in Seq(S)
        /\ <<m, s, k>> \in Seq(S) /\ <<m, a, s, k>> \in Seq(S)
    OBVIOUS
  <1> HIDE DEF S
  <1>3. Front(<<m, a, s, k>>) = <<m, a, s>>
    <2>1. Len(<<m, a, s, k>>) = Len(<<m, a, s>>) + 1
          /\ \A i \in 1 .. Len(<<m, a, s>>): <<m, a, s, k>>[i] = <<m, a, s>>[i]
      OBVIOUS
    <2> QED BY <1>1, <1>2, <2>1, Zenon
  <1>4. Front(<<m, s, k>>) = <<m, s>>
    <2>1. Len(<<m, s, k>>) = Len(<<m, s>>) + 1
          /\ \A i \in 1 .. Len(<<m, s>>): <<m, s, k>>[i] = <<m, s>>[i]
      OBVIOUS
    <2> QED BY <1>1, <1>2, <2>1, Zenon
  <1>5. Front(<<m, s>>) = <<m>>
    <2>1. Len(<<m, s>>) = Len(<<m>>) + 1
          /\ \A i \in 1 .. Len(<<m>>): <<m, s>>[i] = <<m>>[i]
      OBVIOUS
    <2> QED BY <1>1, <1>2, <2>1, Zenon
  <1> QED BY <1>3, <1>4, <1>5

\* What was saved is what is loaded: no text is a part of another that stands
\* for something else, and an empty one is of no configuration.
LEMMA LoadsWhatIsSaved ==
    ASSUME NEW c \in Configs, Validate(c) PROVE Loaded(Text(c)) = c
  <1>1. ASSUME NEW d \in Parsed(Text(c)) PROVE d = c
    <2>1. d \in Configs
      BY <1>1 DEF Parsed
    <2>2. CASE Text(d) = Text(c)
      <3>1. d.main = c.main /\ d.soc = c.soc /\ d.current = c.current
        BY <2>1, <2>2, TextShape
      <3> QED BY <2>1, <3>1 DEF Configs
    <2>3. Text(c) # <<>>
      BY TextShape
    <2>4. Text(c)[Len(Text(c))][1] = "current"
      <3>1. CASE TCPAddress(c.main.port)
        BY <3>1, TextShape
      <3>2. CASE ~TCPAddress(c.main.port)
        BY <3>2, TextShape
      <3> QED BY <3>1, <3>2
    <2>5. CASE TCPAddress(d.main.port)
      <3> DEFINE m == <<"main", d.main>>
                 a == <<"address", d.main>>
                 s == <<"soc", d.soc>>
                 k == <<"current", d.current>>
      <3>1. Text(d) = <<m, a, s, k>>
        BY <2>1, <2>5, TextShape
      <3>2. Front(Text(d)) = <<m, a, s>>
        <4> HIDE DEF m, a, s, k
        <4>1. Front(<<m, a, s, k>>) = <<m, a, s>>
          BY Fronts, Zenon
        <4> QED BY <3>1, <4>1
      <3>3. Front(Front(Text(d))) = <<m, a>>
        <4> HIDE DEF m, a, s, k
        <4> QED BY <3>2, Fronts, Zenon
      <3>4. Text(c) # <<m, a, s>> /\ Text(c) # <<m, a>>
        BY <2>4
      <3> QED BY <1>1, <2>2, <2>3, <3>2, <3>3, <3>4 DEF Parsed
    <2>6. CASE ~TCPAddress(d.main.port)
      <3> DEFINE m == <<"main", d.main>>
                 s == <<"soc", d.soc>>
                 k == <<"current", d.current>>
      <3>1. Text(d) = <<m, s, k>>
        BY <2>1, <2>6, TextShape
      <3>2. Front(Text(d)) = <<m, s>>
        <4> HIDE DEF m, s, k
        <4> QED BY <3>1, Fronts, Zenon
      <3>3. Front(Front(Text(d))) = <<m>>
        <4> HIDE DEF m, s, k
        <4> QED BY <3>2, Fronts, Zenon
      <3>4. Text(c) # <<m, s>> /\ Text(c) # <<m>>
        BY <2>4
      <3> QED BY <1>1, <2>2, <2>3, <3>2, <3>3, <3>4 DEF Parsed
    <2> QED BY <2>5, <2>6
  <1>2. c \in Parsed(Text(c))
    BY DEF Parsed
  <1> QED BY <1>1, <1>2 DEF Loaded

\* What is loaded was validated.
LEMMA LoadedIsValid ==
    ASSUME NEW text, Loaded(text) # None
    PROVE  Loaded(text) \in Configs /\ Validate(Loaded(text))
  BY DEF Loaded, Parsed

---------------------------------------------------------------------------
(* Types.                                                                  *)

\* The steps, one by one.
LEMMA Steps ==
    ASSUME [Next]_vars
    PROVE  \/ \E u \in Users: \/ Read(u) \/ UpdateConfig(u)
                              \/ UpdateStormChargeSettings(u)
           \/ \E w \in Workers: \/ Refuse(w) \/ Open(w) \/ Write(w)
                                \/ WriteFails(w) \/ Rename(w)
                                \/ RenameFails(w) \/ Publish(w)
           \/ LoadOrCreate \/ Crash \/ Restart
           \/ UNCHANGED vars
  BY DEF Next, Step

\* The start of the program is not a request.
LEMMA UsersWork ==
    /\ Users \subseteq Workers /\ Main \in Workers /\ Main \notin Users
    /\ \A w \in Workers: w = Main \/ w \in Users
  BY UsersAssumption DEF Workers

\* None is neither a configuration nor an inode.
LEMMA NoneIsNot == None \notin Configs /\ None \notin Inodes
  BY NoneAssumption

\* Default is a configuration.
LEMMA DefaultIsAConfig == Default \in Configs
  BY MainsAssumption, SettingsAssumption DEF Default, Configs

\* Idle is a job.
LEMMA IdleIsAJob == Idle \in Jobs
  BY DEF Idle, Jobs

\* There is an inode that nobody uses when a call opens the temporary file:
\* the call itself holds none.
LEMMA FreeInode ==
    ASSUME TypeInv, NEW w \in Workers, job[w].at = "save"
    PROVE  Min(Free) \in Free /\ Free \subseteq Inodes
  <1> DEFINE V == Workers \ {w}
             T == {job[v].fd: v \in V}
             g == [v \in V |-> job[v].fd]
             n == Cardinality(Workers)
             U == (T \cup {file}) \cup {tmp}
  <1>1. IsFiniteSet(Workers) /\ n \in Nat
    BY UsersAssumption, FS_AddElement, FS_CardinalityType DEF Workers
  <1>2. IsFiniteSet(V) /\ Cardinality(V) = n - 1
    BY <1>1, FS_RemoveElement
  <1>3. IsFiniteSet(T) /\ Cardinality(T) <= n - 1 /\ Cardinality(T) \in Nat
    <2>1. g \in Surjection(V, T)
      BY DEF Surjection
    <2> HIDE DEF g, T, V
    <2> QED BY <1>2, <2>1, FS_Surjection, FS_CardinalityType
  <1>4. IsFiniteSet(U) /\ Cardinality(U) <= n + 1 /\ Cardinality(U) \in Nat
    <2>1. IsFiniteSet(T \cup {file}) /\ Cardinality(T \cup {file}) <= n
          /\ Cardinality(T \cup {file}) \in Nat
      <3> HIDE DEF T, n
      <3>1. IsFiniteSet(T \cup {file}) /\ Cardinality(T \cup {file}) =
                IF file \in T THEN Cardinality(T) ELSE Cardinality(T) + 1
        BY <1>3, FS_AddElement
      <3> QED BY <1>1, <1>3, <3>1
    <2> DEFINE W == T \cup {file}
    <2>2. IsFiniteSet(W) /\ Cardinality(W) <= n /\ Cardinality(W) \in Nat
      BY <2>1
    <2> HIDE DEF W, n
    <2>3. IsFiniteSet(W \cup {tmp}) /\ Cardinality(W \cup {tmp}) =
              IF tmp \in W THEN Cardinality(W) ELSE Cardinality(W) + 1
      BY <2>2, FS_AddElement
    <2>4. IsFiniteSet(W \cup {tmp}) /\ Cardinality(W \cup {tmp}) <= n + 1
          /\ Cardinality(W \cup {tmp}) \in Nat
      BY <1>1, <2>2, <2>3
    <2> QED BY <2>4 DEF W
  <1>5. IsFiniteSet(Inodes) /\ Cardinality(Inodes) = n + 2
    <2>1. 1 \in Int /\ n + 2 \in Int /\ ~(1 > n + 2) /\ n + 2 - 1 + 1 = n + 2
      BY <1>1
    <2> QED BY <2>1, FS_Interval DEF Inodes
  <1>6. job[w].fd = None
    BY DEF TypeInv, CallsFit
  <1>7. Free = Inodes \ U
    BY <1>6, NoneIsNot DEF Free
  <1>8. Free # {}
    <2>1. SUFFICES ASSUME Inodes \subseteq U PROVE FALSE
      BY <1>7
    <2> HIDE DEF U, n
    <2>2. Cardinality(Inodes) <= Cardinality(U)
      BY <1>4, <2>1, FS_Subset
    <2> QED BY <1>1, <1>4, <1>5, <2>2
  <1>9. Free \subseteq Nat /\ Free \subseteq Inodes
    BY <1>1, <1>7 DEF Inodes
  <1>10. \E i \in Free: \A k \in Free: i <= k
    <2> DEFINE R == OpToRel(<, Nat)
    <2>1. \A i, k \in Nat: <<k, i>> \notin R => i <= k
      BY DEF OpToRel
    <2>2. IsWellFoundedOn(R, Nat)
      BY NatLessThanWellFounded
    <2> HIDE DEF R
    <2>3. \E i \in Free: \A k \in Free: <<k, i>> \notin R
      BY <1>8, <1>9, <2>2, WFMin
    <2> QED BY <1>9, <2>1, <2>3
  <1> QED BY <1>9, <1>10 DEF Min

\* A step changes the job of w, and no other.
Becomes(w, at, c, fd) ==
    /\ job' \in [Workers -> Jobs]
    /\ job'[w].at = at /\ job'[w].cfg = c /\ job'[w].fd = fd
    /\ \A v \in Workers: v # w => job'[v] = job[v]

\* The fields that w has after it.
LEMMA JobUpdate ==
    ASSUME TypeInv, NEW w \in Workers, NEW j \in Jobs,
           job' = [job EXCEPT ![w] = j]
    PROVE  Becomes(w, j.at, j.cfg, j.fd) /\ job'[w].field = j.field
  BY DEF TypeInv, ConfigTypeOK, JobsOK, Becomes

\* The fields of a job.
LEMMA JobFields ==
    ASSUME TypeInv, NEW w \in Workers
    PROVE  /\ job[w] \in Jobs
           /\ job[w].at \in Ats /\ job[w].cfg \in Configs \cup {None}
           /\ job[w].field \in Fields \cup {None}
           /\ job[w].fd \in Inodes \cup {None}
           /\ job[w].at # "write" => job[w].fd = None
           /\ job[w].at = "write" => job[w].fd \in Inodes
           /\ job[w].at # "idle" => job[w].cfg \in Configs
  <1>1. job[w] \in Jobs
    BY DEF TypeInv, ConfigTypeOK, JobsOK
  <1> QED BY <1>1, NoneIsNot DEF TypeInv, CallsFit, Jobs, Ats, Fields

\* A call that fails is over.
LEMMA FailsEffect ==
    ASSUME TypeInv, NEW w \in Workers, Fails(w)
    PROVE  Becomes(w, "idle", None, None)
  <1>1. Becomes(w, Idle.at, Idle.cfg, Idle.fd)
    BY JobUpdate, IdleIsAJob DEF Fails
  <1> QED BY <1>1 DEF Idle

\* A call begins with the configuration in use.
LEMMA ReadEffect ==
    ASSUME TypeInv, NEW u \in Users, Read(u)
    PROVE  Becomes(u, "read", cfg, None) /\ cfg \in Configs
  <1>1. u \in Workers
    BY UsersWork
  <1>2. cfg \in Configs
    BY DEF TypeInv, ConfigTypeOK, ProcessOK, Read
  <1> DEFINE j == [job[u] EXCEPT !.at = "read", !.cfg = cfg]
  <1>3. job[u] \in Jobs /\ job[u].fd = None
    BY <1>1, JobFields DEF Read
  <1>4. j \in Jobs /\ j.at = "read" /\ j.cfg = cfg /\ j.fd = None
    BY <1>2, <1>3 DEF Jobs
  <1>5. job' = [job EXCEPT ![u] = j]
    BY DEF Read
  <1> HIDE DEF j
  <1> QED BY <1>1, <1>2, <1>4, <1>5, JobUpdate

\* The configuration that was read, with another main part.
LEMMA UpdateConfigEffect ==
    ASSUME TypeInv, NEW u \in Users, UpdateConfig(u)
    PROVE  \E c \in Configs:
             /\ Becomes(u, "save", c, None) /\ job'[u].field = "main"
             /\ c.soc = job[u].cfg.soc /\ c.current = job[u].cfg.current
  <1>1. u \in Workers
    BY UsersWork
  <1>2. /\ job[u] \in Jobs /\ job[u].fd = None /\ job[u].cfg \in Configs
    BY <1>1, JobFields DEF UpdateConfig
  <1>3. PICK m \in Mains:
           job' = [job EXCEPT ![u].at = "save", ![u].field = "main",
                              ![u].cfg.main = m]
    BY DEF UpdateConfig
  <1> DEFINE c == [job[u].cfg EXCEPT !.main = m]
             j == [job[u] EXCEPT !.at = "save", !.field = "main", !.cfg = c]
  <1>4. /\ c \in Configs
        /\ c.soc = job[u].cfg.soc /\ c.current = job[u].cfg.current
    BY <1>2 DEF Configs
  <1>5. job' = [job EXCEPT ![u] = j]
    BY <1>2, <1>3 DEF Jobs
  <1> HIDE DEF c
  <1>6. /\ j \in Jobs /\ j.at = "save" /\ j.cfg = c /\ j.fd = None
        /\ j.field = "main"
    BY <1>2, <1>4 DEF Jobs
  <1> HIDE DEF j
  <1> QED BY <1>1, <1>4, <1>5, <1>6, JobUpdate

\* The settings asked for, in the configuration in use.
LEMMA SettingsEffect ==
    ASSUME TypeInv, NEW u \in Users, UpdateStormChargeSettings(u)
    PROVE  \E f \in {"soc", "current"}, c \in Configs:
             /\ Becomes(u, "save", c, None) /\ job'[u].field = f
             /\ c.main = cfg.main
             /\ f # "soc" => c.soc = job[u].cfg.soc
             /\ f # "current" => c.current = job[u].cfg.current
  <1>1. u \in Workers /\ u # Main
    BY UsersWork
  <1>2. /\ job[u] \in Jobs /\ job[u].fd = None /\ job[u].cfg \in Configs
        /\ job[u].at = "read"
    BY <1>1, JobFields DEF UpdateStormChargeSettings
  <1>3. cfg \in Configs
    BY <1>1, <1>2 DEF TypeInv, ConfigTypeOK, JobsOK, ProcessOK
  <1>4. PICK f \in {"soc", "current"}:
          \E v \in IF f = "soc" THEN SOCs ELSE Currents:
            job' = [job EXCEPT ![u].at = "save", ![u].field = f,
                               ![u].cfg = StormSettings(u, f, v)]
    BY DEF UpdateStormChargeSettings
  <1>5. PICK v \in IF f = "soc" THEN SOCs ELSE Currents:
          job' = [job EXCEPT ![u].at = "save", ![u].field = f,
                             ![u].cfg = StormSettings(u, f, v)]
    BY <1>4
  <1> DEFINE c == StormSettings(u, f, v)
             j == [job[u] EXCEPT !.at = "save", !.field = f, !.cfg = c]
  <1>6. /\ c \in Configs /\ c.main = cfg.main
        /\ f # "soc" => c.soc = job[u].cfg.soc
        /\ f # "current" => c.current = job[u].cfg.current
    BY <1>2, <1>3 DEF StormSettings, Configs
  <1>7. job' = [job EXCEPT ![u] = j]
    BY <1>5
  <1> HIDE DEF c
  <1>8. /\ j \in Jobs /\ j.at = "save" /\ j.cfg = c /\ j.fd = None
        /\ j.field = f
    BY <1>2, <1>6 DEF Jobs
  <1> HIDE DEF j
  <1>9. Becomes(u, "save", c, None) /\ job'[u].field = f
    BY <1>1, <1>7, <1>8, JobUpdate
  <1> QED BY <1>6, <1>9

\* The steps of Save keep the configuration and the field.
LEMMA SaveEffect ==
    ASSUME TypeInv, NEW w \in Workers, Open(w) \/ Write(w) \/ Rename(w)
    PROVE  /\ job'[w].field = job[w].field
           /\ Open(w) => /\ tmp' \in Inodes /\ tmp' # file
                         /\ disk' = [disk EXCEPT ![tmp'] = <<>>]
                         /\ Becomes(w, "write", job[w].cfg, tmp')
           /\ Write(w) => Becomes(w, "rename", job[w].cfg, None)
           /\ Rename(w) => Becomes(w, "publish", job[w].cfg, None)
  <1>0. job[w] \in Jobs
    BY JobFields
  <1>1. CASE Open(w)
    <2>1. tmp' \in Inodes /\ tmp' # file
          /\ disk' = [disk EXCEPT ![tmp'] = <<>>]
          /\ job' = [job EXCEPT ![w].at = "write", ![w].fd = tmp']
      <3>1. CASE tmp # None
        BY <1>1, <3>1 DEF Open, TypeInv, ConfigTypeOK, FilesOK
      <3>2. CASE tmp = None
        <4>1. Min(Free) \in Inodes /\ Min(Free) # file
          BY <1>1, FreeInode DEF Open, Free
        <4> QED BY <1>1, <3>2, <4>1 DEF Open
      <3> QED BY <3>1, <3>2
    <2> DEFINE j == [job[w] EXCEPT !.at = "write", !.fd = tmp']
    <2>2. /\ j \in Jobs /\ j.at = "write" /\ j.cfg = job[w].cfg
          /\ j.fd = tmp' /\ j.field = job[w].field
      BY <1>0, <2>1 DEF Jobs
    <2>3. job' = [job EXCEPT ![w] = j]
      BY <2>1
    <2> HIDE DEF j
    <2>4. Becomes(w, "write", job[w].cfg, tmp') /\ job'[w].field = job[w].field
      BY <2>2, <2>3, JobUpdate
    <2> QED BY <1>1, <2>1, <2>4 DEF Open, Write, Rename
  <1>2. CASE Write(w)
    <2> DEFINE j == [job[w] EXCEPT !.at = "rename", !.fd = None]
    <2>1. /\ j \in Jobs /\ j.at = "rename" /\ j.cfg = job[w].cfg
          /\ j.fd = None /\ j.field = job[w].field
      BY <1>0 DEF Jobs
    <2>2. job' = [job EXCEPT ![w] = j]
      BY <1>2 DEF Write
    <2> HIDE DEF j
    <2>3. Becomes(w, "rename", job[w].cfg, None)
          /\ job'[w].field = job[w].field
      BY <2>1, <2>2, JobUpdate
    <2> QED BY <1>2, <2>3 DEF Open, Write, Rename
  <1>3. CASE Rename(w)
    <2> DEFINE j == [job[w] EXCEPT !.at = "publish"]
    <2>1. /\ j \in Jobs /\ j.at = "publish" /\ j.cfg = job[w].cfg
          /\ j.fd = None /\ j.field = job[w].field
      BY <1>0, <1>3, JobFields DEF Jobs, Rename
    <2>2. job' = [job EXCEPT ![w] = j]
      BY <1>3 DEF Rename
    <2> HIDE DEF j
    <2>3. Becomes(w, "publish", job[w].cfg, None)
          /\ job'[w].field = job[w].field
      BY <2>1, <2>2, JobUpdate
    <2> QED BY <1>3, <2>3 DEF Open, Write, Rename
  <1> QED BY <1>1, <1>2, <1>3

\* A call that has put its configuration in use is over.
LEMMA PublishEffect ==
    ASSUME TypeInv, NEW w \in Workers, Publish(w)
    PROVE  Becomes(w, "idle", None, None)
  <1>1. Becomes(w, Idle.at, Idle.cfg, Idle.fd)
    BY JobUpdate, IdleIsAJob DEF Publish
  <1> QED BY <1>1 DEF Idle

\* The program starts: it creates the file, or reads it.
LEMMA StartEffect ==
    ASSUME TypeInv, LoadOrCreate
    PROVE  \/ /\ file = None /\ Becomes(Main, "save", Default, None)
              /\ UNCHANGED <<up, cfg, promised>>
           \/ /\ file # None /\ UNCHANGED job
              /\ cfg' = Loaded(disk[file])
              /\ up' = IF cfg' = None THEN "failed" ELSE "running"
              /\ promised' = IF cfg' = None THEN promised ELSE {cfg'}
  <1>1. CASE file = None
    <2> DEFINE j == [job[Main] EXCEPT !.at = "save", !.cfg = Default]
    <2>1. Main \in Workers /\ job[Main] \in Jobs /\ job[Main].fd = None
      BY UsersWork, JobFields DEF LoadOrCreate
    <2>2. j \in Jobs /\ j.at = "save" /\ j.cfg = Default /\ j.fd = None
      BY <2>1, DefaultIsAConfig DEF Jobs
    <2>3. job' = [job EXCEPT ![Main] = j] /\ UNCHANGED <<up, cfg, promised>>
      BY <1>1 DEF LoadOrCreate
    <2> HIDE DEF j
    <2>4. Becomes(Main, "save", Default, None)
      BY <2>1, <2>2, <2>3, JobUpdate
    <2> QED BY <1>1, <2>3, <2>4
  <1>2. CASE file # None
    BY <1>2 DEF LoadOrCreate
  <1> QED BY <1>1, <1>2

\* A call goes on, or starts, while the process stays as it is.
LEMMA JobsGoOn ==
    ASSUME TypeInv, NEW w \in Workers, NEW at, NEW c, NEW fd,
           Becomes(w, at, c, fd), UNCHANGED up,
           at # "idle" => /\ c \in Configs
                          /\ up = IF w = Main THEN "boot" ELSE "running",
           fd # None <=> at = "write", at = "read" => w # Main
    PROVE  JobsOK' /\ CallsFit'
  BY DEF TypeInv, ConfigTypeOK, JobsOK, CallsFit, Becomes

\* While the program starts there is no other call; when it has failed there
\* is none.
LEMMA OnlyMain ==
    ASSUME TypeInv, NEW w \in Workers
    PROVE  /\ job[w].at # "idle" => up = IF w = Main THEN "boot" ELSE "running"
           /\ up = "boot" /\ w # Main => job[w].at = "idle"
           /\ up = "failed" => job[w].at = "idle"
  BY DEF TypeInv, ConfigTypeOK, JobsOK

\* A call that ends leaves the others alone.
LEMMA JobsEnd ==
    ASSUME TypeInv, NEW w \in Workers, Becomes(w, "idle", None, None),
           w # Main => UNCHANGED up, job[w].at # "idle"
    PROVE  JobsOK' /\ CallsFit'
  <1>1. CASE w = Main
    <2>1. \A v \in Workers: v # w => job[v].at = "idle"
      BY <1>1, OnlyMain
    <2>2. \A v \in Workers: job'[v].at = "idle" /\ job'[v].fd = None
      BY <2>1 DEF Becomes, TypeInv, CallsFit
    <2> QED BY <2>2 DEF JobsOK, CallsFit, Becomes
  <1>2. CASE w # Main
    <2>1. UNCHANGED up
      BY <1>2
    <2> QED BY <2>1, JobsGoOn
  <1> QED BY <1>1, <1>2

\* Every step keeps the types of the calls in progress.
LEMMA NextJobs ==
    ASSUME TypeInv, [Next]_vars PROVE JobsOK' /\ CallsFit'
  <1>1. ASSUME NEW u \in Users, \/ Read(u) \/ UpdateConfig(u)
                                \/ UpdateStormChargeSettings(u)
        PROVE  JobsOK' /\ CallsFit'
    <2>1. u \in Workers /\ u # Main /\ UNCHANGED up /\ up = "running"
      BY <1>1, UsersWork, OnlyMain
         DEF Read, UpdateConfig, UpdateStormChargeSettings
    <2>2. CASE Read(u)
      BY <2>1, <2>2, ReadEffect, JobsGoOn
    <2>3. CASE UpdateConfig(u)
      <3>1. PICK c \in Configs: Becomes(u, "save", c, None)
        BY <2>3, UpdateConfigEffect
      <3> QED BY <2>1, <3>1, JobsGoOn
    <2>4. CASE UpdateStormChargeSettings(u)
      <3>1. PICK c \in Configs: Becomes(u, "save", c, None)
        BY <2>4, SettingsEffect
      <3> QED BY <2>1, <3>1, JobsGoOn
    <2> QED BY <1>1, <2>2, <2>3, <2>4
  <1>2. ASSUME NEW w \in Workers, Open(w) \/ Write(w) \/ Rename(w)
        PROVE  JobsOK' /\ CallsFit'
    <2>1. UNCHANGED up /\ job[w].at # "idle"
      BY <1>2 DEF Open, Write, Rename
    <2>2. up = (IF w = Main THEN "boot" ELSE "running")
          /\ job[w].cfg \in Configs
      BY <2>1, OnlyMain, JobFields
    <2>3. CASE Open(w)
      <3>1. Becomes(w, "write", job[w].cfg, tmp') /\ tmp' # None
        BY <2>3, SaveEffect, NoneIsNot
      <3> QED BY <2>1, <2>2, <3>1, JobsGoOn
    <2>4. CASE Write(w)
      BY <2>1, <2>2, <2>4, SaveEffect, JobsGoOn
    <2>5. CASE Rename(w)
      BY <2>1, <2>2, <2>5, SaveEffect, JobsGoOn
    <2> QED BY <1>2, <2>3, <2>4, <2>5
  <1>3. ASSUME NEW w \in Workers, \/ Refuse(w) \/ WriteFails(w)
                                  \/ RenameFails(w)
        PROVE  JobsOK' /\ CallsFit'
    <2>1. Fails(w) /\ job[w].at # "idle"
      BY <1>3 DEF Refuse, WriteFails, RenameFails
    <2> QED BY <2>1, FailsEffect, JobsEnd DEF Fails
  <1>4. ASSUME NEW w \in Workers, Publish(w) PROVE JobsOK' /\ CallsFit'
    <2>1. job[w].at # "idle" /\ (w # Main => UNCHANGED up)
      BY <1>4, OnlyMain DEF Publish
    <2> QED BY <1>4, <2>1, PublishEffect, JobsEnd
  <1>5. CASE LoadOrCreate
    <2>1. up = "boot" /\ Main \in Workers /\ job[Main].at = "idle"
      BY <1>5, UsersWork DEF LoadOrCreate
    <2>2. CASE Becomes(Main, "save", Default, None) /\ UNCHANGED up
      BY <2>1, <2>2, DefaultIsAConfig, JobsGoOn
    <2>3. CASE UNCHANGED job
      <3>1. \A w \in Workers: job[w].at = "idle"
        BY <2>1, OnlyMain
      <3> QED BY <2>3, <3>1 DEF TypeInv, ConfigTypeOK, JobsOK, CallsFit
    <2> QED BY <1>5, <2>2, <2>3, StartEffect
  <1>6. CASE Crash
    <2>1. job' \in [Workers -> Jobs]
          /\ \A w \in Workers: job'[w] = Idle
      BY <1>6, IdleIsAJob DEF Crash
    <2> QED BY <2>1 DEF JobsOK, CallsFit, Idle
  <1>7. CASE Restart
    <2>1. \A w \in Workers: job'[w] = job[w] /\ job[w].at = "idle"
      BY <1>7, OnlyMain DEF Restart
    <2>2. UNCHANGED job
      BY <1>7 DEF Restart
    <2> QED BY <2>1, <2>2 DEF TypeInv, ConfigTypeOK, JobsOK, CallsFit
  <1>8. CASE UNCHANGED vars
    BY <1>8 DEF TypeInv, ConfigTypeOK, JobsOK, CallsFit, vars
  <1> QED BY <1>1, <1>2, <1>3, <1>4, <1>5, <1>6, <1>7, <1>8, Steps

\* Every step keeps the files apart and their texts short.
LEMMA NextFiles ==
    ASSUME TypeInv, [Next]_vars PROVE FilesOK'
  <1>1. FilesOK
    BY DEF TypeInv, ConfigTypeOK
  <1>2. ASSUME NEW i \in Inodes, NEW t \in Seq(Sections), Len(t) <= 4,
               disk' = [disk EXCEPT ![i] = t]
        PROVE  /\ disk' \in [Inodes -> Seq(Sections)]
               /\ \A k \in Inodes: Len(disk'[k]) <= 4
    BY <1>1, <1>2 DEF FilesOK
  <1>3. ASSUME NEW w \in Workers, Open(w) PROVE FilesOK'
    <2>1. /\ tmp' \in Inodes /\ tmp' # file
          /\ disk' = [disk EXCEPT ![tmp'] = <<>>]
      BY <1>3, SaveEffect
    <2>2. <<>> \in Seq(Sections) /\ Len(<<>>) <= 4 /\ UNCHANGED file
      BY <1>3 DEF Open
    <2> QED BY <1>1, <1>2, <2>1, <2>2 DEF FilesOK
  <1>4. ASSUME NEW w \in Workers, Write(w) PROVE FilesOK'
    <2> DEFINE old == disk[job[w].fd]
               t == Over(Text(job[w].cfg), old)
    <2>1. job[w].fd \in Inodes /\ job[w].cfg \in Configs
      BY <1>4, JobFields DEF Write
    <2>2. Text(job[w].cfg) \in Seq(Sections) /\ Len(Text(job[w].cfg)) <= 4
      <3>1. Text(job[w].cfg) \in Seq(Sections)
        BY <2>1, TextShape
      <3>2. Len(Text(job[w].cfg)) <= 4
        BY <2>1, TextLength
      <3> QED BY <3>1, <3>2
    <2>3. old \in Seq(Sections) /\ Len(old) <= 4
      BY <1>1, <2>1 DEF FilesOK
    <2> HIDE DEF old
    <2>4. t \in Seq(Sections) /\ Len(t) <= 4
      BY <2>2, <2>3, OverType
    <2>5. disk' = [disk EXCEPT ![job[w].fd] = t] /\ UNCHANGED <<file, tmp>>
      BY <1>4 DEF Write, old
    <2> HIDE DEF t
    <2> QED BY <1>1, <1>2, <2>1, <2>4, <2>5 DEF FilesOK
  <1>5. ASSUME NEW w \in Workers, WriteFails(w) PROVE FilesOK'
    <2>1. job[w].fd \in Inodes /\ job[w].cfg \in Configs
      BY <1>5, JobFields DEF WriteFails
    <2>2. PICK n \in 0 .. 1: disk' = [disk EXCEPT ![job[w].fd] =
                                Over(SubSeq(Text(job[w].cfg), 1, n), @)]
      BY <1>5 DEF WriteFails
    <2> DEFINE old  == disk[job[w].fd]
               part == SubSeq(Text(job[w].cfg), 1, n)
               t    == Over(part, old)
    <2>3. part \in Seq(Sections) /\ Len(part) <= 4
      <3>1. Text(job[w].cfg) \in Seq(Sections) /\ Len(Text(job[w].cfg)) >= 3
        BY <2>1, TextShape
      <3>2. \A i \in 1 .. n: Text(job[w].cfg)[i] \in Sections
        BY <3>1
      <3> QED BY <3>2, SubSeqProperties
    <2>4. old \in Seq(Sections) /\ Len(old) <= 4
      BY <1>1, <2>1 DEF FilesOK
    <2> HIDE DEF old, part
    <2>5. t \in Seq(Sections) /\ Len(t) <= 4
      BY <2>3, <2>4, OverType
    <2>6. disk' = [disk EXCEPT ![job[w].fd] = t] /\ UNCHANGED <<file, tmp>>
      BY <1>5, <2>2 DEF WriteFails, old, part
    <2> HIDE DEF t
    <2> QED BY <1>1, <1>2, <2>1, <2>5, <2>6 DEF FilesOK
  <1>6. ASSUME NEW w \in Workers, Rename(w) PROVE FilesOK'
    BY <1>1, <1>6 DEF FilesOK, Rename
  <1>7. CASE UNCHANGED <<file, tmp, disk>>
    BY <1>1, <1>7 DEF FilesOK
  <1> QED BY <1>3, <1>4, <1>5, <1>6, <1>7, Steps
          DEF Read, UpdateConfig, UpdateStormChargeSettings, Refuse,
              RenameFails, Publish, LoadOrCreate, Crash, Restart, vars

\* Every step keeps the process in one of its states; what runs has a
\* configuration.
LEMMA NextProcess ==
    ASSUME TypeInv, [Next]_vars PROVE ProcessOK'
  <1>1. ProcessOK
    BY DEF TypeInv, ConfigTypeOK
  <1>2. ASSUME NEW w \in Workers, Publish(w) PROVE ProcessOK'
    <2>1. job[w].cfg \in Configs
      BY <1>2, JobFields DEF Publish
    <2> QED BY <1>2, <2>1, NoneIsNot DEF Publish, ProcessOK
  <1>3. CASE LoadOrCreate
    <2>1. Loaded(disk[file]) \in Configs \cup {None}
      BY LoadedIsValid
    <2> QED BY <1>1, <1>3, <2>1, StartEffect DEF ProcessOK
  <1>4. ASSUME NEW w \in Workers, Fails(w), UNCHANGED cfg PROVE ProcessOK'
    BY <1>1, <1>4 DEF Fails, ProcessOK
  <1>5. CASE Crash \/ Restart
    BY <1>5 DEF Crash, Restart, ProcessOK
  <1>6. CASE UNCHANGED <<up, cfg>>
    BY <1>1, <1>6 DEF ProcessOK
  <1> QED BY <1>2, <1>3, <1>4, <1>5, <1>6, Steps
          DEF Read, UpdateConfig, UpdateStormChargeSettings, Refuse, Open,
              Write, WriteFails, Rename, RenameFails, vars

\* Every step keeps the bounds and the histories.
LEMMA NextHistory ==
    ASSUME TypeInv, [Next]_vars PROVE HistoryOK'
  <1>1. HistoryOK /\ load.requests \in Nat /\ load.faults \in Nat
    BY WorkloadsAssumption DEF TypeInv, ConfigTypeOK, HistoryOK
  <1>2. UNCHANGED load
    BY Steps DEF Read, UpdateConfig, UpdateStormChargeSettings, Refuse, Open,
       Write, WriteFails, Rename, RenameFails, Publish, LoadOrCreate, Crash,
       Restart, vars
  <1>3. requests' \in 0 .. load.requests
    <2>1. \A u \in Users: Read(u) => requests' \in 0 .. load.requests
      BY <1>1 DEF Read, HistoryOK
    <2>2. UNCHANGED requests => requests' \in 0 .. load.requests
      BY <1>1 DEF HistoryOK
    <2> QED BY <2>1, <2>2, Steps DEF UpdateConfig,
          UpdateStormChargeSettings, Refuse, Open, Write, WriteFails, Rename,
          RenameFails, Publish, LoadOrCreate, Crash, Restart, vars
  <1>4. faults' \in 0 .. load.faults
    <2>1. Fault => faults' \in 0 .. load.faults
      BY <1>1 DEF Fault, HistoryOK
    <2> QED BY <1>1, <2>1, Steps DEF HistoryOK, Read, UpdateConfig,
          UpdateStormChargeSettings, Refuse, Open, Write, WriteFails, Rename,
          RenameFails, Publish, LoadOrCreate, Crash, Restart, vars
  <1>5. overlapped' \in BOOLEAN
    BY <1>1, Steps, Zenon DEF HistoryOK, Read, UpdateConfig,
       UpdateStormChargeSettings, Refuse, Open, Write, WriteFails, Rename,
       RenameFails, Publish, LoadOrCreate, Crash, Restart, vars
  <1>6. promised' \subseteq Configs
    <2>1. ASSUME NEW w \in Workers, Rename(w) \/ Publish(w)
          PROVE  promised' \subseteq Configs
      <3>1. job[w].cfg \in Configs
        BY <2>1, JobFields DEF Rename, Publish
      <3> QED BY <1>1, <2>1, <3>1 DEF HistoryOK, Rename, Publish
    <2>2. LoadOrCreate => promised' \subseteq Configs
      BY <1>1, StartEffect, LoadedIsValid DEF HistoryOK
    <2>3. UNCHANGED promised => promised' \subseteq Configs
      BY <1>1 DEF HistoryOK
    <2> QED BY <2>1, <2>2, <2>3, Steps DEF Read, UpdateConfig,
          UpdateStormChargeSettings, Refuse, Open, Write, WriteFails,
          RenameFails, Crash, Restart, vars
  <1> QED BY <1>2, <1>3, <1>4, <1>5, <1>6 DEF HistoryOK, TypeInv, ConfigTypeOK

\* The types hold at first,
LEMMA InitType == Init => TypeInv
  <1> SUFFICES ASSUME Init PROVE TypeInv
    OBVIOUS
  <1>1. \A w \in Workers: job[w] = Idle
    BY DEF Init
  <1>2. JobsOK /\ CallsFit
    BY <1>1, IdleIsAJob DEF Init, JobsOK, CallsFit, Idle
  <1>3. FilesOK /\ ProcessOK
    BY DEF Init, FilesOK, ProcessOK
  <1>4. HistoryOK
    <2>1. load \in Workloads /\ load.requests \in Nat /\ load.faults \in Nat
      BY WorkloadsAssumption DEF Init
    <2>2. 0 \in 0 .. load.requests /\ 0 \in 0 .. load.faults
      BY <2>1
    <2> QED BY <2>1, <2>2 DEF Init, HistoryOK
  <1> QED BY <1>2, <1>3, <1>4 DEF TypeInv, ConfigTypeOK

\* and are kept.
LEMMA NextType == TypeInv /\ [Next]_vars => TypeInv'
  BY NextJobs, NextFiles, NextProcess, NextHistory DEF TypeInv, ConfigTypeOK

\* The type invariant (config.go, app.go): the configuration in use, the two
\* files, the calls in progress, of which those that have begun hold a
\* configuration and those that write hold an inode.
THEOREM TypeCorrect == Spec => []ConfigTypeOK
  <1>1. TypeInv => ConfigTypeOK
    BY DEF TypeInv
  <1> QED BY <1>1, InitType, NextType, PTL DEF Spec

---------------------------------------------------------------------------
(* The configuration in use is a valid one.                                *)

\* Save validates, and Load does: nothing else gets into use.
LEMMA NextValid ==
    ASSUME TypeInv, ValidFits, [Next]_vars PROVE ValidFits'
  <1>1. ASSUME NEW w \in Workers, NEW at, NEW c, NEW fd, Becomes(w, at, c, fd),
               at \in {"write", "rename", "publish"} => Validate(c),
               up' = "running" => up = "running" /\ UNCHANGED cfg
        PROVE  ValidFits'
    <2>1. up' = "running" => Validate(cfg')
      BY <1>1 DEF ValidFits
    <2>2. ASSUME NEW v \in Workers, job'[v].at \in {"write", "rename", "publish"}
          PROVE  Validate(job'[v].cfg)
      <3>1. CASE v = w
        BY <1>1, <2>2, <3>1 DEF Becomes
      <3>2. CASE v # w
        BY <1>1, <2>2, <3>2 DEF Becomes, ValidFits
      <3> QED BY <3>1, <3>2
    <2> QED BY <2>1, <2>2 DEF ValidFits
  <1>2. ASSUME NEW u \in Users, \/ Read(u) \/ UpdateConfig(u)
                                \/ UpdateStormChargeSettings(u)
        PROVE  ValidFits'
    <2>1. u \in Workers /\ UNCHANGED <<up, cfg>>
      BY <1>2, UsersWork DEF Read, UpdateConfig, UpdateStormChargeSettings
    <2>2. CASE Read(u)
      BY <1>1, <2>1, <2>2, ReadEffect
    <2>3. CASE UpdateConfig(u)
      <3>1. PICK c \in Configs: Becomes(u, "save", c, None)
        BY <2>3, UpdateConfigEffect
      <3> QED BY <1>1, <2>1, <3>1
    <2>4. CASE UpdateStormChargeSettings(u)
      <3>1. PICK c \in Configs: Becomes(u, "save", c, None)
        BY <2>4, SettingsEffect
      <3> QED BY <1>1, <2>1, <3>1
    <2> QED BY <1>2, <2>2, <2>3, <2>4
  <1>3. ASSUME NEW w \in Workers, Open(w) \/ Write(w) \/ Rename(w)
        PROVE  ValidFits'
    <2>1. Validate(job[w].cfg) /\ UNCHANGED <<up, cfg>>
      BY <1>3 DEF Open, Write, Rename, ValidFits
    <2>2. \/ Becomes(w, "write", job[w].cfg, tmp')
          \/ Becomes(w, "rename", job[w].cfg, None)
          \/ Becomes(w, "publish", job[w].cfg, None)
      BY <1>3, SaveEffect
    <2> QED BY <1>1, <2>1, <2>2
  <1>4. ASSUME NEW w \in Workers, Fails(w), UNCHANGED cfg PROVE ValidFits'
    <2>1. up' = "running" => up = "running"
      BY <1>4 DEF Fails
    <2> QED BY <1>1, <1>4, <2>1, FailsEffect
  <1>5. ASSUME NEW w \in Workers, Publish(w) PROVE ValidFits'
    <2>1. Becomes(w, "idle", None, None) /\ Validate(cfg')
      BY <1>5, PublishEffect DEF Publish, ValidFits
    <2> QED BY <2>1 DEF ValidFits, Becomes
  <1>6. CASE LoadOrCreate
    <2>1. CASE Becomes(Main, "save", Default, None) /\ UNCHANGED <<up, cfg>>
      BY <1>1, <2>1, UsersWork
    <2>2. CASE /\ UNCHANGED job /\ cfg' = Loaded(disk[file])
               /\ up' = IF cfg' = None THEN "failed" ELSE "running"
      <3>1. up' = "running" => Validate(cfg')
        BY <2>2, LoadedIsValid
      <3> QED BY <2>2, <3>1 DEF ValidFits
    <2> QED BY <1>6, <2>1, <2>2, StartEffect
  <1>7. CASE Crash
    BY <1>7 DEF Crash, ValidFits, Idle
  <1>8. CASE Restart
    BY <1>8 DEF Restart, ValidFits
  <1>9. CASE UNCHANGED vars
    BY <1>9 DEF vars, ValidFits
  <1> QED BY <1>2, <1>3, <1>4, <1>5, <1>6, <1>7, <1>8, <1>9, Steps
          DEF Refuse, WriteFails, RenameFails

\* Types and validity together.
LEMMA ValidInvariant == Spec => [](TypeInv /\ ValidFits)
  <1>1. Init => TypeInv /\ ValidFits
    <2>1. Init => ValidFits
      BY DEF Init, ValidFits, Idle
    <2> QED BY <2>1, InitType
  <1>2. TypeInv /\ ValidFits /\ [Next]_vars => TypeInv' /\ ValidFits'
    BY NextType, NextValid
  <1> QED BY <1>1, <1>2, PTL DEF Spec

\* Whatever users ask for and whatever the file held, the configuration in use
\* names a profile and a connection mode, so that the errors that the status
\* page and mqttKey ignore do not occur (config.go:216-351, server.go:131-132).
THEOREM OnlyUsableIsServed == Spec => []UsableServed
  <1>1. TypeInv /\ ValidFits => UsableServed
    BY DEF ValidFits, UsableServed, Validate
  <1> QED BY <1>1, ValidInvariant, PTL

---------------------------------------------------------------------------
(* Calls that do not overlap.                                              *)

\* Nobody but w is doing anything, before this step or after it.
Alone(w) == \A v \in Workers: v # w => job[v].at = "idle" /\ job'[v] = job[v]

\* Overlapping is not forgotten.
LEMMA NeverOverlapped ==
    ASSUME TypeInv, [Next]_vars, ~overlapped' PROVE ~overlapped
  BY Steps DEF Read, UpdateConfig, UpdateStormChargeSettings, Refuse, Open,
     Write, WriteFails, Rename, RenameFails, Publish, LoadOrCreate, Crash,
     Restart, vars

\* A call that has begun is alone, and one that begins finds nobody.
LEMMA ActsAlone ==
    ASSUME TypeInv, Single, ~overlapped'
    PROVE  /\ \A w \in Workers: job[w].at # "idle" =>
                 \A at, c, fd: Becomes(w, at, c, fd) => Alone(w)
           /\ \A u \in Users: Read(u) => Alone(u)
           /\ LoadOrCreate => Alone(Main)
  <1>1. ASSUME NEW w \in Workers, job[w].at # "idle",
               NEW at, NEW c, NEW fd, Becomes(w, at, c, fd)
        PROVE  Alone(w)
    BY <1>1 DEF Single, Alone, Becomes
  <1>2. ASSUME NEW u \in Users, Read(u) PROVE Alone(u)
    <2>1. Becomes(u, "read", cfg, None)
      BY <1>2, ReadEffect
    <2>2. \A v \in Users: job[v].at = "idle"
      BY <1>2 DEF Read
    <2>3. job[Main].at = "idle"
      BY <1>2, OnlyMain, UsersWork DEF Read
    <2> QED BY <2>1, <2>2, <2>3, UsersWork DEF Alone, Becomes
  <1>3. ASSUME LoadOrCreate PROVE Alone(Main)
    <2>1. \A v \in Workers: v # Main => job[v].at = "idle"
      BY <1>3, OnlyMain DEF LoadOrCreate
    <2>2. \A v \in Workers: v # Main => job'[v] = job[v]
      BY <1>3, StartEffect DEF Becomes
    <2> QED BY <2>1, <2>2 DEF Alone
  <1> QED BY <1>1, <1>2, <1>3

\* Every step is one of the process, or of one call that is alone.
LEMMA AloneSteps ==
    ASSUME TypeInv, Single, [Next]_vars, ~overlapped'
    PROVE  \/ \E u \in Users:
                 /\ Alone(u) /\ u \in Workers /\ u # Main
                 /\ \/ Read(u) \/ UpdateConfig(u)
                    \/ UpdateStormChargeSettings(u)
           \/ \E w \in Workers:
                 /\ Alone(w)
                 /\ \/ Refuse(w) \/ Open(w) \/ Write(w) \/ WriteFails(w)
                    \/ Rename(w) \/ RenameFails(w) \/ Publish(w)
           \/ LoadOrCreate /\ Alone(Main)
           \/ Crash \/ Restart \/ UNCHANGED vars
  <1>1. ASSUME NEW u \in Users, UpdateConfig(u) \/ UpdateStormChargeSettings(u)
        PROVE  Alone(u)
    <2>1. u \in Workers /\ job[u].at # "idle"
      BY <1>1, UsersWork DEF UpdateConfig, UpdateStormChargeSettings
    <2>2. \E c \in Configs: Becomes(u, "save", c, None)
      BY <1>1, UpdateConfigEffect, SettingsEffect
    <2> QED BY <2>1, <2>2, ActsAlone
  <1>2. ASSUME NEW w \in Workers, Open(w) \/ Write(w) \/ Rename(w)
        PROVE  Alone(w)
    <2>1. job[w].at # "idle"
      BY <1>2 DEF Open, Write, Rename
    <2>2. \E at, fd: Becomes(w, at, job[w].cfg, fd)
      BY <1>2, SaveEffect
    <2> QED BY <2>1, <2>2, ActsAlone
  <1>3. ASSUME NEW w \in Workers, \/ Refuse(w) \/ WriteFails(w)
                                  \/ RenameFails(w) \/ Publish(w)
        PROVE  Alone(w)
    <2>1. job[w].at # "idle"
      BY <1>3 DEF Refuse, WriteFails, RenameFails, Publish
    <2>2. Becomes(w, "idle", None, None)
      BY <1>3, FailsEffect, PublishEffect DEF Refuse, WriteFails, RenameFails
    <2> QED BY <2>1, <2>2, ActsAlone
  <1> QED BY <1>1, <1>2, <1>3, ActsAlone, Steps, UsersWork

\* A call at a time stays a call at a time.
LEMMA NextSingle ==
    ASSUME TypeInv, Single, [Next]_vars, ~overlapped' PROVE Single'
  <1>1. ASSUME NEW w \in Workers, Alone(w) PROVE Single'
    BY <1>1 DEF Alone, Single
  <1>2. CASE Crash
    BY <1>2 DEF Crash, Single, Idle
  <1>3. CASE UNCHANGED job
    BY <1>3 DEF Single
  <1> QED BY <1>1, <1>2, <1>3, AloneSteps, UsersWork DEF Restart, vars

\* A call changes only what it is about.
LEMMA NextChange ==
    ASSUME TypeInv, Single, ChangeFits, [Next]_vars, ~overlapped'
    PROVE  ChangeFits'
  <1>1. ASSUME NEW u \in Users, Alone(u),
               \/ job'[u].at = "read" /\ job'[u].cfg = cfg'
               \/ /\ job'[u].at # "read"
                  /\ \A f \in Fields \ {job'[u].field}: job'[u].cfg[f] = cfg'[f]
        PROVE  ChangeFits'
    <2>1. \A v \in Users: v # u => job'[v].at = "idle"
      BY <1>1, UsersWork DEF Alone
    <2> QED BY <1>1, <2>1 DEF ChangeFits
  <1>2. ASSUME NEW w \in Workers, Alone(w), job'[w].at = "idle" \/ w = Main
        PROVE  ChangeFits'
    <2>1. \A v \in Users: job'[v].at = "idle"
      BY <1>2, UsersWork DEF Alone
    <2> QED BY <2>1 DEF ChangeFits
  <1>3. ASSUME NEW u \in Users, Alone(u), \/ Read(u) \/ UpdateConfig(u)
                                          \/ UpdateStormChargeSettings(u)
        PROVE  ChangeFits'
    <2>1. CASE Read(u)
      <3>1. job'[u].at = "read" /\ job'[u].cfg = cfg /\ UNCHANGED cfg
        BY <2>1, ReadEffect DEF Becomes, Read
      <3> QED BY <1>1, <1>3, <3>1
    <2>2. CASE UpdateConfig(u)
      <3>1. PICK c \in Configs:
              /\ Becomes(u, "save", c, None) /\ job'[u].field = "main"
              /\ c.soc = job[u].cfg.soc /\ c.current = job[u].cfg.current
        BY <2>2, UpdateConfigEffect
      <3>2. job[u].cfg = cfg /\ UNCHANGED cfg
        BY <2>2 DEF UpdateConfig, ChangeFits
      <3>3. job'[u].at = "save" /\ job'[u].cfg = c
        BY <3>1 DEF Becomes
      <3>4. \A f \in Fields \ {"main"}: c[f] = cfg[f]
        BY <3>1, <3>2 DEF Fields
      <3> QED BY <1>1, <1>3, <3>1, <3>2, <3>3, <3>4
    <2>3. CASE UpdateStormChargeSettings(u)
      <3>1. PICK g \in {"soc", "current"}, c \in Configs:
              /\ Becomes(u, "save", c, None) /\ job'[u].field = g
              /\ c.main = cfg.main
              /\ g # "soc" => c.soc = job[u].cfg.soc
              /\ g # "current" => c.current = job[u].cfg.current
        BY <2>3, SettingsEffect
      <3>2. job[u].cfg = cfg /\ UNCHANGED cfg
        BY <2>3 DEF UpdateStormChargeSettings, ChangeFits
      <3>3. job'[u].at = "save" /\ job'[u].cfg = c
        BY <3>1 DEF Becomes
      <3>4. \A f \in Fields \ {g}: c[f] = cfg[f]
        BY <3>1, <3>2 DEF Fields
      <3> QED BY <1>1, <1>3, <3>1, <3>2, <3>3, <3>4
    <2> QED BY <1>3, <2>1, <2>2, <2>3
  <1>4. ASSUME NEW w \in Workers, Alone(w), Open(w) \/ Write(w) \/ Rename(w)
        PROVE  ChangeFits'
    <2>1. /\ job'[w].field = job[w].field /\ job'[w].cfg = job[w].cfg
          /\ job'[w].at \notin {"idle", "read"}
          /\ job[w].at \notin {"idle", "read"} /\ UNCHANGED cfg
      BY <1>4, SaveEffect DEF Becomes, Open, Write, Rename
    <2>2. CASE w \in Users
      <3>1. \A f \in Fields \ {job[w].field}: job[w].cfg[f] = cfg[f]
        BY <2>1, <2>2 DEF ChangeFits
      <3> QED BY <1>1, <1>4, <2>1, <2>2, <3>1
    <2> QED BY <1>2, <1>4, <2>2, UsersWork
  <1>5. ASSUME NEW w \in Workers, Alone(w), \/ Refuse(w) \/ WriteFails(w)
                                            \/ RenameFails(w) \/ Publish(w)
        PROVE  ChangeFits'
    <2>1. Becomes(w, "idle", None, None)
      BY <1>5, FailsEffect, PublishEffect DEF Refuse, WriteFails, RenameFails
    <2> QED BY <1>2, <1>5, <2>1 DEF Becomes
  <1>6. CASE Crash \/ Restart
    <2>1. \A v \in Users: job'[v].at = "idle"
      BY <1>6, UsersWork, OnlyMain DEF Crash, Restart, Idle
    <2> QED BY <2>1 DEF ChangeFits
  <1>7. CASE UNCHANGED vars
    BY <1>7 DEF ChangeFits, vars
  <1> QED BY <1>2, <1>3, <1>4, <1>5, <1>6, <1>7, AloneSteps, UsersWork

\* The file is kept as it is, and so is what is in use, or nothing is.
LEMMA FileKept ==
    ASSUME FileFits, UNCHANGED <<file, promised>>,
           file # None => disk'[file] = disk[file],
           \/ up' # "running"
           \/ /\ UNCHANGED <<up, cfg>>
              /\ \A u \in Users: job[u].at = "publish" => job'[u].at = "publish"
    PROVE  FileFits'
  BY DEF FileFits

\* What Save has done so far stays.
LEMMA NextDone ==
    ASSUME TypeInv, ValidFits, Single, \A w \in Workers: Done(w),
           [Next]_vars, ~overlapped'
    PROVE  \A w \in Workers: Done(w)'
  <1>1. ASSUME NEW w \in Workers, Alone(w), Done(w)'
        PROVE  \A v \in Workers: Done(v)'
    BY <1>1 DEF Alone, Done
  <1>2. FilesOK
    BY DEF TypeInv, ConfigTypeOK
  <1>3. ASSUME NEW u \in Users, Alone(u), \/ Read(u) \/ UpdateConfig(u)
                                          \/ UpdateStormChargeSettings(u)
        PROVE  Done(u)'
    <2>1. job'[u].at \in {"read", "save"}
      BY <1>3, ReadEffect, UpdateConfigEffect, SettingsEffect DEF Becomes
    <2> QED BY <2>1 DEF Done
  <1>4. ASSUME NEW w \in Workers, Alone(w), Open(w) PROVE Done(w)'
    <2>1. /\ tmp' \in Inodes /\ disk' = [disk EXCEPT ![tmp'] = <<>>]
          /\ Becomes(w, "write", job[w].cfg, tmp')
      BY <1>4, SaveEffect
    <2>2. disk'[tmp'] = <<>> /\ tmp' # None
      BY <1>2, <2>1, NoneIsNot DEF FilesOK
    <2> QED BY <2>1, <2>2 DEF Done, Becomes
  <1>5. ASSUME NEW w \in Workers, Alone(w), Write(w) PROVE Done(w)'
    <2>1. Becomes(w, "rename", job[w].cfg, None)
      BY <1>5, SaveEffect
    <2>2. tmp # None /\ job[w].fd = tmp /\ disk[tmp] = <<>>
      BY <1>5 DEF Write, Done
    <2>3. tmp \in Inodes /\ job[w].cfg \in Configs
      BY <1>2, <1>5, <2>2, JobFields DEF FilesOK, Write
    <2>4. disk'[tmp] = Over(Text(job[w].cfg), <<>>) /\ UNCHANGED tmp
      BY <1>2, <1>5, <2>2, <2>3 DEF Write, FilesOK
    <2>5. disk'[tmp'] = Text(job[w].cfg)
      BY <2>3, <2>4, TextShape, OverNothing
    <2> QED BY <2>1, <2>2, <2>4, <2>5 DEF Done, Becomes
  <1>6. ASSUME NEW w \in Workers, Alone(w), Rename(w) PROVE Done(w)'
    <2>1. Becomes(w, "publish", job[w].cfg, None)
      BY <1>6, SaveEffect
    <2>2. /\ tmp # None /\ disk[tmp] = Text(job[w].cfg)
          /\ file' = tmp /\ UNCHANGED disk /\ Validate(job[w].cfg)
      BY <1>6 DEF Rename, Done, ValidFits
    <2>3. Loaded(Text(job[w].cfg)) = job[w].cfg
      BY <1>6, <2>2, JobFields, LoadsWhatIsSaved DEF Rename
    <2> QED BY <2>1, <2>2, <2>3 DEF Done, Becomes
  <1>7. ASSUME NEW w \in Workers, Alone(w), \/ Refuse(w) \/ WriteFails(w)
                                            \/ RenameFails(w) \/ Publish(w)
        PROVE  Done(w)'
    <2>1. Becomes(w, "idle", None, None)
      BY <1>7, FailsEffect, PublishEffect DEF Refuse, WriteFails, RenameFails
    <2> QED BY <2>1 DEF Becomes, Done
  <1>8. ASSUME LoadOrCreate, Alone(Main) PROVE Done(Main)'
    <2>1. job'[Main].at \in {"idle", "save"}
      BY <1>8, StartEffect DEF Becomes, LoadOrCreate
    <2> QED BY <2>1 DEF Done
  <1>9. CASE Crash
    BY <1>9 DEF Crash, Done, Idle
  <1>10. CASE Restart \/ UNCHANGED vars
    BY <1>10 DEF Restart, Done, vars
  <1> QED BY <1>1, <1>3, <1>4, <1>5, <1>6, <1>7, <1>8, <1>9, <1>10,
             AloneSteps, UsersWork

\* The file holds what was acknowledged last, or is being acknowledged.
LEMMA NextFile ==
    ASSUME TypeInv, ValidFits, Single, FileFits, \A w \in Workers: Done(w),
           [Next]_vars, ~overlapped'
    PROVE  FileFits'
  <1>1. FilesOK
    BY DEF TypeInv, ConfigTypeOK
  <1>2. ASSUME NEW u \in Users, Alone(u), u \in Workers,
               \/ Read(u) \/ UpdateConfig(u) \/ UpdateStormChargeSettings(u)
        PROVE  FileFits'
    <2>1. job[u].at \in {"idle", "read"}
          /\ UNCHANGED <<up, cfg, file, disk, promised>>
      BY <1>2 DEF Read, UpdateConfig, UpdateStormChargeSettings
    <2>2. \A v \in Users: job[v].at # "publish"
      BY <1>2, <2>1, UsersWork DEF Alone
    <2> QED BY <2>1, <2>2, FileKept
  <1>3. ASSUME NEW w \in Workers, Alone(w), job[w].at # "publish"
        PROVE  \A u \in Users: job[u].at # "publish"
    BY <1>3, UsersWork DEF Alone
  <1>4. ASSUME NEW w \in Workers, Alone(w), Open(w) PROVE FileFits'
    <2>1. tmp' # file /\ disk' = [disk EXCEPT ![tmp'] = <<>>]
      BY <1>4, SaveEffect
    <2>2. file # None => disk'[file] = disk[file]
      BY <1>1, <2>1 DEF FilesOK
    <2>3. job[w].at # "publish" /\ UNCHANGED <<up, cfg, file, promised>>
      BY <1>4 DEF Open
    <2> QED BY <1>3, <1>4, <2>2, <2>3, FileKept
  <1>5. ASSUME NEW w \in Workers, Alone(w), Write(w) \/ WriteFails(w)
        PROVE  FileFits'
    <2>1. job[w].fd = tmp /\ tmp # None /\ job[w].at # "publish"
      BY <1>5 DEF Write, WriteFails, Done
    <2>2. file # None => disk'[file] = disk[file]
      BY <1>1, <1>5, <2>1 DEF Write, WriteFails, FilesOK
    <2>3. UNCHANGED <<cfg, file, promised>>
          /\ (UNCHANGED up \/ up' # "running")
      BY <1>5 DEF Write, WriteFails, Fails
    <2> QED BY <1>3, <1>5, <2>1, <2>2, <2>3, FileKept
  <1>6. ASSUME NEW w \in Workers, Alone(w), Rename(w) PROVE FileFits'
    <2>1. Done(w)'
      BY <1>6, NextDone
    <2>2. Becomes(w, "publish", job[w].cfg, None)
          /\ promised' = promised \cup {job[w].cfg} /\ UNCHANGED up
      BY <1>6, SaveEffect DEF Rename
    <2>3. file' # None /\ Loaded(disk'[file']) = job[w].cfg
      BY <2>1, <2>2 DEF Done, Becomes
    <2>4. up = "running" => w \in Users
      BY <1>6, OnlyMain, UsersWork DEF Rename
    <2>5. up = "running" => \E u \in Users: job'[u].at = "publish"
      BY <2>2, <2>4 DEF Becomes
    <2> QED BY <2>2, <2>3, <2>5 DEF FileFits
  <1>7. ASSUME NEW w \in Workers, Alone(w), Refuse(w) \/ RenameFails(w)
        PROVE  FileFits'
    <2>1. /\ job[w].at # "publish" /\ UNCHANGED <<cfg, file, disk, promised>>
          /\ UNCHANGED up \/ up' # "running"
      BY <1>7 DEF Refuse, RenameFails, Fails
    <2> QED BY <1>3, <1>7, <2>1, FileKept
  <1>8. ASSUME NEW w \in Workers, Alone(w), Publish(w) PROVE FileFits'
    <2>1. file # None /\ Loaded(disk[file]) = job[w].cfg
      BY <1>8 DEF Publish, Done
    <2> QED BY <1>8, <2>1 DEF Publish, FileFits
  <1>9. CASE LoadOrCreate
    <2>1. UNCHANGED <<file, disk>> /\ up = "boot"
      BY <1>9 DEF LoadOrCreate
    <2>2. CASE file = None /\ UNCHANGED <<up, cfg, promised>>
      BY <2>1, <2>2 DEF FileFits
    <2>3. CASE /\ file # None /\ cfg' = Loaded(disk[file])
               /\ up' = IF cfg' = None THEN "failed" ELSE "running"
               /\ promised' = IF cfg' = None THEN promised ELSE {cfg'}
      BY <2>1, <2>3 DEF FileFits
    <2> QED BY <1>9, <2>2, <2>3, StartEffect
  <1>10. CASE Crash \/ Restart
    BY <1>10 DEF Crash, Restart, FileFits
  <1>11. CASE UNCHANGED vars
    BY <1>11 DEF FileFits, vars
  <1> QED BY <1>2, <1>4, <1>5, <1>6, <1>7, <1>8, <1>9, <1>10, <1>11,
             AloneSteps

\* The invariant of calls that do not overlap: who is alone, what a call may
\* differ in from what is in use, what it has done to the temporary file and
\* what the file holds.
LEMMA ConfigInvariant == Spec => []ConfigInv
  <1>1. Init => ConfigInv
    <2>1. Init => ValidFits /\ AloneInv
      <3> SUFFICES ASSUME Init PROVE ValidFits /\ AloneInv
        OBVIOUS
      <3>1. \A w \in Workers: job[w] = Idle /\ job[w].at = "idle"
        BY DEF Init, Idle
      <3>2. up = "boot" /\ promised = {}
        BY DEF Init
      <3> QED BY <3>1, <3>2, UsersWork DEF ValidFits, AloneInv, Single,
                ChangeFits, FileFits, Done
    <2> QED BY <2>1, InitType DEF ConfigInv
  <1>2. ConfigInv /\ [Next]_vars => ConfigInv'
    <2> SUFFICES ASSUME ConfigInv, [Next]_vars PROVE ConfigInv'
      OBVIOUS
    <2>1. TypeInv /\ ValidFits /\ AloneInv
      BY DEF ConfigInv
    <2>2. TypeInv' /\ ValidFits'
      BY <2>1, NextType, NextValid
    <2>3. ASSUME ~overlapped'
          PROVE  Single' /\ ChangeFits' /\ FileFits'
                 /\ \A w \in Workers: Done(w)'
      <3>1. Single /\ ChangeFits /\ FileFits /\ \A w \in Workers: Done(w)
        BY <2>1, <2>3, NeverOverlapped DEF AloneInv
      <3> QED BY <2>1, <2>3, <3>1, NextSingle, NextChange, NextFile, NextDone
    <2>4. AloneInv'
      BY <2>3 DEF AloneInv
    <2> QED BY <2>2, <2>4 DEF ConfigInv
  <1> QED BY <1>1, <1>2, PTL DEF Spec

\* If calls do not overlap, the program finds what it acknowledged last, or
\* was about to, whenever it dies and is started again and whichever call of
\* the system fails; and with no call in progress the file and the memory
\* agree (config.go:186-214, app.go:224-236).
THEOREM AcknowledgedIsDurable == Spec => []Durable
  <1>1. ConfigInv => Durable
    BY DEF ConfigInv, AloneInv, FileFits, Durable
  <1> QED BY <1>1, ConfigInvariant, PTL

\* If calls do not overlap, a request changes nothing of the configuration but
\* what it is about, although it was read at another time
\* (app.go:260-275, mqtt/service.go:593-619).
THEOREM RequestsKeepTheRest == Spec => OnlyItsChange
  <1>1. ConfigInv /\ [Next]_vars =>
          [up = "running" /\ up' = "running" /\ ~overlapped =>
             \A f \in {"main", "soc", "current"}: cfg'[f] # cfg[f] =>
               \E u \in Users: job[u].at = "publish" /\ job[u].field = f]_vars
    <2> SUFFICES ASSUME ConfigInv, [Next]_vars, up = "running",
                        up' = "running", ~overlapped,
                        NEW f \in {"main", "soc", "current"},
                        cfg'[f] # cfg[f]
                 PROVE  \E u \in Users: /\ job[u].at = "publish"
                                        /\ job[u].field = f
      OBVIOUS
    <2>1. TypeInv /\ ChangeFits
      BY DEF ConfigInv, AloneInv
    <2>2. cfg' # cfg
      OBVIOUS
    <2>3. PICK w \in Workers: Publish(w)
      BY <2>2, Steps DEF Read, UpdateConfig, UpdateStormChargeSettings, Refuse,
         Open, Write, WriteFails, Rename, RenameFails, LoadOrCreate, Crash,
         Restart, vars
    <2>4. w \in Users /\ job[w].at = "publish" /\ cfg' = job[w].cfg
      BY <2>1, <2>3, OnlyMain, UsersWork DEF Publish
    <2>5. job[w].field = f
      BY <2>1, <2>4 DEF ChangeFits, Fields
    <2> QED BY <2>4, <2>5
  <1> QED BY <1>1, ConfigInvariant, PTL DEF Spec, OnlyItsChange
=============================================================================
