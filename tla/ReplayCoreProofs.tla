-------------------------- MODULE ReplayCoreProofs --------------------------
(***************************************************************************)
(* The safety properties of ReplayCore, proved for any slots, sources and  *)
(* projects and any number of saves, projects and mishaps: that a filter   *)
(* records for a take alone, that the filters are those of the rig the     *)
(* open project was last given, that a take is whole, and that no filter   *)
(* goes before the status dock has heard that it came.                     *)
(***************************************************************************)
EXTENDS ReplayCore, SequenceTheorems, TLAPS

-----------------------------------------------------------------------------
(* Settings.                                                               *)

Rig == [kind : {"rig"}, cams : [Slots -> Sources \cup {NoSource}], set : Int,
        project : Projects \cup {NoProject}]

\* A project's file, when it can be read, is the rig of that project.
Settings ==
    /\ config \in Rig
    /\ DOMAIN saved = Projects /\ DOMAIN rig = Projects
    /\ \A p \in Projects : saved[p] \in {Unreadable, rig[p]}
    /\ \A p \in Projects : rig[p] = NoRig \/ (rig[p] \in Rig /\ rig[p].project = p)

\* What is configured is written to the project that is open, and to no other.
LEMMA SavedInPlace ==
    ASSUME Settings, config' \in Rig, saved' = SavedWith(config'), rig' = RigWith(config')
    PROVE  Settings'
<1> DEFINE c == config'
<1>1. CASE c.project = NoProject
  BY <1>1 DEF SavedWith, RigWith, Settings
<1>2. CASE c.project # NoProject
  <2>1. saved' = [saved EXCEPT ![c.project] = c] /\ rig' = [rig EXCEPT ![c.project] = c]
    BY <1>2 DEF SavedWith, RigWith
  <2> HIDE DEF c
  <2>2. DOMAIN saved' = Projects /\ DOMAIN rig' = Projects
    BY <2>1 DEF Settings
  <2>3. \A p \in Projects :
            /\ p = c.project => saved'[p] = c /\ rig'[p] = c
            /\ p # c.project => saved'[p] = saved[p] /\ rig'[p] = rig[p]
    BY <2>1 DEF Settings
  <2>4. c \in Rig
    BY DEF c
  <2> QED
    BY <2>2, <2>3, <2>4 DEF Settings, c
<1> QED
  BY <1>1, <1>2

LEMMA AdoptedIsRig ==
    ASSUME Settings, NEW p \in Projects
    PROVE  Adopted(p) \in Rig /\ Adopted(p).project = p
<1>1. CASE saved[p] \in {NoRig, Unreadable}
  <2>1. Adopted(p) = [config EXCEPT !.project = p]
    BY <1>1 DEF Adopted
  <2> QED
    BY <2>1 DEF Settings, Rig
<1>2. CASE saved[p] \notin {NoRig, Unreadable}
  <2>1. Adopted(p) = saved[p] /\ saved[p] = rig[p] /\ rig[p] # NoRig
    BY <1>2 DEF Adopted, Settings
  <2> QED
    BY <2>1 DEF Settings
<1> QED
  BY <1>1, <1>2

LEMMA InitSettings == Init => Settings
<1> SUFFICES ASSUME Init PROVE Settings
  OBVIOUS
<1>1. FirstRig \in Rig
  BY DEF FirstRig, Rig
<1>2. PICK p \in Projects, s \in Sources :
        rig = [o \in Projects |-> IF o # p THEN NoRig
                                  ELSE [FirstRig EXCEPT !.project = p, !.cams[Min(Slots)] = s]]
  BY DEF Init
<1> DEFINE r == [FirstRig EXCEPT !.project = p, !.cams[Min(Slots)] = s]
<1>3. r \in Rig /\ r.project = p
  <2> DEFINE m == Min(Slots)
  <2>1. r = [[FirstRig EXCEPT !.project = p] EXCEPT !.cams = [FirstRig.cams EXCEPT ![m] = s]]
    BY DEF FirstRig
  <2>2. [FirstRig.cams EXCEPT ![m] = s] \in [Slots -> Sources \cup {NoSource}]
    BY <1>1 DEF Rig
  <2> HIDE DEF r, m
  <2> QED
    BY <1>1, <2>1, <2>2 DEF Rig
<1>4. rig = [o \in Projects |-> IF o # p THEN NoRig ELSE r]
  BY <1>2
<1> HIDE DEF r
<1>5. config = FirstRig /\ saved = rig
  BY DEF Init
<1> QED
  BY <1>1, <1>3, <1>4, <1>5 DEF Settings

LEMMA CreateSettings ==
    ASSUME Settings, NEW then, Create(then) PROVE Settings'
<1>1. PICK p \in Projects : config' = [config EXCEPT !.project = p]
  BY DEF Create
<1>2. config' \in Rig
  BY <1>1 DEF Settings, Rig
<1>3. CASE saved' = SavedWith(config') /\ rig' = RigWith(config')
  BY <1>2, <1>3, SavedInPlace
<1>4. CASE UNCHANGED disk
  BY <1>2, <1>4 DEF disk, Settings
<1> QED
  BY <1>3, <1>4 DEF Create

LEMMA StepSettings == Settings /\ [Next]_vars => Settings'
<1> SUFFICES ASSUME Settings, [Next]_vars PROVE Settings'
  OBVIOUS
<1>1. ASSUME NEW steps, SetConfig(steps) PROVE Settings'
  <2>1. PICK c \in Rigs, s \in {0, 1} : config' = [c EXCEPT !.set = @ + s]
    BY <1>1 DEF SetConfig
  <2>2. PICK cams \in [Slots -> Sources \cup {NoSource}] : c = [config EXCEPT !.cams = cams]
    BY DEF Rigs
  <2>3. c \in Rig
    BY <2>2 DEF Settings, Rig
  <2>4. config' \in Rig
    BY <2>1, <2>3 DEF Rig
  <2>5. saved' = SavedWith(config') /\ rig' = RigWith(config')
    BY <1>1 DEF SetConfig
  <2> QED
    BY <2>4, <2>5, SavedInPlace
<1>2. CASE SaveSettings \/ GuidedSetup
  BY <1>1, <1>2 DEF SaveSettings, GuidedSetup
<1>3. CASE NewProject
  BY <1>3, CreateSettings DEF NewProject
<1>4. CASE CreateGuided
  <2>1. CASE recording
    BY <1>4, <2>1 DEF CreateGuided, disk, Settings
  <2>2. CASE ~recording
    BY <1>4, <2>2, CreateSettings DEF CreateGuided
  <2> QED
    BY <2>1, <2>2
<1>5. CASE OpenProject
  <2>1. PICK p \in Projects :
          /\ config' = Adopted(p)
          /\ saved' = SavedWith(config')
          /\ rig' = IF saved[p] = Unreadable THEN RigWith(config') ELSE rig
          /\ saved[p] # NoRig
    BY <1>5 DEF OpenProject, Opened
  <2>2. config' \in Rig /\ config'.project = p
    BY <2>1, AdoptedIsRig
  <2>3. CASE saved[p] = Unreadable
    BY <2>1, <2>2, <2>3, SavedInPlace
  <2>4. CASE saved[p] # Unreadable
    <3>1. config' = saved[p] /\ rig' = rig
      BY <2>1, <2>4 DEF Adopted
    <3>2. DOMAIN saved' = Projects /\ \A q \in Projects : saved'[q] = saved[q]
      BY <2>1, <2>2, <3>1 DEF SavedWith, Settings
    <3> QED
      BY <2>2, <3>1, <3>2 DEF Settings
  <2> QED
    BY <2>3, <2>4
<1>6. CASE Restart
  <2>1. config' = IF config.project = NoProject THEN config ELSE Adopted(config.project)
    BY <1>6 DEF Restart
  <2>2. config.project \in Projects \cup {NoProject}
    BY DEF Settings, Rig
  <2>3. config' \in Rig
    BY <2>1, <2>2, AdoptedIsRig DEF Settings
  <2> QED
    BY <1>6, <2>3 DEF Restart, disk, Settings
<1>7. CASE Damage
  <2>1. PICK p \in Projects : saved' = [saved EXCEPT ![p] = Unreadable]
    BY <1>7 DEF Damage
  <2> QED
    BY <1>7, <2>1 DEF Damage, Settings
<1>8. ASSUME NEW t \in Threads, Press(t) \/ Step(t) PROVE Settings'
  BY <1>8 DEF Press, PressRec, PressStop, Step, Preflight, Arm, StartIndex, PointStore, disk, Settings
<1>9. CASE Reapply \/ RunTask \/ SwitchCollection \/ RenameSource
  BY <1>9 DEF Reapply, RunTask, SwitchCollection, RenameSource, disk, Settings
<1>10. CASE UNCHANGED vars
  BY <1>10 DEF vars, disk, Settings
<1> QED
  BY <1>2, <1>3, <1>4, <1>5, <1>6, <1>7, <1>8, <1>9, <1>10 DEF Next

-----------------------------------------------------------------------------
(* Filters.                                                                *)

Filter == [kind : {"filter"}, on : BOOLEAN, set : Int, folder : Projects \cup {NoProject}]
FilterMap == [Places -> Filter \cup {NoFilter}]
Task == [kind : {"gone", "came", "prune"}, of : SUBSET Places]
Strays == {"renamed", "another collection"}

Typed ==
    /\ filters \in FilterMap /\ shelf \in FilterMap
    /\ recording \in BOOLEAN /\ present \in SUBSET Sources
    /\ status \in [Slots -> [rec : BOOLEAN, source : Sources \cup {NoSource}]]
    /\ tasks \in Seq(Task)

\* Where the slots of `c` say.
InPlace(fs, c) == \A k \in Places : fs[k] # NoFilter => Owns(c, k[2]) /\ c.cams[k[2]] = k[1]
OnSources(fs) == \A k \in Places : fs[k] # NoFilter => k[1] \in present
Off(fs) == \A k \in Places : ~IsOn(fs, k)

\* What is on was armed, and is where STOP looks for it.
OnIsArmed ==
    strayed \cap Strays = {} => \A k \in Places : IsOn(filters, k) => recording /\ Disarms(k)

Armoury == Typed /\ OnSources(filters) /\ OnIsArmed

LEMMA NoFilterIsNoFilter == NoFilter \notin Filter
  BY DEF NoFilter, Filter

LEMMA PlaceOf == \A k \in Places : k[1] \in Sources /\ k[2] \in Slots
  BY DEF Places

LEMMA Joined ==
    ASSUME NEW S, NEW s \in Seq(S), NEW t \in Seq(S)
    PROVE  /\ s \o t \in Seq(S)
           /\ \A i \in DOMAIN (s \o t) :
                \/ i \in DOMAIN s /\ (s \o t)[i] = s[i]
                \/ i \notin DOMAIN s /\ \E j \in DOMAIN t : (s \o t)[i] = t[j]
<1>1. s \o t \in Seq(S) /\ Len(s \o t) = Len(s) + Len(t)
  OBVIOUS
<1>2. ASSUME NEW i \in DOMAIN (s \o t)
      PROVE  \/ i \in DOMAIN s /\ (s \o t)[i] = s[i]
             \/ i \notin DOMAIN s /\ \E j \in DOMAIN t : (s \o t)[i] = t[j]
  <2>1. i \in 1..(Len(s) + Len(t)) /\ DOMAIN s = 1..Len(s) /\ DOMAIN t = 1..Len(t)
    BY <1>1
  <2>2. CASE i <= Len(s)
    BY <2>1, <2>2
  <2>3. CASE i > Len(s)
    <3>1. i - Len(s) \in DOMAIN t /\ (s \o t)[i] = t[i - Len(s)] /\ i \notin DOMAIN s
      BY <2>1, <2>3
    <3> QED
      BY <3>1
  <2> QED
    BY <2>1, <2>2, <2>3
<1> QED
  BY <1>1, <1>2

\* A notice of arrivals names what has arrived, and no notice is a pruning.
LEMMA Notices ==
    ASSUME NEW kind \in {"gone", "came"}, NEW S \in SUBSET Places
    PROVE  /\ Notice(kind, S) \in Seq(Task)
           /\ \A i \in DOMAIN Notice(kind, S) :
                Notice(kind, S)[i].kind = kind /\ Notice(kind, S)[i].of = S
<1> DEFINE n == [kind |-> kind, of |-> S]
<1>1. n \in Task /\ n.kind = kind /\ n.of = S
  BY DEF Task
<1> HIDE DEF n
<1>2. <<n>> \in Seq(Task) /\ \A i \in DOMAIN <<n>> : <<n>>[i] = n
  BY <1>1
<1>3. Notice(kind, S) = IF S = {} THEN <<>> ELSE <<n>>
  BY DEF Notice, n
<1> QED
  BY <1>1, <1>2, <1>3

LEMMA ToldOf ==
    ASSUME NEW before, NEW after
    PROVE  /\ Told(before, after) \in Seq(Task)
           /\ \A i \in DOMAIN Told(before, after) :
                LET n == Told(before, after)[i]
                IN n.kind # "prune"
                   /\ (n.kind = "came" => n.of = There(after) \ There(before) /\ n.of # {})
<1> DEFINE gone == There(before) \ There(after)
           came == There(after) \ There(before)
           x == Notice("gone", gone)
           y == Notice("came", came)
<1>1. gone \in SUBSET Places /\ came \in SUBSET Places
  BY DEF There
<1> HIDE DEF gone, came
<1>2. x \in Seq(Task) /\ \A i \in DOMAIN x : x[i].kind = "gone"
  BY <1>1, Notices
<1>3. y \in Seq(Task) /\ \A i \in DOMAIN y : y[i].kind = "came" /\ y[i].of = came
  BY <1>1, Notices
<1>4. DOMAIN y # {} => came # {}
  BY DEF Notice
<1> HIDE DEF x, y
<1>5. x \o y \in Seq(Task)
      /\ \A i \in DOMAIN (x \o y) :
            LET n == (x \o y)[i]
            IN n.kind # "prune" /\ (n.kind = "came" => n.of = came /\ n.of # {})
  BY <1>2, <1>3, <1>4, Joined
<1> QED
  BY <1>5 DEF Told, x, y, gone, came

\* The notices of what a collection brings come first, and the pruning last.
LEMMA LoadedOf ==
    ASSUME NEW fs
    PROVE  /\ Loaded(fs) \in Seq(Task)
           /\ \A i \in DOMAIN Loaded(fs) : Loaded(fs)[i].kind = "came" =>
                /\ Loaded(fs)[i].of = There(fs)
                /\ \A j \in DOMAIN Loaded(fs) : j < i => Loaded(fs)[j].kind # "prune"
<1> DEFINE x == Notice("came", There(fs))
           e == Prune
<1>1. x \in Seq(Task) /\ \A i \in DOMAIN x : x[i].kind = "came" /\ x[i].of = There(fs)
  BY Notices DEF There
<1>2. e \in Task /\ e.kind = "prune"
  BY DEF Prune, Task
<1> HIDE DEF x, e
<1>3. /\ x \o <<e>> \in Seq(Task) /\ DOMAIN (x \o <<e>>) = 1..(Len(x) + 1)
      /\ DOMAIN x = 1..Len(x) /\ Len(x) \in Nat
      /\ \A i \in 1..Len(x) : (x \o <<e>>)[i] = x[i]
      /\ (x \o <<e>>)[Len(x) + 1] = e
  BY <1>1, <1>2
<1> DEFINE z == x \o <<e>>
<1> HIDE DEF z
<1>4. ASSUME NEW i \in DOMAIN z, z[i].kind = "came"
      PROVE  z[i].of = There(fs) /\ \A j \in DOMAIN z : j < i => z[j].kind # "prune"
  <2>1. i \in DOMAIN x /\ z[i] = x[i]
    BY <1>2, <1>3, <1>4 DEF z
  <2>2. \A j \in DOMAIN z : j < i => j \in DOMAIN x /\ z[j] = x[j]
    BY <1>3, <2>1 DEF z
  <2> QED
    BY <1>1, <2>1, <2>2
<1>5. Loaded(fs) = z
  BY DEF Loaded, z, x, e
<1> QED
  BY <1>3, <1>4, <1>5 DEF z

\* After the additions nothing records: what was there is in its place, and is made again.
LEMMA AddedAreOff ==
    ASSUME NEW fs \in FilterMap, NEW c \in Rig, InPlace(fs, c), OnSources(fs)
    PROVE  /\ AddFilters(fs, c) \in FilterMap /\ Off(AddFilters(fs, c))
           /\ InPlace(AddFilters(fs, c), c) /\ OnSources(AddFilters(fs, c))
<1> DEFINE new == AddFilters(fs, c)
<1>1. Made(c) \in Filter /\ Made(c).on = FALSE
  BY DEF Made, Filter, Rig
<1>2. new = [k \in Places |-> IF Wants(c, k) THEN Made(c) ELSE fs[k]]
  BY DEF AddFilters
<1>3. \A k \in Places : IF Wants(c, k) THEN new[k] = Made(c) ELSE new[k] = NoFilter
  BY <1>2 DEF Wants, InPlace, OnSources
<1>4. new \in FilterMap
  BY <1>1, <1>2 DEF FilterMap
<1> HIDE DEF new
<1>5. Off(new)
  BY <1>1, <1>3 DEF Off, IsOn
<1>6. InPlace(new, c) /\ OnSources(new)
  BY <1>3 DEF InPlace, OnSources, Wants
<1> QED
  BY <1>4, <1>5, <1>6 DEF new

LEMMA Pruned ==
    ASSUME NEW fs \in FilterMap, NEW c, OnSources(fs)
    PROVE  /\ PruneFilters(fs, c) \in FilterMap
           /\ InPlace(PruneFilters(fs, c), c) /\ OnSources(PruneFilters(fs, c))
           /\ \A k \in Places : IsOn(PruneFilters(fs, c), k) => IsOn(fs, k)
<1> DEFINE new == PruneFilters(fs, c)
<1>1. \A k \in Places : IF Owns(c, k[2]) /\ c.cams[k[2]] = k[1] THEN new[k] = fs[k]
                        ELSE new[k] = NoFilter
  BY DEF PruneFilters
<1>2. new \in FilterMap
  BY DEF PruneFilters, FilterMap
<1> HIDE DEF new
<1>3. InPlace(new, c) /\ OnSources(new) /\ \A k \in Places : IsOn(new, k) => IsOn(fs, k)
  BY <1>1 DEF InPlace, OnSources, IsOn
<1> QED
  BY <1>2, <1>3 DEF new

LEMMA DisarmedAreOff ==
    ASSUME NEW fs \in FilterMap
    PROVE  /\ Disarmed(fs) \in FilterMap /\ Off(Disarmed(fs))
           /\ \A k \in Places : Disarmed(fs)[k] # NoFilter => fs[k] # NoFilter
<1> DEFINE new == Disarmed(fs)
<1>1. \A f \in Filter : [f EXCEPT !.on = FALSE] \in Filter /\ [f EXCEPT !.on = FALSE].on = FALSE
  BY DEF Filter
<1>2. \A k \in Places : new[k] = IF fs[k] = NoFilter THEN NoFilter ELSE [fs[k] EXCEPT !.on = FALSE]
  BY DEF Disarmed
<1>3. \A k \in Places : fs[k] \in Filter \cup {NoFilter}
  BY DEF FilterMap
<1>4. \A k \in Places :
        /\ new[k] \in Filter \cup {NoFilter}
        /\ new[k] # NoFilter => new[k].on = FALSE /\ fs[k] # NoFilter
  BY <1>1, <1>2, <1>3
<1>5. new = [k \in Places |-> new[k]]
  BY DEF Disarmed
<1> HIDE DEF new
<1>6. new \in FilterMap
  BY <1>4, <1>5 DEF FilterMap
<1>7. Off(new)
  BY <1>4 DEF Off, IsOn
<1> QED
  BY <1>4, <1>6, <1>7 DEF new

LEMMA InitArmoury == Init => Armoury
<1> SUFFICES ASSUME Init PROVE Armoury
  OBVIOUS
<1>1. /\ filters = [k \in Places |-> NoFilter] /\ shelf = [k \in Places |-> NoFilter]
      /\ recording = FALSE /\ tasks = <<>> /\ present \in SUBSET Sources
      /\ status = [i \in Slots |-> [rec |-> FALSE, source |-> NoSource]]
  BY DEF Init
<1>2. Typed
  <2>1. [rec |-> FALSE, source |-> NoSource] \in [rec : BOOLEAN, source : Sources \cup {NoSource}]
    OBVIOUS
  <2>2. status \in [Slots -> [rec : BOOLEAN, source : Sources \cup {NoSource}]]
    BY <1>1, <2>1
  <2>3. filters \in FilterMap /\ shelf \in FilterMap
    BY <1>1 DEF FilterMap
  <2>4. tasks \in Seq(Task)
    BY <1>1
  <2> QED
    BY <1>1, <2>2, <2>3, <2>4 DEF Typed
<1>3. \A k \in Places : filters[k] = NoFilter
  BY <1>1
<1>4. OnSources(filters) /\ OnIsArmed
  BY <1>3 DEF OnSources, OnIsArmed, IsOn
<1> QED
  BY <1>2, <1>4 DEF Armoury

LEMMA FiltersStay ==
    ASSUME Armoury, UNCHANGED <<filters, shelf, recording, status, present, tasks>>,
           strayed \subseteq strayed'
    PROVE  Armoury'
<1>1. filters' = filters /\ shelf' = shelf /\ recording' = recording /\ status' = status
      /\ present' = present /\ tasks' = tasks
  OBVIOUS
<1>2. Typed'
  BY <1>1 DEF Armoury, Typed
<1>3. OnSources(filters)'
  BY <1>1 DEF Armoury, OnSources
<1>4. OnIsArmed'
  <2>1. strayed' \cap Strays = {} => strayed \cap Strays = {}
    OBVIOUS
  <2>2. \A k \in Places : IsOn(filters', k) = IsOn(filters, k) /\ (Disarms(k))' = Disarms(k)
    BY <1>1 DEF Disarms
  <2> QED
    BY <1>1, <2>1, <2>2 DEF Armoury, OnIsArmed
<1> QED
  BY <1>2, <1>3, <1>4 DEF Armoury

\* REC switches on what it arms, and leaves the rest off.
LEMMA ArmArms ==
    ASSUME Settings, Armoury, NEW t \in Threads, Arm(t) PROVE Armoury'
<1>1. CASE UNCHANGED <<recording, status, filters, tasks>>
  <2>1. UNCHANGED <<filters, shelf, recording, status, present, tasks>>
        /\ strayed' = strayed
    BY <1>1 DEF Arm
  <2> QED
    BY <2>1, FiltersStay
<1>2. CASE ~recording /\ recording' = recording /\ status' = ArmedStatus
           /\ UNCHANGED <<filters, tasks>>
  <2>1. filters' = filters /\ shelf' = shelf /\ present' = present /\ tasks' = tasks
        /\ strayed' = strayed /\ config' = config
    BY <1>2 DEF Arm
  <2>2. ArmedStatus \in [Slots -> [rec : BOOLEAN, source : Sources \cup {NoSource}]]
    BY DEF ArmedStatus, Armed, Settings, Rig
  <2>3. Typed'
    BY <1>2, <2>1, <2>2 DEF Armoury, Typed
  <2>4. OnIsArmed'
    BY <1>2, <2>1 DEF Armoury, OnIsArmed
  <2> QED
    BY <2>1, <2>3, <2>4 DEF Armoury, OnSources
<1>3. CASE ~recording /\ TakeBegins(t)
  <2>1. shelf' = shelf /\ present' = present /\ strayed' = strayed
        /\ config' = config /\ filters' = ArmedFilters /\ status' = ArmedStatus /\ recording' = TRUE
        /\ tasks' = tasks \o Told(filters, ArmedFilters)
    BY <1>3 DEF Arm, TakeBegins
  <2>10. tasks' \in Seq(Task)
    BY <2>1, ToldOf, Joined DEF Armoury, Typed
  <2>2. ArmedStatus \in [Slots -> [rec : BOOLEAN, source : Sources \cup {NoSource}]]
    BY DEF ArmedStatus, Armed, Settings, Rig
  <2> DEFINE made(k) == IF filters[k] = NoFilter THEN Made(config) ELSE filters[k]
             lit(k) == [made(k) EXCEPT !.on = TRUE]
  <2>3. \A k \in Places : lit(k) \in Filter
    <3>1. Made(config) \in Filter
      BY DEF Made, Filter, Settings, Rig
    <3>2. \A k \in Places : made(k) \in Filter
      BY <3>1 DEF Armoury, Typed, FilterMap
    <3>3. \A f \in Filter : [f EXCEPT !.on = TRUE] \in Filter
      BY DEF Filter
    <3> HIDE DEF made
    <3> QED
      BY <3>2, <3>3
  <2>4. ArmedFilters = [k \in Places |-> IF ~Wants(config, k) THEN filters[k] ELSE lit(k)]
    BY DEF ArmedFilters
  <2> HIDE DEF lit, made
  <2>5. Typed'
    BY <2>1, <2>2, <2>3, <2>4, <2>10 DEF Armoury, Typed, FilterMap
  <2>6. \A k \in Places : filters'[k] = IF ~Wants(config, k) THEN filters[k] ELSE lit(k)
    BY <2>1, <2>4
  <2>7. OnSources(filters)'
    BY <2>1, <2>6 DEF Armoury, OnSources, Wants
  <2>8. \A k \in Places : Wants(config, k) => (Disarms(k))'
    <3> SUFFICES ASSUME NEW k \in Places, Wants(config, k) PROVE (Disarms(k))'
      OBVIOUS
    <3>1. k[2] \in Slots
      BY PlaceOf
    <3>2. config.cams[k[2]] # NoSource /\ Canonical(config.cams, k[2]) = k[2]
          /\ config.cams[k[2]] = k[1] /\ k[1] \in present
      BY DEF Wants, Owns
    <3>3. Armed(k[2])
      BY <3>2 DEF Armed
    <3>4. status'[k[2]].rec /\ status'[k[2]].source = k[1]
      BY <2>1, <3>1, <3>2, <3>3 DEF ArmedStatus
    <3> QED
      BY <3>4 DEF Disarms
  <2>9. OnIsArmed'
    <3> SUFFICES ASSUME strayed \cap Strays = {}, NEW k \in Places, IsOn(filters', k)
                 PROVE  (Disarms(k))'
      BY <2>1 DEF OnIsArmed
    <3>1. CASE Wants(config, k)
      BY <3>1, <2>8
    <3>2. CASE ~Wants(config, k)
      BY <1>3, <2>6, <3>2 DEF Armoury, OnIsArmed, IsOn
    <3> QED
      BY <3>1, <3>2
  <2> QED
    BY <2>5, <2>7, <2>9 DEF Armoury
<1> QED
  BY <1>1, <1>2, <1>3 DEF Arm, rec

\* STOP finds all that is on.
LEMMA StopStops ==
    ASSUME Armoury, NEW t \in Threads, PressStop(t) PROVE Armoury'
<1>1. shelf' = shelf /\ present' = present /\ tasks' = tasks /\ strayed' = strayed
      /\ config' = config /\ recording' = FALSE
      /\ status' = [i \in Slots |-> [status[i] EXCEPT !.rec = @ /\ status[i].source \notin present]]
  BY DEF PressStop, flow, ghosts
<1> DEFINE off(k) == [filters[k] EXCEPT !.on = FALSE]
<1>2. filters' = [k \in Places |-> IF Disarms(k) /\ IsOn(filters, k) THEN off(k) ELSE filters[k]]
  BY DEF PressStop
<1>3. \A k \in Places : filters[k] # NoFilter => off(k) \in Filter /\ off(k).on = FALSE
  <2>1. \A f \in Filter : [f EXCEPT !.on = FALSE] \in Filter /\ [f EXCEPT !.on = FALSE].on = FALSE
    BY DEF Filter
  <2>2. \A k \in Places : filters[k] # NoFilter => filters[k] \in Filter
    BY DEF Armoury, Typed, FilterMap
  <2> QED
    BY <2>1, <2>2
<1> HIDE DEF off
<1>4. \A k \in Places :
        filters'[k] = IF Disarms(k) /\ IsOn(filters, k) THEN off(k) ELSE filters[k]
  BY <1>2
<1>5. filters' \in FilterMap
  BY <1>2, <1>3 DEF Armoury, Typed, FilterMap, IsOn
<1>6. status' \in [Slots -> [rec : BOOLEAN, source : Sources \cup {NoSource}]]
  BY <1>1 DEF Armoury, Typed
<1>7. Typed'
  BY <1>1, <1>5, <1>6 DEF Armoury, Typed
<1>8. \A k \in Places : filters'[k] # NoFilter => filters[k] # NoFilter
  BY <1>4 DEF IsOn
<1>9. OnSources(filters)'
  BY <1>1, <1>8 DEF Armoury, OnSources
<1>10. OnIsArmed'
  <2> SUFFICES ASSUME strayed \cap Strays = {}, NEW k \in Places, IsOn(filters', k) PROVE FALSE
    BY <1>1 DEF OnIsArmed
  <2>1. ~(Disarms(k) /\ IsOn(filters, k))
    BY <1>3, <1>4 DEF IsOn
  <2>2. IsOn(filters, k)
    BY <1>4, <2>1 DEF IsOn
  <2> QED
    BY <2>1, <2>2 DEF Armoury, OnIsArmed
<1> QED
  BY <1>7, <1>9, <1>10 DEF Armoury

\* When nothing records, what is out of place goes and the rest is made again, off.
LEMMA ReapplyKeeps == ASSUME Settings, Armoury, Reapply PROVE Armoury'
<1>1. shelf' = shelf /\ present' = present /\ config' = config /\ recording' = recording
      /\ status' = status
  BY DEF Reapply, rec
<1>2. config \in Rig /\ filters \in FilterMap /\ OnSources(filters) /\ tasks \in Seq(Task)
  BY DEF Settings, Armoury, Typed
<1>3. CASE recording
  BY <1>1, <1>3, FiltersStay DEF Reapply
<1>4. CASE ~recording
  <2>1. filters' = Renewed /\ strayed' = {} /\ tasks' = tasks \o Told(filters, Renewed)
    BY <1>4 DEF Reapply
  <2>2. Renewed \in FilterMap /\ Off(Renewed) /\ OnSources(Renewed)
    BY <1>2, Pruned, AddedAreOff DEF Renewed
  <2>3. tasks' \in Seq(Task)
    BY <1>2, <2>1, ToldOf, Joined
  <2>4. Typed'
    BY <1>1, <2>1, <2>2, <2>3 DEF Armoury, Typed
  <2>5. OnSources(filters)'
    BY <1>1, <2>1, <2>2 DEF OnSources
  <2>6. OnIsArmed'
    BY <2>1, <2>2 DEF OnIsArmed, Off
  <2> QED
    BY <2>4, <2>5, <2>6 DEF Armoury
<1> QED
  BY <1>3, <1>4

LEMMA TaskKeeps == ASSUME Settings, Armoury, RunTask PROVE Armoury'
<1>1. /\ UNCHANGED <<shelf, present, config, recording, status, strayed>> /\ tasks # <<>>
      /\ filters' \in {filters, PruneFilters(filters, config)}
      /\ tasks' = Tail(tasks) \o Told(filters, filters')
  BY DEF RunTask, rec, ghosts
<1>2. config \in Rig /\ filters \in FilterMap /\ OnSources(filters) /\ tasks \in Seq(Task)
  BY DEF Settings, Armoury, Typed
<1>3. tasks' \in Seq(Task)
  <2>1. Tail(tasks) \in Seq(Task)
    BY <1>1, <1>2
  <2> QED
    BY <1>1, <2>1, ToldOf, Joined
<1>4. filters' \in FilterMap /\ OnSources(filters') /\ \A k \in Places : IsOn(filters', k) => IsOn(filters, k)
  BY <1>1, <1>2, Pruned
<1>5. Typed'
  BY <1>1, <1>3, <1>4 DEF Armoury, Typed
<1>6. OnSources(filters)'
  BY <1>1, <1>4 DEF OnSources
<1>7. OnIsArmed'
  <2>1. \A k \in Places : (Disarms(k))' = Disarms(k)
    BY <1>1 DEF Disarms
  <2> QED
    BY <1>1, <1>4, <2>1 DEF Armoury, OnIsArmed
<1> QED
  BY <1>5, <1>6, <1>7 DEF Armoury

\* The collection and the names are the operator's, and OnlyRecRecords speaks of neither.
LEMMA MishapsKeep ==
    ASSUME Settings, Armoury, SwitchCollection \/ RenameSource PROVE Armoury'
<1>1. tasks = <<>> /\ recording' = recording /\ status' = status /\ config' = config
  BY DEF SwitchCollection, RenameSource, Mishap, rec
<1>2. filters \in FilterMap /\ shelf \in FilterMap /\ OnSources(filters)
  BY DEF Armoury, Typed
<1>3. CASE SwitchCollection
  <2>1. strayed' = strayed \cup {"another collection"} /\ shelf' = filters
        /\ (\A k \in Places : shelf[k] # NoFilter => k[1] \in present') /\ present' \in SUBSET Sources
    BY <1>3 DEF SwitchCollection, Mishap
  <2>2. OnIsArmed'
    BY <2>1 DEF OnIsArmed, Strays
  <2>3. CASE recording
    <3>1. filters' = shelf /\ tasks' = Notice("came", There(shelf))
      BY <1>3, <2>3 DEF SwitchCollection
    <3>2. tasks' \in Seq(Task)
      BY <3>1, Notices DEF There
    <3>3. Typed' /\ OnSources(filters)'
      BY <1>1, <1>2, <2>1, <3>1, <3>2 DEF Armoury, Typed, OnSources
    <3> QED
      BY <2>2, <3>3 DEF Armoury
  <2>4. CASE ~recording
    <3>1. filters' = Disarmed(shelf) /\ tasks' = Loaded(shelf)
      BY <1>3, <2>4 DEF SwitchCollection
    <3>2. Disarmed(shelf) \in FilterMap
          /\ \A k \in Places : Disarmed(shelf)[k] # NoFilter => shelf[k] # NoFilter
      BY <1>2, DisarmedAreOff
    <3>3. tasks' \in Seq(Task)
      BY <3>1, LoadedOf
    <3>4. Typed'
      BY <1>1, <1>2, <2>1, <3>1, <3>2, <3>3 DEF Armoury, Typed
    <3>5. OnSources(filters)'
      BY <2>1, <3>1, <3>2 DEF OnSources
    <3> QED
      BY <2>2, <3>4, <3>5 DEF Armoury
  <2> QED
    BY <2>3, <2>4
<1>4. CASE RenameSource
  <2>1. strayed' = strayed \cup {"renamed"} /\ shelf' = shelf /\ tasks' = tasks
    BY <1>4 DEF RenameSource, Mishap, flow
  <2>2. PICK a \in present, b \in Sources \ present :
          /\ present' = (present \ {a}) \cup {b}
          /\ filters' = [k \in Places |-> IF k[1] = b THEN filters[<<a, k[2]>>]
                                          ELSE IF k[1] = a THEN NoFilter ELSE filters[k]]
    BY <1>4 DEF RenameSource
  <2>3. a \in Sources /\ present' \in SUBSET Sources
    BY <2>2 DEF Armoury, Typed
  <2>4. Armoury'
    <3>1. \A k \in Places : <<a, k[2]>> \in Places
      BY <2>3 DEF Places
    <3>2. filters' \in FilterMap
      BY <1>2, <2>2, <3>1 DEF FilterMap
    <3>3. OnSources(filters)'
      BY <1>2, <2>2 DEF OnSources
    <3>4. Typed'
      BY <1>1, <1>2, <2>1, <2>3, <3>2 DEF Armoury, Typed
    <3>5. OnIsArmed'
      BY <2>1 DEF OnIsArmed, Strays
    <3> QED
      BY <3>3, <3>4, <3>5 DEF Armoury
  <2> QED
    BY <2>4
<1> QED
  BY <1>3, <1>4

\* A process that died in a take leaves filters that are on; the next one puts them off.
LEMMA RestartKeeps ==
    ASSUME Settings, Settings', Armoury, Restart PROVE Armoury'
<1>1. /\ recording' = FALSE /\ filters' = Disarmed(filters) /\ shelf' = shelf /\ present' = present
      /\ tasks' = Loaded(filters)
      /\ status' = [i \in Slots |-> [rec |-> FALSE, source |-> NoSource]]
  BY DEF Restart, Reloaded
<1>2. filters \in FilterMap /\ shelf \in FilterMap /\ OnSources(filters)
  BY DEF Armoury, Typed
<1>3. Disarmed(filters) \in FilterMap /\ Off(Disarmed(filters))
      /\ \A k \in Places : Disarmed(filters)[k] # NoFilter => filters[k] # NoFilter
  BY <1>2, DisarmedAreOff
<1>5. [rec |-> FALSE, source |-> NoSource] \in [rec : BOOLEAN, source : Sources \cup {NoSource}]
  OBVIOUS
<1>6. tasks' \in Seq(Task)
  BY <1>1, LoadedOf
<1>7. Typed'
  BY <1>1, <1>2, <1>3, <1>5, <1>6 DEF Armoury, Typed
<1>8. OnSources(filters)'
  BY <1>1, <1>2, <1>3 DEF OnSources
<1>9. OnIsArmed'
  BY <1>1, <1>3 DEF OnIsArmed, Off
<1> QED
  BY <1>7, <1>8, <1>9 DEF Armoury

LEMMA StepArmoury == Settings /\ Settings' /\ Armoury /\ [Next]_vars => Armoury'
<1> SUFFICES ASSUME Settings, Settings', Armoury, [Next]_vars PROVE Armoury'
  OBVIOUS
<1> DEFINE Still == UNCHANGED <<filters, shelf, recording, status, present, tasks>>
<1>1. ASSUME NEW t \in Threads, PressRec(t) \/ Preflight(t) \/ StartIndex(t) \/ PointStore(t)
      PROVE  Armoury'
  <2>1. Still /\ strayed' = strayed
    BY <1>1 DEF PressRec, Preflight, StartIndex, PointStore, rec, obs, ghosts
  <2> QED
    BY <2>1, FiltersStay
<1>2. ASSUME NEW t \in Threads, Press(t) \/ Step(t) PROVE Armoury'
  BY <1>1, <1>2, ArmArms, StopStops DEF Press, Step
<1>3. CASE SaveSettings \/ GuidedSetup
  <2>1. Still /\ strayed \subseteq strayed'
    BY <1>3 DEF SaveSettings, GuidedSetup, SetConfig, Free, rec, obs, Ui
  <2> QED
    BY <2>1, FiltersStay
<1>4. ASSUME NEW then, Create(then) PROVE strayed \subseteq strayed'
  BY <1>4 DEF Create
<1>5. CASE NewProject
  <2>1. Still
    BY <1>5 DEF NewProject, rec, obs
  <2>2. strayed \subseteq strayed'
    BY <1>4, <1>5 DEF NewProject
  <2> QED
    BY <2>1, <2>2, FiltersStay
<1>6. CASE CreateGuided
  <2>1. Still
    BY <1>6 DEF CreateGuided, rec, obs
  <2>2. strayed \subseteq strayed'
    BY <1>4, <1>6 DEF CreateGuided, ghosts
  <2> QED
    BY <2>1, <2>2, FiltersStay
<1>7. CASE OpenProject
  <2>1. Still /\ strayed' = strayed
    BY <1>7 DEF OpenProject, MaySwitch, Free, rec, obs, Ui
  <2> QED
    BY <2>1, FiltersStay
<1>8. CASE Reapply
  BY <1>8, ReapplyKeeps
<1>9. CASE RunTask
  BY <1>9, TaskKeeps
<1>10. CASE SwitchCollection \/ RenameSource
  BY <1>10, MishapsKeep
<1>11. CASE Restart
  BY <1>11, RestartKeeps
<1>12. CASE Damage \/ UNCHANGED vars
  <2>1. Still /\ strayed' = strayed
    BY <1>12 DEF Damage, rec, obs, flow, ghosts, vars
  <2> QED
    BY <2>1, FiltersStay
<1> QED
  BY <1>2, <1>3, <1>5, <1>6, <1>7, <1>8, <1>9, <1>10, <1>11, <1>12 DEF Next

\* Filters record for a take and for nothing else, over any saves, projects, crashes and
\* orders of the two threads, as long as the operator leaves names and collection alone.
THEOREM FiltersRecordForTakes == Spec => []OnlyRecRecords
<1>1. Armoury => OnlyRecRecords
  BY DEF Armoury, OnIsArmed, OnlyRecRecords, Strays
<1> QED
  BY <1>1, InitSettings, StepSettings, InitArmoury, StepArmoury, PTL DEF Spec

-----------------------------------------------------------------------------
(* The take and the rig.                                                   *)

\* What an operation still has to do: REC, and the operations of the UI thread that lead
\* to reapplyFilterSettings() or have it behind them.
RecLists ==
    {<<"preflight", "arm", "index", "store">>, <<"arm", "index", "store">>, <<"index", "store">>,
     <<"store">>, <<>>}
DoneLists == RecLists \cup {<<"index", "new", "store">>, <<"new", "store">>}
ReapplyLists ==
    {<<"reapply", "index", "store">>, <<"reapply", "index", "new", "store">>,
     <<"store", "index", "reapply">>, <<"index", "reapply">>, <<"reapply">>,
     <<"store", "index", "reapply", "store">>, <<"index", "reapply", "store">>,
     <<"reapply", "store">>}

Lists ==
    /\ DOMAIN todo = Threads /\ DOMAIN path = Threads
    /\ todo["ui"] \in DoneLists \cup ReapplyLists /\ todo["keys"] \in RecLists

\* What is configured is what the open project's file holds, when it can be read.
SavedAsOpen ==
    config.project # NoProject => saved[config.project] \in {NoRig, Unreadable, config}

\* No take has its filters taken from under it.
NotInTake == ~crossed => (recording => todo["ui"] \notin ReapplyLists)

\* Who is about to point the index and the marks points them at the project that is open.
Aimed ==
    ~crossed => \A t \in Threads :
        todo[t] # <<>> /\ Head(todo[t]) \notin {"preflight", "arm"} => path[t] = config.project

\* The filters are those of a configuration, on or off.
Declares(fs, c) ==
    \A k \in Places :
        /\ fs[k] # NoFilter => Wants(c, k) /\ [fs[k] EXCEPT !.on = FALSE] = Made(c)
        /\ Wants(c, k) => fs[k] # NoFilter

Declared ==
    strayed = {} /\ ~crossed => todo["ui"] \in ReapplyLists \/ Declares(filters, config)

AllOn == \A k \in Places : Wants(config, k) => filters[k].on

\* Index and marks follow the take, or a thread that armed it is about to point them there.
Pointed ==
    /\ index = config.project \/ \E t \in Threads : todo[t] = <<"index", "store">>
    /\ store = config.project \/ \E t \in Threads : todo[t] \in {<<"index", "store">>, <<"store">>}

InTake == recording /\ strayed = {} /\ ~crossed => AllOn /\ Pointed

Rigged == Lists /\ SavedAsOpen /\ NotInTake /\ Aimed /\ Declared /\ InTake

LEMMA ListTails ==
    /\ \A q \in RecLists : q # <<>> => Tail(q) \in RecLists
    /\ \A q \in DoneLists : q # <<>> => Tail(q) \in DoneLists /\ Head(q) # "reapply"
    /\ \A q \in ReapplyLists :
            /\ q # <<>> /\ Tail(q) \in DoneLists \cup ReapplyLists
            /\ Head(q) # "reapply" => Tail(q) \in ReapplyLists
            /\ Head(q) \notin {"preflight", "arm", "new"}
<1>1. \A q \in RecLists : q # <<>> => Tail(q) \in RecLists /\ Head(q) # "reapply"
  <2> SUFFICES ASSUME NEW q \in RecLists, q # <<>> PROVE Tail(q) \in RecLists /\ Head(q) # "reapply"
    OBVIOUS
  <2>1. CASE q = <<"preflight", "arm", "index", "store">>
    <3>1. Head(q) = "preflight" /\ Tail(q) = <<"arm", "index", "store">>
      BY <2>1
    <3> QED
      BY <3>1 DEF RecLists
  <2>2. CASE q = <<"arm", "index", "store">>
    <3>1. Head(q) = "arm" /\ Tail(q) = <<"index", "store">>
      BY <2>2
    <3> QED
      BY <3>1 DEF RecLists
  <2>3. CASE q = <<"index", "store">>
    <3>1. Head(q) = "index" /\ Tail(q) = <<"store">>
      BY <2>3
    <3> QED
      BY <3>1 DEF RecLists
  <2>4. CASE q = <<"store">>
    <3>1. Head(q) = "store" /\ Tail(q) = <<>>
      BY <2>4
    <3> QED
      BY <3>1 DEF RecLists
  <2> QED
    BY <2>1, <2>2, <2>3, <2>4 DEF RecLists
<1>2. \A q \in DoneLists : q # <<>> => Tail(q) \in DoneLists /\ Head(q) # "reapply"
  <2>1. Head(<<"index", "new", "store">>) = "index" /\ Tail(<<"index", "new", "store">>) = <<"new", "store">>
    OBVIOUS
  <2>2. Head(<<"new", "store">>) = "new" /\ Tail(<<"new", "store">>) = <<"store">>
    OBVIOUS
  <2>3. <<"new", "store">> \in DoneLists /\ <<"store">> \in DoneLists
    BY DEF DoneLists, RecLists
  <2> QED
    BY <1>1, <2>1, <2>2, <2>3 DEF DoneLists
<1>3. \A q \in ReapplyLists :
            /\ q # <<>> /\ Tail(q) \in DoneLists \cup ReapplyLists
            /\ Head(q) # "reapply" => Tail(q) \in ReapplyLists
            /\ Head(q) \notin {"preflight", "arm", "new"}
  <2> SUFFICES ASSUME NEW q \in ReapplyLists
               PROVE  /\ q # <<>> /\ Tail(q) \in DoneLists \cup ReapplyLists
                      /\ Head(q) # "reapply" => Tail(q) \in ReapplyLists
                      /\ Head(q) \notin {"preflight", "arm", "new"}
    OBVIOUS
  <2>1. CASE q = <<"reapply", "index", "store">>
    <3>1. Head(q) = "reapply" /\ Tail(q) = <<"index", "store">> /\ q # <<>>
      BY <2>1
    <3> QED
      BY <3>1 DEF DoneLists, RecLists
  <2>2. CASE q = <<"reapply", "index", "new", "store">>
    <3>1. Head(q) = "reapply" /\ Tail(q) = <<"index", "new", "store">> /\ q # <<>>
      BY <2>2
    <3> QED
      BY <3>1 DEF DoneLists
  <2>3. CASE q = <<"store", "index", "reapply">>
    <3>1. Head(q) = "store" /\ Tail(q) = <<"index", "reapply">> /\ q # <<>>
      BY <2>3
    <3> QED
      BY <3>1 DEF ReapplyLists
  <2>4. CASE q = <<"index", "reapply">>
    <3>1. Head(q) = "index" /\ Tail(q) = <<"reapply">> /\ q # <<>>
      BY <2>4
    <3> QED
      BY <3>1 DEF ReapplyLists
  <2>5. CASE q = <<"reapply">>
    <3>1. Head(q) = "reapply" /\ Tail(q) = <<>> /\ q # <<>>
      BY <2>5
    <3> QED
      BY <3>1 DEF DoneLists, RecLists
  <2>6. CASE q = <<"store", "index", "reapply", "store">>
    <3>1. Head(q) = "store" /\ Tail(q) = <<"index", "reapply", "store">> /\ q # <<>>
      BY <2>6
    <3> QED
      BY <3>1 DEF ReapplyLists
  <2>7. CASE q = <<"index", "reapply", "store">>
    <3>1. Head(q) = "index" /\ Tail(q) = <<"reapply", "store">> /\ q # <<>>
      BY <2>7
    <3> QED
      BY <3>1 DEF ReapplyLists
  <2>8. CASE q = <<"reapply", "store">>
    <3>1. Head(q) = "reapply" /\ Tail(q) = <<"store">> /\ q # <<>>
      BY <2>8
    <3> QED
      BY <3>1 DEF DoneLists, RecLists
  <2> QED
    BY <2>1, <2>2, <2>3, <2>4, <2>5, <2>6, <2>7, <2>8 DEF ReapplyLists
<1> QED
  BY <1>1, <1>2, <1>3

LEMMA ListHeads ==
    /\ <<>> \in RecLists /\ <<>> \notin ReapplyLists /\ <<"index", "store">> \in RecLists
    /\ RecLists \subseteq DoneLists /\ DoneLists \cap ReapplyLists = {}
    /\ \A q \in DoneLists : q # <<>> /\ Head(q) = "arm" => q = <<"arm", "index", "store">>
    /\ \A q \in DoneLists : q # <<>> /\ Head(q) = "new" => q = <<"new", "store">>
    /\ Head(<<"index", "store">>) = "index" /\ Tail(<<"index", "store">>) = <<"store">>
    /\ Head(<<"store">>) = "store" /\ Tail(<<"store">>) = <<>> /\ <<"store">> # <<>>
    /\ Tail(<<"arm", "index", "store">>) = <<"index", "store">>
    /\ <<"index", "store">> # <<>> /\ <<"store">> # <<"index", "store">>
    /\ \A q \in DoneLists : q # <<>> /\ Head(q) = "preflight" => Head(Tail(q)) = "arm"
<1>1. DoneLists \cap ReapplyLists = {}
  BY DEF DoneLists, ReapplyLists, RecLists
<1>2. \A q \in DoneLists : q # <<>> /\ Head(q) = "arm" => q = <<"arm", "index", "store">>
  BY DEF DoneLists, RecLists
<1>3. \A q \in DoneLists : q # <<>> /\ Head(q) = "new" => q = <<"new", "store">>
  BY DEF DoneLists, RecLists
<1>4. /\ <<>> \in RecLists /\ <<>> \notin ReapplyLists /\ <<"index", "store">> \in RecLists
      /\ RecLists \subseteq DoneLists
  BY DEF DoneLists, ReapplyLists, RecLists
<1>5. /\ Head(<<"index", "store">>) = "index" /\ Tail(<<"index", "store">>) = <<"store">>
      /\ Head(<<"store">>) = "store" /\ Tail(<<"store">>) = <<>> /\ <<"store">> # <<>>
      /\ Tail(<<"arm", "index", "store">>) = <<"index", "store">>
      /\ <<"index", "store">> # <<>> /\ <<"store">> # <<"index", "store">>
  OBVIOUS
<1>6. \A q \in DoneLists : q # <<>> /\ Head(q) = "preflight" => Head(Tail(q)) = "arm"
  <2>1. \A q \in DoneLists : q # <<>> /\ Head(q) = "preflight" =>
            q = <<"preflight", "arm", "index", "store">>
    BY DEF DoneLists, RecLists
  <2>2. Head(Tail(<<"preflight", "arm", "index", "store">>)) = "arm"
    OBVIOUS
  <2> QED
    BY <2>1, <2>2
<1> QED
  BY <1>1, <1>2, <1>3, <1>4, <1>5, <1>6

\* Whoever has reapplyFilterSettings() ahead is renewing the rig.
LEMMA ReapplyAhead == todo["ui"] \in ReapplyLists => Renewing
<1>1. \A q \in ReapplyLists : \E i \in DOMAIN q : q[i] = "reapply"
  <2>1. ASSUME NEW x, NEW y, NEW z PROVE \E i \in DOMAIN <<"reapply", x, y, z>> : <<"reapply", x, y, z>>[i] = "reapply"
    <3>1. 1 \in DOMAIN <<"reapply", x, y, z>> /\ <<"reapply", x, y, z>>[1] = "reapply"
      OBVIOUS
    <3> QED
      BY <3>1
  <2>2. /\ 1 \in DOMAIN <<"reapply", "index", "store">> /\ <<"reapply", "index", "store">>[1] = "reapply"
        /\ 1 \in DOMAIN <<"reapply">> /\ <<"reapply">>[1] = "reapply"
        /\ 1 \in DOMAIN <<"reapply", "store">> /\ <<"reapply", "store">>[1] = "reapply"
        /\ 2 \in DOMAIN <<"index", "reapply">> /\ <<"index", "reapply">>[2] = "reapply"
        /\ 2 \in DOMAIN <<"index", "reapply", "store">> /\ <<"index", "reapply", "store">>[2] = "reapply"
        /\ 3 \in DOMAIN <<"store", "index", "reapply">> /\ <<"store", "index", "reapply">>[3] = "reapply"
    OBVIOUS
  <2>3. /\ 3 \in DOMAIN <<"store", "index", "reapply", "store">>
        /\ <<"store", "index", "reapply", "store">>[3] = "reapply"
    OBVIOUS
  <2> SUFFICES ASSUME NEW q \in ReapplyLists PROVE \E i \in DOMAIN q : q[i] = "reapply"
    OBVIOUS
  <2> QED
    BY <2>1, <2>2, <2>3 DEF ReapplyLists
<1> QED
  BY <1>1 DEF Renewing

LEMMA ListSet ==
    ASSUME Lists, NEW t \in Threads, NEW q, todo' = [todo EXCEPT ![t] = q], DOMAIN path' = Threads,
           q \in RecLists \/ (t = "ui" /\ q \in DoneLists \cup ReapplyLists)
    PROVE  Lists' /\ todo'[t] = q /\ \A o \in Threads \ {t} : todo'[o] = todo[o]
<1>1. DOMAIN todo' = Threads /\ todo'[t] = q /\ \A o \in Threads \ {t} : todo'[o] = todo[o]
  BY DEF Lists
<1>2. "ui" \in Threads /\ "keys" \in Threads /\ (t = "ui" \/ t = "keys") /\ RecLists \subseteq DoneLists
  BY DEF Threads, DoneLists
<1>3. Lists'
  BY <1>1, <1>2 DEF Lists
<1> QED
  BY <1>1, <1>3

\* The tail of what a thread has to do is such a list again.
LEMMA ListDone ==
    ASSUME Lists, NEW t \in Threads, NEW step, At(t, step), Done(t) \/ Abandon(t), DOMAIN path' = Threads
    PROVE  Lists' /\ \A o \in Threads \ {t} : todo'[o] = todo[o]
<1>1. PICK q \in {Tail(todo[t]), <<>>} : todo' = [todo EXCEPT ![t] = q]
  BY DEF Done, Abandon, Lists
<1>2. todo[t] # <<>>
  BY DEF At, Idle
<1>3. t = "ui" \/ t = "keys"
  BY DEF Threads
<1>4. q \in RecLists \/ (t = "ui" /\ q \in DoneLists \cup ReapplyLists)
  <2>1. <<>> \in RecLists
    BY ListHeads
  <2>2. t = "keys" => Tail(todo[t]) \in RecLists
    BY <1>2, ListTails DEF Lists
  <2>3. t = "ui" => Tail(todo[t]) \in DoneLists \cup ReapplyLists
    BY <1>2, ListTails DEF Lists
  <2> QED
    BY <1>3, <2>1, <2>2, <2>3
<1> QED
  BY <1>1, <1>4, ListSet

LEMMA UiOrKeys == Threads = {"ui", "keys"} /\ Ui = "ui" /\ "ui" # "keys"
  BY DEF Threads, Ui

LEMMA InitRigged == Init => Rigged
<1> SUFFICES ASSUME Init PROVE Rigged
  OBVIOUS
<1>1. /\ todo = [t \in Threads |-> <<>>] /\ path = [t \in Threads |-> NoProject] /\ tasks = <<>>
      /\ recording = FALSE /\ config = FirstRig /\ filters = [k \in Places |-> NoFilter]
  BY DEF Init
<1>2. Lists
  BY <1>1, ListHeads, UiOrKeys DEF Lists
<1>3. config.project = NoProject /\ \A i \in Slots : config.cams[i] = NoSource
  BY <1>1 DEF FirstRig
<1>4. Declares(filters, config)
  <2>1. \A k \in Places : ~Wants(config, k)
    BY <1>3, PlaceOf DEF Wants, Owns
  <2> QED
    BY <1>1, <2>1 DEF Declares
<1>5. NotInTake /\ Aimed
  BY <1>1 DEF NotInTake, Aimed
<1> QED
  BY <1>1, <1>2, <1>3, <1>4, <1>5 DEF Rigged, SavedAsOpen, Declared, InTake

\* A thread on its way keeps the folder it is for.
LEMMA StillAimed ==
    ASSUME Rigged, NEW t \in Threads, config' = config, crossed => crossed',
           \A o \in Threads \ {t} : todo'[o] = todo[o] /\ path'[o] = path[o],
           todo'[t] # <<>> /\ Head(todo'[t]) \notin {"preflight", "arm"} =>
                \/ path'[t] = config.project
                \/ path'[t] = path[t] /\ todo[t] # <<>> /\ Head(todo[t]) \notin {"preflight", "arm"}
    PROVE  Aimed'
<1> SUFFICES ASSUME ~crossed', NEW o \in Threads,
                    todo'[o] # <<>>, Head(todo'[o]) \notin {"preflight", "arm"}
             PROVE  path'[o] = config.project
  BY DEF Aimed
<1>1. CASE o # t
  BY <1>1 DEF Rigged, Aimed
<1>2. CASE o = t
  BY <1>2 DEF Rigged, Aimed
<1> QED
  BY <1>1, <1>2

\* A step that touches neither filters nor what they are compared with.
LEMMA RigStays ==
    ASSUME Rigged, Lists', UNCHANGED <<config, filters, present>>, strayed' = strayed,
           crossed => crossed', saved' = saved, NotInTake', Aimed',
           ~crossed' /\ todo["ui"] \in ReapplyLists => todo'["ui"] \in ReapplyLists,
           strayed = {} /\ ~crossed' /\ recording' => recording /\ Pointed'
    PROVE  Rigged'
<1>1. SavedAsOpen'
  BY DEF Rigged, SavedAsOpen
<1>2. Declares(filters, config)' <=> Declares(filters, config)
  BY DEF Declares, Wants
<1>3. AllOn' <=> AllOn
  BY DEF AllOn, Wants
<1>4. Declared' /\ InTake'
  BY <1>2, <1>3 DEF Rigged, Declared, InTake
<1> QED
  BY <1>1, <1>4 DEF Rigged

LEMMA PressRecRigged == ASSUME Rigged, NEW t \in Threads, PressRec(t) PROVE Rigged'
<1> DEFINE q == <<"preflight", "arm", "index", "store">>
<1>1. /\ UNCHANGED <<config, filters, present, recording, saved, strayed, crossed, path>>
      /\ ~recording /\ todo[t] = <<>> /\ todo' = [todo EXCEPT ![t] = q]
  BY DEF PressRec, Free, Idle, Begin, rec, obs, disk, ghosts
<1>2. q \in RecLists /\ q # <<>> /\ Head(q) = "preflight"
  BY DEF RecLists
<1> HIDE DEF q
<1>3. Lists' /\ todo'[t] = q /\ \A o \in Threads \ {t} : todo'[o] = todo[o]
  BY <1>1, <1>2, ListSet DEF Rigged, Lists
<1>4. NotInTake' /\ Aimed'
  BY <1>1, <1>2, <1>3, StillAimed DEF NotInTake
<1>5. todo["ui"] \in ReapplyLists => todo'["ui"] \in ReapplyLists
  BY <1>1, <1>3, UiOrKeys, ListHeads
<1> QED
  BY <1>1, <1>3, <1>4, <1>5, RigStays

\* What a thread still has to do keeps its kind, until it comes to reapplyFilterSettings().
LEMMA KindKept ==
    ASSUME Rigged, NEW t \in Threads, NEW step, At(t, step), step # "reapply",
           todo'[t] \in {Tail(todo[t]), <<>>}, todo'[t] = Tail(todo[t]) \/ step \in {"preflight", "arm"},
           \A o \in Threads \ {t} : todo'[o] = todo[o]
    PROVE  todo'["ui"] \in ReapplyLists <=> todo["ui"] \in ReapplyLists
<1>1. CASE t # "ui"
  BY <1>1, UiOrKeys
<1>2. CASE t = "ui"
  <2>1. todo["ui"] # <<>> /\ Head(todo["ui"]) = step /\ todo["ui"] \in DoneLists \cup ReapplyLists
    BY <1>2 DEF At, Idle, Rigged, Lists
  <2>2. CASE todo["ui"] \in ReapplyLists
    <3>1. Tail(todo["ui"]) \in ReapplyLists /\ step \notin {"preflight", "arm"}
      BY <2>1, <2>2, ListTails
    <3> QED
      BY <1>2, <2>2, <3>1
  <2>3. CASE todo["ui"] \notin ReapplyLists
    <3>1. Tail(todo["ui"]) \in DoneLists
      BY <2>1, <2>3, ListTails
    <3>2. <<>> \notin ReapplyLists /\ Tail(todo["ui"]) \notin ReapplyLists
      BY <3>1, ListHeads
    <3> QED
      BY <1>2, <2>3, <3>2
  <2> QED
    BY <2>2, <2>3
<1> QED
  BY <1>1, <1>2

\* A thread that is not the one pointing index and marks changes nothing of where they go.
LEMMA OthersPoint ==
    ASSUME Pointed, UNCHANGED <<config, index, store>>, NEW t \in Threads,
           todo[t] \notin {<<"index", "store">>, <<"store">>},
           \A o \in Threads \ {t} : todo'[o] = todo[o]
    PROVE  Pointed'
<1>1. \A o \in Threads : todo[o] \in {<<"index", "store">>, <<"store">>} => todo'[o] = todo[o]
  OBVIOUS
<1> QED
  BY <1>1 DEF Pointed

LEMMA PreflightRigged == ASSUME Rigged, NEW t \in Threads, Preflight(t) PROVE Rigged'
<1>1. /\ UNCHANGED <<config, filters, present, recording, saved, strayed, path, index, store, crossed>>
      /\ At(t, "preflight") /\ todo[t] # <<>> /\ Head(todo[t]) = "preflight"
      /\ (Done(t) \/ Abandon(t))
  BY DEF Preflight, At, Idle, rec, obs, disk, ghosts
<1>2. Lists' /\ \A o \in Threads \ {t} : todo'[o] = todo[o]
  BY <1>1, ListDone DEF Rigged, Lists
<1>3. todo'[t] \in {Tail(todo[t]), <<>>}
  BY <1>1 DEF Done, Abandon, Rigged, Lists
<1>4. todo'["ui"] \in ReapplyLists <=> todo["ui"] \in ReapplyLists
  BY <1>1, <1>2, <1>3, KindKept
<1>5. todo[t] \in DoneLists
  <2>1. todo[t] \in DoneLists \cup ReapplyLists
    BY UiOrKeys, ListHeads DEF Rigged, Lists
  <2> QED
    BY <1>1, <2>1, ListTails
<1>6. Aimed'
  <2>1. Head(Tail(todo[t])) = "arm"
    BY <1>1, <1>5, ListHeads
  <2> QED
    BY <1>1, <1>2, <1>3, <2>1, StillAimed
<1>7. NotInTake'
  BY <1>1, <1>4 DEF Rigged, NotInTake
<1>8. Pointed => Pointed'
  <2>1. Head(<<"index", "store">>) = "index" /\ Head(<<"store">>) = "store"
    OBVIOUS
  <2> QED
    BY <1>1, <1>2, <2>1, OthersPoint
<1> QED
  BY <1>1, <1>2, <1>4, <1>6, <1>7, <1>8, RigStays DEF Rigged, InTake

LEMMA OnAndOff ==
    ASSUME NEW f \in Filter
    PROVE  /\ [f EXCEPT !.on = TRUE] \in Filter /\ [f EXCEPT !.on = FALSE] \in Filter
           /\ [f EXCEPT !.on = TRUE].on /\ ~[f EXCEPT !.on = FALSE].on
           /\ [[f EXCEPT !.on = TRUE] EXCEPT !.on = FALSE] = [f EXCEPT !.on = FALSE]
           /\ [[f EXCEPT !.on = FALSE] EXCEPT !.on = FALSE] = [f EXCEPT !.on = FALSE]
<1>1. /\ [f EXCEPT !.on = TRUE] \in Filter /\ [f EXCEPT !.on = FALSE] \in Filter
      /\ [f EXCEPT !.on = TRUE].on /\ ~[f EXCEPT !.on = FALSE].on
  BY DEF Filter
<1>2. /\ [[f EXCEPT !.on = TRUE] EXCEPT !.on = FALSE] = [f EXCEPT !.on = FALSE]
      /\ [[f EXCEPT !.on = FALSE] EXCEPT !.on = FALSE] = [f EXCEPT !.on = FALSE]
  BY DEF Filter
<1> QED
  BY <1>1, <1>2

\* The additions leave the rig as it is configured.
LEMMA AddedDeclare ==
    ASSUME NEW fs, NEW c \in Rig, InPlace(fs, c), OnSources(fs)
    PROVE  Declares(AddFilters(fs, c), c)
<1> DEFINE new == AddFilters(fs, c)
<1>1. \A k \in Places : IF Wants(c, k) THEN new[k] = Made(c) ELSE new[k] = NoFilter
  BY DEF AddFilters, Wants, InPlace, OnSources
<1>2. Made(c) \in Filter /\ [Made(c) EXCEPT !.on = FALSE] = Made(c) /\ Made(c) # NoFilter
  <2>1. c.set \in Int /\ c.project \in Projects \cup {NoProject}
    BY DEF Rig
  <2>2. Made(c) \in Filter
    BY <2>1 DEF Made, Filter
  <2>3. [Made(c) EXCEPT !.on = FALSE] = Made(c)
    <3> DEFINE f == Made(c)
    <3>1. f \in Filter /\ f.on = FALSE
      BY <2>2 DEF Made
    <3> HIDE DEF f
    <3>2. [f EXCEPT !.on = FALSE] = f
      BY <3>1 DEF Filter
    <3> QED
      BY <3>2 DEF f
  <2> QED
    BY <2>2, <2>3, NoFilterIsNoFilter
<1> HIDE DEF new
<1>3. Declares(new, c)
  BY <1>1, <1>2 DEF Declares
<1> QED
  BY <1>3 DEF new

LEMMA PrunedDeclare ==
    ASSUME NEW fs \in FilterMap, NEW c, Declares(fs, c)
    PROVE  PruneFilters(fs, c) = fs
<1>1. \A k \in Places : (IF Owns(c, k[2]) /\ c.cams[k[2]] = k[1] THEN fs[k] ELSE NoFilter) = fs[k]
  BY DEF Declares, Wants
<1> QED
  BY <1>1 DEF PruneFilters, FilterMap

\* REC on a rig that is as configured, with no renewal under way: all of it is on.
LEMMA ArmRigged == ASSUME Settings, Armoury, Rigged, NEW t \in Threads, Arm(t) PROVE Rigged'
<1>1. /\ UNCHANGED <<config, present, saved, strayed, index, store>>
      /\ At(t, "arm") /\ todo[t] # <<>> /\ Head(todo[t]) = "arm"
  BY DEF Arm, At, Idle, disk
<1>2. todo[t] = <<"arm", "index", "store">> /\ todo[t] \notin ReapplyLists
  <2>1. todo[t] \in DoneLists \cup ReapplyLists
    BY UiOrKeys, ListHeads DEF Rigged, Lists
  <2>2. todo[t] \notin ReapplyLists
    BY <1>1, ListTails
  <2> QED
    BY <1>1, <2>1, <2>2, ListHeads
<1>3. CASE /\ UNCHANGED <<recording, filters, path, crossed>> /\ Abandon(t)
  <2>1. todo' = [todo EXCEPT ![t] = <<>>]
    BY <1>3 DEF Abandon
  <2>2. Lists' /\ todo'[t] = <<>> /\ \A o \in Threads \ {t} : todo'[o] = todo[o]
    BY <1>3, <2>1, ListSet, ListHeads DEF Rigged, Lists
  <2>3. todo'["ui"] \in ReapplyLists <=> todo["ui"] \in ReapplyLists
    BY <1>1, <2>2, KindKept
  <2>4. NotInTake' /\ Aimed'
    BY <1>1, <1>3, <2>2, <2>3, StillAimed DEF Rigged, NotInTake
  <2>5. Pointed => Pointed'
    <3>1. Head(<<"index", "store">>) = "index" /\ Head(<<"store">>) = "store"
      OBVIOUS
    <3> QED
      BY <1>1, <2>2, <3>1, OthersPoint
  <2> QED
    BY <1>1, <1>3, <2>2, <2>3, <2>4, <2>5, RigStays DEF Rigged, InTake
<1>4. CASE ~recording /\ TakeBegins(t)
  <2>1. /\ filters' = ArmedFilters /\ recording' = TRUE
        /\ path' = [path EXCEPT ![t] = config.project]
        /\ crossed' = (crossed \/ Renewing)
        /\ todo' = [todo EXCEPT ![t] = Tail(@)]
    BY <1>4 DEF TakeBegins, Done
  <2>2. todo' = [todo EXCEPT ![t] = <<"index", "store">>]
    BY <1>2, <2>1, ListHeads DEF Rigged, Lists
  <2>3. /\ Lists' /\ todo'[t] = <<"index", "store">>
        /\ \A o \in Threads \ {t} : todo'[o] = todo[o] /\ path'[o] = path[o]
        /\ path'[t] = config.project
    <3>1. /\ DOMAIN path' = Threads /\ path'[t] = config.project
          /\ \A o \in Threads \ {t} : path'[o] = path[o]
      BY <2>1 DEF Rigged, Lists
    <3> QED
      BY <2>2, <3>1, ListSet, ListHeads DEF Rigged
  <2>4. ~crossed' => todo["ui"] \notin ReapplyLists
    BY <2>1, ReapplyAhead
  <2>5. NotInTake' /\ Aimed' /\ SavedAsOpen'
    <3>1. NotInTake'
      BY <2>3, <2>4, UiOrKeys, ListHeads DEF NotInTake
    <3>2. Aimed'
      BY <1>1, <2>1, <2>3, StillAimed
    <3>3. SavedAsOpen'
      BY <1>1 DEF Rigged, SavedAsOpen
    <3> QED
      BY <3>1, <3>2, <3>3
  <2>6. ASSUME strayed = {}, ~crossed' PROVE Declares(filters', config) /\ \A k \in Places : Wants(config, k) => filters'[k].on
    <3>1. Declares(filters, config)
      BY <2>1, <2>4, <2>6 DEF Rigged, Declared
    <3>2. \A k \in Places : filters'[k] =
            IF Wants(config, k) THEN [filters[k] EXCEPT !.on = TRUE] ELSE NoFilter
      BY <2>1, <3>1 DEF ArmedFilters, Declares
    <3>3. \A k \in Places : Wants(config, k) => filters[k] \in Filter
      BY <3>1 DEF Declares, Armoury, Typed, FilterMap
    <3>4. \A k \in Places : Wants(config, k) =>
            /\ filters'[k] \in Filter /\ filters'[k].on
            /\ [filters'[k] EXCEPT !.on = FALSE] = [filters[k] EXCEPT !.on = FALSE]
      BY <3>2, <3>3, OnAndOff
    <3>5. \A k \in Places : Wants(config, k) => [filters[k] EXCEPT !.on = FALSE] = Made(config)
      BY <3>1 DEF Declares
    <3> QED
      BY <3>2, <3>4, <3>5, NoFilterIsNoFilter DEF Declares
  <2>7. Declared'
    <3>1. Declares(filters', config) => Declares(filters, config)'
      BY <1>1 DEF Declares, Wants
    <3> QED
      BY <1>1, <2>6, <3>1 DEF Declared
  <2>8. InTake'
    <3>1. strayed = {} /\ ~crossed' => AllOn'
      BY <1>1, <2>6 DEF AllOn, Wants
    <3>2. Pointed'
      BY <2>3 DEF Pointed
    <3> QED
      BY <1>1, <3>1, <3>2 DEF InTake
  <2> QED
    BY <2>3, <2>5, <2>7, <2>8 DEF Rigged
<1> QED
  <2>1. CASE recording /\ Abandon(t) /\ UNCHANGED <<rec, filters, path, crossed>>
    BY <1>3, <2>1 DEF rec
  <2>2. CASE ~recording /\ TakeBegins(t)
    BY <1>4, <2>2
  <2>3. CASE Abandon(t) /\ UNCHANGED <<recording, filters, path, crossed>>
    BY <1>3, <2>3
  <2> QED
    BY <2>1, <2>2, <2>3 DEF Arm

LEMMA StartIndexRigged == ASSUME Rigged, NEW t \in Threads, StartIndex(t) PROVE Rigged'
<1>1. /\ UNCHANGED <<config, filters, present, recording, saved, strayed, path, store, crossed>>
      /\ At(t, "index") /\ todo[t] # <<>> /\ Head(todo[t]) = "index" /\ index' = path[t] /\ Done(t)
  BY DEF StartIndex, At, Idle, rec, obs, disk, ghosts
<1>2. Lists' /\ \A o \in Threads \ {t} : todo'[o] = todo[o]
  BY <1>1, ListDone DEF Rigged, Lists
<1>3. todo'[t] = Tail(todo[t])
  BY <1>1 DEF Done, Rigged, Lists
<1>4. todo'["ui"] \in ReapplyLists <=> todo["ui"] \in ReapplyLists
  BY <1>1, <1>2, <1>3, KindKept
<1>5. NotInTake' /\ Aimed'
  BY <1>1, <1>2, <1>4, StillAimed DEF Rigged, NotInTake
<1>6. ASSUME strayed = {}, ~crossed, recording PROVE Pointed'
  <2>1. index' = config.project
    BY <1>1, <1>6 DEF Rigged, Aimed
  <2>2. store = config.project
        \/ \E o \in Threads : todo[o] \in {<<"index", "store">>, <<"store">>}
    BY <1>6 DEF Rigged, InTake, Pointed
  <2>3. \A o \in Threads : todo[o] \in {<<"index", "store">>, <<"store">>}
                          => todo'[o] \in {<<"index", "store">>, <<"store">>}
    BY <1>1, <1>2, <1>3, ListHeads
  <2> QED
    BY <1>1, <2>1, <2>2, <2>3 DEF Pointed
<1> QED
  BY <1>1, <1>2, <1>4, <1>5, <1>6, RigStays

LEMMA PointStoreRigged == ASSUME Rigged, NEW t \in Threads, PointStore(t) PROVE Rigged'
<1>1. /\ UNCHANGED <<config, filters, present, recording, saved, strayed, index, crossed>>
      /\ At(t, "store") /\ todo[t] # <<>> /\ Head(todo[t]) = "store" /\ store' = path[t]
      /\ Done(t) /\ OutOfScope(t)
  BY DEF PointStore, At, Idle, rec, obs, disk, ghosts
<1>2. Lists' /\ \A o \in Threads \ {t} : todo'[o] = todo[o]
  <2>1. DOMAIN path' = Threads
    BY <1>1 DEF OutOfScope, Rigged, Lists
  <2> QED
    BY <1>1, <2>1, ListDone DEF Rigged
<1>3. todo'[t] = Tail(todo[t])
  BY <1>1 DEF Done, Rigged, Lists
<1>4. todo'["ui"] \in ReapplyLists <=> todo["ui"] \in ReapplyLists
  BY <1>1, <1>2, <1>3, KindKept
<1>5. NotInTake' /\ Aimed'
  <2>1. (todo'[t] # <<>> => path'[t] = path[t]) /\ \A o \in Threads \ {t} : path'[o] = path[o]
    BY <1>1, <1>3 DEF OutOfScope, Rigged, Lists
  <2> QED
    BY <1>1, <1>2, <1>4, <2>1, StillAimed DEF Rigged, NotInTake
<1>6. ASSUME strayed = {}, ~crossed, recording PROVE Pointed'
  <2>1. store' = config.project
    BY <1>1, <1>6 DEF Rigged, Aimed
  <2>2. index = config.project \/ \E o \in Threads : todo[o] = <<"index", "store">>
    BY <1>6 DEF Rigged, InTake, Pointed
  <2>3. \A o \in Threads : todo[o] = <<"index", "store">> => todo'[o] = <<"index", "store">>
    BY <1>1, <1>2, ListHeads
  <2> QED
    BY <1>1, <2>1, <2>2, <2>3 DEF Pointed
<1> QED
  BY <1>1, <1>2, <1>4, <1>5, <1>6, RigStays

LEMMA PressStopRigged == ASSUME Armoury, Rigged, NEW t \in Threads, PressStop(t) PROVE Rigged'
<1>1. /\ UNCHANGED <<config, present, saved, strayed, crossed, todo, path>> /\ recording' = FALSE
      /\ filters' = [k \in Places |-> IF Disarms(k) /\ IsOn(filters, k)
                                      THEN [filters[k] EXCEPT !.on = FALSE] ELSE filters[k]]
  BY DEF PressStop, disk, flow, ghosts
<1>2. Lists' /\ SavedAsOpen' /\ NotInTake' /\ Aimed' /\ InTake'
  BY <1>1 DEF Rigged, Lists, SavedAsOpen, NotInTake, Aimed, InTake
<1>3. Declares(filters, config) => Declares(filters', config)
  <2> SUFFICES ASSUME Declares(filters, config) PROVE Declares(filters', config)
    OBVIOUS
  <2>1. \A k \in Places : filters[k] # NoFilter => filters[k] \in Filter
    BY DEF Armoury, Typed, FilterMap
  <2>2. \A k \in Places : filters'[k] = filters[k]
          \/ (filters[k] # NoFilter /\ filters'[k] = [filters[k] EXCEPT !.on = FALSE])
    BY <1>1 DEF IsOn
  <2>3. \A k \in Places :
          /\ filters'[k] # NoFilter <=> filters[k] # NoFilter
          /\ filters[k] # NoFilter => [filters'[k] EXCEPT !.on = FALSE] = [filters[k] EXCEPT !.on = FALSE]
    <3> SUFFICES ASSUME NEW k \in Places
                 PROVE  /\ filters'[k] # NoFilter <=> filters[k] # NoFilter
                        /\ filters[k] # NoFilter =>
                            [filters'[k] EXCEPT !.on = FALSE] = [filters[k] EXCEPT !.on = FALSE]
      OBVIOUS
    <3>1. CASE filters'[k] = filters[k]
      BY <3>1
    <3>2. CASE filters[k] # NoFilter /\ filters'[k] = [filters[k] EXCEPT !.on = FALSE]
      <4> DEFINE f == filters[k]
      <4>1. f \in Filter
        BY <2>1, <3>2
      <4> HIDE DEF f
      <4>2. [f EXCEPT !.on = FALSE] \in Filter
            /\ [[f EXCEPT !.on = FALSE] EXCEPT !.on = FALSE] = [f EXCEPT !.on = FALSE]
        BY <4>1, OnAndOff
      <4> QED
        BY <3>2, <4>2, NoFilterIsNoFilter DEF f
    <3> QED
      BY <2>2, <3>1, <3>2
  <2> QED
    BY <2>3 DEF Declares
<1>4. Declared'
  <2>1. Declares(filters', config) => Declares(filters, config)'
    BY <1>1 DEF Declares, Wants
  <2> QED
    BY <1>1, <1>3, <2>1 DEF Rigged, Declared
<1> QED
  BY <1>2, <1>4 DEF Rigged

LEMMA ListJoins ==
    /\ <<"reapply", "index">> \o <<"store">> = <<"reapply", "index", "store">>
    /\ <<"reapply", "index">> \o <<"new", "store">> = <<"reapply", "index", "new", "store">>
    /\ <<"store", "index", "reapply">> \o <<>> = <<"store", "index", "reapply">>
    /\ <<"store", "index", "reapply">> \o <<"store">> = <<"store", "index", "reapply", "store">>
<1> DEFINE Names == {"reapply", "index", "store", "new"}
<1>1. ASSUME NEW x \in Seq(Names), NEW y \in Seq(Names), NEW z \in Seq(Names),
             Len(z) = Len(x) + Len(y), \A i \in 1..Len(x) : z[i] = x[i],
             \A i \in 1..Len(y) : z[Len(x) + i] = y[i]
      PROVE  x \o y = z
  <2> DEFINE c == x \o y
  <2>1. c \in Seq(Names) /\ Len(c) = Len(x) + Len(y)
        /\ \A i \in 1..Len(c) : c[i] = IF i <= Len(x) THEN x[i] ELSE y[i - Len(x)]
    BY <1>1
  <2> HIDE DEF c
  <2>2. \A i \in 1..Len(c) : c[i] = z[i]
    <3> SUFFICES ASSUME NEW i \in 1..Len(c) PROVE c[i] = z[i]
      OBVIOUS
    <3>1. CASE i <= Len(x)
      BY <1>1, <2>1, <3>1
    <3>2. CASE i > Len(x)
      <4>1. i - Len(x) \in 1..Len(y) /\ Len(x) + (i - Len(x)) = i
        BY <1>1, <2>1, <3>2
      <4>2. y[i - Len(x)] = z[i]
        BY <1>1, <4>1
      <4>3. ~(i <= Len(x))
        BY <1>1, <3>2
      <4> QED
        BY <2>1, <4>2, <4>3
    <3> QED
      BY <1>1, <2>1, <3>1, <3>2
  <2>3. c = z
    BY <1>1, <2>1, <2>2, SeqEqual
  <2> QED
    BY <2>3 DEF c
<1>2. <<"reapply", "index">> \o <<"store">> = <<"reapply", "index", "store">>
  <2> DEFINE x == <<"reapply", "index">>
             y == <<"store">>
             z == <<"reapply", "index", "store">>
  <2>1. /\ x \in Seq(Names) /\ Len(x) = 2 /\ x[1] = "reapply" /\ x[2] = "index"
        /\ y \in Seq(Names) /\ Len(y) = 1 /\ y[1] = "store"
        /\ z \in Seq(Names) /\ Len(z) = 3 /\ z[1] = "reapply" /\ z[2] = "index" /\ z[3] = "store"
    OBVIOUS
  <2> HIDE DEF x, y, z
  <2>2. \A i \in 1..2 : z[i] = x[i]
    <3>1. \A i \in 1..2 : i = 1 \/ i = 2
      OBVIOUS
    <3> QED
      BY <2>1, <3>1
  <2>3. \A i \in 1..1 : z[2 + i] = y[i]
    <3>1. \A i \in 1..1 : (i = 1 /\ 2 + i = 3)
      OBVIOUS
    <3> QED
      BY <2>1, <3>1
  <2>4. x \o y = z
    <3>1. x \in Seq(Names) /\ y \in Seq(Names) /\ z \in Seq(Names) /\ Len(z) = Len(x) + Len(y)
      BY <2>1
    <3>2. \A i \in 1..Len(x) : z[i] = x[i]
      BY <2>1, <2>2
    <3>3. \A i \in 1..Len(y) : z[Len(x) + i] = y[i]
      BY <2>1, <2>3
    <3> HIDE DEF Names
    <3> QED
      BY <1>1, <3>1, <3>2, <3>3
  <2> QED
    BY <2>4 DEF x, y, z
<1>3. <<"reapply", "index">> \o <<"new", "store">> = <<"reapply", "index", "new", "store">>
  <2> DEFINE x == <<"reapply", "index">>
             y == <<"new", "store">>
             z == <<"reapply", "index", "new", "store">>
  <2>1. /\ x \in Seq(Names) /\ Len(x) = 2 /\ x[1] = "reapply" /\ x[2] = "index"
        /\ y \in Seq(Names) /\ Len(y) = 2 /\ y[1] = "new" /\ y[2] = "store"
        /\ z \in Seq(Names) /\ Len(z) = 4 /\ z[1] = "reapply" /\ z[2] = "index" /\ z[3] = "new" /\ z[4] = "store"
    OBVIOUS
  <2> HIDE DEF x, y, z
  <2>2. \A i \in 1..2 : z[i] = x[i]
    <3>1. \A i \in 1..2 : i = 1 \/ i = 2
      OBVIOUS
    <3> QED
      BY <2>1, <3>1
  <2>3. \A i \in 1..2 : z[2 + i] = y[i]
    <3>1. \A i \in 1..2 : (i = 1 /\ 2 + i = 3) \/ (i = 2 /\ 2 + i = 4)
      OBVIOUS
    <3> QED
      BY <2>1, <3>1
  <2>4. x \o y = z
    <3>1. x \in Seq(Names) /\ y \in Seq(Names) /\ z \in Seq(Names) /\ Len(z) = Len(x) + Len(y)
      BY <2>1
    <3>2. \A i \in 1..Len(x) : z[i] = x[i]
      BY <2>1, <2>2
    <3>3. \A i \in 1..Len(y) : z[Len(x) + i] = y[i]
      BY <2>1, <2>3
    <3> HIDE DEF Names
    <3> QED
      BY <1>1, <3>1, <3>2, <3>3
  <2> QED
    BY <2>4 DEF x, y, z
<1>4. <<"store", "index", "reapply">> \o <<>> = <<"store", "index", "reapply">>
  OBVIOUS
<1>5. <<"store", "index", "reapply">> \o <<"store">> = <<"store", "index", "reapply", "store">>
  <2> DEFINE x == <<"store", "index", "reapply">>
             y == <<"store">>
             z == <<"store", "index", "reapply", "store">>
  <2>1. /\ x \in Seq(Names) /\ Len(x) = 3 /\ x[1] = "store" /\ x[2] = "index" /\ x[3] = "reapply"
        /\ y \in Seq(Names) /\ Len(y) = 1 /\ y[1] = "store"
        /\ z \in Seq(Names) /\ Len(z) = 4 /\ z[1] = "store" /\ z[2] = "index" /\ z[3] = "reapply" /\ z[4] = "store"
    OBVIOUS
  <2> HIDE DEF x, y, z
  <2>2. \A i \in 1..3 : z[i] = x[i]
    <3>1. \A i \in 1..3 : i = 1 \/ i = 2 \/ i = 3
      OBVIOUS
    <3> QED
      BY <2>1, <3>1
  <2>3. \A i \in 1..1 : z[3 + i] = y[i]
    <3>1. \A i \in 1..1 : (i = 1 /\ 3 + i = 4)
      OBVIOUS
    <3> QED
      BY <2>1, <3>1
  <2>4. x \o y = z
    <3>1. x \in Seq(Names) /\ y \in Seq(Names) /\ z \in Seq(Names) /\ Len(z) = Len(x) + Len(y)
      BY <2>1
    <3>2. \A i \in 1..Len(x) : z[i] = x[i]
      BY <2>1, <2>2
    <3>3. \A i \in 1..Len(y) : z[Len(x) + i] = y[i]
      BY <2>1, <2>3
    <3> HIDE DEF Names
    <3> QED
      BY <1>1, <3>1, <3>2, <3>3
  <2> QED
    BY <2>4 DEF x, y, z
<1> QED
  BY <1>2, <1>3, <1>4, <1>5

\* Saving during a take strays; else reapplyFilterSettings() is ahead.
LEMMA SetConfigRigged ==
    ASSUME Settings, Settings', Rigged, NEW steps \in {<<"store">>, <<"new", "store">>}, SetConfig(steps)
    PROVE  Rigged'
<1>1. /\ UNCHANGED <<filters, present, recording, crossed>>
      /\ todo["ui"] = <<>> /\ path' = [path EXCEPT !["ui"] = config.project]
      /\ config'.project = config.project
      /\ todo' = [todo EXCEPT !["ui"] = IF recording THEN steps ELSE <<"reapply", "index">> \o steps]
      /\ strayed' = IF recording THEN strayed \cup {"saved during a take"} ELSE strayed
      /\ saved' = SavedWith(config')
  <2>1. PICK c \in Rigs, n \in {0, 1} : config' = [c EXCEPT !.set = @ + n]
    BY DEF SetConfig
  <2>2. PICK cams : c = [config EXCEPT !.cams = cams]
    BY DEF Rigs
  <2>3. config'.project = config.project
    BY <2>1, <2>2 DEF Settings, Rig
  <2> QED
    BY <2>3, UiOrKeys DEF SetConfig, Free, Idle, Begin, rec, obs
<1> DEFINE q == IF recording THEN steps ELSE <<"reapply", "index">> \o steps
<1>2. IF recording THEN q \in DoneLists ELSE q \in ReapplyLists
  BY ListJoins DEF DoneLists, ReapplyLists, RecLists
<1> HIDE DEF q
<1>3. todo' = [todo EXCEPT !["ui"] = q] /\ DOMAIN path' = Threads
  BY <1>1 DEF q, Rigged, Lists
<1>4. Lists' /\ todo'["ui"] = q /\ \A o \in Threads \ {"ui"} : todo'[o] = todo[o]
  <2>1. q \in DoneLists \cup ReapplyLists /\ "ui" \in Threads
    BY <1>2, UiOrKeys
  <2>2. Rigged => Lists
    BY DEF Rigged
  <2> QED
    BY <1>3, <2>1, <2>2, ListSet
<1>5. SavedAsOpen'
  BY <1>1 DEF SavedWith, Settings, Rig, SavedAsOpen
<1>6. NotInTake'
  BY <1>1, <1>2, <1>4, ListHeads DEF NotInTake
<1>7. Aimed'
  <2>1. path'["ui"] = config.project /\ \A o \in Threads \ {"ui"} : path'[o] = path[o]
    BY <1>1, UiOrKeys DEF Rigged, Lists
  <2> QED
    BY <1>1, <1>4, <2>1, UiOrKeys DEF Rigged, Aimed
<1>8. Declared' /\ InTake'
  BY <1>1, <1>2, <1>4 DEF Declared, InTake
<1> QED
  BY <1>4, <1>5, <1>6, <1>7, <1>8 DEF Rigged

\* The folder changes with the project, unless the keys' thread is still on its way to the old.
LEMMA NotPointing ==
    ASSUME Lists, path'["ui"] = config'.project, \A o \in Threads \ {"ui"} : todo'[o] = todo[o],
           crossed' = (crossed \/ Pointing)
    PROVE  Aimed'
<1> SUFFICES ASSUME ~crossed', NEW o \in Threads,
                    todo'[o] # <<>>, Head(todo'[o]) \notin {"preflight", "arm"}
             PROVE  path'[o] = config'.project
  BY DEF Aimed
<1>1. CASE o = "ui"
  BY <1>1
<1>2. CASE o = "keys"
  <2>1. \A q \in RecLists : q # <<>> => Head(q) \in {"preflight", "arm", "index", "store"}
    BY DEF RecLists
  <2>2. todo'["keys"] = todo["keys"] /\ todo["keys"] \in RecLists
    BY UiOrKeys DEF Lists
  <2>3. Pointing
    BY <1>2, <2>1, <2>2 DEF Pointing, Idle
  <2> QED
    BY <2>3
<1> QED
  BY <1>1, <1>2, UiOrKeys

\* A project that could be made has reapplyFilterSettings() ahead; one that could not strays.
LEMMA CreateRigged ==
    ASSUME Settings, Settings', Rigged, NEW then \in {<<>>, <<"store">>}, Create(then),
           UNCHANGED <<filters, present, recording>>, ~recording
    PROVE  Rigged'
<1>1. PICK p \in Projects : config' = [config EXCEPT !.project = p] /\ path' = [path EXCEPT !["ui"] = p]
  BY UiOrKeys DEF Create
<1>2. /\ config'.project = p /\ DOMAIN path' = Threads /\ DOMAIN saved = Projects
      /\ path'["ui"] = p /\ crossed' = (crossed \/ Pointing)
  BY <1>1, UiOrKeys DEF Settings, Rig, Rigged, Lists, Create
<1>3. ASSUME NEW q \in DoneLists \cup ReapplyLists, Begin(Ui, q), SavedAsOpen',
             q \in ReapplyLists \/ strayed' # {}
      PROVE  Rigged'
  <2>1. Lists' /\ todo'["ui"] = q /\ \A o \in Threads \ {"ui"} : todo'[o] = todo[o]
    <3>1. todo' = [todo EXCEPT !["ui"] = q] /\ "ui" \in Threads /\ Lists
      BY <1>3, UiOrKeys DEF Begin, Rigged
    <3> QED
      BY <1>2, <3>1, ListSet
  <2>2. NotInTake' /\ Aimed'
    BY <1>2, <2>1, NotPointing DEF Rigged, NotInTake
  <2>3. Declared' /\ InTake'
    BY <1>3, <2>1 DEF Declared, InTake
  <2> QED
    BY <1>3, <2>1, <2>2, <2>3 DEF Rigged
<1>4. CASE saved' = SavedWith(config') /\ Begin(Ui, <<"store", "index", "reapply">> \o then)
  <2>1. <<"store", "index", "reapply">> \o then \in ReapplyLists
    BY ListJoins DEF ReapplyLists
  <2>2. SavedAsOpen'
    BY <1>2, <1>4 DEF SavedWith, SavedAsOpen
  <2> QED
    BY <1>3, <1>4, <2>1, <2>2
<1>5. CASE /\ saved[config'.project] = NoRig /\ strayed' = strayed \cup {"no folder"}
           /\ Begin(Ui, then) /\ UNCHANGED disk
  <2>1. then \in DoneLists
    BY DEF DoneLists, RecLists
  <2>2. SavedAsOpen'
    BY <1>2, <1>5 DEF SavedAsOpen, disk
  <2>3. strayed' # {}
    BY <1>5
  <2> QED
    BY <1>3, <1>5, <2>1, <2>2, <2>3
<1> QED
  BY <1>4, <1>5 DEF Create

LEMMA CreateGuidedRigged == ASSUME Settings, Settings', Rigged, CreateGuided PROVE Rigged'
<1>1. /\ UNCHANGED <<filters, present, recording, index, store>>
      /\ At("ui", "new") /\ todo["ui"] # <<>> /\ Head(todo["ui"]) = "new"
  BY UiOrKeys DEF CreateGuided, At, Idle, rec, obs
<1>2. todo["ui"] = <<"new", "store">> /\ Tail(todo["ui"]) = <<"store">> /\ todo["ui"] \notin ReapplyLists
  <2>1. todo["ui"] \in DoneLists /\ todo["ui"] \notin ReapplyLists
    BY <1>1, ListTails DEF Rigged, Lists
  <2>2. todo["ui"] = <<"new", "store">>
    BY <1>1, <2>1, ListHeads
  <2>3. Tail(<<"new", "store">>) = <<"store">>
    OBVIOUS
  <2> QED
    BY <2>1, <2>2, <2>3
<1>3. CASE recording
  <2>1. Done("ui") /\ UNCHANGED <<config, path, disk, ghosts>>
    BY <1>3, UiOrKeys DEF CreateGuided
  <2>2. Lists' /\ \A o \in Threads \ {"ui"} : todo'[o] = todo[o]
    BY <1>1, <2>1, ListDone, UiOrKeys DEF Rigged, Lists
  <2>3. todo'["ui"] = <<"store">> /\ todo'["ui"] = Tail(todo["ui"])
    BY <1>2, <2>1, UiOrKeys DEF Done, Rigged, Lists
  <2>4. todo'["ui"] \in ReapplyLists <=> todo["ui"] \in ReapplyLists
    BY <1>1, <2>2, <2>3, KindKept, UiOrKeys
  <2>5. NotInTake' /\ Aimed'
    BY <1>1, <2>1, <2>2, <2>4, StillAimed, UiOrKeys DEF Rigged, NotInTake, ghosts
  <2>6. Pointed => Pointed'
    <3>1. <<"new", "store">> # <<"index", "store">> /\ <<"new", "store">> # <<"store">>
      OBVIOUS
    <3> QED
      BY <1>1, <1>2, <2>1, <2>2, <3>1, OthersPoint, UiOrKeys
  <2> QED
    BY <1>1, <2>1, <2>2, <2>4, <2>5, <2>6, RigStays DEF disk, ghosts, Rigged, InTake
<1>4. CASE ~recording
  <2>1. Create(<<"store">>)
    BY <1>2, <1>4, UiOrKeys DEF CreateGuided
  <2> QED
    BY <1>1, <1>4, <2>1, CreateRigged
<1> QED
  BY <1>3, <1>4

LEMMA NewProjectRigged == ASSUME Settings, Settings', Rigged, NewProject PROVE Rigged'
<1>1. UNCHANGED <<filters, present, recording>> /\ ~recording /\ Create(<<>>)
  BY DEF NewProject, MaySwitch, rec, obs
<1> QED
  BY <1>1, CreateRigged

LEMMA OpenRigged == ASSUME Settings, Settings', Rigged, OpenProject PROVE Rigged'
<1>1. PICK p \in Projects : config' = Adopted(p) /\ path' = [path EXCEPT !["ui"] = p]
                          /\ saved' = SavedWith(config')
  BY UiOrKeys DEF OpenProject, Opened
<1>2. /\ UNCHANGED <<filters, present, recording, strayed>> /\ ~recording
      /\ todo' = [todo EXCEPT !["ui"] = <<"store", "index", "reapply">>]
      /\ crossed' = (crossed \/ Pointing)
  BY UiOrKeys DEF OpenProject, MaySwitch, Begin, rec, obs
<1>3. /\ config'.project = p /\ DOMAIN saved = Projects /\ DOMAIN path' = Threads
      /\ path'["ui"] = p
  BY <1>1, AdoptedIsRig, UiOrKeys DEF Settings, Rigged, Lists
<1>4. <<"store", "index", "reapply">> \in ReapplyLists /\ "ui" \in Threads /\ Lists
  BY UiOrKeys DEF ReapplyLists, Rigged
<1>5. Lists' /\ todo'["ui"] = <<"store", "index", "reapply">> /\ \A o \in Threads \ {"ui"} : todo'[o] = todo[o]
  BY <1>2, <1>3, <1>4, ListSet
<1>6. SavedAsOpen'
  BY <1>1, <1>3 DEF SavedWith, SavedAsOpen
<1>7. NotInTake' /\ Aimed'
  BY <1>2, <1>3, <1>4, <1>5, NotPointing DEF NotInTake
<1>8. Declared' /\ InTake'
  BY <1>2, <1>4, <1>5 DEF Declared, InTake
<1> QED
  BY <1>5, <1>6, <1>7, <1>8 DEF Rigged

\* reapplyFilterSettings() leaves the rig as it is configured.
LEMMA ReapplyRigged == ASSUME Settings, Armoury, Rigged, Reapply PROVE Rigged'
<1>1. /\ UNCHANGED <<config, present, saved, recording, crossed, index, store>>
      /\ At("ui", "reapply") /\ todo["ui"] # <<>> /\ Head(todo["ui"]) = "reapply"
      /\ Done("ui") /\ OutOfScope("ui")
  BY UiOrKeys DEF Reapply, At, Idle, rec, disk
<1>2. todo["ui"] \in ReapplyLists /\ (~crossed => ~recording)
  <2>1. todo["ui"] \in ReapplyLists
    BY <1>1, ListTails DEF Rigged, Lists
  <2> QED
    BY <2>1 DEF Rigged, NotInTake, Armoury, Typed
<1>3. Lists' /\ todo'["ui"] = Tail(todo["ui"]) /\ \A o \in Threads \ {"ui"} : todo'[o] = todo[o]
  <2>1. DOMAIN path' = Threads
    BY <1>1 DEF OutOfScope, Rigged, Lists
  <2> QED
    BY <1>1, <2>1, ListDone, UiOrKeys DEF Done, Rigged, Lists
<1>4. SavedAsOpen' /\ NotInTake' /\ InTake'
  BY <1>1, <1>2 DEF Rigged, SavedAsOpen, NotInTake, InTake
<1>5. Aimed'
  <2>1. /\ todo'["ui"] # <<>> => path'["ui"] = path["ui"]
        /\ \A o \in Threads \ {"ui"} : path'[o] = path[o]
    BY <1>1, <1>3, UiOrKeys DEF OutOfScope, Rigged, Lists
  <2> QED
    BY <1>1, <1>3, <2>1, StillAimed, UiOrKeys
<1>6. ASSUME ~crossed PROVE Declares(filters, config)'
  <2>1. filters' = AddFilters(PruneFilters(filters, config), config)
    BY <1>2, <1>6 DEF Reapply, Renewed
  <2>2. config \in Rig /\ filters \in FilterMap /\ OnSources(filters)
    BY DEF Settings, Armoury, Typed
  <2>3. /\ InPlace(PruneFilters(filters, config), config)
        /\ OnSources(PruneFilters(filters, config))
    BY <2>2, Pruned
  <2>4. Declares(filters', config)
    BY <2>1, <2>2, <2>3, AddedDeclare
  <2> QED
    BY <1>1, <2>4 DEF Declares, Wants
<1>7. Declared'
  BY <1>1, <1>6 DEF Declared
<1> QED
  BY <1>3, <1>4, <1>5, <1>7 DEF Rigged

\* A pruning takes nothing from a rig that is as configured.
LEMMA RunTaskRigged == ASSUME Armoury, Rigged, RunTask PROVE Rigged'
<1>1. /\ UNCHANGED <<config, present, saved, recording, crossed, strayed, todo, path, index, store>>
      /\ todo["ui"] = <<>> /\ filters' \in {filters, PruneFilters(filters, config)}
  BY UiOrKeys DEF RunTask, Idle, rec, disk, ghosts
<1>2. Lists' /\ SavedAsOpen' /\ NotInTake' /\ Aimed'
  BY <1>1 DEF Rigged, Lists, SavedAsOpen, NotInTake, Aimed
<1>3. ASSUME strayed = {}, ~crossed PROVE filters' = filters /\ Declares(filters, config)
  <2>1. Declares(filters, config) /\ filters \in FilterMap
    BY <1>1, <1>3, ListHeads DEF Rigged, Declared, Armoury, Typed
  <2> QED
    BY <1>1, <2>1, PrunedDeclare
<1>4. Declared' /\ InTake'
  <2>1. filters' = filters => (Declares(filters, config)' <=> Declares(filters, config))
    BY <1>1 DEF Declares, Wants
  <2>2. filters' = filters => (AllOn' <=> AllOn)
    BY <1>1 DEF AllOn, Wants
  <2>3. Pointed' <=> Pointed
    BY <1>1 DEF Pointed
  <2> QED
    BY <1>1, <1>3, <2>1, <2>2, <2>3 DEF Rigged, Declared, InTake
<1> QED
  BY <1>2, <1>4 DEF Rigged

LEMMA MishapsRigged == ASSUME Rigged, SwitchCollection \/ RenameSource PROVE Rigged'
<1>1. UNCHANGED <<config, saved, recording, crossed, todo, path>> /\ strayed' # {}
  BY DEF SwitchCollection, RenameSource, Mishap, rec, disk, flow
<1>2. Lists' /\ SavedAsOpen' /\ NotInTake' /\ Aimed'
  BY <1>1 DEF Rigged, Lists, SavedAsOpen, NotInTake, Aimed
<1>3. Declared' /\ InTake'
  BY <1>1 DEF Declared, InTake
<1> QED
  BY <1>2, <1>3 DEF Rigged

\* The project that was open is what it was, and its filters are there, off.
LEMMA RestartRigged == ASSUME Settings, Settings', Armoury, Rigged, Restart PROVE Rigged'
<1>1. /\ UNCHANGED <<present, saved, crossed>> /\ recording' = FALSE /\ filters' = Disarmed(filters)
      /\ todo' = [t \in Threads |-> <<>>] /\ path' = [t \in Threads |-> NoProject]
      /\ config' = IF config.project = NoProject THEN config ELSE Adopted(config.project)
      /\ strayed' = IF Quiet THEN strayed ELSE strayed \cup {"restarted"}
  BY DEF Restart, Reloaded, disk
<1>2. Lists'
  BY <1>1, ListHeads, UiOrKeys DEF Lists
<1>3. config \in Rig /\ config.project \in Projects \cup {NoProject}
  BY DEF Settings, Rig
<1>4. config.project # NoProject => config'.project = config.project
  BY <1>1, <1>3, AdoptedIsRig
<1>5. SavedAsOpen'
  <2> SUFFICES ASSUME config'.project # NoProject
               PROVE  saved[config'.project] \in {NoRig, Unreadable, config'}
    BY <1>1 DEF SavedAsOpen
  <2>1. config.project # NoProject /\ config'.project = config.project
    BY <1>1, <1>4
  <2> QED
    BY <1>1, <2>1 DEF Adopted
<1>6. NotInTake' /\ Aimed' /\ InTake'
  BY <1>1 DEF NotInTake, Aimed, InTake
<1>7. ASSUME strayed' = {}, ~crossed PROVE Declares(filters, config)'
  <2>1. Quiet /\ strayed = {}
    BY <1>1, <1>7
  <2>2. todo["ui"] = <<>> /\ tasks = <<>>
    BY <2>1, UiOrKeys DEF Quiet
  <2>3. todo["ui"] \notin ReapplyLists
    BY <2>2, ListHeads
  <2>4. Declares(filters, config)
    BY <1>7, <2>1, <2>3 DEF Rigged, Declared
  <2>5. config' = config
    <3>1. CASE config.project = NoProject
      BY <1>1, <3>1
    <3>2. CASE config.project # NoProject
      <4>1. saved[config.project] \in {NoRig, Unreadable, config}
        BY <3>2 DEF Rigged, SavedAsOpen
      <4>2. [config EXCEPT !.project = config.project] = config
        BY <1>3 DEF Rig
      <4> QED
        BY <1>1, <3>2, <4>1, <4>2 DEF Adopted
    <3> QED
      BY <3>1, <3>2
  <2>6. \A k \in Places : filters[k] # NoFilter => filters[k] \in Filter
    BY DEF Armoury, Typed, FilterMap
  <2>7. \A k \in Places : filters'[k] = IF filters[k] = NoFilter THEN NoFilter
                                        ELSE [filters[k] EXCEPT !.on = FALSE]
    BY <1>1 DEF Disarmed
  <2>8. \A k \in Places :
          /\ filters'[k] # NoFilter <=> filters[k] # NoFilter
          /\ filters[k] # NoFilter => [filters'[k] EXCEPT !.on = FALSE] = [filters[k] EXCEPT !.on = FALSE]
    <3> SUFFICES ASSUME NEW k \in Places, filters[k] # NoFilter
                 PROVE  /\ filters'[k] # NoFilter
                        /\ [filters'[k] EXCEPT !.on = FALSE] = [filters[k] EXCEPT !.on = FALSE]
      BY <2>7
    <3> DEFINE f == filters[k]
    <3>1. f \in Filter /\ filters'[k] = [f EXCEPT !.on = FALSE]
      BY <2>6, <2>7
    <3> HIDE DEF f
    <3>2. [f EXCEPT !.on = FALSE] \in Filter
          /\ [[f EXCEPT !.on = FALSE] EXCEPT !.on = FALSE] = [f EXCEPT !.on = FALSE]
      BY <3>1, OnAndOff
    <3> QED
      BY <3>1, <3>2, NoFilterIsNoFilter DEF f
  <2> QED
    BY <1>1, <2>4, <2>5, <2>8 DEF Declares, Wants
<1>8. Declared'
  BY <1>1, <1>7 DEF Declared
<1> QED
  BY <1>2, <1>5, <1>6, <1>8 DEF Rigged

LEMMA DamageRigged == ASSUME Settings, Rigged, Damage \/ UNCHANGED vars PROVE Rigged'
<1>1. /\ UNCHANGED <<config, filters, present, recording, todo, path, strayed, crossed, index, store>>
      /\ saved' = saved \/ \E p \in Projects : saved' = [saved EXCEPT ![p] = Unreadable]
  BY DEF Damage, vars, rec, obs, disk, flow, ghosts
<1>2. Lists' /\ NotInTake' /\ Aimed'
  BY <1>1 DEF Rigged, Lists, NotInTake, Aimed
<1>3. SavedAsOpen'
  <2>1. DOMAIN saved = Projects /\ config.project \in Projects \cup {NoProject}
    BY DEF Settings, Rig
  <2>2. \A p \in Projects : saved'[p] = saved[p] \/ saved'[p] = Unreadable
    BY <1>1, <2>1
  <2> QED
    BY <1>1, <2>1, <2>2 DEF Rigged, SavedAsOpen
<1>4. Declares(filters, config)' <=> Declares(filters, config)
  BY <1>1 DEF Declares, Wants
<1>5. (AllOn' <=> AllOn) /\ (Pointed' <=> Pointed)
  BY <1>1 DEF AllOn, Wants, Pointed
<1> QED
  BY <1>1, <1>2, <1>3, <1>4, <1>5 DEF Rigged, Declared, InTake

LEMMA StepRigged ==
    Settings /\ Settings' /\ Armoury /\ Rigged /\ [Next]_vars => Rigged'
<1> SUFFICES ASSUME Settings, Settings', Armoury, Rigged, [Next]_vars PROVE Rigged'
  OBVIOUS
<1>1. ASSUME NEW t \in Threads, Press(t) PROVE Rigged'
  BY <1>1, PressRecRigged, PressStopRigged DEF Press
<1>2. ASSUME NEW t \in Threads, Step(t) PROVE Rigged'
  BY <1>2, PreflightRigged, ArmRigged, StartIndexRigged, PointStoreRigged DEF Step
<1>3. CASE SaveSettings \/ GuidedSetup
  BY <1>3, SetConfigRigged DEF SaveSettings, GuidedSetup
<1>4. CASE NewProject \/ CreateGuided \/ OpenProject
  BY <1>4, NewProjectRigged, CreateGuidedRigged, OpenRigged
<1>5. CASE Reapply \/ RunTask
  BY <1>5, ReapplyRigged, RunTaskRigged
<1>6. CASE SwitchCollection \/ RenameSource
  BY <1>6, MishapsRigged
<1>7. CASE Restart
  BY <1>7, RestartRigged
<1>8. CASE Damage \/ UNCHANGED vars
  BY <1>8, DamageRigged
<1> QED
  BY <1>1, <1>2, <1>3, <1>4, <1>5, <1>6, <1>7, <1>8 DEF Next

\* What is configured is what the open project was last given, unless the folder of a new
\* project could not be made: then nothing leads to the filters before the next change.
AsGiven ==
    config.project # NoProject =>
        \/ rig[config.project] = config
        \/ rig[config.project] = NoRig /\ strayed # {} /\ todo["ui"] \notin ReapplyLists

LEMMA GivenStays ==
    ASSUME AsGiven, UNCHANGED <<config, rig>>, strayed \subseteq strayed',
           todo["ui"] \notin ReapplyLists => todo'["ui"] \notin ReapplyLists
    PROVE  AsGiven'
BY DEF AsGiven

\* What was configured last is what the project was last given.
LEMMA GivenSaved ==
    ASSUME Settings, Settings', rig' = RigWith(config') PROVE AsGiven'
<1>1. DOMAIN rig = Projects /\ config'.project \in Projects \cup {NoProject}
  BY DEF Settings, Rig
<1> QED
  BY <1>1 DEF RigWith, AsGiven

LEMMA InitGiven == Init => AsGiven
BY DEF Init, FirstRig, AsGiven

LEMMA OperationsGiven ==
    ASSUME Rigged, AsGiven, NEW t \in Threads, Press(t) \/ Step(t) PROVE AsGiven'
<1>1. UNCHANGED <<config, rig, strayed>> /\ Lists
  BY DEF Press, PressRec, PressStop, Step, Preflight, Arm, StartIndex, PointStore, disk, ghosts, Rigged
<1>2. \/ todo' = todo
      \/ todo[t] = <<>> /\ todo' = [todo EXCEPT ![t] = <<"preflight", "arm", "index", "store">>]
      \/ todo[t] # <<>> /\ todo' \in {[todo EXCEPT ![t] = Tail(@)], [todo EXCEPT ![t] = <<>>]}
  BY DEF Press, PressRec, PressStop, Step, Preflight, Arm, TakeBegins, StartIndex, PointStore,
         Free, Idle, At, Begin, Done, Abandon, flow
<1>3. ASSUME todo["ui"] \notin ReapplyLists PROVE todo'["ui"] \notin ReapplyLists
  <2>1. todo["ui"] \in DoneLists
    BY <1>1, <1>3 DEF Lists
  <2>2. todo["ui"] # <<>> => Tail(todo["ui"]) \in DoneLists
    BY <2>1, ListTails
  <2>3. <<"preflight", "arm", "index", "store">> \in DoneLists /\ <<>> \in DoneLists
    BY DEF DoneLists, RecLists
  <2>4. CASE todo' = todo
    BY <1>3, <2>4
  <2>5. CASE todo' # todo
    <3>1. PICK q : todo' = [todo EXCEPT ![t] = q] /\ (t = "ui" => q \in DoneLists)
      <4>1. CASE todo' = [todo EXCEPT ![t] = <<"preflight", "arm", "index", "store">>]
        BY <2>3, <4>1
      <4>2. CASE todo[t] # <<>> /\ todo' = [todo EXCEPT ![t] = Tail(todo[t])]
        BY <2>2, <4>2
      <4>3. CASE todo' = [todo EXCEPT ![t] = <<>>]
        BY <2>3, <4>3
      <4> QED
        BY <1>2, <2>5, <4>1, <4>2, <4>3
    <3>2. todo'["ui"] \in DoneLists
      BY <1>1, <2>1, <3>1 DEF Lists
    <3> QED
      BY <3>2, ListHeads
  <2> QED
    BY <2>4, <2>5
<1> QED
  BY <1>1, <1>3, GivenStays

LEMMA CreateGiven ==
    ASSUME Settings, Settings', Rigged, NEW then \in {<<>>, <<"store">>}, Create(then)
    PROVE  AsGiven'
<1>1. CASE rig' = RigWith(config')
  BY <1>1, GivenSaved
<1>2. CASE /\ saved[config'.project] = NoRig /\ UNCHANGED disk
           /\ strayed' = strayed \cup {"no folder"} /\ Begin(Ui, then)
  <2>1. config'.project \in Projects \cup {NoProject}
    BY DEF Settings, Rig
  <2>2. NoRig # Unreadable
    BY DEF NoRig, Unreadable
  <2>3. config'.project # NoProject => rig'[config'.project] = NoRig
    BY <1>2, <2>1, <2>2 DEF Settings, disk
  <2>4. todo'["ui"] = then
    BY <1>2, UiOrKeys DEF Begin, Rigged, Lists
  <2>5. then \in DoneLists
    BY DEF DoneLists, RecLists
  <2>6. todo'["ui"] \notin ReapplyLists
    BY <2>4, <2>5, ListHeads
  <2> QED
    BY <1>2, <2>3, <2>6 DEF AsGiven
<1> QED
  BY <1>1, <1>2 DEF Create

LEMMA OpenGiven == ASSUME Settings, Settings', OpenProject PROVE AsGiven'
<1>1. PICK p \in Projects :
        /\ config' = Adopted(p) /\ saved[p] # NoRig
        /\ rig' = IF saved[p] = Unreadable THEN RigWith(config') ELSE rig
  BY DEF OpenProject, Opened
<1>2. CASE saved[p] = Unreadable
  BY <1>1, <1>2, GivenSaved
<1>3. CASE saved[p] # Unreadable
  <2>1. config' = saved[p] /\ rig' = rig /\ saved[p] = rig[p]
    BY <1>1, <1>3 DEF Adopted, Settings
  <2>2. config'.project = p
    BY <1>1, AdoptedIsRig
  <2> QED
    BY <2>1, <2>2 DEF AsGiven
<1> QED
  BY <1>2, <1>3

LEMMA RestartGiven == ASSUME Settings, AsGiven, Restart PROVE AsGiven'
<1>1. /\ config' = IF config.project = NoProject THEN config ELSE Adopted(config.project)
      /\ rig' = rig /\ strayed \subseteq strayed' /\ todo' = [t \in Threads |-> <<>>]
  BY DEF Restart, disk
<1>2. todo'["ui"] \notin ReapplyLists
  BY <1>1, UiOrKeys, ListHeads
<1>3. CASE config.project = NoProject
  BY <1>1, <1>3 DEF AsGiven
<1>4. CASE config.project # NoProject
  <2>1. config.project \in Projects /\ config'.project = config.project
    BY <1>1, <1>4, AdoptedIsRig DEF Settings, Rig
  <2>2. rig[config.project] = config => config' = config
    <3>1. [config EXCEPT !.project = config.project] = config
      BY DEF Settings, Rig
    <3> QED
      BY <1>1, <1>4, <2>1, <3>1 DEF Adopted, Settings
  <2> QED
    BY <1>1, <1>2, <1>4, <2>1, <2>2 DEF AsGiven
<1> QED
  BY <1>3, <1>4

LEMMA StepGiven ==
    Settings /\ Settings' /\ Rigged /\ AsGiven /\ [Next]_vars => AsGiven'
<1> SUFFICES ASSUME Settings, Settings', Rigged, AsGiven, [Next]_vars PROVE AsGiven'
  OBVIOUS
<1>1. ASSUME NEW t \in Threads, Press(t) \/ Step(t) PROVE AsGiven'
  BY <1>1, OperationsGiven
<1>2. CASE SaveSettings \/ GuidedSetup
  BY <1>2, GivenSaved DEF SaveSettings, GuidedSetup, SetConfig
<1>3. CASE NewProject
  BY <1>3, CreateGiven DEF NewProject
<1>4. CASE CreateGuided
  <2>1. todo["ui"] = <<"new", "store">>
    <3>1. todo["ui"] # <<>> /\ Head(todo["ui"]) = "new"
      BY <1>4, UiOrKeys DEF CreateGuided, At, Idle
    <3>2. todo["ui"] \in DoneLists
      BY <3>1, ListTails DEF Rigged, Lists
    <3> QED
      BY <3>1, <3>2, ListHeads
  <2>2. Tail(todo["ui"]) = <<"store">> /\ <<"store">> \in DoneLists
    BY <2>1 DEF DoneLists, RecLists
  <2>3. CASE recording
    <3>1. todo'["ui"] = <<"store">> /\ UNCHANGED <<config, rig, strayed>>
      BY <1>4, <2>2, <2>3, UiOrKeys DEF CreateGuided, Done, Rigged, Lists, disk, ghosts
    <3>2. todo'["ui"] \notin ReapplyLists
      BY <2>2, <3>1, ListHeads
    <3> QED
      BY <3>1, <3>2, GivenStays
  <2>4. CASE ~recording
    <3>1. Create(<<"store">>)
      BY <1>4, <2>2, <2>4, UiOrKeys DEF CreateGuided
    <3> QED
      BY <3>1, CreateGiven
  <2> QED
    BY <2>3, <2>4
<1>5. CASE OpenProject
  BY <1>5, OpenGiven
<1>6. CASE Reapply
  <2>1. UNCHANGED <<config, rig>>
    BY <1>6 DEF Reapply, disk
  <2>2. todo["ui"] \in ReapplyLists
    <3>1. todo["ui"] # <<>> /\ Head(todo["ui"]) = "reapply"
      BY <1>6, UiOrKeys DEF Reapply, At, Idle
    <3> QED
      BY <3>1, ListTails DEF Rigged, Lists
  <2> QED
    BY <2>1, <2>2 DEF AsGiven
<1>7. CASE RunTask \/ SwitchCollection \/ RenameSource \/ Damage \/ UNCHANGED vars
  <2>1. UNCHANGED <<config, rig, todo>> /\ strayed \subseteq strayed'
    BY <1>7 DEF RunTask, SwitchCollection, RenameSource, Damage, Mishap, vars, disk, flow, ghosts
  <2> QED
    BY <2>1, GivenStays
<1>8. CASE Restart
  BY <1>8, RestartGiven
<1> QED
  BY <1>1, <1>2, <1>3, <1>4, <1>5, <1>6, <1>7, <1>8 DEF Next

\* Once no operation is under way and the event loop has nothing queued, there is one filter
\* for each source of the rig the open project was last given, where its slot says and with
\* its settings, and no other: over any saves, projects, crashes and damaged files.
THEOREM RigIsDeclared == Spec => []RigDeclaresWhatItRecords
<1>1. Rigged /\ AsGiven => RigDeclaresWhatItRecords
  <2> SUFFICES ASSUME Rigged, AsGiven, Quiet, strayed = {}, ~crossed PROVE Declares(filters, Given)
    BY DEF RigDeclaresWhatItRecords, Declares
  <2>1. todo["ui"] \notin ReapplyLists
    BY UiOrKeys, ListHeads DEF Quiet
  <2>2. Given = config
    BY DEF AsGiven, Given
  <2> QED
    BY <2>1, <2>2 DEF Rigged, Declared
<1> QED
  BY <1>1, InitSettings, StepSettings, InitArmoury, StepArmoury, InitRigged, StepRigged,
     InitGiven, StepGiven, PTL DEF Spec

\* In a take every camera that is there is recorded, into the folder of the project and with
\* its settings; and when REC has done all it had to, index and marks are that folder's.
THEOREM TakesAreWhole == Spec => []TakeIsWhole
<1>1. Settings /\ Armoury /\ Rigged => TakeIsWhole
  <2> SUFFICES ASSUME Settings, Armoury, Rigged, recording, strayed = {}, ~crossed
               PROVE  /\ \A i \in Slots : Owns(config, i) /\ config.cams[i] \in present =>
                          /\ filters[<<config.cams[i], i>>] # NoFilter
                          /\ filters[<<config.cams[i], i>>].on
                          /\ filters[<<config.cams[i], i>>].folder = config.project
                          /\ filters[<<config.cams[i], i>>].set = config.set
                      /\ Quiet => index = config.project /\ store = config.project
    BY DEF TakeIsWhole
  <2>1. todo["ui"] \notin ReapplyLists
    BY DEF Rigged, NotInTake
  <2>2. Declares(filters, config) /\ AllOn /\ Pointed
    BY <2>1 DEF Rigged, Declared, InTake
  <2>3. ASSUME NEW i \in Slots, Owns(config, i), config.cams[i] \in present
        PROVE  /\ filters[<<config.cams[i], i>>] # NoFilter
               /\ filters[<<config.cams[i], i>>].on
               /\ filters[<<config.cams[i], i>>].folder = config.project
               /\ filters[<<config.cams[i], i>>].set = config.set
    <3> DEFINE k == <<config.cams[i], i>>
               f == filters[k]
    <3>1. k \in Places /\ k[1] = config.cams[i] /\ k[2] = i
      BY <2>3 DEF Places, Armoury, Typed
    <3>2. Wants(config, k)
      BY <2>3, <3>1 DEF Wants
    <3> HIDE DEF k
    <3>3. f # NoFilter /\ [f EXCEPT !.on = FALSE] = Made(config) /\ f.on
      BY <2>2, <3>1, <3>2 DEF Declares, AllOn
    <3>4. f \in Filter
      BY <3>1, <3>3 DEF Armoury, Typed, FilterMap
    <3> HIDE DEF f
    <3>5. [f EXCEPT !.on = FALSE].folder = f.folder /\ [f EXCEPT !.on = FALSE].set = f.set
      BY <3>4 DEF Filter
    <3>6. f.folder = config.project /\ f.set = config.set
      BY <3>3, <3>5 DEF Made
    <3> QED
      BY <3>3, <3>6 DEF f, k
  <2>4. Quiet => index = config.project /\ store = config.project
    <3> SUFFICES ASSUME Quiet PROVE index = config.project /\ store = config.project
      OBVIOUS
    <3>1. \A t \in Threads : todo[t] = <<>>
      BY DEF Quiet
    <3> QED
      BY <2>2, <3>1, ListHeads DEF Pointed
  <2> QED
    BY <2>3, <2>4
<1> QED
  BY <1>1, InitSettings, StepSettings, InitArmoury, StepArmoury, InitRigged, StepRigged, PTL DEF Spec

-----------------------------------------------------------------------------
(* The status dock.                                                        *)

OwnedBy(c) == {k \in Places : Owns(c, k[2]) /\ c.cams[k[2]] = k[1]}
Came(i) == tasks[i].kind = "came"

\* While the UI thread is at work no timer is queued, and what the dock has still to hear of
\* is the configuration's; so is what it hears of after a pruning.
AtWork ==
    todo["ui"] # <<>> => \A i \in DOMAIN tasks :
        tasks[i].kind # "prune" /\ (Came(i) => tasks[i].of \subseteq OwnedBy(config))
AfterPruning ==
    \A i, j \in DOMAIN tasks :
        i < j /\ tasks[i].kind = "prune" /\ Came(j) => tasks[j].of \subseteq OwnedBy(config)

Heard == HeardWhileThere /\ AtWork /\ AfterPruning

\* New notices join those that are queued, and name what came where its slot says; none of
\* what was there goes that the queue still announces.
LEMMA NoticesJoin ==
    ASSUME Typed, Heard, NEW new \in Seq(Task), tasks' = tasks \o new,
           \A i \in DOMAIN new : new[i].kind # "prune"
                /\ (new[i].kind = "came" => new[i].of \subseteq There(filters') \cap OwnedBy(config)),
           \A i \in DOMAIN tasks : Came(i) => tasks[i].of \subseteq There(filters'),
           OwnedBy(config') = OwnedBy(config), todo'["ui"] # <<>> => todo["ui"] # <<>>
    PROVE  Heard'
<1>1. tasks \in Seq(Task)
  BY DEF Typed
<1>2. \A i \in DOMAIN tasks' :
        \/ i \in DOMAIN tasks /\ tasks'[i] = tasks[i]
        \/ i \notin DOMAIN tasks /\ \E j \in DOMAIN new : tasks'[i] = new[j]
  BY <1>1, Joined
<1>3. \A i \in DOMAIN tasks' : i \notin DOMAIN tasks =>
        /\ tasks'[i].kind # "prune"
        /\ tasks'[i].kind = "came" => tasks'[i].of \subseteq There(filters') \cap OwnedBy(config)
  BY <1>2
<1>4. HeardWhileThere'
  BY <1>2, <1>3 DEF HeardWhileThere, Came
<1>5. AtWork'
  BY <1>2, <1>3 DEF Heard, AtWork, Came
<1>6. AfterPruning'
  <2> SUFFICES ASSUME NEW i \in DOMAIN tasks', NEW j \in DOMAIN tasks', i < j,
                      tasks'[i].kind = "prune", tasks'[j].kind = "came"
               PROVE  tasks'[j].of \subseteq OwnedBy(config)
    BY DEF AfterPruning, Came
  <2>1. i \in DOMAIN tasks /\ tasks'[i] = tasks[i]
    BY <1>2, <1>3
  <2>2. CASE j \in DOMAIN tasks
    BY <1>2, <2>1, <2>2 DEF Heard, AfterPruning, Came
  <2>3. CASE j \notin DOMAIN tasks
    BY <1>3, <2>3
  <2> QED
    BY <2>2, <2>3
<1> QED
  BY <1>4, <1>5, <1>6 DEF Heard

\* Nothing is announced, nothing taken away.
LEMMA HeardStays ==
    ASSUME Typed, Heard, tasks' = tasks, There(filters') = There(filters),
           tasks = <<>> \/ (OwnedBy(config') = OwnedBy(config) /\ (todo'["ui"] # <<>> => todo["ui"] # <<>>))
    PROVE  Heard'
<1>1. CASE tasks = <<>>
  BY <1>1 DEF Heard, HeardWhileThere, AtWork, AfterPruning
<1>2. CASE tasks # <<>>
  BY <1>2 DEF Heard, HeardWhileThere, AtWork, AfterPruning, Came
<1> QED
  BY <1>1, <1>2

LEMMA DisarmedThere == ASSUME NEW fs \in FilterMap PROVE There(Disarmed(fs)) = There(fs)
<1>1. \A k \in Places : fs[k] # NoFilter => [fs[k] EXCEPT !.on = FALSE] # NoFilter
  BY OnAndOff, NoFilterIsNoFilter DEF FilterMap
<1>2. \A k \in Places : Disarmed(fs)[k] = NoFilter <=> fs[k] = NoFilter
  BY <1>1 DEF Disarmed
<1> QED
  BY <1>2 DEF There

\* A collection's notices are posted before its pruning.
LEMMA LoadedHeard ==
    ASSUME NEW fs, There(fs) = There(filters'), todo'["ui"] = <<>>,
           tasks' \in {Loaded(fs), Notice("came", There(fs))}
    PROVE  Heard'
<1>1. \A i \in DOMAIN tasks' : tasks'[i].kind = "came" =>
        /\ tasks'[i].of = There(fs)
        /\ \A j \in DOMAIN tasks' : j < i => tasks'[j].kind # "prune"
  <2>1. CASE tasks' = Loaded(fs)
    BY <2>1, LoadedOf
  <2>2. CASE tasks' = Notice("came", There(fs))
    <3>1. \A i \in DOMAIN tasks' : tasks'[i].kind = "came" /\ tasks'[i].of = There(fs)
      BY <2>2, Notices DEF There
    <3> QED
      BY <3>1
  <2> QED
    BY <2>1, <2>2
<1> QED
  BY <1>1 DEF Heard, HeardWhileThere, AtWork, AfterPruning, Came

LEMMA ReapplyHeard == ASSUME Settings, Armoury, Lists, Heard, Reapply PROVE Heard'
<1>1. /\ config' = config /\ todo["ui"] # <<>> /\ todo' = [todo EXCEPT !["ui"] = Tail(@)]
      /\ OwnedBy(config') = OwnedBy(config) /\ Typed
  BY UiOrKeys DEF Reapply, At, Idle, Done, OwnedBy, Owns, Armoury
<1>2. CASE recording
  BY <1>1, <1>2, HeardStays DEF Reapply
<1>3. CASE ~recording
  <2>1. filters' = Renewed /\ tasks' = tasks \o Told(filters, Renewed)
    BY <1>3 DEF Reapply
  <2>2. \A k \in Places : Renewed[k] =
            IF Wants(config, k) THEN Made(config)
            ELSE IF Owns(config, k[2]) /\ config.cams[k[2]] = k[1] THEN filters[k] ELSE NoFilter
    BY DEF Renewed, AddFilters, PruneFilters
  <2>3. Made(config) # NoFilter
    BY DEF Made, NoFilter
  <2>4. There(filters) \cap OwnedBy(config) \subseteq There(Renewed)
    BY <2>2, <2>3 DEF There, OwnedBy
  <2>5. There(Renewed) \subseteq OwnedBy(config)
    BY <2>2 DEF There, OwnedBy, Wants
  <2>6. \A i \in DOMAIN tasks : Came(i) => tasks[i].of \subseteq There(Renewed)
    BY <1>1, <2>4 DEF Heard, HeardWhileThere, AtWork, Came
  <2> DEFINE new == Told(filters, Renewed)
  <2>7. new \in Seq(Task) /\ \A i \in DOMAIN new : new[i].kind # "prune"
            /\ (new[i].kind = "came" => new[i].of \subseteq There(filters') \cap OwnedBy(config))
    BY <2>1, <2>5, ToldOf
  <2> HIDE DEF new
  <2> QED
    BY <1>1, <2>1, <2>6, <2>7, NoticesJoin DEF new
<1> QED
  BY <1>2, <1>3

\* REC makes a filter that is missing where its slot says, and takes none away.
LEMMA ArmHeard == ASSUME Settings, Armoury, Lists, Heard, NEW t \in Threads, Arm(t) PROVE Heard'
<1>1. /\ config' = config /\ OwnedBy(config') = OwnedBy(config) /\ Typed
      /\ todo'["ui"] # <<>> => todo["ui"] # <<>>
  BY UiOrKeys DEF Arm, TakeBegins, Abandon, At, Idle, Done, OwnedBy, Owns, Armoury, Lists
<1>2. CASE UNCHANGED <<filters, tasks>>
  BY <1>1, <1>2, HeardStays
<1>3. CASE TakeBegins(t)
  <2>1. filters' = ArmedFilters /\ tasks' = tasks \o Told(filters, ArmedFilters)
    BY <1>3 DEF TakeBegins
  <2>2. \A k \in Places : filters[k] # NoFilter => ArmedFilters[k] # NoFilter
    <3> SUFFICES ASSUME NEW k \in Places, filters[k] # NoFilter PROVE ArmedFilters[k] # NoFilter
      OBVIOUS
    <3>1. filters[k] \in Filter
      BY DEF Armoury, Typed, FilterMap
    <3>2. ArmedFilters[k] = IF ~Wants(config, k) THEN filters[k] ELSE [filters[k] EXCEPT !.on = TRUE]
      BY DEF ArmedFilters
    <3>3. [filters[k] EXCEPT !.on = TRUE] \in Filter
      BY <3>1, OnAndOff
    <3> QED
      BY <3>2, <3>3, NoFilterIsNoFilter
  <2>3. There(filters) \subseteq There(ArmedFilters)
    BY <2>2 DEF There
  <2>4. There(ArmedFilters) \ There(filters) \subseteq OwnedBy(config)
    <3>1. \A k \in Places : ~Wants(config, k) => ArmedFilters[k] = filters[k]
      BY DEF ArmedFilters
    <3> QED
      BY <3>1 DEF There, OwnedBy, Wants
  <2>5. \A i \in DOMAIN tasks : Came(i) => tasks[i].of \subseteq There(ArmedFilters)
    BY <2>3 DEF Heard, HeardWhileThere, Came
  <2> DEFINE new == Told(filters, ArmedFilters)
  <2>6. new \in Seq(Task) /\ \A i \in DOMAIN new : new[i].kind # "prune"
            /\ (new[i].kind = "came" => new[i].of \subseteq There(filters') \cap OwnedBy(config))
    BY <2>1, <2>4, ToldOf
  <2> HIDE DEF new
  <2> QED
    BY <1>1, <2>1, <2>5, <2>6, NoticesJoin DEF new
<1> QED
  BY <1>2, <1>3 DEF Arm

LEMMA TaskHeard == ASSUME Armoury, Heard, RunTask PROVE Heard'
<1>1. /\ UNCHANGED <<config, todo>> /\ todo["ui"] = <<>> /\ tasks # <<>> /\ tasks \in Seq(Task)
      /\ filters' = IF Head(tasks).kind = "prune" THEN PruneFilters(filters, config) ELSE filters
      /\ tasks' = Tail(tasks) \o Told(filters, filters')
  BY UiOrKeys DEF RunTask, Idle, Armoury, Typed
<1> DEFINE rest == Tail(tasks)
           new == Told(filters, filters')
<1>2. /\ rest \in Seq(Task) /\ 1 \in DOMAIN tasks /\ Head(tasks) = tasks[1]
      /\ DOMAIN rest \subseteq Nat \ {0}
      /\ \A i \in DOMAIN rest : i + 1 \in DOMAIN tasks /\ rest[i] = tasks[i + 1] /\ 1 < i + 1
  BY <1>1
<1>3. new \in Seq(Task) /\ \A i \in DOMAIN new : new[i].kind = "gone"
  <2>1. There(filters') \subseteq There(filters)
    <3>1. \A k \in Places : PruneFilters(filters, config)[k] # NoFilter => filters[k] # NoFilter
      BY DEF PruneFilters
    <3> QED
      BY <1>1, <3>1 DEF There
  <2>2. new \in Seq(Task) /\ \A i \in DOMAIN new : new[i] \in Task /\ new[i].kind # "prune"
            /\ (new[i].kind = "came" => new[i].of = There(filters') \ There(filters) /\ new[i].of # {})
    BY ToldOf
  <2> HIDE DEF new
  <2>3. \A i \in DOMAIN new : new[i].kind # "came"
    BY <2>1, <2>2
  <2> QED
    BY <2>2, <2>3 DEF Task
<1>4. \A i \in DOMAIN rest : rest[i].kind = "came" => rest[i].of \subseteq There(filters')
  <2> SUFFICES ASSUME NEW i \in DOMAIN rest, rest[i].kind = "came"
               PROVE  rest[i].of \subseteq There(filters')
    OBVIOUS
  <2>1. rest[i].of \subseteq There(filters)
    BY <1>2 DEF Heard, HeardWhileThere
  <2>2. CASE Head(tasks).kind # "prune"
    BY <1>1, <2>1, <2>2
  <2>3. CASE Head(tasks).kind = "prune"
    <3>1. rest[i].of \subseteq OwnedBy(config)
      BY <1>2, <2>3 DEF Heard, AfterPruning, Came
    <3>2. There(filters) \cap OwnedBy(config) \subseteq There(PruneFilters(filters, config))
      BY DEF There, OwnedBy, PruneFilters
    <3> QED
      BY <1>1, <2>1, <2>3, <3>1, <3>2
  <2> QED
    BY <2>2, <2>3
<1>5. \A i, j \in DOMAIN rest :
        i < j /\ rest[i].kind = "prune" /\ rest[j].kind = "came" => rest[j].of \subseteq OwnedBy(config)
  <2> SUFFICES ASSUME NEW i \in DOMAIN rest, NEW j \in DOMAIN rest, i < j,
                      rest[i].kind = "prune", rest[j].kind = "came"
               PROVE  rest[j].of \subseteq OwnedBy(config)
    OBVIOUS
  <2>1. i + 1 < j + 1
    BY <1>2
  <2> QED
    BY <1>2, <2>1 DEF Heard, AfterPruning, Came
<1> HIDE DEF rest, new
<1>6. \A i \in DOMAIN tasks' :
        \/ i \in DOMAIN rest /\ tasks'[i] = rest[i]
        \/ i \notin DOMAIN rest /\ \E j \in DOMAIN new : tasks'[i] = new[j]
  BY <1>1, <1>2, <1>3, Joined DEF rest, new
<1>7. \A i \in DOMAIN tasks' : i \notin DOMAIN rest => tasks'[i].kind = "gone"
  BY <1>3, <1>6
<1>8. HeardWhileThere'
  BY <1>4, <1>6, <1>7 DEF HeardWhileThere
<1>9. AtWork'
  BY <1>1 DEF AtWork
<1>10. AfterPruning'
  <2>1. OwnedBy(config') = OwnedBy(config)
    BY <1>1
  <2> SUFFICES ASSUME NEW i \in DOMAIN tasks', NEW j \in DOMAIN tasks', i < j,
                      tasks'[i].kind = "prune", tasks'[j].kind = "came"
               PROVE  tasks'[j].of \subseteq OwnedBy(config)
    BY <2>1 DEF AfterPruning, Came
  <2>2. i \in DOMAIN rest /\ j \in DOMAIN rest /\ tasks'[i] = rest[i] /\ tasks'[j] = rest[j]
    BY <1>6, <1>7
  <2> QED
    BY <1>5, <2>2
<1> QED
  BY <1>8, <1>9, <1>10 DEF Heard

LEMMA StepHeard == Settings /\ Armoury /\ Lists /\ Heard /\ [Next]_vars => Heard'
<1> SUFFICES ASSUME Settings, Armoury, Lists, Heard, [Next]_vars PROVE Heard'
  OBVIOUS
<1>1. Typed /\ filters \in FilterMap /\ shelf \in FilterMap
  BY DEF Armoury, Typed
<1>2. \A c, d : c.cams = d.cams => OwnedBy(c) = OwnedBy(d)
  BY DEF OwnedBy, Owns
<1>3. ASSUME NEW t \in Threads, PressRec(t) PROVE Heard'
  <2>1. UNCHANGED <<tasks, filters, config>> /\ (t = "ui" => tasks = <<>>)
        /\ \A o \in Threads \ {t} : todo'[o] = todo[o]
    BY <1>3 DEF PressRec, Free, Begin, obs, Lists
  <2> QED
    BY <1>1, <2>1, HeardStays, UiOrKeys
<1>4. ASSUME NEW t \in Threads, PressStop(t) PROVE Heard'
  <2>1. UNCHANGED <<tasks, config, todo>> /\ filters' =
            [k \in Places |-> IF Disarms(k) /\ IsOn(filters, k)
                              THEN [filters[k] EXCEPT !.on = FALSE] ELSE filters[k]]
    BY <1>4 DEF PressStop, flow
  <2>2. \A k \in Places : filters[k] # NoFilter => [filters[k] EXCEPT !.on = FALSE] # NoFilter
    BY <1>1, OnAndOff, NoFilterIsNoFilter DEF FilterMap
  <2>3. There(filters') = There(filters)
    BY <2>1, <2>2 DEF There, IsOn
  <2> QED
    BY <1>1, <2>1, <2>3, HeardStays
<1>5. ASSUME NEW t \in Threads, Preflight(t) \/ StartIndex(t) \/ PointStore(t) PROVE Heard'
  <2>1. UNCHANGED <<tasks, filters, config>> /\ (todo'["ui"] # <<>> => todo["ui"] # <<>>)
    BY <1>5, UiOrKeys
       DEF Preflight, StartIndex, PointStore, At, Idle, Done, Abandon, obs, Lists
  <2> QED
    BY <1>1, <2>1, HeardStays
<1>6. CASE SaveSettings \/ GuidedSetup \/ NewProject \/ OpenProject
  <2>1. UNCHANGED <<tasks, filters>> /\ tasks = <<>>
    BY <1>6 DEF SaveSettings, GuidedSetup, SetConfig, NewProject, OpenProject, MaySwitch, Free,
                Ui, obs
  <2> QED
    BY <1>1, <2>1, HeardStays
<1>7. CASE CreateGuided
  <2>1. UNCHANGED <<tasks, filters>> /\ todo["ui"] # <<>>
    BY <1>7, UiOrKeys DEF CreateGuided, At, Idle, obs
  <2>2. config'.cams = config.cams
    <3>1. CASE recording
      BY <1>7, <3>1 DEF CreateGuided
    <3>2. CASE ~recording
      <4>1. PICK p \in Projects : config' = [config EXCEPT !.project = p]
        BY <1>7, <3>2 DEF CreateGuided, Create
      <4> QED
        BY <4>1 DEF Settings, Rig
    <3> QED
      BY <3>1, <3>2
  <2> QED
    BY <1>1, <1>2, <2>1, <2>2, HeardStays
<1>8. CASE SwitchCollection
  <2>1. todo'["ui"] = <<>>
    BY <1>8, UiOrKeys DEF SwitchCollection, Mishap, Idle
  <2>2. There(Disarmed(shelf)) = There(shelf)
    BY <1>1, DisarmedThere
  <2> QED
    BY <1>8, <2>1, <2>2, LoadedHeard DEF SwitchCollection
<1>9. CASE RenameSource
  <2>1. tasks = <<>> /\ tasks' = <<>>
    BY <1>9 DEF RenameSource, Mishap, flow
  <2> QED
    BY <2>1 DEF Heard, HeardWhileThere, AtWork, AfterPruning
<1>10. CASE Restart
  <2>1. todo'["ui"] = <<>> /\ filters' = Disarmed(filters) /\ tasks' = Loaded(filters)
    BY <1>10, UiOrKeys DEF Restart, Reloaded
  <2>2. There(Disarmed(filters)) = There(filters)
    BY <1>1, DisarmedThere
  <2> QED
    BY <2>1, <2>2, LoadedHeard
<1>11. CASE Damage \/ UNCHANGED vars
  <2>1. UNCHANGED <<tasks, filters, config, todo>>
    BY <1>11 DEF Damage, vars, obs, flow
  <2> QED
    BY <1>1, <2>1, HeardStays
<1>12. ASSUME NEW t \in Threads, Press(t) \/ Step(t) PROVE Heard'
  BY <1>3, <1>4, <1>5, <1>12, ArmHeard DEF Press, Step
<1> QED
  BY <1>6, <1>7, <1>8, <1>9, <1>10, <1>11, <1>12, ReapplyHeard, TaskHeard DEF Next

\* No filter goes while the status dock has still to hear that it came, over any saves,
\* projects, crashes, collections and orders of the two threads.
THEOREM NoticesAreOfFiltersThere == Spec => []HeardWhileThere
<1>1. Init => Heard
  BY DEF Init, Heard, HeardWhileThere, AtWork, AfterPruning
<1>2. Rigged => Lists
  BY DEF Rigged
<1>3. Heard => HeardWhileThere
  BY DEF Heard
<1> QED
  BY <1>1, <1>2, <1>3, StepHeard, InitSettings, StepSettings, InitArmoury, StepArmoury,
     InitRigged, StepRigged, PTL DEF Spec
=============================================================================
