----------------------------- MODULE ReplayCore -----------------------------
(***************************************************************************)
(* REC, STOP, Settings and projects (src/replay-core.cpp), and the Branch  *)
(* Output filters they arm, configure and take away                        *)
(* (src/branch-output-control.cpp).                                        *)
(*                                                                         *)
(* A filter belongs to a slot and sits on the source the slot names.  It   *)
(* records while it is enabled, into the folder and with the settings it   *)
(* was last given, and the scene collection keeps it.  Two threads come    *)
(* in here: the UI thread, and the one OBS calls the REC and STOP keys on. *)
(* An operation is a list of steps (`todo`): the lock of the core is held  *)
(* within a step and not between two.                                      *)
(*                                                                         *)
(* Branch Output's status dock has a row for each filter; it hears of      *)
(* filters that came or went by events posted to the UI thread's queue.  A *)
(* timer lands there behind them.  What the UI thread itself gives to      *)
(* obs_queue_task() waits for nothing: OBS runs it on the spot.            *)
(***************************************************************************)
EXTENDS Integers, Sequences, FiniteSets, FiniteSetsExt

CONSTANTS
    Slots,          \* camera slots
    Sources,        \* names of OBS sources
    Projects,
    MaxSaves, MaxProjects, MaxMishaps    \* bounds

NoSource == "no source"
NoProject == "no project"
NoFilter == [kind |-> "none"]
NoRig == [kind |-> "none"]
Unreadable == [kind |-> "unreadable"]
Threads == {"ui", "keys"}

VARIABLES
    config,       \* config_: the slots, what else is recorded with (`set`), the project
    recording,    \* recording_
    status,       \* cameraStatus_: armed, and on which source
    filters,      \* the filter of each slot on each source of the scene collection
    shelf,        \* the filters of the other scene collection
    present,      \* the sources there are
    saved,        \* settings.json of each project
    index,        \* the folder SegmentIndex watches
    store,        \* the folder of EventStore
    todo,         \* what each thread still has to do
    path,         \* recFolder and path: the folder an operation of a thread is for, while it lasts
    tasks,        \* events posted to the UI thread
    rig,          \* history: what the operator last gave each project
    strayed,      \* history: why the filters may not be what the settings say
    crossed,      \* history: a take began, or a REC was ending, across a change of the rig
    saves, opened, mishaps    \* history: counters for the bounds

rec == <<recording, status>>
obs == <<filters, shelf, present>>
disk == <<saved, rig>>
flow == <<todo, path, tasks>>
ghosts == <<strayed, crossed>>
counters == <<saves, opened, mishaps>>
vars == <<config, rec, obs, disk, index, store, flow, ghosts, counters>>

-----------------------------------------------------------------------------
(* Slots, sources and filters.                                             *)

\* canonicalCameraIndices(): of the slots that name one source, the first owns the filter.
Canonical(cams, i) ==
    IF cams[i] = NoSource THEN i ELSE Min({j \in Slots : cams[j] = cams[i]})
Owns(c, i) == c.cams[i] # NoSource /\ Canonical(c.cams, i) = i

Places == Sources \X Slots

\* buildSettings(), and ensureFilter() disarming what it makes.
Made(c) == [kind |-> "filter", on |-> FALSE, set |-> c.set, folder |-> c.project]
IsOn(fs, k) == fs[k] # NoFilter /\ fs[k].on

Wants(c, k) == Owns(c, k[2]) /\ c.cams[k[2]] = k[1] /\ k[1] \in present

\* ensureFilter() for each slot that owns one: made or reconfigured, and off either way.
AddFilters(fs, c) == [k \in Places |-> IF Wants(c, k) THEN Made(c) ELSE fs[k]]

\* Mutant: what the slots no longer name stays where it is.
PruneNothing(fs, c) == fs

\* pruneFilters(): every filter of ours that is not where its slot says.
PruneFilters(fs, c) ==
    [k \in Places |-> IF Owns(c, k[2]) /\ c.cams[k[2]] = k[1] THEN fs[k] ELSE NoFilter]

\* disarmPersistedFilters()
Disarmed(fs) == [k \in Places |-> IF fs[k] = NoFilter THEN NoFilter ELSE [fs[k] EXCEPT !.on = FALSE]]

\* What the status dock is told when filters go or come, and the pruning that waits for a
\* timer (pruneFilters(getConfig())).
Notice(kind, places) == IF places = {} THEN <<>> ELSE <<[kind |-> kind, of |-> places]>>
There(fs) == {k \in Places : fs[k] # NoFilter}
Told(before, after) ==
    Notice("gone", There(before) \ There(after)) \o Notice("came", There(after) \ There(before))
Prune == [kind |-> "prune", of |-> {}]

-----------------------------------------------------------------------------
(* Operations.                                                             *)

Idle(t) == todo[t] = <<>>
\* What was posted to the UI thread is delivered before the next click.
Free(t) == Idle(t) /\ (t = "ui" => tasks = <<>>)
Begin(t, steps) == todo' = [todo EXCEPT ![t] = steps]
At(t, step) == ~Idle(t) /\ Head(todo[t]) = step
Done(t) == todo' = [todo EXCEPT ![t] = Tail(@)]
Quiet == todo = [t \in Threads |-> <<>>] /\ tasks = <<>>
Abandon(t) == todo' = [todo EXCEPT ![t] = <<>>]
\* After the last step nothing is left of the operation.
OutOfScope(t) == path' = IF Tail(todo[t]) = <<>> THEN [path EXCEPT ![t] = NoProject] ELSE path

\* The UI thread has written the settings and not yet come to the filters; the keys' thread
\* has armed and not yet pointed the index and the marks.
Renewing == \E i \in DOMAIN todo["ui"] : todo["ui"][i] = "reapply"
Pointing == ~Idle("keys") /\ Head(todo["keys"]) \in {"index", "store"}

\* startRecording(): the configuration is copied, and the lock let go for the pre-flight.
PressRec(t) ==
    /\ Free(t) /\ ~recording
    /\ Begin(t, <<"preflight", "arm", "index", "store">>)
    /\ UNCHANGED <<config, rec, obs, disk, index, store, path, tasks, ghosts, counters>>

\* The pre-flight refuses a full disk, a folder that cannot be written, a source that is gone.
Preflight(t) ==
    /\ At(t, "preflight")
    /\ Done(t) \/ Abandon(t)
    /\ UNCHANGED <<config, rec, obs, disk, index, store, path, tasks, ghosts, counters>>

Armed(i) == config.cams[i] # NoSource /\ config.cams[Canonical(config.cams, i)] \in present
ArmedStatus == [i \in Slots |-> [rec |-> Armed(i), source |-> config.cams[i]]]

\* REC switches on a filter that is there, and makes one that is missing.
ArmedFilters ==
    [k \in Places |->
        IF ~Wants(config, k) THEN filters[k]
        ELSE [(IF filters[k] = NoFilter THEN Made(config) ELSE filters[k]) EXCEPT !.on = TRUE]]

TakeBegins(t) ==
    /\ recording' = TRUE
    /\ status' = ArmedStatus
    /\ filters' = ArmedFilters
    /\ tasks' = tasks \o Told(filters, ArmedFilters)
    /\ path' = [path EXCEPT ![t] = config.project]
    /\ crossed' = (crossed \/ Renewing)
    /\ Done(t)

\* Only one of two callers arms; a take with no camera is refused, and leaves what it found.
Arm(t) ==
    /\ At(t, "arm")
    /\ \/ recording /\ Abandon(t) /\ UNCHANGED <<rec, filters, tasks, path, crossed>>
       \/ ~recording /\ (\E i \in Slots : Armed(i)) /\ TakeBegins(t)
       \/ /\ ~recording /\ ~(\E i \in Slots : Armed(i))
          /\ status' = ArmedStatus
          /\ Abandon(t) /\ UNCHANGED <<recording, filters, tasks, path, crossed>>
    /\ UNCHANGED <<config, shelf, present, disk, index, store, strayed, counters>>

\* SegmentIndex::start(), at REC and in restartSegmentIndex().
StartIndex(t) ==
    /\ At(t, "index")
    /\ index' = path[t]
    /\ Done(t)
    /\ UNCHANGED <<config, rec, obs, disk, store, path, tasks, ghosts, counters>>

\* EventStore::setSessionFolder()
PointStore(t) ==
    /\ At(t, "store")
    /\ store' = path[t]
    /\ Done(t) /\ OutOfScope(t)
    /\ UNCHANGED <<config, rec, obs, disk, index, tasks, ghosts, counters>>

\* stopRecording(), from the panel, a key, the watch on a take that never started, and
\* unload(): off goes what is found under the name it was armed under.
Disarms(k) == status[k[2]].rec /\ status[k[2]].source = k[1]

PressStop(t) ==
    /\ Free(t) /\ recording
    /\ filters' = [k \in Places |-> IF Disarms(k) /\ IsOn(filters, k)
                                    THEN [filters[k] EXCEPT !.on = FALSE] ELSE filters[k]]
    /\ status' = [i \in Slots |-> [status[i] EXCEPT !.rec = @ /\ status[i].source \notin present]]
    /\ recording' = FALSE
    /\ index' = NoProject
    /\ UNCHANGED <<config, shelf, present, disk, store, flow, ghosts, counters>>

-----------------------------------------------------------------------------
(* Settings and projects: the UI thread.                                   *)

Ui == "ui"
Rigs == {[config EXCEPT !.cams = c] : c \in [Slots -> Sources \cup {NoSource}]}

\* saveConfig(): the project open has its own copy.
SavedWith(c) == IF c.project = NoProject THEN saved ELSE [saved EXCEPT ![c.project] = c]
RigWith(c) == IF c.project = NoProject THEN rig ELSE [rig EXCEPT ![c.project] = c]

\* setConfig().  The flag is read with no lock.
SetConfig(steps) ==
    /\ Free(Ui) /\ saves < MaxSaves /\ saves' = saves + 1
    /\ \E c \in Rigs, s \in {0, 1} :
        /\ config' = [c EXCEPT !.set = @ + s]
        /\ c.cams # config.cams \/ s = 1
    /\ saved' = SavedWith(config') /\ rig' = RigWith(config')
    /\ path' = [path EXCEPT ![Ui] = config.project]
    /\ Begin(Ui, IF recording THEN steps ELSE <<"reapply", "index">> \o steps)
    /\ strayed' = IF recording THEN strayed \cup {"saved during a take"} ELSE strayed
    /\ UNCHANGED <<rec, obs, index, store, tasks, crossed, opened, mishaps>>

SaveSettings == SetConfig(<<"store">>)

\* The guided setup: setConfig() and newProject() in one turn of the event loop.
GuidedSetup == SetConfig(<<"new", "store">>)

\* Mutant: the panel is taken at its word that nothing is recording.
MaySwitchAnyway == Free(Ui) /\ opened < MaxProjects

MaySwitch == Free(Ui) /\ opened < MaxProjects /\ ~recording

\* newProject(): a copy of what is configured; the folder may not be made.
Create(then) ==
    /\ \E p \in Projects :
        /\ config' = [config EXCEPT !.project = p]
        /\ path' = [path EXCEPT ![Ui] = p]
    /\ crossed' = (crossed \/ Pointing)
    /\ \/ /\ saved' = SavedWith(config') /\ rig' = RigWith(config')
          /\ Begin(Ui, <<"store", "index", "reapply">> \o then)
          /\ UNCHANGED strayed
       \/ /\ saved[config'.project] = NoRig
          /\ strayed' = strayed \cup {"no folder"}
          /\ Begin(Ui, then)
          /\ UNCHANGED disk

NewProject ==
    /\ MaySwitch /\ opened' = opened + 1
    /\ Create(<<>>)
    /\ UNCHANGED <<rec, obs, index, store, tasks, saves, mishaps>>

CreateGuided ==
    /\ At(Ui, "new")
    /\ IF recording
       THEN Done(Ui) /\ UNCHANGED <<config, path, disk, ghosts>>
       ELSE Create(Tail(todo[Ui]))
    /\ UNCHANGED <<rec, obs, index, store, tasks, counters>>

\* What loadProjectSettings() makes of the configuration: a file that does not parse
\* leaves it as it is.
Adopted(p) ==
    IF saved[p] \in {NoRig, Unreadable} THEN [config EXCEPT !.project = p] ELSE saved[p]

\* Mutant: saved before it is loaded.
SavedFirst(p) == [config EXCEPT !.project = p]

\* openProject(): its own settings before anything is pointed anywhere.
Opened(p) == Adopted(p)

OpenProject ==
    /\ MaySwitch /\ opened' = opened + 1
    /\ \E p \in {p \in Projects : saved[p] # NoRig} :
        /\ config' = Opened(p)
        /\ path' = [path EXCEPT ![Ui] = p]
        /\ saved' = SavedWith(config')
        /\ rig' = IF saved[p] = Unreadable THEN RigWith(config') ELSE rig
    /\ Begin(Ui, <<"store", "index", "reapply">>)
    /\ crossed' = (crossed \/ Pointing)
    /\ UNCHANGED <<rec, obs, index, store, tasks, strayed, saves, mishaps>>

\* reapplyFilterSettings(): nothing during a take; else what is out of place goes, and the
\* additions come behind it, by way of obs_queue_task() when something went: on the UI thread
\* that is the same turn of the event loop.
Renewed == AddFilters(PruneFilters(filters, config), config)

Reapply ==
    /\ At(Ui, "reapply")
    /\ Done(Ui) /\ OutOfScope(Ui)
    /\ IF recording
       THEN UNCHANGED <<filters, tasks, strayed>>
       ELSE /\ filters' = Renewed
            /\ tasks' = tasks \o Told(filters, Renewed)
            /\ strayed' = {}
    /\ UNCHANGED <<config, rec, shelf, present, disk, index, store, crossed, counters>>

\* The event loop turns: the status dock hears one of its notices, or the timer fires.
RunTask ==
    /\ Idle(Ui) /\ tasks # <<>>
    /\ filters' = IF Head(tasks).kind = "prune" THEN PruneFilters(filters, config) ELSE filters
    /\ tasks' = Tail(tasks) \o Told(filters, filters')
    /\ UNCHANGED <<config, rec, shelf, present, disk, index, store, todo, path, ghosts, counters>>

-----------------------------------------------------------------------------
(* OBS, the disk and the operator's other habits.                          *)

Mishap(what) ==
    /\ Idle(Ui) /\ tasks = <<>> /\ mishaps < MaxMishaps /\ mishaps' = mishaps + 1
    /\ strayed' = strayed \cup {what}
    /\ UNCHANGED <<saves, opened>>

\* Mutant: the pruning is given to obs_queue_task(), which runs it ahead of the notices.
PrunedAtOnce(fs) == <<Prune>> \o Notice("came", There(fs))

\* The filters of a collection come with a notice for each, posted as it is loaded; the
\* timer that prunes them is set after that.
Loaded(fs) == Notice("came", There(fs)) \o <<Prune>>

\* The other scene collection is loaded, with its own sources: its filters come back on
\* them as they were kept.
SwitchCollection ==
    /\ Mishap("another collection")
    /\ shelf' = filters
    /\ present' \in {s \in SUBSET Sources : \A k \in Places : shelf[k] # NoFilter => k[1] \in s}
    /\ IF recording
       THEN /\ filters' = shelf
            /\ tasks' = Notice("came", There(shelf))
       ELSE /\ filters' = Disarmed(shelf)
            /\ tasks' = Loaded(shelf)
    /\ UNCHANGED <<config, rec, disk, index, store, todo, path, crossed>>

\* A source is renamed, and its filters with it.
RenameSource ==
    /\ Mishap("renamed")
    /\ \E a \in present, b \in Sources \ present :
        /\ present' = (present \ {a}) \cup {b}
        /\ filters' = [k \in Places |-> IF k[1] = b THEN filters[<<a, k[2]>>]
                                        ELSE IF k[1] = a THEN NoFilter ELSE filters[k]]
    /\ UNCHANGED <<config, rec, shelf, disk, index, store, flow, crossed>>

\* Mutant: the filters come back as the collection has them.
KeptAsSaved == filters

\* What FINISHED_LOADING leaves of the filters of a process that died, perhaps in a take.
Reloaded == Disarmed(filters)

\* OBS dies and is started again.
Restart ==
    /\ mishaps < MaxMishaps /\ mishaps' = mishaps + 1
    /\ config' = IF config.project = NoProject THEN config ELSE Adopted(config.project)
    /\ recording' = FALSE
    /\ status' = [i \in Slots |-> [rec |-> FALSE, source |-> NoSource]]
    /\ filters' = Reloaded
    /\ tasks' = Loaded(filters)
    /\ todo' = [t \in Threads |-> <<>>]
    /\ path' = [t \in Threads |-> NoProject]
    /\ index' = config.project /\ store' = config.project
    /\ strayed' = IF Quiet THEN strayed ELSE strayed \cup {"restarted"}
    /\ UNCHANGED <<shelf, present, disk, crossed, saves, opened>>

\* A project's settings.json is damaged.
Damage ==
    /\ mishaps < MaxMishaps /\ mishaps' = mishaps + 1
    /\ \E p \in Projects :
        saved[p] \notin {NoRig, Unreadable} /\ saved' = [saved EXCEPT ![p] = Unreadable]
    /\ UNCHANGED <<config, rec, obs, index, store, flow, rig, ghosts, saves, opened>>

-----------------------------------------------------------------------------
FirstRig == [kind |-> "rig", cams |-> [i \in Slots |-> NoSource], set |-> 0, project |-> NoProject]

\* A project of an earlier installation is on the disk.
Init ==
    /\ config = FirstRig
    /\ recording = FALSE
    /\ status = [i \in Slots |-> [rec |-> FALSE, source |-> NoSource]]
    /\ filters = [k \in Places |-> NoFilter] /\ shelf = [k \in Places |-> NoFilter]
    /\ present \in SUBSET Sources /\ present # {}
    /\ \E p \in Projects, s \in Sources :
            rig = [o \in Projects |-> IF o # p THEN NoRig
                                      ELSE [FirstRig EXCEPT !.project = p, !.cams[Min(Slots)] = s]]
    /\ saved = rig
    /\ index = NoProject /\ store = NoProject
    /\ todo = [t \in Threads |-> <<>>] /\ path = [t \in Threads |-> NoProject] /\ tasks = <<>>
    /\ strayed = {} /\ crossed = FALSE
    /\ saves = 0 /\ opened = 0 /\ mishaps = 0

Step(t) == Preflight(t) \/ Arm(t) \/ StartIndex(t) \/ PointStore(t)
Press(t) == PressRec(t) \/ PressStop(t)

Next ==
    \/ \E t \in Threads : Press(t) \/ Step(t)
    \/ SaveSettings \/ GuidedSetup \/ NewProject \/ CreateGuided \/ OpenProject
    \/ Reapply \/ RunTask
    \/ SwitchCollection \/ RenameSource \/ Restart \/ Damage

\* Both threads go on with what they began, and the event loop turns.
Spec ==
    /\ Init /\ [][Next]_vars
    /\ \A t \in Threads : WF_vars(Step(t))
    /\ WF_vars(CreateGuided) /\ WF_vars(Reapply) /\ WF_vars(RunTask)

-----------------------------------------------------------------------------
(* Properties.                                                             *)

\* Branch Output records because REC was pressed and for nothing else: whatever was
\* configured, opened, loaded or left behind by a process that died in a take.  (A source
\* renamed under its take, or a collection left in it, is not found again by STOP.)
OnlyRecRecords ==
    (~recording /\ strayed \cap {"renamed", "another collection"} = {}) =>
        \A k \in Places : ~IsOn(filters, k)

\* The filters of a take are those of the cameras it armed, they are on, they write where
\* the index looks and the marks are kept, and with the settings of the moment.  (Not of a take
\* that a key begins between the writing of new settings and their reaching the filters, nor
\* of a project changed while a REC that has armed is still pointing index and marks.)
TakeIsWhole ==
    (recording /\ strayed = {} /\ ~crossed) =>
        /\ \A i \in Slots : Owns(config, i) /\ config.cams[i] \in present =>
            LET f == filters[<<config.cams[i], i>>]
            IN f # NoFilter /\ f.on /\ f.folder = config.project /\ f.set = config.set
        /\ Quiet => index = config.project /\ store = config.project

\* The rig the operator last gave the project that is open, however long ago.
Given == IF config.project = NoProject THEN config ELSE rig[config.project]

\* Once the queue of the event loop is empty the scene collection carries one filter for
\* each source of the rig the open project was last given, where its slot says and with its
\* settings, and no other: whatever was open, loaded or lost in between.
RigDeclaresWhatItRecords ==
    (Quiet /\ ~recording /\ strayed = {} /\ ~crossed) =>
        \A k \in Places :
            /\ filters[k] # NoFilter =>
                    Wants(Given, k) /\ [filters[k] EXCEPT !.on = FALSE] = Made(Given)
            /\ Wants(Given, k) => filters[k] # NoFilter

\* No filter is taken away while the status dock has still to hear that it came: the dock
\* would build a row for a source that is gone, and OBS dies of it.
HeardWhileThere ==
    \A i \in DOMAIN tasks : tasks[i].kind = "came" => tasks[i].of \subseteq There(filters)

\* VIOLATED.  "posting the additions as a SEPARATE UI task lets its queue drain the removals
\* first": on the UI thread the additions are made before the dock has heard of one.
RemovalsAreHeardFirst ==
    \A i, j \in DOMAIN tasks : i < j => ~(tasks[i].kind = "gone" /\ tasks[j].kind = "came")
=============================================================================
