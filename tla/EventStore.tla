----------------------------- MODULE EventStore -----------------------------
(***************************************************************************)
(* The marks of a project (src/event-store.cpp): the lists and their       *)
(* running order, what a hotkey or the dock may do to them at any moment,  *)
(* the thread that writes events.json a while after each change, the move  *)
(* to another project, and a process that dies.                            *)
(*                                                                         *)
(* Each change holds mutex_ and is one step; what happens outside that     *)
(* mutex is the writer, the wait for it and the time between that wait     *)
(* and the load.  An instant is a small number; the file has it on the     *)
(* wall clock, the store on the clock of this process (`epoch`).  Notes,   *)
(* angles, speeds and list names are one tag.                              *)
(***************************************************************************)
EXTENDS Integers, Sequences, FiniteSets, FiniteSetsExt, SequencesExt

CONSTANTS
    Folders,      \* project folders
    Lists,        \* kEventLists
    Instants,     \* when a key is pressed
    Roll,         \* pre and post roll
    MaxEdits, MaxSwitches, MaxFaults    \* bounds

ASSUME IntegersAssumption == Instants \subseteq Int /\ Roll \in Nat

NoFolder == "none"
ASSUME FoldersAssumption == NoFolder \notin Folders

NoInstant == -99
OpenEnd == -1
Absent == [kind |-> "absent"]
Garbage == [kind |-> "garbage"]

VARIABLES
    events,       \* events_
    nextId,       \* nextId_
    selected,     \* selectedList_
    folder,       \* folder_
    epoch,        \* wall minus master, in this process
    ui,           \* setSessionFolder() or shutdown() in progress: where, the folder, and
                  \* whether it is the REC key's own thread that is in there
    queued,       \* pendingPath_, pendingJson_ and pendingDirty_
    writing,      \* what the writer took and has not put on the disk yet
    stopped,      \* writerStop_
    disk,         \* events.json of each folder
    backup,       \* events.json.1 and .2 of each folder
    lastRead,     \* history: what the last load of each folder read
    slipped,      \* history: a change came between the flush and the load, or the flush
                  \* gave up waiting
    edits, switches, faults    \* history: counters for the bounds

store == <<events, nextId, selected>>
files == <<disk, backup, lastRead>>
counters == <<edits, switches, faults>>
vars == <<store, folder, epoch, ui, queued, writing, stopped, files, slipped, counters>>

NoOp == [step |-> "none", to |-> NoFolder, keys |-> FALSE]
Nothing == [path |-> NoFolder, json |-> Absent]

-----------------------------------------------------------------------------
(* The lists.                                                              *)

InList(evs, l) == {i \in DOMAIN evs : evs[i].list = l}

\* nextOrderFor(): the end of the list.
NextOrderFor(evs, l) == Max({0} \cup {evs[i].order + 1 : i \in InList(evs, l)})

\* normalizeOrder(): dense and ascending; events that tie keep the order they are held in.
Before(evs, i, j) == evs[i].order < evs[j].order \/ (evs[i].order = evs[j].order /\ i < j)
NormalizeOrder(evs) ==
    [i \in DOMAIN evs |->
        [evs[i] EXCEPT !.order = Cardinality({j \in InList(evs, evs[i].list) : Before(evs, j, i)})]]

\* The open event of the selected list that was marked last, if there is one.
OpenOnes == {i \in InList(events, selected) : events[i].out = NoInstant}

-----------------------------------------------------------------------------
(* The file.                                                               *)

ToWall(m) == m + epoch
FromWall(n) == n - epoch

ToFile(evs) ==
    [i \in DOMAIN evs |->
        [evs[i] EXCEPT !.in = ToWall(@), !.out = IF @ = NoInstant THEN OpenEnd ELSE ToWall(@)]]
FromFile(evs) ==
    [i \in DOMAIN evs |->
        [evs[i] EXCEPT !.in = FromWall(@), !.out = IF @ < 0 THEN NoInstant ELSE FromWall(@)]]

Saved(evs, next) == [kind |-> "events", events |-> ToFile(evs), next |-> next]

\* save(), then queueWrite(): the last one wins.
Save(evs, next) ==
    /\ events' = evs /\ nextId' = next
    /\ queued' = IF folder = NoFolder \/ stopped THEN queued
                 ELSE [path |-> folder, json |-> Saved(evs, next)]

-----------------------------------------------------------------------------
(* What the dock and the hotkeys do, each under mutex_ and on the UI       *)
(* thread: the key of a mark is handed over to it, that of REC is not.     *)

Edit ==
    /\ edits < MaxEdits /\ (ui = NoOp \/ ui.keys)
    /\ edits' = edits + 1
    /\ slipped' = (slipped \/ ui.step = "load")
    /\ UNCHANGED <<folder, epoch, ui, writing, stopped, files, switches, faults>>

NewMark(i, o) ==
    [id |-> nextId, list |-> selected, order |-> NextOrderFor(events, selected),
     in |-> i, out |-> o, tag |-> 0, home |-> folder, wall |-> ToWall(i)]

MarkIn ==
    /\ \E t \in Instants : Save(Append(events, NewMark(t - epoch - Roll, NoInstant)), nextId + 1)
    /\ UNCHANGED selected /\ Edit

MarkOut ==
    /\ OpenOnes # {}
    /\ \E t \in Instants :
        Save([events EXCEPT ![Max(OpenOnes)].out =
                Max({events[Max(OpenOnes)].in + 1, t - epoch + Roll})], nextId)
    /\ UNCHANGED selected /\ Edit

MarkInOut ==
    /\ \E t \in Instants :
        Save(Append(events, NewMark(t - epoch - 1 - Roll, t - epoch + Roll)), nextId + 1)
    /\ UNCHANGED selected /\ Edit

MarkCancel ==
    /\ OpenOnes # {}
    /\ Save(RemoveAt(events, Max(OpenOnes)), nextId)
    /\ UNCHANGED selected /\ Edit

\* remove()
RemoveEvent ==
    /\ \E i \in DOMAIN events : Save(RemoveAt(events, i), nextId)
    /\ UNCHANGED selected /\ Edit

\* toggleAngle(), setAngle(), setDescription(), setAngleSpeed(), setListName()
Annotate ==
    /\ \E i \in DOMAIN events : Save([events EXCEPT ![i].tag = 1 - @], nextId)
    /\ UNCHANGED selected /\ Edit

\* Neither end passes the other.
MovedIn(e, d) ==
    LET to == IF e.out = NoInstant THEN e.in + d ELSE Min({e.in + d, e.out - 1})
    IN [e EXCEPT !.in = to, !.wall = ToWall(to)]

MovedOut(e, d) ==
    IF e.out = NoInstant THEN e ELSE [e EXCEPT !.out = Max({e.in + 1, e.out + d})]

MovePoint ==
    /\ \E i \in DOMAIN events : \E d \in {-2, 1} :
        \/ Save([events EXCEPT ![i] = MovedIn(@, d)], nextId)
        \/ Save([events EXCEPT ![i] = MovedOut(@, d)], nextId)
    /\ UNCHANGED selected /\ Edit

\* moveToList(): at the end of the other list.
MoveToList ==
    /\ \E i \in DOMAIN events : \E l \in Lists :
        Save([events EXCEPT ![i].list = l, ![i].order = NextOrderFor(events, l)], nextId)
    /\ UNCHANGED selected /\ Edit

\* moveEvent(): swapped with its neighbour; refused at the ends.
MoveEvent ==
    /\ \E i, j \in DOMAIN events :
        /\ events[i].list = events[j].list /\ Before(events, i, j)
        /\ ~\E k \in InList(events, events[i].list) : Before(events, i, k) /\ Before(events, k, j)
        /\ Save(NormalizeOrder([events EXCEPT ![i].order = events[j].order,
                                              ![j].order = events[i].order]), nextId)
    /\ UNCHANGED selected /\ Edit

\* Mutant: the copy takes the original's place.
DuplicateInPlace ==
    /\ \E i \in DOMAIN events : Save(Append(events, [events[i] EXCEPT !.id = nextId]), nextId + 1)
    /\ UNCHANGED selected /\ Edit

Duplicate ==
    /\ \E i \in DOMAIN events :
        Save(Append(events, [events[i] EXCEPT !.id = nextId,
                                !.order = NextOrderFor(events, events[i].list)]), nextId + 1)
    /\ UNCHANGED selected /\ Edit

ClearAll ==
    /\ Save(<<>>, 1)
    /\ UNCHANGED selected /\ Edit

\* selectList(): an atomic, without the mutex and without a save.
SelectList ==
    /\ selected' \in Lists \ {selected}
    /\ UNCHANGED <<events, nextId, queued>> /\ Edit

EditStep ==
    \/ MarkIn \/ MarkOut \/ MarkInOut \/ MarkCancel \/ RemoveEvent \/ Annotate \/ MovePoint
    \/ MoveToList \/ MoveEvent \/ Duplicate \/ ClearAll \/ SelectList

-----------------------------------------------------------------------------
(* Another project, or the end.                                            *)

\* setSessionFolder(): REC from the dock or from its key, a project opened or created.
\* First, flushWrites().
Switch ==
    /\ ui = NoOp /\ switches < MaxSwitches
    /\ switches' = switches + 1
    /\ \E f \in Folders, k \in BOOLEAN : ui' = [step |-> "flush", to |-> f, keys |-> k]
    /\ UNCHANGED <<store, folder, epoch, queued, writing, stopped, files, slipped, edits, faults>>

\* obs_module_unload(), after the keys are gone.
Unload ==
    /\ ui = NoOp
    /\ ui' = [NoOp EXCEPT !.step = "flush"]
    /\ UNCHANGED <<store, folder, epoch, queued, writing, stopped, files, slipped, counters>>

\* flushWrites() waits for the write and not for the queue alone; three seconds at most.
FlushDone ==
    /\ ui.step = "flush"
    /\ queued = Nothing /\ writing = Nothing
    /\ ui' = [ui EXCEPT !.step = IF ui.to = NoFolder THEN "stop" ELSE "load"]
    /\ UNCHANGED <<store, folder, epoch, queued, writing, stopped, files, slipped, counters>>

FlushTimeout ==
    /\ ui.step = "flush"
    /\ writing # Nothing
    /\ ui' = [ui EXCEPT !.step = IF ui.to = NoFolder THEN "stop" ELSE "load"]
    /\ slipped' = (slipped \/ ui.to # NoFolder)
    /\ UNCHANGED <<store, folder, epoch, queued, writing, stopped, files, counters>>

\* Mutant: the file is copied aside before it is known to parse.
RotatedBlindly(f) == [gen1 |-> disk[f], gen2 |-> backup[f].gen1]

\* load(): nothing from a file that is missing or does not parse.
LoadedEvents(f) ==
    IF disk[f].kind = "events" THEN NormalizeOrder(FromFile(disk[f].events)) ELSE <<>>
Rotated(f) ==
    IF disk[f].kind = "events" THEN [gen1 |-> disk[f], gen2 |-> backup[f].gen1] ELSE backup[f]

LoadFolder ==
    /\ ui.step = "load"
    /\ folder' = ui.to
    /\ events' = LoadedEvents(ui.to)
    /\ nextId' = IF disk[ui.to].kind = "events" THEN disk[ui.to].next ELSE 1
    /\ backup' = [backup EXCEPT ![ui.to] = Rotated(ui.to)]
    /\ lastRead' = [lastRead EXCEPT ![ui.to] = IF disk[ui.to].kind = "events" THEN disk[ui.to] ELSE @]
    /\ ui' = NoOp
    /\ UNCHANGED <<selected, epoch, queued, writing, stopped, disk, slipped, counters>>

\* The rest of shutdown(): the writer is told, and joined.
StopWriter ==
    /\ ui.step = "stop" /\ ~stopped
    /\ stopped' = TRUE
    /\ UNCHANGED <<store, folder, epoch, ui, queued, writing, files, slipped, counters>>

JoinWriter ==
    /\ ui.step = "stop" /\ stopped
    /\ queued = Nothing /\ writing = Nothing
    /\ ui' = [ui EXCEPT !.step = "gone"]
    /\ UNCHANGED <<store, folder, epoch, queued, writing, stopped, files, slipped, counters>>

-----------------------------------------------------------------------------
(* The writer.                                                             *)

\* The payload is taken some time after the first change, and the queue is clean again.
Take ==
    /\ queued # Nothing /\ writing = Nothing
    /\ writing' = queued
    /\ queued' = Nothing
    /\ UNCHANGED <<store, folder, epoch, ui, stopped, files, slipped, counters>>

\* Mutants: the queue is declared clean once the disk has the payload; the payload goes to
\* the folder of the moment.
WriteThenClean ==
    /\ writing # Nothing
    /\ disk' = [disk EXCEPT ![writing.path] = writing.json]
    /\ writing' = Nothing /\ queued' = Nothing
    /\ UNCHANGED <<store, folder, epoch, ui, stopped, backup, lastRead, slipped, counters>>

WriteHere ==
    /\ writing # Nothing
    /\ disk' = [disk EXCEPT ![folder] = writing.json]
    /\ writing' = Nothing
    /\ UNCHANGED <<store, folder, epoch, ui, queued, stopped, backup, lastRead, slipped, counters>>

Write ==
    /\ writing # Nothing
    /\ disk' = [disk EXCEPT ![writing.path] = writing.json]
    /\ writing' = Nothing
    /\ UNCHANGED <<store, folder, epoch, ui, queued, stopped, backup, lastRead, slipped, counters>>

-----------------------------------------------------------------------------
(* Faults.                                                                 *)

\* A byte flipped, or a format this build does not read.
Spoil ==
    /\ faults < MaxFaults /\ faults' = faults + 1
    /\ \E f \in Folders : disk[f].kind = "events" /\ disk' = [disk EXCEPT ![f] = Garbage]
    /\ UNCHANGED <<store, folder, epoch, ui, queued, writing, stopped, backup, lastRead, slipped,
                   edits, switches>>

\* The process dies, and the next one counts from another instant.
Crash ==
    /\ faults < MaxFaults /\ faults' = faults + 1
    /\ events' = <<>> /\ nextId' = 1 /\ selected' = Min(Lists) /\ folder' = NoFolder
    /\ epoch' = epoch + 2
    /\ ui' = NoOp /\ queued' = Nothing /\ writing' = Nothing /\ stopped' = FALSE
    /\ UNCHANGED <<files, slipped, edits, switches>>

-----------------------------------------------------------------------------
Init ==
    /\ events = <<>> /\ nextId = 1 /\ selected = Min(Lists) /\ folder = NoFolder /\ epoch = 0
    /\ ui = NoOp /\ queued = Nothing /\ writing = Nothing /\ stopped = FALSE
    /\ disk = [f \in Folders |-> Absent]
    /\ backup = [f \in Folders |-> [gen1 |-> Absent, gen2 |-> Absent]]
    /\ lastRead = [f \in Folders |-> Absent]
    /\ slipped = FALSE /\ edits = 0 /\ switches = 0 /\ faults = 0

Moves  == FlushDone \/ FlushTimeout \/ LoadFolder \/ StopWriter \/ JoinWriter
Writer == Take \/ Write

Next == EditStep \/ Switch \/ Unload \/ Moves \/ Writer \/ Spoil \/ Crash

\* The writer is a thread and the disk answers in the end; so does the wait for it.
Spec == Init /\ [][Next]_vars /\ WF_vars(Writer) /\ WF_vars(Moves)

-----------------------------------------------------------------------------
(* Properties.                                                             *)

\* However the events were marked, moved, copied and read back: no two share a place of
\* their list or an id, an OUT follows its IN, and a mark still names the wall instant it
\* was taken at.
RunningOrder ==
    /\ \A i, j \in DOMAIN events : i # j =>
        /\ events[i].id # events[j].id
        /\ events[i].list = events[j].list => events[i].order # events[j].order
    /\ \A i \in DOMAIN events :
        /\ events[i].id < nextId
        /\ events[i].out = NoInstant \/ events[i].in < events[i].out
        /\ events[i].in + epoch = events[i].wall

HomeOf(f, evs) == \A i \in DOMAIN evs : evs[i].home = f

\* Marks stay in their project: in the store, in the queue, and in every file, although the
\* folder may change between a change and its write.
InItsOwnProject ==
    /\ HomeOf(folder, events)
    /\ queued # Nothing => HomeOf(queued.path, queued.json.events)
    /\ \A f \in Folders : disk[f].kind = "events" => HomeOf(f, disk[f].events)

\* When events.json cannot be read, the first backup holds what it said when it last was.
AWayBack ==
    \A f \in Folders : disk[f] = Garbage => backup[f].gen1 = lastRead[f]

\* The file closes the holes of the running order only when it is read.
FileAgrees ==
    \/ disk[folder] = Absent /\ nextId = 1
    \/ /\ disk[folder].kind = "events" /\ disk[folder].next = nextId
       /\ LoadedEvents(folder) = NormalizeOrder(events)

\* Once nobody edits, the file says what the store says; also when the plugin unloads in
\* the middle of a write.
FileCatchesUp ==
    [](~slipped /\ faults = 0) =>
        <>[](folder # NoFolder => FileAgrees)

=============================================================================
