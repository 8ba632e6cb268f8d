---------------------------- MODULE SegmentIndex ----------------------------
(***************************************************************************)
(* Where the recorded files sit on the timeline (src/segment-index.cpp),   *)
(* and what a range of them serves (src/segment-reader.cpp): the thread    *)
(* that watches the folder, places each new file by the packets still in   *)
(* the ring, writes the places down and measures the files; the UI thread  *)
(* that starts and stops takes and reopens projects; a process that dies.  *)
(*                                                                         *)
(* Data kept: an instant is a whole number of pictures.  A file is known   *)
(* by its camera and the wall instant of its first picture; what the       *)
(* master clock makes of that instant depends on the process (`epoch`).    *)
(* The ring is the set of wall instants it holds, and the comparison of    *)
(* packet sizes succeeds or, when a picture repeats, does not; it never    *)
(* places a file wrongly.  A take that is stopped has closed its files     *)
(* before the thread measures again, a beat later.  The beats that only    *)
(* scan are left out: what they do, every fourth does too.  Cameras that   *)
(* share a source are one camera here.                                     *)
(***************************************************************************)
EXTENDS Integers, Sequences, FiniteSets, TLC, FiniteSetsExt, SequencesExt

CONSTANTS
    NCams,          \* camera slots configured
    RingSpan,       \* instants the ring holds
    Opening,        \* instants of a file that are compared with the ring
    MaxAttempts,    \* kMaxAnchorAttempts
    MaxProbes,      \* kMaxDurationProbes
    NoInstant,      \* kNoInstant
    MaxTime, MaxFiles, MaxStarts, MaxCrashes   \* bounds

ASSUME CamsAssumption == NCams \in Nat
ASSUME InstantAssumption == NoInstant \notin Int

Cams == 1..NCams
Abandoned == -1

VARIABLES
    now,        \* the wall clock
    epoch,      \* wall minus master, in this process
    file,       \* the folder: what each file holds, up to when, and its state
    disk,       \* anchors.json
    taking,     \* the cameras of the take in progress
    attached,   \* PacketTap::anyAttached()
    ring,       \* what the ring of each camera holds
    ui,         \* the UI thread, inside start() or stop()
    running,    \* running_
    cams,       \* cams_
    segs,       \* segments_, by anchor
    pending,    \* pending_: attempts made at each unplaced file
    w,          \* the watching thread
    unclosed,   \* the files the last measurement read before they were closed
    starts, crashes    \* history: counters for the bounds

world == <<now, epoch, file, taking, attached, ring>>
index == <<cams, segs, pending>>
vars  == <<world, disk, ui, running, index, w, unclosed, starts, crashes>>

None == {}
Off == [at |-> "off", cam |-> 1, todo |-> {}, match |-> {}, found |-> FALSE]
Idle == [op |-> "idle", step |-> "none", cams |-> {}]

Id(c, t) == <<c, t>>
CamOf(f) == f[1]
From(f) == f[2]
Open(f) == file[f].state = "open"

-----------------------------------------------------------------------------
(* What the files and the index say.                                       *)

\* probeFileDurationNs(): a file still being flushed lacks its last picture; 0 when the
\* file does not say.
Measured(f) ==
    IF ~file[f].readable THEN 0
    ELSE file[f].to - From(f) - (IF file[f].state = "flushing" THEN 1 ELSE 0)

\* Some of what the file begins with is still in the ring of its camera.
InRing(f) ==
    \E t \in From(f)..(From(f) + Opening - 1) : t < file[f].to /\ t \in ring[CamOf(f)]

\* Mutant: the instant of this process's clock is what gets written.
EntryOfThisClock(s) == [file |-> s.file, wall |-> s.anchor]

Entry(s) == [file |-> s.file, wall |-> s.wall]

Held == UNION {{Entry(s) : s \in ToSet(segs[c])} : c \in Cams}

\* save(): never a blank sheet over the evidence.
Save == disk' = IF Held = {} THEN disk ELSE Held

\* load(): the entries of the cameras asked for whose file is still there.
Loaded(c, wanted) ==
    {[file |-> e.file, wall |-> e.wall, anchor |-> e.wall - epoch, end |-> NoInstant,
      len |-> 0, final |-> FALSE, probes |-> 0] :
        e \in {x \in disk : CamOf(x.file) = c /\ c \in wanted /\ x.file \in DOMAIN file}}

ByAnchor(S) ==
    CHOOSE q \in Bijection(1..Cardinality(S), S) :
        \A i, j \in DOMAIN q : i < j => q[i].anchor <= q[j].anchor

\* recomputeBoundaries(): each file up to the next one's anchor, the newest left open.
Bounded(q) ==
    [i \in DOMAIN q |->
        [q[i] EXCEPT !.end = IF i < Len(q) THEN q[i + 1].anchor ELSE NoInstant]]

\* Mutant: the length is not looked at.
CoveredToTheNext(s) == s.end

CoveredEnd(s) ==
    LET measured == IF s.final THEN s.anchor + s.len ELSE NoInstant
    IN IF measured = NoInstant THEN s.end
       ELSE IF s.end = NoInstant THEN measured ELSE Min({measured, s.end})

\* segment_reader::readRange(): the files that overlap the range, in order: one begins
\* before the IN, each other one before the end of the last file with an end before it,
\* and one goes past the OUT.
Overlaps(s, i, o) ==
    /\ s.anchor <= o
    /\ CoveredEnd(s) = NoInstant \/ CoveredEnd(s) > i

Serves(c, i, o) ==
    LET q == segs[c]
        Over == {k \in DOMAIN q : Overlaps(q[k], i, o)}
        Ended(k) == {j \in Over : j < k /\ CoveredEnd(q[j]) # NoInstant}
        Joins(k) == Ended(k) # {} /\ q[k].anchor <= CoveredEnd(q[Max(Ended(k))])
        PastOut(k) == (file[q[k].file].to - epoch) - 1 > o
    IN /\ \E k \in Over : q[k].anchor <= i
       /\ \A k \in Over : file[q[k].file].readable /\ (q[k].anchor <= i \/ Joins(k))
       /\ \E k \in Over :
            PastOut(k) \/ (CoveredEnd(q[k]) # NoInstant /\ CoveredEnd(q[k]) > o)

-----------------------------------------------------------------------------
(* The recorder.                                                           *)

Tapped == IF ui.op = "stop" THEN {} ELSE taking

\* An instant passes: the open files grow and their packets go through the ring, except
\* that the tap may attach an instant after the recorder began.
Tick ==
    /\ now < MaxTime
    /\ now' = now + 1
    /\ \E late \in SUBSET {c \in Tapped : Id(c, now) \in DOMAIN file} :
        /\ ring' = [c \in Cams |->
                        IF c \in Tapped \ late
                        THEN {t \in ring[c] \cup {now} : t > now - RingSpan} ELSE ring[c]]
        /\ attached' = (attached \/ Tapped \ late # {})
    /\ file' = [f \in DOMAIN file |->
                    IF Open(f) THEN [file[f] EXCEPT !.to = now + 1] ELSE file[f]]
    /\ UNCHANGED <<epoch, taking, disk, ui, running, index, w, unclosed, starts, crashes>>

WithNew(files, new) ==
    [f \in DOMAIN files \cup new |->
        IF f \in DOMAIN files THEN files[f]
        ELSE [to |-> now, state |-> "open", readable |-> TRUE]]

\* Branch Output closes a file and goes on in the next one.
Split ==
    /\ Cardinality(DOMAIN file) < MaxFiles
    /\ \E f \in DOMAIN file :
        /\ Open(f) /\ file[f].to = now /\ From(f) < now
        /\ file' = WithNew([file EXCEPT ![f].state = "closed"], {Id(CamOf(f), now)})
    /\ UNCHANGED <<now, epoch, taking, attached, ring, disk, ui, running, index, w, unclosed,
                   starts, crashes>>

FlushEnds ==
    /\ \E f \in DOMAIN file : file[f].state = "flushing"
    /\ file' = [f \in DOMAIN file |->
                    IF file[f].state = "flushing" THEN [file[f] EXCEPT !.state = "closed"]
                    ELSE file[f]]
    /\ UNCHANGED <<now, epoch, taking, attached, ring, disk, ui, running, index, w, unclosed,
                   starts, crashes>>

-----------------------------------------------------------------------------
(* The UI thread.                                                          *)

\* startRecording(): rings emptied, files opened, then SegmentIndex::start() with the
\* cameras of this take.
PressRec ==
    /\ ui = Idle /\ taking = {} /\ starts < MaxStarts
    /\ \A f \in DOMAIN file : From(f) < now
    /\ \E chosen \in SUBSET Cams \ {{}} :
        /\ Cardinality(DOMAIN file) + Cardinality(chosen) <= MaxFiles
        /\ taking' = chosen
        /\ file' = WithNew(file, {Id(c, now) : c \in chosen})
        /\ ui' = [op |-> "start", step |-> "flag", cams |-> chosen]
    /\ ring' = [c \in Cams |-> {}]
    /\ starts' = starts + 1
    /\ UNCHANGED <<now, epoch, attached, disk, running, index, w, unclosed, crashes>>

\* stopRecording(): the tap first, then the index, the filters last.
PressStop ==
    /\ ui = Idle /\ taking # {}
    /\ attached' = FALSE
    /\ ui' = [op |-> "stop", step |-> "flag", cams |-> {}]
    /\ UNCHANGED <<now, epoch, file, taking, ring, disk, running, index, w, unclosed, starts, crashes>>

\* restartSegmentIndex(): a project opened, created or reconfigured.
Reopen ==
    /\ ui = Idle /\ taking = {} /\ starts < MaxStarts
    /\ starts' = starts + 1
    /\ ui' = [op |-> "start", step |-> "flag", cams |-> Cams]
    /\ UNCHANGED <<world, disk, running, index, w, unclosed, crashes>>

\* stop(), in its three steps; nothing to do when the thread is not running.
ClearRunning ==
    /\ ui.step = "flag"
    /\ running' = FALSE
    /\ ui' = [ui EXCEPT !.step = IF running THEN "join" ELSE "end"]
    /\ UNCHANGED <<world, disk, index, w, unclosed, starts, crashes>>

JoinWatcher ==
    /\ ui.step = "join"
    /\ w = Off
    /\ Save
    /\ ui' = [ui EXCEPT !.step = "end"]
    /\ UNCHANGED <<world, running, index, w, unclosed, starts, crashes>>

\* The rest of start().
Load ==
    /\ ui.step = "end" /\ ui.op = "start"
    /\ cams' = ui.cams
    /\ segs' = [c \in Cams |-> Bounded(ByAnchor(Loaded(c, ui.cams)))]
    /\ pending' = [c \in Cams |-> <<>>]
    /\ running' = TRUE
    /\ w' = [Off EXCEPT !.at = "scan"]
    /\ ui' = Idle
    /\ UNCHANGED <<world, disk, unclosed, starts, crashes>>

\* The filters are disabled and the muxers write what they still hold.
FiltersOff ==
    /\ ui.step = "end" /\ ui.op = "stop"
    /\ file' = [f \in DOMAIN file |->
                    IF Open(f) THEN [file[f] EXCEPT !.state = "flushing"] ELSE file[f]]
    /\ taking' = {}
    /\ ui' = Idle
    /\ UNCHANGED <<now, epoch, attached, ring, disk, running, index, w, unclosed, starts, crashes>>

\* The process dies.  The files it was writing may not be readable; the next process
\* counts its master clock from another instant.
Crash ==
    /\ crashes < MaxCrashes
    /\ crashes' = crashes + 1
    /\ \E lost \in SUBSET {f \in DOMAIN file : file[f].state # "closed"} :
        file' = [f \in DOMAIN file |->
                    [file[f] EXCEPT !.state = "closed", !.readable = @ /\ f \notin lost]]
    /\ epoch' = now + 1
    /\ taking' = {} /\ attached' = FALSE /\ ring' = [c \in Cams |-> {}]
    /\ ui' = Idle /\ running' = FALSE /\ w' = Off /\ unclosed' = {}
    /\ cams' = {} /\ segs' = [c \in Cams |-> <<>>] /\ pending' = [c \in Cams |-> <<>>]
    /\ UNCHANGED <<now, disk, starts>>

-----------------------------------------------------------------------------
(* The watching thread.                                                    *)

Rest == UNCHANGED <<world, ui, running, cams, starts, crashes>>

Known(f) == \E s \in ToSet(segs[CamOf(f)]) : s.file = f

\* scanFolder()
Scanned ==
    [c \in Cams |->
        [f \in DOMAIN pending[c] \cup
               {g \in DOMAIN file : CamOf(g) = c /\ c \in cams /\ ~Known(g)} |->
            IF f \in DOMAIN pending[c] THEN pending[c][f] ELSE 0]]

Scan ==
    /\ w.at = "scan" /\ running
    /\ pending' = Scanned
    /\ w' = [Off EXCEPT !.at = "anchor"]
    /\ UNCHANGED <<segs, disk, unclosed>> /\ Rest

Tried(n) == IF n = Abandoned THEN n ELSE IF n + 1 >= MaxAttempts THEN Abandoned ELSE n + 1

\* tryAnchorPending(): the next camera.  With no packet in its ring there is no evidence
\* and the attempt is only counted.
AnchorCamera ==
    /\ w.at = "anchor"
    /\ LET c == Min({k \in Cams : k >= w.cam /\ DOMAIN pending[k] # {}} \cup {NCams + 1})
       IN IF ~running THEN w' = [Off EXCEPT !.at = "compute"] /\ UNCHANGED pending
          ELSE IF c > NCams THEN w' = [Off EXCEPT !.at = "refresh"] /\ UNCHANGED pending
          ELSE IF ring[c] = {}
          THEN /\ pending' = [pending EXCEPT ![c] = [f \in DOMAIN @ |-> Tried(@[f])]]
               /\ w' = [w EXCEPT !.cam = c + 1]
          ELSE /\ w' = [at |-> "probe", cam |-> c, found |-> FALSE,
                        todo |-> {f \in DOMAIN pending[c] : pending[c][f] # Abandoned},
                        match |-> {f \in DOMAIN pending[c] : InRing(f)}]
               /\ UNCHANGED pending
    /\ UNCHANGED <<segs, disk, unclosed>> /\ Rest

Placed(f) ==
    [file |-> f, wall |-> From(f), anchor |-> From(f) - epoch, end |-> NoInstant,
     len |-> 0, final |-> FALSE, probes |-> 0]

\* One file, outside the lock, then its place pushed and sorted in: after what begins
\* before it.
Precedes(k, q, t) ==
    \A i \in DOMAIN q : IF i <= k THEN q[i].anchor < t ELSE q[i].anchor >= t

AnchorFile ==
    /\ w.at = "probe" /\ running
    /\ \E f \in w.todo :
        /\ \A g \in w.todo : From(f) <= From(g)
        /\ \/ /\ f \in w.match
              /\ \E k \in 0..Len(segs[w.cam]) :
                    /\ Precedes(k, segs[w.cam], From(f) - epoch)
                    /\ segs' = [segs EXCEPT ![w.cam] = InsertAt(@, k + 1, Placed(f))]
              /\ pending' = [pending EXCEPT ![w.cam] = [g \in DOMAIN @ \ {f} |-> @[g]]]
              /\ w' = [w EXCEPT !.todo = @ \ {f}, !.found = TRUE]
           \/ /\ pending' = [pending EXCEPT ![w.cam][f] = Tried(@)]
              /\ w' = [w EXCEPT !.todo = @ \ {f}]
              /\ UNCHANGED segs
    /\ UNCHANGED <<disk, unclosed>> /\ Rest

\* The camera's files are done: its places are written down now, not at STOP.  A pass cut
\* short by stop() leaves that to stop().
AnchorsDone ==
    /\ w.at = "probe" /\ (~running \/ w.todo = {})
    /\ w' = IF ~running THEN [Off EXCEPT !.at = "compute"]
            ELSE [w EXCEPT !.at = IF w.found THEN "save" ELSE "anchor", !.cam = @ + 1,
                           !.match = {}, !.found = FALSE]
    /\ UNCHANGED <<segs, pending, disk, unclosed>> /\ Rest

\* Mutant: written only by stop().
SaveLater ==
    /\ w.at = "save"
    /\ w' = [w EXCEPT !.at = "anchor"]
    /\ UNCHANGED <<segs, pending, disk, unclosed>> /\ Rest

SaveAnchors ==
    /\ w.at = "save"
    /\ Save
    /\ w' = [w EXCEPT !.at = "anchor"]
    /\ UNCHANGED <<segs, pending, unclosed>> /\ Rest

\* refreshDurations(): the first file not yet settled; never the newest of a camera while
\* anything is recorded.
Candidates(c) ==
    {i \in DOMAIN segs[c] :
        /\ ~(attached /\ i = Len(segs[c]))
        /\ ~segs[c][i].final /\ segs[c][i].probes < MaxProbes}

\* Mutants: one read is believed; a file that does not say is asked for ever.
SettledAtOnce(s, n) == [s EXCEPT !.len = Max({@, n}), !.final = TRUE, !.probes = 0]
AskedForEver(s) == s

Settled(s, n) == [s EXCEPT !.len = Max({@, n}), !.final = (n = s.len), !.probes = 0]
Unanswered(s) == [s EXCEPT !.probes = @ + 1]

RefreshDuration ==
    /\ w.at = "refresh"
    /\ running => \A f \in unclosed : file[f].state = "closed"
    /\ LET waiting == {c \in Cams : Candidates(c) # {}}
       IN IF ~running \/ waiting = {} THEN UNCHANGED <<segs, unclosed>>
          ELSE LET c == Min(waiting)
                   i == Min(Candidates(c))
                   n == Measured(segs[c][i].file)
               IN /\ segs' = [segs EXCEPT ![c][i] = IF n > 0 THEN Settled(@, n) ELSE Unanswered(@)]
                  /\ unclosed' = {f \in {segs[c][i].file} : file[f].state # "closed"}
    /\ w' = [Off EXCEPT !.at = "compute"]
    /\ UNCHANGED <<pending, disk>> /\ Rest

Recompute ==
    /\ w.at = "compute"
    /\ segs' = [c \in Cams |-> Bounded(segs[c])]
    /\ w' = IF running THEN [Off EXCEPT !.at = "scan"] ELSE Off
    /\ UNCHANGED <<pending, disk, unclosed>> /\ Rest

Leave ==
    /\ w.at = "scan" /\ ~running
    /\ w' = Off
    /\ UNCHANGED <<segs, pending, disk, unclosed>> /\ Rest

-----------------------------------------------------------------------------
Init ==
    /\ now = 1 /\ epoch = 0
    /\ file = <<>> /\ disk = {} /\ taking = {} /\ attached = FALSE
    /\ ring = [c \in Cams |-> {}]
    /\ ui = Idle /\ running = FALSE /\ cams = {}
    /\ segs = [c \in Cams |-> <<>>] /\ pending = [c \in Cams |-> <<>>]
    /\ w = Off /\ unclosed = {} /\ starts = 0 /\ crashes = 0

Recorder == Tick \/ Split \/ FlushEnds
UiSteps  == ClearRunning \/ JoinWatcher \/ Load \/ FiltersOff
Watcher  ==
    \/ Scan \/ AnchorCamera \/ AnchorFile \/ AnchorsDone \/ SaveAnchors
    \/ RefreshDuration \/ Recompute \/ Leave

Next == Recorder \/ PressRec \/ PressStop \/ Reopen \/ UiSteps \/ Watcher \/ Crash

\* Both threads run, and a flush ends.
Fairness == WF_vars(UiSteps) /\ WF_vars(Watcher) /\ WF_vars(FlushEnds)

Spec == Init /\ [][Next]_vars /\ Fairness

-----------------------------------------------------------------------------
(* Properties.                                                             *)

\* A file sits on the timeline once, in order, and where it was really recorded: also in
\* a later process, whose master clock starts elsewhere and where old instants are
\* negative.
PlacedTruly ==
    \A c \in Cams : \A i, j \in DOMAIN segs[c] :
        /\ segs[c][i].anchor = From(segs[c][i].file) - epoch
        /\ i < j => segs[c][i].anchor < segs[c][j].anchor

\* What has been placed is on the disk before the pass goes on, so that a process that
\* dies loses only what the pass in progress was placing: nothing can place it again.
AnchoredIsOnDisk ==
    (w.at \notin {"probe", "save"} /\ ui.step # "join") =>
        \A c \in Cams : \A s \in ToSet(segs[c]) : Entry(s) \in disk

\* A length declared final is the length of the file, whatever was still being flushed
\* when it was read.
FinalIsTrue ==
    \A c \in Cams : \A s \in ToSet(segs[c]) :
        s.final => s.len = file[s.file].to - From(s.file)

Footage(c) == UNION {{t - epoch : t \in From(f)..(file[f].to - 1)} :
                        f \in {g \in DOMAIN file : CamOf(g) = c}}
Ranges == {r \in (1 - epoch..MaxTime - epoch) \X (1 - epoch..MaxTime - epoch) : r[1] < r[2]}

\* Once every file but the newest has been measured, a range is served only when every
\* instant of it was recorded: a hole between two takes is refused.
ServedIsWhole ==
    \A c \in Cams :
        (\A i \in 1..(Len(segs[c]) - 1) : segs[c][i].final) =>
            \A r \in Ranges : Serves(c, r[1], r[2]) => r[1]..r[2] \subseteq Footage(c)

\* Left alone, the thread comes to rest: every file is placed or given up, every length is
\* known or given up, and one file that does not answer does not hold the others back.
IndexSettles ==
    <>[](running /\ ~attached) =>
        <>[](\A c \in Cams :
                /\ \A f \in DOMAIN pending[c] : pending[c][f] = Abandoned
                /\ \A s \in ToSet(segs[c]) : s.final \/ s.probes = MaxProbes)

=============================================================================
