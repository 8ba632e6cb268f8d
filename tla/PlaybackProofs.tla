--------------------------- MODULE PlaybackProofs ---------------------------
(***************************************************************************)
(* Playback, from the key that cues a clip to the pictures it shows: what  *)
(* the run `dock` checks on a few presses, proved for any number of keys,  *)
(* ticks, events and items of a queue, and what the run `reverse` checks   *)
(* of the pictures and the sound of three ranges, proved for any clip,     *)
(* range, pass, decoder and speed.                                         *)
(***************************************************************************)
EXTENDS Dock, PlaybackRun, FiniteSetTheorems, SequenceTheorems, WellFoundedInduction, TLAPS

-----------------------------------------------------------------------------
(* The bar.                                                                *)

\* While the bar is parked and no review is armed, an idle queue is one poll() has already
\* seen idle, or one whose end a gesture has taken from under it.
Parked ==
    /\ StaysWhereParked
    /\ parked # None /\ armed = None /\ ~active[A] => ~prevSequence

LEMMA GesturesKeepParked ==
    ASSUME Parked,
           \/ \E out \in BOOLEAN : Key(out)
           \/ \E place \in Places : Scrub(place)
           \/ \E e \in Events : Cue(e)
           \/ Step \/ StopKey \/ NowKey \/ NowHotkey \/ NewProject \/ Reselect
           \/ Rec \/ StopRec
    PROVE  Parked'
<1>1. ASSUME NEW place, Review(place) PROVE Parked'
  BY <1>1 DEF Review, Parked, StaysWhereParked
<1>2. ASSUME parked' = None PROVE Parked'
  BY <1>2 DEF Parked, StaysWhereParked
<1>3. ASSUME NEW out, Key(out) PROVE Parked'
  <2>1. CASE \E place, o : PlayFree(place, o)
    BY <2>1, <1>1 DEF PlayFree
  <2>2. CASE parked' = None
    BY <2>2, <1>2
  <2> QED
    BY <1>3, <2>1, <2>2
    DEF Key, PlayKey, PlayEventsKey, PlayPauseKey, AngleKey, PlayHotkey, ReplayCurrent,
        PlayNothing, Refused, PlayQueue
<1>4. ASSUME NEW place, Scrub(place) PROVE Parked'
  BY <1>4, <1>1 DEF Scrub
<1>5. ASSUME NEW e, Cue(e) PROVE Parked'
  BY <1>5, <1>1 DEF Cue
<1>6. CASE Step
  BY <1>6, <1>1 DEF Step
<1>7. CASE StopKey
  BY <1>7 DEF StopKey, GivesUp, liveVars, armedVars, Parked, StaysWhereParked
<1>8. CASE NowKey \/ NowHotkey \/ NewProject \/ Rec
  BY <1>8, <1>2 DEF NowKey, NowHotkey, NewProject, BackToLive, Rec
<1>9. CASE StopRec \/ Reselect
  BY <1>9 DEF StopRec, Reselect, vars, bayVars, liveVars, armedVars, Parked, StaysWhereParked
<1> QED
  BY <1>3, <1>4, <1>5, <1>6, <1>7, <1>8, <1>9

LEMMA TickKeepsParked == ASSUME Parked, Tick PROVE Parked'
<1>1. CASE parked' = None
  BY <1>1 DEF Parked, StaysWhereParked
<1>2. CASE parked' # None
  <2>1. ~NewTake /\ OnScreen \in {None, parked} /\ parked' = parked /\ parked # None
    BY <1>2 DEF Tick
  <2>2. ~followLive /\ playhead = parked
    BY <2>1 DEF Parked, StaysWhereParked
  <2>3. ~SequenceOver
    BY <2>1 DEF Parked, SequenceOver
  <2>4. Shown = {parked}
    BY <2>1, <2>2, <2>3 DEF Shown
  <2>5. ~followLive' /\ playhead' = parked'
    BY <2>1, <2>2, <2>3, <2>4 DEF Tick
  <2>6. prevSequence' = active'[A]
    BY DEF Tick, Sees, vars, bayVars
  <2> QED
    BY <2>5, <2>6 DEF Parked, StaysWhereParked
<1> QED
  BY <1>1, <1>2

LEMMA NextParked == ASSUME Parked, [DockNext]_allVars PROVE Parked'
<1>1. ASSUME GivesUp, UNCHANGED <<liveVars, selected, armedVars, still, takeVars>>
      PROVE Parked'
  BY <1>1 DEF GivesUp, liveVars, armedVars, Parked, StaysWhereParked
<1>2. CASE StillEnds
  BY <1>2 DEF StillEnds, vars, bayVars, liveVars, armedVars, Parked, StaysWhereParked
<1>3. CASE UNCHANGED allVars
  BY <1>3 DEF allVars, dockVars, vars, bayVars, liveVars, armedVars, Parked, StaysWhereParked
<1> QED
  BY <1>1, <1>2, <1>3, GesturesKeepParked, TickKeepsParked DEF DockNext, Beneath

\* For any events, stretches and bounds: poll() never drags the operator off the place he has
\* parked the bar on (dock-poll.cpp:446-449, :776).
THEOREM ParkedStays == DockSpec => []StaysWhereParked
<1>1. DockInit => Parked
  BY DEF DockInit, Parked, StaysWhereParked
<1>2. Parked /\ [DockNext]_allVars => Parked'
  BY NextParked
<1>3. Parked => StaysWhereParked
  BY DEF Parked
<1> QED
  BY <1>1, <1>2, <1>3, PTL DEF DockSpec

-----------------------------------------------------------------------------
(* The queue.                                                              *)

Task == [kind : {"switch", "restore"}, bay : {A}] \cup [kind : {"finished"}, bay : {A}, gen : Nat]

\* The ends of generation g's clip that are on their way,
Ends(ts, g) == {i \in DOMAIN ts : ts[i].kind = "finished" /\ ts[i].gen = g}

\* and nothing that is on its way is of a generation to come.
Late(ts, g) == \A i \in DOMAIN ts : ts[i].kind = "finished" => ts[i].gen <= g

InPlay(g, c) == c # NoClip /\ c = g
DipDown(g, rs) == Ramp(A, "out", g) \in rs

\* Nothing can move the queue on; exactly one thing can.
Quiet(g, c, ts, rs) == ~InPlay(g, c) /\ Ends(ts, g) = {} /\ ~DipDown(g, rs)

Waits(g, c, ts, rs) ==
    \/ InPlay(g, c) /\ Ends(ts, g) = {} /\ ~DipDown(g, rs)
    \/ ~InPlay(g, c) /\ (\E i : Ends(ts, g) = {i}) /\ ~DipDown(g, rs)
    \/ ~InPlay(g, c) /\ Ends(ts, g) = {} /\ DipDown(g, rs)

QueueTypeOK ==
    /\ queue \in [{A} -> Seq(Places)]
    /\ pos \in [{A} -> Nat \ {0}] /\ active \in [{A} -> BOOLEAN] /\ orphaned \in [{A} -> BOOLEAN]
    /\ gen \in [{A} -> Nat] /\ clip \in [{A} -> Nat]
    /\ tasks \in Seq(Task)
    /\ ramps \subseteq [bay : {A}, kind : {"out", "in"}, gen : Nat]
    /\ commands \in Nat

NothingAhead ==
    clip[A] <= gen[A] /\ Late(tasks, gen[A]) /\ \A r \in ramps : r.gen <= gen[A]

\* The queue in progress waits for one thing, nothing is left behind by one that is over
\* or was cancelled, and a dip on its way down has an item to start.
QueueInv ==
    /\ QueueTypeOK
    /\ NothingAhead
    /\ active[A] /\ ~orphaned[A] => Waits(gen[A], clip[A], tasks, ramps)
    /\ ~active[A] \/ orphaned[A] => Quiet(gen[A], clip[A], tasks, ramps)
    /\ DipDown(gen[A], ramps) => pos[A] <= Len(queue[A])

-----------------------------------------------------------------------------
(* The FIFO of UI tasks.                                                   *)

LEMMA Posted ==
    ASSUME NEW ts \in Seq(Task), NEW t \in Task, t.kind # "finished"
    PROVE  /\ Append(ts, t) \in Seq(Task)
           /\ \A g \in Nat : Ends(Append(ts, t), g) = Ends(ts, g)
           /\ \A g \in Nat : Late(ts, g) => Late(Append(ts, t), g)
  BY DEF Ends, Late

LEMMA Restored ==
    ASSUME NEW ts \in Seq(Task), NEW out
    PROVE  /\ Restore(A, out, ts) \in Seq(Task)
           /\ \A g \in Nat : Ends(Restore(A, out, ts), g) = Ends(ts, g)
           /\ \A g \in Nat : Late(ts, g) => Late(Restore(A, out, ts), g)
<1>1. [kind |-> "restore", bay |-> A] \in Task
  BY DEF Task
<1> QED
  BY <1>1, Posted DEF Restore

LEMMA Switched ==
    ASSUME NEW ts \in Seq(Task)
    PROVE  /\ Append(ts, [kind |-> "switch", bay |-> A]) \in Seq(Task)
           /\ \A g \in Nat : Late(ts, g) => Late(Append(ts, [kind |-> "switch", bay |-> A]), g)
<1>1. [kind |-> "switch", bay |-> A] \in Task
  BY DEF Task
<1> QED
  BY <1>1, Posted

\* A clip's end is posted.
LEMMA Ended ==
    ASSUME NEW ts \in Seq(Task), NEW h \in Nat
    PROVE  LET us == Append(ts, [kind |-> "finished", bay |-> A, gen |-> h])
           IN  /\ us \in Seq(Task)
               /\ Ends(us, h) = Ends(ts, h) \cup {Len(ts) + 1}
               /\ \A g \in Nat : g # h => Ends(us, g) = Ends(ts, g)
               /\ \A g \in Nat : Late(ts, g) /\ h <= g => Late(us, g)
<1>1. [kind |-> "finished", bay |-> A, gen |-> h] \in Task
  BY DEF Task
<1> QED
  BY <1>1 DEF Ends, Late

\* The first task runs.
LEMMA Ran ==
    ASSUME NEW ts \in Seq(Task), ts # <<>>
    PROVE  /\ Tail(ts) \in Seq(Task) /\ Head(ts) \in Task
           /\ \A g \in Nat : Late(ts, g) => Late(Tail(ts), g)
           /\ \A g \in Nat : Ends(ts, g) = {} => Ends(Tail(ts), g) = {}
           /\ \A g \in Nat : (\E i : Ends(ts, g) = {i}) /\ ~(Head(ts).kind = "finished" /\ Head(ts).gen = g)
                             => \E i : Ends(Tail(ts), g) = {i}
           /\ \A g \in Nat : (\E i : Ends(ts, g) = {i}) /\ Head(ts).kind = "finished" /\ Head(ts).gen = g
                             => Ends(Tail(ts), g) = {}
<1>1. /\ Tail(ts) \in Seq(Task) /\ Head(ts) \in Task /\ Head(ts) = ts[1]
      /\ Len(ts) \in Nat /\ Len(Tail(ts)) = Len(ts) - 1
      /\ DOMAIN ts = 1..Len(ts) /\ DOMAIN Tail(ts) = 1..(Len(ts) - 1)
      /\ \A i \in 1..(Len(ts) - 1) : Tail(ts)[i] = ts[i + 1]
      /\ Len(ts) >= 1
  OBVIOUS
<1>2. ASSUME NEW g \in Nat PROVE Late(ts, g) => Late(Tail(ts), g)
  BY <1>1 DEF Late
<1>3. ASSUME NEW g \in Nat
      PROVE  \A i : i \in Ends(Tail(ts), g) <=> i \in 1..(Len(ts) - 1) /\ i + 1 \in Ends(ts, g)
  BY <1>1 DEF Ends
<1>4. ASSUME NEW g \in Nat, Ends(ts, g) = {} PROVE Ends(Tail(ts), g) = {}
  BY <1>3, <1>4
<1>5. ASSUME NEW g \in Nat, NEW i, Ends(ts, g) = {i},
             ~(Head(ts).kind = "finished" /\ Head(ts).gen = g)
      PROVE  \E j : Ends(Tail(ts), g) = {j}
  <2>1. i \in 1..Len(ts) /\ i # 1
    BY <1>1, <1>5 DEF Ends
  <2>2. Ends(Tail(ts), g) = {i - 1}
    BY <2>1, <1>1, <1>3, <1>5
  <2> QED
    BY <2>2
<1>6. ASSUME NEW g \in Nat, NEW i, Ends(ts, g) = {i}, Head(ts).kind = "finished", Head(ts).gen = g
      PROVE  Ends(Tail(ts), g) = {}
  <2>1. i = 1
    BY <1>1, <1>6 DEF Ends
  <2> QED
    BY <2>1, <1>3, <1>6
<1> QED
  BY <1>1, <1>2, <1>4, <1>5, <1>6

\* A generation nobody has used yet.
LEMMA NobodysYet ==
    ASSUME NEW ts \in Seq(Task), NEW g \in Nat, Late(ts, g), NEW h \in Nat, h > g
    PROVE  Ends(ts, h) = {} /\ Late(ts, h)
<1>1. \A i \in DOMAIN ts : ts[i].kind = "finished" => ts[i].gen \in Nat
  BY DEF Task
<1> QED
  BY <1>1 DEF Ends, Late

-----------------------------------------------------------------------------
(* Starting and advancing.                                                 *)

\* What startNext() needs of its caller: nothing on its way is of a generation above g.
LEMMA Starts ==
    ASSUME NEW q \in Seq(Places), NEW from \in 1..Len(q), NEW g \in Nat, NEW out,
           NEW ts \in Seq(Task), Late(ts, g),
           ramps' \subseteq [bay : {A}, kind : {"out", "in"}, gen : Nat],
           \A r \in ramps' : r.gen <= g,
           queue' \in [{A} -> Seq(Places)], commands' \in Nat,
           orphaned' \in [{A} -> BOOLEAN], ~orphaned'[A],
           QueueTypeOK,
           StartNext(A, q, from, g, out, ts)
    PROVE  QueueInv'
<1> DEFINE h == gen'[A]
           Started ==
               /\ pos' \in [{A} -> Nat \ {0}] /\ active' \in [{A} -> BOOLEAN]
               /\ gen' \in [{A} -> Nat] /\ clip' \in [{A} -> Nat]
               /\ h \in Nat /\ h > g
               /\ IF active'[A] THEN clip'[A] = h /\ tasks' = ts
                                ELSE clip'[A] = NoClip /\ tasks' = Restore(A, out, ts)
<1>1. Started
  <2>1. Len(q) \in Nat /\ from \in Nat \ {0} /\ from <= Len(q)
    OBVIOUS
  <2>2. ASSUME NEW k \in from..Len(q),
               pos' = [pos EXCEPT ![A] = k],
               gen' = [gen EXCEPT ![A] = g + (k - from + 1)],
               clip' = [clip EXCEPT ![A] = g + (k - from + 1)],
               active' = [active EXCEPT ![A] = TRUE],
               tasks' = ts
        PROVE  Started
    BY <2>1, <2>2 DEF QueueTypeOK
  <2>3. ASSUME pos' = [pos EXCEPT ![A] = Len(q) + 1],
               gen' = [gen EXCEPT ![A] = g + (Len(q) - from + 1)],
               clip' = [clip EXCEPT ![A] = NoClip],
               active' = [active EXCEPT ![A] = FALSE],
               tasks' = Restore(A, out, ts)
        PROVE  Started
    BY <2>1, <2>3 DEF QueueTypeOK, NoClip
  <2> QED
    BY <2>2, <2>3 DEF StartNext
<1>2. tasks' \in Seq(Task) /\ Late(tasks', g)
  BY <1>1, Restored
<1>3. Ends(tasks', h) = {} /\ Late(tasks', h)
  BY <1>1, <1>2, NobodysYet
<1>4. ~DipDown(h, ramps') /\ \A r \in ramps' : r.gen <= h
  BY <1>1 DEF DipDown, Ramp
<1>5. QueueTypeOK'
  BY <1>1, <1>2 DEF QueueTypeOK
<1>6. NothingAhead'
  BY <1>1, <1>3, <1>4 DEF NothingAhead, NoClip
<1>7. active'[A] => Waits(h, clip'[A], tasks', ramps')
  BY <1>1, <1>3, <1>4 DEF Waits, InPlay, NoClip
<1>8. ~active'[A] => Quiet(h, clip'[A], tasks', ramps')
  BY <1>1, <1>3, <1>4 DEF Quiet, InPlay
<1> QED
  BY <1>4, <1>5, <1>6, <1>7, <1>8 DEF QueueInv

\* What onEventFinished() needs of its caller: a queue in progress that nothing can move on
\* any more.
LEMMA Advances ==
    ASSUME QueueInv, active[A], NEW g \in Nat, NEW playing \in Nat, NEW ts \in Seq(Task), Late(ts, g),
           Ends(ts, g) = {}, playing <= g, ~InPlay(g, playing), ~DipDown(g, ramps),
           \A r \in ramps : r.gen <= g,
           UNCHANGED queue, commands' \in Nat,
           orphaned' \in [{A} -> BOOLEAN], ~orphaned'[A],
           Advance(A, g, playing, ts)
    PROVE  QueueInv'
<1> DEFINE q == queue[A]
           item == pos[A] + 1
<1>1. QueueTypeOK /\ q \in Seq(Places) /\ Len(q) \in Nat /\ item \in Nat \ {0} /\ item >= 1
  BY DEF QueueInv, QueueTypeOK
<1>2. CASE item <= Len(q) /\ StartNext(A, q, item, g, toOutput[A], ts) /\ UNCHANGED ramps
  BY <1>1, <1>2, Starts DEF QueueTypeOK
<1>3. CASE q # <<>> /\ StartNext(A, q, 1, g, toOutput[A], ts) /\ UNCHANGED ramps
  <2>1. 1 \in 1..Len(q)
    BY <1>1, <1>3
  <2> QED
    BY <1>1, <1>3, <2>1, Starts DEF QueueTypeOK
<1>4. CASE /\ item <= Len(q)
           /\ ramps' = ramps \cup {Ramp(A, "out", g)}
           /\ pos' = [pos EXCEPT ![A] = item]
           /\ gen' = [gen EXCEPT ![A] = g]
           /\ clip' = [clip EXCEPT ![A] = playing]
           /\ tasks' = ts
           /\ UNCHANGED active
  <2>1. QueueTypeOK'
    BY <1>1, <1>4 DEF QueueTypeOK, Ramp
  <2>2. gen'[A] = g /\ clip'[A] = playing /\ pos'[A] = item
    BY <1>1, <1>4 DEF QueueTypeOK
  <2>3. NothingAhead'
    BY <1>4, <2>2 DEF NothingAhead, Ramp
  <2>4. Waits(gen'[A], clip'[A], tasks', ramps')
    BY <1>4, <2>2 DEF Waits, DipDown
  <2> QED
    BY <1>1, <1>4, <2>1, <2>2, <2>3, <2>4 DEF QueueInv
<1>5. CASE /\ active' = [active EXCEPT ![A] = FALSE]
           /\ tasks' = Restore(A, toOutput[A], ts)
           /\ pos' = [pos EXCEPT ![A] = item]
           /\ gen' = [gen EXCEPT ![A] = g]
           /\ clip' = [clip EXCEPT ![A] = playing]
           /\ UNCHANGED ramps
  <2>1. tasks' \in Seq(Task) /\ Ends(tasks', g) = {} /\ Late(tasks', g)
    BY <1>5, Restored
  <2>2. QueueTypeOK'
    BY <1>1, <1>5, <2>1 DEF QueueTypeOK
  <2>3. gen'[A] = g /\ clip'[A] = playing /\ ~active'[A]
    BY <1>1, <1>5 DEF QueueTypeOK
  <2>4. NothingAhead'
    BY <1>5, <2>1, <2>3 DEF NothingAhead
  <2>5. Quiet(gen'[A], clip'[A], tasks', ramps')
    BY <1>5, <2>1, <2>3 DEF Quiet
  <2> QED
    BY <2>2, <2>3, <2>4, <2>5 DEF QueueInv, Quiet
<1> QED
  BY <1>2, <1>3, <1>4, <1>5 DEF Advance

-----------------------------------------------------------------------------
(* The coordinator's commands.                                             *)

LEMMA Untouched ==
    ASSUME QueueInv, commands' \in Nat,
           UNCHANGED <<queue, pos, active, gen, clip, ramps, tasks, orphaned>>
    PROVE  QueueInv'
  BY DEF QueueInv, QueueTypeOK, NothingAhead

\* A queue of one item or more is started, out of a FIFO with no end of a later clip in it.
LEMMA Plays ==
    ASSUME QueueInv, NEW q \in Seq(Places), q # <<>>, NEW out, NEW n \in {1, 2},
           NEW ts \in Seq(Task), Late(ts, gen[A]),
           queue' = [queue EXCEPT ![A] = q], UNCHANGED ramps, Command,
           orphaned' = [orphaned EXCEPT ![A] = FALSE],
           \/ StartNext(A, q, 1, gen[A] + n, out, ts)
           \/ StartNext(A, q, 1, gen[A] + n, out, Append(ts, [kind |-> "switch", bay |-> A]))
    PROVE  QueueInv'
<1> DEFINE g == gen[A] + n
<1>1. QueueTypeOK /\ gen[A] \in Nat /\ g \in Nat /\ g > gen[A] /\ 1 \in 1..Len(q)
  BY DEF QueueInv, QueueTypeOK
<1>2. Late(ts, g)
  BY <1>1, NobodysYet
<1>3. \A r \in ramps' : r.gen <= g
  <2>1. \A r \in ramps : r.gen <= gen[A] /\ r.gen \in Nat
    BY DEF QueueInv, QueueTypeOK, NothingAhead
  <2> QED
    BY <1>1, <2>1
<1>4. /\ queue' \in [{A} -> Seq(Places)] /\ commands' \in Nat
      /\ orphaned' \in [{A} -> BOOLEAN] /\ ~orphaned'[A]
      /\ ramps' \subseteq [bay : {A}, kind : {"out", "in"}, gen : Nat]
  BY <1>1 DEF QueueTypeOK, Command
<1> QED
  BY <1>1, <1>2, <1>3, <1>4, Switched, Starts

LEMMA PlayKeeps ==
    ASSUME QueueInv, NEW q \in Seq(Places), q # <<>>, NEW out, Play(A, q, out)
    PROVE  QueueInv'
<1>1. tasks \in Seq(Task) /\ Late(tasks, gen[A])
  BY DEF QueueInv, QueueTypeOK, NothingAhead
<1> QED
  BY <1>1, Plays DEF Play, dipVars

LEMMA StopThenPlayKeeps ==
    ASSUME QueueInv, NEW q \in Seq(Places), q # <<>>, NEW out, StopThenPlay(q, out)
    PROVE  QueueInv'
<1> DEFINE ts == Restore(A, active[A] /\ toOutput[A], tasks)
<1>1. tasks \in Seq(Task) /\ Late(tasks, gen[A]) /\ gen[A] \in Nat
  BY DEF QueueInv, QueueTypeOK, NothingAhead
<1>2. ts \in Seq(Task) /\ Late(ts, gen[A])
  BY <1>1, Restored
<1> HIDE DEF ts
<1>3. \/ StartNext(A, q, 1, gen[A] + 2, out, ts)
      \/ StartNext(A, q, 1, gen[A] + 2, out, Append(ts, [kind |-> "switch", bay |-> A]))
  BY DEF StopThenPlay, ts
<1> QED
  BY <1>2, <1>3, Plays DEF StopThenPlay

\* A bump that starts nothing leaves nothing current.
LEMMA Bumped ==
    ASSUME QueueInv, NEW c \in {NoClip, clip[A]}, NEW ts \in Seq(Task), Late(ts, gen[A])
    PROVE  LET h == gen[A] + 1
           IN  /\ Quiet(h, c, ts, ramps) /\ c <= h /\ Late(ts, h)
               /\ \A r \in ramps : r.gen <= h
<1>1. /\ gen[A] \in Nat /\ clip[A] \in Nat /\ clip[A] <= gen[A]
      /\ \A r \in ramps : r.gen <= gen[A] /\ r.gen \in Nat
  BY DEF QueueInv, QueueTypeOK, NothingAhead
<1>2. Ends(ts, gen[A] + 1) = {} /\ Late(ts, gen[A] + 1)
  BY <1>1, NobodysYet
<1> QED
  BY <1>1, <1>2 DEF Quiet, InPlay, DipDown, Ramp, NoClip

LEMMA RefusedKeeps == ASSUME QueueInv, PlayRefused(A) PROVE QueueInv'
<1>1. QueueTypeOK /\ tasks \in Seq(Task) /\ Late(tasks, gen[A])
  BY DEF QueueInv, QueueTypeOK, NothingAhead
<1>2. Quiet(gen[A] + 1, clip[A], tasks, ramps) /\ clip[A] <= gen[A] + 1 /\ Late(tasks, gen[A] + 1)
      /\ \A r \in ramps : r.gen <= gen[A] + 1
  BY <1>1, Bumped
<1>3. queue' \in [{A} -> Seq(Places)]
  <2>1. queue \in [{A} -> Seq(Places)] /\ <<>> \in Seq(Places)
    BY <1>1 DEF QueueTypeOK
  <2>2. PICK q \in Seq(Places) : queue' = [queue EXCEPT ![A] = q]
    BY <2>1 DEF PlayRefused
  <2> QED
    BY <2>1, <2>2
<1>4. /\ gen' = [gen EXCEPT ![A] = @ + 1] /\ orphaned' = [orphaned EXCEPT ![A] = active[A]]
      /\ UNCHANGED <<pos, active, clip, tasks, ramps>> /\ commands' = commands + 1
  BY DEF PlayRefused, dipVars, obsVars, Command
<1>5. gen'[A] = gen[A] + 1 /\ orphaned'[A] = active[A]
  BY <1>1, <1>4 DEF QueueTypeOK
<1>6. QueueTypeOK'
  BY <1>1, <1>3, <1>4 DEF QueueTypeOK
<1> QED
  BY <1>2, <1>4, <1>5, <1>6 DEF QueueInv, NothingAhead, Quiet

LEMMA StopKeeps == ASSUME QueueInv, Stop(A) PROVE QueueInv' /\ ~active'[A]
<1>1. QueueTypeOK /\ tasks \in Seq(Task) /\ Late(tasks, gen[A]) /\ gen[A] \in Nat
  BY DEF QueueInv, QueueTypeOK, NothingAhead
<1>2. tasks' \in Seq(Task) /\ Late(tasks', gen[A])
  BY <1>1, Restored DEF Stop
<1>3. Quiet(gen[A] + 1, NoClip, tasks', ramps) /\ NoClip <= gen[A] + 1 /\ Late(tasks', gen[A] + 1)
      /\ \A r \in ramps : r.gen <= gen[A] + 1
  BY <1>2, Bumped
<1>4. gen'[A] = gen[A] + 1 /\ clip'[A] = NoClip /\ ~active'[A] /\ UNCHANGED ramps
  BY <1>1 DEF Stop, QueueTypeOK
<1>5. QueueTypeOK'
  BY <1>1, <1>2 DEF Stop, QueueTypeOK, Command, NoClip
<1> QED
  BY <1>3, <1>4, <1>5 DEF QueueInv, NothingAhead, Quiet

LEMMA SkipKeeps == ASSUME QueueInv, Skip(A) PROVE QueueInv'
<1>1. QueueTypeOK /\ tasks \in Seq(Task) /\ Late(tasks, gen[A]) /\ gen[A] + 1 \in Nat
      /\ NoClip \in Nat /\ NoClip <= gen[A] + 1
  BY DEF QueueInv, QueueTypeOK, NothingAhead, NoClip
<1>2. Quiet(gen[A] + 1, NoClip, tasks, ramps) /\ Late(tasks, gen[A] + 1)
      /\ \A r \in ramps : r.gen <= gen[A] + 1
  BY <1>1, Bumped
<1>3. /\ active[A] /\ UNCHANGED queue /\ commands' \in Nat
      /\ orphaned' \in [{A} -> BOOLEAN] /\ ~orphaned'[A]
      /\ Advance(A, gen[A] + 1, NoClip, tasks)
  BY <1>1 DEF Skip, QueueTypeOK, Command
<1> QED
  BY <1>1, <1>2, <1>3, Advances DEF Quiet

-----------------------------------------------------------------------------
(* What runs by itself.                                                    *)

\* What is current says that the queue is in progress.
LEMMA InProgress ==
    ASSUME QueueInv, ~Quiet(gen[A], clip[A], tasks, ramps)
    PROVE  active[A] /\ ~orphaned[A] /\ Waits(gen[A], clip[A], tasks, ramps)
  BY DEF QueueInv, QueueTypeOK

LEMMA EndKeeps == ASSUME QueueInv, ClipEnds(A) PROVE QueueInv'
<1> DEFINE c == clip[A]
           g == gen[A]
<1>1. /\ QueueTypeOK /\ tasks \in Seq(Task) /\ Late(tasks, g) /\ g \in Nat /\ c \in Nat
      /\ c <= g /\ c # NoClip /\ c \in Nat /\ \A r \in ramps : r.gen <= g
  BY DEF QueueInv, QueueTypeOK, NothingAhead, ClipEnds
<1>2. /\ tasks' = Append(tasks, [kind |-> "finished", bay |-> A, gen |-> c])
      /\ clip' = [clip EXCEPT ![A] = NoClip]
      /\ UNCHANGED <<queue, pos, active, gen, ramps, orphaned, commands>>
  BY DEF ClipEnds, dipVars, history
<1>3. /\ tasks' \in Seq(Task) /\ Late(tasks', g)
      /\ Ends(tasks', c) = Ends(tasks, c) \cup {Len(tasks) + 1}
      /\ g # c => Ends(tasks', g) = Ends(tasks, g)
  BY <1>1, <1>2, Ended
<1>4. QueueTypeOK' /\ clip'[A] = NoClip
  BY <1>1, <1>2, <1>3 DEF QueueTypeOK, NoClip
<1>5. NothingAhead'
  BY <1>1, <1>2, <1>3, <1>4 DEF NothingAhead, NoClip
<1>6. CASE c = g
  <2>1. InPlay(g, c)
    BY <1>1, <1>6 DEF InPlay
  <2>2. active[A] /\ ~orphaned[A] /\ Ends(tasks, g) = {} /\ ~DipDown(g, ramps)
    BY <2>1, InProgress DEF Quiet, Waits
  <2>3. Ends(tasks', g) = {Len(tasks) + 1}
    BY <1>3, <1>6, <2>2
  <2>4. Waits(g, clip'[A], tasks', ramps)
    BY <1>4, <2>2, <2>3 DEF Waits, InPlay
  <2> QED
    BY <1>2, <1>4, <1>5, <2>2, <2>4 DEF QueueInv
<1>7. CASE c # g
  <2>1. ~InPlay(g, c) /\ ~InPlay(g, clip'[A]) /\ Ends(tasks', g) = Ends(tasks, g)
    BY <1>3, <1>4, <1>7 DEF InPlay
  <2>2. Waits(g, c, tasks, ramps) => Waits(g, clip'[A], tasks', ramps)
    BY <2>1 DEF Waits
  <2>3. Quiet(g, c, tasks, ramps) => Quiet(g, clip'[A], tasks', ramps)
    BY <2>1 DEF Quiet
  <2> QED
    BY <1>2, <1>4, <1>5, <2>2, <2>3 DEF QueueInv
<1> QED
  BY <1>6, <1>7

\* A task runs that is not the end of the clip in progress.
LEMMA Passed ==
    ASSUME QueueInv, tasks # <<>>, ~(Head(tasks).kind = "finished" /\ Head(tasks).gen = gen[A]),
           tasks' = Tail(tasks),
           UNCHANGED <<queue, pos, active, gen, clip, ramps, orphaned, commands>>
    PROVE  QueueInv'
<1> DEFINE g == gen[A]
           c == clip[A]
<1>1. QueueTypeOK /\ tasks \in Seq(Task) /\ Late(tasks, g) /\ g \in Nat
  BY DEF QueueInv, QueueTypeOK, NothingAhead
<1>2. /\ tasks' \in Seq(Task) /\ Late(tasks', g)
      /\ Ends(tasks, g) = {} => Ends(tasks', g) = {}
      /\ (\E i : Ends(tasks, g) = {i}) => \E i : Ends(tasks', g) = {i}
  BY <1>1, Ran
<1>3. Waits(g, c, tasks, ramps) => Waits(g, c, tasks', ramps)
  BY <1>2 DEF Waits
<1>4. Quiet(g, c, tasks, ramps) => Quiet(g, c, tasks', ramps)
  BY <1>2 DEF Quiet
<1> QED
  BY <1>1, <1>2, <1>3, <1>4 DEF QueueInv, QueueTypeOK, NothingAhead

LEMMA FinishedKeeps ==
    ASSUME QueueInv, RunFinished
    PROVE  QueueInv' /\ (~active[A] => ~active'[A])
<1> DEFINE g == gen[A]
           c == clip[A]
           stale == ~active[A] \/ Head(tasks).gen # g
<1>1. /\ QueueTypeOK /\ tasks \in Seq(Task) /\ Late(tasks, g) /\ g \in Nat /\ c \in Nat /\ c <= g
      /\ \A r \in ramps : r.gen <= g
      /\ tasks # <<>> /\ Head(tasks).kind = "finished"
      /\ UNCHANGED <<queue, orphaned, commands>>
  BY DEF QueueInv, QueueTypeOK, NothingAhead, RunFinished, Due, history
<1>2. CASE stale /\ tasks' = Tail(tasks) /\ UNCHANGED <<pos, active, gen, clip, ramps>>
  <2>1. Head(tasks).gen # g
    <3>1. 1 \in Ends(tasks, g) \/ Head(tasks).gen # g
      BY <1>1 DEF Ends
    <3>2. Ends(tasks, g) # {} => active[A]
      BY InProgress DEF Quiet
    <3> QED
      BY <1>2, <3>1, <3>2
  <2> QED
    BY <1>1, <1>2, <2>1, Passed
<1>3. CASE ~stale /\ Advance(A, g, c, Tail(tasks))
  <2>1. active[A] /\ Head(tasks).gen = g /\ 1 \in Ends(tasks, g)
    BY <1>1, <1>3 DEF Ends
  <2>2. ~orphaned[A] /\ ~InPlay(g, c) /\ ~DipDown(g, ramps) /\ \E i : Ends(tasks, g) = {i}
    BY <2>1, InProgress DEF Quiet, Waits
  <2>3. Tail(tasks) \in Seq(Task) /\ Late(Tail(tasks), g) /\ Ends(Tail(tasks), g) = {}
    BY <1>1, <2>1, <2>2, Ran
  <2>4. commands' \in Nat /\ orphaned' \in [{A} -> BOOLEAN] /\ ~orphaned'[A]
    BY <1>1, <2>2 DEF QueueTypeOK
  <2>5. QueueInv'
    BY <1>1, <1>3, <2>1, <2>2, <2>3, <2>4, Advances
  <2> QED
    BY <2>1, <2>5
<1> QED
  BY <1>2, <1>3 DEF RunFinished, FinishedBay, StaleFinish, A

LEMMA UiTaskKeeps ==
    ASSUME QueueInv, UiTask
    PROVE  QueueInv' /\ (~active[A] => ~active'[A])
<1>1. CASE RunSwitch
  BY <1>1, Passed DEF RunSwitch, Due, bayVars, dipVars, history
<1>2. CASE RunRestore
  BY <1>2, Passed DEF RunRestore, Due, bayVars, dipVars, history
<1> QED
  BY <1>1, <1>2, FinishedKeeps DEF UiTask

LEMMA RampKeeps ==
    ASSUME QueueInv, NEW r \in ramps, RampTick(r)
    PROVE  QueueInv' /\ (~active[A] => ~active'[A])
<1> DEFINE g == gen[A]
           c == clip[A]
<1>1. /\ QueueTypeOK /\ tasks \in Seq(Task) /\ Late(tasks, g) /\ g \in Nat
      /\ r \in [bay : {A}, kind : {"out", "in"}, gen : Nat] /\ r.bay = A
      /\ \A s \in ramps : s.gen <= g
      /\ UNCHANGED <<queue, orphaned, commands>>
  BY DEF QueueInv, QueueTypeOK, NothingAhead, RampTick, history
<1>2. CASE UNCHANGED <<pos, active, gen, clip, tasks>> /\ ramps' \in {ramps, ramps \ {r}}
           /\ (DipDown(g, ramps) => DipDown(g, ramps'))
  <2>1. DipDown(g, ramps') <=> DipDown(g, ramps)
    BY <1>2 DEF DipDown
  <2>2. Waits(g, c, tasks, ramps) => Waits(g, c, tasks, ramps')
    BY <2>1 DEF Waits
  <2>3. Quiet(g, c, tasks, ramps) => Quiet(g, c, tasks, ramps')
    BY <2>1 DEF Quiet
  <2>4. QueueTypeOK' /\ NothingAhead'
    BY <1>1, <1>2 DEF QueueInv, QueueTypeOK, NothingAhead
  <2> QED
    BY <1>1, <1>2, <2>1, <2>2, <2>3, <2>4 DEF QueueInv
<1>3. CASE ~RampIsStale(r) /\ Bottom(r)
  <2>1. r = Ramp(A, "out", g) /\ DipDown(g, ramps)
    BY <1>1, <1>3 DEF RampIsStale, Bottom, DipDown, Ramp
  <2>2. active[A] /\ ~orphaned[A] /\ pos[A] <= Len(queue[A])
    BY <2>1, InProgress DEF Quiet, QueueInv
  <2>3. StartNext(A, queue[A], pos[A], g, toOutput[A], tasks)
        /\ ramps' = (ramps \ {r}) \cup {Ramp(A, "in", g)}
    BY <1>1, <1>3, <2>1 DEF Bottom, Ramp
  <2>4. /\ ramps' \subseteq [bay : {A}, kind : {"out", "in"}, gen : Nat]
        /\ \A s \in ramps' : s.gen <= g
    BY <1>1, <2>3 DEF QueueTypeOK, Ramp
  <2>5. /\ queue[A] \in Seq(Places) /\ pos[A] \in 1..Len(queue[A])
        /\ queue' \in [{A} -> Seq(Places)] /\ commands' \in Nat
        /\ orphaned' \in [{A} -> BOOLEAN] /\ ~orphaned'[A]
    BY <1>1, <2>2 DEF QueueTypeOK
  <2>6. QueueInv'
    BY <1>1, <2>3, <2>4, <2>5, Starts
  <2> QED
    BY <2>2, <2>6
<1>4. RampIsStale(r) \/ r.kind = "in" => r # Ramp(A, "out", g)
  BY <1>1 DEF RampIsStale, Ramp
<1>5. CASE RampIsStale(r) /\ ramps' = ramps \ {r} /\ UNCHANGED <<pos, active, gen, clip, tasks>>
  BY <1>2, <1>4, <1>5 DEF DipDown
<1>6. CASE UNCHANGED <<ramps, pos, active, gen, clip, tasks>>
  BY <1>2, <1>6
<1>7. CASE r.kind = "in" /\ ramps' = ramps \ {r} /\ UNCHANGED <<pos, active, gen, clip, tasks>>
  BY <1>2, <1>4, <1>7 DEF DipDown
<1> QED
  BY <1>3, <1>5, <1>6, <1>7 DEF RampTick

-----------------------------------------------------------------------------
(* The dock's gestures.                                                    *)

\* What the keys hand to playEvents() and playRanges() are places.
PlacesOK ==
    /\ armed \in Places \cup {None}
    /\ playhead \in Places \cup {Edge, None}
    /\ selected \in Events

LEMMA QueuesArePlaces == ASSUME NEW q \in Queues PROVE q \in Seq(Places) /\ q # <<>>
<1>1. PICK n \in 1..MaxItems : q \in [1..n -> Events]
  BY DEF Queues
<1>2. n \in Nat /\ n >= 1
  BY <1>1, BoundsAssumption
<1>3. q \in Seq(Places)
  BY <1>1, <1>2, IsASeq DEF Places
<1>4. 1 \in DOMAIN q /\ DOMAIN <<>> = {}
  BY <1>1, <1>2
<1> QED
  BY <1>3, <1>4

LEMMA ReviewsArePlaces ==
    ASSUME NEW place \in Places, NEW q \in Reviews(place) PROVE q \in Seq(Places) /\ q # <<>>
<1>1. CASE q = <<place>>
  BY <1>1
<1>2. CASE q = <<place, place>>
  BY <1>2
<1> QED
  BY <1>1, <1>2 DEF Reviews

Inv == QueueInv /\ PlacesOK

\* What every gesture does to the queue.
Moves == Inv' /\ (~active[A] /\ active'[A] => commands' # commands)

LEMMA Counted == ASSUME QueueInv, Command PROVE commands' # commands /\ commands' \in Nat
  BY DEF QueueInv, QueueTypeOK, Command

LEMMA PlayFreeMoves ==
    ASSUME Inv, NEW place \in Places, NEW out, PlayFree(place, out), UNCHANGED selected
    PROVE  Moves
<1>1. PICK q \in Reviews(place) : StopThenPlay(q, out)
  BY DEF PlayFree
<1>2. QueueInv' /\ commands' # commands
  BY <1>1, ReviewsArePlaces, StopThenPlayKeeps, Counted DEF StopThenPlay, Inv
<1> QED
  BY <1>2 DEF PlayFree, Review, Moves, Inv, PlacesOK

LEMMA PlayQueueMoves ==
    ASSUME Inv, NEW q \in Seq(Places), q # <<>>, NEW out, PlayQueue(q, out),
           UNCHANGED selected, armed' \in {armed, None}
    PROVE  Moves
<1>1. QueueInv' /\ commands' # commands
  BY PlayKeeps, Counted DEF PlayQueue, Play, Inv
<1> QED
  BY <1>1 DEF PlayQueue, Moves, Inv, PlacesOK

LEMMA RefusedMoves ==
    ASSUME Inv, Refused, UNCHANGED selected, armed' \in {armed, None} PROVE Moves
<1>1. QueueInv' /\ commands' # commands
  BY RefusedKeeps, Counted DEF Refused, PlayRefused, Inv
<1> QED
  BY <1>1 DEF Refused, Moves, Inv, PlacesOK

LEMMA KeyMoves == ASSUME Inv, NEW out \in BOOLEAN, Key(out) PROVE Moves
<1>1. \A e \in Events : <<e>> \in Seq(Places) /\ <<e>> # <<>>
  BY DEF Places
<1>2. NewestEvent \in Events /\ selected \in Events /\ UNCHANGED selected
  BY StretchesAssumption
  DEF Inv, PlacesOK, Key, PlayKey, PlayEventsKey, PlayPauseKey, AngleKey, PlayHotkey
<1>3. ASSUME NEW o, ReplayCurrent(o) PROVE Moves
  <2>1. CASE armed # None /\ PlayFree(armed, armedOnAir)
    BY <2>1, <1>2, PlayFreeMoves DEF Inv, PlacesOK
  <2>2. CASE PlayQueue(<<selected>>, o) /\ UNCHANGED armedVars
    BY <2>2, <1>1, <1>2, PlayQueueMoves DEF armedVars
  <2> QED
    BY <1>3, <2>1, <2>2 DEF ReplayCurrent
<1>4. CASE PlayKey(out)
  BY <1>2, <1>4, PlayFreeMoves DEF PlayKey, Inv, PlacesOK
<1>5. CASE PlayEventsKey(out)
  <2>1. armed' = None
    BY <1>5 DEF PlayEventsKey, ClearFreeReview
  <2> QED
    BY <1>2, <1>5, <2>1, RefusedMoves, QueuesArePlaces, PlayQueueMoves
    DEF PlayEventsKey, PlayNothing
<1>6. CASE PlayPauseKey(out)
  <2>1. CASE IsFree(playhead) /\ PlayFree(playhead, FALSE)
    <3>1. playhead \in Places
      BY <2>1 DEF IsFree, Inv, PlacesOK
    <3> QED
      BY <2>1, <3>1, <1>2, PlayFreeMoves
  <2>2. CASE ReplayCurrent(out)
    BY <2>2, <1>3
  <2>3. CASE Refused /\ UNCHANGED armedVars
    BY <2>3, <1>2, RefusedMoves DEF armedVars
  <2> QED
    BY <1>6, <2>1, <2>2, <2>3 DEF PlayPauseKey
<1>7. CASE AngleKey(out)
  BY <1>2, <1>3, <1>7, RefusedMoves DEF AngleKey, PlayNothing, armedVars
<1>8. CASE PlayHotkey(out)
  BY <1>1, <1>2, <1>8, RefusedMoves, PlayQueueMoves DEF PlayHotkey, PlayNothing, armedVars
<1> QED
  BY <1>4, <1>5, <1>6, <1>7, <1>8 DEF Key

LEMMA StopMoves ==
    ASSUME Inv, Stop(A), selected' \in {selected, NewestEvent}, armed' \in {armed, None},
           playhead' \in Places \cup {Edge, None}
    PROVE  Moves
  BY StopKeeps, StretchesAssumption DEF Moves, Inv, PlacesOK

LEMMA CueMoves == ASSUME Inv, NEW e \in Events, Cue(e) PROVE Moves
<1>1. PlacesOK' /\ ~(~active[A] /\ active'[A])
  BY DEF Cue, Review, ClearFreeReview, PlacesOK, Places, bayVars
<1>2. QueueTypeOK /\ commands' \in Nat
  BY Counted DEF Cue, Inv, QueueInv
<1>3. UNCHANGED <<queue, pos, active, gen, ramps, tasks, orphaned>>
  BY DEF Cue, dipVars, obsVars
<1>4. CASE UNCHANGED clip
  BY <1>1, <1>2, <1>3, <1>4, Untouched DEF Moves, Inv
<1>5. CASE ~active[A] /\ clip' = [clip EXCEPT ![A] = NoClip]
  <2>1. clip'[A] = NoClip /\ QueueTypeOK'
    BY <1>2, <1>3, <1>5 DEF QueueTypeOK, NoClip
  <2>2. Quiet(gen[A], clip[A], tasks, ramps)
    BY <1>5 DEF Inv, QueueInv
  <2>3. Quiet(gen[A], clip'[A], tasks, ramps)
    BY <2>1, <2>2 DEF Quiet, InPlay
  <2>4. NothingAhead'
    BY <1>2, <1>3, <2>1 DEF Inv, QueueInv, QueueTypeOK, NothingAhead, NoClip
  <2> QED
    BY <1>1, <1>3, <1>5, <2>1, <2>3, <2>4 DEF Moves, Inv, QueueInv, Quiet
<1> QED
  BY <1>4, <1>5 DEF Cue

LEMMA BeneathMoves ==
    ASSUME Inv, UNCHANGED <<liveVars, selected, armedVars>>,
           \/ Skip(A) \/ ToggleLoop(A) \/ ClipEnds(A) \/ UiTask
           \/ \E r \in ramps : RampTick(r)
    PROVE  Moves
<1>1. PlacesOK'
  BY DEF Inv, PlacesOK, liveVars, armedVars
<1>2. CASE Skip(A)
  BY <1>1, <1>2, SkipKeeps, Counted DEF Skip, Moves, Inv
<1>3. CASE ToggleLoop(A)
  <2>1. UNCHANGED <<queue, pos, active, gen, clip, ramps, tasks, orphaned>>
    BY <1>3 DEF ToggleLoop, dipVars, obsVars
  <2> QED
    BY <1>1, <1>3, <2>1, Untouched, Counted DEF ToggleLoop, Moves, Inv
<1>4. CASE ClipEnds(A)
  BY <1>1, <1>4, EndKeeps DEF ClipEnds, Moves, Inv
<1>5. CASE UiTask
  BY <1>1, <1>5, UiTaskKeeps DEF Moves, Inv
<1>6. ASSUME NEW r \in ramps, RampTick(r) PROVE Moves
  BY <1>1, <1>6, RampKeeps DEF Moves, Inv
<1> QED
  BY <1>2, <1>3, <1>4, <1>5, <1>6

LEMMA TickMoves == ASSUME Inv, Tick PROVE Moves
<1>1. UNCHANGED <<queue, pos, active, gen, clip, ramps, tasks, orphaned, commands>>
  BY DEF Tick, vars, bayVars, dipVars, obsVars, history
<1>2. QueueInv'
  BY <1>1, Untouched DEF Inv, QueueInv, QueueTypeOK
<1>3. OnScreen \in Places \cup {None}
  BY DEF OnScreen, Inv, QueueInv, QueueTypeOK
<1>4. playhead' \in Places \cup {Edge, None}
  BY <1>3 DEF Tick, Shown, Inv, PlacesOK
<1> QED
  BY <1>1, <1>2, <1>4 DEF Tick, ClearFreeReview, armedVars, Moves, Inv, PlacesOK

LEMMA NextMoves == ASSUME Inv, [DockNext]_allVars PROVE Moves
<1>1. ASSUME UNCHANGED <<liveVars, selected, armedVars>>,
             UNCHANGED <<queue, pos, active, gen, clip, ramps, tasks, orphaned>>,
             commands' \in Nat
      PROVE  Moves
  BY <1>1, Untouched DEF Moves, Inv, PlacesOK, liveVars, armedVars
<1>2. commands \in Nat
  BY DEF Inv, QueueInv, QueueTypeOK
<1>3. ASSUME NEW place \in Places, Scrub(place) PROVE Moves
  <2>1. PICK q \in Reviews(place) : StopThenPlay(q, FALSE)
    BY <1>3 DEF Scrub
  <2>2. QueueInv' /\ commands' # commands
    BY <2>1, ReviewsArePlaces, StopThenPlayKeeps, Counted DEF StopThenPlay, Inv
  <2> QED
    BY <1>3, <2>2 DEF Scrub, Review, ClearFreeReview, Moves, Inv, PlacesOK
<1>4. CASE Step
  <2>1. playhead' \in Places
    BY <1>4 DEF Step, Review, Inv, PlacesOK
  <2> QED
    BY <1>4, <2>1, StopMoves DEF Step, armedVars
<1>5. CASE StopKey \/ NowKey \/ NowHotkey \/ NewProject
  <2>1. playhead' \in Places \cup {Edge, None} /\ selected' \in {selected, NewestEvent}
        /\ armed' \in {armed, None} /\ Stop(A)
    BY <1>5 DEF StopKey, NowKey, NowHotkey, NewProject, BackToLive, ClearFreeReview,
                liveVars, armedVars, Inv, PlacesOK
  <2> QED
    BY <2>1, StopMoves
<1>6. CASE Rec \/ StopRec
  <2>1. /\ UNCHANGED <<playhead, selected, armed>> /\ Command
        /\ UNCHANGED <<queue, pos, active, gen, clip, ramps, tasks, orphaned>>
    BY <1>6 DEF Rec, StopRec, bayVars, dipVars, obsVars, liveVars, armedVars
  <2> QED
    BY <2>1, Untouched, Counted DEF Moves, Inv, PlacesOK
<1>7. CASE Reselect \/ StillEnds \/ UNCHANGED allVars
  <2>1. /\ UNCHANGED <<playhead, armed>> /\ selected' \in {selected, NewestEvent}
        /\ UNCHANGED <<queue, pos, active, gen, clip, ramps, tasks, orphaned, commands>>
    BY <1>7 DEF Reselect, StillEnds, allVars, dockVars, vars, bayVars, dipVars, obsVars, history,
                liveVars, armedVars
  <2> QED
    BY <1>2, <2>1, Untouched, StretchesAssumption DEF Moves, Inv, PlacesOK
<1> QED
  BY <1>3, <1>4, <1>5, <1>6, <1>7, KeyMoves, CueMoves, TickMoves, BeneathMoves DEF DockNext, Beneath

-----------------------------------------------------------------------------
LEMMA InitInv == DockInit => Inv
<1> SUFFICES ASSUME DockInit PROVE Inv
  OBVIOUS
<1>1. QueueTypeOK
  BY OneBay DEF DockInit, Init, QueueTypeOK, A, NoClip
<1>2. NothingAhead /\ ~active[A] /\ Quiet(gen[A], clip[A], tasks, ramps)
  BY OneBay DEF DockInit, Init, NothingAhead, Quiet, Late, Ends, InPlay, DipDown, A, NoClip
<1>3. PlacesOK
  BY StretchesAssumption DEF DockInit, PlacesOK
<1> QED
  BY <1>1, <1>2, <1>3 DEF Inv, QueueInv, Quiet

LEMMA OneIsAwaited == Inv => WaitsForOneThing
<1> SUFFICES ASSUME Inv, active[A], ~orphaned[A] PROVE Cardinality(Awaited(A)) = 1
  BY OneBay DEF WaitsForOneThing, A
<1>1. Waits(gen[A], clip[A], tasks, ramps)
  BY DEF Inv, QueueInv
<1>2. {j \in DOMAIN tasks : /\ tasks[j].kind = "finished" /\ tasks[j].bay = A
                            /\ tasks[j].gen = gen[A]} = Ends(tasks, gen[A])
  BY DEF Inv, QueueInv, QueueTypeOK, Ends, Task
<1>3. \E x : Awaited(A) = {x}
  <2>1. CASE InPlay(gen[A], clip[A])
    <3>1. Awaited(A) = {<<"clip", clip[A]>>}
      BY <1>1, <1>2, <2>1 DEF Awaited, Waits, InPlay, DipDown
    <3> QED
      BY <3>1
  <2>2. CASE DipDown(gen[A], ramps)
    <3>1. Awaited(A) = {<<"dip", Ramp(A, "out", gen[A])>>}
      BY <1>1, <1>2, <2>2 DEF Awaited, Waits, InPlay, DipDown
    <3> QED
      BY <3>1
  <2>3. CASE ~InPlay(gen[A], clip[A]) /\ ~DipDown(gen[A], ramps)
    <3>1. PICK i : Ends(tasks, gen[A]) = {i}
      BY <1>1, <2>3 DEF Waits
    <3>2. Awaited(A) = {<<"finished", i>>}
      BY <1>2, <2>3, <3>1 DEF Awaited, InPlay, DipDown
    <3> QED
      BY <3>2
  <2> QED
    BY <2>1, <2>2, <2>3
<1> QED
  BY <1>3, FS_Singleton

LEMMA InvHolds == DockSpec => []Inv
<1>1. Inv /\ [DockNext]_allVars => Inv'
  BY NextMoves DEF Moves
<1> QED
  BY <1>1, InitInv, PTL DEF DockSpec

\* For any events, stretches and bounds: whatever the operator presses and however it meets
\* the clip's end and the dip on their way, a queue in progress waits for one thing.
THEOREM OneThing == DockSpec => []WaitsForOneThing
  BY InvHolds, OneIsAwaited, PTL

\* For any events, stretches and bounds: what an ended, skipped or stopped queue left in the
\* FIFO or in a dip's timer never starts one (onClipFinished() and rampDip() see it stale).
THEOREM NothingStartsByItself == DockSpec => OnlyACommandStarts
<1>1. Inv /\ [DockNext]_allVars
      => [\A b \in Bays : ~active[b] /\ active'[b] => commands' # commands]_vars
  BY NextMoves, OneBay DEF Moves, A
<1> QED
  BY <1>1, InvHolds, PTL DEF DockSpec, OnlyACommandStarts

-----------------------------------------------------------------------------
(* Where the scene tasks lead.                                             *)

Scenes(ts) == {i \in DOMAIN ts : ts[i].kind # "finished"}

\* Once the FIFO has run, program is on the replay scene: the last task that switches it
\* leads there, or none does and it is there.
BoundForReplay(ts, scene) ==
    IF Scenes(ts) = {} THEN scene = Replay(A)
    ELSE \E i \in Scenes(ts) : ts[i].kind = "switch" /\ \A j \in Scenes(ts) : j <= i

LEMMA RestoreLast ==
    ASSUME NEW ts \in Seq(Task), NEW scene
    PROVE  ~BoundForReplay(Restore(A, TRUE, ts), scene)
<1> DEFINE us == Append(ts, [kind |-> "restore", bay |-> A])
<1>1. /\ Len(ts) \in Nat /\ DOMAIN us = 1..(Len(ts) + 1)
      /\ us[Len(ts) + 1].kind = "restore"
  OBVIOUS
<1>2. Len(ts) + 1 \in Scenes(us)
  BY <1>1 DEF Scenes
<1>3. \A i \in Scenes(us) : i >= Len(ts) + 1 => us[i].kind = "restore"
  BY <1>1 DEF Scenes
<1>4. \A i \in Scenes(us) : i \in Nat
  BY <1>1 DEF Scenes
<1> QED
  BY <1>1, <1>2, <1>3, <1>4 DEF BoundForReplay, Restore

LEMMA EndLeadsNowhere ==
    ASSUME NEW ts \in Seq(Task), NEW h \in Nat, NEW scene
    PROVE  LET us == Append(ts, [kind |-> "finished", bay |-> A, gen |-> h])
           IN  BoundForReplay(us, scene) => BoundForReplay(ts, scene)
<1> DEFINE us == Append(ts, [kind |-> "finished", bay |-> A, gen |-> h])
<1>1. /\ Len(ts) \in Nat /\ DOMAIN ts = 1..Len(ts) /\ DOMAIN us = 1..(Len(ts) + 1)
      /\ \A i \in DOMAIN ts : us[i] = ts[i]
      /\ us[Len(ts) + 1].kind = "finished"
  OBVIOUS
<1> HIDE DEF us
<1>2. Scenes(us) = Scenes(ts)
  BY <1>1 DEF Scenes
<1>3. \A i \in Scenes(ts) : us[i] = ts[i]
  BY <1>1 DEF Scenes
<1>4. BoundForReplay(us, scene) => BoundForReplay(ts, scene)
  BY <1>2, <1>3 DEF BoundForReplay
<1> QED
  BY <1>4 DEF us

\* The first task has run, and left `after` in program.
LEMMA Led ==
    ASSUME NEW ts \in Seq(Task), ts # <<>>, NEW before, NEW after,
           Head(ts).kind = "finished" => after = before,
           Head(ts).kind = "restore" => after # Replay(A),
           BoundForReplay(Tail(ts), after)
    PROVE  BoundForReplay(ts, before)
<1>1. /\ Len(ts) \in Nat /\ Len(ts) >= 1 /\ Head(ts) = ts[1] /\ Head(ts) \in Task
      /\ DOMAIN ts = 1..Len(ts) /\ DOMAIN Tail(ts) = 1..(Len(ts) - 1)
      /\ \A i \in 1..(Len(ts) - 1) : Tail(ts)[i] = ts[i + 1]
  OBVIOUS
<1>2. ts[1].kind \in {"switch", "restore", "finished"}
  BY <1>1 DEF Task
<1>3. \A i : i \in Scenes(Tail(ts)) => i \in Nat /\ i + 1 \in Scenes(ts) /\ Tail(ts)[i] = ts[i + 1]
  BY <1>1 DEF Scenes
<1>4. \A i : i \in Scenes(ts) => i \in Nat /\ (i = 1 \/ i - 1 \in Scenes(Tail(ts)))
  BY <1>1 DEF Scenes
<1>5. CASE Scenes(Tail(ts)) # {}
  <2>1. PICK i \in Scenes(Tail(ts)) :
            Tail(ts)[i].kind = "switch" /\ \A j \in Scenes(Tail(ts)) : j <= i
    BY <1>5 DEF BoundForReplay
  <2>2. i + 1 \in Scenes(ts) /\ ts[i + 1].kind = "switch"
    BY <1>3, <2>1
  <2>3. \A j \in Scenes(ts) : j <= i + 1
    BY <1>3, <1>4, <2>1
  <2> QED
    BY <2>2, <2>3 DEF BoundForReplay
<1>6. CASE Scenes(Tail(ts)) = {}
  <2>1. after = Replay(A) /\ \A j \in Scenes(ts) : j = 1
    BY <1>4, <1>6 DEF BoundForReplay
  <2>2. CASE ts[1].kind = "finished"
    BY <1>1, <2>1, <2>2 DEF BoundForReplay, Scenes
  <2>3. CASE ts[1].kind = "switch"
    BY <1>1, <2>1, <2>3 DEF BoundForReplay, Scenes
  <2> QED
    BY <1>1, <1>2, <2>1, <2>2, <2>3
<1> QED
  BY <1>5, <1>6

-----------------------------------------------------------------------------
(* The invariant.                                                          *)

OnAirOrStrayed == strayed[A] \/ (active[A] /\ toOutput[A])

\* The name of the scene to come back to is kept exactly while program is off it, and the
\* scene tasks lead to the replay scene for a queue on air only, or for one that strayed.
AirInv ==
    /\ toOutput \in [{A} -> BOOLEAN] /\ strayed \in [{A} -> BOOLEAN]
    /\ previous \in [{A} -> {Nowhere, Home}] /\ program \in {Home, Replay(A)}
    /\ program = Home <=> previous[A] = Nowhere
    /\ BoundForReplay(tasks, program) => OnAirOrStrayed

\* Types that the proof of the queue's invariant has settled.
LEMMA Settled == ASSUME QueueInv PROVE tasks \in Seq(Task) /\ active \in [{A} -> BOOLEAN]
  BY DEF QueueInv, QueueTypeOK

LEMMA AirUntouched ==
    ASSUME AirInv, UNCHANGED <<active, toOutput, tasks, program, previous, strayed>>
    PROVE  AirInv'
  BY DEF AirInv, OnAirOrStrayed

\* What startNext() needs: if the tasks it is handed lead to the replay scene, then the
\* queue it starts is on air, or strayed.
LEMMA StartsOnAir ==
    ASSUME QueueInv, AirInv, UNCHANGED <<program, previous>>,
           toOutput' \in [{A} -> BOOLEAN], strayed' \in [{A} -> BOOLEAN],
           NEW ts \in Seq(Task),
           BoundForReplay(ts, program) => strayed'[A] \/ toOutput'[A],
           NEW q, NEW from, NEW g, StartNext(A, q, from, g, toOutput'[A], ts)
    PROVE  AirInv'
<1>1. CASE active'[A] /\ tasks' = ts
  BY <1>1 DEF AirInv, OnAirOrStrayed
<1>2. CASE tasks' = Restore(A, toOutput'[A], ts)
  <2>1. CASE toOutput'[A]
    <3>1. Restore(A, toOutput'[A], ts) = Restore(A, TRUE, ts)
      BY <2>1 DEF Restore
    <3>2. ~BoundForReplay(tasks', program)
      BY <1>2, <3>1, RestoreLast
    <3> QED
      BY <3>2 DEF AirInv, OnAirOrStrayed
  <2>2. CASE ~toOutput'[A]
    <3>1. tasks' = ts
      BY <1>2, <2>2 DEF Restore
    <3> QED
      BY <2>2, <3>1 DEF AirInv, OnAirOrStrayed
  <2> QED
    BY <2>1, <2>2
<1> QED
  BY <1>1, <1>2, Settled DEF StartNext

LEMMA AdvancesOnAir ==
    ASSUME QueueInv, AirInv, active[A], UNCHANGED <<program, previous, toOutput, strayed>>,
           NEW ts \in Seq(Task), BoundForReplay(ts, program) => OnAirOrStrayed,
           NEW g, NEW playing, Advance(A, g, playing, ts)
    PROVE  AirInv'
<1>1. ASSUME NEW from, StartNext(A, queue[A], from, g, toOutput[A], ts) PROVE AirInv'
  BY <1>1, StartsOnAir DEF AirInv, OnAirOrStrayed
<1>2. CASE tasks' = ts /\ UNCHANGED active
  BY <1>2 DEF AirInv, OnAirOrStrayed
<1>3. CASE tasks' = Restore(A, toOutput[A], ts)
  <2>1. CASE toOutput[A]
    <3>1. Restore(A, toOutput[A], ts) = Restore(A, TRUE, ts)
      BY <2>1 DEF Restore
    <3>2. ~BoundForReplay(tasks', program)
      BY <1>3, <3>1, RestoreLast
    <3> QED
      BY <3>2 DEF AirInv, OnAirOrStrayed
  <2>2. CASE ~toOutput[A]
    <3>1. tasks' = ts
      BY <1>3, <2>2 DEF Restore
    <3> QED
      BY <2>2, <3>1 DEF AirInv, OnAirOrStrayed
  <2> QED
    BY <2>1, <2>2
<1> QED
  BY <1>1, <1>2, <1>3 DEF Advance

-----------------------------------------------------------------------------
(* Commands.                                                               *)

LEMMA PlayOnAir == ASSUME QueueInv, AirInv, NEW q, NEW out \in BOOLEAN, Play(A, q, out) PROVE AirInv'
<1> DEFINE ts == IF out THEN Append(tasks, [kind |-> "switch", bay |-> A]) ELSE tasks
<1>1. toOutput' \in [{A} -> BOOLEAN] /\ strayed' \in [{A} -> BOOLEAN] /\ toOutput'[A] = out
      /\ (strayed'[A] <=> ~out /\ (strayed[A] \/ (active[A] /\ toOutput[A])))
  BY Settled DEF Play, AirInv
<1>2. ts \in Seq(Task)
  BY Settled, Switched
<1>3. BoundForReplay(ts, program) => strayed'[A] \/ toOutput'[A]
  BY <1>1 DEF AirInv, OnAirOrStrayed
<1>4. StartNext(A, q, 1, gen[A] + 1, toOutput'[A], ts) /\ UNCHANGED <<program, previous>>
  BY <1>1 DEF Play
<1> HIDE DEF ts
<1> QED
  BY <1>1, <1>2, <1>3, <1>4, StartsOnAir

LEMMA StopThenPlayOnAir ==
    ASSUME QueueInv, AirInv, NEW q, NEW out \in BOOLEAN, StopThenPlay(q, out) PROVE AirInv'
<1> DEFINE off == Restore(A, active[A] /\ toOutput[A], tasks)
           ts == IF out THEN Append(off, [kind |-> "switch", bay |-> A]) ELSE off
<1>1. toOutput' \in [{A} -> BOOLEAN] /\ strayed' \in [{A} -> BOOLEAN] /\ toOutput'[A] = out
      /\ (strayed'[A] <=> strayed[A] /\ ~out)
  BY DEF StopThenPlay, AirInv
<1>2. off \in Seq(Task) /\ ts \in Seq(Task)
  BY Settled, Restored, Switched
<1>3. BoundForReplay(off, program) => strayed[A]
  <2>1. CASE active[A] /\ toOutput[A]
    BY <2>1, Settled, RestoreLast DEF Restore
  <2>2. CASE ~(active[A] /\ toOutput[A])
    BY <2>2 DEF Restore, AirInv, OnAirOrStrayed
  <2> QED
    BY <2>1, <2>2
<1>4. StartNext(A, q, 1, gen[A] + 2, toOutput'[A], ts) /\ UNCHANGED <<program, previous>>
  BY <1>1 DEF StopThenPlay
<1>5. BoundForReplay(ts, program) => strayed'[A] \/ toOutput'[A]
  BY <1>1, <1>3
<1> HIDE DEF ts
<1> QED
  BY <1>1, <1>2, <1>4, <1>5, StartsOnAir

LEMMA StopOnAir == ASSUME QueueInv, AirInv, Stop(A) PROVE AirInv'
<1>1. CASE active[A] /\ toOutput[A]
  <2>1. ~BoundForReplay(tasks', program)
    BY <1>1, Settled, RestoreLast DEF Stop, Restore
  <2> QED
    BY <2>1 DEF Stop, AirInv, OnAirOrStrayed
<1>2. CASE ~(active[A] /\ toOutput[A])
  <2>1. tasks' = tasks
    BY <1>2 DEF Stop, Restore
  <2> QED
    BY <1>2, <2>1 DEF Stop, AirInv, OnAirOrStrayed
<1> QED
  BY <1>1, <1>2

LEMMA SkipOnAir == ASSUME QueueInv, AirInv, Skip(A) PROVE AirInv'
  BY Settled, AdvancesOnAir DEF Skip, AirInv

-----------------------------------------------------------------------------
(* What runs by itself.                                                    *)

LEMMA EndOnAir == ASSUME QueueInv, AirInv, ClipEnds(A) PROVE AirInv'
<1>1. clip[A] \in Nat /\ tasks \in Seq(Task)
  BY DEF QueueInv, QueueTypeOK
<1>2. BoundForReplay(tasks', program) => BoundForReplay(tasks, program)
  BY <1>1, EndLeadsNowhere DEF ClipEnds
<1> QED
  BY <1>2 DEF ClipEnds, AirInv, OnAirOrStrayed, history

LEMMA FinishedOnAir == ASSUME QueueInv, AirInv, RunFinished PROVE AirInv'
<1>1. tasks \in Seq(Task) /\ tasks # <<>> /\ Head(tasks).kind = "finished"
      /\ UNCHANGED <<toOutput, program, previous, strayed>>
  BY Settled DEF RunFinished, Due, history
<1>2. Tail(tasks) \in Seq(Task) /\ (BoundForReplay(Tail(tasks), program) => OnAirOrStrayed)
  BY <1>1, Ran, Led DEF AirInv
<1>3. CASE tasks' = Tail(tasks) /\ UNCHANGED active
  BY <1>1, <1>2, <1>3 DEF AirInv, OnAirOrStrayed
<1>4. CASE active[A] /\ Advance(A, gen[A], clip[A], Tail(tasks))
  BY <1>1, <1>2, <1>4, AdvancesOnAir
<1> QED
  BY <1>3, <1>4 DEF RunFinished, FinishedBay, StaleFinish, A

LEMMA SceneOnAir == ASSUME QueueInv, AirInv, RunSwitch \/ RunRestore PROVE AirInv'
<1>1. tasks \in Seq(Task) /\ tasks # <<>> /\ Head(tasks) \in Task /\ tasks' = Tail(tasks)
      /\ UNCHANGED <<toOutput, active, strayed>>
  BY Settled, Ran DEF RunSwitch, RunRestore, Due, bayVars, history
<1>2. Head(tasks).bay = A
  BY <1>1 DEF Task
<1>3. CASE RunSwitch
  <2>1. program' = Replay(A) /\ previous' = [previous EXCEPT ![A] = Remembered(A)]
        /\ Head(tasks).kind = "switch"
    BY <1>2, <1>3 DEF RunSwitch, Due
  <2>2. previous' \in [{A} -> {Nowhere, Home}] /\ previous'[A] = Home
    BY <2>1 DEF AirInv, Remembered, Replay, Home, Nowhere, A
  <2>3. BoundForReplay(tasks', program') => BoundForReplay(tasks, program)
    BY <1>1, <2>1, Led
  <2> QED
    BY <1>1, <2>1, <2>2, <2>3 DEF AirInv, OnAirOrStrayed, Replay, Home, Nowhere, A
<1>4. CASE RunRestore
  <2>1. program' = (IF previous[A] = Nowhere THEN program ELSE previous[A])
        /\ previous' = [previous EXCEPT ![A] = Nowhere]
        /\ Head(tasks).kind = "restore"
    BY <1>2, <1>4 DEF RunRestore, Due
  <2>2. previous' \in [{A} -> {Nowhere, Home}] /\ previous'[A] = Nowhere /\ program' = Home
    BY <2>1 DEF AirInv
  <2>3. BoundForReplay(tasks', program') => BoundForReplay(tasks, program)
    BY <1>1, <2>1, <2>2, Led DEF Replay, Home, A
  <2> QED
    BY <1>1, <2>1, <2>2, <2>3 DEF AirInv, OnAirOrStrayed
<1> QED
  BY <1>3, <1>4

LEMMA RampOnAir == ASSUME QueueInv, AirInv, NEW r \in ramps, RampTick(r) PROVE AirInv'
<1>1. r.bay = A /\ tasks \in Seq(Task) /\ UNCHANGED <<toOutput, program, previous, strayed>>
  BY Settled DEF QueueInv, QueueTypeOK, RampTick, history
<1>2. CASE UNCHANGED <<active, tasks>>
  BY <1>1, <1>2, AirUntouched
<1>3. CASE ~RampIsStale(r) /\ Bottom(r)
  <2>1. StartNext(A, queue[A], pos[A], gen[A], toOutput'[A], tasks)
    BY <1>1, <1>3 DEF Bottom
  <2> QED
    <3>1. r = Ramp(A, "out", gen[A])
      BY <1>1, <1>3 DEF RampIsStale, Bottom, Ramp, QueueInv, QueueTypeOK
    <3>2. active[A]
      BY <3>1, InProgress DEF Quiet, DipDown
    <3> QED
      BY <1>1, <2>1, <3>2, StartsOnAir DEF AirInv, OnAirOrStrayed
<1> QED
  BY <1>2, <1>3 DEF RampTick

-----------------------------------------------------------------------------
FlagOK == armedOnAir \in BOOLEAN

LEMMA NextFlag == ASSUME FlagOK, [DockNext]_allVars PROVE FlagOK'
<1> USE DEF FlagOK, ClearFreeReview, armedVars
<1>1. ASSUME NEW out \in BOOLEAN, Key(out) PROVE FlagOK'
  BY <1>1 DEF Key, PlayKey, PlayEventsKey, PlayPauseKey, AngleKey, PlayHotkey, ReplayCurrent, PlayFree
<1>2. CASE \E place \in Places : Scrub(place)
  BY <1>2 DEF Scrub
<1>3. CASE Tick
  BY <1>3 DEF Tick
<1>4. CASE UNCHANGED allVars
  BY <1>4 DEF allVars, dockVars
<1> QED
  BY <1>1, <1>2, <1>3, <1>4
  DEF DockNext, Beneath, Cue, Step, StopKey, NowKey, NowHotkey, NewProject, Reselect, Rec, StopRec,
      StillEnds

LEMMA NextOnAir == ASSUME Inv, AirInv, FlagOK, [DockNext]_allVars PROVE AirInv'
<1> USE DEF Inv
<1>1. ASSUME NEW place, NEW o \in BOOLEAN, PlayFree(place, o) PROVE AirInv'
  BY <1>1, StopThenPlayOnAir DEF PlayFree
<1>2. ASSUME NEW q, NEW o \in BOOLEAN, PlayQueue(q, o) PROVE AirInv'
  BY <1>2, PlayOnAir DEF PlayQueue
<1>3. CASE Refused
  BY <1>3, AirUntouched DEF Refused, PlayRefused, obsVars
<1>4. ASSUME NEW out \in BOOLEAN, Key(out) PROVE AirInv'
  <2>1. CASE armed # None /\ PlayFree(armed, armedOnAir)
    <3>1. PICK q \in Reviews(armed) : StopThenPlay(q, armedOnAir)
      BY <2>1 DEF PlayFree
    <3> QED
      BY <3>1, StopThenPlayOnAir DEF FlagOK
  <2> QED
    BY <1>1, <1>2, <1>3, <1>4, <2>1
    DEF Key, PlayKey, PlayEventsKey, PlayPauseKey, AngleKey, PlayHotkey, ReplayCurrent, PlayNothing
<1>5. ASSUME NEW place, Scrub(place) PROVE AirInv'
  BY <1>5, StopThenPlayOnAir DEF Scrub
<1>6. CASE Step \/ StopKey \/ NowKey \/ NowHotkey \/ NewProject
  BY <1>6, StopOnAir DEF Step, StopKey, NowKey, NowHotkey, NewProject, BackToLive
<1>7. CASE (\E e \in Events : Cue(e)) \/ Rec \/ StopRec \/ Reselect \/ Tick \/ StillEnds
           \/ UNCHANGED allVars
  <2>1. UNCHANGED <<active, toOutput, tasks, program, previous, strayed>>
    BY <1>7 DEF Cue, Rec, StopRec, Reselect, Tick, StillEnds, allVars, vars, bayVars, obsVars, history
  <2> QED
    BY <2>1, AirUntouched
<1>8. CASE ToggleLoop(A)
  BY <1>8, AirUntouched DEF ToggleLoop, obsVars
<1> QED
  BY <1>4, <1>5, <1>6, <1>7, <1>8, SkipOnAir, EndOnAir, FinishedOnAir, SceneOnAir, RampOnAir
  DEF DockNext, Beneath, UiTask

LEMMA InitOnAir == DockInit => AirInv
  BY OneBay
  DEF DockInit, Init, AirInv, BoundForReplay, Scenes, Replay, Home, Nowhere, A

\* For any events, stretches and bounds: once everything posted has run and nothing is on
\* air, program is off the replay scene (switchSceneTask() pairs every switch with a restore).
THEOREM ComesBack == DockSpec => []ProgramComesBack
<1>1. /\ FlagOK /\ [DockNext]_allVars => FlagOK'
      /\ Inv /\ AirInv /\ FlagOK /\ [DockNext]_allVars => AirInv'
  BY NextFlag, NextOnAir
<1>2. AirInv => ProgramComesBack
  <2> SUFFICES ASSUME AirInv, tasks = <<>>, ~(active[A] /\ toOutput[A]), ~strayed[A]
               PROVE  program = Home
    BY OneBay DEF ProgramComesBack, A
  <2>1. Scenes(tasks) = {}
    BY DEF Scenes
  <2> QED
    BY <2>1 DEF AirInv, BoundForReplay, OnAirOrStrayed
<1> QED
  <2>1. DockInit => FlagOK
    BY DEF DockInit, FlagOK
  <2> QED
    BY <1>1, <1>2, <2>1, InitOnAir, InvHolds, PTL DEF DockSpec

-----------------------------------------------------------------------------
(* The dips' light.                                                        *)

\* A bay that a dip holds dark has a timer that will light it: the tick of a dip's timer
\* does so when it finds its queue gone, or when the second half of the dip is over.
DarkOnlyInADip == \A b \in Bays : dark[b] => \E r \in ramps : r.bay = b

Lit == dark \in [{A} -> BOOLEAN] /\ DarkOnlyInADip

LEMMA LitStays ==
    ASSUME Lit, ramps \subseteq ramps', dark' = dark \/ dark' = [dark EXCEPT ![A] = FALSE]
    PROVE  Lit'
BY OneBay DEF Lit, DarkOnlyInADip, A

LEMMA RampLit == ASSUME QueueInv, Lit, NEW r \in ramps, RampTick(r) PROVE Lit'
<1>1. r.bay = A
  BY DEF QueueInv, QueueTypeOK
<1>2. CASE Light(A)
  BY <1>2, OneBay DEF Light, Lit, DarkOnlyInADip, A
<1>3. CASE Darken(A) /\ ramps' = ramps
  BY <1>1, <1>3, OneBay DEF Darken, Lit, DarkOnlyInADip, A
<1>4. CASE Bottom(r)
  <2>1. Darken(A) /\ Ramp(A, "in", r.gen) \in ramps'
    BY <1>1, <1>4 DEF Bottom
  <2>2. Ramp(A, "in", r.gen).bay = A
    BY DEF Ramp
  <2> QED
    BY <2>1, <2>2, OneBay DEF Darken, Lit, DarkOnlyInADip, A
<1> QED
  BY <1>1, <1>2, <1>3, <1>4 DEF RampTick

LEMMA NextLit == ASSUME QueueInv, Lit, [DockNext]_allVars PROVE Lit'
<1>1. ASSUME NEW out \in BOOLEAN, Key(out) PROVE Lit'
  <2>1. ramps' = ramps /\ (dark' = dark \/ dark' = [dark EXCEPT ![A] = FALSE])
    BY <1>1 DEF Key, PlayKey, PlayEventsKey, PlayPauseKey, AngleKey, PlayHotkey, ReplayCurrent, PlayFree,
                PlayQueue, Play, PlayNothing, Refused, PlayRefused, StopThenPlay, dipVars
  <2> QED
    BY <2>1, LitStays
<1>2. CASE \E place \in Places : Scrub(place)
  BY <1>2, LitStays DEF Scrub, StopThenPlay
<1>3. CASE Step \/ StopKey \/ NowKey \/ NowHotkey \/ NewProject
  BY <1>3, LitStays DEF Step, StopKey, NowKey, NowHotkey, NewProject, BackToLive, Stop
<1>4. CASE (\E e \in Events : Cue(e)) \/ Rec \/ StopRec \/ Reselect \/ Tick \/ StillEnds
           \/ UNCHANGED allVars
  BY <1>4, LitStays DEF Cue, Rec, StopRec, Reselect, Tick, StillEnds, allVars, vars, dipVars
<1>5. CASE Skip(A) \/ ToggleLoop(A) \/ ClipEnds(A) \/ UiTask
  <2>1. ramps \subseteq ramps' /\ dark' = dark
    BY <1>5 DEF Skip, ToggleLoop, ClipEnds, UiTask, RunFinished, RunSwitch, RunRestore, Advance, dipVars
  <2> QED
    BY <2>1, LitStays
<1> QED
  BY <1>1, <1>2, <1>3, <1>4, <1>5, RampLit DEF DockNext, Beneath

\* However a dip is overtaken by a stop, a skip, another queue or another dip, the bay's input is
\* below full opacity only while a timer runs that brings it back (the safety half of DipEnds).
THEOREM NeverLeftDark == DockSpec => []DarkOnlyInADip
<1>1. DockInit => Lit
  BY OneBay DEF DockInit, Init, Lit, DarkOnlyInADip, A
<1>2. Lit => DarkOnlyInADip
  BY DEF Lit
<1>3. Inv => QueueInv
  BY DEF Inv
<1> QED
  BY <1>1, <1>2, <1>3, NextLit, InvHolds, PTL DEF DockSpec

-----------------------------------------------------------------------------
(* The pictures of a run: finite sets of instants.                         *)

\* A finite set of integers has a greatest one.
LEMMA Greatest ==
    ASSUME NEW S \in SUBSET Int, IsFiniteSet(S), S # {}
    PROVE  Max(S) \in S /\ \A y \in S : Max(S) >= y
<1> DEFINE Bad == {T \in FiniteSubsetsOf(S) : T # {} /\ ~\E x \in T : \A y \in T : x >= y}
<1>1. CASE Bad # {}
  <2>1. Bad \subseteq FiniteSubsetsOf(S)
    OBVIOUS
  <2>2. IsWellFoundedOn(StrictSubsetOrdering(S), FiniteSubsetsOf(S))
    BY FS_StrictSubsetOrderingWellFounded
  <2>3. PICK T \in Bad : \A U \in Bad : ~(<<U, T>> \in StrictSubsetOrdering(S))
    <3> HIDE DEF Bad
    <3> QED
      BY <1>1, <2>1, <2>2, WFMin
  <2>4. T \in SUBSET S /\ IsFiniteSet(T) /\ T # {}
    BY DEF FiniteSubsetsOf
  <2>5. PICK t \in T : TRUE
    BY <2>4
  <2> DEFINE U == T \ {t}
  <2>6. U \in SUBSET S /\ IsFiniteSet(U) /\ U # T
    BY <2>4, <2>5, FS_RemoveElement
  <2>7. <<U, T>> \in StrictSubsetOrdering(S)
    BY <2>4, <2>6 DEF StrictSubsetOrdering
  <2>8. U = {} \/ \E x \in U : \A y \in U : x >= y
    BY <2>3, <2>6, <2>7 DEF FiniteSubsetsOf
  <2>9. \E x \in T : \A y \in T : x >= y
    <3>1. CASE U = {}
      BY <3>1, <2>4, <2>5
    <3>2. CASE \E x \in U : \A y \in U : x >= y
      <4>1. PICK x \in U : \A y \in U : x >= y
        BY <3>2
      <4>2. x \in Int /\ t \in Int
        BY <2>4, <2>5
      <4>3. CASE x >= t
        BY <4>1, <4>3
      <4>4. CASE t >= x
        <5>1. \A y \in U : y \in Int /\ t >= y
          BY <2>6, <4>1, <4>2, <4>4
        <5> QED
          BY <4>2, <5>1
      <4> QED
        BY <4>2, <4>3, <4>4
    <3> QED
      BY <2>8, <3>1, <3>2
  <2> QED
    BY <2>9
<1>2. CASE Bad = {}
  <2>1. S \in FiniteSubsetsOf(S)
    BY DEF FiniteSubsetsOf
  <2>2. \E x \in S : \A y \in S : x >= y
    BY <1>2, <2>1
  <2> QED
    BY <2>2 DEF Max
<1> QED
  BY <1>1, <1>2

LEMMA ImageIsFinite ==
    ASSUME NEW S, IsFiniteSet(S), NEW f
    PROVE  IsFiniteSet({f[x] : x \in S})
<1> DEFINE T == {f[x] : x \in S}
           g == [x \in S |-> f[x]]
<1>1. g \in Surjection(S, T)
  BY DEF Surjection
<1> QED
  BY <1>1, FS_Surjection

LEMMA Least ==
    ASSUME NEW S \in SUBSET Int, IsFiniteSet(S), S # {}
    PROVE  Min(S) \in S /\ \A y \in S : Min(S) <= y
<1> DEFINE f == [x \in Int |-> 0 - x]
           T == {f[x] : x \in S}
<1>1. \A x \in S : f[x] = 0 - x /\ f[x] \in Int /\ f[x] \in T /\ x \in Int
  OBVIOUS
<1>2. IsFiniteSet(T)
  <2> HIDE DEF f
  <2>1. IsFiniteSet({f[x] : x \in S})
    BY ImageIsFinite
  <2> QED
    BY <2>1
<1>3. T \in SUBSET Int /\ T # {}
  BY <1>1
<1> HIDE DEF T
<1>4. Max(T) \in T /\ \A y \in T : Max(T) >= y
  BY <1>2, <1>3, Greatest
<1>5. PICK x \in S : Max(T) = f[x]
  BY <1>4 DEF T
<1>6. \A y \in S : x <= y
  <2> SUFFICES ASSUME NEW y \in S PROVE x <= y
    OBVIOUS
  <2>1. 0 - x >= 0 - y /\ x \in Int /\ y \in Int
    BY <1>1, <1>4, <1>5
  <2> QED
    BY <2>1
<1>7. \E z \in S : \A y \in S : z <= y
  BY <1>6
<1> QED
  BY <1>7 DEF Min

-----------------------------------------------------------------------------
(* The plan of a run backwards.                                            *)

Video == {j \in DOMAIN span : span[j].kind = "video"}

\* What Playable says of the clip of a run.
LEMMA SpanFacts ==
    ASSUME span \in Clips
    PROVE  /\ Len(span) \in Nat /\ DOMAIN span = 1..Len(span)
           /\ \A j \in DOMAIN span : span[j].at \in Int
           /\ Keyframes \subseteq Video
           /\ \A j \in Video : \E k \in Keyframes : k <= j
           /\ \A i, j \in Video : span[i].at = span[j].at => i = j
           /\ \A i, j \in DOMAIN span :
                span[i].kind = span[j].kind /\ span[i].at = span[j].at => i = j
           /\ \A k \in Keyframes : \A i, j \in Video : i < k /\ k <= j => span[i].at < span[j].at
<1>1. Playable(span)
  BY ClipsAssumption
<1>2. span \in Seq(Packet)
  BY <1>1 DEF Playable
<1>3. Len(span) \in Nat /\ DOMAIN span = 1..Len(span) /\ \A j \in DOMAIN span : span[j] \in Packet
  BY <1>2
<1>4. \A j \in DOMAIN span : span[j].at \in Int
  BY <1>3 DEF Packet
<1>5. Keyframes = {k \in Video : span[k].key}
  BY <1>1 DEF Playable, Keyframes, Video
<1> QED
  BY <1>1, <1>3, <1>4, <1>5 DEF Playable, Video

LEMMA InstantsAre ==
    ASSUME span \in Clips, NEW J \in SUBSET DOMAIN span
    PROVE  Instants(J) \in SUBSET Int /\ IsFiniteSet(Instants(J))
<1> DEFINE K == {j \in J : span[j].kind = "video"}
           f == [j \in DOMAIN span |-> span[j].at]
<1>1. DOMAIN span = 1..Len(span) /\ Len(span) \in Int /\ 1 \in Int /\ \A j \in DOMAIN span : span[j].at \in Int
  BY SpanFacts
<1>2. IsFiniteSet(1..Len(span))
  BY <1>1, FS_Interval
<1>3. K \in SUBSET (1..Len(span))
  BY <1>1
<1>4. IsFiniteSet(K)
  BY <1>2, <1>3, FS_Subset
<1>5. Instants(J) = {f[j] : j \in K}
  BY DEF Instants
<1>6. IsFiniteSet({f[j] : j \in K})
  <2> HIDE DEF f, K
  <2> QED
    BY <1>4, ImageIsFinite
<1> QED
  BY <1>1, <1>5, <1>6 DEF Instants

LEMMA WantedAre ==
    ASSUME span \in Clips, NEW i
    PROVE  /\ Wanted(i) \in SUBSET Int /\ IsFiniteSet(Wanted(i))
           /\ Instants(Gop(i)) \in SUBSET Int /\ Wanted(i) \subseteq Instants(Gop(i))
<1>1. Gop(i) \in SUBSET DOMAIN span
  BY DEF Gop
<1>2. Instants(Gop(i)) \in SUBSET Int /\ IsFiniteSet(Instants(Gop(i)))
  BY <1>1, InstantsAre
<1>3. Wanted(i) \in SUBSET Instants(Gop(i))
  BY DEF Wanted
<1>4. IsFiniteSet(Wanted(i))
  BY <1>2, <1>3, FS_Subset
<1> QED
  BY <1>2, <1>3, <1>4

LEMMA DivGrows == ASSUME NEW a \in Nat, NEW b \in Nat, a <= b
                  PROVE  a \div PerPass \in Nat /\ a \div PerPass <= b \div PerPass
BY PerPassAssumption

\* The later a picture, the earlier its slice.
LEMMA SlicesGo ==
    ASSUME span \in Clips, NEW i, NEW x \in Wanted(i), NEW y \in Wanted(i), x <= y
    PROVE  SliceOf(i, y) \in Nat /\ SliceOf(i, x) \in Nat /\ SliceOf(i, y) <= SliceOf(i, x)
<1> DEFINE Above(m) == {z \in Wanted(i) : z > m}
<1>1. Wanted(i) \in SUBSET Int /\ IsFiniteSet(Wanted(i))
  BY WantedAre
<1>2. Above(x) \in SUBSET Wanted(i) /\ Above(y) \in SUBSET Above(x)
  BY <1>1
<1>3. IsFiniteSet(Above(x))
  BY <1>1, <1>2, FS_Subset
<1>4. Cardinality(Above(y)) <= Cardinality(Above(x)) /\ IsFiniteSet(Above(y))
  BY <1>2, <1>3, FS_Subset
<1>5. Cardinality(Above(y)) \in Nat /\ Cardinality(Above(x)) \in Nat
  BY <1>3, <1>4, FS_CardinalityType
<1>6. SliceOf(i, x) = Cardinality(Above(x)) \div PerPass /\ SliceOf(i, y) = Cardinality(Above(y)) \div PerPass
  BY DEF SliceOf
<1> HIDE DEF Above
<1>7. Cardinality(Above(y)) \div PerPass <= Cardinality(Above(x)) \div PerPass
      /\ Cardinality(Above(y)) \div PerPass \in Nat
  BY <1>4, <1>5, DivGrows
<1>8. Cardinality(Above(x)) \div PerPass \in Nat
  BY <1>5, DivGrows
<1> QED
  BY <1>6, <1>7, <1>8

SliceWith(i, m) == {x \in Wanted(i) : SliceOf(i, x) = SliceOf(i, m)}

\* A pass keeps one slice, whole.
LEMMA PassKeeps ==
    ASSUME span \in Clips, lo \in Int, hi \in Int, NEW i, NEW m \in Wanted(i)
    PROVE  LET p == PassOf(i, m)
           IN  /\ p.gop = i /\ p.from \in SliceWith(i, m) /\ p.to \in SliceWith(i, m)
               /\ \A x \in SliceWith(i, m) : p.from <= x /\ x <= p.to
               /\ Kept(p) = SliceWith(i, m)
<1> DEFINE p == PassOf(i, m)
           S == SliceWith(i, m)
<1>1. Wanted(i) \in SUBSET Int /\ IsFiniteSet(Wanted(i)) /\ Instants(Gop(i)) \in SUBSET Int
      /\ Wanted(i) \subseteq Instants(Gop(i))
  BY WantedAre
<1>2. S \in SUBSET Wanted(i) /\ m \in S
  BY DEF SliceWith
<1>3. IsFiniteSet(S)
  BY <1>1, <1>2, FS_Subset
<1>4. S \in SUBSET Int /\ S # {}
  BY <1>1, <1>2
<1>5. p = [gop |-> i, from |-> Min(S), to |-> Max(S)]
  BY DEF PassOf, SliceWith
<1> HIDE DEF S, p
<1>6. Min(S) \in S /\ \A x \in S : Min(S) <= x
  BY <1>3, <1>4, Least
<1>7. Max(S) \in S /\ \A x \in S : Max(S) >= x
  BY <1>3, <1>4, Greatest
<1>8. p.gop = i /\ p.from = Min(S) /\ p.to = Max(S)
  BY <1>5
<1>9. \A x \in S : p.from <= x /\ x <= p.to
  BY <1>4, <1>6, <1>7, <1>8
<1>10. Kept(p) \subseteq S
  <2> SUFFICES ASSUME NEW x \in Instants(Gop(i)), p.from <= x, x <= p.to PROVE x \in S
    BY <1>8 DEF Kept
  <2>1. p.from \in Wanted(i) /\ p.to \in Wanted(i) /\ p.from \in S /\ p.to \in S
    BY <1>2, <1>6, <1>7, <1>8
  <2>2. x \in Int /\ p.from \in Int /\ p.to \in Int
    BY <1>1, <2>1
  <2>3. lo <= p.from /\ p.to <= hi
    BY <2>1 DEF Wanted
  <2>4. lo <= x /\ x <= hi
    BY <2>2, <2>3
  <2>5. x \in Wanted(i)
    BY <2>4 DEF Wanted
  <2>6. SliceOf(i, p.from) = SliceOf(i, m) /\ SliceOf(i, p.to) = SliceOf(i, m)
    BY <2>1 DEF S, SliceWith
  <2>7. SliceOf(i, p.to) <= SliceOf(i, x) /\ SliceOf(i, x) <= SliceOf(i, p.from)
        /\ SliceOf(i, x) \in Nat /\ SliceOf(i, p.from) \in Nat
    BY <2>1, <2>5, SlicesGo
  <2>8. SliceOf(i, x) = SliceOf(i, m)
    BY <2>6, <2>7
  <2> QED
    BY <2>5, <2>8 DEF S, SliceWith
<1>11. S \subseteq Kept(p)
  BY <1>1, <1>2, <1>8, <1>9 DEF Kept
<1> QED
  BY <1>6, <1>7, <1>8, <1>9, <1>10, <1>11 DEF p, S

SpanGiven == span \in Clips /\ lo \in Int /\ hi \in Int

\* A pass is named by its GOP and its oldest picture, and keeps one slice.
LEMMA PassIs ==
    ASSUME SpanGiven, NEW p \in Passes
    PROVE  /\ p.gop \in Keyframes /\ p.gop \in Int /\ p.from \in Int /\ p.from \in Wanted(p.gop)
           /\ p = PassOf(p.gop, p.from) /\ p.from \in Kept(p)
           /\ Kept(p) = SliceWith(p.gop, p.from) /\ Kept(p) \subseteq Wanted(p.gop)
           /\ \A x \in Kept(p) : p.from <= x
<1>0. PICK i \in Keyframes : \E m \in Wanted(i) : p = PassOf(i, m)
  BY DEF Passes
<1>1. PICK m \in Wanted(i) : p = PassOf(i, m)
  BY <1>0
<1>2. /\ p.gop = i /\ p.from \in SliceWith(i, m) /\ Kept(p) = SliceWith(i, m)
      /\ \A x \in SliceWith(i, m) : p.from <= x
  BY <1>1, PassKeeps DEF SpanGiven
<1>3. p.from \in Wanted(i) /\ SliceOf(i, p.from) = SliceOf(i, m)
  BY <1>2 DEF SliceWith
<1>4. SliceWith(i, p.from) = SliceWith(i, m)
  BY <1>3 DEF SliceWith
<1>5. PassOf(i, p.from) = p
  BY <1>1, <1>3 DEF PassOf
<1>6. i \in Int /\ p.from \in Int
  BY <1>3, WantedAre, SpanFacts DEF SpanGiven, Video
<1> QED
  BY <1>1, <1>2, <1>3, <1>4, <1>5, <1>6 DEF SliceWith

\* Sooner orders the passes.
LEMMA OneIsSooner ==
    ASSUME SpanGiven, NEW p \in Passes, NEW q \in Passes
    PROVE  /\ ~Sooner(p, p)
           /\ p # q => Sooner(p, q) \/ Sooner(q, p)
           /\ \A r \in Passes : Sooner(p, q) /\ Sooner(q, r) => Sooner(p, r)
<1>1. \A r \in Passes : r.gop \in Int /\ r.from \in Int /\ r = PassOf(r.gop, r.from)
  BY PassIs
<1>2. p.gop = q.gop /\ p.from = q.from => p = q
  BY <1>1
<1>3. p # q => Sooner(p, q) \/ Sooner(q, p)
  BY <1>1, <1>2 DEF Sooner
<1>4. \A r \in Passes : Sooner(p, q) /\ Sooner(q, r) => Sooner(p, r)
  BY <1>1 DEF Sooner
<1>5. ~Sooner(p, p)
  BY <1>1 DEF Sooner
<1> QED
  BY <1>3, <1>4, <1>5

\* What a pass keeps is newer than what any later pass keeps.
LEMMA SoonerIsNewer ==
    ASSUME SpanGiven, NEW p \in Passes, NEW q \in Passes, Sooner(p, q)
    PROVE  \A x \in Kept(p), y \in Kept(q) : x > y
<1> SUFFICES ASSUME NEW x \in Kept(p), NEW y \in Kept(q) PROVE x > y
  OBVIOUS
<1>1. /\ p.gop \in Keyframes /\ q.gop \in Keyframes /\ p.gop \in Int /\ q.gop \in Int
      /\ p.from \in Int /\ q.from \in Int
      /\ x \in Wanted(p.gop) /\ y \in Wanted(q.gop)
  BY PassIs
<1>2. x \in Int /\ y \in Int
  BY <1>1, WantedAre DEF SpanGiven
<1>3. CASE p.gop > q.gop
  <2>1. PICK a \in Gop(p.gop) : span[a].kind = "video" /\ x = span[a].at
    BY <1>1 DEF Wanted, Instants
  <2>2. PICK b \in Gop(q.gop) : span[b].kind = "video" /\ y = span[b].at
    BY <1>1 DEF Wanted, Instants
  <2>3. a \in Video /\ b \in Video /\ a \in Int /\ b \in Int /\ p.gop <= a
    BY <2>1, <2>2, <1>1, SpanFacts DEF Gop, Video, SpanGiven
  <2>4. b < p.gop
    BY <1>1, <1>3, <2>2 DEF Gop
  <2>5. span[b].at < span[a].at
    BY <1>1, <2>3, <2>4, SpanFacts DEF SpanGiven
  <2> QED
    BY <1>2, <2>1, <2>2, <2>5
<1>4. CASE p.gop = q.gop /\ p.from > q.from
  <2> DEFINE i == p.gop
  <2>1. x \in Wanted(i) /\ y \in Wanted(i) /\ p.from \in Wanted(i) /\ q.from \in Wanted(i)
    BY <1>1, <1>4, PassIs
  <2>2. SliceOf(i, x) = SliceOf(i, p.from) /\ SliceOf(i, y) = SliceOf(i, q.from)
    BY <1>4, PassIs DEF SliceWith
  <2>3. SliceOf(i, p.from) <= SliceOf(i, q.from) /\ SliceOf(i, p.from) \in Nat /\ SliceOf(i, q.from) \in Nat
    BY <1>1, <1>4, <2>1, SlicesGo DEF SpanGiven
  <2>4. SliceOf(i, p.from) # SliceOf(i, q.from)
    <3> SUFFICES ASSUME SliceOf(i, p.from) = SliceOf(i, q.from) PROVE FALSE
      OBVIOUS
    <3>1. p.from \in SliceWith(q.gop, q.from) /\ q.from \in SliceWith(p.gop, p.from)
      BY <1>4, <2>1 DEF SliceWith
    <3>2. p.from \in Kept(q) /\ q.from \in Kept(p)
      BY <3>1, PassIs
    <3>3. p.from <= q.from
      BY <3>2, PassIs
    <3> QED
      BY <1>1, <1>4, <3>3
  <2>5. x <= y => SliceOf(i, y) <= SliceOf(i, x)
    BY <2>1, SlicesGo DEF SpanGiven
  <2> QED
    BY <1>2, <2>2, <2>3, <2>4, <2>5
<1> QED
  BY <1>3, <1>4 DEF Sooner

LEMMA PassesAreFinite == ASSUME SpanGiven PROVE IsFiniteSet(Passes)
<1> DEFINE I == Instants(DOMAIN span)
           Z == {z \in Keyframes \X I : z[2] \in Wanted(z[1])}
           f == [z \in Keyframes \X I |-> PassOf(z[1], z[2])]
<1>1. IsFiniteSet(I)
  BY InstantsAre DEF SpanGiven
<1>2. IsFiniteSet(Keyframes)
  <2>1. Len(span) \in Int /\ 1 \in Int /\ DOMAIN span = 1..Len(span)
    BY SpanFacts DEF SpanGiven
  <2>2. IsFiniteSet(1..Len(span))
    BY <2>1, FS_Interval
  <2>3. Keyframes \in SUBSET (1..Len(span))
    BY <2>1 DEF Keyframes
  <2> QED
    BY <2>2, <2>3, FS_Subset
<1>3. IsFiniteSet(Keyframes \X I)
  BY <1>1, <1>2, FS_Product
<1>4. Z \in SUBSET (Keyframes \X I)
  OBVIOUS
<1>5. IsFiniteSet(Z)
  BY <1>3, <1>4, FS_Subset
<1>6. \A i \in Keyframes : Wanted(i) \subseteq I
  BY DEF Wanted, Instants, Gop
<1>7. Passes = {f[z] : z \in Z}
  <2>1. Passes \subseteq {f[z] : z \in Z}
    <3> SUFFICES ASSUME NEW i \in Keyframes, NEW m \in Wanted(i)
                 PROVE  PassOf(i, m) \in {f[z] : z \in Z}
      BY DEF Passes
    <3>1. <<i, m>> \in Z
      BY <1>6
    <3>2. f[<<i, m>>] = PassOf(i, m)
      BY <1>6
    <3> QED
      BY <3>1, <3>2
  <2>2. {f[z] : z \in Z} \subseteq Passes
    <3> SUFFICES ASSUME NEW z \in Z PROVE f[z] \in Passes
      OBVIOUS
    <3>1. z[1] \in Keyframes /\ z[2] \in Wanted(z[1]) /\ f[z] = PassOf(z[1], z[2])
      OBVIOUS
    <3> HIDE DEF f, Z
    <3> QED
      BY <3>1 DEF Passes
  <2> QED
    BY <2>1, <2>2
<1>8. IsFiniteSet({f[z] : z \in Z})
  <2> HIDE DEF f, Z
  <2> QED
    BY <1>5, ImageIsFinite
<1> QED
  BY <1>7, <1>8

Rank(p) == Cardinality({q \in Passes : Sooner(q, p)})

\* As many passes come before one as its place in the plan says.
LEMMA Ranks ==
    ASSUME SpanGiven
    PROVE  /\ Cardinality(Passes) \in Nat
           /\ \A p \in Passes : Rank(p) \in 0..(Cardinality(Passes) - 1)
           /\ \A p, q \in Passes : Sooner(p, q) => Rank(p) < Rank(q)
           /\ \A p, q \in Passes : Rank(p) = Rank(q) => p = q
           /\ \A n \in 1..Cardinality(Passes) : \E p \in Passes : Rank(p) = n - 1
<1> DEFINE N == Cardinality(Passes)
           Ahead(p) == {q \in Passes : Sooner(q, p)}
<1>1. IsFiniteSet(Passes) /\ N \in Nat
  BY PassesAreFinite, FS_CardinalityType
<1>2. \A p \in Passes : IsFiniteSet(Ahead(p)) /\ Rank(p) \in Nat /\ Rank(p) < N
  <2> SUFFICES ASSUME NEW p \in Passes PROVE IsFiniteSet(Ahead(p)) /\ Rank(p) \in Nat /\ Rank(p) < N
    OBVIOUS
  <2>1. Ahead(p) \in SUBSET Passes /\ Passes # Ahead(p)
    BY OneIsSooner
  <2> HIDE DEF Ahead
  <2>2. IsFiniteSet(Ahead(p)) /\ Cardinality(Ahead(p)) <= N /\ Cardinality(Ahead(p)) # N
    BY <1>1, <2>1, FS_Subset
  <2>3. Cardinality(Ahead(p)) \in Nat
    BY <2>2, FS_CardinalityType
  <2>4. Rank(p) = Cardinality(Ahead(p))
    BY DEF Rank, Ahead
  <2> QED
    BY <1>1, <2>2, <2>3, <2>4
<1>3. \A p, q \in Passes : Sooner(p, q) => Rank(p) < Rank(q)
  <2> SUFFICES ASSUME NEW p \in Passes, NEW q \in Passes, Sooner(p, q) PROVE Rank(p) < Rank(q)
    OBVIOUS
  <2>1. Ahead(p) \in SUBSET Ahead(q) /\ Ahead(q) # Ahead(p)
    BY OneIsSooner
  <2>2. Rank(p) = Cardinality(Ahead(p)) /\ Rank(q) = Cardinality(Ahead(q)) /\ Rank(p) \in Nat /\ Rank(q) \in Nat
    BY <1>2 DEF Rank
  <2>3. IsFiniteSet(Ahead(q))
    BY <1>2
  <2> HIDE DEF Ahead
  <2>4. Cardinality(Ahead(p)) <= Cardinality(Ahead(q)) /\ Cardinality(Ahead(p)) # Cardinality(Ahead(q))
    BY <2>1, <2>3, FS_Subset
  <2> QED
    BY <2>2, <2>4
<1>4. \A p, q \in Passes : Rank(p) = Rank(q) => p = q
  <2> SUFFICES ASSUME NEW p \in Passes, NEW q \in Passes, p # q PROVE Rank(p) # Rank(q)
    OBVIOUS
  <2>1. Rank(p) \in Nat /\ Rank(q) \in Nat
    BY <1>2
  <2>2. Rank(p) < Rank(q) \/ Rank(q) < Rank(p)
    BY <1>3, OneIsSooner
  <2> QED
    BY <2>1, <2>2
<1>5. \A p \in Passes : Rank(p) \in 0..(N - 1)
  <2> SUFFICES ASSUME NEW p \in Passes PROVE Rank(p) \in 0..(N - 1)
    OBVIOUS
  <2>1. Rank(p) \in Nat /\ Rank(p) < N
    BY <1>2
  <2> HIDE DEF N
  <2> QED
    BY <1>1, <2>1
<1>6. \A n \in 1..N : \E p \in Passes : Rank(p) = n - 1
  <2> DEFINE f == [p \in Passes |-> Rank(p)]
  <2>0. \A p \in Passes : Rank(p) \in 0..(N - 1)
    BY <1>5
  <2>1. f \in Injection(Passes, 0..(N - 1))
    <3>1. f \in [Passes -> 0..(N - 1)]
      BY <2>0
    <3> QED
      BY <1>4, <3>1 DEF Injection, IsInjective
  <2>2. 0 \in Int /\ N - 1 \in Int
    BY <1>1
  <2>3. IsFiniteSet(0..(N - 1)) /\ Cardinality(0..(N - 1)) = IF 0 > N - 1 THEN 0 ELSE (N - 1) - 0 + 1
    BY <2>2, FS_Interval
  <2>4. Cardinality(0..(N - 1)) = N
    BY <1>1, <2>3
  <2>5. f \in Surjection(Passes, 0..(N - 1))
    <3> HIDE DEF f
    <3> QED
      BY <2>1, <2>3, <2>4, FS_Injection
  <2> SUFFICES ASSUME NEW n \in 1..N PROVE \E p \in Passes : Rank(p) = n - 1
    OBVIOUS
  <2>6. n - 1 \in 0..(N - 1)
    BY <1>1
  <2>7. PICK p \in Passes : f[p] = n - 1
    BY <2>5, <2>6 DEF Surjection
  <2> QED
    BY <2>7
<1> HIDE DEF Ahead
<1> QED
  BY <1>1, <1>3, <1>4, <1>5, <1>6

\* Every picture belongs to a GOP.
LEMMA GopOf ==
    ASSUME SpanGiven, NEW j \in Video
    PROVE  \E k \in Keyframes : j \in Gop(k)
<1> DEFINE S == {k \in Keyframes : k <= j}
<1>1. /\ DOMAIN span = 1..Len(span) /\ Len(span) \in Int /\ 1 \in Int /\ Keyframes \subseteq DOMAIN span
      /\ j \in DOMAIN span /\ S # {}
  BY SpanFacts DEF SpanGiven, Video
<1>2. S \in SUBSET (1..Len(span)) /\ S \in SUBSET Int
  BY <1>1
<1>3. IsFiniteSet(S)
  <2> HIDE DEF S
  <2>1. IsFiniteSet(1..Len(span))
    BY <1>1, FS_Interval
  <2> QED
    BY <1>2, <2>1, FS_Subset
<1>4. Max(S) \in S /\ \A y \in S : Max(S) >= y
  <2> HIDE DEF S
  <2> QED
    BY <1>1, <1>2, <1>3, Greatest
<1>5. PICK k \in Keyframes : k <= j /\ \A y \in S : k >= y
  BY <1>4
<1>6. \A y \in Keyframes : y <= k \/ j < y
  BY <1>1, <1>5
<1>7. j \in Gop(k)
  BY <1>1, <1>5, <1>6 DEF Gop
<1> QED
  BY <1>7

\* What plan() promises: every pass keeps something of what was asked, passes come newest
\* first, and none is missing.
Schedule ==
    /\ Len(passes) \in Nat
    /\ \A k \in 1..Len(passes) : Kept(passes[k]) \subseteq Asked
    /\ \A j, k \in 1..Len(passes) : j < k =>
          \A x \in Kept(passes[j]), y \in Kept(passes[k]) : x > y
    /\ \A m \in Asked : \E k \in 1..Len(passes) : m \in Kept(passes[k])

LEMMA PlanIsSchedule == ASSUME SpanGiven, backwards, passes = Plan PROVE Schedule
<1> DEFINE N == Cardinality(Passes)
<1>1. N \in Nat
  BY Ranks
<1>2. DOMAIN passes = 1..N /\ \A n \in 1..N : passes[n] = CHOOSE p \in Passes : Rank(p) = n - 1
  BY DEF Plan, Rank
<1>3. \A n \in 1..N : passes[n] \in Passes /\ Rank(passes[n]) = n - 1
  <2> SUFFICES ASSUME NEW n \in 1..N PROVE passes[n] \in Passes /\ Rank(passes[n]) = n - 1
    OBVIOUS
  <2>1. \E p \in Passes : Rank(p) = n - 1
    BY Ranks
  <2> QED
    BY <1>2, <2>1
<1>7. Len(passes) = N
  <2>1. passes = [n \in 1..N |-> CHOOSE p \in Passes : Rank(p) = n - 1]
    BY DEF Plan, Rank
  <2> HIDE DEF N
  <2>2. passes \in [1..N -> Passes]
    BY <1>3, <2>1
  <2> QED
    BY <1>1, <2>2
<1> HIDE DEF N
<1>4. \A k \in 1..N : Kept(passes[k]) \subseteq Asked
  <2> SUFFICES ASSUME NEW k \in 1..N PROVE Kept(passes[k]) \subseteq Asked
    OBVIOUS
  <2>1. Kept(passes[k]) \subseteq Wanted(passes[k].gop)
    BY <1>3, PassIs
  <2>2. Wanted(passes[k].gop) \subseteq Asked
    BY DEF Wanted, Asked, Instants, Gop
  <2> QED
    BY <2>1, <2>2
<1>5. \A j, k \in 1..N : j < k => \A x \in Kept(passes[j]), y \in Kept(passes[k]) : x > y
  <2> SUFFICES ASSUME NEW j \in 1..N, NEW k \in 1..N, j < k
               PROVE  \A x \in Kept(passes[j]), y \in Kept(passes[k]) : x > y
    OBVIOUS
  <2> DEFINE p == passes[j]
             q == passes[k]
  <2>1. p \in Passes /\ q \in Passes /\ Rank(p) = j - 1 /\ Rank(q) = k - 1
    BY <1>3
  <2> HIDE DEF p, q
  <2>2. Rank(p) < Rank(q) /\ Rank(p) \in Int /\ Rank(q) \in Int
    BY <1>1, <2>1
  <2>3. p # q /\ ~Sooner(q, p)
    BY <2>1, <2>2, Ranks
  <2>4. Sooner(p, q)
    BY <2>1, <2>3, OneIsSooner
  <2>5. \A x \in Kept(p), y \in Kept(q) : x > y
    BY <2>1, <2>4, SoonerIsNewer
  <2> QED
    BY <2>5 DEF p, q
<1>6. \A m \in Asked : \E k \in 1..N : m \in Kept(passes[k])
  <2> SUFFICES ASSUME NEW m \in Asked PROVE \E k \in 1..N : m \in Kept(passes[k])
    OBVIOUS
  <2>1. PICK j \in Video : m = span[j].at
    BY DEF Asked, Instants, Video
  <2>2. PICK i \in Keyframes : j \in Gop(i)
    BY GopOf
  <2>3. m \in Wanted(i)
    BY <2>1, <2>2 DEF Wanted, Asked, Instants, Video
  <2> DEFINE p == PassOf(i, m)
  <2>4. p \in Passes
    BY <2>3 DEF Passes
  <2>5. m \in Kept(p)
    BY <2>3, PassKeeps DEF SliceWith, SpanGiven
  <2> HIDE DEF p
  <2>6. Rank(p) \in 0..(N - 1)
    BY <2>4, Ranks DEF N
  <2>7. Rank(p) + 1 \in 1..N /\ (Rank(p) + 1) - 1 = Rank(p)
    BY <1>1, <2>6
  <2>8. passes[Rank(p) + 1] = p
    BY <1>3, <2>4, <2>7, Ranks
  <2> QED
    BY <2>5, <2>7, <2>8
<1> QED
  BY <1>1, <1>4, <1>5, <1>6, <1>7 DEF Schedule

-----------------------------------------------------------------------------
(* Backwards: passes change hands in order.                                *)

GivenOK ==
    /\ SpanGiven /\ cap \in Nat /\ delay \in Delays /\ backwards \in BOOLEAN
    /\ backwards => Schedule

LEMMA GivenStays ==
    ASSUME UNCHANGED given
    PROVE  /\ Asked' = Asked /\ (\A k : Kept(passes[k])' = Kept(passes[k]))
           /\ (GivenOK => GivenOK')
<1>1. /\ span' = span /\ lo' = lo /\ hi' = hi /\ cap' = cap /\ delay' = delay
      /\ backwards' = backwards /\ passes' = passes
  BY DEF given
<1>2. Asked' = Asked
  BY <1>1 DEF Asked, Instants
<1>3. \A k : Kept(passes[k])' = Kept(passes[k])
  BY <1>1 DEF Kept, Instants, Gop, Keyframes
<1>4. Schedule => Schedule'
  BY <1>1, <1>2, <1>3 DEF Schedule
<1>5. SpanGiven => SpanGiven'
  BY <1>1 DEF SpanGiven
<1> QED
  BY <1>1, <1>2, <1>3, <1>4, <1>5 DEF GivenOK

Newer(S, T) == \A x \in S : \A y \in T : x > y

LEMMA Appended ==
    ASSUME NEW s \in Seq(Int), NEW x \in Int
    PROVE  /\ Append(s, x) \in Seq(Int) /\ ToSet(Append(s, x)) = ToSet(s) \cup {x}
           /\ Len(Append(s, x)) = Len(s) + 1 /\ Len(s) \in Nat
           /\ Len(s) > 0 => s[Len(s)] \in ToSet(s)
           /\ \A i \in 1..Len(s) : Append(s, x)[i] = s[i]
           /\ Append(s, x)[Len(s) + 1] = x
<1> DEFINE t == Append(s, x)
<1>1. t \in Seq(Int) /\ Len(t) = Len(s) + 1 /\ Len(s) \in Nat /\ DOMAIN s = 1..Len(s)
      /\ DOMAIN t = 1..(Len(s) + 1)
  OBVIOUS
<1>2. (\A i \in 1..Len(s) : t[i] = s[i]) /\ t[Len(s) + 1] = x
  OBVIOUS
<1> HIDE DEF t
<1>3. ToSet(t) \subseteq ToSet(s) \cup {x}
  BY <1>1, <1>2 DEF ToSet
<1>4. ToSet(s) \cup {x} \subseteq ToSet(t)
  BY <1>1, <1>2 DEF ToSet
<1>5. Len(s) > 0 => s[Len(s)] \in ToSet(s)
  BY <1>1 DEF ToSet
<1> QED
  BY <1>1, <1>2, <1>3, <1>4, <1>5 DEF t

Falling(s) == \A i \in 1..(Len(s) - 1) : s[i] > s[i + 1]
Rising(s) == \A i \in 1..(Len(s) - 1) : s[i] < s[i + 1]

LEMMA AppendGoesOn ==
    ASSUME NEW s \in Seq(Int), NEW x \in Int
    PROVE  /\ Falling(s) /\ Newer(ToSet(s), {x}) => Falling(Append(s, x))
           /\ Rising(s) /\ Newer({x}, ToSet(s)) => Rising(Append(s, x))
<1> DEFINE t == Append(s, x)
           n == Len(s)
<1>1. /\ n \in Nat /\ Len(t) = n + 1 /\ t[n + 1] = x /\ (n > 0 => s[n] \in ToSet(s))
      /\ \A i \in 1..n : t[i] = s[i]
  BY Appended
<1> HIDE DEF t, n
<1>2. \A i \in 1..(Len(t) - 1) : (i \in 1..(n - 1) /\ t[i] = s[i] /\ t[i + 1] = s[i + 1])
                                \/ (n > 0 /\ t[i] = s[n] /\ t[i + 1] = x)
  BY <1>1
<1>3. Falling(s) /\ Newer(ToSet(s), {x}) => Falling(t)
  BY <1>1, <1>2 DEF Falling, Newer, n
<1>4. Rising(s) /\ Newer({x}, ToSet(s)) => Rising(t)
  <2> SUFFICES ASSUME Rising(s), Newer({x}, ToSet(s)), NEW i \in 1..(Len(t) - 1) PROVE t[i] < t[i + 1]
    BY DEF Rising
  <2>1. CASE i \in 1..(n - 1) /\ t[i] = s[i] /\ t[i + 1] = s[i + 1]
    BY <2>1 DEF Rising, n
  <2>2. CASE n > 0 /\ t[i] = s[n] /\ t[i + 1] = x
    <3>1. s[n] \in ToSet(s) /\ x > s[n]
      BY <1>1, <2>2 DEF Newer
    <3>2. s[n] \in Int
      BY <1>1, <2>2 DEF n
    <3> QED
      BY <2>2, <3>1, <3>2
  <2> QED
    BY <1>2, <2>1, <2>2
<1> QED
  BY <1>3, <1>4 DEF t

Queue == IF ready = <<>> THEN {} ELSE ready[1]
InHand == showing \cup Queue \cup chunk
Decoded == {m \in Asked : \E k \in 1..pass : m \in Kept(passes[k])}

\* Where the thread is, how far the passes have come, and who holds what.
BackTyped ==
    /\ phase \in {"take", "show", "free", "join", "report", "done"}
    /\ pass \in 0..Len(passes) /\ shown \in Seq(Int)
    /\ ready = <<>> \/ ready = <<Queue>>
    /\ producer # "hand" => chunk = {}
    /\ phase = "take" => showing = {}
    /\ stopDecoding => phase \in {"join", "report", "done"}
    /\ cap > 0 => Len(shown) <= cap /\ (phase \in {"take", "show"} => Len(shown) < cap)

\* What has been shown is newer than what is being shown, that than the pass that waits,
\* that than the one being decoded, and all of it than what is still to be decoded.
BackOrder ==
    /\ ToSet(shown) \cup InHand \subseteq Decoded
    /\ Newer(ToSet(shown), InHand) /\ Newer(showing, Queue \cup chunk) /\ Newer(Queue, chunk)
    /\ Falling(shown)

\* Until the run is cut short nothing decoded is lost; a run that then says it completed
\* has shown it all.
BackWhole ==
    /\ phase \in {"take", "show"} /\ ~abort =>
          /\ Decoded \subseteq ToSet(shown) \cup InHand
          /\ producer = "done" /\ ~decodeFailed => pass = Len(passes)
    /\ phase = "free" /\ cap = 0 => ~completed
    /\ phase \in {"join", "report", "done"} /\ completed /\ cap = 0 => ToSet(shown) = Asked

Back == BackTyped /\ BackOrder /\ BackWhole

LEMMA AskedAre == ASSUME SpanGiven PROVE Asked \in SUBSET Int /\ IsFiniteSet(Asked)
<1> DEFINE I == Instants(DOMAIN span)
<1>1. I \in SUBSET Int /\ IsFiniteSet(I) /\ Asked \in SUBSET I
  BY InstantsAre DEF SpanGiven, Asked
<1>2. IsFiniteSet(Asked)
  <2> HIDE DEF I
  <2> QED
    BY <1>1, FS_Subset
<1> QED
  BY <1>1, <1>2

LEMMA BackStays ==
    ASSUME GivenOK, Back,
           UNCHANGED <<given, phase, shown, completed, showing, ready, chunk, pass, producer,
                       decodeFailed, stopDecoding>>,
           abort' = abort \/ abort' = TRUE
    PROVE  Back'
<1>1. /\ phase' = phase /\ shown' = shown /\ completed' = completed /\ showing' = showing
      /\ ready' = ready /\ chunk' = chunk /\ pass' = pass /\ producer' = producer
      /\ decodeFailed' = decodeFailed /\ stopDecoding' = stopDecoding
      /\ passes' = passes /\ cap' = cap
  BY DEF given
<1>2. Asked' = Asked /\ \A k : Kept(passes[k])' = Kept(passes[k])
  BY GivenStays
<1>3. Queue' = Queue /\ InHand' = InHand /\ Decoded' = Decoded
  BY <1>1, <1>2 DEF Queue, InHand, Decoded
<1>4. BackTyped'
  BY <1>1, <1>3 DEF Back, BackTyped
<1>5. BackOrder'
  BY <1>1, <1>3 DEF Back, BackOrder
<1>6. BackWhole'
  BY <1>1, <1>2, <1>3 DEF Back, BackWhole
<1> QED
  BY <1>4, <1>5, <1>6 DEF Back

LEMMA DecodePassBack == ASSUME GivenOK, Back, backwards, DecodePass PROVE Back'
<1> DEFINE K == Kept(passes[pass + 1])
<1>1. /\ phase' = phase /\ shown' = shown /\ completed' = completed /\ showing' = showing
      /\ ready' = ready /\ stopDecoding' = stopDecoding /\ abort' = abort
      /\ passes' = passes /\ cap' = cap /\ UNCHANGED given
      /\ producer = "decode" /\ ~abort /\ pass < Len(passes)
  BY DEF DecodePass, consumer, handoff, outside, given, Called
<1>2. Asked' = Asked /\ \A k : Kept(passes[k])' = Kept(passes[k])
  BY <1>1, GivenStays
<1>3. Queue' = Queue
  BY <1>1 DEF Queue
<1>4. pass \in Nat /\ Len(passes) \in Nat /\ pass <= Len(passes) /\ chunk = {}
  BY <1>1 DEF Back, BackTyped, GivenOK, Schedule
<1>5. CASE bad \in Gop(passes[pass + 1].gop)
  <2>1. producer' = "done" /\ decodeFailed' = TRUE /\ pass' = pass /\ chunk' = chunk
    BY <1>5 DEF DecodePass
  <2>2. InHand' = InHand /\ Decoded' = Decoded
    BY <1>1, <1>2, <1>3, <2>1 DEF InHand, Decoded
  <2>3. BackTyped'
    BY <1>1, <1>3, <1>4, <2>1 DEF Back, BackTyped
  <2>4. BackOrder'
    BY <1>1, <1>3, <2>1, <2>2 DEF Back, BackOrder
  <2>5. BackWhole'
    BY <1>1, <1>2, <2>1, <2>2 DEF Back, BackWhole
  <2> QED
    BY <2>3, <2>4, <2>5 DEF Back
<1>6. CASE bad \notin Gop(passes[pass + 1].gop)
  <2>1. producer' = "hand" /\ decodeFailed' = decodeFailed /\ pass' = pass + 1 /\ chunk' = K
    BY <1>6 DEF DecodePass
  <2>2. pass + 1 \in 1..Len(passes) /\ K \subseteq Asked
    BY <1>1, <1>4 DEF GivenOK, Schedule
  <2>3. Decoded' = Decoded \cup K
    <3>1. \A k : k \in 1..(pass + 1) <=> (k \in 1..pass \/ k = pass + 1)
      BY <1>4
    <3> QED
      BY <1>1, <1>2, <2>1, <2>2, <3>1 DEF Decoded
  <2>4. Newer(Decoded, K)
    <3> SUFFICES ASSUME NEW x \in Decoded, NEW y \in K PROVE x > y
      BY DEF Newer
    <3>1. PICK k \in 1..pass : x \in Kept(passes[k])
      BY DEF Decoded
    <3>2. k \in 1..Len(passes) /\ k < pass + 1
      BY <1>4
    <3> QED
      BY <2>2, <3>1, <3>2 DEF GivenOK, Schedule
  <2> HIDE DEF K
  <2>5. InHand' = InHand \cup K
    BY <1>1, <1>3, <1>4, <2>1 DEF InHand
  <2>6. BackTyped'
    BY <1>1, <1>3, <1>4, <2>1, <2>2 DEF Back, BackTyped
  <2>7. BackOrder'
    <3>1. ToSet(shown) \cup InHand' \subseteq Decoded'
      BY <2>3, <2>5 DEF Back, BackOrder
    <3>2. Newer(ToSet(shown), InHand') /\ Newer(showing, Queue \cup K) /\ Newer(Queue, K)
      BY <1>4, <2>4, <2>5 DEF Back, BackOrder, InHand, Newer
    <3> QED
      BY <1>1, <1>3, <2>1, <3>1, <3>2 DEF Back, BackOrder
  <2>8. BackWhole'
    BY <1>1, <1>2, <2>1, <2>3, <2>5 DEF Back, BackWhole
  <2> QED
    BY <2>6, <2>7, <2>8 DEF Back
<1> QED
  BY <1>5, <1>6

LEMMA EndDecodingBack == ASSUME GivenOK, Back, backwards, EndDecoding PROVE Back'
<1>1. /\ phase' = phase /\ shown' = shown /\ completed' = completed /\ showing' = showing
      /\ ready' = ready /\ stopDecoding' = stopDecoding /\ abort' = abort
      /\ passes' = passes /\ cap' = cap /\ UNCHANGED given
      /\ pass' = pass /\ decodeFailed' = decodeFailed /\ producer' = "done" /\ chunk' = {}
      /\ producer # "done"
      /\ abort \/ stopDecoding \/ (producer = "decode" /\ pass = Len(passes))
  BY DEF EndDecoding, consumer, handoff, outside, given, Called
<1>2. Asked' = Asked /\ \A k : Kept(passes[k])' = Kept(passes[k])
  BY <1>1, GivenStays
<1>3. Queue' = Queue /\ Decoded' = Decoded /\ InHand' \subseteq InHand
  BY <1>1, <1>2 DEF Queue, Decoded, InHand
<1>4. BackTyped'
  BY <1>1, <1>3 DEF Back, BackTyped
<1>5. BackOrder'
  BY <1>1, <1>3 DEF Back, BackOrder, Newer
<1>6. BackWhole'
  <2>1. phase \in {"take", "show"} /\ ~abort => producer = "decode" /\ pass = Len(passes)
    BY <1>1 DEF Back, BackTyped
  <2>2. producer = "decode" => chunk = {} /\ InHand' = InHand
    BY <1>1, <1>3 DEF Back, BackTyped, InHand
  <2> QED
    BY <1>1, <1>2, <1>3, <2>1, <2>2 DEF Back, BackWhole
<1> QED
  BY <1>4, <1>5, <1>6 DEF Back

LEMMA HandOverBack == ASSUME GivenOK, Back, backwards, HandOver PROVE Back'
<1>1. /\ phase' = phase /\ shown' = shown /\ completed' = completed /\ showing' = showing
      /\ stopDecoding' = stopDecoding /\ abort' = abort
      /\ passes' = passes /\ cap' = cap /\ UNCHANGED given
      /\ pass' = pass /\ decodeFailed' = decodeFailed /\ producer' = "decode" /\ chunk' = {}
      /\ ready = <<>> /\ ready' = Append(ready, chunk)
  BY DEF HandOver, consumer, Room, outside, given
<1>2. Asked' = Asked /\ \A k : Kept(passes[k])' = Kept(passes[k])
  BY <1>1, GivenStays
<1>3. ready' = <<chunk>> /\ ready' # <<>> /\ ready'[1] = chunk
  BY <1>1
<1>4. Queue = {} /\ Queue' = chunk /\ Decoded' = Decoded
  BY <1>1, <1>2, <1>3 DEF Queue, Decoded
<1>5. InHand' = InHand
  BY <1>1, <1>4 DEF InHand
<1>6. BackTyped'
  BY <1>1, <1>3, <1>4 DEF Back, BackTyped
<1>7. BackOrder'
  BY <1>1, <1>4, <1>5 DEF Back, BackOrder, Newer
<1>8. BackWhole'
  BY <1>1, <1>2, <1>4, <1>5 DEF Back, BackWhole
<1> QED
  BY <1>6, <1>7, <1>8 DEF Back

LEMMA TakePassBack == ASSUME GivenOK, Back, backwards, TakePass PROVE Back'
<1>1. /\ shown' = shown /\ stopDecoding' = stopDecoding /\ abort' = abort
      /\ passes' = passes /\ cap' = cap /\ UNCHANGED given
      /\ pass' = pass /\ decodeFailed' = decodeFailed /\ producer' = producer /\ chunk' = chunk
      /\ phase = "take"
  BY DEF TakePass, outside, given, decoder
<1>2. Asked' = Asked /\ (\A k : Kept(passes[k])' = Kept(passes[k])) /\ Decoded' = Decoded
  BY <1>1, GivenStays DEF Decoded
<1>3. showing = {}
  BY <1>1 DEF Back, BackTyped
<1>4. CASE phase' = "join" /\ ready' = ready /\ showing' = showing
           /\ ((abort /\ completed' = FALSE)
               \/ (~abort /\ ready = <<>> /\ producer = "done" /\ completed' = (completed /\ ~decodeFailed)))
  <2>1. Queue' = Queue /\ InHand' = InHand
    BY <1>1, <1>4 DEF Queue, InHand
  <2>2. BackTyped'
    BY <1>1, <1>4, <2>1 DEF Back, BackTyped
  <2>3. BackOrder'
    BY <1>1, <1>2, <1>4, <2>1 DEF Back, BackOrder
  <2>4. BackWhole'
    <3>1. completed' /\ cap = 0 => ToSet(shown) = Asked
      <4> SUFFICES ASSUME completed', ~abort, ready = <<>>, producer = "done",
                          completed' = (completed /\ ~decodeFailed)
                   PROVE  ToSet(shown) = Asked
        BY <1>4
      <4>1. ~decodeFailed /\ pass = Len(passes) /\ chunk = {} /\ Queue = {}
        BY <1>1 DEF Back, BackWhole, BackTyped, Queue
      <4>2. InHand = {}
        BY <1>3, <4>1 DEF InHand
      <4>3. Decoded = Asked
        BY <4>1 DEF Decoded, GivenOK, Schedule
      <4>4. Decoded \subseteq ToSet(shown) \cup InHand /\ ToSet(shown) \subseteq Decoded
        BY <1>1 DEF Back, BackWhole, BackOrder
      <4> QED
        BY <4>2, <4>3, <4>4
    <3> QED
      BY <1>1, <1>2, <1>4, <3>1 DEF BackWhole
  <2> QED
    BY <2>2, <2>3, <2>4 DEF Back
<1>5. CASE ~abort /\ ready # <<>> /\ phase' = "show" /\ showing' = Head(ready) /\ ready' = Tail(ready)
           /\ completed' = completed
  <2>1. ready = <<Queue>>
    BY <1>5 DEF Back, BackTyped
  <2>2. Head(<<Queue>>) = Queue /\ Tail(<<Queue>>) = <<>>
    OBVIOUS
  <2>3. showing' = Queue /\ ready' = <<>> /\ Queue' = {}
    BY <1>5, <2>1, <2>2 DEF Queue
  <2>4. InHand' = InHand
    BY <1>1, <1>3, <2>3 DEF InHand
  <2>5. BackTyped'
    BY <1>1, <1>5, <2>3 DEF Back, BackTyped
  <2>6. BackOrder'
    BY <1>1, <1>2, <2>3, <2>4 DEF Back, BackOrder, Newer
  <2>7. BackWhole'
    BY <1>1, <1>2, <1>5, <2>4 DEF Back, BackWhole
  <2> QED
    BY <2>5, <2>6, <2>7 DEF Back
<1> QED
  BY <1>4, <1>5 DEF TakePass

LEMMA ShowBackBack == ASSUME GivenOK, Back, backwards, ShowBack PROVE Back'
<1>1. /\ stopDecoding' = stopDecoding /\ abort' = abort /\ ready' = ready
      /\ passes' = passes /\ cap' = cap /\ UNCHANGED given
      /\ pass' = pass /\ decodeFailed' = decodeFailed /\ producer' = producer /\ chunk' = chunk
      /\ phase = "show" /\ showing # {}
  BY DEF ShowBack, outside, given, decoder, handoff
<1>2. Asked' = Asked /\ (\A k : Kept(passes[k])' = Kept(passes[k])) /\ Decoded' = Decoded
  BY <1>1, GivenStays DEF Decoded
<1>3. Queue' = Queue
  BY <1>1 DEF Queue
<1>4. CASE abort /\ phase' = "free" /\ completed' = FALSE /\ shown' = shown /\ showing' = showing
  <2>1. InHand' = InHand
    BY <1>1, <1>3, <1>4 DEF InHand
  <2>2. BackTyped'
    BY <1>1, <1>3, <1>4 DEF Back, BackTyped
  <2>3. BackOrder'
    BY <1>1, <1>2, <1>3, <1>4, <2>1 DEF Back, BackOrder
  <2>4. BackWhole'
    BY <1>1, <1>2, <1>4 DEF BackWhole
  <2> QED
    BY <2>2, <2>3, <2>4 DEF Back
<1>5. CASE ~abort
  <2> DEFINE m == NextBack(showing)
  <2>1. /\ shown' = Append(shown, m) /\ showing' = showing \ {m} /\ completed' = completed
        /\ phase' = IF CapReached(Len(shown')) THEN "free" ELSE "show"
    BY <1>5 DEF ShowBack
  <2>2. showing \in SUBSET Asked /\ Asked \in SUBSET Int /\ IsFiniteSet(Asked)
    BY AskedAre DEF GivenOK, Back, BackOrder, InHand, Decoded
  <2>3. IsFiniteSet(showing)
    BY <2>2, FS_Subset
  <2>4. m \in showing /\ \A y \in showing : m >= y
    BY <1>1, <2>2, <2>3, Greatest DEF NextBack
  <2> HIDE DEF m
  <2>5. m \in Int /\ shown \in Seq(Int) /\ m \in InHand
    BY <2>2, <2>4 DEF Back, BackTyped, InHand
  <2>6. /\ shown' \in Seq(Int) /\ ToSet(shown') = ToSet(shown) \cup {m}
        /\ Len(shown') = Len(shown) + 1 /\ Len(shown) \in Nat
    BY <2>1, <2>5, Appended
  <2>7. InHand' \subseteq InHand /\ InHand \subseteq InHand' \cup {m}
    BY <1>1, <1>3, <2>1 DEF InHand
  <2>8. BackTyped'
    <3>1. cap > 0 => Len(shown') <= cap /\ (phase' \in {"take", "show"} => Len(shown') < cap)
      BY <1>1, <2>1, <2>6 DEF Back, BackTyped, CapReached, GivenOK
    <3>2. phase' \in {"show", "free"} /\ ~stopDecoding
      BY <1>1, <2>1 DEF Back, BackTyped
    <3> QED
      BY <1>1, <1>3, <2>6, <3>1, <3>2 DEF Back, BackTyped
  <2>9. BackOrder'
    <3>1. ToSet(shown') \cup InHand' \subseteq Decoded'
      BY <1>2, <2>5, <2>6, <2>7 DEF Back, BackOrder
    <3>2. Newer(ToSet(shown), InHand) /\ Newer(showing, Queue \cup chunk) /\ Newer(Queue, chunk)
          /\ Falling(shown)
      BY DEF Back, BackOrder
    <3>3. Newer({m}, InHand')
      <4>1. Newer({m}, Queue \cup chunk)
        BY <2>4, <3>2 DEF Newer
      <4>2. Newer({m}, showing')
        <5> SUFFICES ASSUME NEW y \in showing, y # m PROVE m > y
          BY <2>1 DEF Newer
        <5>1. y \in Int /\ m >= y
          BY <2>2, <2>4
        <5> QED
          BY <2>5, <5>1
      <4> QED
        BY <1>1, <1>3, <4>1, <4>2 DEF Newer, InHand
    <3>4. Newer(ToSet(shown'), InHand')
      BY <2>6, <2>7, <3>2, <3>3 DEF Newer
    <3>5. Falling(shown')
      <4>1. Newer(ToSet(shown), {m})
        BY <2>5, <3>2 DEF Newer
      <4> QED
        BY <2>1, <2>5, <3>2, <4>1, AppendGoesOn
    <3>6. Newer(showing', Queue \cup chunk)
      BY <2>1, <3>2 DEF Newer
    <3> QED
      BY <1>1, <1>3, <3>1, <3>2, <3>4, <3>5, <3>6 DEF BackOrder
  <2>10. BackWhole'
    <3>1. phase' = "free" => cap # 0
      BY <1>1, <2>1 DEF CapReached, GivenOK
    <3>2. Decoded' \subseteq ToSet(shown') \cup InHand'
      BY <1>1, <1>2, <1>5, <2>6, <2>7 DEF Back, BackWhole
    <3>3. phase' \in {"show", "free"}
      BY <2>1
    <3> QED
      BY <1>1, <1>2, <1>5, <3>1, <3>2, <3>3 DEF Back, BackWhole
  <2> QED
    BY <2>8, <2>9, <2>10 DEF Back
<1>6. CASE abort
  BY <1>4, <1>6 DEF ShowBack
<1> QED
  BY <1>5, <1>6

LEMMA FreePassBack == ASSUME GivenOK, Back, backwards, FreePass PROVE Back'
<1>1. /\ stopDecoding' = stopDecoding /\ abort' = abort /\ ready' = ready /\ shown' = shown
      /\ completed' = completed /\ passes' = passes /\ cap' = cap /\ UNCHANGED given
      /\ pass' = pass /\ decodeFailed' = decodeFailed /\ producer' = producer /\ chunk' = chunk
      /\ showing' = {} /\ phase' = (IF phase = "free" THEN "join" ELSE "take")
      /\ (phase = "free" \/ (phase = "show" /\ showing = {}))
  BY DEF FreePass, outside, given, decoder
<1>2. Asked' = Asked /\ (\A k : Kept(passes[k])' = Kept(passes[k])) /\ Decoded' = Decoded
  BY <1>1, GivenStays DEF Decoded
<1>3. Queue' = Queue /\ InHand' \subseteq InHand
  BY <1>1 DEF Queue, InHand
<1>4. BackTyped'
  BY <1>1, <1>3 DEF Back, BackTyped
<1>5. BackOrder'
  BY <1>1, <1>2, <1>3 DEF Back, BackOrder, Newer
<1>6. BackWhole'
  <2>1. CASE phase = "free"
    BY <1>1, <1>2, <2>1 DEF Back, BackWhole
  <2>2. CASE phase = "show" /\ showing = {}
    <3>1. InHand' = InHand
      BY <1>1, <1>3, <2>2 DEF InHand
    <3> QED
      BY <1>1, <1>2, <2>2, <3>1 DEF Back, BackWhole
  <2> QED
    BY <1>1, <2>1, <2>2
<1> QED
  BY <1>4, <1>5, <1>6 DEF Back

LEMMA EndsBack == ASSUME GivenOK, Back, backwards, JoinDecoding \/ Report PROVE Back'
<1>1. /\ abort' = abort /\ ready' = ready /\ shown' = shown
      /\ completed' = completed /\ passes' = passes /\ cap' = cap /\ UNCHANGED given
      /\ pass' = pass /\ decodeFailed' = decodeFailed /\ producer' = producer /\ chunk' = chunk
      /\ showing' = showing
      /\ phase \in {"join", "report"} /\ phase' \in {"join", "report", "done"}
  BY DEF JoinDecoding, Report, outside, given, decoder, handoff, reverse
<1>2. Asked' = Asked /\ (\A k : Kept(passes[k])' = Kept(passes[k])) /\ Decoded' = Decoded
  BY <1>1, GivenStays DEF Decoded
<1>3. Queue' = Queue /\ InHand' = InHand
  BY <1>1 DEF Queue, InHand
<1>4. BackTyped'
  BY <1>1, <1>3 DEF Back, BackTyped
<1>5. BackOrder'
  BY <1>1, <1>2, <1>3 DEF Back, BackOrder
<1>6. BackWhole'
  BY <1>1, <1>2 DEF Back, BackWhole
<1> QED
  BY <1>4, <1>5, <1>6 DEF Back

LEMMA StepBack == ASSUME GivenOK, Back, backwards, [RunNext]_runVars PROVE Back'
<1>1. phase \in {"take", "show", "free", "join", "report", "done"}
  BY DEF Back, BackTyped
<1>2. ~SendNext /\ ~Receive /\ ~Emit /\ ~Tail_ /\ ~HearRest
  BY <1>1 DEF SendNext, Receive, Emit, Tail_, HearRest
<1>3. CASE Abort \/ SetPaused \/ UNCHANGED runVars
  <2>1. /\ UNCHANGED <<given, phase, shown, completed, showing, ready, chunk, pass, producer,
                       decodeFailed, stopDecoding>>
        /\ abort' = abort \/ abort' = TRUE
    BY <1>3 DEF Abort, SetPaused, runVars, consumer, forward, reverse, outside, decoder, handoff
  <2> QED
    BY <2>1, BackStays
<1>4. CASE Finished
  BY <1>3, <1>4 DEF Finished
<1> QED
  BY <1>2, <1>3, <1>4, DecodePassBack, EndDecodingBack, HandOverBack, TakePassBack, ShowBackBack,
     FreePassBack, EndsBack DEF RunNext, Forwards, Backwards, Decoding

-----------------------------------------------------------------------------
(* Forwards: a decoder that holds back enough gives pictures in order.     *)

Sent == Instants(1..(next - 1))
ToSend == Instants(next..Len(span))
Waiting == IF phase = "wait" THEN {frame} ELSE {}

ForwTyped ==
    /\ phase \in {"loop", "receive", "wait", "tail", "report", "done"} /\ producer = "done"
    /\ next \in 1..(Len(span) + 1) /\ shown \in Seq(Int)
    /\ draining => next > Len(span) /\ phase \notin {"loop", "tail"}
    /\ capped => cap > 0 /\ phase \notin {"receive", "wait"}
    /\ phase = "tail" /\ completed /\ ~capped => next > Len(span)

\* What has been shown is older than the picture that waits, that than what the decoder holds,
\* and all of it than what is still to be sent.
ForwOrder ==
    /\ dec \subseteq Sent /\ ToSet(shown) \cup Waiting \subseteq Sent
    /\ \A x \in ToSet(shown) \cup Waiting : lo <= x
    /\ Newer(dec \cup ToSend, ToSet(shown) \cup Waiting) /\ Newer(Waiting, ToSet(shown))
    /\ Rising(shown)

\* Until the run is cut short nothing sent from the IN on is lost.
ForwWhole ==
    completed /\ ~capped /\ ~(draining /\ abort) =>
        /\ \A x \in Sent : lo <= x => x \in ToSet(shown) \cup Waiting \cup dec
        /\ phase \in {"report", "done"} => next > Len(span) /\ dec = {}

Forw == ForwTyped /\ ForwOrder /\ ForwWhole

LEMMA SendingOne ==
    ASSUME span \in Clips, NEW n \in 1..Len(span)
    PROVE  /\ Instants(1..n) =
                  Instants(1..(n - 1)) \cup (IF span[n].kind = "video" THEN {span[n].at} ELSE {})
           /\ Instants((n + 1)..Len(span)) \subseteq Instants(n..Len(span))
           /\ span[n].kind = "video" => span[n].at \in Instants(n..Len(span))
<1>1. Len(span) \in Nat /\ n \in Int
  BY SpanFacts
<1>2. \A k : k \in 1..n <=> (k \in 1..(n - 1) \/ k = n)
  BY <1>1
<1>3. \A k : k \in n..Len(span) <=> (k \in (n + 1)..Len(span) \/ k = n)
  BY <1>1
<1>4. Instants(1..n) = Instants(1..(n - 1)) \cup (IF span[n].kind = "video" THEN {span[n].at} ELSE {})
  BY <1>2 DEF Instants
<1> QED
  BY <1>3, <1>4 DEF Instants

LEMMA SentAre ==
    ASSUME span \in Clips, next \in 1..(Len(span) + 1)
    PROVE  /\ Sent \in SUBSET Int /\ IsFiniteSet(Sent) /\ ToSend \in SUBSET Int
           /\ Sent \subseteq Instants(DOMAIN span)
           /\ next > Len(span) => ToSend = {} /\ Sent = Instants(DOMAIN span)
<1>1. Len(span) \in Nat /\ DOMAIN span = 1..Len(span)
  BY SpanFacts
<1>2. 1..(next - 1) \in SUBSET DOMAIN span /\ next..Len(span) \in SUBSET DOMAIN span
  BY <1>1
<1>3. Sent \in SUBSET Int /\ IsFiniteSet(Sent) /\ ToSend \in SUBSET Int
  BY <1>2, InstantsAre DEF Sent, ToSend
<1>4. Sent \subseteq Instants(DOMAIN span)
  BY <1>2 DEF Sent, Instants
<1>5. next > Len(span) => next..Len(span) = {} /\ 1..(next - 1) = DOMAIN span
  BY <1>1
<1> QED
  BY <1>3, <1>4, <1>5 DEF Sent, ToSend, Instants

LEMMA OldestHeld ==
    ASSUME GivenOK, ForwTyped, ForwOrder, dec # {}
    PROVE  /\ Min(dec) \in dec /\ Min(dec) \in Int
           /\ Newer(dec \ {Min(dec)}, {Min(dec)}) /\ Newer({Min(dec)}, ToSet(shown))
<1>1. Sent \in SUBSET Int /\ IsFiniteSet(Sent) /\ dec \in SUBSET Sent
  BY SentAre DEF GivenOK, SpanGiven, ForwTyped, ForwOrder
<1>2. IsFiniteSet(dec)
  BY <1>1, FS_Subset
<1>3. dec \in SUBSET Int
  BY <1>1
<1>4. Min(dec) \in dec /\ \A y \in dec : Min(dec) <= y
  BY <1>2, <1>3, Least
<1>5. Newer(dec \ {Min(dec)}, {Min(dec)})
  <2> SUFFICES ASSUME NEW y \in dec, y # Min(dec) PROVE y > Min(dec)
    BY DEF Newer
  <2>1. y \in Int /\ Min(dec) \in Int /\ Min(dec) <= y
    BY <1>3, <1>4
  <2> QED
    BY <2>1
<1>6. Newer({Min(dec)}, ToSet(shown))
  BY <1>4 DEF ForwOrder, Newer
<1> QED
  BY <1>3, <1>4, <1>5, <1>6

\* A picture given back before the end of the clip is older than any not sent yet: the
\* decoder holds more than the stream can have moved ahead of one that is to come.
LEMMA Ripe ==
    ASSUME GivenOK, ForwTyped, ForwOrder, HasPicture
    PROVE  Newer(ToSend, {Min(dec)})
<1>1. dec # {}
  BY DEF HasPicture
<1>2. /\ Min(dec) \in dec /\ Min(dec) \in Int /\ Newer(dec \ {Min(dec)}, {Min(dec)})
  BY <1>1, OldestHeld
<1>3. CASE draining
  BY <1>3, SentAre DEF ForwTyped, GivenOK, SpanGiven, Newer
<1>4. CASE Cardinality(dec) > delay
  <2> SUFFICES ASSUME NEW y \in ToSend PROVE y > Min(dec)
    BY DEF Newer
  <2> DEFINE m == Min(dec)
  <2>1. PICK j \in next..Len(span) : span[j].kind = "video" /\ y = span[j].at
    BY DEF ToSend, Instants
  <2>2. PICK i \in 1..(next - 1) : span[i].kind = "video" /\ m = span[i].at
    BY <1>2 DEF ForwOrder, Sent, Instants
  <2>3. /\ Len(span) \in Nat /\ DOMAIN span = 1..Len(span) /\ next \in 1..(Len(span) + 1)
        /\ span \in Clips
    BY SpanFacts DEF ForwTyped, GivenOK, SpanGiven
  <2>4. i \in Video /\ j \in Video /\ i # j /\ j \in Int /\ i \in Int
    BY <2>1, <2>2, <2>3 DEF Video
  <2>5. y # m /\ y \in Int
    BY <2>1, <2>2, <2>3, <2>4, SpanFacts DEF Video
  <2> SUFFICES ASSUME y < m PROVE FALSE
    BY <1>2, <2>5
  <2>6. dec \subseteq Overtaken(span, j)
    <3> SUFFICES ASSUME NEW x \in dec PROVE x \in Overtaken(span, j)
      OBVIOUS
    <3>1. PICK k \in 1..(next - 1) : span[k].kind = "video" /\ x = span[k].at
      BY DEF ForwOrder, Sent, Instants
    <3>2. x \in Int /\ k \in 1..(j - 1)
      BY <2>1, <2>3, <3>1, SpanFacts
    <3>3. x > y
      BY <1>2, <2>5, <3>2 DEF Newer
    <3> QED
      BY <2>1, <3>1, <3>2, <3>3 DEF Overtaken
  <2>7. Overtaken(span, j) \in SUBSET Instants(DOMAIN span)
    BY <2>3 DEF Overtaken, Instants
  <2>8. IsFiniteSet(Instants(DOMAIN span))
    BY <2>3, InstantsAre
  <2>9. IsFiniteSet(Overtaken(span, j))
    BY <2>7, <2>8, FS_Subset
  <2>10. Cardinality(dec) <= Cardinality(Overtaken(span, j)) /\ IsFiniteSet(dec)
    BY <2>6, <2>9, FS_Subset
  <2>11. Cardinality(dec) \in Nat /\ Cardinality(Overtaken(span, j)) \in Nat /\ delay \in Nat
    BY <2>9, <2>10, FS_CardinalityType, GivenAssumption DEF GivenOK
  <2>12. Cardinality(Overtaken(span, j)) <= delay
    BY <2>3, <2>4, ClipsAssumption DEF Playable, Video, GivenOK
  <2> QED
    BY <1>4, <2>10, <2>11, <2>12
<1> QED
  BY <1>3, <1>4 DEF HasPicture

LEMMA ForwStays ==
    ASSUME GivenOK, Forw,
           UNCHANGED <<given, phase, producer, shown, completed, next, dec, frame, capped, draining>>,
           abort' = abort \/ abort' = TRUE
    PROVE  Forw'
<1>1. /\ phase' = phase /\ shown' = shown /\ completed' = completed /\ producer' = producer
      /\ next' = next /\ dec' = dec /\ frame' = frame /\ capped' = capped /\ draining' = draining
      /\ span' = span /\ lo' = lo /\ cap' = cap
  BY DEF given
<1>2. Sent' = Sent /\ ToSend' = ToSend /\ Waiting' = Waiting
  BY <1>1 DEF Sent, ToSend, Waiting, Instants
<1>3. ForwTyped'
  BY <1>1 DEF Forw, ForwTyped
<1>4. ForwOrder'
  BY <1>1, <1>2 DEF Forw, ForwOrder
<1>5. ForwWhole'
  BY <1>1, <1>2 DEF Forw, ForwWhole
<1> QED
  BY <1>3, <1>4, <1>5 DEF Forw

LEMMA SendForw == ASSUME GivenOK, Forw, SendNext PROVE Forw'
<1>1. /\ phase = "loop" /\ span' = span /\ lo' = lo /\ cap' = cap /\ abort' = abort
      /\ producer' = producer /\ shown' = shown /\ frame' = frame /\ capped' = capped
      /\ draining' = draining
  BY DEF SendNext, given, outside, reverse, decoder
<1>2. /\ Len(span) \in Nat /\ next \in 1..(Len(span) + 1) /\ span \in Clips /\ ~draining
      /\ Waiting = {}
  BY <1>1, SpanFacts DEF Forw, ForwTyped, GivenOK, SpanGiven, Waiting
<1>3. CASE phase' = "tail" /\ next' = next /\ dec' = dec
           /\ (completed' /\ ~capped => next > Len(span) /\ completed)
  <2>1. Sent' = Sent /\ ToSend' = ToSend /\ Waiting' = Waiting
    BY <1>1, <1>2, <1>3 DEF Sent, ToSend, Waiting, Instants
  <2>2. ForwTyped'
    BY <1>1, <1>2, <1>3 DEF Forw, ForwTyped
  <2>3. ForwOrder'
    BY <1>1, <1>3, <2>1 DEF Forw, ForwOrder
  <2>4. ForwWhole'
    BY <1>1, <1>3, <1>2, <2>1 DEF Forw, ForwWhole
  <2> QED
    BY <2>2, <2>3, <2>4 DEF Forw
<1>4. CASE /\ next <= Len(span) /\ ~abort /\ ~capped /\ phase' = "receive" /\ next' = next + 1
           /\ completed' = completed
           /\ dec' = dec \cup (IF span[next].kind = "video" THEN {span[next].at} ELSE {})
  <2> DEFINE New == IF span[next].kind = "video" THEN {span[next].at} ELSE {}
  <2>1. next \in 1..Len(span) /\ (next + 1) - 1 = next /\ next + 1 \in 1..(Len(span) + 1)
    BY <1>2, <1>4
  <2>2. /\ Instants(1..next) = Instants(1..(next - 1)) \cup New
        /\ Instants((next + 1)..Len(span)) \subseteq ToSend /\ New \subseteq ToSend
    BY <1>2, <2>1, SendingOne DEF ToSend
  <2> HIDE DEF New
  <2>3. dec' = dec \cup New
    BY <1>4 DEF New
  <2>4. Sent' = Sent \cup New /\ ToSend' \subseteq ToSend
    BY <1>1, <1>4, <2>1, <2>2 DEF Sent, ToSend, Instants
  <2>5. Waiting' = {}
    BY <1>4 DEF Waiting
  <2>6. ForwTyped'
    BY <1>1, <1>2, <1>4, <2>1 DEF Forw, ForwTyped
  <2>7. ForwOrder'
    BY <1>1, <1>2, <2>2, <2>3, <2>4, <2>5 DEF Forw, ForwOrder, Newer
  <2>8. ForwWhole'
    BY <1>1, <1>2, <1>4, <2>3, <2>4, <2>5 DEF Forw, ForwWhole
  <2> QED
    BY <2>6, <2>7, <2>8 DEF Forw
<1>5. CASE next > Len(span) \/ abort \/ capped
  <2>1. /\ phase' = "tail" /\ next' = next /\ dec' = dec
        /\ completed' = IF next <= Len(span) THEN ~abort ELSE completed
    BY <1>5 DEF SendNext
  <2>2. next <= Len(span) \/ next > Len(span)
    BY <1>2
  <2>3. CASE next <= Len(span)
    <3>1. (abort \/ capped) /\ completed' = ~abort
      BY <1>2, <1>5, <2>1, <2>3
    <3> QED
      BY <1>3, <2>1, <3>1
  <2>4. CASE next > Len(span)
    <3>1. completed' = completed
      BY <1>2, <2>1, <2>4
    <3> QED
      BY <1>3, <2>1, <2>4, <3>1
  <2> QED
    BY <2>2, <2>3, <2>4
<1>6. CASE ~(next > Len(span) \/ abort \/ capped) /\ next = bad
  <2>1. phase' = "tail" /\ next' = next /\ dec' = dec /\ completed' = FALSE
    BY <1>6 DEF SendNext
  <2> QED
    BY <1>3, <2>1
<1>7. CASE ~(next > Len(span) \/ abort \/ capped) /\ next # bad
  <2>1. /\ phase' = "receive" /\ next' = next + 1 /\ completed' = completed
        /\ dec' = dec \cup (IF span[next].kind = "video" THEN {span[next].at} ELSE {})
    BY <1>7 DEF SendNext
  <2>2. next <= Len(span)
    BY <1>2, <1>7
  <2> QED
    BY <1>4, <1>7, <2>1, <2>2
<1> QED
  BY <1>5, <1>6, <1>7

\* What the loop does after a picture.
LEMMA AfterEmitForw ==
    ASSUME GivenOK, NEW n \in Nat, AfterEmit(n), abort \in BOOLEAN, ~capped
    PROVE  /\ phase' \in {"loop", "receive"} /\ (draining => phase' = "receive")
           /\ completed' => completed
           /\ completed' /\ abort => draining
           /\ capped' => cap > 0 /\ phase' = "loop" /\ ~draining
  BY DEF AfterEmit, CapReached

LEMMA ReceiveForw == ASSUME GivenOK, Forw, abort \in BOOLEAN, Receive PROVE Forw'
<1>1. /\ phase = "receive" /\ span' = span /\ lo' = lo /\ cap' = cap /\ abort' = abort
      /\ producer' = producer /\ shown' = shown /\ next' = next /\ draining' = draining
  BY DEF Receive, given, outside, reverse, decoder
<1>2. /\ next \in 1..(Len(span) + 1) /\ span \in Clips /\ Waiting = {} /\ ~capped
  BY <1>1 DEF Forw, ForwTyped, GivenOK, SpanGiven, Waiting
<1>3. Sent' = Sent /\ ToSend' = ToSend
  BY <1>1 DEF Sent, ToSend, Instants
<1>4. CASE ~HasPicture
  <2>1. /\ phase' = (IF draining THEN "report" ELSE "loop") /\ dec' = dec /\ frame' = frame
        /\ completed' = completed /\ capped' = capped
    BY <1>4 DEF Receive
  <2>2. Waiting' = {}
    BY <2>1 DEF Waiting
  <2>3. draining => dec = {} /\ next > Len(span)
    BY <1>4 DEF HasPicture, Forw, ForwTyped
  <2>4. ForwTyped'
    BY <1>1, <1>2, <2>1 DEF Forw, ForwTyped
  <2>5. ForwOrder'
    BY <1>1, <1>2, <1>3, <2>1, <2>2 DEF Forw, ForwOrder
  <2>6. ForwWhole'
    BY <1>1, <1>2, <1>3, <2>1, <2>2, <2>3 DEF Forw, ForwWhole
  <2> QED
    BY <2>4, <2>5, <2>6 DEF Forw
<1>5. CASE HasPicture
  <2> DEFINE m == Min(dec)
  <2>1. dec' = dec \ {m}
    BY <1>5 DEF Receive
  <2>2. /\ m \in dec /\ m \in Int /\ Newer(dec \ {m}, {m}) /\ Newer({m}, ToSet(shown))
        /\ Newer(ToSend, {m})
    BY <1>5, OldestHeld, Ripe DEF Forw, HasPicture
  <2> HIDE DEF m
  <2>3. m \in Sent /\ dec' \subseteq dec
    BY <2>1, <2>2 DEF Forw, ForwOrder
  <2>4. CASE Waiting' = {}
    <3>1. ForwOrder'
      BY <1>1, <1>2, <1>3, <2>3, <2>4 DEF Forw, ForwOrder, Newer
    <3>2. CASE draining /\ abort
      <4>1. phase' = "report" /\ completed' = completed /\ capped' = capped
        BY <1>5, <3>2 DEF Receive
      <4>2. ForwTyped'
        BY <1>1, <1>2, <4>1 DEF Forw, ForwTyped
      <4>3. ForwWhole'
        BY <1>1, <3>2 DEF ForwWhole
      <4> QED
        BY <3>1, <4>2, <4>3 DEF Forw
    <3>3. CASE ~(draining /\ abort) /\ Preroll(m)
      <4>1. AfterEmit(Len(shown))
        BY <1>5, <3>3 DEF Receive, m
      <4>2. Len(shown) \in Nat
        BY DEF Forw, ForwTyped
      <4>3. /\ phase' \in {"loop", "receive"} /\ (draining => phase' = "receive")
            /\ completed' => completed
            /\ capped' => cap > 0 /\ phase' = "loop" /\ ~draining
        BY <1>2, <4>1, <4>2, AfterEmitForw
      <4>4. ForwTyped'
        BY <1>1, <1>2, <4>3 DEF Forw, ForwTyped
      <4>5. ~(lo <= m)
        BY <2>2, <3>3 DEF Preroll, GivenOK, SpanGiven
      <4>6. ForwWhole'
        BY <1>1, <1>2, <1>3, <2>1, <2>4, <3>3, <4>3, <4>5 DEF Forw, ForwWhole
      <4> QED
        BY <3>1, <4>4, <4>6 DEF Forw
    <3>4. CASE ~(draining /\ abort) /\ ~Preroll(m)
      <4>1. phase' = "wait"
        BY <1>5, <3>4 DEF Receive, m
      <4> QED
        BY <2>4, <4>1 DEF Waiting
    <3> QED
      BY <3>2, <3>3, <3>4
  <2>5. CASE ~(draining /\ abort) /\ ~Preroll(m)
    <3>1. phase' = "wait" /\ frame' = m /\ completed' = completed /\ capped' = capped
      BY <1>5, <2>5 DEF Receive, m
    <3>2. Waiting' = {m} /\ lo <= m
      BY <2>2, <2>5, <3>1 DEF Waiting, Preroll, GivenOK, SpanGiven
    <3>3. ForwTyped'
      BY <1>1, <1>2, <3>1 DEF Forw, ForwTyped
    <3>4. ForwOrder'
      <4>1. Newer(dec' \cup ToSend, ToSet(shown) \cup {m})
        BY <1>2, <2>1, <2>2 DEF Forw, ForwOrder, Newer
      <4>2. /\ dec' \subseteq Sent /\ ToSet(shown) \cup {m} \subseteq Sent /\ Rising(shown)
            /\ \A x \in ToSet(shown) \cup {m} : lo <= x
        BY <1>2, <2>3, <3>2 DEF Forw, ForwOrder
      <4> QED
        BY <1>1, <1>3, <2>2, <3>2, <4>1, <4>2 DEF ForwOrder
    <3>5. ForwWhole'
      BY <1>1, <1>2, <1>3, <2>1, <3>1, <3>2 DEF Forw, ForwWhole
    <3> QED
      BY <3>3, <3>4, <3>5 DEF Forw
  <2>6. CASE (draining /\ abort) \/ Preroll(m)
    <3>1. phase' # "wait"
      <4>1. CASE draining /\ abort
        BY <1>5, <4>1 DEF Receive
      <4>2. CASE ~(draining /\ abort) /\ Preroll(m)
        BY <1>5, <4>2 DEF Receive, AfterEmit, m
      <4> QED
        BY <2>6, <4>1, <4>2
    <3> QED
      BY <2>4, <3>1 DEF Waiting
  <2> QED
    BY <2>5, <2>6
<1> QED
  BY <1>4, <1>5

LEMMA EmitForw == ASSUME GivenOK, Forw, abort \in BOOLEAN, Emit PROVE Forw'
<1> DEFINE then == IF abort THEN shown ELSE Append(shown, frame)
<1>1. /\ phase = "wait" /\ span' = span /\ lo' = lo /\ cap' = cap /\ abort' = abort
      /\ producer' = producer /\ next' = next /\ dec' = dec /\ draining' = draining
      /\ shown' = then /\ AfterEmit(Len(then))
  BY DEF Emit, given, outside, reverse, decoder
<1>2. /\ next \in 1..(Len(span) + 1) /\ span \in Clips /\ Waiting = {frame} /\ ~capped
      /\ shown \in Seq(Int) /\ lo \in Int
  BY <1>1 DEF Forw, ForwTyped, GivenOK, SpanGiven, Waiting
<1>3. Sent' = Sent /\ ToSend' = ToSend
  BY <1>1 DEF Sent, ToSend, Instants
<1>4. frame \in Sent /\ frame \in Int /\ lo <= frame /\ Newer({frame}, ToSet(shown))
  BY <1>2, SentAre DEF Forw, ForwOrder
<1>5. /\ shown' \in Seq(Int) /\ Rising(shown') /\ ToSet(shown') \subseteq ToSet(shown) \cup {frame}
      /\ ~abort => ToSet(shown') = ToSet(shown) \cup {frame}
  <2>1. CASE abort
    BY <1>1, <1>2, <2>1 DEF Forw, ForwOrder
  <2>2. CASE ~abort
    <3>1. shown' = Append(shown, frame)
      BY <1>1, <2>2
    <3>2. Rising(shown)
      BY DEF Forw, ForwOrder
    <3>3. Rising(shown')
      BY <1>2, <1>4, <3>1, <3>2, AppendGoesOn
    <3>4. shown' \in Seq(Int) /\ ToSet(shown') = ToSet(shown) \cup {frame}
      BY <1>2, <1>4, <3>1, Appended
    <3> QED
      BY <3>3, <3>4
  <2> QED
    BY <2>1, <2>2
<1>6. Len(then) \in Nat
  BY <1>1, <1>5
<1>7. /\ phase' \in {"loop", "receive"} /\ (draining => phase' = "receive")
      /\ completed' => completed
      /\ completed' /\ abort => draining
      /\ capped' => cap > 0 /\ phase' = "loop" /\ ~draining
  BY <1>1, <1>2, <1>6, AfterEmitForw
<1> HIDE DEF then
<1>8. Waiting' = {}
  BY <1>7 DEF Waiting
<1>9. ForwTyped'
  BY <1>1, <1>2, <1>5, <1>7 DEF Forw, ForwTyped
<1>10. ForwOrder'
  <2>1. dec \subseteq Sent /\ ToSet(shown') \subseteq Sent /\ (\A x \in ToSet(shown') : lo <= x)
    BY <1>2, <1>4, <1>5 DEF Forw, ForwOrder
  <2>2. Newer(dec \cup ToSend, ToSet(shown'))
    BY <1>2, <1>5 DEF Forw, ForwOrder, Newer
  <2> QED
    BY <1>1, <1>3, <1>5, <1>8, <2>1, <2>2 DEF ForwOrder, Newer
<1>11. ForwWhole'
  <2> SUFFICES ASSUME completed', ~capped', ~(draining' /\ abort')
               PROVE  \A x \in Sent' : lo <= x => x \in ToSet(shown') \cup dec
    BY <1>1, <1>7 DEF ForwWhole
  <2>1. completed /\ ~abort
    BY <1>1, <1>7
  <2>2. \A x \in Sent : lo <= x => x \in ToSet(shown) \cup {frame} \cup dec
    BY <1>2, <2>1 DEF Forw, ForwWhole
  <2> QED
    BY <1>3, <1>5, <2>1, <2>2
<1> QED
  BY <1>9, <1>10, <1>11 DEF Forw

LEMMA EndsForw == ASSUME GivenOK, Forw, ~backwards, Tail_ \/ Report PROVE Forw'
<1>1. /\ span' = span /\ lo' = lo /\ cap' = cap /\ abort' = abort /\ producer' = producer
      /\ shown' = shown /\ next' = next /\ dec' = dec /\ frame' = frame /\ capped' = capped
      /\ completed' = completed
  BY DEF Tail_, Report, given, outside, reverse, decoder, pictures
<1>2. /\ next \in 1..(Len(span) + 1) /\ span \in Clips /\ phase # "wait" /\ phase' # "wait"
  BY DEF Tail_, Report, Forw, ForwTyped, GivenOK, SpanGiven
<1>3. Sent' = Sent /\ ToSend' = ToSend /\ Waiting' = {} /\ Waiting = {}
  BY <1>1, <1>2 DEF Sent, ToSend, Waiting, Instants
<1>4. ForwOrder'
  BY <1>1, <1>3 DEF Forw, ForwOrder
<1>5. CASE Tail_
  <2>1. /\ phase = "tail" /\ draining' = (completed /\ ~capped)
        /\ phase' = IF completed /\ ~capped THEN "receive" ELSE "report"
    BY <1>5 DEF Tail_, Whole
  <2>2. ~draining
    BY <2>1 DEF Forw, ForwTyped
  <2>3. CASE completed /\ ~capped
    <3>1. ForwTyped'
      BY <1>1, <2>1, <2>3 DEF Forw, ForwTyped
    <3>2. ForwWhole'
      BY <1>1, <1>3, <2>1, <2>2, <2>3 DEF Forw, ForwWhole
    <3> QED
      BY <1>4, <3>1, <3>2 DEF Forw
  <2>4. CASE ~(completed /\ ~capped)
    <3>1. ForwTyped'
      BY <1>1, <2>1, <2>4 DEF Forw, ForwTyped
    <3>2. ForwWhole'
      BY <1>1, <2>4 DEF ForwWhole
    <3> QED
      BY <1>4, <3>1, <3>2 DEF Forw
  <2> QED
    BY <2>3, <2>4
<1>6. CASE Report
  <2>1. phase = "report" /\ phase' = "done" /\ draining' = draining
    BY <1>6 DEF Report, pictures
  <2>2. ForwTyped'
    BY <1>1, <2>1 DEF Forw, ForwTyped
  <2>3. ForwWhole'
    BY <1>1, <1>3, <2>1 DEF Forw, ForwWhole
  <2> QED
    BY <1>4, <2>2, <2>3 DEF Forw
<1> QED
  BY <1>5, <1>6

LEMMA StepForw ==
    ASSUME GivenOK, Forw, ~backwards, abort \in BOOLEAN, [RunNext]_runVars PROVE Forw'
<1>1. phase \in {"loop", "receive", "wait", "tail", "report", "done"} /\ producer = "done"
  BY DEF Forw, ForwTyped
<1>2. ~TakePass /\ ~ShowBack /\ ~FreePass /\ ~JoinDecoding
  BY <1>1 DEF TakePass, ShowBack, FreePass, JoinDecoding
<1>3. ~DecodePass /\ ~EndDecoding /\ ~HandOver
  BY <1>1 DEF DecodePass, EndDecoding, HandOver
<1>4. CASE Abort \/ SetPaused \/ UNCHANGED runVars
  <2>1. /\ UNCHANGED <<given, phase, producer, shown, completed, next, dec, frame, capped, draining>>
        /\ abort' = abort \/ abort' = TRUE
    BY <1>4 DEF Abort, SetPaused, runVars, consumer, forward, pictures, reverse, outside, decoder
  <2> QED
    BY <2>1, ForwStays
<1>5. CASE Finished
  BY <1>4, <1>5 DEF Finished
<1>6. CASE HearRest
  <2>1. /\ UNCHANGED <<given, phase, producer, shown, completed, next, dec, frame, capped, draining>>
        /\ abort' = abort
    BY <1>6 DEF HearRest, consumer, pictures, reverse, outside, decoder
  <2> QED
    BY <2>1, ForwStays
<1> QED
  BY <1>2, <1>3, <1>4, <1>5, <1>6, SendForw, ReceiveForw, EmitForw, EndsForw
     DEF RunNext, Forwards, Backwards, Decoding

-----------------------------------------------------------------------------
(* The sound of a run: how long stretched sound becomes.                   *)

LEMMA OfTwo ==
    ASSUME NEW a \in Int, NEW b \in Int
    PROVE  /\ Max({a, b}) \in {a, b} /\ Max({a, b}) >= a /\ Max({a, b}) >= b
           /\ Min({a, b}) \in {a, b} /\ Min({a, b}) <= a /\ Min({a, b}) <= b
<1>1. IsFiniteSet({a}) /\ {a, b} = {a} \cup {b}
  BY FS_Singleton
<1>2. IsFiniteSet({a, b})
  BY <1>1, FS_AddElement
<1>3. {a, b} \in SUBSET Int /\ {a, b} # {}
  OBVIOUS
<1>4. Max({a, b}) \in {a, b} /\ \A y \in {a, b} : Max({a, b}) >= y
  BY <1>2, <1>3, Greatest
<1>5. Min({a, b}) \in {a, b} /\ \A y \in {a, b} : Min({a, b}) <= y
  BY <1>2, <1>3, Least
<1> QED
  BY <1>4, <1>5

LEMMA Geometry ==
    /\ SeqLen \in Nat /\ SeekLen \in Nat /\ OverlapLen \in Nat
    /\ SeqLen >= 1 /\ SeekLen >= 1 /\ OverlapLen >= 1 /\ SeqLen >= 2 * OverlapLen
BY GeometryAssumption

LEMMA SkipIs == ASSUME NEW v \in Nat PROVE NominalSkip(v) \in Nat
<1>1. SeqLen - OverlapLen \in Nat
  BY Geometry
<1> QED
  BY <1>1 DEF NominalSkip

\* There is always enough for a block, and for what it advances the input by.
LEMMA Required ==
    ASSUME NEW v \in Nat
    PROVE  /\ SampleReq(v) \in Nat /\ SampleReq(v) >= 2 * OverlapLen + SeekLen
           /\ SampleReq(v) >= (NominalSkip(v) + 99) \div 100 + OverlapLen + SeekLen
<1> DEFINE a == (NominalSkip(v) + 99) \div 100 + OverlapLen + SeekLen
           b == SeqLen + SeekLen
<1>1. a \in Nat /\ b \in Nat /\ b >= 2 * OverlapLen + SeekLen
  BY SkipIs, Geometry
<1>2. SampleReq(v) = Max({a, b})
  BY DEF SampleReq
<1> HIDE DEF a, b
<1>3. Max({a, b}) \in {a, b} /\ Max({a, b}) >= a /\ Max({a, b}) >= b
  <2>1. a \in Int /\ b \in Int
    BY <1>1
  <2> QED
    BY <2>1, OfTwo
<1>4. SampleReq(v) \in Nat /\ SampleReq(v) >= a /\ SampleReq(v) >= b
  BY <1>1, <1>2, <1>3
<1>5. SampleReq(v) >= 2 * OverlapLen + SeekLen
  BY <1>1, <1>4, Geometry
<1> QED
  BY <1>4, <1>5 DEF a

LEMMA RoundedIs ==
    ASSUME NEW n \in Nat, NEW e \in -50..49
    PROVE  /\ Rounded(n + e) \in Nat /\ Rounded(n + e) <= (n + 99) \div 100
           /\ (n + e) - 100 * Rounded(n + e) \in -50..49
BY DEF Rounded

LaidBy(s) == SeqLen - 2 * OverlapLen + (IF s.primed THEN OverlapLen ELSE 0)

\* What a block does.
LEMMA Laid ==
    ASSUME NEW v \in Nat, NEW s \in Stretcher, s.held >= SampleReq(v)
    PROVE  /\ Lay(s, v) \in Stretcher
           /\ Lay(s, v).pushed = s.pushed /\ Lay(s, v).primed
           /\ Lay(s, v).held < s.held /\ Lay(s, v).held >= OverlapLen + SeekLen
           /\ LaidBy(s) \in Nat
           /\ Lay(s, v).made = s.made + LaidBy(s) /\ Lay(s, v).ready = s.ready + LaidBy(s)
           /\ 100 * (s.held - Lay(s, v).held) + Lay(s, v).error >= NominalSkip(v) + s.error
           /\ NominalSkip(v) >= 100 * OverlapLen =>
                100 * (s.held - Lay(s, v).held) + Lay(s, v).error = NominalSkip(v) + s.error
<1> DEFINE n == NominalSkip(v)
           advance == Rounded(n + s.error)
           take == Max({advance, OverlapLen})
           left == (n + s.error) - 100 * advance
           t == Lay(s, v)
<1>1. s.held \in Nat /\ s.made \in Nat /\ s.ready \in Nat /\ s.pushed \in Nat /\ s.error \in -50..49
  BY DEF Stretcher
<1>2. n \in Nat
  BY SkipIs
<1>3. advance \in Nat /\ advance <= (n + 99) \div 100 /\ left \in -50..49
  BY <1>1, <1>2, RoundedIs
<1>4. take \in {advance, OverlapLen} /\ take >= advance /\ take >= OverlapLen
  <2>1. advance \in Int /\ OverlapLen \in Int
    BY <1>3, Geometry
  <2> HIDE DEF advance
  <2> QED
    BY <2>1, OfTwo
<1>5. t = [s EXCEPT !.held = s.held - take, !.primed = TRUE, !.error = left,
                    !.made = s.made + LaidBy(s), !.ready = s.ready + LaidBy(s)]
  BY DEF Lay, LaidBy
<1>6. /\ t.held = s.held - take /\ t.primed = TRUE /\ t.error = left /\ t.pushed = s.pushed
      /\ t.made = s.made + LaidBy(s) /\ t.ready = s.ready + LaidBy(s)
  BY <1>5 DEF Stretcher
<1>7. LaidBy(s) \in Nat
  BY Geometry DEF LaidBy, Stretcher
<1>8. SampleReq(v) \in Nat /\ SampleReq(v) >= 2 * OverlapLen + SeekLen
      /\ SampleReq(v) >= (n + 99) \div 100 + OverlapLen + SeekLen
  BY Required
<1>9. (n + 99) \div 100 \in Nat
  BY <1>2
<1> HIDE DEF n, advance, take
<1>10. take \in Nat /\ take >= 1 /\ s.held - take \in Nat /\ s.held - take >= OverlapLen + SeekLen
  BY <1>1, <1>3, <1>4, <1>8, <1>9, Geometry
<1>11. t \in Stretcher
  <2>1. s.made + LaidBy(s) \in Nat /\ s.ready + LaidBy(s) \in Nat
    BY <1>1, <1>7
  <2> HIDE DEF t, left
  <2> QED
    BY <1>3, <1>5, <1>10, <2>1 DEF Stretcher
<1>12. 100 * take + left >= n + s.error
  BY <1>1, <1>2, <1>3, <1>4, Geometry
<1>13. n >= 100 * OverlapLen => take = advance
  <2> SUFFICES ASSUME n >= 100 * OverlapLen PROVE take = advance
    OBVIOUS
  <2>1. advance \in Nat /\ OverlapLen \in Nat
    BY <1>3, Geometry
  <2>2. 100 * advance >= 100 * OverlapLen - 99
    BY <1>1, <1>2, <1>3, <2>1
  <2>3. advance >= OverlapLen
    BY <2>1, <2>2
  <2> QED
    BY <1>4, <2>1, <2>3
<1>14. n >= 100 * OverlapLen => 100 * take + left = n + s.error
  BY <1>1, <1>2, <1>3, <1>13
<1> HIDE DEF t
<1>15. s.held - t.held = take
  BY <1>1, <1>6, <1>10
<1> QED
  BY <1>1, <1>6, <1>7, <1>10, <1>11, <1>12, <1>14, <1>15 DEF n, t

\* Laying blocks stays within T.
Closed(v, T) == \A s \in T : s.held >= SampleReq(v) => Lay(s, v) \in T

\* What becomes of s, block after block; and those of them that are short of another block.
Course(v, s) == {r \in Stretcher : \A T \in SUBSET Stretcher : s \in T /\ Closed(v, T) => r \in T}
Short(v, s) == {r \in Course(v, s) : r.held < SampleReq(v)}

LEMMA StretcherClosed == ASSUME NEW v \in Nat PROVE Closed(v, Stretcher)
BY Laid DEF Closed

LEMMA ShortOfShort ==
    ASSUME NEW v \in Nat, NEW s \in Stretcher, s.held < SampleReq(v) PROVE Short(v, s) = {s}
<1>1. SampleReq(v) \in Nat /\ s.held \in Nat
  BY Required DEF Stretcher
<1>2. Closed(v, {s})
  BY <1>1 DEF Closed
<1>3. Course(v, s) \subseteq {s}
  BY <1>2 DEF Course
<1>4. s \in Course(v, s)
  BY DEF Course
<1> QED
  BY <1>3, <1>4 DEF Short

LEMMA ShortOfLaid ==
    ASSUME NEW v \in Nat, NEW s \in Stretcher, s.held >= SampleReq(v)
    PROVE  Short(v, Lay(s, v)) = Short(v, s)
<1>1. Lay(s, v) \in Stretcher
  BY Laid
<1>2. SampleReq(v) \in Nat /\ s.held \in Nat
  BY Required DEF Stretcher
<1>3. Course(v, Lay(s, v)) \subseteq Course(v, s)
  BY DEF Course, Closed
<1>4. ASSUME NEW r \in Short(v, s) PROVE r \in Course(v, Lay(s, v))
  <2>1. r \in Stretcher /\ r \in Course(v, s) /\ r.held < SampleReq(v)
    BY DEF Short, Course
  <2>2. r # s
    BY <1>2, <2>1
  <2> SUFFICES ASSUME NEW T \in SUBSET Stretcher, Lay(s, v) \in T, Closed(v, T) PROVE r \in T
    BY <2>1 DEF Course
  <2>3. T \cup {s} \in SUBSET Stretcher /\ s \in T \cup {s}
    OBVIOUS
  <2>4. Closed(v, T \cup {s})
    BY DEF Closed
  <2>5. r \in T \cup {s}
    BY <2>1, <2>3, <2>4 DEF Course
  <2> QED
    BY <2>2, <2>5
<1> QED
  BY <1>3, <1>4 DEF Short

\* The equation process() is defined by holds: there is such a function.
LEMMA ProcessIs ==
    ASSUME NEW v \in Nat, NEW s \in Stretcher
    PROVE  Process(s, v) = IF s.held >= SampleReq(v) THEN Process(Lay(s, v), v) ELSE s
<1> DEFINE Stage(f, r) == IF r.held >= SampleReq(v) THEN f[Lay(r, v)] ELSE r
           After == [r \in Stretcher |-> CHOOSE x : x \in Short(v, r)]
<1>1. \A r \in Stretcher : After[r] = Stage(After, r)
  <2> SUFFICES ASSUME NEW r \in Stretcher PROVE After[r] = Stage(After, r)
    OBVIOUS
  <2>1. SampleReq(v) \in Nat /\ r.held \in Nat
    BY Required DEF Stretcher
  <2>2. After[r] = CHOOSE x : x \in Short(v, r)
    OBVIOUS
  <2>3. CASE r.held >= SampleReq(v)
    <3>1. After[Lay(r, v)] = CHOOSE x : x \in Short(v, Lay(r, v))
      BY <2>3, Laid
    <3>2. Short(v, Lay(r, v)) = Short(v, r)
      BY <2>3, ShortOfLaid
    <3> HIDE DEF After
    <3> QED
      BY <2>2, <2>3, <3>1, <3>2
  <2>4. CASE ~(r.held >= SampleReq(v))
    <3>1. Short(v, r) = {r}
      BY <2>1, <2>4, ShortOfShort
    <3> HIDE DEF After
    <3>2. After[r] = r
      BY <2>2, <3>1
    <3> QED
      BY <2>4, <3>2
  <2> QED
    BY <2>3, <2>4
<1>2. After = [r \in Stretcher |-> Stage(After, r)]
  <2>1. After = [r \in Stretcher |-> After[r]]
    OBVIOUS
  <2> HIDE DEF After, Stage
  <2> QED
    BY <1>1, <2>1
<1> DEFINE g == CHOOSE f : f = [r \in Stretcher |-> Stage(f, r)]
<1>3. g = [r \in Stretcher |-> Stage(g, r)]
  <2> HIDE DEF After, Stage
  <2> QED
    BY <1>2
<1>4. \A r : Process(r, v) = g[r]
  BY DEF Process
<1>5. g[s] = Stage(g, s)
  <2> HIDE DEF g, Stage
  <2> QED
    BY <1>3
<1> HIDE DEF g
<1> QED
  BY <1>4, <1>5

\* process() ends, short of another block, in any set that laying blocks does not leave.
LEMMA Processed ==
    ASSUME NEW v \in Nat, NEW T \in SUBSET Stretcher, Closed(v, T), NEW s \in T
    PROVE  Process(s, v) \in T /\ Process(s, v).held < SampleReq(v)
<1> DEFINE Fine(r) == Process(r, v) \in T /\ Process(r, v).held < SampleReq(v)
           Bad == {r.held : r \in {r \in T : ~Fine(r)}}
<1>1. \A r \in T : r \in Stretcher /\ r.held \in Nat
  BY DEF Stretcher
<1>2. SampleReq(v) \in Nat
  BY Required
<1> SUFFICES ASSUME Bad # {} PROVE FALSE
  OBVIOUS
<1>3. Bad \in SUBSET Nat
  BY <1>1
<1>4. PICK m \in Bad : \A n \in Bad : m <= n
  <2>1. PICK m \in Bad : \A n \in Bad : ~(<<n, m>> \in OpToRel(<, Nat))
    <3> HIDE DEF Bad
    <3> QED
      BY <1>3, NatLessThanWellFounded, WFMin
  <2>2. \A n \in Bad : ~(n < m)
    BY <1>3, <2>1 DEF OpToRel
  <2> HIDE DEF Bad
  <2> QED
    BY <1>3, <2>2
<1>5. PICK r \in T : ~Fine(r) /\ r.held = m
  BY <1>4
<1>6. Process(r, v) = IF r.held >= SampleReq(v) THEN Process(Lay(r, v), v) ELSE r
  BY <1>1, ProcessIs
<1>7. CASE r.held >= SampleReq(v)
  <2>1. Lay(r, v) \in T /\ Lay(r, v).held < r.held
    BY <1>1, <1>7, Laid DEF Closed
  <2>2. Process(Lay(r, v), v) = Process(r, v)
    BY <1>6, <1>7
  <2>3. ~Fine(Lay(r, v))
    BY <1>5, <2>2
  <2>4. Lay(r, v).held \in Bad
    BY <2>1, <2>3
  <2> HIDE DEF Bad
  <2> QED
    BY <1>1, <1>4, <1>5, <2>1, <2>4
<1>8. CASE ~(r.held >= SampleReq(v))
  BY <1>1, <1>2, <1>5, <1>6, <1>8
<1> QED
  BY <1>7, <1>8

\* No block advances the input by its tail alone.
Steady(v) == NominalSkip(v) >= 100 * OverlapLen

\* After an input of q frames, p of them the clip's: what has been made is what the input so
\* far consumed comes to at this speed, less the tail that waits for the next block, and b of
\* it has been taken.
InStep(v, p, q, b) ==
    {s \in Stretcher :
        /\ s.pushed = p /\ s.made = s.ready + b /\ s.held <= q
        /\ ~s.primed => s.made = 0 /\ s.error = 0 /\ s.held = q
        /\ s.primed =>
            /\ s.held >= OverlapLen + SeekLen
            /\ 100 * (q - s.held) + s.error >= v * (s.made + OverlapLen)
            /\ Steady(v) => 100 * (q - s.held) + s.error = v * (s.made + OverlapLen)}

LEMMA FreshInStep == ASSUME NEW v \in Nat PROVE Fresh \in InStep(v, 0, 0, 0)
BY DEF Fresh, InStep, Stretcher

LEMMA Times ==
    ASSUME NEW v \in Nat, NEW x \in Int, NEW y \in Int
    PROVE  v * x \in Int /\ v * y \in Int /\ v * (x + y) = v * x + v * y
OBVIOUS

LEMMA Carried ==
    ASSUME NEW q \in Int, NEW h \in Int, NEW k \in Int, NEW e \in Int, NEW f \in Int,
           NEW u \in Int, NEW n \in Int
    PROVE  /\ 100 * (q - h) + e >= u /\ 100 * (h - k) + f >= n + e => 100 * (q - k) + f >= u + n
           /\ 100 * (q - h) + e = u /\ 100 * (h - k) + f = n + e => 100 * (q - k) + f = u + n
OBVIOUS

LEMMA InStepClosed ==
    ASSUME NEW v \in Nat, NEW p \in Nat, NEW q \in Nat, NEW b \in Nat
    PROVE  InStep(v, p, q, b) \in SUBSET Stretcher /\ Closed(v, InStep(v, p, q, b))
<1> SUFFICES ASSUME NEW s \in InStep(v, p, q, b), s.held >= SampleReq(v)
             PROVE  Lay(s, v) \in InStep(v, p, q, b)
  BY DEF Closed, InStep
<1> DEFINE t == Lay(s, v)
           n == NominalSkip(v)
           more == LaidBy(s)
<1>1. s \in Stretcher
  BY DEF InStep
<1>2. /\ s.held \in Nat /\ s.made \in Nat /\ s.ready \in Nat /\ s.error \in -50..49
      /\ s.primed \in BOOLEAN
  BY <1>1 DEF Stretcher
<1>3. t \in Stretcher /\ t.pushed = s.pushed /\ t.primed /\ t.held < s.held
      /\ t.held >= OverlapLen + SeekLen /\ more \in Nat
      /\ t.made = s.made + more /\ t.ready = s.ready + more
  BY <1>1, Laid
<1>4. 100 * (s.held - t.held) + t.error >= n + s.error
  BY <1>1, Laid
<1>5. Steady(v) => 100 * (s.held - t.held) + t.error = n + s.error
  BY <1>1, Laid DEF Steady
<1>6. t.held \in Nat /\ t.error \in -50..49 /\ t.made \in Nat /\ n \in Nat
  BY <1>3, SkipIs DEF Stretcher
<1>7. s.pushed = p /\ s.made = s.ready + b /\ s.held <= q
  BY DEF InStep
<1>8. ~s.primed => s.made = 0 /\ s.error = 0 /\ s.held = q
  BY DEF InStep
<1>9. s.primed => /\ 100 * (q - s.held) + s.error >= v * (s.made + OverlapLen)
                  /\ Steady(v) => 100 * (q - s.held) + s.error = v * (s.made + OverlapLen)
  BY DEF InStep
<1>10. n = v * (SeqLen - OverlapLen) /\ SeqLen - OverlapLen \in Int
  BY Geometry DEF NominalSkip
<1>11. more = SeqLen - 2 * OverlapLen + (IF s.primed THEN OverlapLen ELSE 0)
  BY DEF LaidBy
<1>12. s.primed => v * (t.made + OverlapLen) = v * (s.made + OverlapLen) + n
  <2> HAVE s.primed
  <2>1. t.made + OverlapLen = (s.made + OverlapLen) + (SeqLen - OverlapLen)
        /\ s.made + OverlapLen \in Int
    BY <1>2, <1>3, <1>11, Geometry
  <2> QED
    BY <1>10, <2>1, Times
<1>13. ~s.primed => v * (t.made + OverlapLen) = n
  <2> HAVE ~s.primed
  <2>1. t.made + OverlapLen = SeqLen - OverlapLen
    BY <1>2, <1>3, <1>8, <1>11, Geometry
  <2> QED
    BY <1>10, <2>1
<1> DEFINE w == v * (t.made + OverlapLen)
           u == v * (s.made + OverlapLen)
<1>14. w \in Int /\ u \in Int
  <2>1. t.made + OverlapLen \in Int /\ s.made + OverlapLen \in Int
    BY <1>2, <1>6, Geometry
  <2> HIDE DEF t
  <2> QED
    BY <2>1, Times
<1>15. (s.primed => w = u + n) /\ (~s.primed => w = n)
  BY <1>12, <1>13
<1>16. s.primed => /\ 100 * (q - s.held) + s.error >= u
                   /\ Steady(v) => 100 * (q - s.held) + s.error = u
  BY <1>9
<1> HIDE DEF t, n, more, w, u
<1>17. /\ q \in Int /\ s.held \in Int /\ t.held \in Int /\ s.error \in Int /\ t.error \in Int
       /\ u \in Int /\ n \in Int
  BY <1>2, <1>6, <1>14
<1>18. 100 * (q - t.held) + t.error >= w
  <2>1. CASE s.primed
    <3>1. 100 * (q - s.held) + s.error >= u /\ w = u + n
      BY <1>15, <1>16, <2>1
    <3> QED
      BY <1>4, <1>17, <3>1, Carried
  <2>2. CASE ~s.primed
    BY <1>2, <1>4, <1>6, <1>8, <1>14, <1>15, <2>2
  <2> QED
    BY <2>1, <2>2
<1>19. Steady(v) => 100 * (q - t.held) + t.error = w
  <2> HAVE Steady(v)
  <2>1. CASE s.primed
    <3>1. 100 * (q - s.held) + s.error = u /\ w = u + n
      BY <1>15, <1>16, <2>1
    <3> QED
      BY <1>5, <1>17, <3>1, Carried
  <2>2. CASE ~s.primed
    BY <1>2, <1>5, <1>6, <1>8, <1>14, <1>15, <2>2
  <2> QED
    BY <2>1, <2>2
<1>20. t.made = t.ready + b /\ t.held <= q
  BY <1>2, <1>3, <1>6, <1>7
<1>21. t \in InStep(v, p, q, b)
  BY <1>3, <1>7, <1>18, <1>19, <1>20 DEF InStep, w
<1> QED
  BY <1>21 DEF t

\* A buffer of sound goes in; what comes out is taken.
LEMMA PushedInStep ==
    ASSUME NEW v \in Nat, NEW p \in Nat, NEW b \in Nat, NEW s \in InStep(v, p, p, b), NEW f \in Nat
    PROVE  PushFrames(s, v, f) \in InStep(v, p + f, p + f, b)
<1> DEFINE t == [s EXCEPT !.held = @ + f, !.pushed = @ + f]
<1>1. s \in Stretcher /\ s.held \in Nat /\ s.pushed \in Nat
  BY DEF InStep, Stretcher
<1>2. t \in Stretcher /\ t.held = s.held + f /\ t.pushed = s.pushed + f
      /\ t.made = s.made /\ t.ready = s.ready /\ t.error = s.error /\ t.primed = s.primed
  <2>1. t.held = s.held + f /\ t.pushed = s.pushed + f /\ t.made = s.made /\ t.ready = s.ready
        /\ t.error = s.error /\ t.primed = s.primed
    BY <1>1 DEF Stretcher
  <2>2. s.held + f \in Nat /\ s.pushed + f \in Nat
    BY <1>1
  <2>3. t \in Stretcher
    BY <1>1, <2>2 DEF Stretcher
  <2> QED
    BY <2>1, <2>3
<1>3. (p + f) - (s.held + f) = p - s.held /\ p + f \in Nat
  BY <1>1
<1>4. t \in InStep(v, p + f, p + f, b)
  <2> HIDE DEF t
  <2>1. t.pushed = p + f /\ t.made = t.ready + b /\ t.held <= p + f
    BY <1>1, <1>2 DEF InStep
  <2>2. ~t.primed => t.made = 0 /\ t.error = 0 /\ t.held = p + f
    BY <1>1, <1>2 DEF InStep
  <2>3. s.primed => s.held >= OverlapLen + SeekLen
    BY DEF InStep
  <2>4. t.primed => t.held >= OverlapLen + SeekLen
    BY <1>1, <1>2, <2>3, Geometry
  <2>5. s.primed => /\ 100 * (p - s.held) + s.error >= v * (s.made + OverlapLen)
                    /\ Steady(v) => 100 * (p - s.held) + s.error = v * (s.made + OverlapLen)
    BY DEF InStep
  <2>6. (p + f) - t.held = p - s.held
    BY <1>2, <1>3
  <2>7. t.primed => /\ 100 * ((p + f) - t.held) + t.error >= v * (t.made + OverlapLen)
                    /\ Steady(v) => 100 * ((p + f) - t.held) + t.error = v * (t.made + OverlapLen)
    BY <1>2, <2>5, <2>6
  <2> QED
    BY <1>2, <2>1, <2>2, <2>4, <2>7 DEF InStep
<1>5. Process(t, v) \in InStep(v, p + f, p + f, b)
  <2> HIDE DEF t
  <2>1. Closed(v, InStep(v, p + f, p + f, b)) /\ InStep(v, p + f, p + f, b) \in SUBSET Stretcher
    BY <1>3, InStepClosed
  <2> QED
    BY <1>4, <2>1, Processed
<1> QED
  BY <1>5 DEF PushFrames

LEMMA TakenInStep ==
    ASSUME NEW v \in Nat, NEW p \in Nat, NEW b \in Nat, NEW s \in InStep(v, p, p, b)
    PROVE  /\ s.ready \in Nat /\ TakeAll(s) \in InStep(v, p, p, b + s.ready)
           /\ TakeAll(s).ready = 0
<1>1. s \in Stretcher /\ s.ready \in Nat /\ s.made = s.ready + b
  BY DEF InStep, Stretcher
<1>2. /\ TakeAll(s) \in Stretcher /\ TakeAll(s).ready = 0 /\ TakeAll(s).held = s.held
      /\ TakeAll(s).pushed = s.pushed /\ TakeAll(s).made = s.made
      /\ TakeAll(s).error = s.error /\ TakeAll(s).primed = s.primed
  BY <1>1 DEF TakeAll, Stretcher
<1>3. s.made = 0 + (b + s.ready)
  BY <1>1
<1> QED
  BY <1>1, <1>2, <1>3 DEF InStep

\* llround() of a quotient.
LEMMA StretchedIs ==
    ASSUME NEW v \in Nat, v >= 1, NEW p \in Nat
    PROVE  /\ Stretched(p, v) \in Nat
           /\ 2 * (v * Stretched(p, v)) <= 200 * p + v
           /\ 200 * p + v < 2 * (v * Stretched(p, v)) + 2 * v
<1> DEFINE d == 2 * v
           n == 200 * p + v
           w == n \div d
<1>1. n \in Nat /\ d \in Nat /\ d >= 1
  OBVIOUS
<1>2. w \in Nat /\ d * w <= n /\ n < d * w + d
  <2> HIDE DEF n, d
  <2> QED
    BY <1>1
<1>3. d * w = 2 * (v * w)
  <2> HIDE DEF w
  <2> QED
    BY <1>2
<1>4. Stretched(p, v) = w
  BY DEF Stretched
<1> HIDE DEF w
<1> QED
  BY <1>2, <1>3, <1>4

LEMMA Within ==
    ASSUME NEW v \in Nat, v >= 1, NEW x \in Int, NEW y \in Int
    PROVE  /\ v * x \in Int /\ v * y \in Int
           /\ v * x <= v * y => x <= y
           /\ v * x < v * y => x < y
OBVIOUS

\* What flush() adds takes the sound to the length of the stretched clip, or, with the tail
\* that fades into nothing, just short of it.
LEMMA FlushFits ==
    ASSUME NEW v \in Nat, v >= 1, NEW p \in Nat, NEW b \in Nat, NEW s \in InStep(v, p, p, b),
           s.ready = 0
    PROVE  /\ Flush(s, v).ready \in Nat /\ b + Flush(s, v).ready <= Stretched(p, v)
           /\ Steady(v) => b + Flush(s, v).ready >= Stretched(p, v) - OverlapLen
<1> DEFINE whole == Stretched(p, v)
           R == SampleReq(v)
           padded == IF s.held > 0 THEN Process([s EXCEPT !.held = @ + R], v) ELSE s
           excess == padded.made - whole
           drop == Max({0, Min({excess, padded.ready})})
           Fits == /\ padded \in Stretcher /\ padded.made \in Nat /\ padded.ready \in Nat
                   /\ padded.made = padded.ready + b
                   /\ Steady(v) => padded.made + OverlapLen >= whole
<1>1. s \in Stretcher /\ s.held \in Nat /\ s.made = b /\ s.error \in -50..49 /\ s.pushed = p
  BY DEF InStep, Stretcher
<1>2. /\ whole \in Nat /\ v * whole \in Int /\ 2 * (v * whole) <= 200 * p + v
      /\ 200 * p + v < 2 * (v * whole) + 2 * v
  BY StretchedIs, Times
<1>3. v * (whole + 1) = v * whole + v /\ v * (whole - 1) = v * whole - v
  BY <1>2, Times
<1> HIDE DEF whole
<1>4. b <= whole
  <2>1. CASE ~s.primed
    BY <1>1, <1>2, <2>1 DEF InStep
  <2>2. CASE s.primed
    <3>1. s.held >= OverlapLen + SeekLen /\ 100 * (p - s.held) + s.error >= v * (b + OverlapLen)
      BY <1>1, <2>2 DEF InStep
    <3>2. v * (b + OverlapLen) = v * b + v * OverlapLen /\ v * b \in Int /\ v * OverlapLen \in Nat
      BY Geometry, Times
    <3>3. 2 * (v * b) <= 200 * p
      BY <1>1, <3>1, <3>2, Geometry
    <3>4. v * b < v * (whole + 1)
      BY <1>2, <1>3, <3>2, <3>3
    <3>5. b < whole + 1
      BY <1>2, <3>4, Within
    <3> QED
      BY <1>2, <3>5
  <2> QED
    BY <2>1, <2>2
<1>5. R \in Nat /\ R >= 1
  BY Required, Geometry
<1>6. ASSUME s.held > 0 PROVE Fits
  <2> DEFINE t == [s EXCEPT !.held = @ + R]
             q == p + R
  <2>1. q \in Nat /\ s.held + R \in Nat
    BY <1>1, <1>5
  <2> HIDE DEF R
  <2>2. t \in Stretcher
    BY <1>1, <2>1 DEF Stretcher
  <2>3. t.held = s.held + R /\ t.pushed = s.pushed /\ t.made = s.made /\ t.ready = s.ready
        /\ t.error = s.error /\ t.primed = s.primed
    BY <1>1 DEF Stretcher
  <2> HIDE DEF t
  <2>4. q - t.held = p - s.held
    BY <1>1, <1>5, <2>3
  <2>5. s.primed => s.held >= OverlapLen + SeekLen
    BY DEF InStep
  <2>6. t.primed => t.held >= OverlapLen + SeekLen
    BY <1>1, <1>5, <2>3, <2>5, Geometry
  <2>7. s.primed => /\ 100 * (p - s.held) + s.error >= v * (s.made + OverlapLen)
                    /\ Steady(v) => 100 * (p - s.held) + s.error = v * (s.made + OverlapLen)
    BY DEF InStep
  <2>8. t.primed => /\ 100 * (q - t.held) + t.error >= v * (t.made + OverlapLen)
                    /\ Steady(v) => 100 * (q - t.held) + t.error = v * (t.made + OverlapLen)
    BY <2>3, <2>4, <2>7
  <2>9. s.made = s.ready + b /\ s.held <= p /\ (~s.primed => s.made = 0 /\ s.error = 0 /\ s.held = p)
    BY DEF InStep
  <2>10. t.pushed = p /\ t.made = t.ready + b /\ t.held <= q
         /\ (~t.primed => t.made = 0 /\ t.error = 0 /\ t.held = q)
    BY <1>1, <1>5, <2>3, <2>9
  <2>11. t \in InStep(v, p, q, b)
    BY <2>2, <2>6, <2>8, <2>10 DEF InStep
  <2>12. Closed(v, InStep(v, p, q, b)) /\ InStep(v, p, q, b) \in SUBSET Stretcher
    BY <2>1, InStepClosed
  <2>13. padded = Process(t, v)
    BY <1>6 DEF t
  <2> HIDE DEF padded, q
  <2>14. padded \in InStep(v, p, q, b) /\ padded.held < R
    BY <2>11, <2>12, <2>13, Processed DEF R
  <2>15. /\ padded \in Stretcher /\ padded.made \in Nat /\ padded.ready \in Nat
         /\ padded.held \in Nat /\ padded.error \in -50..49 /\ padded.made = padded.ready + b
    BY <2>14 DEF InStep, Stretcher
  <2>16. padded.primed
    <3>1. ~padded.primed => padded.held = q
      BY <2>14 DEF InStep
    <3> QED
      BY <1>5, <2>14, <2>15, <3>1 DEF q
  <2>17. ASSUME Steady(v) PROVE padded.made + OverlapLen >= whole
    <3>1. 100 * (q - padded.held) + padded.error = v * (padded.made + OverlapLen)
      BY <2>14, <2>16, <2>17 DEF InStep
    <3>2. q - padded.held >= p + 1
      BY <1>5, <2>14, <2>15 DEF q
    <3>3. q \in Int /\ padded.made + OverlapLen \in Int /\ whole - 1 \in Int
      BY <1>2, <1>5, <2>15, Geometry DEF q
    <3>4. 100 * (q - padded.held) + padded.error >= 100 * p + 50
      BY <2>15, <3>2, <3>3
    <3> DEFINE w == v * (padded.made + OverlapLen)
               u == v * (whole - 1)
    <3>5. w >= 100 * p + 50 /\ w \in Int /\ u \in Int
      BY <3>1, <3>3, <3>4, Times
    <3>6. u = v * whole - v
      BY <1>3
    <3> HIDE DEF w, u
    <3>7. u < w
      BY <1>2, <3>5, <3>6
    <3>8. v * (whole - 1) < v * (padded.made + OverlapLen)
      BY <3>7 DEF u, w
    <3>9. whole - 1 < padded.made + OverlapLen
      BY <3>3, <3>8, Within
    <3> QED
      BY <1>2, <3>3, <3>9
  <2> QED
    BY <2>15, <2>17
<1>7. ASSUME ~(s.held > 0) PROVE Fits
  <2>1. padded = s
    BY <1>7
  <2>2. s.primed => s.held >= OverlapLen + SeekLen
    BY DEF InStep
  <2>3. ~s.primed
    BY <1>1, <1>7, <2>2, Geometry
  <2>4. s.made = 0 /\ s.held = p
    BY <2>3 DEF InStep
  <2>5. p = 0
    BY <1>1, <1>7, <2>4
  <2>6. v * whole < v * 1
    BY <1>2, <2>5
  <2>7. whole < 1
    BY <1>2, <2>6, Within
  <2>8. padded \in Stretcher /\ padded.made = 0 /\ padded.ready = 0 /\ b = 0
    BY <1>1, <2>1, <2>4
  <2> HIDE DEF padded
  <2> QED
    BY <1>2, <2>7, <2>8, Geometry
<1> HIDE DEF padded, R
<1>8. /\ padded \in Stretcher /\ padded.made \in Nat /\ padded.ready \in Nat
      /\ padded.made = padded.ready + b
      /\ Steady(v) => padded.made + OverlapLen >= whole
  BY <1>6, <1>7
<1>9. excess \in Int /\ excess <= padded.ready
  BY <1>2, <1>4, <1>8
<1>10. drop = IF excess > 0 THEN excess ELSE 0
  <2> DEFINE m == Min({excess, padded.ready})
  <2>1. m \in {excess, padded.ready} /\ m <= excess /\ m <= padded.ready
    <3>1. excess \in Int
      BY <1>9
    <3>2. padded.ready \in Int
      BY <1>8
    <3> HIDE DEF excess
    <3> QED
      BY <3>1, <3>2, OfTwo
  <2> HIDE DEF m, excess
  <2>2. m = excess
    BY <1>8, <1>9, <2>1
  <2>3. Max({0, m}) \in {0, m} /\ Max({0, m}) >= 0 /\ Max({0, m}) >= m
    <3>1. m \in Int
      BY <1>9, <2>2
    <3>2. 0 \in Int
      OBVIOUS
    <3> QED
      BY <3>1, <3>2, OfTwo
  <2>4. Max({0, m}) = IF m > 0 THEN m ELSE 0
    <3> DEFINE n == Max({0, m})
    <3>1. m \in Int
      BY <1>9, <2>2
    <3>2. n \in {0, m} /\ n >= 0 /\ n >= m
      BY <2>3
    <3> HIDE DEF n
    <3>3. n = IF m > 0 THEN m ELSE 0
      BY <3>1, <3>2
    <3> QED
      BY <3>3 DEF n
  <2> QED
    BY <2>2, <2>4 DEF m
<1>11. Flush(s, v) = [padded EXCEPT !.made = @ - drop, !.ready = @ - drop]
  BY <1>1 DEF Flush, padded, whole, R
<1>12. Flush(s, v).ready = padded.ready - drop
  <2> HIDE DEF drop, excess
  <2> QED
    BY <1>8, <1>11 DEF Stretcher
<1>13. b + Flush(s, v).ready = IF padded.made > whole THEN whole ELSE padded.made
  <2>1. CASE padded.made > whole
    BY <1>2, <1>8, <1>10, <1>12, <2>1
  <2>2. CASE ~(padded.made > whole)
    BY <1>2, <1>8, <1>10, <1>12, <2>2
  <2> QED
    BY <2>1, <2>2
<1>14. Flush(s, v).ready \in Nat
  <2>1. drop \in Int /\ drop <= padded.ready
    BY <1>8, <1>9, <1>10
  <2> HIDE DEF drop
  <2> QED
    BY <1>8, <1>12, <2>1
<1>15. b + Flush(s, v).ready <= whole
  BY <1>2, <1>8, <1>13
<1>16. Steady(v) => b + Flush(s, v).ready >= whole - OverlapLen
  BY <1>2, <1>8, <1>13, Geometry
<1> QED
  BY <1>14, <1>15, <1>16 DEF whole

-----------------------------------------------------------------------------
(* The sound of a run: every packet from the IN on is heard, once.         *)

Mute == format = "none" \/ (speed # 100 /\ format # "planar")

Sounds == [dec : SUBSET Int, stretch : Stretcher, heard : Nat]

\* The sound of c packets.
SoundOf(s, c) ==
    /\ s \in Sounds
    /\ Mute => s.heard = 0 /\ s.stretch = Fresh
    /\ ~Mute /\ speed = 100 => s.heard = Buffer * c /\ s.stretch = Fresh
    /\ ~Mute /\ speed # 100 =>
         s.stretch \in InStep(speed, Buffer * c, Buffer * c, s.heard) /\ s.stretch.ready = 0

LEMMA SoundGoesOn ==
    ASSUME speed \in 5..400, NEW s, NEW c \in Nat, SoundOf(s, c), format # "none",
           NEW m \in Int, lo <= m, lo \in Int
    PROVE  SoundOf(Heard(s, m), c + 1) /\ Heard(s, m).dec = s.dec
<1>1. s \in Sounds /\ s.heard \in Nat /\ s.stretch \in Stretcher /\ Buffer \in Nat /\ speed \in Nat
  BY SoundAssumption DEF SoundOf, Sounds
<1>2. Buffer * c \in Nat /\ Buffer * (c + 1) = Buffer * c + Buffer
  BY <1>1
<1>3. ~(m < lo)
  OBVIOUS
<1>4. CASE Mute
  <2>1. Heard(s, m) = s
    BY <1>3, <1>4 DEF Heard, Mute
  <2> QED
    BY <1>4, <2>1 DEF SoundOf
<1>5. CASE ~Mute /\ speed = 100
  <2>1. Heard(s, m) = [s EXCEPT !.heard = s.heard + Buffer]
    BY <1>3, <1>5 DEF Heard
  <2>2. /\ Heard(s, m) \in Sounds /\ Heard(s, m).heard = s.heard + Buffer
        /\ Heard(s, m).stretch = s.stretch /\ Heard(s, m).dec = s.dec
    BY <1>1, <2>1 DEF Sounds
  <2>3. s.heard = Buffer * c /\ s.stretch = Fresh
    BY <1>5 DEF SoundOf
  <2> QED
    BY <1>2, <1>5, <2>2, <2>3 DEF SoundOf
<1>6. CASE ~Mute /\ speed # 100
  <2> DEFINE p == Buffer * c
             st == PushFrames(s.stretch, speed, Buffer)
  <2>1. format = "planar"
    BY <1>6 DEF Mute
  <2>2. Heard(s, m) = [s EXCEPT !.stretch = TakeAll(st), !.heard = s.heard + st.ready]
    BY <1>3, <1>6, <2>1 DEF Heard
  <2>3. s.stretch \in InStep(speed, p, p, s.heard)
    BY <1>6 DEF SoundOf
  <2>4. p \in Nat /\ p + Buffer \in Nat /\ p + Buffer = Buffer * (c + 1)
    BY <1>1, <1>2
  <2> HIDE DEF p, st
  <2>5. st \in InStep(speed, p + Buffer, p + Buffer, s.heard)
    BY <1>1, <2>3, <2>4, PushedInStep DEF st
  <2>6. /\ st.ready \in Nat /\ TakeAll(st).ready = 0
        /\ TakeAll(st) \in InStep(speed, p + Buffer, p + Buffer, s.heard + st.ready)
    BY <1>1, <2>4, <2>5, TakenInStep
  <2>7. TakeAll(st) \in Stretcher /\ s.heard + st.ready \in Nat
    BY <1>1, <2>6 DEF InStep
  <2>8. /\ Heard(s, m) \in Sounds /\ Heard(s, m).heard = s.heard + st.ready
        /\ Heard(s, m).stretch = TakeAll(st) /\ Heard(s, m).dec = s.dec
    BY <1>1, <2>2, <2>7 DEF Sounds
  <2> QED
    BY <1>6, <2>4, <2>6, <2>8 DEF SoundOf
<1> QED
  BY <1>4, <1>5, <1>6

LEMMA SoundStays ==
    ASSUME NEW s, NEW c, SoundOf(s, c), NEW D \in SUBSET Int
    PROVE  SoundOf([s EXCEPT !.dec = D], c) /\ [s EXCEPT !.dec = D].dec = D
<1>1. s \in Sounds
  BY DEF SoundOf
<1> DEFINE t == [s EXCEPT !.dec = D]
<1>2. t \in Sounds /\ t.dec = D /\ t.stretch = s.stretch /\ t.heard = s.heard
  BY <1>1 DEF Sounds
<1> HIDE DEF t
<1>3. SoundOf(t, c)
  BY <1>2 DEF SoundOf
<1> QED
  BY <1>2, <1>3 DEF t

\* Of the first n - 1 packets: those with sound, and those of them heard once those of D are
\* still to come.
Audible(n) == {i \in 1..(n - 1) : span[i].kind = "audio"}
Sounded(n, D) == {i \in Audible(n) : lo <= span[i].at /\ span[i].at \notin D}

SoundOK(s, n) ==
    /\ \A at \in s.dec : \E i \in Audible(n) : span[i].at = at
    /\ format = "none" => s.dec = {}
    /\ SoundOf(s, Cardinality(Sounded(n, s.dec)))

LEMMA SoundedIs ==
    ASSUME span \in Clips, NEW n \in 1..(Len(span) + 1), NEW D
    PROVE  /\ IsFiniteSet(Audible(n)) /\ IsFiniteSet(Sounded(n, D))
           /\ Cardinality(Sounded(n, D)) \in Nat
           /\ Audible(n) \in SUBSET DOMAIN span /\ Audible(n) \in SUBSET Int
           /\ \A i, j \in Audible(n) : span[i].at = span[j].at => i = j
           /\ \A i \in Audible(n) : span[i].at \in Int
<1>1. Len(span) \in Nat /\ DOMAIN span = 1..Len(span)
  BY SpanFacts
<1>2. IsFiniteSet(1..(n - 1))
  BY <1>1, FS_Interval
<1>3. Audible(n) \in SUBSET (1..(n - 1)) /\ Sounded(n, D) \in SUBSET (1..(n - 1))
  BY DEF Audible, Sounded
<1>4. IsFiniteSet(Audible(n)) /\ IsFiniteSet(Sounded(n, D))
  BY <1>2, <1>3, FS_Subset
<1>5. Cardinality(Sounded(n, D)) \in Nat
  BY <1>4, FS_CardinalityType
<1>6. Audible(n) \in SUBSET DOMAIN span /\ Audible(n) \in SUBSET Int
  BY <1>1, <1>3
<1>7. \A i \in Audible(n) : span[i].at \in Int
  BY <1>6, SpanFacts
<1>8. \A i, j \in Audible(n) : span[i].at = span[j].at => i = j
  <2> SUFFICES ASSUME NEW i \in Audible(n), NEW j \in Audible(n), span[i].at = span[j].at
               PROVE  i = j
    OBVIOUS
  <2>1. span[i].kind = span[j].kind /\ i \in DOMAIN span /\ j \in DOMAIN span
    BY <1>6 DEF Audible
  <2> QED
    BY <2>1, SpanFacts
<1> QED
  BY <1>4, <1>5, <1>6, <1>7, <1>8

\* A packet the decoder gives back is heard, unless it lies before the IN.
LEMMA OneHeard ==
    ASSUME span \in Clips, lo \in Int, speed \in 5..400, NEW n \in 1..(Len(span) + 1), NEW s,
           SoundOK(s, n), NEW m \in s.dec
    PROVE  SoundOK(Heard([s EXCEPT !.dec = @ \ {m}], m), n)
<1> DEFINE D == s.dec \ {m}
           r == [s EXCEPT !.dec = D]
           c == Cardinality(Sounded(n, s.dec))
<1>1. s.dec \in SUBSET Int /\ SoundOf(s, c) /\ format # "none"
  BY DEF SoundOK, SoundOf, Sounds
<1>2. PICK k \in Audible(n) : span[k].at = m
  BY DEF SoundOK
<1>3. m \in Int /\ c \in Nat
  BY <1>1, SoundedIs
<1>4. SoundOf(r, c) /\ r.dec = D
  <2>1. D \in SUBSET Int
    BY <1>1
  <2> HIDE DEF c, D
  <2> QED
    BY <1>1, <2>1, SoundStays
<1>5. \A at \in D : \E i \in Audible(n) : span[i].at = at
  BY DEF SoundOK
<1>6. Heard([s EXCEPT !.dec = @ \ {m}], m) = Heard(r, m)
  OBVIOUS
<1>7. CASE m < lo
  <2>1. Heard(r, m) = r
    BY <1>7 DEF Heard
  <2>2. Sounded(n, D) = Sounded(n, s.dec)
    <3>1. \A i \in Audible(n) : lo <= span[i].at => span[i].at # m
      BY <1>3, <1>7, SoundedIs
    <3> QED
      BY <3>1 DEF Sounded
  <2> HIDE DEF D, r
  <2>3. SoundOK(r, n)
    BY <1>1, <1>4, <1>5, <2>2 DEF SoundOK, c
  <2> QED
    BY <1>6, <2>1, <2>3
<1>8. CASE lo <= m
  <2>1. Sounded(n, D) = Sounded(n, s.dec) \cup {k} /\ k \notin Sounded(n, s.dec)
    <3>1. \A i \in Audible(n) : span[i].at = m <=> i = k
      BY <1>2, SoundedIs
    <3> QED
      BY <1>2, <1>8, <3>1 DEF Sounded
  <2>2. IsFiniteSet(Sounded(n, s.dec))
    BY SoundedIs
  <2>3. Cardinality(Sounded(n, D)) = c + 1
    <3> HIDE DEF D
    <3> QED
      BY <2>1, <2>2, FS_AddElement
  <2> HIDE DEF c, D, r
  <2>4. SoundOf(Heard(r, m), c + 1) /\ Heard(r, m).dec = D
    BY <1>1, <1>3, <1>4, <1>8, SoundGoesOn
  <2>5. SoundOK(Heard(r, m), n)
    BY <1>1, <1>5, <2>3, <2>4 DEF SoundOK
  <2> QED
    BY <1>6, <2>5
<1> QED
  BY <1>3, <1>7, <1>8

\* The next packet: what is before the decoder is not heard yet.
LEMMA NextIsSound ==
    ASSUME span \in Clips, lo \in Int, speed \in 5..400, NEW n \in 1..Len(span), NEW s, SoundOK(s, n),
           span[n].kind = "audio"
    PROVE  SoundOK(Pumped(s, span[n].at), n + 1)
<1> DEFINE at == span[n].at
           inside == s.dec \cup {at}
           r == [s EXCEPT !.dec = inside]
           c == Cardinality(Sounded(n, s.dec))
<1>1. Len(span) \in Nat /\ n \in 1..(Len(span) + 1) /\ n + 1 \in 1..(Len(span) + 1)
      /\ DOMAIN span = 1..Len(span) /\ at \in Int
  BY SpanFacts
<1>2. s.dec \in SUBSET Int /\ SoundOf(s, c)
  BY DEF SoundOK, SoundOf, Sounds
<1>3. Audible(n + 1) = Audible(n) \cup {n} /\ n \notin Audible(n)
  BY <1>1 DEF Audible
<1>4. CASE format = "none"
  <2>1. Pumped(s, at) = s /\ s.dec = {} /\ Mute
    BY <1>4 DEF Pumped, SoundOK, Mute
  <2>2. SoundOf(s, Cardinality(Sounded(n + 1, s.dec)))
    BY <1>2, <2>1 DEF SoundOf
  <2> QED
    BY <2>1, <2>2 DEF SoundOK
<1>5. CASE format # "none"
  <2>1. \A i \in Audible(n) : span[i].at # at
    <3>1. n \in Audible(n + 1) /\ Audible(n) \in SUBSET Audible(n + 1)
      BY <1>3
    <3>2. \A i \in Audible(n) : span[i].at = span[n].at => i = n
      BY <1>1, <3>1, SoundedIs
    <3> QED
      BY <1>3, <3>2
  <2>2. Sounded(n + 1, inside) = Sounded(n, s.dec)
    BY <1>3, <2>1 DEF Sounded
  <2>3. \A x \in inside : \E i \in Audible(n + 1) : span[i].at = x
    BY <1>3 DEF SoundOK
  <2>4. inside \in SUBSET Int
    BY <1>1, <1>2
  <2> HIDE DEF inside
  <2>5. SoundOf(r, c) /\ r.dec = inside
    <3> HIDE DEF c
    <3> QED
      BY <1>2, <2>4, SoundStays
  <2> HIDE DEF r
  <2>6. SoundOK(r, n + 1)
    BY <1>5, <2>2, <2>3, <2>5 DEF SoundOK, c
  <2>7. CASE Cardinality(inside) <= SoundDelay
    <3>1. Pumped(s, at) = r
      BY <1>5, <2>7 DEF Pumped, r, inside
    <3> QED
      BY <2>6, <3>1
  <2>8. CASE ~(Cardinality(inside) <= SoundDelay)
    <3>1. IsFiniteSet(inside)
      <4> DEFINE f == [i \in Audible(n + 1) |-> span[i].at]
      <4>1. IsFiniteSet(Audible(n + 1))
        BY <1>1, SoundedIs
      <4>2. IsFiniteSet({f[i] : i \in Audible(n + 1)})
        <5> HIDE DEF f
        <5> QED
          BY <4>1, ImageIsFinite
      <4>3. inside \in SUBSET {f[i] : i \in Audible(n + 1)}
        BY <2>3
      <4> QED
        BY <4>2, <4>3, FS_Subset
    <3>2. inside # {}
      BY DEF inside
    <3>3. Min(inside) \in inside
      BY <2>4, <3>1, <3>2, Least
    <3>4. Pumped(s, at) = Heard([s EXCEPT !.dec = inside \ {Min(inside)}], Min(inside))
      BY <1>5, <2>8 DEF Pumped, inside
    <3>5. [s EXCEPT !.dec = inside \ {Min(inside)}] = [r EXCEPT !.dec = @ \ {Min(inside)}]
      BY <1>2 DEF r, SoundOf, Sounds
    <3>6. SoundOK(Heard([r EXCEPT !.dec = @ \ {Min(inside)}], Min(inside)), n + 1)
      <4> DEFINE m == Min(inside)
      <4>1. m \in r.dec
        BY <2>5, <3>3
      <4> HIDE DEF m
      <4>2. SoundOK(Heard([r EXCEPT !.dec = @ \ {m}], m), n + 1)
        BY <1>1, <2>6, <4>1, OneHeard
      <4> QED
        BY <4>2 DEF m
    <3> QED
      BY <3>4, <3>5, <3>6
  <2> QED
    BY <2>7, <2>8
<1> QED
  BY <1>4, <1>5

LEMMA NextIsPicture ==
    ASSUME span \in Clips, NEW n \in 1..Len(span), NEW s, SoundOK(s, n), span[n].kind # "audio"
    PROVE  SoundOK(s, n + 1)
<1>1. Len(span) \in Nat
  BY SpanFacts
<1>2. Audible(n + 1) = Audible(n)
  BY <1>1 DEF Audible
<1>3. Sounded(n + 1, s.dec) = Sounded(n, s.dec)
  BY <1>2 DEF Sounded
<1> QED
  BY <1>2, <1>3 DEF SoundOK

\* How long what OBS got lasts, once the stretcher has been flushed.
Fitting(h, c) ==
    IF Mute THEN h = 0
    ELSE IF speed = 100 THEN h = Buffer * c
    ELSE h \in (IF TooSlow THEN 0 ELSE Stretched(Buffer * c, speed) - OverlapLen)
               ..Stretched(Buffer * c, speed)

LEMMA SoundEnds ==
    ASSUME speed \in 5..400, NEW s, NEW c \in Nat, SoundOf(s, c)
    PROVE  Fitting(Flushed(s).heard, c)
<1>1. s \in Sounds /\ s.heard \in Nat /\ s.stretch \in Stretcher /\ Buffer \in Nat /\ speed \in Nat
      /\ speed >= 1
  BY SoundAssumption DEF SoundOf, Sounds
<1>2. Buffer * c \in Nat
  BY <1>1
<1>3. CASE Mute \/ speed = 100
  <2>1. Flushed(s) = s
    BY <1>3 DEF Flushed, SoundOf
  <2> QED
    BY <1>3, <2>1 DEF Fitting, SoundOf
<1>4. CASE ~Mute /\ speed # 100
  <2> DEFINE p == Buffer * c
             whole == Stretched(p, speed)
             st == Flush(s.stretch, speed)
  <2>1. s.stretch \in InStep(speed, p, p, s.heard) /\ s.stretch.ready = 0
    BY <1>4 DEF SoundOf
  <2>2. p \in Nat
    BY <1>2
  <2> HIDE DEF p
  <2>3. /\ whole \in Nat /\ speed * whole \in Int /\ 2 * (speed * whole) <= 200 * p + speed
    <3>1. whole \in Nat /\ 2 * (speed * whole) <= 200 * p + speed
      BY <1>1, <2>2, StretchedIs
    <3> HIDE DEF whole
    <3>2. speed * whole \in Int
      BY <1>1, <3>1
    <3> QED
      BY <3>1, <3>2
  <2>4. CASE s.stretch = Fresh
    <3>1. p = 0 /\ s.heard = 0
      BY <1>1, <2>1, <2>4 DEF InStep, Fresh
    <3>2. speed * whole < speed * 1
      BY <1>1, <2>3, <3>1
    <3> HIDE DEF whole
    <3>3. whole = 0
      BY <1>1, <2>3, <3>2, Within
    <3>4. Flushed(s) = s
      BY <2>4 DEF Flushed
    <3>5. s.heard \in (IF TooSlow THEN 0 ELSE whole - OverlapLen)..whole
      BY <3>1, <3>3, Geometry
    <3> QED
      BY <1>4, <3>4, <3>5 DEF Fitting, whole, p
  <2>5. CASE s.stretch # Fresh
    <3>1. /\ st.ready \in Nat /\ s.heard + st.ready <= whole
          /\ Steady(speed) => s.heard + st.ready >= whole - OverlapLen
      BY <1>1, <2>1, <2>2, FlushFits
    <3> HIDE DEF whole, st
    <3>2. Flushed(s) = [s EXCEPT !.stretch = TakeAll(st), !.heard = s.heard + st.ready]
      BY <2>5 DEF Flushed, st
    <3>3. Flushed(s).heard = s.heard + st.ready
      BY <1>1, <3>2 DEF Sounds
    <3>4. ~TooSlow => Steady(speed)
      <4>1. NominalSkip(speed) \in Nat
        BY <1>1, SkipIs
      <4> QED
        BY <4>1, Geometry DEF TooSlow, Steady
    <3>5. s.heard + st.ready \in (IF TooSlow THEN 0 ELSE whole - OverlapLen)..whole
      <4>1. CASE TooSlow
        BY <1>1, <2>3, <3>1, <4>1
      <4>2. CASE ~TooSlow
        BY <1>1, <2>3, <3>1, <3>4, <4>2, Geometry
      <4> QED
        BY <4>1, <4>2
    <3> QED
      BY <1>4, <3>3, <3>5 DEF Fitting, whole, p
  <2> QED
    BY <2>4, <2>5
<1> QED
  BY <1>3, <1>4

\* Forwards: the sound goes along with the packets sent, and a whole run has sent them all.
SoundInv ==
    /\ speed \in 5..400
    /\ phase \in {"report", "done"} /\ Whole => draining
    /\ phase # "done" => SoundOK(sound, next)
    /\ SoundFitsPictures

\* The properties of the sound do not depend on what the UI thread may change.
LEMMA SoundMoves == ASSUME UNCHANGED given, SoundOK(sound', next') PROVE SoundOK(sound, next)'
<1>1. span' = span /\ lo' = lo /\ speed' = speed /\ format' = format
  BY DEF given
<1>2. Audible(next)' = Audible(next')
  BY <1>1 DEF Audible
<1>3. Sounded(next, sound.dec)' = Sounded(next', sound'.dec)
  BY <1>1, <1>2 DEF Sounded
<1>4. Mute' = Mute
  BY <1>1 DEF Mute
<1> QED
  BY <1>1, <1>2, <1>3, <1>4 DEF SoundOK, SoundOf

LEMMA SoundWaits ==
    ASSUME SoundInv, UNCHANGED <<given, next, sound, completed, capped, draining, phase>>
    PROVE  SoundInv'
<1>1. speed' = speed /\ UNCHANGED given /\ phase' = phase /\ Whole' = Whole /\ draining' = draining
      /\ sound' = sound /\ next' = next /\ backwards' = backwards
  BY DEF given, Whole
<1>2. phase # "done" => SoundOK(sound, next)'
  BY <1>1, SoundMoves DEF SoundInv
<1>3. SoundFitsPictures'
  <2>1. SoundFrames' = SoundFrames /\ TooSlow' = TooSlow /\ format' = format
    BY DEF given, SoundFrames, TooSlow
  <2>2. SoundFitsPictures
    BY DEF SoundInv
  <2> QED
    BY <1>1, <2>1, <2>2, Zenon DEF SoundFitsPictures
<1> QED
  BY <1>1, <1>2, <1>3 DEF SoundInv

LEMMA SoundGivenBack ==
    ASSUME GivenOK, Forw, SoundInv, ~backwards, HearRest \/ Report PROVE SoundInv'
<1>1. /\ phase = "report" /\ completed' = completed /\ capped' = capped /\ draining' = draining
      /\ next' = next /\ speed' = speed /\ backwards' = backwards /\ span' = span /\ lo' = lo
      /\ format' = format /\ UNCHANGED given
  BY DEF HearRest, Report, given, consumer, pictures
<1>2. /\ span \in Clips /\ lo \in Int /\ next \in 1..(Len(span) + 1) /\ SoundOK(sound, next)
      /\ speed \in 5..400
  BY <1>1 DEF GivenOK, SpanGiven, Forw, ForwTyped, SoundInv
<1>3. Whole' = Whole /\ (Whole => draining)
  BY <1>1 DEF Whole, SoundInv
<1>4. CASE HearRest
  <2>1. phase' = "report"
    BY <1>1, <1>4 DEF HearRest, consumer
  <2> DEFINE m == Min(sound.dec)
  <2>2. sound' = Heard([sound EXCEPT !.dec = @ \ {m}], m) /\ sound.dec # {}
    BY <1>4 DEF HearRest
  <2>3. m \in sound.dec
    <3> DEFINE f == [i \in Audible(next) |-> span[i].at]
    <3>1. IsFiniteSet(Audible(next)) /\ sound.dec \in SUBSET Int
      BY <1>2, SoundedIs DEF SoundOK, SoundOf, Sounds
    <3>2. IsFiniteSet({f[i] : i \in Audible(next)})
      <4> HIDE DEF f
      <4> QED
        BY <3>1, ImageIsFinite
    <3>3. sound.dec \in SUBSET {f[i] : i \in Audible(next)}
      BY <1>2 DEF SoundOK
    <3>4. IsFiniteSet(sound.dec)
      BY <3>2, <3>3, FS_Subset
    <3> QED
      BY <2>2, <3>1, <3>4, Least
  <2> HIDE DEF m
  <2>4. SoundOK(Heard([sound EXCEPT !.dec = @ \ {m}], m), next)
    BY <1>2, <2>3, OneHeard
  <2>5. SoundOK(sound, next)'
    BY <1>1, <2>2, <2>4, SoundMoves
  <2> QED
    BY <1>1, <1>2, <1>3, <2>1, <2>5 DEF SoundInv, SoundFitsPictures
<1>5. CASE Report
  <2>1. phase' = "done" /\ sound' = Flushed(sound) /\ (Whole => sound.dec = {})
    BY <1>1, <1>5 DEF Report
  <2> DEFINE c == Cardinality(Sounded(next, sound.dec))
  <2>2. c \in Nat /\ SoundOf(sound, c)
    BY <1>2, SoundedIs DEF SoundOK
  <2>3. Fitting(sound'.heard, c)
    <3> HIDE DEF c
    <3> QED
      BY <1>2, <2>1, <2>2, SoundEnds
  <2>4. Whole => SoundFrames = Buffer * c
    <3> HAVE Whole
    <3>1. sound.dec = {} /\ next > Len(span) /\ Len(span) \in Nat /\ DOMAIN span = 1..Len(span)
      BY <1>2, <1>3, <2>1, SpanFacts DEF Forw, ForwTyped
    <3>2. 1..(next - 1) = DOMAIN span
      BY <1>2, <3>1
    <3>3. Sounded(next, sound.dec) = {i \in DOMAIN span : span[i].kind = "audio" /\ span[i].at >= lo}
      <4>1. \A i \in DOMAIN span : span[i].at >= lo <=> lo <= span[i].at
        BY <1>2, SpanFacts
      <4> QED
        BY <3>1, <3>2, <4>1 DEF Sounded, Audible
    <3> QED
      BY <3>3 DEF SoundFrames
  <2>5. SoundFrames' = SoundFrames /\ TooSlow' = TooSlow
    BY <1>1 DEF SoundFrames, TooSlow
  <2>6. Whole => IF Mute THEN sound'.heard = 0
                 ELSE IF speed = 100 THEN sound'.heard = SoundFrames
                 ELSE sound'.heard \in (IF TooSlow THEN 0
                                        ELSE Stretched(SoundFrames, speed) - OverlapLen)
                                       ..Stretched(SoundFrames, speed)
    <3> HIDE DEF c
    <3> QED
      BY <2>3, <2>4 DEF Fitting
  <2>7. SoundFitsPictures'
    BY <1>1, <1>3, <2>5, <2>6 DEF SoundFitsPictures, Mute
  <2> QED
    BY <1>1, <1>2, <1>3, <2>1, <2>7 DEF SoundInv
<1> QED
  BY <1>4, <1>5

LEMMA SoundSent == ASSUME GivenOK, Forw, SoundInv, ~backwards, SendNext PROVE SoundInv'
<1>1. /\ phase = "loop" /\ phase' \in {"tail", "receive"} /\ UNCHANGED given /\ speed' = speed
  BY DEF SendNext, given
<1>2. /\ span \in Clips /\ lo \in Int /\ next \in 1..(Len(span) + 1) /\ SoundOK(sound, next)
      /\ speed \in 5..400 /\ Len(span) \in Nat
  BY <1>1, SpanFacts DEF GivenOK, SpanGiven, Forw, ForwTyped, SoundInv
<1>3. SoundOK(sound', next')
  <2>1. CASE next' = next /\ sound' = sound
    BY <1>2, <2>1
  <2>2. CASE ~(next' = next /\ sound' = sound)
    <3>1. /\ ~(next > Len(span)) /\ next' = next + 1
          /\ IF span[next].kind = "video" THEN sound' = sound
             ELSE sound' = Pumped(sound, span[next].at)
      BY <2>2 DEF SendNext
    <3>2. next \in 1..Len(span)
      BY <1>2, <3>1
    <3>3. CASE span[next].kind = "video"
      <4>1. span[next].kind # "audio" /\ sound' = sound
        BY <3>1, <3>3
      <4> QED
        BY <1>2, <3>1, <3>2, <4>1, NextIsPicture
    <3>4. CASE span[next].kind # "video"
      <4>1. span[next].kind = "audio"
        <5>1. span[next] \in Packet
          BY <1>2, <3>2, ClipsAssumption DEF Playable
        <5> QED
          BY <3>4, <5>1 DEF Packet
      <4>2. sound' = Pumped(sound, span[next].at)
        BY <3>1, <3>4
      <4> QED
        BY <1>2, <3>1, <3>2, <4>1, <4>2, NextIsSound
    <3> QED
      BY <3>3, <3>4
  <2> QED
    BY <2>1, <2>2
<1>4. SoundOK(sound, next)'
  BY <1>1, <1>3, SoundMoves
<1> QED
  BY <1>1, <1>2, <1>4 DEF SoundInv, SoundFitsPictures

LEMMA StepSound ==
    ASSUME GivenOK, Forw, SoundInv, ~backwards, [RunNext]_runVars PROVE SoundInv'
<1>1. phase \in {"loop", "receive", "wait", "tail", "report", "done"} /\ producer = "done"
  BY DEF Forw, ForwTyped
<1>2. ~TakePass /\ ~ShowBack /\ ~FreePass /\ ~JoinDecoding
  BY <1>1 DEF TakePass, ShowBack, FreePass, JoinDecoding
<1>3. ~DecodePass /\ ~EndDecoding /\ ~HandOver
  BY <1>1 DEF DecodePass, EndDecoding, HandOver
<1>4. CASE Abort \/ SetPaused \/ UNCHANGED runVars
  <2>1. UNCHANGED <<given, next, sound, completed, capped, draining, phase>>
    BY <1>4 DEF Abort, SetPaused, runVars, consumer, forward, pictures
  <2> QED
    BY <2>1, SoundWaits
<1>5. CASE Finished
  BY <1>4, <1>5 DEF Finished
<1>6. CASE Receive \/ Emit \/ Tail_
  <2>1. /\ UNCHANGED given /\ speed' = speed /\ next' = next /\ sound' = sound
        /\ phase \in {"receive", "wait", "tail"}
    BY <1>6 DEF Receive, Emit, Tail_, given
  <2>2. SoundOK(sound, next)'
    BY <2>1, SoundMoves DEF SoundInv
  <2>3. phase' # "done" /\ (phase' = "report" /\ Whole' => draining')
    BY <1>6 DEF Receive, Emit, Tail_, AfterEmit, Whole
  <2> QED
    BY <2>1, <2>2, <2>3 DEF SoundInv, SoundFitsPictures
<1> QED
  BY <1>2, <1>3, <1>4, <1>5, <1>6, SoundGivenBack, SoundSent
     DEF RunNext, Forwards, Backwards, Decoding

-----------------------------------------------------------------------------
(* A run.                                                                  *)

RunInv ==
    /\ GivenOK /\ abort \in BOOLEAN
    /\ backwards => Back
    /\ ~backwards => Forw /\ SoundInv

LEMMA RunStarts == RunInit => RunInv
<1> SUFFICES ASSUME RunInit PROVE RunInv
  OBVIOUS
<1>1. span \in Clips /\ lo \in Int /\ hi \in Int
  <2>1. PICK r \in Ranges : lo = r[1] /\ hi = r[2]
    BY DEF RunInit
  <2> QED
    BY <2>1, GivenAssumption DEF RunInit
<1>2. cap \in Nat /\ delay \in Delays /\ backwards \in BOOLEAN /\ abort \in BOOLEAN
  BY GivenAssumption DEF RunInit
<1>3. backwards => Schedule
  BY <1>1, PlanIsSchedule DEF RunInit, SpanGiven
<1>4. GivenOK
  BY <1>1, <1>2, <1>3 DEF GivenOK, SpanGiven
<1>5. /\ shown = <<>> /\ next = 1 /\ dec = {} /\ ~capped /\ ~draining /\ pass = 0 /\ chunk = {}
      /\ ready = <<>> /\ showing = {} /\ ~stopDecoding /\ ~decodeFailed /\ ~abort
      /\ ToSet(shown) = {} /\ Len(shown) = 0 /\ shown \in Seq(Int)
  BY DEF RunInit, ToSet
<1>6. CASE backwards
  <2>1. /\ phase = (IF passes = <<>> THEN "report" ELSE "take")
        /\ completed = (passes # <<>>)
        /\ producer = (IF phase = "take" THEN "decode" ELSE "done")
    BY <1>6 DEF RunInit
  <2>2. Queue = {} /\ InHand = {} /\ Decoded = {}
    BY <1>5 DEF Queue, InHand, Decoded
  <2>3. BackTyped
    BY <1>2, <1>3, <1>5, <1>6, <2>1 DEF BackTyped, Schedule
  <2>4. BackOrder
    BY <1>5, <2>2 DEF BackOrder, Newer, Falling
  <2>5. BackWhole
    BY <1>5, <2>1, <2>2 DEF BackWhole
  <2> QED
    BY <1>2, <1>4, <1>6, <2>3, <2>4, <2>5 DEF RunInv, Back
<1>7. CASE ~backwards
  <2>1. phase = "loop" /\ producer = "done"
    BY <1>7 DEF RunInit
  <2>2. Len(span) \in Nat
    BY <1>1, SpanFacts
  <2>3. Sent = {} /\ Waiting = {}
    BY <1>5, <2>1 DEF Sent, Waiting, Instants
  <2>4. ForwTyped
    BY <1>5, <2>1, <2>2 DEF ForwTyped
  <2>5. ForwOrder
    BY <1>5, <2>3 DEF ForwOrder, Newer, Rising
  <2>6. ForwWhole
    BY <2>1, <2>3 DEF ForwWhole
  <2>7. SoundInv
    <3>1. sound = [dec |-> {}, stretch |-> Fresh, heard |-> 0] /\ speed \in 5..400
      BY SoundAssumption DEF RunInit
    <3>2. sound \in Sounds /\ sound.dec = {} /\ sound.stretch = Fresh /\ sound.heard = 0
      BY <3>1 DEF Sounds, Fresh, Stretcher
    <3>3. Sounded(next, sound.dec) = {}
      BY <1>5 DEF Sounded, Audible
    <3>4. Cardinality(Sounded(next, sound.dec)) = 0
      BY <3>3, FS_EmptySet
    <3>5. Buffer \in Nat /\ Buffer * 0 = 0 /\ speed \in Nat
      BY <3>1, SoundAssumption
    <3>6. Fresh \in InStep(speed, 0, 0, 0) /\ Fresh.ready = 0
      BY <3>5, FreshInStep DEF Fresh
    <3>7. SoundOf(sound, 0)
      BY <3>2, <3>5, <3>6 DEF SoundOf
    <3>8. SoundOK(sound, next)
      BY <3>2, <3>4, <3>7 DEF SoundOK
    <3> QED
      BY <2>1, <3>1, <3>8 DEF SoundInv, SoundFitsPictures
  <2> QED
    BY <1>2, <1>4, <1>7, <2>4, <2>5, <2>6, <2>7 DEF RunInv, Forw
<1> QED
  BY <1>6, <1>7

LEMMA RunGoesOn == RunInv /\ [RunNext]_runVars => RunInv'
<1> SUFFICES ASSUME RunInv, [RunNext]_runVars PROVE RunInv'
  OBVIOUS
<1>1. UNCHANGED given /\ (abort' = abort \/ abort' = TRUE)
  BY DEF RunNext, Forwards, Backwards, Decoding, SendNext, Receive, Emit, Tail_, HearRest, Report,
         TakePass, ShowBack, FreePass, JoinDecoding, DecodePass, EndDecoding, HandOver, Abort, SetPaused,
         Finished, runVars, outside
<1>2. GivenOK'
  BY <1>1, GivenStays DEF RunInv
<1>3. backwards' = backwards /\ abort' \in BOOLEAN
  BY <1>1 DEF given, RunInv
<1>4. backwards => Back'
  BY StepBack DEF RunInv
<1>5. ~backwards => Forw' /\ SoundInv'
  BY StepForw, StepSound DEF RunInv
<1> QED
  BY <1>2, <1>3, <1>4, <1>5 DEF RunInv

LEMMA RunInvHolds == RunSpec => []RunInv
BY RunStarts, RunGoesOn, PTL DEF RunSpec

\* Whatever the clip, the range, the length of a pass and the way the two threads interleave:
\* the pictures handed to OBS are pictures that were asked for, in the order of the direction,
\* each once, and a run that goes back shows no more of them than its cap.
THEOREM PicturesComeInOrder == RunSpec => []ShownInOrder
<1>1. RunInv => ShownInOrder
  <2> SUFFICES ASSUME RunInv PROVE ShownInOrder
    OBVIOUS
  <2>1. CASE backwards
    <3>1. ToSet(shown) \subseteq Asked /\ Falling(shown)
      BY <2>1 DEF RunInv, Back, BackOrder, Decoded
    <3>2. backwards /\ cap > 0 => Len(shown) <= cap
      BY <2>1 DEF RunInv, Back, BackTyped
    <3> QED
      BY <2>1, <3>1, <3>2 DEF ShownInOrder, ShownBefore, Falling
  <2>2. CASE ~backwards
    <3>1. next \in 1..(Len(span) + 1) /\ span \in Clips
      BY <2>2 DEF RunInv, Forw, ForwTyped, GivenOK, SpanGiven
    <3>2. ToSet(shown) \subseteq Asked
      BY <2>2, <3>1, SentAre DEF RunInv, Forw, ForwOrder, Asked
    <3>3. Rising(shown)
      BY <2>2 DEF RunInv, Forw, ForwOrder
    <3> QED
      BY <2>2, <3>2, <3>3 DEF ShownInOrder, ShownBefore, Rising
  <2> QED
    BY <2>1, <2>2 DEF RunInv
<1> QED
  BY <1>1, RunInvHolds, PTL

\* A run that says it completed, and neither its cap nor an abort cut short, has shown every
\* picture it was asked for: no pass is lost between the two threads, and none inside the
\* decoder.
THEOREM CompletedRunsAreWhole == RunSpec => []CompletedShowedAll
<1>1. RunInv => CompletedShowedAll
  <2> SUFFICES ASSUME RunInv, phase = "done", completed, cap = 0, ~(draining /\ abort)
               PROVE  ToSet(shown) = Asked
    BY DEF CompletedShowedAll
  <2>1. CASE backwards
    BY <2>1 DEF RunInv, Back, BackWhole
  <2>2. CASE ~backwards
    <3>1. next \in 1..(Len(span) + 1) /\ span \in Clips /\ ~capped /\ Waiting = {}
      BY <2>2 DEF RunInv, Forw, ForwTyped, GivenOK, SpanGiven, Waiting
    <3>2. next > Len(span) /\ dec = {}
      BY <2>2, <3>1 DEF RunInv, Forw, ForwWhole
    <3>3. Sent = Instants(DOMAIN span)
      BY <3>1, <3>2, SentAre
    <3>4. Asked = {x \in Sent : lo <= x}
      BY <2>2, <3>3 DEF Asked
    <3>5. ToSet(shown) \subseteq Sent /\ (\A x \in ToSet(shown) : lo <= x)
      BY <2>2, <3>1 DEF RunInv, Forw, ForwOrder
    <3>6. \A x \in Sent : lo <= x => x \in ToSet(shown)
      BY <2>2, <3>1, <3>2 DEF RunInv, Forw, ForwWhole
    <3> QED
      BY <3>4, <3>5, <3>6
  <2> QED
    BY <2>1, <2>2 DEF RunInv
<1> QED
  BY <1>1, RunInvHolds, PTL

\* Whatever the clip, the speed, the size of a block, of a packet and of what the audio decoder
\* holds back: the sound of a whole run is never longer than the stretched clip, and never
\* shorter by more than a cross-fade, unless the speed is so low that blocks overlap whole.
THEOREM SoundLastsAsLong == RunSpec => []SoundFitsPictures
<1>1. RunInv => SoundFitsPictures
  BY DEF RunInv, GivenOK, SoundInv, SoundFitsPictures
<1> QED
  BY <1>1, RunInvHolds, PTL

-----------------------------------------------------------------------------
(* The way to the end.                                                     *)

\* What a thread has not taken up yet, what it holds, and where it stands.
Unsent == IF backwards THEN Len(passes) - pass ELSE Len(span) + 1 - next

Inside == IF backwards THEN Cardinality(InHand) ELSE Cardinality(dec) + Cardinality(sound.dec)

Shows ==
    CASE phase = "show" -> 9 [] phase = "take" -> 8 [] phase = "free" -> 7
      [] phase = "join" -> (IF stopDecoding THEN 5 ELSE 6) [] phase = "report" -> 1 [] OTHER -> 0
Decodes == CASE producer = "hand" -> 5 [] producer = "decode" -> 1 [] OTHER -> 0
Onward ==
    CASE phase = "wait" -> (IF draining THEN 4 ELSE 9)
      [] phase = "receive" -> (IF draining THEN 3 ELSE 8)
      [] phase = "loop" -> 7 [] phase = "tail" -> 6 [] phase = "report" -> 1 [] OTHER -> 0

\* A pass in the queue stands between the thread that leaves it there and the one that takes it.
Standing == IF backwards THEN Shows + Decodes + 3 * Len(ready) ELSE Onward

Nearer ==
    \/ Unsent' < Unsent
    \/ Unsent' = Unsent /\ Inside' < Inside
    \/ Unsent' = Unsent /\ Inside' = Inside /\ Standing' < Standing

\* Three numbers of which each step lowers one and leaves those before it: there are only so
\* many steps to the end, and neither the UI thread's abort nor its pauses add one.
EveryStepCounts ==
    /\ phase # "done" => Unsent \in Nat /\ Inside \in Nat /\ Standing \in Nat
    /\ Forwards \/ Backwards \/ Decoding => Nearer
    /\ ~(Forwards \/ Backwards \/ Decoding) => UNCHANGED <<Unsent, Inside, Standing>>

Told == stopDecoding \in BOOLEAN

LEMMA ToldStays == Told /\ [RunNext]_runVars => Told'
BY DEF Told, RunNext, Forwards, Backwards, Decoding, SendNext, Receive, Emit, Tail_, HearRest, Report,
       TakePass, ShowBack, FreePass, JoinDecoding, DecodePass, EndDecoding, HandOver, Abort, SetPaused,
       Finished, runVars, reverse

LEMMA InHandIs == ASSUME GivenOK, Back PROVE InHand \in SUBSET Int /\ IsFiniteSet(InHand)
<1>1. InHand \in SUBSET Asked
  BY DEF Back, BackOrder, Decoded
<1> QED
  BY <1>1, AskedAre, FS_Subset DEF GivenOK

LEMMA BackNumbers ==
    ASSUME GivenOK, Back, backwards, Told
    PROVE  /\ Unsent = Len(passes) - pass /\ Unsent \in Nat /\ pass \in Nat /\ Len(passes) \in Nat
           /\ Inside = Cardinality(InHand) /\ Inside \in Nat
           /\ Standing = Shows + Decodes + 3 * Len(ready) /\ Standing \in Nat
           /\ Len(ready) \in {0, 1} /\ Shows \in Nat /\ Decodes \in Nat
<1>1. pass \in 0..Len(passes) /\ Len(passes) \in Nat
  BY DEF Back, BackTyped, GivenOK, Schedule
<1>2. Cardinality(InHand) \in Nat
  BY InHandIs, FS_CardinalityType
<1>3. Len(ready) \in {0, 1}
  <2>1. ready = <<>> \/ ready = <<Queue>>
    BY DEF Back, BackTyped
  <2> QED
    BY <2>1
<1>4. Shows \in Nat /\ Decodes \in Nat
  BY DEF Shows, Decodes, Told
<1> QED
  BY <1>1, <1>2, <1>3, <1>4 DEF Unsent, Inside, Standing

\* The steps that hand nothing on.
LEMMA BackLowers ==
    ASSUME GivenOK, Back, backwards, Told, GivenOK', Back', backwards', Told',
           passes' = passes, pass' = pass, InHand' \in SUBSET InHand, Standing' < Standing
    PROVE  Nearer
<1>1. Inside' \in Nat /\ Inside \in Nat /\ Inside' <= Inside /\ Unsent' = Unsent
  <2>1. Cardinality(InHand') <= Cardinality(InHand)
    BY InHandIs, FS_Subset
  <2>2. Inside' = Cardinality(InHand') /\ Unsent' = Len(passes) - pass
    BY DEF Inside, Unsent
  <2>3. Inside' \in Nat
    <3>1. InHand' \in SUBSET InHand /\ IsFiniteSet(InHand)
      BY InHandIs
    <3>2. IsFiniteSet(InHand')
      BY <3>1, FS_Subset
    <3> QED
      BY <2>2, <3>2, FS_CardinalityType
  <2> QED
    BY <2>1, <2>2, <2>3, BackNumbers
<1> QED
  BY <1>1 DEF Nearer

LEMMA BackCounts ==
    ASSUME GivenOK, Back, backwards, Told, GivenOK', Back', backwards', Told', UNCHANGED given,
           Backwards \/ Decoding \/ Report, runVars' # runVars
    PROVE  Nearer
<1>1. passes' = passes
  BY DEF given
<1>2. Shows \in Nat /\ Decodes \in Nat /\ Len(ready) \in {0, 1}
  BY BackNumbers
<1>3. Standing = Shows + Decodes + 3 * Len(ready) /\ Standing' = Shows' + Decodes' + 3 * Len(ready')
  BY DEF Standing
<1>4. CASE TakePass
  <2>1. /\ phase = "take" /\ chunk' = chunk /\ pass' = pass /\ stopDecoding' = stopDecoding
        /\ producer' = producer
    BY <1>4 DEF TakePass, decoder
  <2>2. Decodes' = Decodes /\ Shows = 8 /\ showing = {}
    BY <2>1 DEF Decodes, Shows, Back, BackTyped
  <2>3. CASE phase' = "join" /\ ready' = ready /\ showing' = showing
    <3>1. InHand' = InHand /\ Shows' \in {5, 6}
      BY <2>1, <2>3 DEF InHand, Queue, Shows
    <3>2. Standing' < Standing
      BY <1>2, <1>3, <2>2, <2>3, <3>1
    <3> QED
      BY <1>1, <2>1, <3>1, <3>2, BackLowers
  <2>4. CASE ready # <<>> /\ phase' = "show" /\ showing' = Head(ready) /\ ready' = Tail(ready)
    <3>1. ready = <<Queue>>
      BY <2>4 DEF Back, BackTyped
    <3>2. Head(<<Queue>>) = Queue /\ Tail(<<Queue>>) = <<>> /\ Len(<<Queue>>) = 1 /\ Len(<<>>) = 0
      OBVIOUS
    <3>3. showing' = Queue /\ ready' = <<>> /\ Len(ready) = 1 /\ Len(ready') = 0
      BY <2>4, <3>1, <3>2
    <3>4. Queue' = {}
      BY <3>3 DEF Queue
    <3>5. InHand' = InHand /\ Shows' = 9
      BY <2>1, <2>2, <2>4, <3>3, <3>4 DEF InHand, Shows
    <3>6. Standing' < Standing
      BY <1>2, <1>3, <2>2, <3>3, <3>5
    <3> QED
      BY <1>1, <2>1, <3>5, <3>6, BackLowers
  <2> QED
    BY <1>4, <2>3, <2>4 DEF TakePass
<1>5. CASE ShowBack
  <2>1. /\ phase = "show" /\ showing # {} /\ UNCHANGED <<producer, pass, chunk, ready, stopDecoding>>
    BY <1>5 DEF ShowBack, decoder, handoff
  <2>2. Decodes' = Decodes /\ Shows = 9 /\ Queue' = Queue
    BY <2>1 DEF Decodes, Shows, Queue
  <2>3. CASE abort
    <3>1. phase' = "free" /\ showing' = showing
      BY <1>5, <2>3 DEF ShowBack
    <3>2. InHand' = InHand /\ Shows' = 7
      BY <2>1, <2>2, <3>1 DEF InHand, Shows
    <3>3. Standing' < Standing
      BY <1>2, <1>3, <2>1, <2>2, <3>2
    <3> QED
      BY <1>1, <2>1, <3>2, <3>3, BackLowers
  <2>4. CASE ~abort
    <3> DEFINE m == NextBack(showing)
    <3>1. showing' = showing \ {m}
      BY <1>5, <2>4 DEF ShowBack
    <3>2. showing \in SUBSET InHand /\ InHand \in SUBSET Int /\ IsFiniteSet(InHand)
      BY InHandIs DEF InHand
    <3>3. m \in showing
      <4>1. IsFiniteSet(showing) /\ showing \in SUBSET Int
        BY <3>2, FS_Subset
      <4> QED
        BY <2>1, <4>1, Greatest DEF NextBack
    <3> HIDE DEF m
    <3>4. m \notin Queue \cup chunk /\ m \in Int
      BY <3>2, <3>3 DEF Back, BackOrder, Newer
    <3>5. InHand' = InHand \ {m} /\ m \in InHand
      BY <2>1, <2>2, <3>1, <3>2, <3>3, <3>4 DEF InHand
    <3>6. Cardinality(InHand \ {m}) = Cardinality(InHand) - 1 /\ Cardinality(InHand) \in Nat
      BY <3>2, <3>5, FS_RemoveElement, FS_CardinalityType
    <3>7. Inside' < Inside
      BY <3>5, <3>6 DEF Inside
    <3> QED
      BY <1>1, <2>1, <3>7 DEF Nearer, Unsent
  <2> QED
    BY <2>3, <2>4
<1>6. CASE FreePass
  <2>1. /\ phase \in {"free", "show"} /\ showing' = {} /\ phase' = (IF phase = "free" THEN "join" ELSE "take")
        /\ UNCHANGED <<producer, pass, chunk, ready, stopDecoding>>
    BY <1>6 DEF FreePass, decoder
  <2>2. Decodes' = Decodes /\ Queue' = Queue /\ Shows' < Shows /\ Shows' \in Nat
    BY <2>1 DEF Decodes, Shows, Queue
  <2>3. InHand' \in SUBSET InHand
    BY <2>1, <2>2 DEF InHand
  <2>4. Standing' < Standing
    BY <1>2, <1>3, <2>1, <2>2
  <2> QED
    BY <1>1, <2>1, <2>3, <2>4, BackLowers
<1>7. CASE JoinDecoding
  <2>1. /\ phase = "join" /\ stopDecoding' = TRUE /\ phase' = (IF producer = "done" THEN "report" ELSE "join")
        /\ UNCHANGED <<producer, pass, chunk, ready, showing>>
    BY <1>7 DEF JoinDecoding, decoder, handoff
  <2>2. stopDecoding = FALSE \/ phase' = "report"
    <3> SUFFICES ASSUME stopDecoding = TRUE, phase' = "join" PROVE FALSE
      BY <2>1 DEF Told
    <3>1. UNCHANGED <<given, outside, shown, completed, forward, decoder, handoff, showing, phase,
                      stopDecoding>>
      BY <1>7, <2>1 DEF JoinDecoding
    <3> QED
      BY <3>1 DEF runVars, consumer, reverse
  <2>3. Decodes' = Decodes /\ Queue' = Queue /\ Shows' < Shows /\ Shows' \in Nat
    BY <2>1, <2>2 DEF Decodes, Shows, Queue
  <2>4. InHand' = InHand
    BY <2>1, <2>3 DEF InHand
  <2>5. Standing' < Standing
    BY <1>2, <1>3, <2>1, <2>3
  <2> QED
    BY <1>1, <2>1, <2>4, <2>5, BackLowers
<1>8. CASE DecodePass
  <2>1. /\ producer = "decode" /\ UNCHANGED <<phase, ready, showing, stopDecoding>>
    BY <1>8 DEF DecodePass, consumer, handoff
  <2>2. CASE pass' = pass /\ producer' = "done" /\ chunk' = chunk
    <3>1. InHand' = InHand /\ Shows' = Shows /\ Decodes = 1 /\ Decodes' = 0
      BY <2>1, <2>2 DEF InHand, Queue, Shows, Decodes
    <3>2. Standing' < Standing
      BY <1>2, <1>3, <2>1, <3>1
    <3> QED
      BY <1>1, <2>2, <3>1, <3>2, BackLowers
  <2>3. CASE pass' = pass + 1
    <3>1. Unsent' = Len(passes) - (pass + 1) /\ Unsent = Len(passes) - pass
          /\ pass \in Nat /\ Len(passes) \in Nat
      BY <1>1, <2>3, BackNumbers DEF Unsent
    <3>2. Unsent' < Unsent
      BY <3>1
    <3> QED
      BY <3>2 DEF Nearer
  <2> QED
    BY <1>8, <2>2, <2>3 DEF DecodePass
<1>9. CASE EndDecoding
  <2>1. /\ producer \in {"decode", "hand"} /\ producer' = "done" /\ chunk' = {}
        /\ UNCHANGED <<phase, pass, ready, showing, stopDecoding>>
    BY <1>9 DEF EndDecoding, consumer, handoff
  <2>2. InHand' \in SUBSET InHand /\ Shows' = Shows /\ Decodes \in {1, 5} /\ Decodes' = 0
    BY <2>1 DEF InHand, Queue, Shows, Decodes
  <2>3. Standing' < Standing
    BY <1>2, <1>3, <2>1, <2>2
  <2> QED
    BY <1>1, <2>1, <2>2, <2>3, BackLowers
<1>10. CASE HandOver
  <2>1. /\ producer = "hand" /\ producer' = "decode" /\ ready = <<>> /\ ready' = Append(ready, chunk)
        /\ chunk' = {} /\ UNCHANGED <<phase, pass, showing, stopDecoding>>
    BY <1>10 DEF HandOver, Room, consumer
  <2>2. ready' = <<chunk>> /\ ready' # <<>> /\ ready'[1] = chunk /\ Len(ready') = 1 /\ Len(ready) = 0
    BY <2>1
  <2>3. InHand' = InHand /\ Shows' = Shows /\ Decodes = 5 /\ Decodes' = 1
    BY <2>1, <2>2 DEF InHand, Queue, Shows, Decodes
  <2>4. Standing' < Standing
    BY <1>2, <1>3, <2>2, <2>3
  <2> QED
    BY <1>1, <2>1, <2>3, <2>4, BackLowers
<1>11. CASE Report
  <2>1. phase = "report" /\ phase' = "done" /\ UNCHANGED reverse
    BY <1>11 DEF Report
  <2>2. UNCHANGED <<producer, pass, chunk, ready, showing, stopDecoding>>
    BY <2>1 DEF reverse, decoder, handoff
  <2>3. InHand' = InHand /\ Shows = 1 /\ Shows' = 0 /\ Decodes' = Decodes
    BY <2>1, <2>2 DEF InHand, Queue, Shows, Decodes
  <2>4. Standing' < Standing
    BY <1>2, <1>3, <2>2, <2>3
  <2> QED
    BY <1>1, <2>2, <2>3, <2>4, BackLowers
<1> QED
  BY <1>4, <1>5, <1>6, <1>7, <1>8, <1>9, <1>10, <1>11 DEF Backwards, Decoding

LEMMA ForwNumbers ==
    ASSUME GivenOK, Forw, SoundInv, ~backwards, phase # "done"
    PROVE  /\ Unsent = Len(span) + 1 - next /\ Unsent \in Nat /\ next \in Nat
           /\ IsFiniteSet(dec) /\ dec \in SUBSET Int /\ Cardinality(dec) \in Nat
           /\ IsFiniteSet(sound.dec) /\ sound.dec \in SUBSET Int /\ Cardinality(sound.dec) \in Nat
           /\ Inside = Cardinality(dec) + Cardinality(sound.dec) /\ Inside \in Nat
           /\ Standing = Onward /\ Standing \in Nat
<1>1. span \in Clips /\ Len(span) \in Nat /\ next \in 1..(Len(span) + 1) /\ DOMAIN span = 1..Len(span)
  BY SpanFacts DEF GivenOK, SpanGiven, Forw, ForwTyped
<1>2. IsFiniteSet(dec) /\ dec \in SUBSET Int
  <2>1. 1..(next - 1) \in SUBSET DOMAIN span
    BY <1>1
  <2>2. Sent \in SUBSET Int /\ IsFiniteSet(Sent)
    BY <1>1, <2>1, InstantsAre DEF Sent
  <2>3. dec \in SUBSET Sent
    BY DEF Forw, ForwOrder
  <2> QED
    BY <2>2, <2>3, FS_Subset
<1>3. IsFiniteSet(sound.dec) /\ sound.dec \in SUBSET Int
  <2> DEFINE f == [i \in Audible(next) |-> span[i].at]
  <2>1. IsFiniteSet(Audible(next)) /\ \A i \in Audible(next) : span[i].at \in Int
    BY <1>1, SoundedIs
  <2>2. \A at \in sound.dec : \E i \in Audible(next) : span[i].at = at
    BY DEF SoundInv, SoundOK
  <2>3. IsFiniteSet({f[i] : i \in Audible(next)})
    <3> HIDE DEF f
    <3> QED
      BY <2>1, ImageIsFinite
  <2>4. sound.dec \in SUBSET {f[i] : i \in Audible(next)}
    BY <2>2
  <2>5. IsFiniteSet(sound.dec)
    BY <2>3, <2>4, FS_Subset
  <2> QED
    BY <2>1, <2>2, <2>5
<1>4. Cardinality(dec) \in Nat /\ Cardinality(sound.dec) \in Nat
  BY <1>2, <1>3, FS_CardinalityType
<1>5. Onward \in Nat
  BY DEF Onward
<1> QED
  BY <1>1, <1>2, <1>3, <1>4, <1>5 DEF Unsent, Inside, Standing

LEMMA ForwLowers ==
    ASSUME ~backwards, ~backwards', UNCHANGED <<span, next, dec>>, sound'.dec = sound.dec,
           Onward' < Onward
    PROVE  Nearer
BY DEF Nearer, Unsent, Inside, Standing

LEMMA ForwCounts ==
    ASSUME GivenOK, Forw, SoundInv, ~backwards, UNCHANGED given, Forwards
    PROVE  Nearer
<1>1. span' = span /\ ~backwards' /\ phase # "done"
  BY DEF given, Forwards, SendNext, Receive, Emit, Tail_, HearRest, Report
<1>2. CASE SendNext
  <2>1. CASE next' = next + 1
    <3>1. Unsent' = Len(span) + 1 - (next + 1) /\ Unsent = Len(span) + 1 - next
          /\ next \in Nat /\ Len(span) \in Nat
      BY <1>1, <2>1, ForwNumbers, SpanFacts DEF Unsent, GivenOK, SpanGiven
    <3>2. Unsent' < Unsent
      BY <3>1
    <3> QED
      BY <3>2 DEF Nearer
  <2>2. CASE next' # next + 1
    <3>1. /\ phase = "loop" /\ phase' = "tail" /\ UNCHANGED <<next, dec, sound, draining>>
      BY <1>2, <2>2 DEF SendNext
    <3>2. Onward' < Onward
      BY <3>1 DEF Onward
    <3> QED
      BY <1>1, <3>1, <3>2, ForwLowers
  <2> QED
    BY <2>1, <2>2
<1>3. CASE Receive
  <2>1. phase = "receive" /\ UNCHANGED <<next, draining, sound>>
    BY <1>3 DEF Receive
  <2>2. CASE ~HasPicture
    <3>1. phase' = (IF draining THEN "report" ELSE "loop") /\ dec' = dec
      BY <1>3, <2>2 DEF Receive
    <3>2. Onward' < Onward
      BY <2>1, <3>1 DEF Onward
    <3> QED
      BY <1>1, <2>1, <3>1, <3>2, ForwLowers
  <2>3. CASE HasPicture
    <3> DEFINE m == Min(dec)
    <3>1. dec' = dec \ {m}
      BY <1>3, <2>3 DEF Receive
    <3>2. dec # {} /\ IsFiniteSet(dec) /\ dec \in SUBSET Int
      BY <1>1, <2>3, ForwNumbers DEF HasPicture
    <3>3. m \in dec
      BY <3>2, Least
    <3> HIDE DEF m
    <3>4. Cardinality(dec') = Cardinality(dec) - 1
      BY <3>1, <3>2, <3>3, FS_RemoveElement
    <3>5. Unsent' = Unsent /\ Inside' = (Cardinality(dec) - 1) + Cardinality(sound.dec)
          /\ Inside = Cardinality(dec) + Cardinality(sound.dec)
      BY <1>1, <2>1, <3>4 DEF Unsent, Inside
    <3>6. Cardinality(dec) \in Nat /\ Cardinality(sound.dec) \in Nat
      BY <1>1, ForwNumbers
    <3>7. Inside' < Inside
      BY <3>5, <3>6
    <3> QED
      BY <3>5, <3>7 DEF Nearer
  <2> QED
    BY <2>2, <2>3
<1>4. CASE Emit
  <2>1. phase = "wait" /\ UNCHANGED <<next, dec, draining, sound>>
    BY <1>4 DEF Emit
  <2>2. phase' = "receive" \/ (~draining /\ phase' = "loop")
    BY <1>4 DEF Emit, AfterEmit
  <2>3. Onward' < Onward
    BY <2>1, <2>2 DEF Onward
  <2> QED
    BY <1>1, <2>1, <2>3, ForwLowers
<1>5. CASE Tail_
  <2>1. phase = "tail" /\ UNCHANGED <<next, dec, sound>> /\ (draining' <=> Whole)
        /\ phase' = (IF Whole THEN "receive" ELSE "report")
    BY <1>5 DEF Tail_, Whole
  <2>2. Onward' < Onward
    BY <2>1 DEF Onward
  <2> QED
    BY <1>1, <2>1, <2>2, ForwLowers
<1>6. CASE HearRest
  <2> DEFINE m == Min(sound.dec)
             D == sound.dec \ {m}
             r == [sound EXCEPT !.dec = D]
  <2>1. /\ sound.dec # {} /\ UNCHANGED <<next, dec>>
        /\ sound' = Heard([sound EXCEPT !.dec = @ \ {m}], m)
    BY <1>6 DEF HearRest, pictures
  <2>2. IsFiniteSet(sound.dec) /\ sound.dec \in SUBSET Int /\ sound \in Sounds
    BY <1>1, ForwNumbers DEF SoundInv, SoundOK, SoundOf
  <2>3. m \in sound.dec
    BY <2>1, <2>2, Least
  <2> HIDE DEF m
  <2>4. r.dec = D /\ sound' = Heard(r, m)
    BY <2>1, <2>2 DEF Sounds
  <2> HIDE DEF r
  <2>5. Heard(r, m).dec = r.dec
    BY DEF Heard
  <2>6. Cardinality(sound'.dec) = Cardinality(sound.dec) - 1
    <3>1. Cardinality(sound.dec \ {m}) = Cardinality(sound.dec) - 1
      BY <2>2, <2>3, FS_RemoveElement
    <3>2. sound'.dec = sound.dec \ {m}
      BY <2>4, <2>5
    <3> QED
      BY <3>1, <3>2
  <2>7. Unsent' = Unsent /\ Inside' = Cardinality(dec) + (Cardinality(sound.dec) - 1)
        /\ Inside = Cardinality(dec) + Cardinality(sound.dec)
    BY <1>1, <2>1, <2>6 DEF Unsent, Inside
  <2>8. Cardinality(dec) \in Nat /\ Cardinality(sound.dec) \in Nat
    BY <1>1, ForwNumbers
  <2>9. Inside' < Inside
    BY <2>7, <2>8
  <2> QED
    BY <2>7, <2>9 DEF Nearer
<1>7. CASE Report
  <2>1. phase = "report" /\ phase' = "done" /\ sound' = Flushed(sound) /\ UNCHANGED <<next, dec>>
    BY <1>1, <1>7 DEF Report, pictures
  <2>2. sound'.dec = sound.dec
    <3>1. sound \in Sounds
      BY <1>1 DEF SoundInv, SoundOK, SoundOf
    <3> QED
      BY <2>1, <3>1 DEF Flushed, Sounds
  <2>3. Onward' < Onward
    BY <2>1 DEF Onward
  <2> QED
    BY <1>1, <2>1, <2>2, <2>3, ForwLowers
<1> QED
  BY <1>2, <1>3, <1>4, <1>5, <1>6, <1>7 DEF Forwards

LEMMA OthersLeave ==
    ASSUME Abort \/ SetPaused \/ UNCHANGED runVars
    PROVE  UNCHANGED <<Unsent, Inside, Standing>>
<1>1. UNCHANGED <<span, backwards, passes, phase, next, dec, draining, sound, pass, chunk, producer, ready,
                  showing, stopDecoding>>
  BY DEF Abort, SetPaused, runVars, given, consumer, forward, pictures, reverse, decoder, handoff
<1> QED
  BY <1>1 DEF Unsent, Inside, Standing, InHand, Queue, Shows, Decodes, Onward

\* A run does not go on for ever: whatever the clip, its passes and the order in which its two
\* threads take their turns, only so many steps of theirs are left at any time, and an abort
\* or a pause adds none (the safety half of RunEnds).
THEOREM RunsAreFinite == RunSpec => [][EveryStepCounts]_runVars
<1>1. RunInit => Told
  BY DEF RunInit, Told
<1>2. ASSUME RunInv, Told, RunInv', Told', [RunNext]_runVars PROVE [EveryStepCounts]_runVars
  <2> SUFFICES ASSUME runVars' # runVars, RunNext PROVE EveryStepCounts
    BY <1>2
  <2>1. UNCHANGED given
    BY DEF RunNext, Forwards, Backwards, Decoding, SendNext, Receive, Emit, Tail_, HearRest, Report,
           TakePass, ShowBack, FreePass, JoinDecoding, DecodePass, EndDecoding, HandOver, Abort, SetPaused,
           Finished, runVars
  <2>2. backwards' = backwards
    BY <2>1 DEF given
  <2>3. ~Finished
    BY DEF Finished
  <2>4. ASSUME ~(Forwards \/ Backwards \/ Decoding) PROVE UNCHANGED <<Unsent, Inside, Standing>>
    BY <2>3, <2>4, OthersLeave DEF RunNext
  <2>5. CASE backwards
    <3>1. GivenOK /\ Back /\ GivenOK' /\ Back'
      BY <1>2, <2>2, <2>5 DEF RunInv
    <3>2. Unsent \in Nat /\ Inside \in Nat /\ Standing \in Nat
      BY <1>2, <2>5, <3>1, BackNumbers
    <3>3. Forwards => Report
      <4>1. phase \in {"take", "show", "free", "join", "report", "done"}
        BY <3>1 DEF Back, BackTyped
      <4> QED
        BY <2>5, <4>1 DEF Forwards, SendNext, Receive, Emit, Tail_, HearRest
    <3>4. Forwards \/ Backwards \/ Decoding => Nearer
      BY <1>2, <2>1, <2>2, <2>5, <3>1, <3>3, BackCounts
    <3> QED
      BY <2>4, <3>2, <3>4 DEF EveryStepCounts
  <2>6. CASE ~backwards
    <3>1. GivenOK /\ Forw /\ SoundInv
      BY <1>2, <2>6 DEF RunInv
    <3>2. phase # "done" => Unsent \in Nat /\ Inside \in Nat /\ Standing \in Nat
      BY <2>6, <3>1, ForwNumbers
    <3>3. ~Backwards /\ ~Decoding
      BY <3>1 DEF Forw, ForwTyped, Backwards, Decoding, TakePass, ShowBack, FreePass, JoinDecoding,
                  DecodePass, EndDecoding, HandOver
    <3>4. Forwards => Nearer
      BY <2>1, <2>6, <3>1, ForwCounts
    <3> QED
      BY <2>4, <3>2, <3>3, <3>4 DEF EveryStepCounts
  <2> QED
    BY <2>5, <2>6
<1> QED
  BY <1>1, <1>2, RunInvHolds, ToldStays, PTL DEF RunSpec

=============================================================================
