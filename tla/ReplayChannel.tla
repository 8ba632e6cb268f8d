---------------------------- MODULE ReplayChannel ----------------------------
(***************************************************************************)
(* A replay input (src/replay-channel.cpp): the commands the UI thread     *)
(* gives it, the thread that plays one clip, the cache of clips already    *)
(* fetched and the thread that fetches one ahead of time.                  *)
(*                                                                         *)
(* A command is a sequence of steps, and the steps that matter are the     *)
(* ones another thread may come between: a fetch that reads the disk, the  *)
(* join of a thread, a store to an atomic before a lock is taken.  Every   *)
(* command is given by the UI thread, which holds commandMutex_ or         *)
(* prefetchMutex_ throughout.  What a run shows is PlaybackRun's business: *)
(* here it opens its decoder or not, shows a first picture, and ends.      *)
(*                                                                         *)
(* Data kept: a clip is its cache key, with the size of its packets.       *)
(* Whether the ring or the files serve a key is nondeterministic.          *)
(***************************************************************************)
EXTENDS Integers, Sequences, FiniteSets, FiniteSetsExt, SequencesExt

CONSTANTS
    Keys,         \* ClipKeys: camera, range and source
    Size,         \* bytes of the packets of each
    MaxEntries,   \* kClipCacheMaxEntries
    MaxBytes,     \* kClipCacheMaxBytes
    MaxCommands   \* bound: commands given

ASSUME SizeAssumption == Size \in [Keys -> Nat] /\ MaxEntries \in Nat /\ MaxBytes \in Nat

NoRun == 0    \* runs count from 1
Idle == [op |-> "idle"]
NoFetch == [phase |-> "none"]

VARIABLES
    ui,         \* the command in progress, and where it is
    source,     \* source_ is set
    abort,      \* abort_
    playing,    \* playing_
    paused,     \* paused_
    pacing,     \* pacing_: seated by a first picture, and paused
    worker,     \* playbackLoop(): its run, where it is, and whether the run completed
    cache,      \* cache_, most recently used last
    fetching,   \* the prefetch thread
    busy,       \* prefetchBusy_ and prefetchInFlight_: the key, or {}
    run,        \* history: runs started
    owed,       \* history: the run whose end the queue is waiting for
    untold,     \* history: that run was lost, or cut by the frontend
    project,    \* history: times the channel was told to forget
    commands    \* history: commands given

clipVars  == <<playing, paused, pacing, worker, run, owed, untold>>
cacheVars == <<cache, fetching, busy, project>>
vars == <<ui, source, abort, clipVars, cacheVars, commands>>

Alive == worker.phase # "none"
At(op, step) == ui.op = op /\ ui.step = step
Step(step) == ui' = [ui EXCEPT !.step = step]

-----------------------------------------------------------------------------
(* The clip cache, every access under cacheMutex_.                         *)

Cached(k) == \E i \in DOMAIN cache : cache[i].key = k
Place(k) == Min({i \in DOMAIN cache : cache[i].key = k})
Without(k) == IF Cached(k) THEN RemoveAt(cache, Place(k)) ELSE cache

Bytes(c) ==
    LET upTo[n \in 0..Len(c)] == IF n = 0 THEN 0 ELSE upTo[n - 1] + Size[c[n].key]
    IN  upTo[Len(c)]

\* A hit is the most recently used.
Touch(k) == cache' = Append(Without(k), cache[Place(k)])

\* Oldest first, until both limits are kept.
Evict(c) ==
    LET fits == {i \in 1..(Len(c) + 1) :
                    /\ Len(c) + 1 - i <= MaxEntries
                    /\ Bytes(SubSeq(c, i, Len(c))) <= MaxBytes}
    IN SubSeq(c, Min(fits), Len(c))

\* cachePut(): a clip larger than the whole budget is not kept.
Put(k, when) ==
    cache' = IF Size[k] > MaxBytes THEN cache
             ELSE Evict(Append(Without(k), [key |-> k, project |-> when]))

-----------------------------------------------------------------------------
(* Commands.                                                               *)

Begin(op, key) ==
    /\ ui = Idle
    /\ commands < MaxCommands
    /\ commands' = commands + 1
    /\ ui' = [op |-> op, key |-> key,
              step |-> CASE op = "play" -> "fetch" [] op = "prefetch" -> "look"
                         [] OTHER -> "abort"]

\* The player's own commands end its wait for the clip they replace.
BeginPlay == \E k \in Keys : Begin("play", {k})
BeginStop == Begin("stop", {}) /\ owed' = NoRun /\ untold' = FALSE

\* reset() and unload() come after the queue was stopped; releaseSource() comes from the
\* frontend, whatever is playing.
BeginForget == owed = NoRun /\ (Begin("reset", {}) \/ (source /\ Begin("unload", {})))
BeginRelease == Begin("release", {}) /\ untold' = (owed # NoRun) /\ UNCHANGED owed
BeginPrefetch == \E k \in Keys : Begin("prefetch", {k})

Command ==
    /\ \/ BeginStop \/ BeginRelease
       \/ (BeginPlay \/ BeginForget \/ BeginPrefetch) /\ UNCHANGED <<owed, untold>>
    /\ UNCHANGED <<source, abort, playing, paused, pacing, worker, run, cacheVars>>

Key == CHOOSE k \in ui.key : TRUE

\* fetchClip(): out of the cache, or read from the ring or the files, then cached.
PlayFetch ==
    /\ At("play", "fetch")
    /\ \/ Cached(Key) /\ Touch(Key) /\ Step("abort")
       \/ ~Cached(Key) /\ Step("put") /\ UNCHANGED cache
       \/ ~Cached(Key) /\ ui' = Idle /\ UNCHANGED cache
    /\ UNCHANGED <<source, abort, clipVars, fetching, busy, project, commands>>

\* A clip whose camera has no usable configuration is refused after it was cached.
PlayPut ==
    /\ At("play", "put")
    /\ Put(Key, project)
    /\ Step("abort") \/ ui' = Idle
    /\ UNCHANGED <<source, abort, clipVars, fetching, busy, project, commands>>

\* Mutant: the thread is joined without being told to end.
JoinUntold ==
    /\ ui # Idle /\ ui.step = "abort"
    /\ Step("join")
    /\ UNCHANGED <<source, abort, clipVars, cacheVars, commands>>

\* joinWorker(), in its three steps.
RaiseAbort ==
    /\ ui # Idle /\ ui.step = "abort"
    /\ abort' = TRUE
    /\ Step("join")
    /\ UNCHANGED <<source, clipVars, cacheVars, commands>>

JoinWorker ==
    /\ ui # Idle /\ ui.step = "join"
    /\ ~Alive
    /\ abort' = FALSE
    /\ IF ui.op = "play"
       THEN Step("start") /\ UNCHANGED playing
       ELSE /\ playing' = FALSE
            /\ IF ui.op = "stop" THEN ui' = Idle
               ELSE Step(IF ui.op = "release" THEN "drop" ELSE "joinFetch")
    /\ UNCHANGED <<source, paused, pacing, worker, run, owed, untold, cacheVars, commands>>

\* The rest of play(): with no source the old clip has been stopped for nothing.
PlayStart ==
    /\ At("play", "start")
    /\ ui' = Idle
    /\ IF source
       THEN /\ paused' = FALSE
            /\ pacing' = [seated |-> FALSE, paused |-> FALSE]
            /\ playing' = TRUE
            /\ worker' = [phase |-> "start", run |-> run + 1, completed |-> FALSE]
            /\ run' = run + 1
            /\ owed' = run + 1
       ELSE owed' = NoRun /\ UNCHANGED <<playing, paused, pacing, worker, run>>
    /\ untold' = FALSE
    /\ UNCHANGED <<source, abort, cacheVars, commands>>

\* releaseSource()
DropSource ==
    /\ At("release", "drop")
    /\ source' = FALSE
    /\ ui' = Idle
    /\ UNCHANGED <<abort, clipVars, cacheVars, commands>>

\* Mutant: the thread that may still be reading is not waited for.
ForgetUnjoined ==
    /\ ui # Idle /\ ui.op \in {"reset", "unload"} /\ ui.step = "joinFetch"
    /\ cache' = <<>>
    /\ project' = project + 1
    /\ ui' = Idle
    /\ UNCHANGED <<source, abort, clipVars, fetching, busy, commands>>

\* reset() and unload(), after the join of the prefetch thread.
Forget ==
    /\ ui # Idle /\ ui.op \in {"reset", "unload"} /\ ui.step = "joinFetch"
    /\ fetching = NoFetch
    /\ busy' = {}
    /\ cache' = <<>>
    /\ project' = project + 1
    /\ IF ui.op = "reset"
       THEN /\ paused' = FALSE
            /\ pacing' = [seated |-> FALSE, paused |-> FALSE]
            /\ UNCHANGED source
       ELSE source' = FALSE /\ UNCHANGED <<paused, pacing>>
    /\ ui' = Idle
    /\ UNCHANGED <<abort, playing, worker, run, owed, untold, fetching, commands>>

\* ensureSource(): the input of that name is adopted, or one is created, or neither.
EnsureSource ==
    /\ ui = Idle /\ commands < MaxCommands
    /\ commands' = commands + 1
    /\ source' \in BOOLEAN
    /\ UNCHANGED <<ui, abort, clipVars, cacheVars>>

\* prefetch(): nothing to do for a clip already there or on its way; otherwise the
\* previous fetch is joined first.
PrefetchLook ==
    /\ At("prefetch", "look")
    /\ IF Cached(Key) \/ Key \in busy THEN ui' = Idle ELSE Step("start")
    /\ UNCHANGED <<source, abort, clipVars, cacheVars, commands>>

PrefetchStart ==
    /\ At("prefetch", "start")
    /\ fetching = NoFetch
    /\ busy' = {Key}
    /\ fetching' = [phase |-> "read", key |-> Key, project |-> project]
    /\ ui' = Idle
    /\ UNCHANGED <<source, abort, clipVars, cache, project, commands>>

\* setPaused(): the atomic first, then the clock the frames are timed by.
SetPaused ==
    /\ ui = Idle /\ commands < MaxCommands
    /\ commands' = commands + 1
    /\ paused' \in BOOLEAN
    /\ ui' = [op |-> "pause", key |-> {}, step |-> "clock"]
    /\ UNCHANGED <<source, abort, playing, pacing, worker, run, owed, untold, cacheVars>>

PauseClock ==
    /\ At("pause", "clock")
    /\ pacing' = [pacing EXCEPT !.paused = paused]
    /\ ui' = Idle
    /\ UNCHANGED <<source, abort, playing, paused, worker, run, owed, untold, cacheVars, commands>>

-----------------------------------------------------------------------------
(* The playback thread.                                                    *)

\* No source any more: the thread ends without a word.
Lost ==
    /\ worker.phase = "start" /\ ~source
    /\ worker' = [worker EXCEPT !.phase = "none"]
    /\ playing' = FALSE
    /\ untold' = (owed # NoRun)
    /\ UNCHANGED <<ui, source, abort, paused, pacing, run, owed, cacheVars, commands>>

\* The decoder opens, or the clip is over before it began.
Open ==
    /\ worker.phase = "start" /\ source
    /\ \/ worker' = [worker EXCEPT !.phase = "run"] /\ UNCHANGED playing
       \/ worker' = [worker EXCEPT !.phase = "tell", !.completed = TRUE] /\ playing' = FALSE
    /\ UNCHANGED <<ui, source, abort, paused, pacing, run, owed, untold, cacheVars, commands>>

\* Mutant: a clip always starts running.
SeatRunning ==
    /\ worker.phase = "run" /\ ~pacing.seated
    /\ pacing' = [seated |-> TRUE, paused |-> FALSE]
    /\ UNCHANGED <<ui, source, abort, playing, paused, worker, run, owed, untold, cacheVars, commands>>

\* seatPacing(), at the first picture.
Seat ==
    /\ worker.phase = "run" /\ ~pacing.seated
    /\ pacing' = [seated |-> TRUE, paused |-> paused]
    /\ UNCHANGED <<ui, source, abort, playing, paused, worker, run, owed, untold, cacheVars, commands>>

\* Its end, its failure half way, or the abort; an abort during the tail of a forward run
\* leaves it completed.
EndRun ==
    /\ worker.phase = "run"
    /\ abort \/ ~pacing.paused
    /\ \E completed \in BOOLEAN :
        worker' = [worker EXCEPT !.phase = "tell", !.completed = completed]
    /\ playing' = FALSE
    /\ UNCHANGED <<ui, source, abort, paused, pacing, run, owed, untold, cacheVars, commands>>

\* Mutant: only a completed run is reported.
TellOnlyCompleted == worker.completed

Tells == worker.completed \/ ~abort

\* onFinished(): everything except an aborted run reports back.
Tell ==
    /\ worker.phase = "tell"
    /\ worker' = [worker EXCEPT !.phase = "none"]
    /\ owed' = IF Tells /\ owed = worker.run THEN NoRun ELSE owed
    /\ UNCHANGED <<ui, source, abort, playing, paused, pacing, run, untold, cacheVars, commands>>

-----------------------------------------------------------------------------
(* The prefetch thread: the same fetchClip().                              *)

FetchRead ==
    /\ fetching.phase = "read"
    /\ \/ /\ Cached(fetching.key) /\ Touch(fetching.key)
          /\ fetching' = [fetching EXCEPT !.phase = "end"]
       \/ /\ ~Cached(fetching.key)
          /\ \E p \in {"put", "end"} : fetching' = [fetching EXCEPT !.phase = p]
          /\ UNCHANGED cache
    /\ UNCHANGED <<ui, source, abort, clipVars, busy, project, commands>>

FetchPut ==
    /\ fetching.phase = "put"
    /\ Put(fetching.key, fetching.project)
    /\ fetching' = [fetching EXCEPT !.phase = "end"]
    /\ UNCHANGED <<ui, source, abort, clipVars, busy, project, commands>>

FetchEnd ==
    /\ fetching.phase = "end"
    /\ fetching' = NoFetch
    /\ busy' = {}
    /\ UNCHANGED <<ui, source, abort, clipVars, cache, project, commands>>

-----------------------------------------------------------------------------
Init ==
    /\ ui = Idle
    /\ source \in BOOLEAN
    /\ abort = FALSE /\ playing = FALSE /\ paused = FALSE
    /\ pacing = [seated |-> FALSE, paused |-> FALSE]
    /\ worker = [phase |-> "none", run |-> NoRun, completed |-> FALSE]
    /\ cache = <<>> /\ fetching = NoFetch /\ busy = {}
    /\ run = NoRun /\ owed = NoRun /\ untold = FALSE /\ project = 0 /\ commands = 0

Commanded ==
    \/ PlayFetch \/ PlayPut \/ RaiseAbort \/ JoinWorker \/ PlayStart \/ DropSource
    \/ Forget \/ PrefetchLook \/ PrefetchStart \/ PauseClock
Worker  == Lost \/ Open \/ Seat \/ EndRun \/ Tell
Fetcher == FetchRead \/ FetchPut \/ FetchEnd

Next == Command \/ EnsureSource \/ SetPaused \/ Commanded \/ Worker \/ Fetcher

\* Each thread runs; a clip that is not paused ends (PlaybackRun), and so does a read.
Fairness ==
    WF_vars(Commanded) /\ WF_vars(Lost \/ Open \/ EndRun \/ Tell) /\ WF_vars(Seat) /\ WF_vars(Fetcher)

Spec == Init /\ [][Next]_vars /\ Fairness

-----------------------------------------------------------------------------
(* Properties.                                                             *)

\* The cache keeps both its limits and one entry per clip, whichever of the two threads
\* fills it, and holds nothing of a project the channel was told to forget: not even what
\* was being read at that moment.
CacheHolds ==
    /\ Len(cache) <= MaxEntries
    /\ Bytes(cache) <= MaxBytes
    /\ Cardinality({cache[i].key : i \in DOMAIN cache}) = Len(cache)
    /\ \A e \in ToSet(cache) : e.project = project

\* A pause pressed before the first picture is not forgotten when that picture seats the
\* clock: the button and the clock agree once no command is in progress.
PauseReachesTheClock ==
    ui = Idle /\ pacing.seated => pacing.paused = paused

\* Every command comes back to the UI thread, paused clip or not: the thread it joins
\* notices the abort.
CommandsComeBack == ui # Idle ~> ui = Idle

\* The queue hears of the end of every clip it started and did not cut itself, as long as
\* the clip is not left paused and its input was not taken away.
EveryRunIsReported ==
    \A r \in 1..MaxCommands : owed = r ~> (owed # r \/ paused \/ untold)

=============================================================================
