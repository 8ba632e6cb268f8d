------------------------- MODULE ReplayChannelProofs -------------------------
(***************************************************************************)
(* What ReplayChannel's run checks of its threads on a few commands,       *)
(* proved for any number of them and any clips: the pause, the thread that *)
(* is joined before another is started, the end the queue waits for, the   *)
(* cache of clips its two threads fill, and the way back of a command.     *)
(***************************************************************************)
EXTENDS ReplayChannel, FiniteSetTheorems, SequenceTheorems, WellFoundedInduction, TLAPS

-----------------------------------------------------------------------------
Ops == {"play", "stop", "reset", "unload", "release", "prefetch", "pause"}
Steps == {"fetch", "put", "abort", "join", "start", "drop", "joinFetch", "look", "clock"}
Busy == [op : Ops, key : SUBSET Keys, step : Steps]
Pacing == [seated : BOOLEAN, paused : BOOLEAN]
Runs == [phase : {"none", "start", "run", "tell"}, run : Nat, completed : BOOLEAN]

Typed ==
    /\ ui \in {Idle} \cup Busy
    /\ paused \in BOOLEAN /\ pacing \in Pacing /\ abort \in BOOLEAN /\ untold \in BOOLEAN
    /\ worker \in Runs /\ run \in Nat /\ owed \in Nat

Replacing == ui.op = "play" /\ ui.step \in {"abort", "join", "start"}

\* The clock lags the button while the command is in progress, and only then.
ClockFollows == pacing.seated /\ ui.op # "pause" => pacing.paused = paused

\* The last command to join the thread has seen it end.
Joined == At("play", "start") => ~Alive

\* The abort is up during a join alone, and what a command cuts nobody waits for.
AbortIsForJoins ==
    /\ abort => ui # Idle /\ ui.step = "join"
    /\ ui.op \in {"stop", "reset", "unload"} => owed = NoRun
    /\ ui.op = "release" => untold \/ owed = NoRun
    /\ ui.op \in {"prefetch", "pause"} => ui.step \notin {"abort", "join"}

\* The queue never waits for the end of a clip that no thread is there to tell it, unless
\* the clip was lost or cut by the frontend, or its replacement is being started.
WaitIsAnswered ==
    owed # NoRun /\ ~untold => (Alive /\ worker.run = owed) \/ Replacing

Inv == Typed /\ ClockFollows /\ Joined /\ AbortIsForJoins /\ WaitIsAnswered

LEMMA UiFields ==
    ASSUME Typed, ui # Idle
    PROVE  /\ ui \in Busy
           /\ \A s \in Steps : LET u == [ui EXCEPT !.step = s]
                               IN  u \in Busy /\ u.op = ui.op /\ u.step = s /\ u.key = ui.key
  BY DEF Typed, Busy

LEMMA IdleIsIdle == Idle.op = "idle"
  BY DEF Idle

LEMMA InitInv == Init => Inv
<1> SUFFICES ASSUME Init PROVE Inv
  OBVIOUS
<1>1. Typed
  BY DEF Init, Typed, Pacing, Runs, NoRun
<1>2. ui = Idle /\ abort = FALSE /\ owed = NoRun /\ pacing.seated = FALSE
  BY DEF Init
<1> QED
  BY <1>1, <1>2, IdleIsIdle
     DEF Inv, ClockFollows, Joined, AbortIsForJoins, WaitIsAnswered, At

LEMMA BeginInv == ASSUME Inv, Command PROVE Inv'
<1>1. UNCHANGED <<abort, paused, pacing, worker, run>>
  BY DEF Command
<1>2. ui = Idle /\ ui' \in Busy
  BY DEF Command, BeginPlay, BeginStop, BeginForget, BeginRelease, BeginPrefetch, Begin, Busy,
         Ops, Steps
<1>3. abort = FALSE /\ (pacing.seated => pacing.paused = paused)
  BY <1>2, IdleIsIdle DEF Inv, Typed, AbortIsForJoins, ClockFollows
<1>4. CASE BeginPlay \/ BeginPrefetch
  <2>1. UNCHANGED <<owed, untold>> /\ ui'.op \in {"play", "prefetch"}
        /\ ui'.step \in {"fetch", "look"}
    <3>1. BeginPlay => owed' = owed /\ untold' = untold
      BY <1>2, <1>4 DEF Command, BeginStop, BeginRelease, BeginForget, BeginPlay, Begin
    <3>2. BeginPrefetch => owed' = owed /\ untold' = untold
      BY <1>2, <1>4 DEF Command, BeginStop, BeginRelease, BeginForget, BeginPrefetch, Begin
    <3>3. ui'.op \in {"play", "prefetch"} /\ ui'.step \in {"fetch", "look"}
      BY <1>4 DEF BeginPlay, BeginPrefetch, Begin
    <3> QED
      BY <1>4, <3>1, <3>2, <3>3
  <2> QED
    BY <1>1, <1>2, <1>3, <2>1, IdleIsIdle
       DEF Inv, Typed, ClockFollows, Joined, AbortIsForJoins, WaitIsAnswered, At, Replacing, Alive
<1>5. CASE BeginStop
  <2>1. owed' = NoRun /\ untold' = FALSE /\ ui'.op = "stop" /\ ui'.step = "abort"
    BY <1>5 DEF BeginStop, Begin
  <2> QED
    BY <1>1, <1>2, <1>3, <2>1
       DEF Inv, Typed, ClockFollows, Joined, AbortIsForJoins, WaitIsAnswered, At, NoRun
<1>6. CASE BeginForget
  <2>1. owed = NoRun /\ ui'.op \in {"reset", "unload"} /\ ui'.step = "abort"
    BY <1>6 DEF BeginForget, Begin
  <2>2. owed' = owed /\ untold' \in BOOLEAN
    <3>1. ~BeginPlay /\ ~BeginStop /\ ~BeginRelease
      BY <2>1 DEF BeginPlay, BeginStop, BeginRelease, Begin
    <3> QED
      BY <3>1 DEF Command, Inv, Typed
  <2> QED
    BY <1>1, <1>2, <1>3, <2>1, <2>2
       DEF Inv, Typed, ClockFollows, Joined, AbortIsForJoins, WaitIsAnswered, At, NoRun
<1>7. CASE BeginRelease
  <2>1. untold' = (owed # NoRun) /\ owed' = owed /\ ui'.op = "release" /\ ui'.step = "abort"
    BY <1>7 DEF BeginRelease, Begin
  <2> QED
    BY <1>1, <1>2, <1>3, <2>1
       DEF Inv, Typed, ClockFollows, Joined, AbortIsForJoins, WaitIsAnswered, At, NoRun
<1> QED
  BY <1>4, <1>5, <1>6, <1>7 DEF Command

\* The steps that leave the two threads of a clip alone.
LEMMA FetchStepsInv ==
    ASSUME Inv, PlayFetch \/ PlayPut \/ DropSource \/ PrefetchLook \/ PrefetchStart
                \/ EnsureSource \/ Fetcher
    PROVE  Inv'
<1>1. UNCHANGED <<abort, paused, pacing, worker, run, owed, untold>>
  BY DEF PlayFetch, PlayPut, DropSource, PrefetchLook, PrefetchStart, EnsureSource, Fetcher,
         FetchRead, FetchPut, FetchEnd, clipVars
<1>2. CASE ui' = ui
  BY <1>1, <1>2
     DEF Inv, Typed, ClockFollows, Joined, AbortIsForJoins, WaitIsAnswered, At, Replacing, Alive
<1>3. CASE ui' # ui
  <2>1. /\ ui # Idle /\ ui.op \in {"play", "prefetch", "release"}
        /\ ui.step \notin {"abort", "join"} /\ (ui.op = "play" => ui.step # "start")
        /\ \/ ui' = Idle
           \/ ui.op = "play" /\ \E s \in {"abort", "put"} : Step(s)
           \/ ui.op = "prefetch" /\ Step("start")
    BY <1>3, IdleIsIdle
       DEF PlayFetch, PlayPut, DropSource, PrefetchLook, PrefetchStart, EnsureSource, Fetcher,
           FetchRead, FetchPut, FetchEnd, At
  <2>2. abort = FALSE /\ (pacing.seated => pacing.paused = paused)
    BY <2>1 DEF Inv, Typed, AbortIsForJoins, ClockFollows
  <2>3. owed # NoRun /\ ~untold => Alive /\ worker.run = owed
    BY <2>1 DEF Inv, WaitIsAnswered, Replacing
  <2>4. \/ ui' = Idle
        \/ ui' \in Busy /\ ui'.op = "play" /\ ui'.step \in {"abort", "put"}
        \/ ui' \in Busy /\ ui'.op = "prefetch" /\ ui'.step = "start"
    <3>1. {"abort", "put", "start"} \subseteq Steps
      BY DEF Steps
    <3> QED
      BY <2>1, <3>1, UiFields DEF Step, Inv
  <2> QED
    BY <1>1, <2>2, <2>3, <2>4, IdleIsIdle
       DEF Inv, Typed, ClockFollows, Joined, AbortIsForJoins, WaitIsAnswered, At, Alive
<1> QED
  BY <1>2, <1>3

LEMMA JoinStepsInv == ASSUME Inv, RaiseAbort \/ JoinWorker PROVE Inv'
<1>1. UNCHANGED <<paused, pacing, worker, run, owed, untold>> /\ abort' \in BOOLEAN /\ ui # Idle
  BY DEF RaiseAbort, JoinWorker, clipVars
<1>2. CASE RaiseAbort
  <2>1. Step("join") /\ ui.step = "abort"
    BY <1>2 DEF RaiseAbort
  <2>2. ui' \in Busy /\ ui'.op = ui.op /\ ui'.step = "join"
    BY <1>1, <2>1, UiFields DEF Step, Inv, Steps
  <2> QED
    BY <1>1, <2>1, <2>2, IdleIsIdle
       DEF Inv, Typed, ClockFollows, Joined, AbortIsForJoins, WaitIsAnswered, At, Replacing, Alive,
           Busy, Ops
<1>3. CASE JoinWorker
  <2>1. ui.step = "join" /\ ~Alive /\ abort' = FALSE
        /\ \/ ui.op = "play" /\ Step("start")
           \/ ui.op = "stop" /\ ui' = Idle
           \/ ui.op = "release" /\ Step("drop")
           \/ ui.op \notin {"play", "stop", "release"} /\ Step("joinFetch")
    BY <1>3 DEF JoinWorker
  <2>2. \/ ui.op = "stop" /\ ui' = Idle
        \/ /\ ui' \in Busy /\ ui'.op = ui.op
           /\ \/ ui.op = "play" /\ ui'.step = "start"
              \/ ui.op = "release" /\ ui'.step = "drop"
              \/ ui.op \notin {"play", "stop", "release"} /\ ui'.step = "joinFetch"
    <3>1. "start" \in Steps /\ "drop" \in Steps /\ "joinFetch" \in Steps
      BY DEF Steps
    <3>2. \A s \in Steps : Step(s) => ui' \in Busy /\ ui'.op = ui.op /\ ui'.step = s
      BY <1>1, UiFields DEF Step, Inv
    <3> QED
      BY <2>1, <3>1, <3>2
  <2> QED
    BY <1>1, <2>1, <2>2, IdleIsIdle
       DEF Inv, Typed, ClockFollows, Joined, AbortIsForJoins, WaitIsAnswered, At, Replacing, Alive,
           Busy, Ops
<1> QED
  BY <1>2, <1>3

LEMMA PlayStartInv == ASSUME Inv, PlayStart PROVE Inv'
<1>1. ui.op = "play" /\ ui.step = "start" /\ ui' = Idle /\ abort' = abort /\ untold' = FALSE
  BY DEF PlayStart, At
<1>2. abort = FALSE
  BY <1>1 DEF Inv, Typed, AbortIsForJoins
<1>3. CASE source
  <2>1. /\ paused' = FALSE /\ pacing' = [seated |-> FALSE, paused |-> FALSE]
        /\ worker' = [phase |-> "start", run |-> run + 1, completed |-> FALSE]
        /\ run' = run + 1 /\ owed' = run + 1
    BY <1>3 DEF PlayStart
  <2>2. Typed'
    <3>1. worker' \in Runs /\ run' \in Nat /\ owed' \in Nat
      BY <2>1 DEF Inv, Typed, Runs
    <3>2. pacing' \in Pacing
      BY <2>1 DEF Pacing
    <3> QED
      BY <1>1, <1>2, <2>1, <3>1, <3>2 DEF Typed
  <2>3. Alive' /\ worker'.run = owed' /\ pacing'.seated = FALSE
    BY <2>1 DEF Alive
  <2> QED
    BY <1>1, <1>2, <2>2, <2>3, IdleIsIdle
       DEF Inv, ClockFollows, Joined, AbortIsForJoins, WaitIsAnswered, At
<1>4. CASE ~source
  <2>1. owed' = NoRun /\ UNCHANGED <<paused, pacing, worker, run>>
    BY <1>4 DEF PlayStart
  <2> QED
    BY <1>1, <1>2, <2>1, IdleIsIdle
       DEF Inv, Typed, ClockFollows, Joined, AbortIsForJoins, WaitIsAnswered, At, NoRun
<1> QED
  BY <1>3, <1>4

LEMMA ForgetInv == ASSUME Inv, Forget PROVE Inv'
<1>1. /\ ui # Idle /\ ui.op \in {"reset", "unload"} /\ ui.step = "joinFetch" /\ ui' = Idle
      /\ UNCHANGED <<abort, worker, run, owed, untold>>
      /\ \/ paused' = FALSE /\ pacing' = [seated |-> FALSE, paused |-> FALSE]
         \/ UNCHANGED <<paused, pacing>>
  BY DEF Forget
<1>2. abort = FALSE /\ owed = NoRun
  BY <1>1 DEF Inv, Typed, AbortIsForJoins
<1>3. Typed' /\ ClockFollows'
  <2>1. [seated |-> FALSE, paused |-> FALSE] \in Pacing
    BY DEF Pacing
  <2>2. paused' \in BOOLEAN /\ pacing' \in Pacing
    BY <1>1, <2>1 DEF Inv, Typed
  <2>3. Typed'
    BY <1>1, <2>2 DEF Inv, Typed
  <2>4. ui.op # "pause"
    BY <1>1
  <2> QED
    BY <1>1, <2>3, <2>4 DEF Inv, ClockFollows
<1> QED
  BY <1>1, <1>2, <1>3, IdleIsIdle DEF Inv, Joined, AbortIsForJoins, WaitIsAnswered, At

LEMMA PauseInv == ASSUME Inv, SetPaused \/ PauseClock PROVE Inv'
<1>1. UNCHANGED <<abort, worker, run, owed, untold>>
  BY DEF SetPaused, PauseClock
<1>2. ui = Idle \/ ui.op = "pause"
  BY DEF SetPaused, PauseClock, At
<1>3. abort = FALSE
  BY <1>2, IdleIsIdle DEF Inv, Typed, AbortIsForJoins
<1>4. owed # NoRun /\ ~untold => Alive /\ worker.run = owed
  BY <1>2, IdleIsIdle DEF Inv, WaitIsAnswered, Replacing
<1>5. CASE SetPaused
  <2>1. paused' \in BOOLEAN /\ pacing' = pacing
        /\ ui' = [op |-> "pause", key |-> {}, step |-> "clock"]
    BY <1>5 DEF SetPaused
  <2>2. ui' \in Busy /\ ui'.op = "pause" /\ ui'.step = "clock"
    BY <2>1 DEF Busy, Ops, Steps
  <2> QED
    BY <1>1, <1>3, <1>4, <2>1, <2>2
       DEF Inv, Typed, ClockFollows, Joined, AbortIsForJoins, WaitIsAnswered, At, Alive
<1>6. CASE PauseClock
  <2>1. ui' = Idle /\ paused' = paused /\ pacing' = [pacing EXCEPT !.paused = paused]
    BY <1>6 DEF PauseClock
  <2>2. pacing' \in Pacing /\ pacing'.paused = paused
    BY <2>1 DEF Inv, Typed, Pacing
  <2> QED
    BY <1>1, <1>3, <1>4, <2>1, <2>2, IdleIsIdle
       DEF Inv, Typed, ClockFollows, Joined, AbortIsForJoins, WaitIsAnswered, At, Alive
<1> QED
  BY <1>5, <1>6

LEMMA WorkerInv == ASSUME Inv, Worker PROVE Inv'
<1>1. UNCHANGED <<ui, abort, paused, run>> /\ Alive
  BY DEF Worker, Lost, Open, Seat, EndRun, Tell, Alive
<1>2. ~At("play", "start")
  BY <1>1 DEF Inv, Joined
<1>3. Joined'
  BY <1>1, <1>2 DEF Joined, At
<1>4. CASE Lost
  <2>1. UNCHANGED <<pacing, owed>> /\ untold' = (owed # NoRun)
        /\ worker' = [worker EXCEPT !.phase = "none"]
    BY <1>4 DEF Lost
  <2>2. worker' \in Runs
    BY <2>1 DEF Inv, Typed, Runs
  <2> QED
    BY <1>1, <1>3, <2>1, <2>2
       DEF Inv, Typed, ClockFollows, AbortIsForJoins, WaitIsAnswered, NoRun
<1>5. CASE Open \/ EndRun
  <2>1. UNCHANGED <<pacing, owed, untold>>
    BY <1>5 DEF Open, EndRun
  <2>2. worker' \in Runs /\ worker'.phase # "none" /\ worker'.run = worker.run
    BY <1>5 DEF Open, EndRun, Inv, Typed, Runs
  <2> QED
    BY <1>1, <1>3, <2>1, <2>2
       DEF Inv, Typed, ClockFollows, AbortIsForJoins, WaitIsAnswered, Replacing, Alive
<1>6. CASE Seat
  <2>1. UNCHANGED <<worker, owed, untold>> /\ pacing' = [seated |-> TRUE, paused |-> paused]
    BY <1>6 DEF Seat
  <2>2. pacing' \in Pacing /\ pacing'.paused = paused
    BY <2>1 DEF Inv, Typed, Pacing
  <2> QED
    BY <1>1, <1>3, <2>1, <2>2
       DEF Inv, Typed, ClockFollows, AbortIsForJoins, WaitIsAnswered, Replacing, Alive
<1>7. CASE Tell
  <2>1. UNCHANGED <<pacing, untold>> /\ worker' = [worker EXCEPT !.phase = "none"]
        /\ owed' = IF Tells /\ owed = worker.run THEN NoRun ELSE owed
    BY <1>7 DEF Tell
  <2>2. worker' \in Runs /\ owed' \in Nat
    BY <2>1 DEF Inv, Typed, Runs, NoRun
  <2>3. owed' # NoRun /\ ~untold => Replacing
    <3> SUFFICES ASSUME owed' # NoRun, ~untold, ~Replacing PROVE FALSE
      OBVIOUS
    <3>1. owed' = owed /\ ~(Tells /\ owed = worker.run)
      BY <2>1
    <3>2. worker.run = owed
      BY <3>1 DEF Inv, WaitIsAnswered
    <3>3. abort
      BY <3>1, <3>2 DEF Tells
    <3>4. ui \in Busy /\ ui.step = "join" /\ ui.op \in Ops
      BY <3>3 DEF Inv, Typed, AbortIsForJoins, Busy
    <3> QED
      BY <3>1, <3>4 DEF Inv, AbortIsForJoins, Replacing, Ops
  <2>4. WaitIsAnswered' /\ AbortIsForJoins'
    <3>1. owed' # NoRun => owed # NoRun
      BY <2>1
    <3>2. Replacing' <=> Replacing
      BY <1>1 DEF Replacing
    <3>3. WaitIsAnswered'
      BY <2>1, <2>3, <3>2 DEF WaitIsAnswered
    <3>4. AbortIsForJoins'
      BY <1>1, <2>1, <3>1 DEF Inv, AbortIsForJoins
    <3> QED
      BY <3>3, <3>4
  <2>5. Typed' /\ ClockFollows'
    BY <1>1, <2>1, <2>2 DEF Inv, Typed, ClockFollows
  <2> QED
    BY <1>3, <2>4, <2>5 DEF Inv
<1> QED
  BY <1>4, <1>5, <1>6, <1>7 DEF Worker

LEMMA StepInv == Inv /\ [Next]_vars => Inv'
<1> SUFFICES ASSUME Inv, [Next]_vars PROVE Inv'
  OBVIOUS
<1>1. CASE UNCHANGED vars
  BY <1>1
     DEF vars, clipVars, Inv, Typed, ClockFollows, Joined, AbortIsForJoins, WaitIsAnswered, At,
         Replacing, Alive
<1> QED
  BY <1>1, BeginInv, FetchStepsInv, JoinStepsInv, PlayStartInv, ForgetInv, PauseInv, WorkerInv
     DEF Next, Commanded

\* A pause is never forgotten: not when the first picture seats the clock, not when a clip
\* is replaced in the middle of the command.
THEOREM PausesReachTheClock == Spec => []PauseReachesTheClock
<1>1. Inv => PauseReachesTheClock
  BY IdleIsIdle DEF Inv, ClockFollows, PauseReachesTheClock
<1> QED
  BY <1>1, InitInv, StepInv, PTL DEF Spec

\* The clip the queue waits for has a thread that will tell it, or is being replaced.
THEOREM WaitsAreAnswered == Spec => []WaitIsAnswered
<1>1. Inv => WaitIsAnswered
  BY DEF Inv
<1> QED
  BY <1>1, InitInv, StepInv, PTL DEF Spec

\* A clip is started only when the thread of the one before has ended.
StartsAlone == [][worker'.run # worker.run => ~Alive]_vars

\* Two threads never draw on one input, whatever the commands.
THEOREM OneThreadDraws == Spec => StartsAlone
<1>1. Inv /\ [Next]_vars => [worker'.run # worker.run => ~Alive]_vars
  <2> SUFFICES ASSUME Inv, Next, worker'.run # worker.run PROVE ~Alive
    OBVIOUS
  <2>1. CASE PlayStart
    BY <2>1 DEF PlayStart, Inv, Joined
  <2>2. CASE ~PlayStart
    <3>1. worker' = worker \/ Lost \/ Open \/ EndRun \/ Tell
      BY <2>2 DEF Next, Command, EnsureSource, SetPaused, Commanded, PlayFetch, PlayPut, RaiseAbort,
                  JoinWorker, DropSource, Forget, PrefetchLook, PrefetchStart, PauseClock, Worker,
                  Seat, Fetcher, FetchRead, FetchPut, FetchEnd, clipVars
    <3>2. worker \in Runs
      BY DEF Inv, Typed
    <3>3. \/ worker' = worker
          \/ \E p \in {"none", "run", "tell"}, c \in BOOLEAN :
                \/ worker' = [worker EXCEPT !.phase = p]
                \/ worker' = [worker EXCEPT !.phase = p, !.completed = c]
      BY <3>1 DEF Lost, Open, EndRun, Tell
    <3>4. worker'.run = worker.run
      BY <3>2, <3>3 DEF Runs
    <3> QED
      BY <3>4
  <2> QED
    BY <2>1, <2>2
<1> QED
  BY <1>1, InitInv, StepInv, PTL DEF Spec, StartsAlone

-----------------------------------------------------------------------------
(* Numbers, and what a list adds up to.                                    *)

LEMMA LeastOf == ASSUME NEW S \in SUBSET Nat, S # {} PROVE \E x \in S : \A y \in S : x <= y
<1>1. PICK x \in S : \A y \in S : ~(<<y, x>> \in OpToRel(<, Nat))
  BY NatLessThanWellFounded, WFMin
<1>2. \A y \in S : ~(y < x)
  BY <1>1 DEF OpToRel
<1> QED
  BY <1>2

LEMMA ByInduction ==
    ASSUME NEW S, 0 \in S, \A n \in Nat : n \in S => n + 1 \in S
    PROVE  Nat \subseteq S
<1> SUFFICES ASSUME Nat \ S # {} PROVE FALSE
  OBVIOUS
<1>1. PICK x \in Nat \ S : \A y \in Nat \ S : x <= y
  BY LeastOf
<1>2. x # 0 /\ x - 1 \in Nat
  BY <1>1
<1>3. x - 1 \in S
  BY <1>1, <1>2
<1> QED
  BY <1>1, <1>2, <1>3

Entries == [key : Keys, project : Nat]

Sums(f, c) ==
    /\ f \in [0..Len(c) -> Nat] /\ f[0] = 0
    /\ \A n \in 1..Len(c) : f[n] = f[n - 1] + Size[c[n].key]

LEMMA BytesSum == ASSUME NEW c \in Seq(Entries) PROVE \E f : Sums(f, c) /\ Bytes(c) = f[Len(c)]
<1> DEFINE N == Len(c)
           U(f) == [n \in 0..N |-> IF n = 0 THEN 0 ELSE f[n - 1] + Size[c[n].key]]
           Upto(m, f) == /\ f \in [0..N -> Nat] /\ f[0] = 0
                         /\ \A n \in 1..N : n <= m => f[n] = f[n - 1] + Size[c[n].key]
           S == {m \in Nat : \E f : Upto(m, f)}
<1>1. N \in Nat /\ \A n \in 1..N : Size[c[n].key] \in Nat
  <2>1. \A n \in 1..N : c[n] \in Entries
    OBVIOUS
  <2>2. \A n \in 1..N : c[n].key \in Keys
    BY <2>1 DEF Entries
  <2> QED
    BY <2>2, SizeAssumption
<1>2. 0 \in S
  <2>1. Upto(0, [n \in 0..N |-> 0])
    BY <1>1
  <2> QED
    BY <2>1
<1>3. \A m \in Nat : m \in S => m + 1 \in S
  <2> SUFFICES ASSUME NEW m \in S PROVE m + 1 \in S
    OBVIOUS
  <2>1. PICK f : Upto(m, f)
    OBVIOUS
  <2>2. CASE m + 1 \notin 1..N
    BY <1>1, <2>1, <2>2
  <2>3. CASE m + 1 \in 1..N
    <3> DEFINE g == [f EXCEPT ![m + 1] = f[m] + Size[c[m + 1].key]]
    <3>1. f \in [0..N -> Nat] /\ m \in 0..N /\ m + 1 \in 0..N /\ f[m] + Size[c[m + 1].key] \in Nat
      <4>1. m \in Nat /\ m + 1 \in 1..N
        BY <2>3
      <4>2. f \in [0..N -> Nat] /\ m \in 0..N
        BY <1>1, <2>1, <4>1
      <4>3. f[m] \in Nat /\ Size[c[m + 1].key] \in Nat
        BY <1>1, <4>1, <4>2
      <4> QED
        BY <1>1, <4>1, <4>2, <4>3
    <3>2. g \in [0..N -> Nat] /\ g[m + 1] = f[m] + Size[c[m + 1].key]
          /\ \A n \in 0..N : n # m + 1 => g[n] = f[n]
      BY <3>1
    <3>3. Upto(m + 1, g)
      <4> HIDE DEF g
      <4> QED
      BY <1>1, <2>1, <2>3, <3>1, <3>2
    <3>4. m + 1 \in Nat
      BY <2>3
    <3> HIDE DEF g, Upto
    <3> QED
      BY <3>3, <3>4
  <2> QED
    BY <2>2, <2>3
<1>4. Nat \subseteq S
  <2> HIDE DEF S
  <2> QED
    BY <1>2, <1>3, ByInduction
<1>5. PICK f : Upto(N, f)
  BY <1>1, <1>4
<1>6. Sums(f, c)
  BY <1>1, <1>5 DEF Sums
<1> DEFINE h == CHOOSE g : g = U(g)
<1>7. f = U(f)
  <2>1. \A n \in 0..N : f[n] = U(f)[n]
    BY <1>1, <1>6 DEF Sums
  <2>2. f \in [0..N -> Nat]
    BY <1>6 DEF Sums
  <2> QED
    BY <2>1, <2>2
<1>8. h = U(h)
  BY <1>7
<1>9. Bytes(c) = h[N]
  BY DEF Bytes
<1> HIDE DEF h
<1> DEFINE T == {n \in Nat : n \in 0..N => h[n] = f[n]}
<1>10. \A n \in 0..N : h[n] = IF n = 0 THEN 0 ELSE h[n - 1] + Size[c[n].key]
  BY <1>8
<1>11. 0 \in T
  BY <1>1, <1>10, <1>6 DEF Sums
<1>12. \A n \in Nat : n \in T => n + 1 \in T
  BY <1>1, <1>10, <1>6 DEF Sums
<1>13. Nat \subseteq T
  <2> HIDE DEF T
  <2> QED
    BY <1>11, <1>12, ByInduction
<1> QED
  BY <1>1, <1>6, <1>9, <1>13

LEMMA RemovalOf ==
    ASSUME NEW S, NEW c \in Seq(S), NEW i \in DOMAIN c
    PROVE  /\ RemoveAt(c, i) \in Seq(S) /\ Len(RemoveAt(c, i)) = Len(c) - 1
           /\ \A j \in 1..(Len(c) - 1) :
                RemoveAt(c, i)[j] = IF j < i THEN c[j] ELSE c[j + 1]
<1> DEFINE a == SubSeq(c, 1, i - 1)
           b == SubSeq(c, i + 1, Len(c))
<1>1. Len(c) \in Nat /\ i \in 1..Len(c)
  OBVIOUS
<1>2. a \in Seq(S) /\ Len(a) = i - 1 /\ \A j \in 1..(i - 1) : a[j] = c[j]
  BY <1>1
<1>3. b \in Seq(S) /\ Len(b) = Len(c) - i /\ \A j \in 1..(Len(c) - i) : b[j] = c[i + j]
  BY <1>1
<1>4. RemoveAt(c, i) = a \o b
  BY DEF RemoveAt
<1> HIDE DEF a, b
<1> QED
  BY SMTT(20), <1>1, <1>2, <1>3, <1>4

\* A clip moved to the end of the list weighs what it weighed.
LEMMA MovingKeepsBytes ==
    ASSUME NEW c \in Seq(Entries), NEW i \in DOMAIN c
    PROVE  Bytes(Append(RemoveAt(c, i), c[i])) = Bytes(c)
<1> DEFINE d == Append(RemoveAt(c, i), c[i])
           N == Len(c)
<1>1. N \in Nat /\ i \in 1..N /\ c[i] \in Entries
  OBVIOUS
<1>2. /\ d \in Seq(Entries) /\ Len(d) = N
      /\ \A j \in 1..N : d[j] = IF j < i THEN c[j] ELSE IF j < N THEN c[j + 1] ELSE c[i]
  <2> DEFINE r == RemoveAt(c, i)
  <2>1. /\ r \in Seq(Entries) /\ Len(r) = N - 1
        /\ \A j \in 1..(N - 1) : r[j] = IF j < i THEN c[j] ELSE c[j + 1]
    BY RemovalOf
  <2> HIDE DEF r
  <2>2. /\ Append(r, c[i]) \in Seq(Entries) /\ Len(Append(r, c[i])) = N
        /\ Append(r, c[i])[N] = c[i]
        /\ \A j \in 1..(N - 1) : Append(r, c[i])[j] = r[j]
    BY <1>1, <2>1
  <2>3. \A j \in 1..N : j = N \/ j \in 1..(N - 1)
    BY <1>1
  <2> QED
    BY <1>1, <2>1, <2>2, <2>3 DEF r
<1> HIDE DEF d
<1>3. PICK f : Sums(f, c) /\ Bytes(c) = f[N]
  BY BytesSum
<1>4. PICK g : Sums(g, d) /\ Bytes(d) = g[N]
  BY <1>2, BytesSum
<1> DEFINE T == {n \in Nat : n \in 0..N =>
                    g[n] = IF n < i THEN f[n]
                           ELSE IF n < N THEN f[n + 1] - Size[c[i].key] ELSE f[N]}
<1>5. \A n \in 0..N : f[n] \in Nat /\ g[n] \in Nat
  BY <1>2, <1>3, <1>4 DEF Sums
<1>6. \A n \in 1..N : Size[c[n].key] \in Nat
  <2>1. \A n \in 1..N : c[n] \in Entries
    OBVIOUS
  <2>2. \A n \in 1..N : c[n].key \in Keys
    BY <2>1 DEF Entries
  <2> QED
    BY <2>2, SizeAssumption
<1>7. 0 \in T
  BY <1>1, <1>2, <1>3, <1>4 DEF Sums
<1>8. \A n \in Nat : n \in T => n + 1 \in T
  <2>0. \A n \in Nat : n + 1 \in 1..N \/ n + 1 \in T
    <3>1. \A n \in Nat : n + 1 \in 1..N \/ n + 1 \notin 0..N
      BY <1>1
    <3> QED
      BY <3>1
  <2> SUFFICES ASSUME NEW n \in Nat, n \in T, n + 1 \in 1..N PROVE n + 1 \in T
    <3> HIDE DEF T
    <3> QED
      BY <2>0
  <2>1. g[n + 1] = g[n] + Size[d[n + 1].key] /\ f[n + 1] = f[n] + Size[c[n + 1].key]
    <3>1. n + 1 \in 1..N /\ (n + 1) - 1 = n
      OBVIOUS
    <3> QED
      BY <1>2, <1>3, <1>4, <3>1 DEF Sums
  <2>2. n + 1 < N => f[n + 2] = f[n + 1] + Size[c[n + 2].key]
    <3>1. n + 1 < N => n + 2 \in 1..N /\ (n + 2) - 1 = n + 1
      BY <1>1
    <3> QED
      BY <3>1, <1>3 DEF Sums
  <2>3. n \in 0..N /\ f[n] \in Nat /\ f[n + 1] \in Nat /\ g[n] \in Nat
    BY <1>1, <1>5
  <2>4. CASE n + 1 < i
    BY <1>1, <1>2, <2>1, <2>3, <2>4
  <2>5. CASE n + 1 >= i /\ n + 1 < N
    <3>1. d[n + 1] = c[n + 2] /\ f[n + 2] \in Nat /\ Size[c[n + 2].key] \in Nat
      BY <1>1, <1>2, <1>5, <1>6, <2>5
    <3>2. g[n] = f[n + 1] - Size[c[i].key]
      BY <1>1, <1>6, <2>1, <2>3, <2>5
    <3>3. g[n + 1] = f[n + 2] - Size[c[i].key]
      <4>1. f[n + 2] = f[n + 1] + Size[c[n + 2].key] /\ g[n + 1] = g[n] + Size[c[n + 2].key]
        BY <2>1, <2>2, <2>5, <3>1
      <4>2. Size[c[i].key] \in Nat /\ f[n + 1] \in Nat
        BY <1>1, <1>6, <2>3
      <4> QED
        BY <3>1, <3>2, <4>1, <4>2
    <3> QED
      BY <1>1, <2>5, <3>3
  <2>6. CASE n + 1 = N
    <3>1. d[n + 1] = c[i]
      BY <1>1, <1>2, <2>6
    <3>2. g[n] = f[n + 1] - Size[c[i].key]
      BY <1>1, <1>6, <2>1, <2>3, <2>6
    <3> QED
      BY <1>1, <1>6, <2>1, <2>3, <2>6, <3>1, <3>2
  <2> QED
    BY <1>1, <2>4, <2>5, <2>6
<1>9. Nat \subseteq T
  <2> HIDE DEF T
  <2> QED
    BY <1>7, <1>8, ByInduction
<1>10. g[N] = f[N]
  BY <1>1, <1>9
<1> QED
  BY <1>3, <1>4, <1>10 DEF d

-----------------------------------------------------------------------------
(* The cache of clips.                                                     *)

Reads == {NoFetch} \cup [phase : {"read", "put", "end"}, key : Keys, project : Nat]

\* A fetch in progress reads for the project at hand: only a command that has waited for it
\* changes the project.
CacheTyped ==
    /\ project \in Nat /\ cache \in Seq(Entries)
    /\ fetching \in Reads
    /\ fetching # NoFetch => fetching.project = project
    /\ ui # Idle /\ ui.op \in {"play", "prefetch"} => \E k \in Keys : ui.key = {k}

OneEach(c) == \A i, j \in DOMAIN c : c[i].key = c[j].key => i = j
OfProject(c) == \A i \in DOMAIN c : c[i].project = project

CacheInv ==
    /\ CacheTyped
    /\ Len(cache) <= MaxEntries /\ Bytes(cache) <= MaxBytes
    /\ OneEach(cache) /\ OfProject(cache)

LEMMA NoBytes == Bytes(<<>>) = 0
<1>1. <<>> \in Seq(Entries) /\ Len(<<>>) = 0
  OBVIOUS
<1> QED
  BY <1>1, BytesSum DEF Sums

LEMMA PlaceOf ==
    ASSUME NEW k, cache \in Seq(Entries), Cached(k)
    PROVE  Place(k) \in DOMAIN cache /\ cache[Place(k)].key = k
<1> DEFINE S == {i \in DOMAIN cache : cache[i].key = k}
<1>1. S \in SUBSET Nat /\ S # {}
  BY DEF Cached
<1>2. \E x \in S : \A y \in S : x <= y
  BY <1>1, LeastOf
<1>3. Min(S) \in S
  BY <1>2 DEF Min
<1> QED
  BY <1>3 DEF Place

\* What is left when the clip is taken out: one entry per clip, and none of this one.
LEMMA WithoutKeeps ==
    ASSUME CacheInv, NEW k
    PROVE  /\ Without(k) \in Seq(Entries)
           /\ OneEach(Without(k)) /\ OfProject(Without(k))
           /\ \A i \in DOMAIN Without(k) : Without(k)[i].key # k
<1>1. CASE ~Cached(k)
  BY <1>1 DEF CacheInv, CacheTyped, Without, Cached
<1>2. CASE Cached(k)
  <2> DEFINE p == Place(k)
             r == RemoveAt(cache, p)
  <2>1. p \in DOMAIN cache /\ cache[p].key = k /\ Without(k) = r /\ cache \in Seq(Entries)
    BY <1>2, PlaceOf DEF CacheInv, CacheTyped, Without
  <2>2. /\ r \in Seq(Entries) /\ Len(r) = Len(cache) - 1
        /\ \A j \in 1..(Len(cache) - 1) : r[j] = IF j < p THEN cache[j] ELSE cache[j + 1]
    BY <2>1, RemovalOf
  <2> HIDE DEF p, r
  <2> DEFINE old(j) == IF j < p THEN j ELSE j + 1
  <2>3. /\ DOMAIN r = 1..(Len(cache) - 1) /\ DOMAIN cache = 1..Len(cache) /\ Len(cache) \in Nat
        /\ p \in 1..Len(cache)
    BY <2>1, <2>2
  <2>4. \A j \in DOMAIN r : old(j) \in DOMAIN cache /\ old(j) # p /\ r[j] = cache[old(j)]
    BY <2>2, <2>3
  <2>5. \A i, j \in DOMAIN r : old(i) = old(j) => i = j
    BY <2>3
  <2> HIDE DEF old
  <2> QED
    BY <2>1, <2>2, <2>4, <2>5 DEF CacheInv, OneEach, OfProject
<1> QED
  BY <1>1, <1>2

LEMMA TouchKeeps ==
    ASSUME CacheInv, NEW k, Cached(k), Touch(k)
    PROVE  /\ cache' \in Seq(Entries) /\ OneEach(cache') /\ OfProject(cache')
           /\ Len(cache') <= MaxEntries /\ Bytes(cache') <= MaxBytes
<1> DEFINE r == Without(k)
           e == cache[Place(k)]
<1>1. cache \in Seq(Entries) /\ Place(k) \in DOMAIN cache /\ e.key = k /\ e \in Entries
      /\ e.project = project
  <2>1. cache \in Seq(Entries)
    BY DEF CacheInv, CacheTyped
  <2> QED
    BY <2>1, PlaceOf DEF CacheInv, OfProject
<1>2. r = RemoveAt(cache, Place(k)) /\ cache' = Append(r, e)
  BY DEF Without, Touch
<1>3. /\ r \in Seq(Entries) /\ OneEach(r) /\ OfProject(r)
      /\ \A i \in DOMAIN r : r[i].key # k
  BY WithoutKeeps
<1>4. Len(r) = Len(cache) - 1
  BY <1>1, <1>2, RemovalOf
<1>5. Bytes(cache') = Bytes(cache)
  BY <1>1, <1>2, MovingKeepsBytes
<1> HIDE DEF r, e
<1>6. /\ cache' \in Seq(Entries) /\ Len(cache') = Len(cache)
      /\ \A i \in DOMAIN cache' :
            (i \in DOMAIN r /\ cache'[i] = r[i]) \/ (i = Len(cache) /\ cache'[i] = e)
  BY <1>1, <1>2, <1>3, <1>4
<1>7. OneEach(cache') /\ OfProject(cache')
  BY <1>1, <1>3, <1>6 DEF OneEach, OfProject
<1> QED
  BY <1>5, <1>6, <1>7 DEF CacheInv

\* What stays keeps both limits: with nothing left there is nothing to weigh.
LEMMA EvictKeeps ==
    ASSUME NEW c \in Seq(Entries), OneEach(c), OfProject(c)
    PROVE  /\ Evict(c) \in Seq(Entries) /\ OneEach(Evict(c)) /\ OfProject(Evict(c))
           /\ Len(Evict(c)) <= MaxEntries /\ Bytes(Evict(c)) <= MaxBytes
<1> DEFINE N == Len(c)
           fits == {i \in 1..(N + 1) : /\ N + 1 - i <= MaxEntries
                                       /\ Bytes(SubSeq(c, i, N)) <= MaxBytes}
<1>1. N \in Nat
  OBVIOUS
<1>2. N + 1 \in fits
  <2>1. SubSeq(c, N + 1, N) = <<>>
    BY <1>1
  <2>2. Bytes(SubSeq(c, N + 1, N)) = 0
    BY <2>1, NoBytes
  <2>3. N + 1 \in 1..(N + 1) /\ N + 1 - (N + 1) = 0
    BY <1>1
  <2> QED
    BY <2>2, <2>3, SizeAssumption
<1>3. PICK i \in fits : i = Min(fits)
  <2>1. fits \in SUBSET Nat /\ fits # {}
    BY <1>1, <1>2
  <2> HIDE DEF fits
  <2>2. \E x \in fits : \A y \in fits : x <= y
    BY <2>1, LeastOf
  <2> QED
    BY <2>2 DEF Min
<1>4. Evict(c) = SubSeq(c, i, N)
  BY <1>3 DEF Evict
<1>5. i \in 1..(N + 1) /\ N + 1 - i <= MaxEntries /\ Bytes(SubSeq(c, i, N)) <= MaxBytes
  BY <1>3
<1> HIDE DEF fits
<1>6. /\ SubSeq(c, i, N) \in Seq(Entries) /\ Len(SubSeq(c, i, N)) = N + 1 - i
      /\ \A j \in 1..(N + 1 - i) : SubSeq(c, i, N)[j] = c[i + j - 1]
  BY <1>1, <1>5
<1>7. \A j \in 1..(N + 1 - i) : i + j - 1 \in DOMAIN c
  BY <1>1, <1>5
<1>8. DOMAIN SubSeq(c, i, N) = 1..(N + 1 - i)
  BY <1>6
<1> HIDE DEF N
<1>9. OneEach(SubSeq(c, i, N)) /\ OfProject(SubSeq(c, i, N))
  <2>1. OfProject(SubSeq(c, i, N))
    BY <1>6, <1>7, <1>8 DEF OfProject
  <2>2. \A j, m \in 1..(N + 1 - i) : i + j - 1 = i + m - 1 => j = m
    BY <1>5
  <2>3. \A j, m \in 1..(N + 1 - i) : c[i + j - 1].key = c[i + m - 1].key => j = m
    BY <1>7, <2>2 DEF OneEach
  <2>4. OneEach(SubSeq(c, i, N))
    <3> SUFFICES ASSUME NEW j \in 1..(N + 1 - i), NEW m \in 1..(N + 1 - i),
                        SubSeq(c, i, N)[j].key = SubSeq(c, i, N)[m].key
                 PROVE  j = m
      BY <1>8 DEF OneEach
    <3>1. c[i + j - 1].key = c[i + m - 1].key
      BY <1>6
    <3> QED
      BY <2>3, <3>1
  <2> QED
    BY <2>1, <2>4
<1> QED
  BY <1>4, <1>5, <1>6, <1>9

LEMMA PutKeeps ==
    ASSUME CacheInv, NEW k \in Keys, Put(k, project)
    PROVE  /\ cache' \in Seq(Entries) /\ OneEach(cache') /\ OfProject(cache')
           /\ Len(cache') <= MaxEntries /\ Bytes(cache') <= MaxBytes
<1>1. CASE Size[k] > MaxBytes
  BY <1>1 DEF Put, CacheInv, CacheTyped
<1>2. CASE ~(Size[k] > MaxBytes)
  <2> DEFINE r == Without(k)
             e == [key |-> k, project |-> project]
             c == Append(r, e)
  <2>1. /\ r \in Seq(Entries) /\ OneEach(r) /\ OfProject(r)
        /\ \A i \in DOMAIN r : r[i].key # k
    BY WithoutKeeps
  <2>2. e \in Entries /\ e.key = k /\ e.project = project
    BY DEF CacheInv, CacheTyped, Entries
  <2>3. cache' = Evict(c)
    BY <1>2 DEF Put
  <2> HIDE DEF r, e
  <2>4. /\ c \in Seq(Entries)
        /\ \A i \in DOMAIN c : (i \in DOMAIN r /\ c[i] = r[i]) \/ (i = Len(r) + 1 /\ c[i] = e)
    BY <2>1, <2>2
  <2>5. OneEach(c) /\ OfProject(c)
    BY <2>1, <2>2, <2>4 DEF OneEach, OfProject
  <2> HIDE DEF c
  <2> QED
    BY <2>3, <2>4, <2>5, EvictKeeps
<1> QED
  BY <1>1, <1>2

LEMMA CacheInit == Init => CacheInv
<1> SUFFICES ASSUME Init PROVE CacheInv
  OBVIOUS
<1>1. cache = <<>> /\ project = 0 /\ fetching = NoFetch /\ ui = Idle
  BY DEF Init
<1>2. Len(cache) = 0 /\ DOMAIN cache = {} /\ cache \in Seq(Entries)
  BY <1>1
<1> QED
  BY <1>1, <1>2, NoBytes, SizeAssumption DEF CacheInv, CacheTyped, Reads, OneEach, OfProject

\* The steps of the UI thread and of the clip that leave the cache alone.
LEMMA CacheSpared ==
    ASSUME CacheInv, Typed, UNCHANGED <<cache, project>>,
           fetching' \in Reads, fetching' # NoFetch => fetching'.project = project,
           ui' # Idle /\ ui'.op \in {"play", "prefetch"} => \E k \in Keys : ui'.key = {k}
    PROVE  CacheInv'
<1>1. CacheTyped'
  BY DEF CacheInv, CacheTyped
<1>2. OneEach(cache)' /\ OfProject(cache)' /\ Len(cache)' <= MaxEntries /\ Bytes(cache)' <= MaxBytes
  BY DEF CacheInv, OneEach, OfProject, Bytes
<1> QED
  BY <1>1, <1>2 DEF CacheInv

LEMMA ReadOf ==
    ASSUME CacheInv, fetching # NoFetch
    PROVE  /\ fetching.key \in Keys /\ fetching.project = project
           /\ \A p \in {"read", "put", "end"} :
                /\ [fetching EXCEPT !.phase = p] \in Reads
                /\ [fetching EXCEPT !.phase = p].project = project
  BY DEF CacheInv, CacheTyped, Reads

LEMMA KeyOf ==
    ASSUME CacheInv, ui # Idle, ui.op \in {"play", "prefetch"}
    PROVE  Key \in Keys /\ ui.key = {Key}
<1>1. PICK k \in Keys : ui.key = {k}
  BY DEF CacheInv, CacheTyped
<1> QED
  BY <1>1 DEF Key

LEMMA CacheStep == CacheInv /\ Inv /\ [Next]_vars => CacheInv'
<1> SUFFICES ASSUME CacheInv, Inv, [Next]_vars PROVE CacheInv'
  OBVIOUS
<1>0. /\ fetching \in Reads /\ (fetching # NoFetch => fetching.project = project)
      /\ (ui # Idle /\ ui.op \in {"play", "prefetch"} => \E k \in Keys : ui.key = {k})
      /\ Typed
  BY DEF CacheInv, CacheTyped, Inv
<1>1. CASE Command
  <2>1. UNCHANGED cacheVars
    BY <1>1 DEF Command
  <2>2. ui'.op \in {"play", "prefetch"} => \E k \in Keys : ui'.key = {k}
    BY <1>1 DEF Command, BeginPlay, BeginStop, BeginForget, BeginRelease, BeginPrefetch, Begin
  <2> QED
    BY <1>0, <2>1, <2>2, CacheSpared DEF cacheVars
<1>2. CASE SetPaused
  BY <1>0, <1>2, CacheSpared DEF SetPaused, cacheVars
<1>3. CASE Worker \/ EnsureSource \/ UNCHANGED vars
  <2>1. UNCHANGED <<ui, cacheVars>>
    BY <1>3 DEF Worker, Lost, Open, Seat, EndRun, Tell, EnsureSource, vars
  <2> QED
    BY <1>0, <2>1, CacheSpared DEF cacheVars
<1>4. CASE RaiseAbort \/ JoinWorker \/ PlayStart \/ DropSource \/ PrefetchLook \/ PauseClock
  <2>1. UNCHANGED cacheVars
    BY <1>4 DEF RaiseAbort, JoinWorker, PlayStart, DropSource, PrefetchLook, PauseClock
  <2>2. ui # Idle /\ (ui' = Idle \/ \E s \in Steps : Step(s))
    <3>1. {"join", "start", "drop", "joinFetch"} \subseteq Steps
      BY DEF Steps
    <3> QED
      BY <1>4, <3>1, IdleIsIdle
         DEF RaiseAbort, JoinWorker, PlayStart, DropSource, PrefetchLook, PauseClock, At
  <2>3. ui' = Idle \/ (ui'.op = ui.op /\ ui'.key = ui.key)
    BY <1>0, <2>2, UiFields DEF Step
  <2> QED
    BY <1>0, <2>1, <2>2, <2>3, CacheSpared DEF cacheVars
<1>5. CASE PlayFetch \/ PlayPut
  <2>1. /\ ui # Idle /\ ui.op = "play" /\ UNCHANGED <<fetching, project>>
        /\ ui' = Idle \/ \E s \in Steps : Step(s)
    <3>1. {"put", "abort"} \subseteq Steps
      BY DEF Steps
    <3> QED
      BY <1>5, <3>1, IdleIsIdle DEF PlayFetch, PlayPut, At
  <2>2. ui' = Idle \/ (ui'.op = ui.op /\ ui'.key = ui.key)
    BY <1>0, <2>1, UiFields DEF Step
  <2>3. \/ UNCHANGED cache
        \/ Cached(Key) /\ Touch(Key)
        \/ Put(Key, project)
    BY <1>5 DEF PlayFetch, PlayPut
  <2>4. CASE UNCHANGED cache
    BY <1>0, <2>1, <2>2, <2>4, CacheSpared
  <2>5. CASE (Cached(Key) /\ Touch(Key)) \/ Put(Key, project)
    <3>1. Key \in Keys
      BY <2>1, KeyOf
    <3>2. /\ cache' \in Seq(Entries) /\ OneEach(cache') /\ OfProject(cache')
          /\ Len(cache') <= MaxEntries /\ Bytes(cache') <= MaxBytes
      BY <2>5, <3>1, TouchKeeps, PutKeeps
    <3> QED
      BY <1>0, <2>1, <2>2, <3>2 DEF CacheInv, CacheTyped, OneEach, OfProject, Bytes
  <2> QED
    BY <2>3, <2>4, <2>5
<1>6. CASE Forget
  <2>1. /\ cache' = <<>> /\ project' = project + 1 /\ UNCHANGED fetching /\ ui' = Idle
        /\ fetching = NoFetch
    BY <1>6 DEF Forget
  <2>2. Len(cache') = 0 /\ DOMAIN cache' = {} /\ cache' \in Seq(Entries) /\ project' \in Nat
    BY <2>1 DEF CacheInv, CacheTyped
  <2>3. Bytes(cache') = 0
    BY <2>1, NoBytes
  <2> QED
    BY <1>0, <2>1, <2>2, <2>3, SizeAssumption DEF CacheInv, CacheTyped, OneEach, OfProject, Bytes
<1>7. CASE PrefetchStart
  <2>1. /\ ui # Idle /\ ui.op = "prefetch" /\ UNCHANGED <<cache, project>> /\ ui' = Idle
        /\ fetching' = [phase |-> "read", key |-> Key, project |-> project]
    BY <1>7, IdleIsIdle DEF PrefetchStart, At
  <2>2. fetching' \in Reads /\ fetching'.project = project
    BY <2>1, KeyOf DEF Reads, CacheInv, CacheTyped
  <2> QED
    BY <1>0, <2>1, <2>2, CacheSpared
<1>8. CASE FetchEnd
  BY <1>0, <1>8, CacheSpared DEF FetchEnd, Reads
<1>9. CASE FetchRead \/ FetchPut
  <2>1. /\ fetching # NoFetch /\ UNCHANGED <<ui, project>>
        /\ \E p \in {"put", "end"} : fetching' = [fetching EXCEPT !.phase = p]
    BY <1>9 DEF FetchRead, FetchPut, NoFetch
  <2>2. fetching' \in Reads /\ fetching'.project = project /\ fetching.key \in Keys
        /\ fetching.project = project
    BY <2>1, ReadOf
  <2>3. \/ UNCHANGED cache
        \/ Cached(fetching.key) /\ Touch(fetching.key)
        \/ Put(fetching.key, project)
    BY <1>9, <2>2 DEF FetchRead, FetchPut
  <2>4. CASE UNCHANGED cache
    BY <1>0, <2>1, <2>2, <2>4, CacheSpared
  <2>5. CASE (Cached(fetching.key) /\ Touch(fetching.key)) \/ Put(fetching.key, project)
    <3>1. /\ cache' \in Seq(Entries) /\ OneEach(cache') /\ OfProject(cache')
          /\ Len(cache') <= MaxEntries /\ Bytes(cache') <= MaxBytes
      BY <2>2, <2>5, TouchKeeps, PutKeeps
    <3> QED
      BY <1>0, <2>1, <2>2, <3>1 DEF CacheInv, CacheTyped, OneEach, OfProject, Bytes
  <2> QED
    BY <2>3, <2>4, <2>5
<1> QED
  BY <1>1, <1>2, <1>3, <1>4, <1>5, <1>6, <1>7, <1>8, <1>9 DEF Next, Commanded, Fetcher

LEMMA CountsItsKeys ==
    ASSUME cache \in Seq(Entries), OneEach(cache)
    PROVE  Cardinality({cache[i].key : i \in DOMAIN cache}) = Len(cache)
<1> DEFINE S == {cache[i].key : i \in DOMAIN cache}
           N == Len(cache)
           f == [i \in 1..N |-> cache[i].key]
<1>1. N \in Nat /\ DOMAIN cache = 1..N
  OBVIOUS
<1>2. f \in Bijection(1..N, S)
  <2>1. f \in [1..N -> S] /\ \A s \in S : \E i \in 1..N : f[i] = s
    BY <1>1
  <2>2. \A i, j \in 1..N : f[i] = f[j] => i = j
    BY <1>1 DEF OneEach
  <2> QED
    BY <2>1, <2>2 DEF Bijection, Injection, Surjection, IsInjective
<1>3. ExistsBijection(1..N, S)
  BY <1>2 DEF ExistsBijection
<1> QED
  BY <1>1, <1>3, FS_CountingElements

\* The cache keeps its limits, one entry per clip, and nothing of a project that was
\* forgotten, for any clips, any limits and any number of commands.
THEOREM CacheAlwaysHolds == Spec => []CacheHolds
<1>1. CacheInv => CacheHolds
  <2> SUFFICES ASSUME CacheInv PROVE CacheHolds
    OBVIOUS
  <2>1. \A e \in ToSet(cache) : e.project = project
    BY DEF CacheInv, OfProject, ToSet
  <2> QED
    BY <2>1, CountsItsKeys DEF CacheInv, CacheTyped, CacheHolds
<1>2. Init => CacheInv /\ Inv
  BY CacheInit, InitInv
<1>3. CacheInv /\ Inv /\ [Next]_vars => CacheInv' /\ Inv'
  BY CacheStep, StepInv
<1> QED
  BY <1>1, <1>2, <1>3, PTL DEF Spec

-----------------------------------------------------------------------------
(* The way back of a command.                                              *)

\* A command takes these steps, and no other.
Ways ==
    UNION {{"play"} \X {"fetch", "put", "abort", "join", "start"},
           {"stop"} \X {"abort", "join"},
           {"reset", "unload"} \X {"abort", "join", "joinFetch"},
           {"release"} \X {"abort", "join", "drop"},
           {"prefetch"} \X {"look", "start"},
           {"pause"} \X {"clock"}}

\* The joins, and what each waits for.
AtJoin == ui # Idle /\ ui.step = "join"
AtJoinFetch ==
    \/ ui.op \in {"reset", "unload"} /\ ui.step = "joinFetch"
    \/ At("prefetch", "start")

\* A command that waits waits for a thread that can go on by itself: the clip's, which was
\* told to end and so ends from a pause too, or the one that reads ahead.
NoWaitIsForEver ==
    /\ AtJoin => abort /\ worker.phase \in {"none", "start", "run", "tell"}
    /\ AtJoinFetch => fetching = NoFetch \/ fetching.phase \in {"read", "put", "end"}
    /\ ui # Idle => <<ui.op, ui.step>> \in Ways

\* How far the command, the clip's thread and the reading thread are from their ends.
Ahead(u) ==
    IF u = Idle THEN 0
    ELSE CASE u.step = "fetch" -> 5 [] u.step = "put" -> 4 [] u.step = "abort" -> 3
           [] u.step \in {"join", "look"} -> 2 [] OTHER -> 1
Playing(t, clock) ==
    CASE t.phase = "start" -> 4 [] t.phase = "run" -> (IF clock.seated THEN 2 ELSE 3)
      [] t.phase = "tell" -> 1 [] OTHER -> 0
Reading(f) ==
    CASE f.phase = "read" -> 3 [] f.phase = "put" -> 2 [] f.phase = "end" -> 1 [] OTHER -> 0
ToGo == Ahead(ui) + Playing(worker, pacing) + Reading(fetching)

\* While a command is under way every step of any thread brings its end nearer.
EveryStepIsNearer == ui # Idle => ui' = Idle \/ ToGo' < ToGo

LEMMA InitOnItsWay == Init => NoWaitIsForEver
BY IdleIsIdle DEF Init, NoWaitIsForEver, AtJoin, AtJoinFetch, At

LEMMA ReadPhases ==
    ASSUME CacheInv PROVE fetching = NoFetch \/ fetching.phase \in {"read", "put", "end"}
BY DEF CacheInv, CacheTyped, Reads

\* Where a step of a command leaves it.
LEMMA StepTo ==
    ASSUME Inv, ui # Idle, NEW s \in Steps, Step(s)
    PROVE  ui' # Idle /\ ui'.op = ui.op /\ ui'.step = s
<1>1. ui' \in Busy /\ ui'.op = ui.op /\ ui'.step = s
  BY UiFields DEF Step, Inv
<1>2. ui'.op # "idle"
  BY <1>1 DEF Busy, Ops
<1> QED
  BY <1>1, <1>2, IdleIsIdle

\* A command comes back or moves on to a later step, and leaves the other threads alone.
Onward ==
    /\ UNCHANGED <<worker, pacing, fetching>>
    /\ ui' # Idle /\ <<ui'.op, ui'.step>> \in Ways
    /\ \/ ui.step = "fetch" /\ ui'.step \in {"put", "abort"}
       \/ ui.step = "put" /\ ui'.step = "abort"
       \/ ui.step = "abort" /\ ui'.step = "join" /\ abort'
       \/ ui.step = "join" /\ ui'.step \in {"start", "drop", "joinFetch"}
       \/ ui.step = "look" /\ ui'.step = "start"

LEMMA CommandMoves ==
    ASSUME Inv, NoWaitIsForEver, ui # Idle, Commanded
    PROVE  ui' = Idle \/ Onward
<1>1. <<ui.op, ui.step>> \in Ways
  BY DEF NoWaitIsForEver
<1>2. {"put", "abort", "join", "start", "drop", "joinFetch"} \subseteq Steps
  BY DEF Steps
<1>3. CASE PlayFetch
  <2>1. /\ ui.op = "play" /\ ui.step = "fetch" /\ UNCHANGED <<worker, pacing, fetching>>
        /\ ui' = Idle \/ Step("abort") \/ Step("put")
    BY <1>3 DEF PlayFetch, At, clipVars
  <2> QED
    BY <1>2, <2>1, StepTo DEF Onward, Ways
<1>4. CASE PlayPut
  <2>1. /\ ui.op = "play" /\ ui.step = "put" /\ UNCHANGED <<worker, pacing, fetching>>
        /\ ui' = Idle \/ Step("abort")
    BY <1>4 DEF PlayPut, At, clipVars
  <2> QED
    BY <1>2, <2>1, StepTo DEF Onward, Ways
<1>5. CASE RaiseAbort
  <2>1. /\ ui.step = "abort" /\ UNCHANGED <<worker, pacing, fetching>> /\ Step("join") /\ abort'
    BY <1>5 DEF RaiseAbort, clipVars, cacheVars
  <2>2. ui.op \in {"play", "stop", "reset", "unload", "release"}
    BY <1>1, <2>1 DEF Ways
  <2> QED
    BY <1>2, <2>1, <2>2, StepTo DEF Onward, Ways
<1>6. CASE JoinWorker
  <2>1. /\ ui.step = "join" /\ UNCHANGED <<worker, pacing, fetching>>
        /\ \/ ui.op = "play" /\ Step("start")
           \/ ui.op = "stop" /\ ui' = Idle
           \/ ui.op = "release" /\ Step("drop")
           \/ ui.op \notin {"play", "stop", "release"} /\ Step("joinFetch")
    BY <1>6 DEF JoinWorker, cacheVars
  <2>2. ui.op \in {"play", "stop", "reset", "unload", "release"}
    BY <1>1, <2>1 DEF Ways
  <2> QED
    BY <1>2, <2>1, <2>2, StepTo DEF Onward, Ways
<1>7. CASE PrefetchLook
  <2>1. /\ ui.op = "prefetch" /\ ui.step = "look" /\ UNCHANGED <<worker, pacing, fetching>>
        /\ ui' = Idle \/ Step("start")
    BY <1>7 DEF PrefetchLook, At, clipVars, cacheVars
  <2> QED
    BY <1>2, <2>1, StepTo DEF Onward, Ways
<1>8. CASE PlayStart \/ DropSource \/ Forget \/ PrefetchStart \/ PauseClock
  BY <1>8 DEF PlayStart, DropSource, Forget, PrefetchStart, PauseClock
<1> QED
  BY <1>3, <1>4, <1>5, <1>6, <1>7, <1>8 DEF Commanded

\* The clip's thread and the reading one only come nearer to their ends.
LEMMA WorkerMoves ==
    ASSUME Inv, Worker
    PROVE  /\ UNCHANGED <<ui, abort, fetching>>
           /\ Playing(worker', pacing') < Playing(worker, pacing)
<1>1. UNCHANGED <<ui, abort, fetching>>
  BY DEF Worker, Lost, Open, Seat, EndRun, Tell, cacheVars
<1>2. worker \in Runs
  BY DEF Inv, Typed
<1>3. CASE Lost \/ Tell
  <2>1. worker.phase \in {"start", "tell"} /\ worker' = [worker EXCEPT !.phase = "none"]
    BY <1>3 DEF Lost, Tell
  <2>2. worker'.phase = "none"
    BY <1>2, <2>1 DEF Runs
  <2> QED
    BY <1>1, <2>1, <2>2 DEF Playing
<1>4. CASE Open \/ EndRun
  <2>1. \/ worker.phase = "start" /\ \/ worker' = [worker EXCEPT !.phase = "run"]
                                     \/ worker' = [worker EXCEPT !.phase = "tell", !.completed = TRUE]
        \/ /\ worker.phase = "run"
           /\ \E c \in BOOLEAN : worker' = [worker EXCEPT !.phase = "tell", !.completed = c]
    BY <1>4 DEF Open, EndRun
  <2>2. \/ worker.phase = "start" /\ worker'.phase \in {"run", "tell"}
        \/ worker.phase = "run" /\ worker'.phase = "tell"
    BY <1>2, <2>1 DEF Runs
  <2> QED
    BY <1>1, <2>2 DEF Playing
<1>5. CASE Seat
  <2>1. /\ worker.phase = "run" /\ ~pacing.seated /\ worker' = worker
        /\ pacing' = [seated |-> TRUE, paused |-> paused]
    BY <1>5 DEF Seat
  <2>2. pacing'.seated
    BY <2>1
  <2> QED
    BY <1>1, <2>1, <2>2 DEF Playing
<1> QED
  BY <1>3, <1>4, <1>5 DEF Worker

LEMMA FetcherMoves ==
    ASSUME CacheInv, Fetcher
    PROVE  /\ UNCHANGED <<ui, abort, worker, pacing>>
           /\ Reading(fetching') < Reading(fetching)
<1>1. UNCHANGED <<ui, abort, worker, pacing>>
  BY DEF Fetcher, FetchRead, FetchPut, FetchEnd, clipVars
<1>2. fetching # NoFetch /\ NoFetch.phase = "none"
  BY DEF Fetcher, FetchRead, FetchPut, FetchEnd, NoFetch
<1>3. fetching \in [phase : {"read", "put", "end"}, key : Keys, project : Nat]
  BY <1>2 DEF CacheInv, CacheTyped, Reads
<1>4. CASE FetchEnd
  BY <1>1, <1>2, <1>4 DEF FetchEnd, Reading
<1>5. CASE FetchRead \/ FetchPut
  <2>1. \/ /\ fetching.phase = "read"
           /\ \E p \in {"put", "end"} : fetching' = [fetching EXCEPT !.phase = p]
        \/ fetching.phase = "put" /\ fetching' = [fetching EXCEPT !.phase = "end"]
    BY <1>5 DEF FetchRead, FetchPut
  <2>2. \/ fetching.phase = "read" /\ fetching'.phase \in {"put", "end"}
        \/ fetching.phase = "put" /\ fetching'.phase = "end"
    BY <1>3, <2>1
  <2> QED
    BY <1>1, <2>2 DEF Reading
<1> QED
  BY <1>4, <1>5 DEF Fetcher

LEMMA Counts ==
    \A u, t, clock, f : Ahead(u) \in Nat /\ Playing(t, clock) \in Nat /\ Reading(f) \in Nat
BY DEF Ahead, Playing, Reading

LEMMA StepOnItsWay ==
    Inv /\ CacheInv /\ NoWaitIsForEver /\ [Next]_vars /\ Inv' /\ CacheInv' => NoWaitIsForEver'
<1> SUFFICES ASSUME Inv, CacheInv, NoWaitIsForEver, [Next]_vars, Inv', CacheInv'
             PROVE  NoWaitIsForEver'
  OBVIOUS
<1>1. /\ worker'.phase \in {"none", "start", "run", "tell"}
      /\ fetching' = NoFetch \/ fetching'.phase \in {"read", "put", "end"}
  BY ReadPhases DEF Inv, Typed, Runs, CacheInv, CacheTyped, Reads
<1>2. CASE ui' = Idle
  BY <1>2, IdleIsIdle DEF NoWaitIsForEver, AtJoin, AtJoinFetch, At
<1>3. CASE ui' # Idle /\ (Worker \/ Fetcher \/ EnsureSource \/ UNCHANGED vars)
  <2>1. UNCHANGED <<ui, abort>>
    BY <1>3 DEF Worker, Lost, Open, Seat, EndRun, Tell, Fetcher, FetchRead, FetchPut, FetchEnd,
                EnsureSource, vars
  <2> QED
    BY <1>1, <1>3, <2>1 DEF NoWaitIsForEver, AtJoin, AtJoinFetch, At
<1>4. CASE ui' # Idle /\ Commanded
  <2>1. ui # Idle
    BY <1>4, IdleIsIdle DEF Commanded, PlayFetch, PlayPut, RaiseAbort, JoinWorker, PlayStart,
                DropSource, Forget, PrefetchLook, PrefetchStart, PauseClock, At
  <2>2. Onward
    BY <1>4, <2>1, CommandMoves
  <2> QED
    BY <1>1, <2>2 DEF Onward, NoWaitIsForEver, AtJoin, AtJoinFetch, At
<1>5. CASE SetPaused
  BY <1>1, <1>5 DEF SetPaused, NoWaitIsForEver, AtJoin, AtJoinFetch, At, Ways
<1>6. CASE Command
  <2>1. \E op \in {"play", "stop", "reset", "unload", "release", "prefetch"} :
            ui'.op = op /\ ui'.step = CASE op = "play" -> "fetch" [] op = "prefetch" -> "look"
                                        [] OTHER -> "abort"
    BY <1>6 DEF Command, BeginPlay, BeginStop, BeginForget, BeginRelease, BeginPrefetch, Begin
  <2>2. <<ui'.op, ui'.step>> \in Ways /\ ui'.step \in {"fetch", "look", "abort"}
    BY <2>1 DEF Ways
  <2> QED
    BY <1>1, <2>2 DEF NoWaitIsForEver, AtJoin, AtJoinFetch, At
<1> QED
  BY <1>2, <1>3, <1>4, <1>5, <1>6 DEF Next

\* No command of the UI thread waits for a thread that waits itself: a paused clip hears the
\* abort before it is joined.
THEOREM WaitsEnd == Spec => []NoWaitIsForEver
BY InitInv, StepInv, CacheInit, CacheStep, InitOnItsWay, StepOnItsWay, PTL DEF Spec

LEMMA FewerOfOne ==
    ASSUME NEW a \in Nat, NEW b \in Nat, NEW c \in Nat, NEW x \in Nat, NEW y \in Nat, NEW z \in Nat,
           x <= a, y <= b, z <= c, x < a \/ y < b \/ z < c
    PROVE  x + y + z < a + b + c
OBVIOUS

\* A command has only so many steps to wait for, whatever the threads do in between: with
\* WaitsEnd the safety half of CommandsComeBack.
THEOREM CommandsAreFinite == Spec => [][EveryStepIsNearer]_vars
<1>1. ASSUME Inv, CacheInv, NoWaitIsForEver, Next, ui # Idle, ui' # Idle PROVE ToGo' < ToGo
  <2>1. /\ Ahead(ui) \in Nat /\ Playing(worker, pacing) \in Nat /\ Reading(fetching) \in Nat
        /\ Ahead(ui') \in Nat /\ Playing(worker', pacing') \in Nat /\ Reading(fetching') \in Nat
    BY Counts
  <2>2. CASE Commanded
    <3>1. Onward
      BY <1>1, <2>2, CommandMoves
    <3>2. Playing(worker', pacing') = Playing(worker, pacing) /\ Reading(fetching') = Reading(fetching)
      BY <3>1 DEF Onward, Playing, Reading
    <3>3. Ahead(ui') < Ahead(ui)
      BY <1>1, <3>1 DEF Onward, Ahead
    <3> QED
      BY <2>1, <3>2, <3>3, FewerOfOne DEF ToGo
  <2>3. CASE Worker
    <3>1. UNCHANGED <<ui, fetching>> /\ Playing(worker', pacing') < Playing(worker, pacing)
      BY <1>1, <2>3, WorkerMoves
    <3>2. Ahead(ui') = Ahead(ui) /\ Reading(fetching') = Reading(fetching)
      BY <3>1 DEF Ahead, Reading
    <3> QED
      BY <2>1, <3>1, <3>2, FewerOfOne DEF ToGo
  <2>4. CASE Fetcher
    <3>1. UNCHANGED <<ui, worker, pacing>> /\ Reading(fetching') < Reading(fetching)
      BY <1>1, <2>4, FetcherMoves
    <3>2. Ahead(ui') = Ahead(ui) /\ Playing(worker', pacing') = Playing(worker, pacing)
      BY <3>1 DEF Ahead, Playing
    <3> QED
      BY <2>1, <3>1, <3>2, FewerOfOne DEF ToGo
  <2> QED
    BY <1>1, <2>2, <2>3, <2>4
    DEF Next, Command, BeginPlay, BeginStop, BeginForget, BeginRelease, BeginPrefetch, Begin,
        EnsureSource, SetPaused
<1>2. Inv /\ CacheInv /\ NoWaitIsForEver /\ [Next]_vars => [EveryStepIsNearer]_vars
  BY <1>1 DEF EveryStepIsNearer
<1> QED
  BY <1>2, InitInv, StepInv, CacheInit, CacheStep, WaitsEnd, PTL DEF Spec
=============================================================================
