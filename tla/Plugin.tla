------------------------------- MODULE Plugin -------------------------------
(***************************************************************************)
(* What the plugin keeps running behind the operator's back - the exports, *)
(* the health of the take and the updater - from one start of OBS to the   *)
(* next, with the order in which obs_module_unload() takes them down       *)
(* (src/plugin-main.cpp).                                                  *)
(*                                                                         *)
(* The operator's commands and the unload run on the UI thread, one after  *)
(* the other; the threads interleave with them.  The parts that unload     *)
(* before the exports are in modules of their own.                         *)
(***************************************************************************)
EXTENDS Export, HealthMonitor, Updater

CONSTANT MaxAsked    \* bound: commands of the operator

VARIABLE asked       \* history: commands so far

vars == <<exportVars, healthVars, updaterVars, asked>>

Init == ExportInit /\ HealthInit /\ UpdaterInit /\ asked = 0

-----------------------------------------------------------------------------
(* The operator.                                                           *)

\* The UI thread is at its event loop, not in a join of STOP.
Free == obs = "up" /\ (recording => samplerRun)

Ask(Command) == Free /\ asked < MaxAsked /\ asked' = asked + 1 /\ Command

AskExport ==
    \E cs \in SUBSET Clips :
       Ask(ExportEvent(cs)) /\ UNCHANGED <<healthVars, updaterVars>>
AskReel == Ask(ExportSequence) /\ UNCHANGED <<healthVars, updaterVars>>

PressRec == Ask(TakeStarted) /\ UNCHANGED <<exportVars, updaterVars>>
PressStop == Ask(StopSampler) /\ UNCHANGED <<exportVars, updaterVars>>
Stopped == obs = "up" /\ TakeStopped /\ UNCHANGED <<exportVars, updaterVars, asked>>
\* Settings saved or a project opened: restartSegmentIndex() has its disk measured.
SaveSettings == Ask(ProbeDisk) /\ UNCHANGED <<exportVars, updaterVars>>

AskUpdate ==
    /\ Ask(CheckAsync \/ DownloadAsync \/ InstallStaged)
    /\ UNCHANGED <<exportVars, healthVars>>

Operator ==
    AskExport \/ AskReel \/ PressRec \/ PressStop \/ Stopped \/ SaveSettings \/ AskUpdate

-----------------------------------------------------------------------------
(* obs_module_unload(), from the exports on.                               *)

Reaches(from, to) ==
    /\ obs = from /\ obs' = to
    /\ UNCHANGED <<downloadVars, armed, build, installVars, asked>>

CloseObs ==
    /\ Free /\ Reaches("up", "exports")
    /\ ExportAbort /\ UNCHANGED healthVars

UnloadExports == Reaches("exports", "take") /\ ExportJoin /\ UNCHANGED healthVars

UnloadTake ==
    /\ Reaches("take", "sampler")
    /\ IF samplerRun THEN StopSampler ELSE UNCHANGED healthVars
    /\ UNCHANGED exportVars

\* takeStopped() clears the take, then the probe is waited for.
UnloadSampler ==
    /\ Reaches("sampler", "probe")
    /\ IF recording THEN TakeStopped ELSE UNCHANGED healthVars
    /\ UNCHANGED exportVars

UnloadProbe ==
    /\ Reaches("probe", "updater") /\ probe = "none"
    /\ UNCHANGED <<exportVars, healthVars>>

UnloadUpdater ==
    obs = "updater" /\ UpdaterGone /\ UNCHANGED <<exportVars, healthVars, asked>>

Unload ==
    CloseObs \/ UnloadExports \/ UnloadTake \/ UnloadSampler \/ UnloadProbe \/ UnloadUpdater

StartObs ==
    /\ StartUpdater
    /\ jobs' = <<>> /\ abort' = FALSE /\ UNCHANGED <<worker, local, workerRunning, reel>>
    /\ lagWindow' = <<>> /\ overBlock' = 0 /\ measured' = FALSE
    /\ UNCHANGED <<take, recording, samplerRun, sampler, findings, probe, asked>>

-----------------------------------------------------------------------------

Threads ==
    \/ ExportThreads /\ UNCHANGED <<healthVars, updaterVars, asked>>
    \/ HealthThreads /\ UNCHANGED <<exportVars, updaterVars, asked>>
    \/ UpdaterWorker /\ UNCHANGED <<exportVars, healthVars, asked>>

Outside ==
    \/ Helper /\ UNCHANGED <<exportVars, healthVars, asked>>
    \/ StartObs

Next == Operator \/ Unload \/ Threads \/ Outside

\* The export threads run on and their files are finite; an unload that has begun goes
\* as far as its joins let it.  Nothing here rests on the other threads, or on the
\* operator.
Spec == Init /\ [][Next]_vars /\ ExportFairness /\ WF_vars(UnloadExports)

-----------------------------------------------------------------------------
(* Properties.                                                             *)

\* No thread of ours outlives the module: "a joinable thread at static destruction is
\* std::terminate" (plugin-main.cpp:283-285).
NothingRunsOn ==
    obs = "gone" =>
        worker = "none" /\ reel = "none" /\ sampler.at = "none" /\ probe = "none"
          /\ updWorker = "none"

=============================================================================
