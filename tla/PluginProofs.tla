---------------------------- MODULE PluginProofs ----------------------------
(***************************************************************************)
(* What Plugin's run checks on a few takes, clips and commands, proved for *)
(* any number of them: the take the findings speak of, the clips that were *)
(* asked for, the threads that unloading waits for, and the way back from  *)
(* a failed installation.                                                  *)
(***************************************************************************)
EXTENDS Plugin, FiniteSetTheorems, WellFoundedInduction, TLAPS

-----------------------------------------------------------------------------
(* The health of a take.                                                   *)

Sample == [take : {take}, lagged : Lagged]

\* A sampler exists only while recording, and holds nothing of another take.
ThisTake ==
    /\ take \in Nat /\ recording \in BOOLEAN
    /\ ~recording => sampler.at = "none" /\ findings.ids = {}
    /\ findings.ids # {} => findings.take = take
    /\ recording => lagWindow \in Seq(Sample)
    /\ sampler.at = "gathering" => sampler.take = take /\ sampler.window \in Seq(Sample)

\* The last seconds of a window are seconds of that window.
LEMMA LastOnes ==
    ASSUME NEW S, NEW w \in Seq(S), NEW n \in Nat \ {0}
    PROVE  SubSeq(w, Max({1, Len(w) - n + 1}), Len(w)) \in Seq(S)
<1> DEFINE k == Len(w) - n + 1
           m == Max({1, k})
<1>1. k \in Int /\ Len(w) \in Nat
  OBVIOUS
<1>2. m \in {1, k} /\ \A x \in {1, k} : m >= x
  <2>1. \E x \in {1, k} : \A y \in {1, k} : x >= y
    BY <1>1
  <2> QED
    BY <2>1 DEF Max
<1>3. m \in Int /\ m >= 1
  BY <1>1, <1>2
<1> HIDE DEF m
<1>4. \A i \in m..Len(w) : w[i] \in S
  BY <1>1, <1>3
<1>5. SubSeq(w, m, Len(w)) \in Seq(S)
  BY <1>1, <1>3, <1>4
<1> QED
  BY <1>5 DEF m

LEMMA InitThisTake == Init => ThisTake
<1> SUFFICES ASSUME Init PROVE ThisTake
  OBVIOUS
<1>1. take = 0 /\ recording = FALSE /\ sampler.at = "none" /\ findings.ids = {}
  BY DEF Init, HealthInit, NoFindings, NoSampler
<1> QED
  BY <1>1 DEF ThisTake

LEMMA SamplerThisTake == ASSUME ThisTake, HealthThreads PROVE ThisTake'
<1>1. CASE Turn
  <2>1. UNCHANGED <<take, recording, lagWindow, findings>>
    BY <1>1 DEF Turn
  <2>2. sampler'.at = "none" \/ (recording /\ sampler'.at = "asleep")
    BY <1>1 DEF Turn, ThisTake, NoSampler
  <2> QED
    BY <2>1, <2>2 DEF ThisTake, Sample
<1>2. CASE Wake
  <2>1. UNCHANGED <<take, recording, lagWindow, findings>>
    BY <1>2 DEF Wake
  <2>2. recording
    BY <1>2 DEF Wake, ThisTake
  <2>3. sampler'.take = take /\ sampler'.window = lagWindow
    BY <1>2, <2>2 DEF Wake
  <2> QED
    BY <2>1, <2>2, <2>3 DEF ThisTake, Sample
<1>3. CASE Publish
  <2>1. UNCHANGED <<take, recording>> /\ sampler'.at = "turning" /\ sampler.at = "gathering"
    BY <1>3 DEF Publish, NoSampler
  <2>2. recording
    BY <2>1 DEF ThisTake
  <2>3. PICK n \in Lagged, a \in Angles :
          LET all == Append(sampler.window, [take |-> take, lagged |-> n])
              w == SubSeq(all, Max({1, Len(all) - LaggedWindow + 1}), Len(all))
              over == IF OverPct(w, 5) THEN Min({sampler.over + 1, SustainedWindows}) ELSE 0
          IN  /\ lagWindow' = w
              /\ findings' = [take |-> sampler.take, ids |-> Judged(a, w, over)]
    BY <1>3, <2>2 DEF Publish
  <2> DEFINE all == Append(sampler.window, [take |-> take, lagged |-> n])
  <2>4. all \in Seq(Sample)
    BY <2>1 DEF ThisTake, Sample
  <2>5. lagWindow' \in Seq(Sample)
    <3> HIDE DEF all
    <3>1. SubSeq(all, Max({1, Len(all) - LaggedWindow + 1}), Len(all)) \in Seq(Sample)
      BY <2>4, LastOnes, LaggedWindowAssumption
    <3> QED
      BY <2>3, <3>1 DEF all
  <2>6. findings'.take = take
    BY <2>1, <2>3 DEF ThisTake
  <2> QED
    BY <2>1, <2>2, <2>5, <2>6 DEF ThisTake, Sample
<1>4. CASE Probe
  BY <1>4 DEF Probe, takeVars, ThisTake, Sample
<1> QED
  BY <1>1, <1>2, <1>3, <1>4 DEF HealthThreads, Sampler

LEMMA TakeThisTake ==
    ASSUME ThisTake, TakeStarted \/ StopSampler \/ TakeStopped \/ ProbeDisk
    PROVE  ThisTake'
<1>1. CASE TakeStarted
  BY <1>1 DEF TakeStarted, SamplerJoined, NoSampler, NoFindings, ThisTake
<1>2. CASE StopSampler
  BY <1>2 DEF StopSampler, probeVars, ThisTake, Sample
<1>3. CASE TakeStopped
  BY <1>3 DEF TakeStopped, SamplerJoined, NoFindings, ThisTake, Sample
<1>4. CASE ProbeDisk
  BY <1>4 DEF ProbeDisk, takeVars, ThisTake, Sample
<1> QED
  BY <1>1, <1>2, <1>3, <1>4

LEMMA NextThisTake == ThisTake /\ [Next]_vars => ThisTake'
<1> SUFFICES ASSUME ThisTake, [Next]_vars PROVE ThisTake'
  OBVIOUS
<1>1. ASSUME UNCHANGED healthVars PROVE ThisTake'
  BY <1>1 DEF healthVars, takeVars, ThisTake, Sample
<1>2. CASE Operator
  <2>1. TakeStarted \/ StopSampler \/ TakeStopped \/ ProbeDisk \/ UNCHANGED healthVars
    BY <1>2 DEF Operator, AskExport, AskReel, PressRec, PressStop, Stopped, SaveSettings,
                AskUpdate, Ask
  <2> QED
    BY <2>1, <1>1, TakeThisTake
<1>3. CASE Unload
  <2>1. StopSampler \/ TakeStopped \/ UNCHANGED healthVars
    BY <1>3 DEF Unload, CloseObs, UnloadExports, UnloadTake, UnloadSampler, UnloadProbe,
                UnloadUpdater
  <2> QED
    BY <2>1, <1>1, TakeThisTake
<1>4. CASE Threads
  <2>1. HealthThreads \/ UNCHANGED healthVars
    BY <1>4 DEF Threads
  <2> QED
    BY <2>1, <1>1, SamplerThisTake
<1>5. CASE Outside
  <2>1. CASE StartObs
    <3>1. lagWindow' = <<>> /\ UNCHANGED <<take, recording, sampler, findings>>
      BY <2>1 DEF StartObs
    <3> QED
      BY <3>1 DEF ThisTake, Sample
  <2>2. CASE UNCHANGED healthVars
    BY <2>2, <1>1
  <2> QED
    BY <1>5, <2>1, <2>2 DEF Outside
<1>6. CASE UNCHANGED vars
  BY <1>1, <1>6 DEF vars
<1> QED
  BY <1>2, <1>3, <1>4, <1>5, <1>6 DEF Next

-----------------------------------------------------------------------------
(* Unloading.                                                              *)

\* What obs_module_unload() has waited for by the time it is where it is.
WaitedFor ==
    /\ obs \in {"take", "sampler", "probe", "updater", "gone"} => worker = "none" /\ reel = "none"
    /\ obs \in {"probe", "updater", "gone"} => ~recording
    /\ obs \in {"updater", "gone"} => probe = "none"
    /\ obs = "gone" => updWorker = "none"

LEMMA NextWaitedFor == WaitedFor /\ [Next]_vars => WaitedFor'
<1> SUFFICES ASSUME WaitedFor, [Next]_vars PROVE WaitedFor'
  OBVIOUS
<1>1. CASE Operator
  <2>1. obs = "up"
    BY <1>1 DEF Operator, AskExport, AskReel, PressRec, PressStop, Stopped, SaveSettings,
                AskUpdate, Ask, Free
  <2>2. obs' = obs
    BY <1>1 DEF Operator, AskExport, AskReel, PressRec, PressStop, Stopped, SaveSettings,
                AskUpdate, Ask, CheckAsync, DownloadAsync, InstallStaged, updaterVars
  <2> QED
    BY <2>1, <2>2 DEF WaitedFor
<1>2. CASE CloseObs
  <2>1. obs' = "exports"
    BY <1>2 DEF CloseObs, Reaches
  <2> QED
    BY <2>1 DEF WaitedFor
<1>3. CASE UnloadExports
  <2>1. obs' = "take" /\ worker' = "none" /\ reel' = "none"
    BY <1>3 DEF UnloadExports, Reaches, ExportJoin
  <2> QED
    BY <2>1 DEF WaitedFor
<1>4. CASE UnloadTake
  <2>1. obs = "take" /\ obs' = "sampler" /\ UNCHANGED exportVars
    BY <1>4 DEF UnloadTake, Reaches
  <2> QED
    BY <2>1 DEF WaitedFor, exportVars
<1>5. CASE UnloadSampler
  <2>1. obs = "sampler" /\ obs' = "probe" /\ UNCHANGED exportVars
    BY <1>5 DEF UnloadSampler, Reaches
  <2>2. ~recording'
    BY <1>5 DEF UnloadSampler, TakeStopped, healthVars, takeVars
  <2> QED
    BY <2>1, <2>2 DEF WaitedFor, exportVars
<1>6. CASE UnloadProbe
  <2>1. obs = "probe" /\ obs' = "updater" /\ UNCHANGED exportVars /\ UNCHANGED recording
        /\ probe' = "none"
    BY <1>6 DEF UnloadProbe, Reaches, healthVars, takeVars, probeVars
  <2> QED
    BY <2>1 DEF WaitedFor, exportVars
<1>7. CASE UnloadUpdater
  <2>1. obs = "updater" /\ obs' = "gone" /\ UNCHANGED exportVars /\ UNCHANGED <<recording, probe>>
        /\ updWorker' = "none"
    BY <1>7 DEF UnloadUpdater, UpdaterGone, Joined, healthVars, takeVars, probeVars
  <2> QED
    BY <2>1 DEF WaitedFor, exportVars
<1>8. CASE Threads
  <2>1. CASE ExportThreads /\ UNCHANGED <<healthVars, updaterVars, asked>>
    <3>1. worker # "none" \/ reel # "none"
      BY <2>1 DEF ExportThreads, Worker, TakeJob, Resolve, Copy, Report, Reel, ReelFails,
                  ReelClips, ReelMusic, ReelEnds
    <3>2. obs \notin {"take", "sampler", "probe", "updater", "gone"} /\ obs' = obs
      BY <2>1, <3>1 DEF WaitedFor, updaterVars
    <3> QED
      BY <3>2 DEF WaitedFor
  <2>2. CASE HealthThreads /\ UNCHANGED <<exportVars, updaterVars, asked>>
    <3>1. obs' = obs /\ UNCHANGED <<worker, reel, updWorker, recording>>
      BY <2>2 DEF HealthThreads, Sampler, Turn, Wake, Publish, Probe, takeVars, exportVars,
                  updaterVars, downloadVars
    <3>2. probe' = probe \/ probe' = "none"
      BY <2>2 DEF HealthThreads, Sampler, Turn, Wake, Publish, Probe, probeVars
    <3> QED
      BY <3>1, <3>2 DEF WaitedFor
  <2>3. CASE UpdaterWorker /\ UNCHANGED <<exportVars, healthVars, asked>>
    <3>1. updWorker # "none"
      BY <2>3 DEF UpdaterWorker, CheckAnswers, OpenArchive, Fetch, Verify, Leave
    <3>2. UNCHANGED <<obs, worker, reel, recording, probe>>
      BY <2>3 DEF UpdaterWorker, exportVars, healthVars, takeVars, probeVars
    <3> QED
      BY <3>1, <3>2 DEF WaitedFor
  <2> QED
    BY <1>8, <2>1, <2>2, <2>3 DEF Threads
<1>9. CASE Outside
  <2>1. CASE Helper /\ UNCHANGED <<exportVars, healthVars, asked>>
    BY <2>1 DEF Helper, WaitedFor, exportVars, healthVars, takeVars, probeVars, downloadVars
  <2>2. CASE StartObs
    <3>1. obs' = "up"
      BY <2>2 DEF StartObs, StartUpdater
    <3> QED
      BY <3>1 DEF WaitedFor
  <2> QED
    BY <1>9, <2>1, <2>2 DEF Outside
<1>10. CASE UNCHANGED vars
  BY <1>10 DEF vars, WaitedFor, exportVars, healthVars, takeVars, probeVars, updaterVars,
               downloadVars
<1> QED
  BY <1>1, <1>2, <1>3, <1>4, <1>5, <1>6, <1>7, <1>8, <1>9, <1>10 DEF Next, Unload

-----------------------------------------------------------------------------
(* The way back.                                                           *)

\* The helper works on the files only once OBS has gone, and knows which of the two
\* folders is whole.
WayBack ==
    /\ SomethingToGoBackTo
    /\ helper \in {"waiting", "expanding", "backing", "cleaning"} => plugin \in Builds
    /\ helper \in {"copying", "laying", "restoring"} => backup \in Builds
    /\ obs # "gone" => helper \in {"none", "waiting"} /\ plugin \in Builds

LEMMA HelperWayBack == ASSUME WayBack, Helper PROVE WayBack'
<1> USE DEF WayBack, SomethingToGoBackTo
<1>0. obs' = obs
  BY DEF Helper
<1>1. CASE Tires \/ Refused \/ CannotExpand \/ CannotBackUp \/ CannotPutBack
  BY <1>0, <1>1 DEF Tires, Refused, CannotExpand, CannotBackUp, CannotPutBack, GivesUp
<1>2. CASE Admitted \/ Expand
  BY <1>0, <1>2 DEF Admitted, Expand
<1>3. CASE BackUp
  BY <1>0, <1>3 DEF BackUp, Builds
<1>4. CASE CopyFiles \/ BothLayouts
  BY <1>0, <1>4 DEF CopyFiles, BothLayouts, Builds
<1>5. CASE Clean
  BY <1>0, <1>5 DEF Clean
<1>6. CASE Throws
  BY <1>0, <1>6 DEF Throws
<1>7. CASE PutBack
  BY <1>0, <1>7 DEF PutBack
<1>8. CASE HelperDies
  BY <1>0, <1>8 DEF HelperDies
<1> QED
  BY <1>1, <1>2, <1>3, <1>4, <1>5, <1>6, <1>7, <1>8 DEF Helper

LEMMA NextWayBack == WayBack /\ [Next]_vars => WayBack'
<1> SUFFICES ASSUME WayBack, [Next]_vars PROVE WayBack'
  OBVIOUS
<1>1. ASSUME UNCHANGED <<obs, helper, plugin, backup>> PROVE WayBack'
  BY <1>1 DEF WayBack, SomethingToGoBackTo
<1>2. CASE Operator
  <2>1. CASE InstallStaged /\ obs = "up"
    BY <2>1 DEF InstallStaged, WayBack, SomethingToGoBackTo
  <2>2. CASE CheckAsync \/ DownloadAsync \/ UNCHANGED updaterVars
    BY <1>1, <2>2 DEF CheckAsync, DownloadAsync, updaterVars, installVars
  <2> QED
    BY <1>2, <2>1, <2>2 DEF Operator, AskExport, AskReel, PressRec, PressStop, Stopped,
                            SaveSettings, AskUpdate, Ask, Free
<1>3. CASE Unload
  <2>1. obs # "gone" /\ UNCHANGED <<helper, plugin, backup>>
    BY <1>3 DEF Unload, CloseObs, UnloadExports, UnloadTake, UnloadSampler, UnloadProbe,
                UnloadUpdater, Reaches, UpdaterGone, installVars
  <2> QED
    BY <2>1 DEF WayBack, SomethingToGoBackTo
<1>4. CASE Threads
  BY <1>1, <1>4 DEF Threads, UpdaterWorker, updaterVars, installVars
<1>5. CASE Helper
  BY <1>5, HelperWayBack
<1>6. CASE StartObs
  <2>1. helper = "none" /\ plugin \in Builds /\ UNCHANGED <<helper, plugin, backup>>
    BY <1>6 DEF StartObs, StartUpdater
  <2> QED
    BY <2>1 DEF WayBack, SomethingToGoBackTo
<1>7. CASE UNCHANGED vars
  BY <1>1, <1>7 DEF vars, updaterVars, installVars
<1> QED
  BY <1>2, <1>3, <1>4, <1>5, <1>6, <1>7 DEF Next, Outside

-----------------------------------------------------------------------------
(* The clips asked for.                                                    *)

Job == [clip : Clips, state : Unanswered \cup {"done", "failed"}]
AtWork == {"resolving", "copying", "reporting"}
\* Where the unload is once it has joined the exports.
PastJoin == {"take", "sampler", "probe", "updater", "gone"}

\* A clip that waits has a worker that will look for it, or a join that will answer it; one
\* that is being written is in the worker's hand, and is the only one.
NoClipForgotten ==
    /\ \A i \in DOMAIN jobs : jobs[i].state = "queued" => worker # "none" \/ obs = "exports"
    /\ \A i \in DOMAIN jobs :
          jobs[i].state = "running" => worker \in AtWork /\ jobs[i].clip = local.clip
    /\ \A i, j \in DOMAIN jobs : jobs[i].state = "running" /\ jobs[j].state = "running" => i = j

\* workerRunning_ is down only when nobody is there to look, abort_ is up from the unload to
\* the end, and what the join leaves behind is answered.
Attended ==
    /\ NoClipForgotten
    /\ jobs \in Seq(Job)
    /\ worker \in {"none", "looking"} \cup AtWork
    /\ local \in [clip : Clips \cup {"none"}, ok : BOOLEAN]
    /\ workerRunning \in BOOLEAN /\ (workerRunning <=> worker # "none")
    /\ abort \in BOOLEAN /\ (abort <=> obs # "up")
    /\ obs \in {"up", "exports"} \cup PastJoin
    /\ obs \in PastJoin =>
          worker = "none" /\ \A i \in DOMAIN jobs : jobs[i].state \notin Unanswered

\* The files of one request, in some order.
LEMMA InSomeOrder ==
    ASSUME NEW S, IsFiniteSet(S)
    PROVE  SetToSeq(S) \in Seq(S)
<1> DEFINE n == Cardinality(S)
<1>1. n \in Nat /\ ExistsBijection(1..n, S)
  BY FS_CardinalityType
<1> HIDE DEF n
<1>2. PICK f \in [1..n -> S] : IsInjective(f)
  BY <1>1 DEF ExistsBijection, Bijection, Injection, IsInjective
<1>3. SetToSeq(S) \in [1..n -> S]
  BY <1>2 DEF SetToSeq, n
<1> QED
  BY <1>1, <1>3

LEMMA RequestAttended ==
    ASSUME Attended, obs = "up", UNCHANGED obs, NEW cs \in SUBSET Clips, ExportEvent(cs)
    PROVE  Attended'
<1> DEFINE S == {[clip |-> c, state |-> "queued"] : c \in cs}
           q == SetToSeq(S)
<1>1. IsFiniteSet(S)
  <2>1. IsFiniteSet(cs)
    BY ClipsAssumption, FS_Subset
  <2> QED
    <3> DEFINE f == [c \in cs |-> [clip |-> c, state |-> "queued"]]
    <3>1. f \in Surjection(cs, S)
      BY DEF Surjection
    <3> QED
      BY <2>1, <3>1, FS_Surjection
<1>2. q \in Seq(S)
  BY <1>1, InSomeOrder
<1>3. S \subseteq Job /\ \A x \in S : x.state = "queued"
  BY DEF Job, Unanswered
<1> HIDE DEF q, S
<1>4. jobs' = jobs \o q /\ worker' # "none" /\ workerRunning' /\ local' = local /\ abort' = abort
      /\ (worker' = worker \/ (worker = "none" /\ worker' = "looking"))
  BY DEF ExportEvent, Attended, q, S
<1>5. jobs' \in Seq(Job)
  BY <1>2, <1>3, <1>4 DEF Attended, PastJoin
<1>6. \A i \in DOMAIN jobs' : (i \in DOMAIN jobs /\ jobs'[i] = jobs[i]) \/ jobs'[i].state = "queued"
  <2> SUFFICES ASSUME NEW i \in DOMAIN jobs', i \notin DOMAIN jobs PROVE jobs'[i].state = "queued"
    BY <1>2, <1>4 DEF Attended, PastJoin
  <2>1. i - Len(jobs) \in 1..Len(q) /\ jobs'[i] = q[i - Len(jobs)]
    BY <1>2, <1>4 DEF Attended, PastJoin
  <2>2. q[i - Len(jobs)] \in S
    BY <1>2, <2>1
  <2> QED
    BY <1>3, <2>1, <2>2
<1>7. NoClipForgotten'
  BY <1>4, <1>6 DEF Attended, PastJoin, NoClipForgotten, AtWork
<1> QED
  BY <1>4, <1>5, <1>7 DEF Attended, PastJoin, AtWork

LEMMA WorkerAttended == ASSUME Attended, Worker, UNCHANGED obs PROVE Attended'
<1>0. abort' = abort /\ obs' = obs
  BY DEF Worker
<1>a. worker # "none" => obs \in {"up", "exports"}
  BY DEF Attended, PastJoin
<1>1. CASE TakeJob /\ (abort \/ Queued = {})
  <2>1. worker' = "none" /\ workerRunning' = FALSE /\ jobs' = jobs /\ worker = "looking"
        /\ local' = local
    BY <1>1 DEF TakeJob
  <2> QED
    BY <1>0, <1>a, <1>1, <2>1 DEF Attended, PastJoin, NoClipForgotten, Queued, AtWork
<1>2. CASE TakeJob /\ ~(abort \/ Queued = {})
  <2> DEFINE k == FirstQueued
  <2>1. k \in DOMAIN jobs /\ jobs[k].state = "queued"
    <3>1. Queued # {} /\ Queued \in SUBSET Nat
      BY <1>2 DEF Queued, Attended
    <3>2. \E i \in Queued : \A j \in Queued : i <= j
      <4>1. PICK i \in Queued : \A j \in Queued : ~(<<j, i>> \in OpToRel(<, Nat))
        BY <3>1, NatLessThanWellFounded, WFMin
      <4>2. \A j \in Queued : ~(j < i)
        BY <3>1, <4>1 DEF OpToRel
      <4> QED
        BY <3>1, <4>2
    <3>3. k \in Queued
      BY <3>2 DEF FirstQueued
    <3> QED
      BY <3>3 DEF Queued
  <2>2. worker = "looking" /\ worker' = "resolving" /\ local' = [clip |-> jobs[k].clip, ok |-> FALSE]
        /\ jobs' = [jobs EXCEPT ![k].state = "running"] /\ workerRunning' = workerRunning
    BY <1>2 DEF TakeJob
  <2> HIDE DEF k
  <2>3. jobs[k] \in Job /\ [jobs[k] EXCEPT !.state = "running"] \in Job
    <3>1. jobs[k] \in Job
      BY <2>1 DEF Attended, PastJoin
    <3> QED
      BY <3>1 DEF Job, Unanswered
  <2>4. jobs' \in Seq(Job) /\ DOMAIN jobs' = DOMAIN jobs
    BY <2>1, <2>2, <2>3 DEF Attended, PastJoin
  <2>5. \A i \in DOMAIN jobs : i # k => jobs'[i] = jobs[i] /\ jobs[i].state # "running"
    BY <2>1, <2>2 DEF Attended, PastJoin, NoClipForgotten, AtWork
  <2>6. jobs'[k].state = "running" /\ jobs'[k].clip = jobs[k].clip
    BY <2>1, <2>2, <2>3 DEF Job, Attended
  <2>7. NoClipForgotten'
    BY <2>2, <2>4, <2>5, <2>6 DEF NoClipForgotten, AtWork
  <2>8. local' \in [clip : Clips \cup {"none"}, ok : BOOLEAN]
    BY <2>2, <2>3 DEF Job
  <2> QED
    BY <1>0, <1>a, <2>2, <2>4, <2>7, <2>8 DEF Attended, PastJoin, AtWork
<1>3. CASE Resolve \/ Copy
  <2>1. worker \in AtWork /\ worker' \in AtWork /\ local'.clip = local.clip
        /\ UNCHANGED <<jobs, workerRunning>>
        /\ local' \in [clip : Clips \cup {"none"}, ok : BOOLEAN]
    BY <1>3 DEF Resolve, Copy, AtWork, Attended
  <2> QED
    BY <1>0, <1>a, <2>1 DEF Attended, PastJoin, NoClipForgotten, AtWork
<1>4. CASE Report
  <2> DEFINE own == [clip |-> local.clip, state |-> "running"]
             answer == IF local.ok THEN "done" ELSE "failed"
  <2>1. worker = "reporting" /\ worker' = "looking" /\ workerRunning' = workerRunning /\ local' = NoJob
        /\ jobs' = [i \in DOMAIN jobs |->
                     IF jobs[i] = own THEN [jobs[i] EXCEPT !.state = answer] ELSE jobs[i]]
    BY <1>4 DEF Report
  <2>2. \A i \in DOMAIN jobs : jobs[i] \in Job
    BY DEF Attended, PastJoin
  <2>3. \A i \in DOMAIN jobs : jobs'[i] \in Job /\ jobs'[i].state # "running"
                            /\ (jobs'[i].state = "queued" => jobs[i].state = "queued")
    <3> SUFFICES ASSUME NEW i \in DOMAIN jobs
                 PROVE  jobs'[i] \in Job /\ jobs'[i].state # "running"
                            /\ (jobs'[i].state = "queued" => jobs[i].state = "queued")
      OBVIOUS
    <3>1. CASE jobs[i] = own
      BY <2>1, <2>2, <3>1 DEF Job, Unanswered
    <3>2. CASE jobs[i] # own
      <4>1. jobs'[i] = jobs[i] /\ jobs[i] \in Job
        BY <2>1, <2>2, <3>2
      <4>2. jobs[i].state # "running"
        BY <2>2, <3>2 DEF Attended, PastJoin, NoClipForgotten, Job
      <4> QED
        BY <4>1, <4>2
    <3> QED
      BY <3>1, <3>2
  <2>4. jobs' \in Seq(Job) /\ DOMAIN jobs' = DOMAIN jobs
    <3>1. DOMAIN jobs' = DOMAIN jobs /\ DOMAIN jobs = 1..Len(jobs) /\ Len(jobs) \in Nat
      BY <2>1 DEF Attended, PastJoin
    <3>2. jobs' \in [1..Len(jobs) -> Job]
      BY <2>1, <2>3, <3>1
    <3> QED
      BY <3>1, <3>2
  <2>5. NoClipForgotten'
    BY <2>1, <2>3, <2>4 DEF NoClipForgotten
  <2> QED
    BY <1>0, <1>a, <2>1, <2>4, <2>5 DEF Attended, PastJoin, NoJob
<1> QED
  BY <1>1, <1>2, <1>3, <1>4 DEF Worker

LEMMA JoinAttended == ASSUME Attended, obs = "exports", obs' = "take", ExportJoin PROVE Attended'
<1> DEFINE own(i) == jobs[i].state \in Unanswered
<1>1. /\ worker = "none" /\ worker' = "none" /\ workerRunning' = FALSE /\ abort' = abort
      /\ jobs' = [i \in DOMAIN jobs |-> IF own(i) THEN [jobs[i] EXCEPT !.state = "failed"] ELSE jobs[i]]
      /\ local' = local /\ abort' \in BOOLEAN /\ abort'
  BY DEF ExportJoin, Attended
<1>2. \A i \in DOMAIN jobs : jobs'[i] \in Job /\ jobs'[i].state \notin Unanswered
  <2>1. \A i \in DOMAIN jobs : jobs[i] \in Job
    BY DEF Attended, PastJoin
  <2> QED
    BY <1>1, <2>1 DEF Job, Unanswered
<1>3. jobs' \in Seq(Job) /\ DOMAIN jobs' = DOMAIN jobs
  <2>1. DOMAIN jobs' = DOMAIN jobs /\ DOMAIN jobs = 1..Len(jobs) /\ Len(jobs) \in Nat
    BY <1>1 DEF Attended, PastJoin
  <2>2. jobs' \in [1..Len(jobs) -> Job]
    BY <1>1, <1>2, <2>1
  <2> QED
    BY <2>1, <2>2
<1>4. NoClipForgotten'
  BY <1>2, <1>3 DEF NoClipForgotten, Unanswered
<1> QED
  BY <1>1, <1>2, <1>3, <1>4 DEF Attended, PastJoin

LEMMA NextAttended == Attended /\ [Next]_vars => Attended'
<1> SUFFICES ASSUME Attended, [Next]_vars PROVE Attended'
  OBVIOUS
<1>1. ASSUME UNCHANGED <<jobs, worker, local, workerRunning, abort, obs>> PROVE Attended'
  BY <1>1 DEF Attended, PastJoin, NoClipForgotten
<1>2. CASE Operator
  <2>1. obs = "up" /\ UNCHANGED obs
    BY <1>2 DEF Operator, AskExport, AskReel, PressRec, PressStop, Stopped, SaveSettings,
                AskUpdate, Ask, Free, CheckAsync, DownloadAsync, InstallStaged, updaterVars
  <2>2. CASE AskExport
    BY <2>1, <2>2, RequestAttended DEF AskExport, Ask
  <2>3. CASE ~AskExport
    BY <1>1, <1>2, <2>1, <2>3 DEF Operator, AskReel, PressRec, PressStop, Stopped, SaveSettings,
                             AskUpdate, Ask, ExportSequence, exportVars
  <2> QED
    BY <2>2, <2>3
<1>3. CASE CloseObs
  BY <1>3 DEF CloseObs, Reaches, Free, ExportAbort, Attended, PastJoin, NoClipForgotten
<1>4. CASE UnloadExports
  BY <1>4, JoinAttended DEF UnloadExports, Reaches
<1>5. CASE UnloadTake \/ UnloadSampler \/ UnloadProbe \/ UnloadUpdater
  <2>1. obs \in {"take", "sampler", "probe", "updater"} /\ obs' \in {"sampler", "probe", "updater", "gone"}
        /\ UNCHANGED exportVars
    BY <1>5 DEF UnloadTake, UnloadSampler, UnloadProbe, UnloadUpdater, Reaches, UpdaterGone
  <2> QED
    BY <2>1 DEF Attended, PastJoin, NoClipForgotten, exportVars
<1>6. CASE Threads
  <2>1. obs' = obs
    BY <1>6 DEF Threads, UpdaterWorker, updaterVars
  <2>2. CASE Worker
    BY <2>1, <2>2, WorkerAttended
  <2>3. CASE ~Worker
    BY <1>1, <1>6, <2>1, <2>3 DEF Threads, ExportThreads, Reel, ReelFails, ReelClips, ReelMusic, ReelEnds,
                             exportVars
  <2> QED
    BY <2>2, <2>3
<1>7. CASE Outside
  <2>1. CASE Helper /\ UNCHANGED <<exportVars, healthVars, asked>>
    BY <1>1, <2>1 DEF Helper, exportVars
  <2>2. CASE StartObs
    <3>1. obs = "gone" /\ obs' = "up" /\ jobs' = <<>> /\ abort' = FALSE
          /\ UNCHANGED <<worker, local, workerRunning>>
      BY <2>2 DEF StartObs, StartUpdater
    <3>2. jobs' \in Seq(Job) /\ DOMAIN jobs' = {}
      BY <3>1
    <3>3. worker = "none" /\ workerRunning = FALSE
      BY <3>1 DEF Attended, PastJoin
    <3> QED
      BY <3>1, <3>2, <3>3 DEF Attended, PastJoin, NoClipForgotten
  <2> QED
    BY <1>7, <2>1, <2>2 DEF Outside
<1>8. CASE UNCHANGED vars
  BY <1>1, <1>8 DEF vars, exportVars, updaterVars
<1> QED
  BY <1>2, <1>3, <1>4, <1>5, <1>6, <1>7, <1>8 DEF Next, Unload

-----------------------------------------------------------------------------
(* The theorems.                                                           *)

\* What is said of the rig, and the lag it is judged by, belong to the take in progress,
\* whenever REC, STOP and the sampler's steps fall, and however many takes there are.
THEOREM FindingsAreOfThisTake == Spec => []OnlyThisTake
<1>1. ASSUME ThisTake PROVE OnlyThisTake
  <2>1. ASSUME recording, NEW i \in DOMAIN lagWindow PROVE lagWindow[i].take = take
    <3>1. lagWindow \in Seq(Sample)
      BY <1>1, <2>1 DEF ThisTake
    <3>2. lagWindow[i] \in Sample
      BY <2>1, <3>1
    <3> QED
      BY <3>2 DEF Sample
  <2>2. findings.ids # {} => recording /\ findings.take = take
    BY <1>1 DEF ThisTake
  <2> QED
    BY <2>1, <2>2 DEF OnlyThisTake
<1> QED
  BY <1>1, InitThisTake, NextThisTake, PTL DEF Spec

\* OBS frees the module only when no thread of these three parts runs.
THEOREM UnloadWaits == Spec => []NothingRunsOn
<1>1. Init => WaitedFor
  BY DEF Init, UpdaterInit, WaitedFor
<1>2. ThisTake /\ WaitedFor => NothingRunsOn
  BY DEF ThisTake, WaitedFor, NothingRunsOn
<1> QED
  BY <1>1, <1>2, InitThisTake, NextThisTake, NextWaitedFor, PTL DEF Spec

\* A whole plugin is in one of the two folders at every step of every installation.
THEOREM NeverWithoutAPlugin == Spec => []SomethingToGoBackTo
<1>1. Init => WayBack
  BY DEF Init, UpdaterInit, WayBack, SomethingToGoBackTo, Builds
<1>2. WayBack => SomethingToGoBackTo
  BY DEF WayBack
<1> QED
  BY <1>1, <1>2, NextWayBack, PTL DEF Spec

\* Whenever a request falls against the worker that is about to leave, and whenever OBS
\* closes, a clip that was accepted is in a thread's hands or before a join that answers it:
\* nothing that waits can be left without (the safety half of JobsAreAnswered).
THEOREM ClipsAreAttended == Spec => []NoClipForgotten
<1>1. Init => Attended
  <2> SUFFICES ASSUME Init PROVE Attended
    OBVIOUS
  <2>1. jobs = <<>> /\ worker = "none" /\ local = NoJob /\ workerRunning = FALSE /\ abort = FALSE
        /\ obs = "up"
    BY DEF Init, ExportInit, UpdaterInit
  <2>2. jobs \in Seq(Job) /\ DOMAIN jobs = {}
    BY <2>1
  <2> QED
    BY <2>1, <2>2 DEF Attended, PastJoin, NoClipForgotten, NoJob
<1>2. Attended => NoClipForgotten
  BY DEF Attended
<1> QED
  BY <1>1, <1>2, NextAttended, PTL DEF Spec

=============================================================================
