------------------------------- MODULE Export -------------------------------
(***************************************************************************)
(* Clips and highlight reels written to files (src/export.cpp): a queue    *)
(* of clips with a worker that leaves when it finds it empty, and one reel *)
(* at a time on a thread of its own.                                       *)
(*                                                                         *)
(* A clip is the file it becomes.  Where the footage of a clip lies, and   *)
(* whether reading and writing it works, is up to the environment; packets *)
(* and their timestamps are not modelled.                                  *)
(***************************************************************************)
EXTENDS Integers, Sequences, FiniteSets, SequencesExt

CONSTANTS
    Clips,        \* files: one per event, angle and speed
    MaxJobs       \* bound

ASSUME ClipsAssumption == IsFiniteSet(Clips)

VARIABLES
    jobs,             \* jobs_
    worker,           \* where worker() is; "none" when its thread has returned
    local,            \* the job it copied
    workerRunning,    \* workerRunning_
    reel,             \* where runReel() is
    abort             \* abort_, set with stopped_

exportVars == <<jobs, worker, local, workerRunning, reel, abort>>

NoJob == [clip |-> "none", ok |-> FALSE]
Unanswered == {"queued", "running"}

ExportInit ==
    /\ jobs = <<>> /\ worker = "none" /\ local = NoJob /\ workerRunning = FALSE
    /\ reel = "none" /\ abort = FALSE

-----------------------------------------------------------------------------
(* The queue.                                                              *)

\* exportEvent(): one job for each angle, and a worker if none is running.
ExportEvent(angles) ==
    /\ ~abort /\ angles # {} /\ Len(jobs) + Cardinality(angles) <= MaxJobs
    /\ jobs' = jobs \o SetToSeq({[clip |-> c, state |-> "queued"] : c \in angles})
    /\ worker' = IF workerRunning THEN worker ELSE "looking"
    /\ workerRunning' = TRUE
    /\ UNCHANGED <<local, reel, abort>>

Queued == {i \in DOMAIN jobs : jobs[i].state = "queued"}
FirstQueued == CHOOSE i \in Queued : \A j \in Queued : i <= j

\* Mutant: workerRunning_ is put down after the lock is released.
TakeJobUnlocked ==
    \/ /\ worker = "looking" /\ (abort \/ Queued = {})
       /\ worker' = "leaving"
       /\ UNCHANGED <<jobs, local, workerRunning>>
    \/ /\ worker = "leaving"
       /\ worker' = "none" /\ workerRunning' = FALSE
       /\ UNCHANGED <<jobs, local>>
    \/ /\ worker = "looking" /\ ~abort /\ Queued # {}
       /\ worker' = "resolving"
       /\ local' = [clip |-> jobs[FirstQueued].clip, ok |-> FALSE]
       /\ jobs' = [jobs EXCEPT ![FirstQueued].state = "running"]
       /\ UNCHANGED workerRunning

\* The top of worker(), under mutex_: the next job, or the end of this thread.
TakeJob ==
    /\ worker = "looking"
    /\ IF abort \/ Queued = {}
       THEN /\ worker' = "none" /\ workerRunning' = FALSE
            /\ UNCHANGED <<jobs, local>>
       ELSE /\ worker' = "resolving"
            /\ local' = [clip |-> jobs[FirstQueued].clip, ok |-> FALSE]
            /\ jobs' = [jobs EXCEPT ![FirstQueued].state = "running"]
            /\ UNCHANGED workerRunning

\* runJob(): both ends lie in one anchored file, it opens and the output is created,
\* or the clip is given up.
Resolve ==
    /\ worker = "resolving"
    /\ worker' \in {"copying", "reporting"}
    /\ UNCHANGED <<jobs, local, workerRunning>>

\* The packets up to OUT or to the end of the file, and the trailer; or a write that
\* fails, or an abort seen between two packets.
Copy ==
    /\ worker = "copying"
    /\ \E ok \in BOOLEAN : local' = [local EXCEPT !.ok = ok]
    /\ worker' = "reporting"
    /\ UNCHANGED <<jobs, workerRunning>>

\* Back in worker(): the first running job of that name gets the answer.
Report ==
    /\ worker = "reporting"
    /\ worker' = "looking" /\ local' = NoJob
    /\ jobs' = [i \in DOMAIN jobs |->
                  IF jobs[i] = [clip |-> local.clip, state |-> "running"]
                  THEN [jobs[i] EXCEPT !.state = IF local.ok THEN "done" ELSE "failed"]
                  ELSE jobs[i]]
    /\ UNCHANGED workerRunning

Worker ==
    /\ TakeJob \/ Resolve \/ Copy \/ Report
    /\ UNCHANGED <<reel, abort>>

-----------------------------------------------------------------------------
(* The reel.                                                               *)

\* exportSequence(): refused while one is being written.
ExportSequence ==
    /\ reel = "none"
    /\ reel' = "clips"
    /\ UNCHANGED <<jobs, worker, local, workerRunning, abort>>

\* A clip that cannot be read or is of another format, a write that fails or an abort:
\* the reel is given up, and what was written of it stays.
ReelFails ==
    /\ reel = "clips" /\ reel' = "none"
    /\ UNCHANGED <<jobs, worker, local, workerRunning, abort>>

\* The last clip is in: the music is laid over it, or was not asked for.
ReelClips ==
    /\ reel = "clips" /\ reel' \in {"music", "closing"}
    /\ UNCHANGED <<jobs, worker, local, workerRunning, abort>>

\* The music ends with its file, with the reel, or with an abort.
ReelMusic ==
    /\ reel = "music" /\ reel' = "closing"
    /\ UNCHANGED <<jobs, worker, local, workerRunning, abort>>

\* The trailer.
ReelEnds ==
    /\ reel = "closing" /\ reel' = "none"
    /\ UNCHANGED <<jobs, worker, local, workerRunning, abort>>

Reel == ReelFails \/ ReelClips \/ ReelMusic \/ ReelEnds

-----------------------------------------------------------------------------
(* shutdown()                                                              *)

\* stopped_ and abort_ go up.
ExportAbort == abort' = TRUE /\ UNCHANGED <<jobs, worker, local, workerRunning, reel>>

\* Both threads are joined, then what they left in the queue is answered.
ExportJoin ==
    /\ worker = "none" /\ reel = "none"
    /\ jobs' = [i \in DOMAIN jobs |->
                  IF jobs[i].state \in Unanswered THEN [jobs[i] EXCEPT !.state = "failed"]
                  ELSE jobs[i]]
    /\ workerRunning' = FALSE
    /\ UNCHANGED <<worker, local, reel, abort>>

ExportThreads == Worker \/ Reel

\* Our threads run; files are finite.
ExportFairness == WF_exportVars(Worker) /\ WF_exportVars(Reel)

-----------------------------------------------------------------------------
(* Properties.                                                             *)

\* Every clip that was accepted is written or refused in the end, however the request
\* falls against a worker that is about to leave an empty queue, and though OBS may
\* close meanwhile (export.cpp:141-146 against 681-692, 54-61).
JobsAreAnswered ==
    \A i \in 1..MaxJobs :
        (i \in DOMAIN jobs /\ jobs[i].state \in Unanswered)
            ~> (i \in DOMAIN jobs /\ jobs[i].state \notin Unanswered)

=============================================================================
