---------------------------- MODULE HealthMonitor ----------------------------
(***************************************************************************)
(* The health of a take (src/health.cpp, src/health-rules.hpp): a thread   *)
(* that observes once a second from REC to STOP, and a thread that         *)
(* measures the disk between takes.                                        *)
(*                                                                         *)
(* sampleOnce() copies what it needs under mutex_, gathers with no lock    *)
(* held and takes mutex_ again to publish.  Of the rules, those about one  *)
(* camera and about lagged frames are modelled.                            *)
(***************************************************************************)
EXTENDS Integers, Sequences, FiniteSets, FiniteSetsExt, SequencesExt

CONSTANTS
    Frames,               \* frames OBS draws in a second
    Lagged,               \* how many of them may lag
    Angles,               \* what a camera may come to: fed, stalled or dead
    LaggedWindow,         \* kLaggedWindowSamples
    SustainedWindows,     \* kLaggedSustainedWindows
    MaxTakes              \* bound

ASSUME LaggedWindowAssumption == LaggedWindow \in Nat \ {0}

VARIABLES
    take,         \* history: the take, counted
    recording,    \* recording_
    samplerRun,   \* samplerRun_
    sampler,      \* where the sampler thread is, with what it copied
    lagWindow,    \* lagWindow_: the take and the lagged frames of each of the last seconds
    overBlock,    \* laggedWindowsOverBlock_
    findings,     \* findings_, with the take they were made in
    probe,        \* the thread that measures the session's disk
    measured      \* diskWriteBps_ is known

takeVars == <<take, recording, samplerRun, sampler, lagWindow, overBlock, findings>>
probeVars == <<probe, measured>>
healthVars == <<takeVars, probeVars>>

NoSampler == [at |-> "none", window |-> <<>>, over |-> 0, take |-> 0]
NoFindings == [take |-> 0, ids |-> {}]

HealthInit ==
    /\ take = 0 /\ recording = FALSE /\ samplerRun = FALSE /\ sampler = NoSampler
    /\ lagWindow = <<>> /\ overBlock = 0 /\ findings = NoFindings
    /\ probe = "none" /\ measured = FALSE

-----------------------------------------------------------------------------
(* The rules.                                                              *)

LaggedOf(w) == FoldSeq(LAMBDA s, n : s.lagged + n, 0, w)
\* kLaggedWarnPct is 1 %, kLaggedBlockPct 5 %.
OverPct(w, pct) == w # <<>> /\ 100 * LaggedOf(w) >= pct * Frames * Len(w)

\* runtime(): the findings about the camera and about OBS.
Judged(a, w, over) ==
    (CASE a = "dead" -> {"angle_dead"} [] a = "stalled" -> {"angle_stalled"} [] OTHER -> {})
    \cup (IF OverPct(w, 5)
          THEN {"obs_overloaded"} \cup
               (IF over >= SustainedWindows THEN {"sustained"} ELSE {})
          ELSE IF OverPct(w, 1) THEN {"obs_dropping_frames"} ELSE {})

-----------------------------------------------------------------------------
(* A take.                                                                 *)

\* The join at the head of takeStarted() and takeStopped().
SamplerJoined == sampler.at = "none"

\* Mutant: a take that starts with the lag of the one before.
TakeStartedWithHistory ==
    /\ ~recording /\ take < MaxTakes /\ SamplerJoined
    /\ take' = take + 1 /\ recording' = TRUE /\ samplerRun' = TRUE
    /\ sampler' = [NoSampler EXCEPT !.at = "turning"]
    /\ findings' = NoFindings
    /\ UNCHANGED <<lagWindow, overBlock, probeVars>>

\* takeStarted()
TakeStarted ==
    /\ ~recording /\ take < MaxTakes /\ SamplerJoined
    /\ take' = take + 1 /\ recording' = TRUE /\ samplerRun' = TRUE
    /\ sampler' = [NoSampler EXCEPT !.at = "turning"]
    /\ lagWindow' = <<>> /\ overBlock' = 0 /\ findings' = NoFindings
    /\ UNCHANGED probeVars

\* takeStopped(): the flag, then the join, then what the take leaves is cleared.
StopSampler ==
    /\ samplerRun /\ samplerRun' = FALSE
    /\ UNCHANGED <<take, recording, sampler, lagWindow, overBlock, findings, probeVars>>

\* Mutant: the join is left out.
TakeStoppedUnjoined ==
    /\ ~samplerRun /\ recording
    /\ recording' = FALSE /\ findings' = NoFindings
    /\ UNCHANGED <<take, samplerRun, sampler, lagWindow, overBlock, probeVars>>

TakeStopped ==
    /\ ~samplerRun /\ SamplerJoined /\ recording
    /\ recording' = FALSE /\ findings' = NoFindings
    /\ UNCHANGED <<take, samplerRun, sampler, lagWindow, overBlock, probeVars>>

\* The head of samplerLoop(), and its sleep.
Turn ==
    /\ sampler.at = "turning"
    /\ sampler' = IF samplerRun THEN [sampler EXCEPT !.at = "asleep"] ELSE NoSampler
    /\ UNCHANGED <<take, recording, samplerRun, lagWindow, overBlock, findings, probeVars>>

\* Awake, whether or not it was told to end: a second is over, and sampleOnce() copies
\* what the take has so far.
Wake ==
    /\ sampler.at = "asleep"
    /\ sampler' = IF recording
                  THEN [at |-> "gathering", window |-> lagWindow, over |-> overBlock,
                        take |-> take]
                  ELSE [sampler EXCEPT !.at = "turning"]
    /\ UNCHANGED <<take, recording, samplerRun, lagWindow, overBlock, findings, probeVars>>

\* The second's lag joins the window, the window is judged and the verdict published,
\* unless the take has ended meanwhile.
Publish ==
    /\ sampler.at = "gathering"
    /\ sampler' = [NoSampler EXCEPT !.at = "turning"]
    /\ \E n \in Lagged, a \in Angles :
          LET all == Append(sampler.window, [take |-> take, lagged |-> n])
              w == SubSeq(all, Max({1, Len(all) - LaggedWindow + 1}), Len(all))
              over == IF OverPct(w, 5) THEN Min({sampler.over + 1, SustainedWindows}) ELSE 0
          IN  IF recording
              THEN /\ lagWindow' = w /\ overBlock' = over
                   /\ findings' = [take |-> sampler.take, ids |-> Judged(a, w, over)]
              ELSE UNCHANGED <<lagWindow, overBlock, findings>>
    /\ UNCHANGED <<take, recording, samplerRun, probeVars>>

Sampler == Turn \/ Wake \/ Publish

-----------------------------------------------------------------------------
(* The disk.                                                               *)

\* probeDiskAsync(): not while recording, not twice at once, not a folder known already.
ProbeDisk ==
    /\ ~recording /\ probe = "none" /\ ~measured
    /\ probe' = "writing"
    /\ UNCHANGED <<takeVars, measured>>

\* Eight megabytes are written, flushed and removed, or the folder cannot be written to.
Probe ==
    /\ probe = "writing" /\ probe' = "none"
    /\ measured' \in BOOLEAN
    /\ UNCHANGED takeVars

HealthThreads == Sampler \/ Probe

-----------------------------------------------------------------------------
(* Properties.                                                             *)

\* What the badge says and what the lag is judged over belong to the take in progress:
\* nothing is carried over from the take before, whatever the sampler was doing when it
\* ended, and nothing is said of a rig that is stopped (health.cpp:327-331, 355-359).
OnlyThisTake ==
    /\ findings.ids # {} => recording /\ findings.take = take
    /\ recording => \A i \in DOMAIN lagWindow : lagWindow[i].take = take

=============================================================================
