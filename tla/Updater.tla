------------------------------- MODULE Updater -------------------------------
(***************************************************************************)
(* The plugin replaces itself: a release is looked up, downloaded and      *)
(* verified by a worker (src/updater.cpp), and a helper that outlives OBS  *)
(* unpacks it over the installed plugin once OBS has closed (the script in *)
(* src/update-installer.hpp).                                              *)
(*                                                                         *)
(* One newer release exists.  What a request brings back, and whether a    *)
(* file operation works, is up to the environment.                         *)
(***************************************************************************)
EXTENDS Naturals

VARIABLES
    phase,        \* status_.phase
    busy,         \* busy_
    updWorker,    \* where the worker thread is
    archive,      \* the release's file in the staging folder
    armed,        \* armedFor_ names that file
    obs,          \* OBS: up, gone, or how far it is in unloading the plugin
    build,        \* the build of the plugin it has loaded
    helper,       \* where the helper script is
    plugin,       \* what the plugin's folder holds
    backup,       \* what the folder the helper renamed it to holds
    result        \* install-result.txt

downloadVars == <<phase, busy, updWorker, archive>>
installVars == <<helper, plugin, backup, result>>
updaterVars == <<downloadVars, armed, obs, build, installVars>>

Builds == {"old", "new"}

UpdaterInit ==
    /\ phase = "Idle" /\ busy = FALSE /\ updWorker = "none" /\ archive = "none"
    /\ armed = FALSE /\ obs = "up" /\ build = "old"
    /\ helper = "none" /\ plugin = "old" /\ backup = "none" /\ result = "none"

-----------------------------------------------------------------------------
(* The lookup and the download.                                            *)

Joined == updWorker = "none"

\* checkAsync(): whatever was staged before, the status starts over.
CheckAsync ==
    /\ ~busy /\ Joined
    /\ phase' = "Checking" /\ busy' = TRUE /\ updWorker' = "asking"
    /\ UNCHANGED <<archive, armed, obs, build, installVars>>

\* The answer: nothing newer, a newer release, or none that can be read.
CheckAnswers ==
    /\ updWorker = "asking"
    /\ phase' \in {"Failed", IF build = "old" THEN "Available" ELSE "UpToDate"}
    /\ updWorker' = "leaving"
    /\ UNCHANGED <<busy, archive>>

\* downloadAsync(): a name or a worker that stands in the way is refused.
DownloadAsync ==
    /\ phase = "Available" /\ ~busy /\ Joined
    /\ phase' = "Downloading" /\ busy' = TRUE /\ updWorker' = "opening"
    /\ UNCHANGED <<archive, armed, obs, build, installVars>>

\* The file is truncated, or the folder or the release's digest is wanting.
OpenArchive ==
    /\ updWorker = "opening"
    /\ \/ archive' = "partial" /\ updWorker' = "fetching" /\ UNCHANGED phase
       \/ phase' = "Failed" /\ updWorker' = "leaving" /\ UNCHANGED archive
    /\ UNCHANGED busy

\* It has arrived, intact or not, or the transfer broke or was aborted.
Fetch ==
    /\ updWorker = "fetching"
    /\ \/ archive' \in {"good", "bad"} /\ updWorker' = "verifying" /\ UNCHANGED phase
       \/ archive' = "none" /\ phase' = "Failed" /\ updWorker' = "leaving"
    /\ UNCHANGED busy

\* Its size and digest are what was announced, or it is removed.
Verify ==
    /\ updWorker = "verifying" /\ updWorker' = "leaving"
    /\ IF archive = "good" THEN phase' = "Staged" /\ UNCHANGED archive
                           ELSE phase' = "Failed" /\ archive' = "none"
    /\ UNCHANGED busy

\* The worker lets the next one in and returns.
Leave ==
    /\ updWorker = "leaving"
    /\ busy' = FALSE /\ updWorker' = "none"
    /\ UNCHANGED <<phase, archive>>

UpdaterWorker ==
    /\ CheckAnswers \/ OpenArchive \/ Fetch \/ Verify \/ Leave
    /\ UNCHANGED <<armed, obs, build, installVars>>

\* installStaged(): one helper for an archive; its first stage clears the last outcome.
\* Files that cannot be written, or a process that does not start, arm nothing.
InstallStaged ==
    /\ phase = "Staged" /\ ~armed
    /\ armed' = TRUE /\ helper' = "waiting" /\ result' = "none"
    /\ UNCHANGED <<downloadVars, obs, build, plugin, backup>>

-----------------------------------------------------------------------------
(* OBS closes and is started again.                                        *)

\* shutdown(), its join already made: the flag comes down, and OBS goes.
UpdaterGone ==
    /\ Joined /\ obs' = "gone" /\ busy' = FALSE
    /\ UNCHANGED <<phase, updWorker, archive, armed, build, installVars>>

\* OBS is started, by the helper or by the operator once no helper is at work, with a
\* plugin it can load; collectInstallResult() reads the outcome and removes it.
StartUpdater ==
    /\ obs = "gone" /\ helper = "none" /\ plugin \in Builds
    /\ obs' = "up" /\ build' = plugin /\ busy' = FALSE /\ armed' = FALSE /\ result' = "none"
    /\ phase' = IF result = "fail" THEN "Failed" ELSE "Idle"
    /\ UNCHANGED <<updWorker, archive, helper, plugin, backup>>

-----------------------------------------------------------------------------
(* The helper.                                                             *)

\* Done 'fail: ...'
GivesUp == helper' = "none" /\ result' = "fail" /\ UNCHANGED <<plugin, backup>>

\* An hour goes by and OBS is still there.
Tires == helper = "waiting" /\ obs # "gone" /\ GivesUp

\* OBS is gone: the folder can be written to, or the rights are granted.
Admitted ==
    /\ helper = "waiting" /\ obs = "gone"
    /\ helper' = "expanding" /\ UNCHANGED <<plugin, backup, result>>
Refused == helper = "waiting" /\ obs = "gone" /\ GivesUp

\* Expand-Archive, beside the plugin.
Expand ==
    /\ helper = "expanding" /\ archive = "good"
    /\ helper' = "backing" /\ UNCHANGED <<plugin, backup, result>>
CannotExpand == helper = "expanding" /\ GivesUp

\* Mutant: the new build is unpacked over the old one.
BackUpNothing ==
    /\ helper = "backing" /\ helper' = "copying" /\ plugin' = "half"
    /\ UNCHANGED <<backup, result>>

\* The old folder is renamed and an empty one takes its place.
BackUp ==
    /\ helper = "backing"
    /\ helper' = "copying" /\ backup' = plugin /\ plugin' = "half"
    /\ UNCHANGED result
CannotBackUp == helper = "backing" /\ GivesUp

\* The files, then the second layout.
CopyFiles ==
    /\ helper = "copying" /\ helper' = "laying"
    /\ UNCHANGED <<plugin, backup, result>>
BothLayouts ==
    /\ helper = "laying" /\ helper' = "cleaning" /\ plugin' = "new"
    /\ UNCHANGED <<backup, result>>

\* The old build goes, as far as it can be removed, and with it the way back.
Clean ==
    /\ helper = "cleaning" /\ helper' = "none"
    /\ backup' \in {"none", "half", backup} /\ result' = "ok"
    /\ UNCHANGED plugin

\* Anything that throws after the backup: the new folder goes, then the old one returns.
Throws ==
    /\ helper \in {"copying", "laying"} /\ helper' = "restoring"
    /\ plugin' \in {"none", "half"} /\ UNCHANGED <<backup, result>>
PutBack ==
    /\ helper = "restoring" /\ plugin = "none"
    /\ plugin' = backup /\ backup' = "none"
    /\ helper' = "none" /\ result' = "fail"
CannotPutBack == helper = "restoring" /\ GivesUp

\* The power goes, at any of these steps.
HelperDies ==
    /\ helper # "none" /\ obs = "gone" /\ helper' = "none"
    /\ UNCHANGED <<plugin, backup, result>>

Helper ==
    /\ \/ Tires \/ Admitted \/ Refused \/ Expand \/ CannotExpand
       \/ BackUp \/ CannotBackUp \/ CopyFiles \/ BothLayouts \/ Clean
       \/ Throws \/ PutBack \/ CannotPutBack \/ HelperDies
    /\ UNCHANGED <<downloadVars, armed, obs, build>>

-----------------------------------------------------------------------------
(* Properties.                                                             *)

\* At every step of an installation, whatever throws and wherever the power goes, a
\* whole plugin is in its folder or in the one beside it (update-installer.hpp:238,
\* 264-271).
SomethingToGoBackTo == plugin \in Builds \/ backup \in Builds

=============================================================================
