------------------------------ MODULE Updates ------------------------------
(***************************************************************************)
(* Looking for, downloading and installing a new version                   *)
(* (client/src/app/update_service.cpp).                                    *)
(*                                                                         *)
(* The user's calls and the state they read are of the main thread; a      *)
(* worker takes tasks from a queue and answers with closures the main      *)
(* thread runs later, in the order they were posted.  The package manager  *)
(* (Velopack) and the release page are external: they find a version, fail *)
(* or have a package waiting for the restart, as they like.                *)
(*                                                                         *)
(* A version is [core, dash, pre]: core stands for the three numbers, dash *)
(* says whether a "-" follows, and pre is the text behind it as a sequence *)
(* of parts, each [numeric, rank]; Blank is a part without text.           *)
(***************************************************************************)
EXTENDS Integers, Sequences

CONSTANTS
  Versions,   \* versions that are released
  Installed,  \* the version that runs
  MaxCalls,   \* the user's calls, and restarts
  Steps       \* progress a download reports

\* What a version is, as far as it can be read.
Part    == [numeric : BOOLEAN, rank : Nat]
Version == [core : Nat, dash : BOOLEAN, pre : Seq(Part)]

ASSUME UpdateAssumption == Versions \cup {Installed} \subseteq Version

VARIABLES
  updateKind,      \* "managed", "portable" (Velopack's) or "standalone" (the ZIP)
  updateState,     \* state_
  updateVersion,   \* availableVersion_, or NoVersion
  updatePortable,  \* portable_
  updateProgress,  \* progress_
  updateError,     \* why the last task failed, if one did
  updateTasks,     \* tasks of the worker
  updateRunning,   \* the task it is busy with, or "none"
  updateFound,     \* worker_->update: a version, or NoVersion
  updatePending,   \* worker_->pending
  updateOnDisk,    \* the package that was downloaded
  updatePosted,    \* closures posted to the main thread
  updateApplied,   \* versions handed to the installer: [version, shown]
  updateCalls

shownVars   == <<updateState, updateVersion, updatePortable, updateProgress, updateError>>
workerVars  == <<updateTasks, updateRunning, updateFound, updatePending>>
outsideVars == <<updateKind, updateOnDisk, updateApplied>>
updateVars  == <<shownVars, workerVars, outsideVars, updatePosted, updateCalls>>

NoVersion == [core |-> 0, dash |-> FALSE, pre |-> <<>>]
Blank     == [numeric |-> FALSE, rank |-> 0]

-----------------------------------------------------------------------------
(* Comparing versions.                                                     *)

\* Splitting a text, even an empty one, gives at least one part.
prerelease(v) == IF v.pre = <<>> THEN <<Blank>> ELSE v.pre

\* parseSemVer: no part may be empty.
parseSemVer(v) ==
  /\ v.dash => v.pre # <<>>
  /\ \A i \in DOMAIN prerelease(v) : prerelease(v)[i] # Blank

\* Numbers come before names.
partBefore(x, y) ==
  \/ x.numeric /\ ~y.numeric
  \/ x.numeric = y.numeric /\ x.rank < y.rank

\* compareSemVer: a version without a prerelease comes after those with one;
\* of two prereleases the first part that differs decides, and then the length.
before(v, w) ==
  LET s == prerelease(v)
      t == prerelease(w) IN
  \/ v.core < w.core
  \/ /\ v.core = w.core
     /\ \/ s # <<>> /\ t = <<>>
        \/ \E i \in DOMAIN s \cap DOMAIN t :
             (\A j \in 1..(i - 1) : s[j] = t[j]) /\ partBefore(s[i], t[i])
        \/ Len(s) < Len(t) /\ \A j \in DOMAIN s : s[j] = t[j]

-----------------------------------------------------------------------------
(* The main thread.                                                        *)

\* setState; the version and the kind are forgotten unless they are given.
setState(state, version, portable) ==
  /\ updateState' = state
  /\ updateVersion' = version
  /\ updatePortable' = portable

enqueue(task) == updateTasks' = Append(updateTasks, task)

Called == updateCalls < MaxCalls /\ updateCalls' = updateCalls + 1

mayCheck == updateState \notin {"checking", "downloading", "applying"}

checkForUpdates ==
  /\ Called
  /\ mayCheck
  /\ setState("checking", NoVersion, FALSE)
  /\ enqueue("check")
  /\ UNCHANGED <<updateProgress, updateError, updateRunning, updateFound, updatePending,
                 outsideVars, updatePosted>>

\* A portable copy only opens the release page.
downloadUpdate ==
  /\ Called
  /\ updateState = "available" /\ ~updatePortable
  /\ updateProgress' = 0
  /\ setState("downloading", updateVersion, updatePortable)
  /\ enqueue("download")
  /\ UNCHANGED <<updateError, updateRunning, updateFound, updatePending, outsideVars, updatePosted>>

installUpdate ==
  /\ Called
  /\ updateState = "ready"
  /\ setState("applying", updateVersion, updatePortable)
  /\ enqueue("install")
  /\ UNCHANGED <<updateProgress, updateError, updateRunning, updateFound, updatePending,
                 outsideVars, updatePosted>>

\* What the worker posted is run in turn.
Progress(n)    == [kind |-> "progress", value |-> n]
Found(s, v, p) == [kind |-> "found", state |-> s, version |-> v, portable |-> p]
Downloaded     == [kind |-> "downloaded"]
Failed(why, keeps) == [kind |-> "failed", why |-> why, keeps |-> keeps]
RestartRequested   == [kind |-> "restart"]

RunPosted ==
  LET post == Head(updatePosted) IN
  /\ updatePosted # <<>>
  /\ updatePosted' = Tail(updatePosted)
  /\ CASE post.kind = "progress" ->
            /\ updateProgress' = post.value
            /\ UNCHANGED <<updateState, updateVersion, updatePortable, updateError>>
       [] post.kind = "found" ->
            /\ setState(post.state, post.version, post.portable)
            /\ UNCHANGED <<updateProgress, updateError>>
       [] post.kind = "downloaded" ->
            /\ updateProgress' = Steps + 1
            /\ setState("ready", updateVersion, updatePortable)
            /\ UNCHANGED updateError
       [] post.kind = "failed" ->
            /\ IF post.keeps THEN setState("error", updateVersion, updatePortable)
                             ELSE setState("error", NoVersion, FALSE)
            /\ updateError' = post.why
            /\ UNCHANGED updateProgress
       [] post.kind = "restart" -> UNCHANGED shownVars
  /\ UNCHANGED <<workerVars, outsideVars, updateCalls>>

\* The program ends, as the installer asks or not, and is started again.
Restart ==
  /\ Called
  /\ setState("idle", NoVersion, FALSE)
  /\ updateProgress' = 0 /\ updateError' = "none"
  /\ updateTasks' = <<>> /\ updateRunning' = "none"
  /\ updateFound' = NoVersion /\ updatePending' = NoVersion
  /\ updatePosted' = <<>>
  /\ UNCHANGED outsideVars

-----------------------------------------------------------------------------
(* The worker.                                                             *)

post(message) == updatePosted' = Append(updatePosted, message)

\* run takes a task when it is idle.
TakeTask ==
  /\ updateRunning = "none" /\ updateTasks # <<>>
  /\ updateRunning' = Head(updateTasks)
  /\ updateTasks' = Tail(updateTasks)
  /\ UNCHANGED <<shownVars, updateFound, updatePending, outsideVars, updatePosted, updateCalls>>

Done == updateRunning' = "none" /\ UNCHANGED <<shownVars, updateTasks, updateKind, updateCalls>>

\* Faulty: an error is swallowed.
TaskFails_Silently ==
  /\ updateRunning # "none"
  /\ Done
  /\ UNCHANGED <<updateFound, updatePending, updateOnDisk, updateApplied, updatePosted>>

\* Every task reports what it could not do; a check also forgets the version.
TaskFails ==
  /\ updateRunning # "none"
  /\ post(Failed("outside", updateRunning # "check"))
  /\ Done
  /\ UNCHANGED <<updateFound, updatePending, updateOnDisk, updateApplied>>

\* The ZIP compares the latest release with itself.
CheckStandalone ==
  /\ updateRunning = "check" /\ updateKind = "standalone"
  /\ \E latest \in Versions :
       post(IF ~parseSemVer(latest) \/ ~parseSemVer(Installed) THEN Failed("version", FALSE)
            ELSE IF before(Installed, latest) THEN Found("available", latest, TRUE)
            ELSE Found("idle", NoVersion, TRUE))
  /\ Done
  /\ UNCHANGED <<updateFound, updatePending, updateOnDisk, updateApplied>>

\* A package that waits for the restart comes first.
CheckPending ==
  /\ updateRunning = "check" /\ updateKind # "standalone"
  /\ updateOnDisk # NoVersion
  /\ updatePending' = updateOnDisk /\ updateFound' = NoVersion
  /\ post(Found("ready", updateOnDisk, updateKind = "portable"))
  /\ Done
  /\ UNCHANGED <<updateOnDisk, updateApplied>>

\* Faulty: what was pending stays so.
foundInstead_KeepsPending(version) == updateFound' = version /\ UNCHANGED updatePending

foundInstead(version) == updateFound' = version /\ updatePending' = NoVersion

\* Otherwise the manager looks for an update; a package may have been removed.
CheckManaged ==
  /\ updateRunning = "check" /\ updateKind # "standalone"
  /\ updateOnDisk' = NoVersion
  /\ \E version \in Versions \cup {NoVersion} :
       /\ foundInstead(version)
       /\ post(IF version = NoVersion THEN Found("idle", NoVersion, updateKind = "portable")
               ELSE Found("available", version, updateKind = "portable"))
  /\ Done
  /\ UNCHANGED updateApplied

\* DownloadUpdates tells how far it is.
DownloadGoesOn ==
  /\ updateRunning = "download"
  /\ \E n \in 1..Steps :
       /\ \A i \in DOMAIN updatePosted : updatePosted[i].kind = "progress" => updatePosted[i].value < n
       /\ updateProgress < n
       /\ post(Progress(n))
  /\ UNCHANGED <<shownVars, workerVars, outsideVars, updateCalls>>

DownloadEnds ==
  /\ updateRunning = "download" /\ updateFound # NoVersion
  /\ updateOnDisk' = updateFound
  /\ post(Downloaded)
  /\ Done
  /\ UNCHANGED <<updateFound, updatePending, updateApplied>>

\* A pending package goes before one that was found.
Chosen == IF updatePending # NoVersion THEN updatePending ELSE updateFound

Install ==
  /\ updateRunning = "install" /\ Chosen # NoVersion
  /\ updateApplied' = updateApplied \cup {[version |-> Chosen, shown |-> updateVersion]}
  /\ post(RestartRequested)
  /\ Done
  /\ UNCHANGED <<updateFound, updatePending, updateOnDisk>>

UpdateInit ==
  /\ updateKind \in {"managed", "portable", "standalone"}
  /\ updateState = "idle" /\ updateVersion = NoVersion /\ updatePortable = FALSE
  /\ updateProgress = 0 /\ updateError = "none"
  /\ updateTasks = <<>> /\ updateRunning = "none"
  /\ updateFound = NoVersion /\ updatePending = NoVersion
  /\ updateOnDisk = NoVersion
  /\ updatePosted = <<>>
  /\ updateApplied = {}
  /\ updateCalls = 0

WorkerStep ==
  \/ TaskFails \/ CheckStandalone \/ CheckPending \/ CheckManaged \/ DownloadEnds \/ Install

UpdateNext ==
  \/ checkForUpdates \/ downloadUpdate \/ installUpdate \/ Restart
  \/ RunPosted
  \/ TakeTask \/ DownloadGoesOn
  \/ WorkerStep

\* Both threads go on; a download ends some time.
UpdateFairness ==
  WF_updateVars(RunPosted) /\ WF_updateVars(TakeTask) /\ WF_updateVars(WorkerStep)

UpdateSpec == UpdateInit /\ [][UpdateNext]_updateVars /\ UpdateFairness

-----------------------------------------------------------------------------
(* Properties.                                                             *)

\* SemVer's order of two versions with a prerelease: numbers before names,
\* numbers by value, names by the alphabet, and the longer of two after its
\* own beginning.
Precedes(v, w) ==
  LET Differ == {i \in DOMAIN v.pre \cap DOMAIN w.pre : v.pre[i] # w.pre[i]} IN
  \/ v.core < w.core
  \/ /\ v.core = w.core
     /\ IF Differ = {} THEN Len(v.pre) < Len(w.pre)
        ELSE LET first == CHOOSE i \in Differ : \A j \in Differ : i <= j
                 x == v.pre[first]
                 y == w.pre[first] IN
             IF x.numeric = y.numeric THEN x.rank < y.rank ELSE x.numeric

\* What is installed is what the user was shown when asking for it, whatever
\* was found, pending or downloaded before; no portable copy ever downloads or
\* installs; and what the ZIP offers comes after what is installed
\* (checkForUpdates, installUpdate, compareSemVer).
UpdateIsAsShown ==
  /\ \A a \in updateApplied : a.version = a.shown
  /\ updateRunning \in {"download", "install"} => updateKind = "managed"
  /\ (updateKind = "standalone" /\ updateState = "available") => Precedes(Installed, updateVersion)

\* Nothing the user waits for stays under way for good, and the progress of one
\* download never shows on another (the queue, post).
WaitingEnds ==
  /\ updateState \in {"checking", "downloading"} ~> updateState \notin {"checking", "downloading"}
  /\ [](updateState = "downloading" /\ updateTasks # <<>> => updateProgress = 0)

\* The ZIP can compare the releases it meets, all of them stable ones
\* (docs/ARCHITECTURE.md:46, docs/RELEASING.md:32).
ReleasesCompare == updateError # "version"
=============================================================================
