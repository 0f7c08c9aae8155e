------------------------------ MODULE Install ------------------------------
(***************************************************************************)
(* Switching gallery-dl (src/internal/web/gallerydl.go,                    *)
(* src/internal/gdl/managed.go, standalone.go, catalog.go): installing a   *)
(* release beside the bundled one, reverting to the bundled one, the       *)
(* catalog read from whichever runs, and the queue that is held meanwhile. *)
(*                                                                         *)
(* A release is installed as upstream's one-file build or, where upstream  *)
(* published none, in a venv; the one file comes first when both are       *)
(* there.  A step is one change of the disk, one hold of gdlMu or of the   *)
(* queue's lock, or one reading of a version.                              *)
(***************************************************************************)
EXTENDS Naturals, Sequences, FiniteSets

CONSTANTS
    Requests,       \* install and revert requests under way together
    Versions,       \* releases, numbers from 1
    Built,          \* those with a one-file build for this host
    MaxSwitches,    \* bound: requests
    MaxJobs,        \* bound: jobs started
    MaxFaults,      \* bound: steps of an install or a revert that fail
    MaxBoots        \* bound: starts of the process

None == 0
Bundled == 100      \* the release monloader ships
Own == 101          \* the one a configured binary_path names

VARIABLES
    custom,     \* config: binary_path names a gallery-dl of the operator's
    one,        \* the one-file build: [v, runs]
    venv,       \* the venv: [there, python, v, runs], v None before pip has filled it
    sites,      \* the release supportedsites.md is of
    catalog,    \* [version, managed]
    switching,  \* gdlSwitching
    running,    \* gdlJob.running
    paused,     \* the queue
    job,        \* the job running: [at, with, excused], the gallery-dl it was resolved with
    sw,         \* each request: [at, kind, v, waspaused, by, ok, saw]
    probe,      \* the panel's own probe of the catalog, [at, saw]
    jobs, switches, faults, boots,
    wanted,     \* ghost: the operator's last word on the pause
    meddled,    \* ghost: that word came while a switch held the queue
    torn,       \* ghost: a crash came between the install of a file and its check
    raced,      \* ghost: the panel's probe was out while a switch ran
    mixed       \* ghost: a job no one resumed the queue for in the middle of a switch
                \* resolved with one gallery-dl and downloaded with another

vars == <<custom, one, venv, sites, catalog, switching, running, paused, job, sw, probe,
          jobs, switches, faults, boots, wanted, meddled, torn, raced, mixed>>

disk == <<one, venv, sites>>
queue == <<paused, job, jobs, mixed>>
counts == <<custom, switches, faults, boots>>
ghosts == <<wanted, meddled, torn, raced>>

NoFile == [v |-> None, runs |-> FALSE]
NoVenv == [there |-> FALSE, python |-> FALSE, v |-> None, runs |-> FALSE]
NoJob == [at |-> "none", with |-> None, excused |-> FALSE]
Idle == [at |-> "idle", kind |-> "none", v |-> None, waspaused |-> FALSE, by |-> "none", ok |-> FALSE, saw |-> None]
NoProbe == [at |-> "idle", saw |-> None]

\* ManagedBinary, EffectiveBinary: the binary a run uses and whether it runs.
VenvAnswers == venv.python /\ venv.v # None
Active == ~custom /\ (one.v # None \/ VenvAnswers)
Effective ==
    IF custom THEN [v |-> Own, runs |-> TRUE]
    ELSE IF one.v # None THEN one
    ELSE IF VenvAnswers THEN [v |-> venv.v, runs |-> venv.runs]
    ELSE [v |-> Bundled, runs |-> TRUE]

\* ManagedInstalled counts a broken install too.
Installed == one.v # None \/ venv.there

\* BinaryVersion: nothing when the binary does not run.
Answers(b) == IF b.runs THEN b.v ELSE None

Init ==
    /\ custom \in BOOLEAN
    /\ one = NoFile /\ venv = NoVenv /\ sites = None
    /\ catalog = [version |-> Effective.v, managed |-> FALSE]
    /\ switching = FALSE /\ running = FALSE /\ paused = FALSE
    /\ job = NoJob /\ probe = NoProbe
    /\ sw = [r \in Requests |-> Idle]
    /\ jobs = 0 /\ switches = 0 /\ faults = 0 /\ boots = 1
    /\ wanted = FALSE /\ meddled = FALSE /\ torn = FALSE /\ raced = FALSE /\ mixed = FALSE

Busy == switching \/ running
Fault == faults < MaxFaults /\ faults' = faults + 1 /\ UNCHANGED <<custom, switches, boots>>

At(r, where) == sw[r].at = where
To(r, where) == sw' = [sw EXCEPT ![r].at = where]
Removed == one' = NoFile /\ venv' = NoVenv /\ sites' = None

-----------------------------------------------------------------------------
(* The guard *)

\* gdlInstall, gdlRevert
Ask(r) ==
    /\ At(r, "idle") /\ switches < MaxSwitches
    /\ switches' = switches + 1
    /\ \/ \E v \in Versions : sw' = [sw EXCEPT ![r] = [Idle EXCEPT !.at = "guard", !.kind = "install", !.v = v]]
       \/ Installed /\ sw' = [sw EXCEPT ![r] = [Idle EXCEPT !.at = "guard", !.kind = "revert"]]
    /\ UNCHANGED <<custom, faults, boots, disk, catalog, switching, running, queue, probe, ghosts>>

Guard(r) ==
    /\ At(r, "guard")
    /\ IF Busy
       THEN sw' = [sw EXCEPT ![r] = Idle] /\ UNCHANGED <<switching, raced>>
       ELSE switching' = TRUE /\ To(r, "read") /\ raced' = (raced \/ probe.at # "idle")
    /\ UNCHANGED <<counts, disk, catalog, running, queue, probe, wanted, meddled, torn>>

ReadPaused(r) ==
    /\ At(r, "read")
    /\ sw' = [sw EXCEPT ![r].waspaused = paused, ![r].at = "pause"]
    /\ UNCHANGED <<counts, disk, catalog, switching, running, queue, probe, ghosts>>

Pause(r) ==
    /\ At(r, "pause")
    /\ paused' = TRUE
    /\ To(r, "count")
    /\ UNCHANGED <<counts, disk, catalog, switching, running, job, jobs, mixed, probe, ghosts>>

\* mutant: a switch does not look for a running job
CountsNone == TRUE

CountsIdle == job = NoJob

\* Counted once the queue is paused; gdlClaim then starts the install.
Count(r) ==
    /\ At(r, "count")
    /\ IF ~CountsIdle THEN To(r, "done") /\ UNCHANGED running
       ELSE IF sw[r].kind = "install" THEN To(r, "install") /\ running' = TRUE
       ELSE To(r, "remove") /\ UNCHANGED running
    /\ UNCHANGED <<counts, disk, catalog, switching, queue, probe, ghosts>>

\* mutant: a switch always resumes the queue
ResumedAlways(r) == FALSE

\* done: the queue is resumed unless the operator had paused it.
Resumed(r) == paused /\ sw[r].waspaused

Done(r) ==
    /\ At(r, "done")
    /\ paused' = Resumed(r)
    /\ switching' = FALSE
    /\ meddled' = FALSE
    /\ IF running /\ sw[r].kind = "install" /\ sw[r].by # "none" THEN To(r, "tell") ELSE sw' = [sw EXCEPT ![r] = Idle]
    /\ wanted' = IF meddled THEN paused' ELSE wanted
    /\ UNCHANGED <<counts, disk, catalog, running, job, jobs, mixed, probe, torn, raced>>

\* gdlDone
Tell(r) ==
    /\ At(r, "tell")
    /\ running' = FALSE
    /\ sw' = [sw EXCEPT ![r] = Idle]
    /\ UNCHANGED <<counts, disk, catalog, switching, queue, probe, ghosts>>

-----------------------------------------------------------------------------
(* The install *)

\* InstallManaged: the published checksums say whether there is a build; not
\* reading them is an error, and no reason for a venv.
Start(r) ==
    /\ At(r, "install")
    /\ \/ /\ sw' = [sw EXCEPT ![r].at = IF sw[r].v \in Built THEN "download" ELSE "venv",
                              ![r].by = IF sw[r].v \in Built THEN "one" ELSE "venv"]
          /\ UNCHANGED counts
       \/ Fault /\ sw' = [sw EXCEPT ![r].at = "clean", ![r].by = "one"]
    /\ UNCHANGED <<disk, catalog, switching, running, queue, probe, ghosts>>

\* downloadVerified: the file is renamed over the old one, whole and not yet
\* executable.
Download(r) ==
    /\ At(r, "download")
    /\ \/ one' = [v |-> sw[r].v, runs |-> FALSE] /\ To(r, "chmod") /\ UNCHANGED counts
       \/ Fault /\ To(r, "clean") /\ UNCHANGED one
    /\ UNCHANGED <<venv, sites, catalog, switching, running, queue, probe, ghosts>>

\* Executable; whether it runs on this host shows when it is checked.
Chmod(r) ==
    /\ At(r, "chmod")
    /\ \/ one' = [one EXCEPT !.runs = TRUE] /\ To(r, "check") /\ UNCHANGED counts
       \/ Fault /\ UNCHANGED one /\ (To(r, "clean") \/ To(r, "check"))
    /\ UNCHANGED <<venv, sites, catalog, switching, running, queue, probe, ghosts>>

\* mutant: a failed install leaves what it wrote
CleanNothing == UNCHANGED disk

\* removeIfUnrunnable
Cleaned == IF (one.v # None \/ VenvAnswers) /\ Answers(IF one.v # None THEN one ELSE [v |-> venv.v, runs |-> venv.runs]) # None
           THEN UNCHANGED disk ELSE Removed

Clean(r) ==
    /\ At(r, "clean")
    /\ Cleaned
    /\ To(r, "failed")
    /\ UNCHANGED <<counts, catalog, switching, running, queue, probe, ghosts>>

\* installVenv: the environment, when there is none: one whose python is gone
\* still has its pip.
CreateVenv(r) ==
    /\ At(r, "venv")
    /\ \/ /\ venv' = IF venv.there THEN venv ELSE [NoVenv EXCEPT !.there = TRUE, !.python = TRUE]
          /\ To(r, "pip")
          /\ UNCHANGED <<one, sites, counts>>
       \/ Fault /\ Removed /\ To(r, "failed")       \* the venv could not be created
       \/ Fault /\ UNCHANGED disk /\ To(r, "failed") \* no python
    /\ UNCHANGED <<catalog, switching, running, queue, probe, ghosts>>

\* runPip: a failed one may leave the previous release running.
Pip(r) ==
    /\ At(r, "pip")
    /\ \/ /\ venv.python
          /\ venv' = [venv EXCEPT !.v = sw[r].v, !.runs = TRUE]
          /\ To(r, "check")
          /\ UNCHANGED <<one, sites, counts>>
       \/ ~venv.python /\ Removed /\ To(r, "failed") /\ UNCHANGED counts
       \/ /\ venv.python /\ Fault
          /\ To(r, "failed")
          /\ \/ venv.runs /\ UNCHANGED disk
             \/ Removed
    /\ UNCHANGED <<catalog, switching, running, queue, probe, ghosts>>

\* The new binary is run once; the site list follows it.
Check(r) ==
    /\ At(r, "check")
    /\ LET runs == IF sw[r].by = "one" THEN one.runs ELSE venv.runs IN
       \/ /\ runs
          /\ sites' \in {sw[r].v, None}
          /\ sw' = [sw EXCEPT ![r].at = "version", ![r].ok = TRUE]
          /\ UNCHANGED <<one, venv, counts>>
       \/ ~runs /\ Removed /\ To(r, "failed") /\ UNCHANGED counts
       \/ runs /\ Fault /\ Removed /\ To(r, "failed")
    /\ UNCHANGED <<catalog, switching, running, queue, probe, ghosts>>

\* "A failed upgrade may have torn the old install down."
Failed(r) ==
    /\ At(r, "failed")
    /\ To(r, "version")
    /\ UNCHANGED <<counts, disk, catalog, switching, running, queue, probe, ghosts>>

\* gdlRevert: RevertManaged, then the catalog; a removal that fails ends it.
Remove(r) ==
    /\ At(r, "remove")
    /\ \/ Removed /\ To(r, "version") /\ UNCHANGED counts
       \/ Fault /\ UNCHANGED disk /\ To(r, "done")
    /\ UNCHANGED <<catalog, switching, running, queue, probe, ghosts>>

-----------------------------------------------------------------------------
(* The catalog *)

Catalog(saw) == [version |-> saw, managed |-> Active]

\* Refresh asks the binary first and replaces the catalog at the end.
Version(r) ==
    /\ At(r, "version")
    /\ sw' = [sw EXCEPT ![r].saw = Answers(Effective), ![r].at = "replace"]
    /\ UNCHANGED <<counts, disk, catalog, switching, running, queue, probe, ghosts>>

Replace(r) ==
    /\ At(r, "replace")
    /\ catalog' = Catalog(sw[r].saw)
    /\ To(r, "done")
    /\ UNCHANGED <<counts, disk, switching, running, queue, probe, ghosts>>

\* mutant: the panel probes while a switch is under way
OutlivedAnyTime == catalog.managed # Active

\* "The cached inventory can outlive its binary."
Outlived == ~Busy /\ catalog.managed # Active

\* reconcileGDLCatalog, when the settings page is drawn.
Reconcile ==
    /\ probe = NoProbe
    /\ Outlived
    /\ probe' = [at |-> "out", saw |-> Answers(Effective)]
    /\ UNCHANGED <<counts, disk, catalog, switching, running, queue, sw, ghosts>>

Reconciled ==
    /\ probe.at = "out"
    /\ catalog' = Catalog(probe.saw)
    /\ probe' = NoProbe
    /\ UNCHANGED <<counts, disk, switching, running, queue, sw, ghosts>>

-----------------------------------------------------------------------------
(* The queue, the operator and the host *)

StartJob ==
    /\ job = NoJob /\ ~paused /\ jobs < MaxJobs
    /\ jobs' = jobs + 1
    /\ job' = [at |-> "resolved", with |-> Effective.v, excused |-> meddled]
    /\ UNCHANGED <<counts, disk, catalog, switching, running, paused, mixed, sw, probe, ghosts>>

\* The job downloads with the gallery-dl that answers by now, and ends.
EndJob ==
    /\ job # NoJob
    /\ job' = NoJob
    /\ mixed' = (mixed \/ (job.with # Effective.v /\ ~job.excused))
    /\ UNCHANGED <<counts, disk, catalog, switching, running, paused, jobs, sw, probe, ghosts>>

\* pauseQueue, resumeQueue: refused by nothing.
Toggle ==
    /\ paused' = ~paused
    /\ wanted' = ~paused
    /\ meddled' = (meddled \/ switching)
    /\ UNCHANGED <<counts, disk, catalog, switching, running, job, jobs, mixed, sw, probe, torn, raced>>

\* An upgrade of the host takes the python the venv links to.
Rot ==
    /\ venv.python /\ ~Busy /\ job = NoJob
    /\ venv' = [venv EXCEPT !.python = FALSE]
    /\ UNCHANGED <<counts, one, sites, catalog, switching, running, queue, sw, probe, ghosts>>

\* The process ends in the middle of whatever it does; the next one probes
\* the catalog.
Restart ==
    /\ boots < MaxBoots /\ boots' = boots + 1
    /\ torn' = (torn \/ ~Effective.runs)
    /\ catalog' = Catalog(Answers(Effective))
    /\ switching' = FALSE /\ running' = FALSE /\ paused' = FALSE
    /\ job' = NoJob /\ probe' = NoProbe
    /\ sw' = [r \in Requests |-> Idle]
    /\ wanted' = FALSE /\ meddled' = FALSE /\ raced' = FALSE
    /\ UNCHANGED <<custom, disk, jobs, switches, faults, mixed>>

Next ==
    \/ \E r \in Requests :
         \/ Ask(r) \/ Guard(r) \/ ReadPaused(r) \/ Pause(r) \/ Count(r) \/ Done(r) \/ Tell(r)
         \/ Start(r) \/ Download(r) \/ Chmod(r) \/ Clean(r) \/ CreateVenv(r) \/ Pip(r) \/ Check(r)
         \/ Failed(r) \/ Remove(r) \/ Version(r) \/ Replace(r)
    \/ Reconcile \/ Reconciled
    \/ StartJob \/ EndJob \/ Toggle \/ Rot \/ Restart

Spec == Init /\ [][Next]_vars

-----------------------------------------------------------------------------
(* Properties *)

Switched == \A r \in Requests : sw[r] = Idle

\* "A job must not resolve with one gallery-dl and download with another"
\* (gallerydl.go:131): while no one resumes the queue in the middle of a
\* switch, none does, whatever installs, reverts and jobs race.
NoMixedRun == ~mixed

\* "never shadow it with a broken one" (managed.go:165): however an install
\* fails, once it is over the gallery-dl a run would use runs, unless a crash
\* came between the new file and its check.
NeverShadowed == Switched => Effective.runs \/ torn

\* Once no switch and no probe is out, the catalog is of the gallery-dl that
\* answers, or the next look at the panel sees that it is not: unless the
\* panel's own probe was out while a switch ran.
CatalogTells ==
    Switched /\ probe = NoProbe =>
        \/ catalog = [version |-> Answers(Effective), managed |-> Active]
        \/ catalog.managed # Active
        \/ raced

\* A switch leaves the queue as the operator last wanted it, unless the
\* operator said so during the switch.
PauseRestored == Switched => paused = wanted

\* What the panel says of a finished install: the release is active.
InstallIsActive ==
    \A r \in Requests : At(r, "tell") /\ sw[r].ok /\ catalog.managed /\ ~torn => Effective.v = sw[r].v
=============================================================================
