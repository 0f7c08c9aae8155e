------------------------------ MODULE MCConsole ------------------------------
(* One instance for TLC of the parts that have no state in common and that a  *)
(* search goes through in seconds to a minute: the lookup budget, and what    *)
(* the console changes beside the queue (pairing and tokens, sessions,        *)
(* settings, the gallery-dl install, and the tag rules).  "part" is the one   *)
(* that runs: the others stay at one of their initial states.                 *)
EXTENDS LookupBudget, TLC

CONSTANTS
    Apps, Managed, PendingCap, MaxPolls,        \* Pairing
    Browsers, MaxVersions, MaxSessions,         \* Sessions
    Requests, EnvKeys,                          \* Settings (Requests: Install's as well)
    Versions, Built, MaxSwitches, MaxJobs,      \* Install
    Letters, MaxName,                           \* Rules
    MaxRequests, MaxFaults                      \* Pairing and Settings; Settings and Install

ASSUME SessionsAssumption == MaxSessions \in Nat /\ "none" \notin Browsers
ASSUME PairingAssumption ==
    /\ MaxRequests \in Nat /\ Managed \subseteq Apps
    /\ "monbooru" \notin Apps /\ "nobody" \notin Apps
ASSUME InstallAssumption == Versions \subseteq Nat \ {0}

VARIABLES
    part,
    tokens, apiToken, attempt, offered, polls, removal, theirs, link, reqs, mints,
    teardowns, filed, own, minted, ended, dropped, parted, lost,
    on, version, live, created, jar, busy, born, setter,
    file, served, disk, view, lists, managed, pushed, req, asked, faults, starts,
    over, baked, tainted,
    custom, one, venv, sites, catalog, switching, running, paused, job, sw, probe,
    jobs, switches, failures, installs, wanted, meddled, torn, raced, mixed,
    kind, input, output

\* Names with more separators than MaxName leaves room for.
LongNames == {<<"a", "_", "_", "a">>, <<"a", "_", "a", " ", "a", "_", "a">>,
              <<"a", " ", "a", "_", "a", " ", "a", "_", "a">>}

P == INSTANCE Pairing WITH asked <- filed, faults <- lost, MaxFaults <- 2
A == INSTANCE Sessions
S == INSTANCE Settings WITH boots <- starts
I == INSTANCE Install WITH faults <- failures, boots <- installs
R == INSTANCE Rules

\* The lookup chain has no MONLOADER_* variable (config.go, applyEnvOverrides).
ASSUME SettingsAssumption == "chain" \notin EnvKeys

Symmetric == Permutations(Requests) \cup Permutations(Callers)

pairing == <<tokens, apiToken, attempt, offered, polls, removal, theirs, link, reqs, mints,
             teardowns, filed, own, minted, ended, dropped, parted, lost>>
sessions == <<on, version, live, created, jar, busy, born, setter>>
settings == <<file, served, disk, view, lists, managed, pushed, req, asked, faults, starts,
              over, baked, tainted>>
install == <<custom, one, venv, sites, catalog, switching, running, paused, job, sw, probe,
             jobs, switches, failures, installs, wanted, meddled, torn, raced, mixed>>
rules == <<kind, input, output>>

MCInit ==
    /\ part \in {"budget", "pairing", "sessions", "settings", "install", "rules"}
    /\ Init /\ P!Init /\ A!Init /\ S!Init /\ I!Init /\ R!Init
    /\ part # "settings" => file["chain"] = 0 /\ disk = "shipped"
    /\ part # "install" => ~custom

MCNext ==
    /\ UNCHANGED part
    /\ \/ part = "budget"   /\ Next   /\ UNCHANGED <<pairing, sessions, settings, install, rules>>
       \/ part = "pairing"  /\ P!Next /\ UNCHANGED <<vars, sessions, settings, install, rules>>
       \/ part = "sessions" /\ A!Next /\ UNCHANGED <<vars, pairing, settings, install, rules>>
       \/ part = "settings" /\ S!Next /\ UNCHANGED <<vars, pairing, sessions, install, rules>>
       \/ part = "install"  /\ I!Next /\ UNCHANGED <<vars, pairing, sessions, settings, rules>>
       \/ part = "rules"    /\ R!Next /\ UNCHANGED <<vars, pairing, sessions, settings, install>>

MCSpec == MCInit /\ [][MCNext]_<<part, vars, pairing, sessions, settings, install, rules>>

-----------------------------------------------------------------------------
(* What the run checks, beside LimitHolds and RowCounts; each conjunct is     *)
(* stated and explained in its module.  A part at rest satisfies its own.     *)

\* However polls, removals, teardowns and the token list interleave, the two
\* halves of the monbooru link belong together, one approval is worth one
\* token, and with nothing under way both ends name the same pairing or one of
\* them could not know better (web/pairing.go, web/pairing_approver.go).
PairingsAgree == part = "pairing" => P!LinkIsWhole /\ P!OneTokenPerApproval /\ P!EndsAgree

\* An attempt that was canceled, removed or replaced is never paired, though a
\* poll was already out with the approval (web/pairing.go, pollPairing).
EndedStaysEnded == P!EndedStaysEnded

\* A change of the password signs out every other browser and leaves the one
\* that made it signed in (web/auth.go).
ChangeSignsOut == part = "sessions" => A!ChangeSignsOut

\* The file and what is served never part, what is derived from them follows
\* each save that ran alone, and a site in the lookup chain keeps its md5
\* search (web/router.go updateConfig, web/handlers_sites.go, web/userprofiles.go).
SavesLand == part = "settings" => S!TwoLayers /\ S!SoloSaveLands /\ S!ChainKeepsTemplate

\* No job resolves with one gallery-dl and downloads with another, and a switch
\* that failed leaves one that runs (web/gallerydl.go, managed/managed.go).
SwitchIsSafe == part = "install" => I!NoMixedRun /\ I!NeverShadowed

\* After a switch the panel's catalog is of the gallery-dl that answers, or the
\* next look sees it is not, and the queue is paused as the operator last had
\* it (web/gallerydl.go).
SwitchIsTold == part = "install" => I!CatalogTells /\ I!PauseRestored

\* A contributed tag comes back as itself, a shown PTR tag is found by its
\* name, a push carries one rating, and an old config's walk becomes the one
\* shipped now (mapping/map.go, mapping/ptr.go, config/config.go).
TablesAgree == part = "rules" => R!TablesAgree

=============================================================================
