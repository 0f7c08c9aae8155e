------------------------------ MODULE Settings ------------------------------
(***************************************************************************)
(* The settings (src/internal/config, src/internal/web): the file and the  *)
(* layer served from it, on which the environment is laid; the site        *)
(* profiles (src/internal/mapping); and what is derived from both and kept *)
(* elsewhere: the mapper's view of the profiles, the runner's site lists,  *)
(* the gallery-dl config monloader writes, the limits of the queue and the *)
(* PTR engine's key.                                                       *)
(*                                                                         *)
(* A request is a sequence of steps, split where another may come in       *)
(* between.  updateConfig holds its lock from the clone to the store, so a *)
(* save is one step.  A setting is one of a few kinds that differ in what  *)
(* is derived from them, and there is one site, whose shipped profile has  *)
(* no md5 search.                                                          *)
(***************************************************************************)
EXTENDS Naturals, Sequences, FiniteSets

CONSTANTS
    Requests,       \* requests under way together
    EnvKeys,        \* the settings a MONLOADER_* variable overrides
    MaxRequests,    \* bound: requests in all
    MaxFaults,      \* bound: writes that fail
    MaxBoots        \* bound: starts of the process

\* "url" is read where it is used; the managed config is written from "site"
\* (credentials, options, the raw config, the pause between requests);
\* "limits" (the scheduled budget, the retention) go to the queue and "key" to
\* the engine; "chain" is the site's place in the lookup chain.
Keys == {"url", "site", "limits", "key", "chain"}
Env == 9        \* a value that comes from the environment
Cleared == 0
Typed(k) == CASE k = "chain" -> {0, 1}
              [] k = "url" -> {2}
              [] k = "key" -> {2}
              [] k = "site" -> {Cleared, 2}
              [] OTHER -> {1, 2}

Profiles == {"shipped", "search", "flat"}
Template(p) == p = "search"

VARIABLES
    file,       \* monloader.toml
    served,     \* config.Provider: what the process runs on
    disk,       \* the site's profile file ("shipped" when there is none)
    view,       \* Mapper.ps: the effective profile
    lists,      \* the runner's site lists, by the profile they are of
    managed,    \* the gallery-dl config: [site, profile] it was written from
    pushed,     \* the queue's limits and the engine's key
    req,        \* each request under way
    asked, faults, boots,
    over,       \* ghost: settings that still have the environment's value
    baked,      \* ghost: settings whose form posted that value back
    tainted     \* ghost: what two requests worked on together, or a failed write left behind

vars == <<file, served, disk, view, lists, managed, pushed, req, asked, faults, boots,
          over, baked, tainted>>

config == <<file, served, over, baked>>
derived == <<disk, view, lists, managed, pushed>>

Derived == {"view", "lists", "managed", "limits", "key", "chain"}
Held == [site |-> 1, profile |-> "shipped", value |-> Cleared]
Idle == [steps |-> <<>>, sets |-> <<>>, profile |-> "shipped", held |-> Held, touches |-> {}, alone |-> TRUE]

\* decodeFile, then applyEnvOverrides.
Overlaid(f) == [k \in Keys |-> IF k \in EnvKeys THEN Env ELSE f[k]]

PushedOf(s) == [limits |-> s["limits"], key |-> s["key"]]

\* main: load, mapping.New, gdl.New, WriteManagedConfig and the queue's limits.
Booted(f, p) ==
    /\ served' = Overlaid(f)
    /\ view' = p /\ lists' = p
    /\ managed' = [site |-> Overlaid(f)["site"], profile |-> p]
    /\ pushed' = PushedOf(Overlaid(f))

\* The first start, on what an earlier run left.
Init ==
    /\ \E c \in {0, 1} : file = [k \in Keys |-> IF k = "chain" THEN c ELSE 1]
    /\ disk \in {"shipped", "search"}
    /\ file["chain"] > 0 => Template(disk)
    /\ served = Overlaid(file)
    /\ view = disk /\ lists = disk
    /\ managed = [site |-> served["site"], profile |-> disk]
    /\ pushed = PushedOf(served)
    /\ req = [r \in Requests |-> Idle]
    /\ asked = 0 /\ faults = 0 /\ boots = 1
    /\ over = EnvKeys /\ baked = {} /\ tainted = {}

-----------------------------------------------------------------------------
(* The requests and their steps *)

Fault == faults < MaxFaults /\ faults' = faults + 1

\* mutant: the managed config is not rewritten
RefreshLists == <<"look", "lists">>

\* refreshSiteLists
Refresh == <<"look", "lists", "gather", "look", "put">>

\* rewriteGDLConfig reads the settings, then the profiles, and writes.
Rewrite == <<"gather", "look", "put">>

\* SaveUserProfile and DeleteUserProfile: the check against the chain, the
\* file, and reload, which reads the files and swaps the view.
SaveProfile == <<"needed", "write", "scan", "view">>

OfProfile == {"view", "lists", "managed", "chain"}

\* What a form posts: for each setting in it, what the operator typed or the
\* value it was drawn with.
Forms(keys) ==
    {f \in [keys -> {Cleared, 1, 2, Env}] : \A k \in keys : f[k] \in Typed(k) \cup {served[k]}}

Empty(k) == {[x \in {k} |-> Cleared]}

\* A request: what it posts, the steps it takes and what it touches.
Asks(r, forms, steps, profile, touches) ==
    /\ req[r].steps = <<>> /\ asked < MaxRequests
    /\ asked' = asked + 1
    /\ LET common == touches \cap UNION {req[q].touches : q \in Requests} IN
       /\ \E sets \in forms :
            req' = [q \in Requests |->
                      IF q = r THEN [steps |-> steps, sets |-> sets, profile |-> profile, held |-> Held,
                                     touches |-> touches, alone |-> common = {}]
                      ELSE [req[q] EXCEPT !.alone = @ /\ req[q].touches \cap touches = {}]]
       /\ tainted' = tainted \cup common
    /\ UNCHANGED <<config, derived, faults, boots>>

\* Saves nothing is derived from.
Plain(r) == Asks(r, Forms({"url"}), <<"save">>, "shipped", {})
saveMonbooru(r) == Plain(r)
setMonbooruPaused(r) == Plain(r)
saveHostLabels(r) == Plain(r)
settingsThemePost(r) == Plain(r)
settingsDesktopPost(r) == Plain(r)
setupPost(r) == Plain(r)

saveRaw(r) == Asks(r, Forms({"site"}), <<"save">> \o Rewrite, "shipped", {"managed"})

saveDownloader(r) ==
    Asks(r, Forms({"site", "limits"}), <<"save">> \o Rewrite \o <<"readLimits", "pushLimits">>,
         "shipped", {"managed", "limits"})

saveLookup(r) == Asks(r, Forms({"limits"}), <<"save", "readLimits", "pushLimits">>, "shipped", {"limits"})

saveLookupChain(r) == Asks(r, Forms({"chain"}), <<"template", "save">>, "shipped", {"chain"})

\* With a profile in the form, and without.
saveSite(r) ==
    \/ \E p \in Profiles : Asks(r, Forms({"site"}), SaveProfile \o <<"save">> \o Refresh, p, OfProfile)
    \/ Asks(r, Forms({"site"}), <<"save">> \o Refresh, "shipped", {"lists", "managed"})

resetSiteProfile(r) == Asks(r, Forms({}), SaveProfile \o Refresh, "shipped", OfProfile)

\* The site's block goes too, but for its place in the chain.
resetSite(r) == Asks(r, Empty("site"), SaveProfile \o <<"save">> \o Refresh, "shipped", OfProfile)

\* savePTR gives the engine the key it has saved, ptrClearKey an empty one.
savePTR(r) == Asks(r, Forms({"key"}), <<"save", "readKey", "pushKey">>, "shipped", {"key"})

ptrClearKey(r) == Asks(r, Empty("key"), <<"save", "pushKey">>, "shipped", {"key"})

Ask(r) ==
    \/ saveMonbooru(r) \/ setMonbooruPaused(r) \/ saveHostLabels(r) \/ settingsThemePost(r)
    \/ settingsDesktopPost(r) \/ setupPost(r)
    \/ saveRaw(r) \/ saveDownloader(r) \/ saveLookup(r) \/ saveLookupChain(r)
    \/ saveSite(r) \/ resetSiteProfile(r) \/ resetSite(r) \/ savePTR(r) \/ ptrClearKey(r)

At(r, step) == req[r].steps # <<>> /\ Head(req[r].steps) = step

\* The request after a step, or none.
Moved(r, with) ==
    LET rest == Tail(req[r].steps) IN
    req' = [req EXCEPT ![r] = IF rest = <<>> THEN Idle ELSE [with EXCEPT !.steps = rest]]

Ends(r) == req' = [req EXCEPT ![r] = Idle]

\* What a request that had it to itself has brought up to date.
Settled(r, d) == tainted' = IF req[r].alone THEN tainted \ {d} ELSE tainted

-----------------------------------------------------------------------------
(* Profiles *)

\* mutant: a profile may lose its md5 search whatever the chain
NeededNever(p) == FALSE

\* A site in the chain keeps an md5 search.
Needed(p) == served["chain"] > 0 /\ ~Template(p)

CheckNeeded(r) ==
    /\ At(r, "needed")
    /\ IF Needed(req[r].profile) THEN Ends(r) ELSE Moved(r, req[r])
    /\ UNCHANGED <<config, derived, asked, faults, boots, tainted>>

\* A failed write ends the request; the file is replaced whole or not at all.
WriteProfile(r) ==
    /\ At(r, "write")
    /\ \/ disk' = req[r].profile /\ Moved(r, req[r]) /\ UNCHANGED faults
       \/ Fault /\ Ends(r) /\ UNCHANGED disk
    /\ UNCHANGED <<config, view, lists, managed, pushed, asked, boots, tainted>>

Scan(r) ==
    /\ At(r, "scan")
    /\ Moved(r, [req[r] EXCEPT !.held.profile = disk])
    /\ UNCHANGED <<config, derived, asked, faults, boots, tainted>>

SwapView(r) ==
    /\ At(r, "view")
    /\ view' = req[r].held.profile
    /\ Settled(r, "view")
    /\ Moved(r, req[r])
    /\ UNCHANGED <<config, disk, lists, managed, pushed, asked, faults, boots>>

\* saveLookupChain refuses a site that cannot be searched.
CheckTemplate(r) ==
    /\ At(r, "template")
    /\ IF req[r].sets["chain"] > 0 /\ ~Template(view) THEN Ends(r) ELSE Moved(r, req[r])
    /\ UNCHANGED <<config, derived, asked, faults, boots, tainted>>

-----------------------------------------------------------------------------
(* The config *)

With(layer, sets) == [k \in Keys |-> IF k \in DOMAIN sets THEN sets[k] ELSE layer[k]]

\* mutant: the layer that is served is the one saved
PersistedServed(sets) == With(served, sets)

\* The file is read again without the environment, and the change made on it too.
Persisted(sets) == With(file, sets)

\* updateConfig.  A failed save leaves both layers; a profile written before
\* it stays, and nothing that follows from it is brought up to date.
UpdateConfig(r) ==
    /\ At(r, "save")
    /\ \/ /\ file' = Persisted(req[r].sets)
          /\ served' = With(served, req[r].sets)
          /\ over' = over \ DOMAIN req[r].sets
          /\ baked' = {k \in Keys : IF k \in DOMAIN req[r].sets THEN req[r].sets[k] = Env ELSE k \in baked}
          /\ Moved(r, req[r])
          /\ UNCHANGED <<faults, tainted>>
       \/ /\ Fault
          /\ Ends(r)
          /\ tainted' = IF "view" \in req[r].touches THEN tainted \cup {"lists", "managed"} ELSE tainted
          /\ UNCHANGED config
    /\ UNCHANGED <<derived, asked, boots>>

-----------------------------------------------------------------------------
(* What is derived *)

Look(r) ==
    /\ At(r, "look")
    /\ Moved(r, [req[r] EXCEPT !.held.profile = view])
    /\ UNCHANGED <<config, derived, asked, faults, boots, tainted>>

SetSiteLists(r) ==
    /\ At(r, "lists")
    /\ lists' = req[r].held.profile
    /\ Settled(r, "lists")
    /\ Moved(r, req[r])
    /\ UNCHANGED <<config, disk, view, managed, pushed, asked, faults, boots>>

Gather(r) ==
    /\ At(r, "gather")
    /\ Moved(r, [req[r] EXCEPT !.held.site = served["site"]])
    /\ UNCHANGED <<config, derived, asked, faults, boots, tainted>>

\* WriteManagedConfig.  A write that fails is logged, and the request goes on.
WriteManagedConfig(r) ==
    /\ At(r, "put")
    /\ Moved(r, req[r])
    /\ \/ /\ managed' = [site |-> req[r].held.site, profile |-> req[r].held.profile]
          /\ Settled(r, "managed")
          /\ UNCHANGED faults
       \/ /\ Fault /\ UNCHANGED managed
          /\ tainted' = tainted \cup {"managed"}
    /\ UNCHANGED <<config, disk, view, lists, pushed, asked, boots>>

\* The steps that take a setting to where it is used.
Reads  == [limits |-> "readLimits", key |-> "readKey"]
Pushes == [limits |-> "pushLimits", key |-> "pushKey"]

Read(r, d) ==
    /\ At(r, Reads[d])
    /\ Moved(r, [req[r] EXCEPT !.held.value = served[d]])
    /\ UNCHANGED <<config, derived, asked, faults, boots, tainted>>

\* SetLookupBudget and SetRetention, SetAccessKey.
Push(r, d) ==
    /\ At(r, Pushes[d])
    /\ pushed' = [pushed EXCEPT ![d] = req[r].held.value]
    /\ Settled(r, d)
    /\ Moved(r, req[r])
    /\ UNCHANGED <<config, disk, view, lists, managed, asked, faults, boots>>

\* The process ends, with requests under way or not, and starts again.
Restart ==
    /\ boots < MaxBoots /\ boots' = boots + 1
    /\ Booted(file, disk)
    /\ over' = EnvKeys
    /\ req' = [r \in Requests |-> Idle]
    /\ tainted' = tainted \cap {"chain"}
    /\ UNCHANGED <<file, disk, baked, asked, faults>>

Next ==
    \/ \E r \in Requests :
         \/ Ask(r) \/ CheckNeeded(r) \/ WriteProfile(r) \/ Scan(r) \/ SwapView(r) \/ CheckTemplate(r)
         \/ UpdateConfig(r) \/ Look(r) \/ SetSiteLists(r) \/ Gather(r) \/ WriteManagedConfig(r)
         \/ \E d \in {"limits", "key"} : Read(r, d) \/ Push(r, d)
    \/ Restart

Spec == Init /\ [][Next]_vars

-----------------------------------------------------------------------------
(* Properties *)

\* The two layers never part: what is served is the file, but for the settings
\* that still have the environment's value, whatever saves failed or ran
\* together; and such a value is in the file only where a form posted it back.
TwoLayers ==
    /\ served = [k \in Keys |-> IF k \in over THEN Env ELSE file[k]]
    /\ \A k \in Keys : file[k] = Env => k \in baked

Touched(d) == \E r \in Requests : d \in req[r].touches

\* Once the requests that touch it have ended, everything derived from the
\* settings and the profiles follows them, unless two such requests ran
\* together or a write failed, and then again after the next that ran alone.
SoloSaveLands ==
    LET Current(d) == d \in tainted \/ Touched(d) IN
    /\ Current("view") \/ view = disk
    /\ Current("lists") \/ Touched("view") \/ lists = view
    /\ Current("managed") \/ Touched("view") \/ managed = [site |-> served["site"], profile |-> view]
    /\ \A d \in {"limits", "key"} : Current(d) \/ pushed[d] = served[d]

\* A site in the lookup chain has an md5 search: its profile cannot lose it
\* while it is there, and it cannot enter without.  A check of the one and a
\* save of the other that run together can still break it.
ChainKeepsTemplate == "chain" \in tainted \/ Touched("chain") \/ served["chain"] = 0 \/ Template(view)

\* "an env value never lands in the file" (config.go:438).
EnvStaysOut == \A k \in Keys : file[k] # Env
=============================================================================
