------------------------------- MODULE PtrSync -------------------------------
(***************************************************************************)
(* The local mirror of the public tag repository                           *)
(* (src/internal/ptr/engine.go, store.go) and the settings that drive it   *)
(* (src/internal/web/handlers_ptr.go): one sync loop that fetches the      *)
(* repository's updates in order and replays each in a transaction, under  *)
(* enable, disable, delete, pause, resume, retry, a crash and a power cut. *)
(*                                                                         *)
(* A step is one hold of Engine.mu, one answer of the repository or one    *)
(* transaction of the index.  What a request has left to do is its todo.   *)
(* An update is its number in its repository: what its rows say, the blobs *)
(* it is cut into, the census and the progress bar are left out.           *)
(***************************************************************************)
EXTENDS Integers, Sequences, FiniteSets

CONSTANTS
    Callers, Main,  \* goroutines: requests of the operator, and the boot
    Free,           \* nobody, of lifecycleMu
    Addresses,      \* repositories
    Calls,          \* what happens in this instance
    MaxUpdates,     \* bound: updates a repository publishes
    MaxFaults,      \* bound: errors and false manifests of the repository, and of the disk
    MaxBoots,       \* bound: starts of the process
    MaxCalls        \* bound: calls of the operator

Threads == Callers \cup {Main}

ASSUME PtrSyncAssumption ==
    /\ Main \notin Callers /\ Free \notin Threads
    /\ Addresses # {}
    /\ MaxUpdates \in Nat \ {0} /\ MaxFaults \in Nat /\ MaxBoots \in Nat /\ MaxCalls \in Nat

VARIABLES
    published,  \* updates each repository has published
    config,     \* the settings file: enabled, paused, address
    engine,     \* Engine, under its mu, and its copy of the address
    lifecycle,  \* who holds lifecycleMu
    loop,       \* the sync loop: where it is, the entries left, the last one applied
    index,      \* ptr.sqlite as it is
    past,       \* what a power cut may leave of it: its earlier commits
    todo,       \* what each request has left to do
    whole,      \* history: how much the index held when a manifest first named nothing more
    misled,     \* history: the repository sent a false manifest
    asked,      \* history: a resume or retry the loop has not acted upon
    faults, boots, called

bounds == <<faults, boots, called>>
hist   == <<whole, misled, asked>>
disk   == <<index, past>>
vars   == <<published, config, engine, lifecycle, loop, disk, todo, hist, bounds>>

None    == -1
NoIndex == [there |-> FALSE, built |-> "none", applied |-> <<>>, covered |-> 0, ready |-> FALSE]
NoLoop  == [at |-> "none", left |-> <<>>, prev |-> 0]
States  == {"disabled", "syncing", "ready", "paused", "error"}

At(place) == [loop EXCEPT !.at = place]

\* Cursor is 0 before the first update; updates are numbered from 1.
Cursor == IF index.applied = <<>> THEN 0 ELSE index.applied[Len(index.applied)][2]

CaughtUp == engine.everReady /\ engine.state # "syncing"

\* setState: only StateReady moves everReady.
SetState(s) == [engine EXCEPT !.state = s, !.everReady = @ \/ s = "ready"]

\* One transaction of the index; under synchronous(normal) a power cut may lose the last ones.
Commit(i) == index' = i /\ past' = IF "cut" \in Calls THEN past \cup {index} ELSE past

Up == todo[Main] = <<>> /\ boots > 0

Init ==
    /\ \E a \in Addresses : config = [enabled |-> TRUE, paused |-> FALSE, address |-> a]
    /\ engine = [open |-> FALSE, ctx |-> "live", state |-> "disabled", everReady |-> FALSE,
                 paused |-> FALSE, wake |-> FALSE, covered |-> 0, address |-> config.address]
    /\ lifecycle = Free
    /\ loop = NoLoop
    /\ past = {}
    \* Nothing yet, or an index older than the record of its coverage.
    /\ \/ published = [a \in Addresses |-> 0] /\ index = NoIndex
       \/ /\ published = [a \in Addresses |-> IF a = config.address THEN 1 ELSE 0]
          /\ index = [there |-> TRUE, built |-> config.address, covered |-> 0, ready |-> FALSE,
                      applied |-> <<<<config.address, 1>>>>]
    /\ todo = [t \in Threads |-> <<>>]
    /\ whole = None /\ misled = FALSE /\ asked = FALSE
    /\ faults = 0 /\ boots = 0 /\ called = 0

-----------------------------------------------------------------------------
(* Todo lists.                                                             *)

Do(what)     == [do |-> what]
Keep(k, v)   == [do |-> k, value |-> v]
\* An Enable whose failure is shown as the engine's state (boot, Retry) or only answered.
OpenItem(shown) == [do |-> "open", shown |-> shown]

Doing(t, what) == todo[t] # <<>> /\ Head(todo[t]).do = what
Rest(t)        == Tail(todo[t])
Then(t, more)  == todo' = [todo EXCEPT ![t] = more]

-----------------------------------------------------------------------------
(* The engine's calls.                                                     *)

\* Pause: the flag, and the state of an open engine.
Pause(t) ==
    /\ Doing(t, "pause") /\ Then(t, Rest(t))
    /\ engine' = IF engine.open THEN [engine EXCEPT !.paused = TRUE, !.state = "paused", !.wake = TRUE]
                 ELSE [engine EXCEPT !.paused = TRUE]
    /\ asked' = FALSE
    /\ UNCHANGED <<published, config, lifecycle, loop, disk, whole, misled, bounds>>

\* Mutant of Resumed: no nudge.
ResumedQuietly == [engine EXCEPT !.paused = FALSE,
                !.state = IF @ # "paused" THEN @ ELSE IF engine.everReady THEN "ready" ELSE "syncing"]

\* Resume: the state goes back to what an opened index would show.
Resumed == [engine EXCEPT !.paused = FALSE, !.wake = engine.open,
                !.state = IF @ # "paused" THEN @ ELSE IF engine.everReady THEN "ready" ELSE "syncing"]

Resume(t) ==
    /\ Doing(t, "resume") /\ Then(t, Rest(t))
    /\ engine' = Resumed
    /\ asked' = engine.open
    /\ UNCHANGED <<published, config, lifecycle, loop, disk, whole, misled, bounds>>

\* Retry: Enable while nothing is open, Resume otherwise.
Retry(t) ==
    /\ Doing(t, "retry")
    /\ Then(t, IF engine.open THEN <<Do("resume")>> \o Rest(t) ELSE <<OpenItem(TRUE)>> \o Rest(t))
    /\ UNCHANGED <<published, config, engine, lifecycle, loop, disk, hist, bounds>>

\* Mutant of Claimed: an index claims whatever address it is opened with.
ClaimedAgain == [index EXCEPT !.there = TRUE, !.built = engine.address]

\* The front of Enable: lifecycleMu, nothing open yet, the path, the store, the address it was
\* built from.  The index is created, or claims its address, even when what follows is refused.
Claimed == [index EXCEPT !.there = TRUE,
                         !.built = IF index.there THEN @ ELSE engine.address]

Refuse(t) ==  \* Enable's error, as its caller takes it
    IF Head(todo[t]).shown THEN <<Do("showError")>> ELSE <<>>

OpenStore(t) ==
    /\ Doing(t, "open") /\ lifecycle = Free
    /\ \/ /\ engine.open                                      \* already open: no error
          /\ Then(t, Rest(t)) /\ UNCHANGED <<lifecycle, disk, faults>>
       \/ /\ ~engine.open /\ faults < MaxFaults               \* no such path, no space, no open
          /\ faults' = faults + 1
          /\ Then(t, Refuse(t)) /\ UNCHANGED <<lifecycle, disk>>
       \/ /\ ~engine.open /\ Claimed.built = engine.address
          /\ IF Claimed = index THEN UNCHANGED disk ELSE Commit(Claimed)
          /\ lifecycle' = t
          /\ Then(t, <<Do("publish")>> \o Rest(t)) /\ UNCHANGED faults
       \/ /\ ~engine.open /\ Claimed.built # engine.address   \* another repository's index
          /\ Then(t, Refuse(t)) /\ UNCHANGED <<lifecycle, disk, faults>>
    /\ UNCHANGED <<published, config, engine, loop, hist, boots, called>>

\* Mutant of Opened: an index that has a cursor is taken for complete.
OpenedByCursor == [engine EXCEPT !.open = TRUE, !.ctx = "live", !.wake = FALSE,
                         !.everReady = Cursor > 0,
                         !.state = IF Cursor > 0 THEN "ready" ELSE "syncing"]

\* The end of Enable: a complete index opens ready, and the loop starts.
Opened == [engine EXCEPT !.open = TRUE, !.ctx = "live", !.wake = FALSE, !.everReady = index.ready,
                         !.state = IF index.ready THEN "ready" ELSE "syncing"]

Publish(t) ==
    /\ Doing(t, "publish") /\ Then(t, Rest(t))
    /\ engine' = Opened
    /\ loop' = At("seed")
    /\ lifecycle' = Free
    /\ UNCHANGED <<published, config, disk, hist, bounds>>

ShowError(t) ==
    /\ Doing(t, "showError") /\ Then(t, Rest(t))
    /\ engine' = SetState("error")
    /\ UNCHANGED <<published, config, lifecycle, loop, disk, hist, bounds>>

\* Mutant of CancelLoop: the loop is waited for and never told.
CancelLoopUntold(t) ==
    /\ Doing(t, "cancel") /\ Then(t, Rest(t)) /\ lifecycle = Free
    /\ lifecycle' = t
    /\ UNCHANGED <<published, config, engine, loop, disk, hist, bounds>>

\* disableLocked: cancel, wait for the loop, close.
CancelLoop(t) ==
    /\ Doing(t, "cancel") /\ Then(t, Rest(t)) /\ lifecycle = Free
    /\ lifecycle' = t
    /\ engine' = [engine EXCEPT !.ctx = "canceled"]
    /\ UNCHANGED <<published, config, loop, disk, hist, bounds>>

\* Mutant of Ended: the store is closed under the loop.
EndedAlways == TRUE

Ended == loop.at = "none"  \* done is closed

CloseStore(t) ==
    /\ Doing(t, "close") /\ Ended
    /\ engine' = [engine EXCEPT !.open = FALSE, !.state = "disabled", !.covered = 0]
    /\ past' = {}  \* a clean close writes the journal back
    /\ asked' = FALSE
    /\ Then(t, Rest(t))
    /\ lifecycle' = IF Rest(t) # <<>> /\ Head(Rest(t)).do = "unlink" THEN t ELSE Free
    /\ UNCHANGED <<published, config, loop, index, whole, misled, bounds>>

\* The rest of Delete.  A file that will not go leaves the index and the setting as they are.
Unlink(t) ==
    /\ Doing(t, "unlink")
    /\ engine' = [engine EXCEPT !.everReady = FALSE]
    /\ lifecycle' = Free
    /\ \/ /\ index' = NoIndex /\ past' = {} /\ whole' = None /\ misled' = FALSE
          /\ Then(t, Rest(t)) /\ UNCHANGED faults
       \/ /\ faults < MaxFaults /\ faults' = faults + 1
          /\ Then(t, <<>>) /\ UNCHANGED <<disk, whole, misled>>
    /\ UNCHANGED <<published, config, loop, asked, boots, called>>

\* SetAddress: refused while an index is open.
SetAddress(t) ==
    /\ Doing(t, "setAddress") /\ lifecycle = Free /\ Then(t, Rest(t))
    /\ engine' = IF engine.open THEN engine ELSE [engine EXCEPT !.address = config.address]
    /\ UNCHANGED <<published, config, lifecycle, loop, disk, hist, bounds>>

-----------------------------------------------------------------------------
(* The operator's requests, and what they keep of them in the settings.    *)

Request(c, items) ==
    /\ todo[c] = <<>> /\ Up /\ called < MaxCalls
    /\ called' = called + 1
    /\ Then(c, items)
    /\ UNCHANGED <<published, config, engine, lifecycle, loop, disk, hist, faults, boots>>

Begin(c) ==
    \/ "pause" \in Calls  /\ Request(c, <<Do("pause"), Keep("keepPaused", TRUE)>>)
    \/ "resume" \in Calls /\ Request(c, <<Do("resume"), Keep("keepPaused", FALSE)>>)
    \/ "retry" \in Calls  /\ Request(c, <<Do("retry")>>)
    \/ "enable" \in Calls /\ Request(c, <<Keep("apply", TRUE)>>)
    \/ "delete" \in Calls /\ Request(c, <<Do("cancel"), Do("close"), Do("unlink"),
                                         Keep("keepEnabled", FALSE)>>)
    \/ /\ "save" \in Calls
       /\ \E a \in Addresses : \E on \in BOOLEAN :
            Request(c, <<Keep("keepAddress", a), Do("setAddress"), Keep("apply", on), Keep("answer", on)>>)

\* applyPTREnabled: nothing to do when the engine is as asked; else the engine, then the setting.
Application(on) ==
    IF on = engine.open THEN <<>>
    ELSE IF on THEN (IF config.paused THEN <<Do("resume")>> ELSE <<>>)
                    \o <<OpenItem(FALSE), Keep("keepOn", config.paused)>>
    ELSE <<Do("cancel"), Do("close"), Keep("keepEnabled", FALSE)>>

Apply(t) ==
    /\ Doing(t, "apply")
    /\ Then(t, Application(Head(todo[t]).value) \o Rest(t))
    /\ UNCHANGED <<published, config, engine, lifecycle, loop, disk, hist, bounds>>

\* updateConfig.
KeepSetting(t) ==
    /\ \/ Doing(t, "keepPaused")  /\ config' = [config EXCEPT !.paused = Head(todo[t]).value]
       \/ Doing(t, "keepEnabled") /\ config' = [config EXCEPT !.enabled = Head(todo[t]).value]
       \/ /\ Doing(t, "keepOn")
          /\ config' = [config EXCEPT !.enabled = TRUE, !.paused = @ /\ ~Head(todo[t]).value]
       \/ Doing(t, "keepAddress") /\ config' = [config EXCEPT !.address = Head(todo[t]).value]
    /\ Then(t, Rest(t))
    /\ UNCHANGED <<published, engine, lifecycle, loop, disk, hist, bounds>>

Answer(t) ==
    /\ Doing(t, "answer") /\ Then(t, Rest(t))
    /\ UNCHANGED <<published, config, engine, lifecycle, loop, disk, hist, bounds>>

Proceed(t) ==
    \/ Pause(t) \/ Resume(t) \/ Retry(t)
    \/ OpenStore(t) \/ Publish(t) \/ ShowError(t)
    \/ CancelLoop(t) \/ CloseStore(t) \/ Unlink(t) \/ SetAddress(t)
    \/ Apply(t) \/ KeepSetting(t) \/ Answer(t)

-----------------------------------------------------------------------------
(* The sync loop.                                                          *)

Canceled == engine.ctx = "canceled"

LoopStep(from) == loop.at = from /\ UNCHANGED <<published, config, lifecycle, todo, boots, called>>

\* Wherever the loop looks at its context, asks the repository or replays, a cancel ends it.
LoopExit ==
    /\ loop.at \in {"top", "poll", "entry", "fetch", "replay", "failed", "refused", "wait", "backoff", "halt"}
    /\ Canceled
    /\ loop' = NoLoop
    /\ UNCHANGED <<published, config, engine, lifecycle, disk, todo, hist, bounds>>

\* loadCounts, after the census.
LoopSeed ==
    /\ LoopStep("seed")
    /\ engine' = [engine EXCEPT !.covered = index.covered]
    /\ loop' = At("top")
    /\ UNCHANGED <<disk, whole, misled, asked, faults>>

LoopTop ==
    /\ LoopStep("top") /\ ~Canceled
    /\ loop' = At(IF engine.paused THEN "pausing" ELSE "pass")
    /\ UNCHANGED <<engine, disk, whole, misled, asked, faults>>

\* Mutant of LoopPause: the state is left to Pause.
LoopPauseUnsaid ==
    /\ LoopStep("pausing")
    /\ loop' = At("wait")
    /\ UNCHANGED <<engine, disk, whole, misled, asked, faults>>

LoopPause ==
    /\ LoopStep("pausing")
    /\ engine' = SetState("paused")
    /\ loop' = At("wait")
    /\ UNCHANGED <<disk, whole, misled, asked, faults>>

\* The top of syncPass: a complete index stays as it is until a manifest names updates.
LoopPass ==
    /\ LoopStep("pass")
    /\ engine' = IF engine.everReady THEN engine ELSE SetState("syncing")
    /\ loop' = At("poll")
    /\ UNCHANGED <<disk, whole, misled, asked, faults>>

\* Mutant of Since: the last entry is asked for again.
SinceAgain == IF Cursor = 0 THEN 1 ELSE Cursor

\* What a pass asks for, and the true answer.
Since == Cursor + 1
News == [i \in 1 .. (published[engine.address] - Since + 1) |-> Since + i - 1]

\* A manifest that names nothing ends the pass; backfillCovered fills a coverage of 0.
PollEmpty ==
    /\ LoopStep("poll") /\ ~Canceled /\ published[engine.address] < Since
    /\ loop' = At("mark")
    /\ IF engine.covered = 0 /\ Cursor > 0
       THEN Commit([index EXCEPT !.covered = Cursor]) /\ engine' = [engine EXCEPT !.covered = Cursor]
       ELSE UNCHANGED <<engine, disk>>
    /\ whole' = IF whole = None THEN Len(index.applied) ELSE whole
    /\ asked' = FALSE
    /\ UNCHANGED <<misled, faults>>

\* A manifest that names updates, true or false; one whose last entry is behind is an error.
PollNews ==
    /\ LoopStep("poll") /\ ~Canceled
    /\ \E slice \in {News} \cup (IF faults = MaxFaults THEN {} ELSE
            UNION {[1 .. n -> 1 .. published[engine.address]] : n \in 1 .. 2}) :
        /\ slice # <<>>
        /\ misled' = (misled \/ slice # News)
        /\ faults' = IF slice = News THEN faults ELSE faults + 1
        /\ IF slice[Len(slice)] < Since
           THEN loop' = At("failed") /\ UNCHANGED engine
           ELSE /\ loop' = [at |-> "entry", left |-> slice, prev |-> Since - 1]
                /\ engine' = SetState("syncing")
    /\ asked' = FALSE
    /\ UNCHANGED <<disk, whole>>

\* A request of the loop fails: for good (a refusal), or not (the network, an overload).
Fault ==
    /\ loop.at \in {"poll", "fetch"} /\ LoopStep(loop.at) /\ ~Canceled
    /\ faults < MaxFaults /\ faults' = faults + 1
    /\ \E kind \in {"failed", "refused"} : loop' = [NoLoop EXCEPT !.at = kind]
    /\ asked' = (asked /\ loop.at # "poll")
    /\ UNCHANGED <<engine, disk, whole, misled>>

\* Mutant of InOrder: the order is not looked at.
InOrderUnseen == TRUE

\* The entries of a manifest, one by one: a pause drops the rest, and so does one out of order.
InOrder == loop.left[1] > loop.prev

LoopEntry ==
    /\ LoopStep("entry") /\ ~Canceled
    /\ \/ loop.left = <<>> /\ loop' = At("poll")
       \/ loop.left # <<>> /\ engine.paused /\ loop' = [NoLoop EXCEPT !.at = "top"]
       \/ loop.left # <<>> /\ ~engine.paused /\ ~InOrder /\ loop' = [NoLoop EXCEPT !.at = "failed"]
       \/ loop.left # <<>> /\ ~engine.paused /\ InOrder /\ loop' = At("fetch")
    /\ UNCHANGED <<engine, disk, whole, misled, asked, faults>>

\* Mutant of LoopFetch: the coverage is noted before the entry is replayed.
LoopFetchNoted ==
    /\ LoopStep("fetch") /\ ~Canceled
    /\ loop' = IF engine.paused THEN [NoLoop EXCEPT !.at = "top"] ELSE At("replay")
    /\ engine' = [engine EXCEPT !.covered = loop.left[1]]
    /\ UNCHANGED <<disk, whole, misled, asked, faults>>

\* applyEntry fetches the blobs; a pause drops what it has.
LoopFetch ==
    /\ LoopStep("fetch") /\ ~Canceled
    /\ loop' = IF engine.paused THEN [NoLoop EXCEPT !.at = "top"] ELSE At("replay")
    /\ UNCHANGED <<engine, disk, whole, misled, asked, faults>>

\* Replay: rows, cursor and coverage in one transaction, which a cancel rolls back.
Replayed(n) == [index EXCEPT !.applied = Append(@, <<engine.address, n>>), !.covered = n]

Replay ==
    /\ LoopStep("replay") /\ ~Canceled
    /\ Commit(Replayed(loop.left[1]))
    /\ loop' = At("note")
    /\ UNCHANGED <<engine, whole, misled, asked, faults>>

LoopNote ==
    /\ LoopStep("note")
    /\ engine' = [engine EXCEPT !.covered = loop.left[1]]
    /\ loop' = [at |-> "entry", left |-> Tail(loop.left), prev |-> loop.left[1]]
    /\ UNCHANGED <<disk, whole, misled, asked, faults>>

LoopFail ==
    /\ loop.at \in {"failed", "refused"} /\ LoopStep(loop.at) /\ ~Canceled
    /\ engine' = SetState("error")
    /\ loop' = At(IF loop.at = "failed" THEN "backoff" ELSE "halt")
    /\ UNCHANGED <<disk, whole, misled, asked, faults>>

\* A pass that ended well: the mark on disk, then the state.
LoopMark ==
    /\ LoopStep("mark")
    /\ IF index.ready THEN UNCHANGED disk ELSE Commit([index EXCEPT !.ready = TRUE])
    /\ loop' = At("ready")
    /\ UNCHANGED <<engine, whole, misled, asked, faults>>

LoopReady ==
    /\ LoopStep("ready")
    /\ engine' = SetState("ready")
    /\ loop' = At("wait")
    /\ UNCHANGED <<disk, whole, misled, asked, faults>>

\* Mutant of Timers: no failure is tried again.
TimersNone == {"wait"}

\* waitWake: a nudge, or the timer, which a refusal for good does not have.
Timers == {"wait", "backoff"}

LoopWake ==
    /\ loop.at \in {"wait", "backoff", "halt"} /\ LoopStep(loop.at) /\ ~Canceled
    /\ engine.wake \/ loop.at \in Timers
    /\ engine' = [engine EXCEPT !.wake = FALSE]
    /\ loop' = At("top")
    /\ UNCHANGED <<disk, whole, misled, asked, faults>>

Loop ==
    \/ LoopExit \/ LoopSeed \/ LoopTop \/ LoopPause \/ LoopPass
    \/ PollEmpty \/ PollNews \/ LoopEntry \/ LoopFetch \/ Replay \/ LoopNote
    \/ LoopFail \/ LoopMark \/ LoopReady \/ LoopWake

-----------------------------------------------------------------------------
(* The world: the repository goes on, the process starts and dies.         *)

\* What another repository publishes may as well come once the engine fetches from it.
Grow ==
    /\ published[engine.address] < MaxUpdates
    /\ published' = [published EXCEPT ![engine.address] = @ + 1]
    /\ UNCHANGED <<config, engine, lifecycle, loop, disk, todo, hist, bounds>>

\* NewEngine and Start.
Boot ==
    /\ boots < MaxBoots /\ boots' = boots + 1
    /\ engine' = [open |-> FALSE, ctx |-> "live", state |-> "disabled", everReady |-> FALSE,
                  paused |-> config.paused, wake |-> FALSE, covered |-> 0, address |-> config.address]
    /\ lifecycle' = Free /\ loop' = NoLoop /\ past' = {} /\ asked' = FALSE
    /\ boots = 0 \/ "crash" \in Calls
    /\ index' \in past \cup {index}
    /\ whole' = IF index'.ready THEN whole ELSE None
    /\ todo' = [t \in Threads |-> IF t = Main /\ config.enabled THEN <<OpenItem(TRUE)>> ELSE <<>>]
    /\ UNCHANGED <<published, config, misled, faults, called>>

Next ==
    \/ \E c \in Callers : Begin(c)
    \/ \E t \in Threads : Proceed(t)
    \/ Loop \/ Fault \/ Grow \/ Boot

Spec == Init /\ [][Next]_vars

\* The goroutines run and timers elapse; nothing makes a repository publish, fail or lie, an
\* operator call, or the process start.
FairSpec ==
    /\ Spec
    /\ WF_vars(Loop)
    /\ \A t \in Threads : WF_vars(Proceed(t))

-----------------------------------------------------------------------------
(* Properties.                                                             *)

Places  == {"none", "seed", "top", "pausing", "pass", "poll", "entry", "fetch", "replay", "note",
            "failed", "refused", "mark", "ready", "wait", "backoff", "halt"}
Indexes == [there : BOOLEAN, built : Addresses \cup {"none"}, applied : Seq(Addresses \X (1 .. MaxUpdates)),
            covered : 0 .. MaxUpdates, ready : BOOLEAN]
Items   == [do : {"pause", "resume", "retry", "publish", "showError", "cancel", "close", "unlink", "setAddress"}]
           \cup [do : {"keepPaused", "keepEnabled", "keepOn", "apply", "answer"}, value : BOOLEAN]
           \cup [do : {"keepAddress"}, value : Addresses]
           \cup [do : {"open"}, shown : BOOLEAN]

TypeOK ==
    /\ published \in [Addresses -> 0 .. MaxUpdates]
    /\ config \in [enabled : BOOLEAN, paused : BOOLEAN, address : Addresses]
    /\ engine \in [open : BOOLEAN, ctx : {"live", "canceled"}, state : States, everReady : BOOLEAN,
                   paused : BOOLEAN, wake : BOOLEAN, covered : 0 .. MaxUpdates, address : Addresses]
    /\ lifecycle \in Threads \cup {Free}
    /\ loop \in [at : Places, left : Seq(1 .. MaxUpdates), prev : 0 .. MaxUpdates]
    /\ index \in Indexes /\ past \subseteq Indexes
    /\ todo \in [Threads -> Seq(Items)]
    /\ whole \in Nat \cup {None} /\ misled \in BOOLEAN /\ asked \in BOOLEAN

\* "Each carries its cursor, so the sync resumes cleanly" (store.go): whatever was paused, killed
\* or cut, the index holds the first updates of its repository, all of them, each once.
PrefixApplied ==
    ~misled => \A i \in DOMAIN index.applied : index.applied[i] = <<index.built, i>>

\* Whatever a manifest says, no update is replayed twice, nor one older than the last ("an entry out
\* of order would drive it backward", syncPass).
OnceInOrder ==
    \A i, j \in DOMAIN index.applied : i < j => index.applied[i][2] < index.applied[j][2]

\* Updates of two repositories never meet in one index, and the open index is of the repository the
\* engine fetches from (Enable, SetAddress): "the mixed index would read ready while missing what
\* the new one maps".
OneRepository ==
    /\ \A i \in DOMAIN index.applied : index.applied[i][1] = index.built
    /\ engine.open => index.built = engine.address

\* A partial build never passes for a complete index, through restarts, power cuts, wipes and
\* errors: once lookups are answered, the index has held all that was published at some time, and
\* holds it still (CaughtUp).
PartialBuildRefuses ==
    engine.open /\ CaughtUp => whole # None /\ Len(index.applied) >= whole

\* The coverage that decides whether a committed edit is in the index (CoveredThrough) is never
\* ahead of what was replayed.
CoverageIsIndexed == index.covered <= Cursor /\ engine.covered <= index.covered

\* The loop never runs on a closed store or on a deleted index (Disable waits for it).
LoopHasIndex == loop.at # "none" => engine.open /\ index.there

\* The index holds the first updates of one repository, in order, each once.
IndexIsPrefix == PrefixApplied /\ OnceInOrder /\ OneRepository

\* Nothing speaks for more than the index holds.
CompleteIsWhole == PartialBuildRefuses /\ CoverageIsIndexed /\ LoopHasIndex

\* A pause stops the sync, and the state says so in the end, whatever the loop was about to write.
PauseTakes ==
    engine.open /\ engine.paused
        ~> ~engine.open \/ ~engine.paused \/ (engine.state = "paused" /\ loop.at = "wait")

\* A resume or a retry is followed by a request to the repository, even after a refusal for good,
\* which has no timer ("a nudge sent mid-pass is not lost").
AskedIsHeard == asked ~> ~asked

\* An open index that lags its repository catches up, unless it is paused, closed or refused.
CatchesUp ==
    engine.open /\ Cursor < published[engine.address]
        ~> ~engine.open \/ engine.paused \/ Cursor >= published[engine.address] \/ loop.at = "halt"

\* Enable, Disable and Delete let go of lifecycleMu: the loop they wait for ends.
LifecycleEnds == lifecycle # Free ~> lifecycle = Free

\* Left to itself the sync moves on, and it does what it was asked.
SyncMovesOn == PauseTakes /\ AskedIsHeard /\ CatchesUp

\* engine.go, CaughtUp: "Only a partial build or a backlog replay refuses: its partial tag set would
\* read as the whole truth."
ReplayRefuses ==
    loop.at \in {"fetch", "replay", "note"} /\ ~engine.paused => ~CaughtUp

\* handlers_ptr.go, savePTR: "only the key, the enabled box and, while no index is open, the data
\* path and the address apply at once": a save that was answered with the box off leaves the sync
\* off at the next start.
BoxApplies ==
    \A c \in Callers : Doing(c, "answer") /\ ~Head(todo[c]).value => ~config.enabled
==============================================================================
