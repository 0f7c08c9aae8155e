---------------------------- MODULE Contributions ----------------------------
(***************************************************************************)
(* Edits of the public tag repository: staged in contrib.sqlite by requests*)
(* (src/internal/api/ptrcontrib.go, web/handlers_ptr.go), claimed and      *)
(* posted by send jobs (src/internal/pipeline/contrib.go), recorded in a   *)
(* ledger (src/internal/ptr/contribstore.go) and followed there as the     *)
(* index catches up (src/internal/ptr/contrib.go).                         *)
(*                                                                         *)
(* An edit asks to put or take a fact: a mapping of a tag to a file, or a  *)
(* relation of two tags.  Adds of mappings apply at once; the rest waits   *)
(* for the repository's janitors.  Spellings, siblings' ideals, reasons,   *)
(* the tag filter and the year after which ledger rows go are left out.    *)
(* A step is one statement or transaction of a database, one hold of       *)
(* Engine.mu or Queue.mu, or one answer of the repository.                 *)
(***************************************************************************)
EXTENDS Integers, Sequences, FiniteSets, FiniteSetsExt

CONSTANTS
    Callers,      \* requests
    Mappings,     \* facts whose puts apply at once
    Relations,    \* facts the janitors decide
    Starts,       \* sets of facts the repository may start with
    Batches,      \* sequences of edits a request may stage
    Calls,        \* what happens in this instance
    ChunkSize,    \* contribChunkWeight
    MaxStaged,    \* bound: rows ever staged
    MaxSends,     \* bound: send jobs
    MaxUpdates,   \* bound: updates the repository publishes
    MaxFaults,    \* bound: failures of the repository
    MaxCalls      \* bound: requests, cancels, retries, closings and crashes

Facts == Mappings \cup Relations
Edits == [ask : {"put", "take"}, of : Facts]

ASSUME ContributionsAssumption ==
    /\ Mappings \cap Relations = {} /\ Starts \subseteq SUBSET Facts
    /\ Batches \subseteq Seq(Edits) \ {<<>>}
    /\ ChunkSize \in Nat \ {0} /\ MaxStaged \in Nat /\ MaxSends \in Nat
    /\ MaxUpdates \in Nat /\ MaxFaults \in Nat /\ MaxCalls \in Nat

VARIABLES
    live,     \* the repository: facts that stand
    desk,     \* the repository: edits its janitors have yet to decide
    updates,  \* the repository: the facts as of each update
    mirror,   \* the engine: is it open and ready, its how manieth opening, the index, its coverage
    items,    \* contrib_items: id to [n, edit, status]
    ledger,   \* contrib_log
    jobs,     \* send jobs
    req,      \* requests
    staged,   \* history: rows ever staged; a row's n is its number among them
    owed,     \* history: rows acknowledged and not rescinded, sent or found on the repository
    gone,     \* history: rows a caller was told are rescinded
    held,     \* history: rows staged to wait, of which no send was asked
    taken,    \* history: rows the repository took
    faults, called

store   == <<items, ledger>>
repo    == <<live, desk, updates>>
hist    == <<staged, owed, gone, held, taken>>
bounds  == <<faults, called>>
vars    == <<repo, mirror, store, jobs, req, hist, bounds>>

NoReq == [at |-> "idle", edits |-> <<>>, commit |-> FALSE, ids |-> {}, session |-> 0, covered |-> 0, row |-> 0]

NewJob(ids, backlog) ==
    [at |-> "queued", ids |-> ids, backlog |-> backlog, canceled |-> FALSE, session |-> 0, covered |-> 0,
     claimed |-> {}, kept |-> {}, chunk |-> {}]

Init ==
    /\ \E known \in Starts :
        /\ live = known /\ updates = <<known>>
        /\ mirror = [open |-> TRUE, ready |-> TRUE, session |-> 1, index |-> known, covered |-> 1]
    /\ desk = {}
    /\ items = <<>> /\ ledger = <<>> /\ jobs = <<>>
    /\ req = [c \in Callers |-> NoReq]
    /\ staged = 0 /\ owed = {} /\ gone = {} /\ held = {} /\ taken = {}
    /\ faults = 0 /\ called = 0

Call == called < MaxCalls /\ called' = called + 1

\* ContribSendRefusal, when the repository answers well of the account.
Sendable == mirror.open /\ mirror.ready

-----------------------------------------------------------------------------
(* The store.                                                              *)

\* A handle outlives its store: once the engine has closed it every statement fails.
Alive(session) == mirror.open /\ mirror.session = session

Ids      == DOMAIN items
IdsOf(e) == {i \in Ids : items[i].edit = e}
Unsent   == {i \in Ids : items[i].status # "sending"}
Without(ids)        == [i \in Ids \ ids |-> items[i]]
Marked(ids, status) == [i \in Ids |-> IF i \in ids THEN [items[i] EXCEPT !.status = status] ELSE items[i]]
Rows(ids)           == {items[i].n : i \in ids}

\* INTEGER PRIMARY KEY without AUTOINCREMENT: one more than the largest id there is.
NewId == Max({0} \cup Ids) + 1

\* Complete's ledger row; at is the update the commit will come with, ahead of all published ones.
LedgerRow(it) ==
    [n |-> it.n, edit |-> it.edit, at |-> Len(updates) + 1,
     outcome |-> IF it.edit.ask = "put" /\ it.edit.of \in Mappings THEN "applied" ELSE ""]

Pending(e) == \E k \in DOMAIN ledger : ledger[k].edit = e /\ ledger[k].outcome = ""

PendingMappingPetition(e) == IdsOf(e) # {} \/ Pending(e)

MappingAddCommittedSince(m, covered) ==
    \E k \in DOMAIN ledger : ledger[k].edit = [ask |-> "put", of |-> m] /\ ledger[k].at > covered

-----------------------------------------------------------------------------
(* Requests.                                                               *)

Go(c, place)   == req' = [req EXCEPT ![c].at = place]
Done(c)        == req' = [req EXCEPT ![c] = NoReq]
At(c, place)   == req[c].at = place
Edit(c)        == Head(req[c].edits)
Quiet          == UNCHANGED <<repo, mirror, faults, called>>

\* A refused item never sinks the rest; what was accepted is sent in one job.
NextItem(c, accepted) ==
    LET r == [req[c] EXCEPT !.edits = Tail(@), !.ids = @ \cup accepted] IN
    req' = [req EXCEPT ![c] = IF r.edits # <<>> THEN [r EXCEPT !.at = "look"]
                              ELSE IF r.commit /\ r.ids # {} THEN [r EXCEPT !.at = "enqueue"]
                              ELSE NoReq]

Refused(c) == NextItem(c, {}) /\ UNCHANGED <<store, jobs, hist>> /\ Quiet

\* ptrContribStage: the gates, the store, the coverage.  A request that is refused here has no effect.
Submit(c, edits, commit) ==
    /\ At(c, "idle") /\ Call /\ mirror.open /\ (commit => Sendable)
    /\ req' = [req EXCEPT ![c] = [NoReq EXCEPT !.at = "look", !.edits = edits, !.commit = commit,
                                  !.session = mirror.session, !.covered = mirror.covered]]
    /\ UNCHANGED <<repo, mirror, store, jobs, hist, faults>>

\* Is there anything to ask: the index has what is to be taken and lacks what is to be put.
Askable(e) == (e.ask = "take") = (e.of \in mirror.index)

Look(c) ==
    /\ At(c, "look")
    /\ IF mirror.open /\ Askable(Edit(c))
       THEN Go(c, "known") /\ UNCHANGED <<store, jobs, hist>> /\ Quiet
       ELSE Refused(c)

\* What the index cannot show: an add it does not cover yet, an edit on the janitors' desk.
Known(e, covered) ==
    \/ e.of \in Mappings /\ e.ask = "put" /\ MappingAddCommittedSince(e.of, covered)
    \/ e.of \in Mappings /\ e.ask = "take" /\ PendingMappingPetition(e)
    \/ e.of \in Relations /\ Pending(e)

Ask(c) ==
    /\ At(c, "known")
    /\ IF Known(Edit(c), req[c].covered) THEN Refused(c)
       ELSE Go(c, "insert") /\ UNCHANGED <<store, jobs, hist>> /\ Quiet

\* Stage: INSERT OR IGNORE.
Insert(c) ==
    /\ At(c, "insert")
    /\ LET r == req[c] IN
       \/ ~Alive(r.session) /\ r.row = 0 /\ Refused(c)
       \/ ~Alive(r.session) /\ r.row # 0 /\ Done(c) /\ UNCHANGED <<store, jobs, hist>> /\ Quiet
       \/ /\ Alive(r.session) /\ IdsOf(Edit(c)) # {}
          /\ Go(c, "find") /\ UNCHANGED <<store, jobs, hist>> /\ Quiet
       \/ /\ Alive(r.session) /\ IdsOf(Edit(c)) = {} /\ staged < MaxStaged
          /\ items' = [i \in Ids \cup {NewId} |->
                        IF i = NewId THEN [n |-> staged + 1, edit |-> Edit(c), status |-> "staged"] ELSE items[i]]
          /\ staged' = staged + 1
          /\ owed' = owed \cup {staged'}
          /\ held' = IF r.commit THEN held ELSE held \cup {staged'}
          /\ IF r.row = 0 THEN NextItem(c, {NewId})
             ELSE req' = [req EXCEPT ![c].at = "stamp", ![c].ids = {NewId}]
          /\ UNCHANGED <<ledger, jobs, gone, taken>> /\ Quiet

\* StagedID: a row left from an earlier request is sent again.  One that left meanwhile is a
\* duplicate to a stage, and id 0 to a rescind.
Find(c) ==
    /\ At(c, "find")
    /\ LET found == IF Alive(req[c].session) THEN IdsOf(Edit(c)) ELSE {} IN
       /\ IF req[c].row = 0 THEN NextItem(c, found)
          ELSE req' = [req EXCEPT ![c].at = "stamp", ![c].ids = IF found = {} THEN {0} ELSE found]
       /\ held' = IF req[c].commit THEN held \ Rows(found) ELSE held
    /\ UNCHANGED <<store, jobs, staged, owed, gone, taken>> /\ Quiet

EnqueueContrib(c) ==
    /\ At(c, "enqueue") /\ Len(jobs) < MaxSends
    /\ jobs' = Append(jobs, NewJob(req[c].ids, FALSE))
    /\ Done(c) /\ UNCHANGED <<store, hist>> /\ Quiet

\* A sender that gave up waiting: what it staged waits.
GiveUp(c) ==
    /\ At(c, "enqueue") /\ req[c].row = 0
    /\ Done(c) /\ UNCHANGED <<store, jobs, hist>> /\ Quiet

\* Mutant: whatever the row's status.
RescindAny(c, ids) ==
    /\ At(c, "idle") /\ Call /\ mirror.open
    /\ ids \cap Ids # {}
    /\ items' = Without(ids)
    /\ owed' = owed \ Rows(ids \cap Ids)
    /\ gone' = gone \cup Rows(ids \cap Ids)
    /\ UNCHANGED <<repo, mirror, ledger, jobs, req, staged, held, taken, faults>>

\* Rescind and RescindAll: rows on their way out stay.
Rescind(c, ids) ==
    /\ At(c, "idle") /\ Call /\ mirror.open
    /\ ids \cap Unsent # {}
    /\ items' = Without(ids \cap Unsent)
    /\ owed' = owed \ Rows(ids \cap Unsent)
    /\ gone' = gone \cup Rows(ids \cap Unsent)
    /\ UNCHANGED <<repo, mirror, ledger, jobs, req, staged, held, taken, faults>>

\* ptrContribCommit: the whole backlog, unless a send is queued or running.
SendLive == \E j \in DOMAIN jobs : jobs[j].at # "ended"

Commit(c) ==
    /\ At(c, "idle") /\ Call /\ Sendable /\ ~SendLive
    /\ Go(c, "backlog")
    /\ UNCHANGED <<repo, mirror, store, jobs, hist, faults>>

EnqueueBacklog(c) ==
    /\ At(c, "backlog") /\ Len(jobs) < MaxSends
    /\ jobs' = Append(jobs, NewJob({}, TRUE))
    /\ held' = {}
    /\ Done(c) /\ UNCHANGED <<store, staged, owed, gone, taken>> /\ Quiet

-----------------------------------------------------------------------------
(* RescindCommittedAdd.                                                    *)

Undo(c, k) ==
    LET take == [ask |-> "take", of |-> ledger[k].edit.of] IN
    /\ At(c, "idle") /\ Call /\ Sendable
    /\ ledger[k].edit.ask = "put" /\ ledger[k].edit.of \in Mappings
    /\ ~PendingMappingPetition(take)
    /\ req' = [req EXCEPT ![c] = [NoReq EXCEPT !.at = "undoLook", !.edits = <<take>>, !.commit = TRUE,
                                  !.session = mirror.session, !.row = k]]
    /\ UNCHANGED <<repo, mirror, store, jobs, hist, faults>>

UndoLook(c) ==
    /\ At(c, "undoLook")
    /\ IF mirror.open
       THEN Go(c, IF Edit(c).of \in mirror.index THEN "insert" ELSE "undoSince")
       ELSE Done(c)
    /\ UNCHANGED <<store, jobs, hist>> /\ Quiet

\* Not in the index: already gone, unless the add is newer than the index.
UndoSince(c) ==
    /\ At(c, "undoSince")
    /\ IF Alive(req[c].session) /\ MappingAddCommittedSince(Edit(c).of, mirror.covered)
       THEN Go(c, "insert") ELSE Done(c)
    /\ UNCHANGED <<store, jobs, hist>> /\ Quiet

UndoStamp(c) ==
    /\ At(c, "stamp")
    /\ IF Alive(req[c].session)
       THEN ledger' = [ledger EXCEPT ![req[c].row].outcome = "rescinded"] /\ Go(c, "enqueue")
       ELSE UNCHANGED ledger /\ Done(c)
    /\ UNCHANGED <<items, jobs, hist>> /\ Quiet

-----------------------------------------------------------------------------
(* Send jobs (processContrib).                                             *)

JobAt(j, place)  == jobs[j].at = place
Still            == UNCHANGED <<mirror, req, called>>
Ended(j)         == [NewJob(jobs[j].ids, jobs[j].backlog) EXCEPT !.at = "ended"]

\* Mutant: claims what another job is sending.
ClaimableAny(j) == IF jobs[j].backlog THEN Ids ELSE Ids \cap jobs[j].ids

\* ClaimIDs and ClaimBacklog: one transaction; none left is nothing to send.
Claimable(j) == IF jobs[j].backlog THEN Unsent ELSE Unsent \cap jobs[j].ids

Row(i) == [id |-> i, n |-> items[i].n, edit |-> items[i].edit]

Claim(j) ==
    /\ JobAt(j, "queued")
    /\ LET ids == IF mirror.open THEN Claimable(j) ELSE {} IN
       /\ items' = Marked(ids, "sending")
       /\ jobs' = [jobs EXCEPT ![j] =
            IF ids = {} THEN Ended(j)
            ELSE [@ EXCEPT !.at = "gate", !.session = mirror.session, !.claimed = {Row(i) : i \in ids}]]
    /\ UNCHANGED <<repo, ledger, hist, faults>> /\ Still

\* Mutant: the job ends, and its rows stay as they are.
ReleasedNot(j, rows) == jobs' = [jobs EXCEPT ![j] = Ended(j)]

\* The rows still in hand are released, one FailItem each, before the job ends.
Released(j, rows) ==
    jobs' = [jobs EXCEPT ![j].at = "fail", ![j].kept = rows, ![j].claimed = {}, ![j].chunk = {}]

\* Key, readiness, account and filter, the last two asked of the repository under the job's context;
\* then the coverage, before the index is looked at.
Gate(j) ==
    /\ JobAt(j, "gate")
    /\ \/ /\ mirror.ready /\ ~jobs[j].canceled
          /\ jobs' = [jobs EXCEPT ![j].at = "look", ![j].covered = IF mirror.open THEN mirror.covered ELSE 0]
          /\ UNCHANGED faults
       \/ (~mirror.ready \/ jobs[j].canceled) /\ Released(j, jobs[j].claimed) /\ UNCHANGED faults
       \/ faults < MaxFaults /\ faults' = faults + 1 /\ Released(j, jobs[j].claimed)
    /\ UNCHANGED <<repo, store, hist>> /\ Still

\* packContribChunks: petitions first.  The mappings of a tag go together, so any of a kind may be next.
Chunks(rows) ==
    {c \in SUBSET rows :
        /\ Cardinality(c) = IF Cardinality(rows) < ChunkSize THEN Cardinality(rows) ELSE ChunkSize
        /\ \A r \in c, q \in rows \ c : r.edit.ask = "put" => q.edit.ask = "put"}

\* The job ends, or goes on to post a chunk of the rows that are left.
PostsNext(j, rows) ==
    \/ rows = {} /\ jobs' = [jobs EXCEPT ![j] = Ended(j)]
    \/ /\ rows # {}
       /\ \E c \in Chunks(rows) :
            jobs' = [jobs EXCEPT ![j].at = "post", ![j].claimed = {}, ![j].kept = rows \ c, ![j].chunk = c]

\* reDiffContrib, row by row: what the repository has or has not by now is dropped.
Current(j) == CHOOSE r \in jobs[j].claimed : \A q \in jobs[j].claimed : r.id <= q.id

Looked(j, kept) ==
    LET rest == jobs[j].claimed \ {Current(j)} IN
    IF rest = {} THEN PostsNext(j, kept)
    ELSE jobs' = [jobs EXCEPT ![j].at = "look", ![j].claimed = rest, ![j].kept = kept]

Dropped(j) ==
    /\ items' = IF Alive(jobs[j].session) THEN Without({Current(j).id}) ELSE items
    /\ owed' = owed \ {Current(j).n}
    /\ Looked(j, jobs[j].kept)

Kept(j) == Looked(j, jobs[j].kept \cup {Current(j)}) /\ UNCHANGED <<items, owed>>

Unreadable(j) == Released(j, jobs[j].claimed \cup jobs[j].kept) /\ UNCHANGED <<items, owed>>

Rediff(j) ==
    /\ JobAt(j, "look")
    /\ LET e == Current(j).edit IN
       \/ ~mirror.open /\ Unreadable(j)
       \/ mirror.open /\ Askable(e) /\ Kept(j)
       \/ mirror.open /\ ~Askable(e) /\ (e.ask = "put" \/ e.of \in Relations) /\ Dropped(j)
       \/ /\ mirror.open /\ ~Askable(e) /\ e.ask = "take" /\ e.of \in Mappings
          /\ jobs' = [jobs EXCEPT ![j].at = "log"] /\ UNCHANGED <<items, owed>>
    /\ UNCHANGED <<repo, ledger, staged, gone, held, taken, faults>> /\ Still

\* Mutant: the coverage is read after the index.
RediffLogLate(j) ==
    /\ JobAt(j, "log")
    /\ IF ~Alive(jobs[j].session) THEN Unreadable(j)
       ELSE IF MappingAddCommittedSince(Current(j).edit.of, mirror.covered) THEN Kept(j) ELSE Dropped(j)
    /\ UNCHANGED <<repo, ledger, staged, gone, held, taken, faults>> /\ Still

\* An add committed after the index's coverage is live although the index lacks it.
RediffLog(j) ==
    /\ JobAt(j, "log")
    /\ IF ~Alive(jobs[j].session) THEN Unreadable(j)
       ELSE IF MappingAddCommittedSince(Current(j).edit.of, jobs[j].covered) THEN Kept(j) ELSE Dropped(j)
    /\ UNCHANGED <<repo, ledger, staged, gone, held, taken, faults>> /\ Still

\* The repository takes a chunk: what is there already changes nothing.
Takes(rows) ==
    LET edits == {r.edit : r \in rows} IN
    /\ live' = live \cup {e.of : e \in {x \in edits : x.ask = "put" /\ x.of \in Mappings}}
    /\ desk' = desk \cup {e \in edits : IF e.ask = "take" THEN e.of \in live
                                        ELSE e.of \in Relations \ live}
    /\ taken' = taken \cup {r.n : r \in rows}

Untaken == UNCHANGED <<live, desk, taken>>

\* failRemainder: the chunk that was not answered, and those after it.
Remainder(j) == jobs[j].chunk \cup jobs[j].kept

\* postContribChunk: an answer; none, with the chunk taken or not, and another attempt or none left;
\* or the job's cancel, before the request or in its middle.
Post(j) ==
    /\ JobAt(j, "post")
    /\ \/ /\ ~jobs[j].canceled /\ Takes(jobs[j].chunk)
          /\ jobs' = [jobs EXCEPT ![j].at = "complete"]
          /\ UNCHANGED faults
       \/ /\ ~jobs[j].canceled /\ faults < MaxFaults /\ faults' = faults + 1
          /\ Takes(jobs[j].chunk) \/ Untaken
          /\ UNCHANGED jobs \/ Released(j, Remainder(j))
       \/ /\ jobs[j].canceled /\ UNCHANGED faults
          /\ Takes(jobs[j].chunk) \/ Untaken
          /\ Released(j, Remainder(j))
    /\ UNCHANGED <<updates, store, staged, owed, gone, held>> /\ Still

\* Complete: the ledger row comes and the staged row goes in one transaction.
Complete(j) ==
    /\ JobAt(j, "complete")
    /\ \E row \in jobs[j].chunk :
       /\ IF Alive(jobs[j].session)
          THEN ledger' = Append(ledger, LedgerRow(row)) /\ items' = Without({row.id})
          ELSE UNCHANGED store
       /\ IF jobs[j].chunk = {row} THEN PostsNext(j, jobs[j].kept)
          ELSE jobs' = [jobs EXCEPT ![j].chunk = @ \ {row}]
    /\ UNCHANGED <<repo, hist, faults>> /\ Still

FailItem(j) ==
    /\ JobAt(j, "fail")
    /\ \E row \in jobs[j].kept :
       /\ items' = IF Alive(jobs[j].session) THEN Marked(Ids \cap {row.id}, "failed") ELSE items
       /\ jobs' = IF jobs[j].kept = {row} THEN [jobs EXCEPT ![j] = Ended(j)]
                  ELSE [jobs EXCEPT ![j].kept = @ \ {row}]
    /\ UNCHANGED <<repo, ledger, hist, faults>> /\ Still

JobStep(j) ==
    Claim(j) \/ Gate(j) \/ Rediff(j) \/ RediffLog(j) \/ Post(j) \/ Complete(j) \/ FailItem(j)

\* The queue's cancel and retry, of any job it still has: a retry has the ids of the first run.
Cancel(j) ==
    /\ Call /\ jobs[j].at # "ended" /\ ~jobs[j].canceled
    /\ jobs' = [jobs EXCEPT ![j] = IF @.at = "queued" THEN Ended(j) ELSE [@ EXCEPT !.canceled = TRUE]]
    /\ UNCHANGED <<repo, mirror, store, req, hist, faults>>

Retry(j) ==
    /\ Call /\ jobs[j].at = "ended"
    /\ jobs' = [jobs EXCEPT ![j] = NewJob(@.ids, @.backlog)]
    /\ held' = IF jobs[j].backlog THEN {} ELSE held
    /\ UNCHANGED <<repo, mirror, store, req, staged, owed, gone, taken, faults>>

-----------------------------------------------------------------------------
(* The engine, and the world.                                              *)

\* The index follows the updates one by one, and is ready once it has them all (PtrSync).
Sync ==
    /\ mirror.open /\ mirror.covered < Len(updates)
    /\ mirror' = [mirror EXCEPT !.covered = @ + 1, !.index = updates[mirror.covered + 1],
                                !.ready = @ \/ mirror.covered + 1 = Len(updates)]
    /\ UNCHANGED <<repo, store, jobs, req, hist, bounds>>

\* trackContribOutcomes, at the end of a pass.  Nothing but the loop changes the index.
Outcome(row) ==
    IF row.outcome # "" THEN row.outcome
    ELSE IF row.edit.ask = "put" THEN (IF row.edit.of \in mirror.index THEN "approved" ELSE "")
    ELSE (IF row.edit.of \in mirror.index THEN "" ELSE "removed")

Track ==
    /\ Sendable
    /\ ledger' = [k \in DOMAIN ledger |-> [ledger[k] EXCEPT !.outcome = Outcome(ledger[k])]]
    /\ ledger' # ledger
    /\ UNCHANGED <<repo, mirror, items, jobs, req, hist, bounds>>

\* Disable: the handles of the store die.
Close ==
    /\ mirror.open /\ Call
    /\ mirror' = [mirror EXCEPT !.open = FALSE]
    /\ UNCHANGED <<repo, store, jobs, req, hist, faults>>

\* Delete: with the index goes the store of contributions.
Wipe ==
    /\ Call
    /\ mirror' = [mirror EXCEPT !.open = FALSE, !.ready = FALSE, !.index = {}, !.covered = 0]
    /\ items' = <<>> /\ ledger' = <<>> /\ owed' = {} /\ held' = {}
    /\ UNCHANGED <<repo, jobs, req, staged, gone, taken, faults>>

\* Mutant: rows left mid-send are given up.
ResetDropped == items' = Without(Ids \ Unsent)

\* OpenContribStore: rows left mid-send go back to staged.
Reset == items' = Marked(Ids \ Unsent, "staged")

Open ==
    /\ ~mirror.open /\ Reset
    /\ mirror' = [mirror EXCEPT !.open = TRUE, !.session = @ + 1]
    /\ UNCHANGED <<repo, ledger, jobs, req, hist, bounds>>

\* The process dies and starts again: requests are gone, a running job comes back interrupted.
Crash ==
    /\ Call
    /\ req' = [c \in Callers |-> NoReq]
    /\ jobs' = [j \in DOMAIN jobs |-> IF jobs[j].at = "queued" THEN jobs[j] ELSE Ended(j)]
    /\ IF mirror.open THEN Reset /\ mirror' = [mirror EXCEPT !.session = @ + 1] ELSE UNCHANGED <<items, mirror>>
    /\ UNCHANGED <<repo, ledger, hist, faults>>

\* The repository publishes what stands, and its janitors decide.
Publish ==
    /\ Len(updates) < MaxUpdates /\ updates[Len(updates)] # live
    /\ updates' = Append(updates, live)
    /\ UNCHANGED <<live, desk, mirror, store, jobs, req, hist, bounds>>

Decide ==
    /\ \E e \in desk :
        /\ desk' = desk \ {e}
        /\ live' \in {live, IF e.ask = "put" THEN live \cup {e.of} ELSE live \ {e.of}}
    /\ UNCHANGED <<updates, mirror, store, jobs, req, hist, bounds>>

Begin(c) ==
    \/ /\ "stage" \in Calls
       /\ \E commit \in BOOLEAN : \E edits \in Batches :
            Submit(c, edits, commit)
    \/ "rescind" \in Calls /\ \E ids \in {{i} : i \in Ids} \cup {Ids} : Rescind(c, ids)
    \/ "backlog" \in Calls /\ Commit(c)
    \/ "undo" \in Calls /\ \E k \in DOMAIN ledger : Undo(c, k)

Proceed(c) ==
    \/ Look(c) \/ Ask(c) \/ Insert(c) \/ Find(c) \/ EnqueueContrib(c) \/ GiveUp(c) \/ EnqueueBacklog(c)
    \/ UndoLook(c) \/ UndoSince(c) \/ UndoStamp(c)

Operate ==
    \/ "cancel" \in Calls /\ \E j \in DOMAIN jobs : Cancel(j)
    \/ "retry" \in Calls /\ \E j \in DOMAIN jobs : Retry(j)
    \/ "close" \in Calls /\ Close
    \/ "wipe" \in Calls /\ Wipe
    \/ "crash" \in Calls /\ Crash

Next ==
    \/ \E c \in Callers : Begin(c) \/ Proceed(c)
    \/ \E j \in DOMAIN jobs : JobStep(j)
    \/ Operate \/ Open \/ Sync \/ Track \/ Publish \/ Decide

Spec == Init /\ [][Next]_vars

-----------------------------------------------------------------------------
(* Properties.                                                             *)

Hand(j) == jobs[j].claimed \cup jobs[j].kept \cup jobs[j].chunk

InHand(j) == IF Alive(jobs[j].session) THEN {r.id : r \in Hand(j)} ELSE {}

Items    == [n : Nat, edit : Edits, status : {"staged", "sending", "failed"}]
Claims   == [id : Nat, n : Nat, edit : Edits]
Entries  == [n : Nat, edit : Edits, at : Nat \ {0}, outcome : {"", "applied", "approved", "removed", "rescinded"}]
Requests == [at : {"idle", "look", "known", "insert", "find", "enqueue", "backlog", "undoLook", "undoSince", "stamp"},
             edits : Seq(Edits), commit : BOOLEAN, ids : SUBSET Nat, session : Nat, covered : Nat, row : Nat]
Sends    == [at : {"queued", "gate", "look", "log", "post", "complete", "fail", "ended"},
             ids : SUBSET Nat, backlog : BOOLEAN, canceled : BOOLEAN, session : Nat, covered : Nat,
             claimed : SUBSET Claims, kept : SUBSET Claims, chunk : SUBSET Claims]
Mirrors  == [open : BOOLEAN, ready : BOOLEAN, session : Nat, index : SUBSET Facts, covered : Nat]

\* Ids and coverage stay below what was staged and published, and a request has an edit to work on.
TypeOK ==
    /\ live \subseteq Facts /\ desk \subseteq Edits
    /\ updates \in Seq(SUBSET Facts) /\ updates # <<>>
    /\ mirror \in Mirrors /\ mirror.covered <= Len(updates)
    /\ staged \in Nat /\ Ids \subseteq 1 .. staged
    /\ \A i \in Ids : items[i] \in Items /\ items[i].n \in 1 .. staged
    /\ ledger \in Seq(Entries) /\ jobs \in Seq(Sends) /\ req \in [Callers -> Requests]
    /\ \A c \in Callers : At(c, "look") \/ At(c, "known") \/ At(c, "insert") \/ At(c, "find")
                            \/ At(c, "undoLook") \/ At(c, "undoSince") => req[c].edits # <<>>
    /\ owed \subseteq 1 .. staged /\ gone \subseteq 1 .. staged

\* "staged rows are operator intent, not a rebuildable cache: they outlive a failed or interrupted
\* send" (ContribStore): an acknowledged edit is staged or in the ledger until it is rescinded, or
\* found to be on the repository, by whatever send and under whatever id.
OwedIsKept == \A n \in owed : n \in Rows(Ids) \/ \E k \in DOMAIN ledger : ledger[k].n = n

\* "no claimed row strands in 'sending', where retry and rescind cannot reach it" (failRemainder).
NothingStrands ==
    mirror.open => \A i \in Ids \ Unsent : \E j \in DOMAIN jobs : i \in InHand(j)

\* "per-confirm sends claim disjoint id sets" (ptrContribCommit): two sends never post one row.
OneSender == \A j, k \in DOMAIN jobs : j # k => InHand(j) \cap InHand(k) = {}

\* A row a caller was told is rescinded is not posted afterwards, but by a send that began before
\* the engine was disabled or its store deleted, which nothing stops.
RescindedIsUnsent ==
    [][\A n \in (taken' \ taken) \cap gone :
        \E j \in DOMAIN jobs : ~Alive(jobs[j].session) /\ \E r \in jobs[j].chunk : r.n = n]_vars

\* "its rescind still has work to do" (contribResolved): a removal is dropped as found done only if
\* each add of the mapping in the ledger was undone in some update since, however the index moves
\* between the job's two looks.
Standing(m) ==
    \E k \in DOMAIN ledger :
        /\ ledger[k].edit = [ask |-> "put", of |-> m]
        /\ \A u \in ledger[k].at .. Len(updates) : m \in updates[u]

DropsAreSettled ==
    [][\A j \in DOMAIN jobs :
        JobAt(j, "log") /\ jobs' # jobs /\ Current(j).n \in owed \ owed'
            => ~Standing(Current(j).edit.of)]_vars

\* The claims on rows neither overlap nor outlive their sends.
ClaimsHold == NothingStrands /\ OneSender

\* What the operator took back is not sent, and what was dropped as done was done.
EditsAreHonoured == RescindedIsUnsent /\ DropsAreSettled

\* openapi.go: "commit was false and the accepted items wait staged": until some send is asked of
\* them.
HeldWaits == [][(taken' \ taken) \cap held = {}]_vars

\* openapi.go, of the rescind of an unsent row: "nothing ever left the machine".
NeverLeft == gone \cap taken = {}

\* contrib.go: "rows are only ever stamped approved or removed": a removal that is stamped took place.
RemovedIsRemoved ==
    [][\A k \in DOMAIN ledger \cap DOMAIN ledger' :
        ledger[k].outcome = "" /\ ledger'[k].outcome = "removed"
        => ledger[k].edit.of \notin live]_vars

\* contribstore.go: unsettled rows "guard against re-sending what the repository has not answered".
SuggestedOnce ==
    \A k, l \in DOMAIN ledger :
        k # l /\ ledger[k].edit = ledger[l].edit /\ ledger[k].outcome = "" => ledger[l].outcome # ""
==============================================================================
