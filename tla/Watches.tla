------------------------------- MODULE Watches -------------------------------
(***************************************************************************)
(* Saved searches checked on a schedule (src/internal/queue/watch.go): the *)
(* watches in memory and their rows, the checks in the queue, and the      *)
(* record each watch keeps of its last check, across shutdowns, crashes    *)
(* and restarts.                                                           *)
(*                                                                         *)
(* A step is one hold of Queue.mu or one statement sent to the database,   *)
(* which succeeds; what a goroutine has left to do is its todo list.       *)
(* There is one URL, so one row at a time (UNIQUE).  A worker takes any    *)
(* job of the FIFO: JobQueue models its order, its ring and the writes     *)
(* that overtake each other.                                               *)
(***************************************************************************)
EXTENDS Integers, FiniteSets, Sequences

CONSTANTS
    Workers, Callers, Scheduler, Main,  \* goroutines
    Calls,        \* what happens in this instance
    Outcomes,     \* how a run of a window may end
    All,          \* whether watches take every item (max_items ItemsAll)
    MaxWatches,   \* bound: watches ever added
    MaxJobs,      \* bound: windows ever queued
    MaxTime,      \* bound: intervals that elapse
    MaxBoots,     \* bound: starts of the process
    MaxCalls      \* bound: calls of the operator

Threads  == Workers \cup Callers \cup {Scheduler, Main}
WatchIds == 1 .. MaxWatches
Ids      == 1 .. MaxJobs
Never    == -1

ASSUME WatchesAssumption ==
    /\ MaxWatches \in Nat \ {0} /\ MaxJobs \in Nat /\ MaxTime \in Nat /\ MaxBoots \in Nat
    /\ MaxCalls \in Nat
    /\ All \in BOOLEAN
    \* quiet: nothing new; news: posts created; full: the cap reached and all new;
    \* caught: the cap reached, past a post the archive holds; failed.
    /\ Outcomes \subseteq {"quiet", "news", "full", "caught", "failed"}

VARIABLES
    watches,   \* in memory
    disk,      \* table watches
    highWater, \* counter watch_id_high_water
    jobs,      \* the checks and their windows
    rows,      \* table jobs
    pending, running, finished,  \* where the jobs are
    cut,       \* running jobs whose context is canceled
    nextID,
    todo,      \* what each goroutine has left to do
    closed, phase, boots,
    clock,     \* intervals elapsed
    added,     \* history: watches ever added
    earned,    \* history: checks that started, that the operator canceled or made a
               \* watch of; and their windows
    retried,   \* history: jobs the operator retried
    since,     \* history: the last id issued before this start
    called     \* calls the operator has made, for the bound

store == <<disk, highWater, rows>>
queue == <<jobs, pending, running, finished, cut, nextID>>
life  == <<closed, phase, boots>>
past  == <<added, earned, retried, since>>
spent == <<clock, called>>
vars  == <<watches, store, queue, todo, life, spent, past>>

NoCheck == [job |-> 0, status |-> "none", at |-> Never, count |-> 0]
NoWatch == [there |-> FALSE, no |-> 0, scheduled |-> FALSE, last |-> NoCheck]

\* no is the watch it was queued for, by order of creation (history).
NoJob == [watch |-> 0, no |-> 0, root |-> 0, status |-> "none", started |-> Never,
          ended |-> Never, result |-> "none"]

Settled == {"succeeded", "failed", "canceled", "interrupted"}

Index == pending \cup running \cup finished

IsCheck(j) == jobs[j].watch # 0 /\ jobs[j].root = j

\* Mutant of IsLive: a check in the history counts as live.
IsLiveIndexed(w) == \E j \in Index : jobs[j].watch = w

\* watchLiveLocked.
IsLive(w) == \E j \in pending \cup running : jobs[j].watch = w

\* Watch.Next: an interval has elapsed since the last check.
Due(w) == watches[w].there /\ watches[w].scheduled /\ watches[w].last.at < clock

IsUp == phase \in {"up", "stopping", "closing"}

-----------------------------------------------------------------------------
(* Todo lists *)

Do(what, j)         == [do |-> what, job |-> j]
Note(what, w, last) == [do |-> what, watch |-> w, last |-> last]

\* The steps of each job of a set, by id.
InTurn(S, Steps(_)) ==
    LET inTurn[T \in SUBSET S] ==
          IF T = {} THEN << >>
          ELSE LET j == CHOOSE k \in T : \A m \in T : k <= m
               IN  Steps(j) \o inTurn[T \ {j}]
    IN  inTurn[S]

Idle(t)     == todo[t] = << >>
At(t, what) == ~Idle(t) /\ Head(todo[t]).do = what
Arg(t)      == Head(todo[t])
Begin(t, steps)   == todo' = [todo EXCEPT ![t] = steps]
Proceed(t, steps) == todo' = [todo EXCEPT ![t] = steps \o Tail(@)]

-----------------------------------------------------------------------------
(* Rows of jobs *)

\* persist, and persistKept when the job must still be in the index.
SaveRow(t) ==
    /\ At(t, "row") \/ At(t, "keptRow")
    /\ LET j == Arg(t).job
       IN  rows' = IF At(t, "row") \/ j \in Index THEN [rows EXCEPT ![j] = jobs[j]] ELSE rows
    /\ Proceed(t, << >>)
    /\ UNCHANGED <<watches, disk, highWater, queue, life, spent, past>>

\* persistDelete.
DeleteRows(t) ==
    /\ At(t, "delete")
    /\ rows' = [j \in Ids |-> IF j \in Arg(t).jobs THEN NoJob ELSE rows[j]]
    /\ Proceed(t, << >>)
    /\ UNCHANGED <<watches, disk, highWater, queue, life, spent, past>>

Delete(S) == [do |-> "delete", jobs |-> S]

-----------------------------------------------------------------------------
(* The record of the last check *)

\* updateWatchCheck: in memory under Queue.mu, then the row.
UpdateWatchCheck(t, w, check) ==
    IF watches[w].there
      THEN /\ watches' = [watches EXCEPT ![w].last = check]
           /\ Proceed(t, << Note("saveCheck", w, check) >>)
      ELSE /\ UNCHANGED watches
           /\ Proceed(t, << >>)

SaveWatchCheck(t) ==
    /\ At(t, "saveCheck")
    /\ LET w == Arg(t).watch
       IN  disk' = IF disk[w].there THEN [disk EXCEPT ![w].last = Arg(t).last] ELSE disk
    /\ Proceed(t, << >>)
    /\ UNCHANGED <<watches, highWater, rows, queue, life, spent, past>>

Stamped(j, status, at) == [job |-> j, status |-> status, at |-> at, count |-> 0]

\* stampWatch, at the start of a check.
StampWatch(t) ==
    /\ At(t, "stamp")
    /\ LET j == Arg(t).job
       IN  IF IsCheck(j)
             THEN UpdateWatchCheck(t, jobs[j].watch, Stamped(j, jobs[j].status, jobs[j].started))
             ELSE UNCHANGED watches /\ Proceed(t, << >>)
    /\ UNCHANGED <<store, queue, life, spent, past>>

\* stampCanceledCheck: a canceled check that never started counts as the check.
StampCanceledCheck(t) ==
    /\ At(t, "stampCanceled")
    /\ LET j == Arg(t).job
       IN  IF IsCheck(j) /\ jobs[j].started = Never
             THEN UpdateWatchCheck(t, jobs[j].watch, Stamped(j, "canceled", jobs[j].ended))
             ELSE UNCHANGED watches /\ Proceed(t, << >>)
    /\ UNCHANGED <<store, queue, life, spent, past>>

\* The earliest of a set of jobs.
First(S) == CHOOSE k \in S : \A m \in S : k <= m

\* Mutant of CheckOfSeries: the last window names the status.
CheckOfSeriesLast(S) ==
    LET done == {k \in S : jobs[k].status \in Settled}
    IN  [job |-> First(S), count |-> Cardinality(done), at |-> jobs[First(S)].started,
         status |-> IF done = {} THEN "succeeded"
                    ELSE jobs[CHOOSE k \in done : \A m \in done : k >= m].status]

\* checkOfSeries: only finished windows count; the first that did not succeed
\* names the status.
CheckOfSeries(S) ==
    LET done == {k \in S : jobs[k].status \in Settled}
        bad  == {k \in done : jobs[k].status # "succeeded"}
        at   == IF jobs[First(S)].started # Never THEN jobs[First(S)].started ELSE jobs[First(S)].ended
    IN  [job |-> First(S), count |-> Cardinality(done), at |-> at,
         status |-> IF bad = {} THEN "succeeded" ELSE jobs[First(bad)].status]

\* seriesSnapshotsLocked.
SeriesOf(j) == {k \in Index : jobs[k].root = jobs[j].root} \cup {j}

\* recordWatch: the windows of the series, under one hold...
RecordWatch(t) ==
    /\ At(t, "record")
    /\ LET j == Arg(t).job
       IN  Proceed(t, << [do |-> "apply", job |-> j, last |-> CheckOfSeries(SeriesOf(j))] >>)
    /\ UNCHANGED <<watches, store, queue, life, spent, past>>

\* A retry made after a newer check is not that check's.
RecordsFor(j) == watches[jobs[j].watch].last.job = jobs[j].root

\* ... and the record under the next hold; it keeps the time of the stamp.
ApplyRecord(t) ==
    /\ At(t, "apply")
    /\ LET j == Arg(t).job
           w == jobs[j].watch
           c == watches[w].last
       IN  UpdateWatchCheck(t, w, IF RecordsFor(j) THEN [Arg(t).last EXCEPT !.at = c.at] ELSE c)
    /\ UNCHANGED <<store, queue, life, spent, past>>

-----------------------------------------------------------------------------
(* Queueing checks *)

NewJob(w, no, root) == [NoJob EXCEPT !.watch = w, !.no = no, !.root = root, !.status = "queued"]

\* enqueueLocked.
Enqueue(job) ==
    /\ nextID < MaxJobs
    /\ nextID' = nextID + 1
    /\ jobs' = [jobs EXCEPT ![nextID + 1] = job]
    /\ pending' = pending \cup {nextID + 1}
    /\ UNCHANGED <<running, finished, cut>>

\* Mutant of MayCheck: a check on a worker is not seen.
MayCheckQueued(w) == watches[w].there /\ ~\E j \in pending : jobs[j].watch = w

MayCheck(w) == watches[w].there /\ ~IsLive(w)

\* CheckWatch, in a goroutine that has the rest still to do.
CheckWatch(t, w, rest) ==
    /\ Enqueue(NewJob(w, watches[w].no, nextID + 1))
    /\ Begin(t, << Do("keptRow", nextID + 1) >> \o rest)

CanCall(c, call) == call \in Calls /\ IsUp /\ Idle(c) /\ called < MaxCalls /\ called' = called + 1

CheckNow(c, w) ==
    /\ CanCall(c, "check") /\ MayCheck(w)
    /\ CheckWatch(c, w, << >>)
    /\ UNCHANGED <<watches, store, life, clock, past>>

\* queueDueWatches: one tick lists the due watches under one hold...
ListDue ==
    /\ phase = "up" /\ Idle(Scheduler)
    /\ LET due == {w \in WatchIds : Due(w) /\ ~IsLive(w)}
       IN  /\ due # {}
           /\ Begin(Scheduler, InTurn(due, LAMBDA w : << Note("check", w, NoCheck) >>))
    /\ UNCHANGED <<watches, store, queue, life, spent, past>>

\* ... and queues each under a hold of its own.
CheckListed ==
    /\ At(Scheduler, "check") /\ IsUp
    /\ LET w    == Arg(Scheduler).watch
           rest == Tail(todo[Scheduler])
       IN  IF MayCheck(w) THEN CheckWatch(Scheduler, w, rest)
                          ELSE Begin(Scheduler, rest) /\ UNCHANGED queue
    /\ UNCHANGED <<watches, store, life, spent, past>>

-----------------------------------------------------------------------------
(* The operator's calls on a watch *)

\* Mutant of NewWatchId: past the live rows only.
NewWatchIdOfRows ==
    1 + (CHOOSE n \in 0 .. MaxWatches :
            /\ \A w \in WatchIds : disk[w].there => w <= n
            /\ n = 0 \/ disk[n].there)

\* InsertWatch: past every id ever issued, not only the live ones.
NewWatchId ==
    1 + (CHOOSE n \in 0 .. MaxWatches :
            /\ \A w \in WatchIds : disk[w].there => w <= n
            /\ highWater <= n
            /\ n = highWater \/ disk[n].there)

\* AddWatch: the row, with the result of the finished job the watch is
\* started from if any; then the watch in memory.
AddWatch(c) ==
    /\ CanCall(c, "add") /\ added < MaxWatches
    /\ ~\E w \in WatchIds : disk[w].there
    /\ \E last \in {NoCheck} \cup {CheckOfSeries(SeriesOf(j)) : j \in finished} :
         LET w == [there |-> TRUE, no |-> added + 1, scheduled |-> TRUE, last |-> last]
         IN  /\ disk' = [disk EXCEPT ![NewWatchId] = w]
             /\ Begin(c, << [do |-> "append", watch |-> NewWatchId, as |-> w] >>)
             /\ earned' = (earned \cup {last.job}) \ {0}
    /\ added' = added + 1
    /\ UNCHANGED <<watches, highWater, rows, queue, life, clock, retried, since>>

AppendWatch(c) ==
    /\ At(c, "append")
    /\ watches' = [watches EXCEPT ![Arg(c).watch] = Arg(c).as]
    /\ Proceed(c, << >>)
    /\ UNCHANGED <<store, queue, life, spent, past>>

\* SetWatchInterval: the row first, then the watch in memory.
SetWatchInterval(c, w) ==
    /\ CanCall(c, "set") /\ watches[w].there
    /\ \E on \in BOOLEAN :
         /\ disk' = IF disk[w].there THEN [disk EXCEPT ![w].scheduled = on] ELSE disk
         /\ Begin(c, << [do |-> "set", watch |-> w, on |-> on] >>)
    /\ UNCHANGED <<watches, highWater, rows, queue, life, clock, past>>

ApplyInterval(c) ==
    /\ At(c, "set")
    /\ LET w == Arg(c).watch
       IN  watches' = IF watches[w].there THEN [watches EXCEPT ![w].scheduled = Arg(c).on] ELSE watches
    /\ Proceed(c, << >>)
    /\ UNCHANGED <<store, queue, life, spent, past>>

\* RemoveWatch: the row and the high-water mark in one transaction...
RemoveWatch(c, w) ==
    /\ CanCall(c, "remove") /\ watches[w].there
    /\ disk' = [disk EXCEPT ![w] = NoWatch]
    /\ highWater' = IF w > highWater THEN w ELSE highWater
    /\ Begin(c, << Note("drop", w, NoCheck) >>)
    /\ UNCHANGED <<watches, rows, queue, life, clock, past>>

CancelQueued(S) ==
    /\ jobs' = [j \in Ids |-> IF j \in S THEN [jobs[j] EXCEPT !.status = "canceled", !.ended = clock]
                              ELSE jobs[j]]
    /\ pending' = pending \ S
    /\ finished' = finished \cup S

\* Mutant of CanceledSteps: the check is not stamped.
CanceledStepsUnstamped(j) == << Do("row", j) >>

\* settleCanceled, and one job of releaseDropped.
CanceledSteps(j) == << Do("stampCanceled", j), Do("row", j) >>

QueuedChecks(w) == {j \in pending : jobs[j].watch = w}

\* ... then, under one hold, the watch in memory and its queued windows.
DropWatch(c) ==
    /\ At(c, "drop")
    /\ LET w == Arg(c).watch
       IN  IF watches[w].there
             THEN /\ watches' = [watches EXCEPT ![w] = NoWatch]
                  /\ CancelQueued(QueuedChecks(w))
                  /\ Proceed(c, InTurn(QueuedChecks(w), CanceledSteps))
             ELSE Proceed(c, << >>) /\ UNCHANGED <<watches, jobs, pending, finished>>
    /\ UNCHANGED <<store, running, cut, nextID, life, spent, past>>

-----------------------------------------------------------------------------
(* The operator's calls on a job *)

\* CancelLive: the windows live with it, each canceled under a hold of its own.
CancelLive(c, j) ==
    /\ CanCall(c, "cancel") /\ j \in pending \cup running
    /\ Begin(c, InTurn({k \in pending \cup running : jobs[k].root = jobs[j].root},
                       LAMBDA k : << Do("cancel", k) >>))
    /\ UNCHANGED <<watches, store, queue, life, clock, past>>

CancelKeepingRow(c) ==
    /\ At(c, "cancel")
    /\ LET j == Arg(c).job
       IN  \/ /\ j \in running
              /\ cut' = cut \cup {j}
              /\ Proceed(c, << >>)
              /\ UNCHANGED <<jobs, pending, finished, earned>>
           \/ /\ j \in pending
              /\ CancelQueued({j})
              /\ earned' = earned \cup {j}
              /\ Proceed(c, CanceledSteps(j))
              /\ UNCHANGED cut
           \/ /\ j \notin pending \cup running
              /\ Proceed(c, << >>)
              /\ UNCHANGED <<jobs, pending, finished, cut, earned>>
    /\ UNCHANGED <<watches, store, running, nextID, life, spent, added, retried, since>>

\* Clear.
Clear(c) ==
    /\ CanCall(c, "clear") /\ finished # {}
    /\ finished' = {}
    /\ Begin(c, << Delete(finished) >>)
    /\ UNCHANGED <<watches, store, jobs, pending, running, cut, nextID, life, clock, past>>

\* Retry: reset zeroes the run.
Retry(c, j) ==
    /\ CanCall(c, "retry") /\ j \in finished
    /\ jobs' = [jobs EXCEPT ![j] = NewJob(@.watch, @.no, @.root)]
    /\ finished' = finished \ {j} /\ pending' = pending \cup {j}
    /\ retried' = retried \cup {j}
    /\ Begin(c, << Do("row", j) >>)
    /\ UNCHANGED <<watches, store, running, cut, nextID, life, clock, added, earned, since>>

-----------------------------------------------------------------------------
(* Workers *)

Take(v) ==
    /\ IsUp /\ ~closed /\ Idle(v)
    /\ \E j \in pending :
         /\ pending' = pending \ {j} /\ running' = running \cup {j}
         /\ Begin(v, << Do("start", j) >>)
    /\ UNCHANGED <<watches, store, jobs, finished, cut, nextID, life, spent, past>>

\* runJob: the row, then the stamp, then Process.
StartedSteps(j) == << Do("row", j), Do("stamp", j), Do("run", j) >>

Start(v) ==
    /\ At(v, "start")
    /\ LET j == Arg(v).job
       IN  /\ jobs' = [jobs EXCEPT ![j].status = "running", ![j].started = clock]
           /\ earned' = earned \cup {j}
           /\ Proceed(v, StartedSteps(j))
    /\ UNCHANGED <<watches, store, pending, running, finished, cut, nextID, life, spent,
                   added, retried, since>>

\* Process returns and the run settles.
Run(v) ==
    /\ At(v, "run")
    /\ LET j == Arg(v).job
           Settles(status, result) ==
             jobs' = [jobs EXCEPT ![j].status = status, ![j].result = result, ![j].ended = clock]
       IN  /\ \/ /\ j \notin cut
                 /\ \E o \in Outcomes : Settles(IF o = "failed" THEN "failed" ELSE "succeeded", o)
              \/ /\ j \in cut
                 /\ Settles(IF closed THEN "interrupted" ELSE "canceled", "none")
           /\ Proceed(v, << Do("finish", j) >>)
    /\ UNCHANGED <<watches, store, pending, running, finished, cut, nextID, life, spent, past>>

\* settleWatchCap: a check that reached a known post has caught up; then
\* quietWatchCheck: one that found nothing leaves no row.
SettleCap(j) == IF jobs[j].result = "caught" THEN "news" ELSE jobs[j].result
IsQuiet(j)   == IsCheck(j) /\ jobs[j].status = "succeeded" /\ jobs[j].result = "quiet"

Finish(v) ==
    /\ At(v, "finish")
    /\ LET j == Arg(v).job
       IN  /\ jobs' = [jobs EXCEPT ![j].result = SettleCap(j)]
           /\ running' = running \ {j} /\ cut' = cut \ {j}
           /\ finished' = IF IsQuiet(j) THEN finished ELSE finished \cup {j}
           /\ Proceed(v, << IF IsQuiet(j) THEN Delete({j}) ELSE Do("keptRow", j),
                            Do("record", j), Do("chain", j) >>)
    /\ UNCHANGED <<watches, store, pending, nextID, life, spent, past>>

\* autoContinue: a check's next window is still the check.
ChainsOn(j) == All /\ jobs[j].result = "full" /\ jobs[j].status = "succeeded" /\ ~closed /\ j \in Index

Chain(v) ==
    /\ At(v, "chain")
    /\ LET j == Arg(v).job
       IN  IF ChainsOn(j)
             THEN /\ Enqueue(NewJob(jobs[j].watch, jobs[j].no, jobs[j].root))
                  /\ earned' = earned \cup {nextID + 1}
                  /\ Proceed(v, << Do("row", nextID + 1) >>)
             ELSE UNCHANGED <<queue, earned>> /\ Proceed(v, << >>)
    /\ UNCHANGED <<watches, store, life, spent, added, retried, since>>

-----------------------------------------------------------------------------
(* The process *)

Tick ==
    /\ clock < MaxTime
    /\ clock' = clock + 1
    /\ UNCHANGED <<watches, store, queue, todo, life, called, past>>

\* UseStore: the watches and the jobs of the store; a running job comes back
\* interrupted.
Boot ==
    /\ phase = "down" /\ boots < MaxBoots
    /\ phase' = "up" /\ boots' = boots + 1 /\ since' = nextID
    /\ watches' = disk
    /\ LET ran == {j \in Ids : rows[j].status = "running"}
       IN  /\ jobs' = [j \in Ids |-> IF j \in ran
                 THEN [rows[j] EXCEPT !.status = "interrupted", !.ended = clock] ELSE rows[j]]
           /\ Begin(Main, InTurn(ran, LAMBDA j : << Do("row", j) >>))
    /\ pending' = {j \in Ids : rows[j].status = "queued"}
    /\ finished' = {j \in Ids : rows[j].status \notin {"none", "queued"}}
    /\ UNCHANGED <<store, running, cut, nextID, closed, spent, added, earned, retried>>

\* Mutant of UnstartedChecks: the checks settle like any other job.
UnstartedChecksNone == {}

\* dropWatchChecksLocked: the checks that have not stamped their watch.
UnstartedChecks ==
    {j \in pending : IsCheck(j) /\ ~(watches[jobs[j].watch].there /\ watches[jobs[j].watch].last.job = j)}

\* Stop: those are dropped without a trace, the rest settles canceled.
Stop ==
    /\ "stop" \in Calls /\ phase = "up" /\ Idle(Main)
    /\ phase' = "stopping" /\ closed' = TRUE
    /\ jobs' = [j \in Ids |-> IF j \in pending \ UnstartedChecks
                              THEN [jobs[j] EXCEPT !.status = "canceled", !.ended = clock] ELSE jobs[j]]
    /\ pending' = {}
    /\ finished' = finished \cup (pending \ UnstartedChecks)
    /\ Begin(Main, InTurn(pending \ UnstartedChecks, CanceledSteps) \o << Delete(UnstartedChecks) >>)
    /\ UNCHANGED <<watches, store, running, cut, nextID, boots, spent, past>>

Close ==
    /\ phase = "stopping" /\ Idle(Main)
    /\ phase' = "closing"
    /\ cut' = running
    /\ UNCHANGED <<watches, store, jobs, pending, running, finished, nextID, todo, closed, boots,
                   spent, past>>

\* All but the store is gone.
Vanish ==
    /\ phase' = "down" /\ closed' = FALSE
    /\ watches' = [w \in WatchIds |-> NoWatch]
    /\ jobs' = [j \in Ids |-> NoJob]
    /\ pending' = {} /\ running' = {} /\ finished' = {} /\ cut' = {}
    /\ todo' = [t \in Threads |-> << >>]
    /\ UNCHANGED <<store, nextID, boots, spent, past>>

\* The workers have returned.
Exit == phase = "closing" /\ (\A v \in Workers : Idle(v)) /\ Vanish

Crash == "crash" \in Calls /\ phase # "down" /\ Vanish

-----------------------------------------------------------------------------
\* The store of an operator who has added one watch, and who has stopped.
Init ==
    /\ watches = [w \in WatchIds |-> NoWatch]
    /\ disk = [watches EXCEPT ![1] = [NoWatch EXCEPT !.there = TRUE, !.no = 1, !.scheduled = TRUE]]
    /\ highWater = 0 /\ nextID = 0
    /\ jobs = [j \in Ids |-> NoJob] /\ rows = [j \in Ids |-> NoJob]
    /\ pending = {} /\ running = {} /\ finished = {} /\ cut = {}
    /\ todo = [t \in Threads |-> << >>]
    /\ closed = FALSE /\ phase = "down" /\ boots = 0 /\ clock = 0
    /\ added = 1 /\ earned = {} /\ retried = {} /\ since = 0 /\ called = 0

WorkerStep(v) == Take(v) \/ Start(v) \/ Run(v) \/ Finish(v) \/ RecordWatch(v) \/ ApplyRecord(v) \/ Chain(v)

Pursue(t) ==
    \/ SaveRow(t) \/ DeleteRows(t) \/ SaveWatchCheck(t) \/ StampWatch(t) \/ StampCanceledCheck(t)
    \/ AppendWatch(t) \/ ApplyInterval(t) \/ DropWatch(t) \/ CancelKeepingRow(t)

Call(c) ==
    \/ AddWatch(c) \/ Clear(c)
    \/ \E w \in WatchIds : CheckNow(c, w) \/ SetWatchInterval(c, w) \/ RemoveWatch(c, w)
    \/ \E j \in Ids : CancelLive(c, j) \/ Retry(c, j)

Next ==
    \/ \E c \in Callers : Call(c)
    \/ \E v \in Workers : WorkerStep(v)
    \/ \E t \in Threads : Pursue(t)
    \/ ListDue \/ CheckListed
    \/ Tick \/ Boot \/ Stop \/ Close \/ Exit \/ Crash

Spec == Init /\ [][Next]_vars

\* The goroutines run on: what is started is pursued, a worker takes a job and
\* the minute's tick comes.  Nothing obliges the operator, the clock or Stop.
FairSpec ==
    /\ Spec
    /\ \A t \in Threads : WF_vars(Pursue(t))
    /\ \A v \in Workers : WF_vars(WorkerStep(v))
    /\ WF_vars(ListDue) /\ WF_vars(CheckListed)

-----------------------------------------------------------------------------
(* Properties *)

Checks == [job : Ids \cup {0}, status : Settled \cup {"none", "running"}, at : -1 .. MaxTime,
           count : 0 .. MaxJobs]
WatchType == [there : BOOLEAN, no : 0 .. MaxWatches, scheduled : BOOLEAN, last : Checks]
JobType == [watch : 0 .. MaxWatches, no : 0 .. MaxWatches, root : 0 .. MaxJobs,
            status : Settled \cup {"none", "queued", "running"}, started : -1 .. MaxTime,
            ended : -1 .. MaxTime, result : Outcomes \cup {"none", "news"}]

\* Every variable keeps its type; a job is in at most one of the three places.
TypeOK ==
    /\ watches \in [WatchIds -> WatchType] /\ disk \in [WatchIds -> WatchType]
    /\ highWater \in 0 .. MaxWatches /\ nextID \in 0 .. MaxJobs
    /\ jobs \in [Ids -> JobType] /\ rows \in [Ids -> JobType]
    /\ Index \subseteq 1 .. nextID /\ cut \subseteq running
    /\ pending \cap running = {} /\ pending \cap finished = {} /\ running \cap finished = {}
    /\ phase \in {"down", "up", "stopping", "closing"} /\ closed \in BOOLEAN
    /\ boots \in 0 .. MaxBoots /\ clock \in 0 .. MaxTime /\ added \in 0 .. MaxWatches
    /\ earned \subseteq Ids /\ retried \subseteq Ids /\ since \in 0 .. nextID
    /\ called \in 0 .. MaxCalls

LiveChecks(w) == {j \in pending \cup running : jobs[j].watch = w /\ IsCheck(j)}

\* The operator and the schedule between them queue no check of a watch beside
\* another, queued or running, reloaded ones included (CheckWatch,
\* ErrWatchLive); only a retry adds one.
OneCheckAtATime ==
    \A w \in WatchIds : \A j \in LiveChecks(w) \ retried :
        j > since => LiveChecks(w) \ retried = {j}

\* What a watch remembers, in memory and on disk, is a check that started or
\* that the operator canceled: a check that a shutdown or a crash keeps from
\* starting leaves its watch due (stampWatch, stampCanceledCheck, Stop).
StampsAreEarned ==
    \A w \in WatchIds : {watches[w].last.job, disk[w].last.job} \subseteq earned \cup {0}

\* A job is never taken for a check of another watch: an id is not issued again
\* while a job of its first holder is left, across removals and restarts
\* (InsertWatch).
IdsStand ==
    \A j \in Index, w \in WatchIds :
        jobs[j].watch = w /\ watches[w].there => jobs[j].no = watches[w].no

AtRest == phase = "up" /\ \A t \in Threads : Idle(t)

\* When all is quiet, a watch one of whose checks is over remembers a check: one
\* that ran, or that the operator canceled before it could (stampWatch,
\* stampCanceledCheck).  Otherwise the next tick would queue it again.
ChecksAreCounted ==
    AtRest => \A j \in finished \ retried :
        IsCheck(j) /\ j > since /\ watches[jobs[j].watch].there => watches[jobs[j].watch].last.job # 0

\* With one worker, when all is quiet the watch hides no failure of its last
\* check and counts every window that ran (checkOfSeries, recordWatch).
ResultIsWhole ==
    AtRest /\ Cardinality(Workers) = 1 =>
        \A w \in {x \in WatchIds : watches[x].last.job > since} :
            LET ran == {j \in finished : /\ jobs[j].watch = w /\ jobs[j].root = watches[w].last.job
                                         /\ jobs[j].started # Never /\ jobs[j].status \in Settled}
            IN  /\ \A j \in ran : jobs[j].status # "succeeded" => watches[w].last.status # "succeeded"
                /\ jobs[watches[w].last.job].started # Never => Cardinality(ran) <= watches[w].last.count

\* What a watch remembers of its checks is so: none it did not make, none left
\* out, no failure hidden, and none of another watch's.
MemoryIsTrue == StampsAreEarned /\ ChecksAreCounted /\ ResultIsWhole /\ IdsStand

\* A due watch does not stay due: it is checked, or removed, set to manual, or
\* the process goes down (queueDueWatches).  Up to the bound on jobs.
DueIsChecked ==
    \A w \in WatchIds : Due(w) ~> (~Due(w) \/ phase # "up" \/ nextID = MaxJobs)

\* A shutdown leaves a due watch due: dropping what still waits does not count as
\* the check (stampCanceledCheck).
StopLeavesDue ==
    [][\A w \in WatchIds :
         phase = "stopping" /\ todo[Main] # todo'[Main] /\ Due(w) => Due(w)']_vars

\* A check the operator retried settles at a shutdown like any other job
\* (dropWatchChecksLocked).
RetriedSettle ==
    [][phase = "up" /\ phase' = "stopping" => pending \cap retried \subseteq finished']_vars

\* No window waits for a watch that was removed (RemoveWatch).
RemovedWindowsLeave ==
    \A j \in pending \ retried : jobs[j].watch # 0 /\ j > since => watches[jobs[j].watch].there

\* A watch's result is of its check, not of one of its windows, so that the
\* next windows are recorded too (recordWatch).
ResultIsOfCheck ==
    \A w \in WatchIds : watches[w].last.job # 0 =>
        jobs[watches[w].last.job].status = "none" \/ IsCheck(watches[w].last.job)

=============================================================================
