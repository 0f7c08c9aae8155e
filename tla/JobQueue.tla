------------------------------- MODULE JobQueue -------------------------------
(***************************************************************************)
(* The job queue of src/internal/queue: the FIFO, the workers, the history *)
(* ring and the SQLite rows that mirror them, with every operation of the  *)
(* HTTP handlers, the shutdown sequence of cmd/monloader and the reload at *)
(* boot.                                                                   *)
(*                                                                         *)
(* Granularity.  One step is what the code does under one hold of Queue.mu *)
(* or of a Job's mu, or one statement sent to the database.  What an       *)
(* operation still has to do once it has released Queue.mu is the todo     *)
(* list of its goroutine: the code says "persist after unlocking", and     *)
(* everything interesting happens between the unlock and the last item of  *)
(* that list.                                                              *)
(*                                                                         *)
(* A FIFO or a ring is the set of its members with the order they were     *)
(* pushed in (order holds <<a, b>> when a was pushed before b).            *)
(*                                                                         *)
(* The jobs here are windows of no series and checks of no watch: the      *)
(* calls that only concern those (stampWatch, recordWatch, autoContinue,   *)
(* reconcileSeries, dropWatchChecksLocked) return at their first test, and *)
(* are the subject of Series.tla and Watches.tla.                          *)
(***************************************************************************)
EXTENDS Integers, FiniteSets, Sequences

CONSTANTS
    Workers,      \* the goroutines of Start
    Callers,      \* request goroutines, one operation in flight each
    Main,         \* the main goroutine: boot, Stop, Close
    Free,         \* nobody holds rowWrite
    Calls,        \* what happens in this instance: operations, "stop", "crash"
    Lanes,        \* the lanes of the jobs submitted: 0 priority, 1, 2 background
    Outcomes,     \* what Finalize or Fail may settle a run as
    MaxFinished,  \* size of the history ring
    MaxJobs,      \* bound: ids ever issued
    MaxRuns,      \* bound: runs of one job, the first and its retries
    MaxBoots      \* bound: starts of the process

Threads == Workers \cup Callers \cup {Main}
Ids     == 1 .. MaxJobs

Settled  == {"succeeded", "partial", "failed", "canceled", "interrupted"}
Statuses == {"none", "queued", "running"} \cup Settled

ASSUME ThreadsAssumption ==
    /\ IsFiniteSet(Workers)
    /\ Workers \cap Callers = {}
    /\ Main \notin Workers \cup Callers
    /\ Free \notin Threads
ASSUME BoundsAssumption ==
    /\ MaxFinished \in Nat \ {0}
    /\ MaxJobs \in Nat /\ MaxRuns \in Nat \ {0} /\ MaxBoots \in Nat
    /\ Lanes \subseteq 0 .. 2
    /\ Outcomes \subseteq {"succeeded", "partial", "failed"}

VARIABLES
    pending,    \* waiting jobs
    finished,   \* the history ring
    order,      \* push order within pending (per lane) and within finished
    index,      \* every job the queue knows
    running,    \* jobs a worker holds
    ctx,        \* their contexts: live, or who canceled them
    held,       \* the job of each worker, 0 when it has none
    nextID, closed, paused,
    jobs,       \* the Job objects
    todo,       \* what each goroutine still has to do, outside Queue.mu
    rowWrite,   \* holder of Queue.rowWrite
    asleep,     \* workers in cond.Wait
    exited,     \* workers that returned
    rows,       \* table jobs
    highWater,  \* counter job_id_high_water
    phase,      \* of the process
    boots,      \* starts so far
    told        \* history: the ids a caller was answered with

lists   == <<pending, finished, order, index>>
crew    == <<running, ctx, held, asleep, exited>>
control == <<nextID, closed, paused>>
store   == <<rows, highWater>>
life    == <<phase, boots, told>>
vars    == <<lists, crew, control, jobs, todo, rowWrite, store, life>>

-----------------------------------------------------------------------------
(* Jobs and rows *)

NoRow == [status |-> "none", seq |-> 0, lane |-> 0, filed |-> FALSE]

\* No Job object: an id not issued in this life of the process.  run counts
\* the done channels the job has had, shut the ones closed; ran says that
\* Process has begun in the current run; filed is KindPTRLookup.
NoJob == [status |-> "none", seq |-> 0, lane |-> 0, filed |-> FALSE,
          run |-> 1, shut |-> {}, ran |-> FALSE]

newJob(lane) == [NoJob EXCEPT !.status = "queued", !.lane = lane]

IsSettled(j) == jobs[j].status \in Settled

\* Mutant of settle: the last verdict wins.
settleOver(j, status) == [jobs[j] EXCEPT !.status = status]

\* settle: a job already settled keeps the status it has.
settle(j, status) ==
    IF IsSettled(j) THEN jobs[j] ELSE [jobs[j] EXCEPT !.status = status]

signalDone(j) == [jobs[j] EXCEPT !.shut = @ \cup {jobs[j].run}]

\* reset: a new run on a new done channel.
reset(j) == [jobs[j] EXCEPT !.status = "queued", !.run = @ + 1, !.ran = FALSE]

CanReset(j) == IsSettled(j) /\ ~jobs[j].filed

\* The channel a Wait parked in run r of job j selects on.
DoneClosed(j, r) == r \in jobs[j].shut

-----------------------------------------------------------------------------
(* The FIFO and the ring *)

Touching(S) == {p \in order : p[1] \in S \/ p[2] \in S}

Before(a, b) == \/ jobs[a].lane < jobs[b].lane
                \/ jobs[a].lane = jobs[b].lane /\ <<a, b>> \in order

IsHead(j) == j \in pending /\ \A k \in pending \ {j} : Before(j, k)

\* pushPendingLocked: behind every job of the same lane.
AfterPushPending(j, lane) ==
    (order \ Touching({j})) \cup
        {<<k, j>> : k \in {p \in pending : jobs[p].lane = lane}}

\* pushFinishedLocked for the jobs S, pushed in the order the FIFO has them.
AfterPushFinished(S) ==
    (order \ Touching(S)) \cup (finished \X S)
        \cup {p \in S \X S : p[1] # p[2] /\ Before(p[1], p[2])}

\* Mutant of Evicted: one job too many stays.
EvictedLate(members, pushed) ==
    {k \in members :
        Cardinality({m \in members : <<k, m>> \in pushed}) > MaxFinished}

\* The ring keeps the newest MaxFinished of its members.
Evicted(members, pushed) ==
    {k \in members :
        Cardinality({m \in members : <<k, m>> \in pushed}) >= MaxFinished}

\* The jobs the pushes of S evict, S's own oldest among them when it is long.
EvictedBy(S) == Evicted(finished \cup S, AfterPushFinished(S))

\* Mutant of PushFinished: an evicted job stays indexed.
PushFinishedIndexed(S, known) ==
    /\ finished' = (finished \cup S) \ EvictedBy(S)
    /\ order' = {p \in AfterPushFinished(S) :
                    p[1] \notin EvictedBy(S) /\ p[2] \notin EvictedBy(S)}
    /\ index' = known

\* known: the index before the eviction.
PushFinished(S, known) ==
    /\ finished' = (finished \cup S) \ EvictedBy(S)
    /\ order' = {p \in AfterPushFinished(S) :
                    p[1] \notin EvictedBy(S) /\ p[2] \notin EvictedBy(S)}
    /\ index' = known \ EvictedBy(S)

IsLive(j) == j \in running \/ j \in pending

-----------------------------------------------------------------------------
(* Todo lists *)

Step == [do   : {"save", "write", "high", "keep", "unlock", "delete",
                 "signal", "release", "drop", "report", "cancelKeeping",
                 "cancel", "answer", "wait", "await", "saveEach",
                 "start", "process", "settle", "finish"},
         job  : 0 .. MaxJobs,
         jobs : SUBSET Ids,
         row  : [status : Statuses, seq : Nat, lane : 0 .. 2, filed : BOOLEAN],
         live : BOOLEAN]

Do(what, j) == [do |-> what, job |-> j, jobs |-> {}, row |-> NoRow, live |-> FALSE]

\* A loop over S; no step at all when there is nothing to loop over.
ForEach(what, S) == IF S = {} THEN << >> ELSE << [Do(what, 0) EXCEPT !.jobs = S] >>

Idle(t)   == todo[t] = << >>
At(t, what) == ~Idle(t) /\ Head(todo[t]).do = what
Arg(t)    == Head(todo[t])

Begin(t, steps)   == todo' = [todo EXCEPT ![t] = steps]
Proceed(t, steps) == todo' = [todo EXCEPT ![t] = steps \o Tail(@)]

IsUp == phase \in {"up", "stopping", "closing"}

\* cond.Broadcast.
Broadcast == asleep' = {}

-----------------------------------------------------------------------------
(* The store: persist, persistKept, persistDelete *)

\* persist: the snapshot, taken under the job's own mutex.
Save(t) ==
    /\ At(t, "save")
    /\ LET j   == Arg(t).job
           row == [status |-> jobs[j].status, seq |-> jobs[j].seq + 1,
                   lane |-> jobs[j].lane, filed |-> jobs[j].filed]
       IN  /\ jobs' = [jobs EXCEPT ![j].seq = @ + 1]
           /\ Proceed(t, << [Do("write", j) EXCEPT !.row = row], Do("high", j) >>)
    /\ UNCHANGED <<lists, crew, control, rowWrite, store, life>>

\* Mutant of Accepts: the last write wins.
AcceptsAny(old, new) == TRUE

\* The upsert refuses a snapshot older than the one in the row.
Accepts(old, new) == old.status = "none" \/ new.seq >= old.seq

\* SaveJob: the upsert.
Write(t) ==
    /\ At(t, "write")
    /\ LET j == Arg(t).job
       IN  rows' = [rows EXCEPT ![j] = IF Accepts(@, Arg(t).row) THEN Arg(t).row ELSE @]
    /\ Proceed(t, << >>)
    /\ UNCHANGED <<lists, crew, control, jobs, rowWrite, highWater, life>>

\* SaveJob: the second statement, which raises the high-water mark.
High(t) ==
    /\ At(t, "high")
    /\ highWater' = IF Arg(t).job > highWater THEN Arg(t).job ELSE highWater
    /\ Proceed(t, << >>)
    /\ UNCHANGED <<lists, crew, control, jobs, rowWrite, rows, life>>

\* Mutant of KeptSteps: an unlock is forgotten.
KeptStepsLocked(j) == << Do("save", j) >>

\* What persistKept does once it holds rowWrite and has found the job indexed.
KeptSteps(j) == << Do("save", j), Do("unlock", j) >>

\* persistKept: takes rowWrite, and leaves a job the queue has dropped alone.
Keep(t) ==
    /\ At(t, "keep")
    /\ rowWrite = Free
    /\ IF Arg(t).job \in index
         THEN rowWrite' = t /\ Proceed(t, KeptSteps(Arg(t).job))
         ELSE rowWrite' = Free /\ Proceed(t, << >>)
    /\ UNCHANGED <<lists, crew, control, jobs, store, life>>

Unlock(t) ==
    /\ At(t, "unlock")
    /\ rowWrite' = Free
    /\ Proceed(t, << >>)
    /\ UNCHANGED <<lists, crew, control, jobs, store, life>>

\* persistDelete: one statement under rowWrite.
Delete(t) ==
    /\ At(t, "delete")
    /\ rowWrite = Free
    /\ rows' = [j \in Ids |-> IF j \in Arg(t).jobs THEN NoRow ELSE rows[j]]
    /\ Proceed(t, << >>)
    /\ UNCHANGED <<lists, crew, control, jobs, rowWrite, highWater, life>>

-----------------------------------------------------------------------------
(* Steps of a Job outside Queue.mu *)

Signal(t) ==
    /\ At(t, "signal")
    /\ jobs' = [jobs EXCEPT ![Arg(t).job] = signalDone(Arg(t).job)]
    /\ Proceed(t, << >>)
    /\ UNCHANGED <<lists, crew, control, rowWrite, store, life>>

\* settleDropped: cancel and signalDone of a job no longer indexed, which only
\* its waiters can still see.
Drop(t) ==
    /\ At(t, "drop")
    /\ LET j == Arg(t).job
       IN  jobs' = [jobs EXCEPT ![j] = [settle(j, "canceled") EXCEPT !.shut = @ \cup {jobs[j].run}]]
    /\ Proceed(t, << >>)
    /\ UNCHANGED <<lists, crew, control, rowWrite, store, life>>

\* releaseDropped: one job of the batch; the batch is taken in any order.
Release(t) ==
    /\ At(t, "release")
    /\ \E j \in Arg(t).jobs :
         Proceed(t, << Do("signal", j), Do("save", j) >>
                        \o ForEach("release", Arg(t).jobs \ {j}))
    /\ UNCHANGED <<lists, crew, control, jobs, rowWrite, store, life>>

\* reportDropped: monbooru is told the jobs were canceled.
Report(t) ==
    /\ At(t, "report")
    /\ Proceed(t, << >>)
    /\ UNCHANGED <<lists, crew, control, jobs, rowWrite, store, life>>

-----------------------------------------------------------------------------
(* Workers: nextJob, runJob, finish *)

\* nextJob waits: nothing to run, or the queue is paused.
Sleep(w) ==
    /\ IsUp /\ Idle(w) /\ w \notin asleep \cup exited
    /\ pending = {} \/ paused
    /\ ~closed
    /\ asleep' = asleep \cup {w}
    /\ UNCHANGED <<lists, running, ctx, held, exited, control, jobs, todo, rowWrite, store, life>>

\* A step of runJob, about the job the worker holds.
Own(what) == Do(what, 0)

\* nextJob hands out the head of the FIFO.
Take(w) ==
    /\ IsUp /\ Idle(w) /\ w \notin asleep \cup exited
    /\ ~closed /\ ~paused
    /\ \E j \in pending :
         /\ IsHead(j)
         /\ pending' = pending \ {j}
         /\ order' = order \ Touching({j})
         /\ running' = running \cup {j}
         /\ ctx' = [ctx EXCEPT ![j] = "live"]
         /\ held' = [held EXCEPT ![w] = j]
         /\ Begin(w, << Own("start") >>)
    /\ UNCHANGED <<finished, index, asleep, exited, control, jobs, rowWrite, store, life>>

\* nextJob returns false once the queue is closed, and the worker with it.
Leave(w) ==
    /\ IsUp /\ Idle(w) /\ w \notin asleep \cup exited
    /\ closed
    /\ exited' = exited \cup {w}
    /\ UNCHANGED <<lists, running, ctx, held, asleep, control, jobs, todo, rowWrite, store, life>>

\* Mutant of StartedSteps: the row is written after the run.
StartedStepsUnsaved(j) == << Own("process"), Do("save", j) >>

\* What runJob does with a started job: the row says running before Process
\* is called.
StartedSteps(j) == << Do("save", j), Own("process") >>

\* Job.start; a job that is not queued is settled and never run.
Start(w) ==
    /\ At(w, "start")
    /\ LET j == held[w]
       IN  IF jobs[j].status = "queued"
             THEN /\ jobs' = [jobs EXCEPT ![j].status = "running"]
                  /\ Proceed(w, StartedSteps(j))
             ELSE /\ jobs' = [jobs EXCEPT ![j] = settle(j, "canceled")]
                  /\ Proceed(w, << Own("finish") >>)
    /\ UNCHANGED <<lists, crew, control, rowWrite, store, life>>

\* Process is called, and has effects outside from here on.
Process(w) ==
    /\ At(w, "process")
    /\ ~jobs[held[w]].ran
    /\ jobs' = [jobs EXCEPT ![held[w]].ran = TRUE]
    /\ UNCHANGED <<lists, crew, control, todo, rowWrite, store, life>>

\* abortJob: the processor settles the job itself, still on the worker.
Abort(w) ==
    /\ At(w, "process")
    /\ jobs[held[w]].ran /\ ~IsSettled(held[w])
    /\ jobs' = [jobs EXCEPT ![held[w]] = settle(held[w], "failed")]
    /\ UNCHANGED <<lists, crew, control, todo, rowWrite, store, life>>

\* Process returns.  The first case of the switch: a context canceled while
\* the queue is closed settles the run as interrupted.
Return(w) ==
    /\ At(w, "process")
    /\ LET j == held[w]
       IN  /\ jobs[j].ran
           /\ IF ctx[j] # "live" /\ closed
                THEN /\ jobs' = [jobs EXCEPT ![j] = settle(j, "interrupted")]
                     /\ Proceed(w, << Own("finish") >>)
                ELSE /\ jobs' = jobs
                     /\ Proceed(w, << Own("settle") >>)
    /\ UNCHANGED <<lists, crew, control, rowWrite, store, life>>

\* The other cases read the context again: canceled, failed or finalized.
Settle(w) ==
    /\ At(w, "settle")
    /\ LET j == held[w]
       IN  \E s \in IF ctx[j] # "live" THEN {"canceled"} ELSE Outcomes :
             jobs' = [jobs EXCEPT ![j] = settle(j, s)]
    /\ Proceed(w, << Own("finish") >>)
    /\ UNCHANGED <<lists, crew, control, rowWrite, store, life>>

\* Mutant of FinishSteps: persist in the place of persistKept.
FinishStepsUnkept(j, evicted) ==
    << Do("save", j) >> \o ForEach("delete", evicted) \o << Do("signal", j) >>

\* What finish does after its unlock.
FinishSteps(j, evicted) ==
    << Do("keep", j) >> \o ForEach("delete", evicted) \o << Do("signal", j) >>

Finish(w) ==
    /\ At(w, "finish")
    /\ LET j == held[w]
       IN  /\ running' = running \ {j}
           /\ ctx' = [ctx EXCEPT ![j] = "none"]
           /\ held' = [held EXCEPT ![w] = 0]
           /\ PushFinished({j}, index)
           /\ Proceed(w, FinishSteps(j, EvictedBy({j})))
    /\ UNCHANGED <<pending, asleep, exited, control, jobs, rowWrite, store, life>>

WorkerStep(w) == Sleep(w) \/ Take(w) \/ Leave(w) \/ Start(w) \/ Process(w)
                    \/ Abort(w) \/ Return(w) \/ Settle(w) \/ Finish(w)

-----------------------------------------------------------------------------
(* Operations of the request goroutines *)

CanCall(c, what) == IsUp /\ Idle(c) /\ what \in Calls

NewId == nextID + 1

\* enqueueLocked and what follows it; a submission with ?wait takes the
\* priority lane and then waits for its job.
Enqueue(c, lane, wait) ==
    /\ CanCall(c, "enqueue")
    /\ wait => lane = 0
    /\ NewId \in Ids
    /\ nextID' = NewId
    /\ jobs' = [jobs EXCEPT ![NewId] = newJob(lane)]
    /\ index' = index \cup {NewId}
    /\ order' = AfterPushPending(NewId, lane)
    /\ pending' = pending \cup {NewId}
    /\ Broadcast
    /\ Begin(c, << Do("save", NewId), Do(IF wait THEN "wait" ELSE "answer", NewId) >>)
    /\ UNCHANGED <<finished, running, ctx, held, exited, closed, paused, rowWrite, store, life>>

\* The handler answers with the id.
Answer(c) ==
    /\ At(c, "answer")
    /\ told' = told \cup {Arg(c).job}
    /\ Proceed(c, << >>)
    /\ UNCHANGED <<lists, crew, control, jobs, rowWrite, store, phase, boots>>

\* Wait: finds the job and the channel of its present run.  (The run is kept
\* in the seq field of the step.)
Wait(c) ==
    /\ At(c, "wait")
    /\ LET j == Arg(c).job
       IN  Proceed(c, IF j \in index
                        THEN << [Do("await", j) EXCEPT !.row.seq = jobs[j].run],
                                Do("answer", j) >>
                        ELSE << Do("answer", j) >>)
    /\ UNCHANGED <<lists, crew, control, jobs, rowWrite, store, life>>

\* The channel is closed.
Awake(c) ==
    /\ At(c, "await")
    /\ DoneClosed(Arg(c).job, Arg(c).row.seq)
    /\ Proceed(c, << >>)
    /\ UNCHANGED <<lists, crew, control, jobs, rowWrite, store, life>>

\* The request's context expires first.
Expire(c) ==
    /\ At(c, "await")
    /\ Proceed(c, << >>)
    /\ UNCHANGED <<lists, crew, control, jobs, rowWrite, store, life>>

\* RecordPTRLookup: folded into the latest row of the day, or a new row that is
\* finished from the start.  The folds of one row are bounded by MaxRuns.
RecordLookup(c) ==
    /\ CanCall(c, "record")
    /\ \/ /\ \E j \in finished : /\ jobs[j].filed /\ jobs[j].seq <= MaxRuns
                                 /\ Begin(c, << Do("keep", j) >>)
          /\ UNCHANGED <<lists, control, jobs>>
       \/ /\ NewId \in Ids
          /\ nextID' = NewId
          /\ jobs' = [jobs EXCEPT ![NewId] =
                        [newJob(2) EXCEPT !.filed = TRUE, !.status = "succeeded", !.shut = {1}]]
          /\ PushFinished({NewId}, index \cup {NewId})
          /\ Begin(c, << Do("keep", NewId) >> \o ForEach("delete", EvictedBy({NewId})))
          /\ UNCHANGED <<pending, closed, paused>>
    /\ UNCHANGED <<crew, rowWrite, store, life>>

\* Mutant of MayRetry: a settled job still on its worker may be retried.
MayRetryRunning(j) == j \in index /\ CanReset(j) /\ jobs[j].run < MaxRuns

MayRetry(j) == j \in index /\ j \notin running /\ CanReset(j) /\ jobs[j].run < MaxRuns

Retry(c, j) ==
    /\ CanCall(c, "retry")
    /\ MayRetry(j)
    /\ jobs' = [jobs EXCEPT ![j] = reset(j)]
    /\ finished' = finished \ {j}
    /\ order' = AfterPushPending(j, jobs[j].lane)
    /\ pending' = pending \cup {j}
    /\ Broadcast
    /\ Begin(c, << Do("save", j) >>)
    /\ UNCHANGED <<index, running, ctx, held, exited, control, rowWrite, store, life>>

\* CancelLive: a job found live; it is looked at again under the next hold.
CancelLive(c, j) ==
    /\ CanCall(c, "cancelLive")
    /\ j \in index /\ IsLive(j)
    /\ Begin(c, << Do("cancelKeeping", j) >>)
    /\ UNCHANGED <<lists, crew, control, jobs, rowWrite, store, life>>

\* Mutant of CanceledSteps: the done channel is left open.
CanceledStepsSilent(j, evicted) ==
    << [Do("report", 0) EXCEPT !.jobs = {j}], Do("save", j) >> \o ForEach("delete", evicted)

\* What settleCanceled does.
CanceledSteps(j, evicted) ==
    << Do("signal", j), [Do("report", 0) EXCEPT !.jobs = {j}], Do("save", j) >>
        \o ForEach("delete", evicted)

\* A context keeps the cause that canceled it first.
CutBy(j, who) == IF ctx[j] = "live" THEN who ELSE ctx[j]

CancelKeepingRow(c) ==
    /\ At(c, "cancelKeeping")
    /\ LET j == Arg(c).job
       IN  \/ /\ j \in index /\ j \in running
              /\ ctx' = [ctx EXCEPT ![j] = CutBy(j, "operator")]
              /\ Proceed(c, << >>)
              /\ UNCHANGED <<lists, jobs>>
           \/ /\ j \in index /\ j \in pending
              /\ pending' = pending \ {j}
              /\ jobs' = [jobs EXCEPT ![j] = settle(j, "canceled")]
              /\ PushFinished({j}, index)
              /\ Proceed(c, CanceledSteps(j, EvictedBy({j})))
              /\ UNCHANGED ctx
           \/ /\ j \notin index \/ ~IsLive(j)
              /\ Proceed(c, << >>)
              /\ UNCHANGED <<lists, ctx, jobs>>
    /\ UNCHANGED <<running, held, asleep, exited, control, rowWrite, store, life>>

\* CancelSeries: whether the job was live is read under one hold and decides,
\* under the next, whether a job no longer live may be removed.
CancelSeries(c, j) ==
    /\ CanCall(c, "cancel")
    /\ j \in index
    /\ Begin(c, << [Do("cancel", j) EXCEPT !.live = IsLive(j)] >>)
    /\ UNCHANGED <<lists, crew, control, jobs, rowWrite, store, life>>

\* What cancel does once the job has left the queue: only a job still waiting
\* is reported.
RemovedSteps(j) ==
    << Do("drop", j) >>
        \o ForEach("report", IF jobs[j].status = "queued" THEN {j} ELSE {})
        \o ForEach("delete", {j})

\* cancel returns early: the job is gone, or was live and has finished since.
NothingToCancel(j, liveOnly) == j \notin index \/ (liveOnly /\ ~IsLive(j))

Cancel(c) ==
    /\ At(c, "cancel")
    /\ LET j == Arg(c).job
       IN  \/ /\ NothingToCancel(j, Arg(c).live)
              /\ Proceed(c, << >>)
              /\ UNCHANGED <<lists, ctx>>
           \/ /\ ~NothingToCancel(j, Arg(c).live) /\ j \in running
              /\ ctx' = [ctx EXCEPT ![j] = CutBy(j, "operator")]
              /\ Proceed(c, << >>)
              /\ UNCHANGED lists
           \/ /\ ~NothingToCancel(j, Arg(c).live) /\ j \notin running
              /\ pending' = pending \ {j}
              /\ finished' = finished \ {j}
              /\ order' = order \ Touching({j})
              /\ index' = index \ {j}
              /\ Proceed(c, RemovedSteps(j))
              /\ UNCHANGED ctx
    /\ UNCHANGED <<running, held, asleep, exited, control, jobs, rowWrite, store, life>>

\* dropPendingLocked and, as steps, releaseDropped.
DropPending(t) ==
    /\ pending' = {}
    /\ jobs' = [j \in Ids |-> IF j \in pending THEN settle(j, "canceled") ELSE jobs[j]]
    /\ PushFinished(pending, index)
    /\ Begin(t, ForEach("release", pending) \o ForEach("report", pending)
                    \o ForEach("delete", EvictedBy(pending)))

CancelPending(c) ==
    /\ CanCall(c, "cancelPending")
    /\ pending # {}
    /\ DropPending(c)
    /\ UNCHANGED <<crew, control, rowWrite, store, life>>

\* Clear, ClearSucceeded and the sweep in List all drop a part S of the ring.
DropFinished(c, S) ==
    /\ S # {}
    /\ finished' = finished \ S
    /\ order' = order \ Touching(S)
    /\ index' = index \ S
    /\ Begin(c, ForEach("delete", S))
    /\ UNCHANGED <<pending, crew, control, jobs, rowWrite, store, life>>

Clear(c) == CanCall(c, "clear") /\ DropFinished(c, finished)

\* clearableLocked for jobs that are each their own series.
Clearable == {j \in finished : jobs[j].status = "succeeded"}

ClearSucceeded(c) == CanCall(c, "clearSucceeded") /\ DropFinished(c, Clearable)

\* sweepFinishedLocked: the jobs past the retention, whichever they are.
Sweep(c) == CanCall(c, "sweep") /\ \E S \in SUBSET finished : DropFinished(c, S)

Pause(c) ==
    /\ CanCall(c, "pause") /\ ~paused
    /\ paused' = TRUE
    /\ UNCHANGED <<lists, crew, nextID, closed, jobs, todo, rowWrite, store, life>>

\* Mutant of Resume: nobody is woken.
ResumeSilently(c) ==
    /\ CanCall(c, "pause") /\ paused
    /\ paused' = FALSE
    /\ UNCHANGED <<lists, crew, nextID, closed, jobs, todo, rowWrite, store, life>>

Resume(c) ==
    /\ CanCall(c, "pause") /\ paused
    /\ paused' = FALSE
    /\ Broadcast
    /\ UNCHANGED <<lists, running, ctx, held, exited, nextID, closed, jobs, todo, rowWrite, store, life>>

CallerStep(c) ==
    \/ \E lane \in Lanes, wait \in BOOLEAN : Enqueue(c, lane, wait)
    \/ \E j \in Ids : Retry(c, j) \/ CancelLive(c, j) \/ CancelSeries(c, j)
    \/ RecordLookup(c) \/ CancelPending(c)
    \/ Clear(c) \/ ClearSucceeded(c) \/ Sweep(c) \/ Pause(c) \/ Resume(c)

\* What an operation in flight still has to do.
Pursue(t) ==
    \/ Save(t) \/ Write(t) \/ High(t) \/ Keep(t) \/ Unlock(t) \/ Delete(t)
    \/ Signal(t) \/ Drop(t) \/ Release(t) \/ Report(t)
    \/ Answer(t) \/ Wait(t) \/ Awake(t)
    \/ CancelKeepingRow(t) \/ Cancel(t)

-----------------------------------------------------------------------------
(* The process: boot, shutdown, crash *)

\* Mutant of LastIssued: past the ids of the rows that survive.
LastIssuedByRows(loaded) == CHOOSE n \in loaded \cup {0} : \A m \in loaded \cup {0} : m <= n

\* Past every id ever issued, not only the rows that survive.
LastIssued(loaded) == CHOOSE n \in loaded \cup {highWater} : \A m \in loaded \cup {highWater} : m <= n

\* What UseStore does after its unlock.
BootSteps(gone, crashed) == ForEach("delete", gone) \o ForEach("saveEach", crashed)

\* UseStore, on an empty queue.  Jobs come back in id order; a running row
\* comes back interrupted.  The rows are written back before Start.
Boot ==
    /\ phase = "down" /\ boots < MaxBoots
    /\ LET loaded == {j \in Ids : rows[j].status # "none"}
           queued == {j \in loaded : rows[j].status = "queued"}
           crashed == {j \in loaded : rows[j].status = "running"}
           kept   == loaded \ queued
           byId   == {p \in kept \X kept : p[1] < p[2]}
           gone   == Evicted(kept, byId)
       IN  /\ jobs' = [j \in Ids |->
                IF j \notin loaded THEN NoJob
                ELSE [NoJob EXCEPT
                        !.status = IF j \in crashed THEN "interrupted" ELSE rows[j].status,
                        !.shut = IF j \in queued THEN {} ELSE {1},
                        !.seq = rows[j].seq, !.lane = rows[j].lane, !.filed = rows[j].filed]]
           /\ pending' = queued
           /\ finished' = kept \ gone
           /\ order' = {p \in byId : p[1] \notin gone /\ p[2] \notin gone} \cup
                       {p \in queued \X queued : p[1] < p[2] /\ rows[p[1]].lane = rows[p[2]].lane}
           /\ index' = loaded \ gone
           /\ nextID' = LastIssued(loaded)
           /\ Begin(Main, BootSteps(gone, crashed))
    /\ phase' = "boot" /\ boots' = boots + 1
    /\ UNCHANGED <<crew, closed, paused, rowWrite, store, told>>

\* The loop of UseStore that writes the interrupted jobs back, in id order.
SaveEach ==
    /\ At(Main, "saveEach")
    /\ \E j \in Arg(Main).jobs :
         /\ \A k \in Arg(Main).jobs : j <= k
         /\ Proceed(Main, << Do("save", j) >> \o ForEach("saveEach", Arg(Main).jobs \ {j}))
    /\ UNCHANGED <<lists, crew, control, jobs, rowWrite, store, life>>

\* Queue.Start.
Serve ==
    /\ phase = "boot" /\ Idle(Main)
    /\ phase' = "up"
    /\ UNCHANGED <<lists, crew, control, jobs, todo, rowWrite, store, boots, told>>

\* Mutant of Stop: nobody is woken.
StopSilently ==
    /\ "stop" \in Calls
    /\ phase = "up" /\ Idle(Main)
    /\ phase' = "stopping"
    /\ closed' = TRUE
    /\ DropPending(Main)
    /\ UNCHANGED <<crew, nextID, paused, rowWrite, store, boots, told>>

\* Queue.Stop, on the signal to shut down.
Stop ==
    /\ "stop" \in Calls
    /\ phase = "up" /\ Idle(Main)
    /\ phase' = "stopping"
    /\ closed' = TRUE
    /\ DropPending(Main)
    /\ Broadcast
    /\ UNCHANGED <<running, ctx, held, exited, nextID, paused, rowWrite, store, boots, told>>

\* Queue.Close, once the HTTP drain is over; the drain has a deadline, so it may
\* end with requests still in flight.
Close ==
    /\ phase = "stopping" /\ Idle(Main)
    /\ phase' = "closing"
    /\ ctx' = [j \in Ids |-> IF j \in running THEN CutBy(j, "shutdown") ELSE ctx[j]]
    /\ UNCHANGED <<lists, running, held, asleep, exited, control, jobs, todo, rowWrite, store, boots, told>>

\* The process is gone, and with it everything but the store.
Vanish ==
    /\ phase' = "down"
    /\ pending' = {} /\ finished' = {} /\ order' = {} /\ index' = {}
    /\ running' = {} /\ ctx' = [j \in Ids |-> "none"] /\ held' = [w \in Workers |-> 0]
    /\ asleep' = {} /\ exited' = {}
    /\ nextID' = 0 /\ closed' = FALSE /\ paused' = FALSE
    /\ jobs' = [j \in Ids |-> NoJob]
    /\ todo' = [t \in Threads |-> << >>]
    /\ rowWrite' = Free
    /\ UNCHANGED <<store, boots, told>>

\* wg.Wait returns and main does.
Exit == phase = "closing" /\ exited = Workers /\ Vanish

Crash == phase # "down" /\ "crash" \in Calls /\ Vanish

-----------------------------------------------------------------------------
Init ==
    /\ phase = "down" /\ boots = 0 /\ told = {}
    /\ pending = {} /\ finished = {} /\ order = {} /\ index = {}
    /\ running = {} /\ ctx = [j \in Ids |-> "none"] /\ held = [w \in Workers |-> 0]
    /\ asleep = {} /\ exited = {}
    /\ nextID = 0 /\ closed = FALSE /\ paused = FALSE
    /\ jobs = [j \in Ids |-> NoJob]
    /\ todo = [t \in Threads |-> << >>]
    /\ rowWrite = Free
    /\ rows = [j \in Ids |-> NoRow]
    /\ highWater = 0

Next ==
    \/ \E w \in Workers : WorkerStep(w)
    \/ \E c \in Callers : CallerStep(c) \/ Expire(c)
    \/ \E t \in Threads : Pursue(t)
    \/ Boot \/ SaveEach \/ Serve \/ Stop \/ Close \/ Exit \/ Crash

\* The goroutines run on, Process returns, and the drain has its deadline.
\* Nothing makes a caller call, a request expire or the process stop.
Fairness ==
    /\ \A w \in Workers : WF_vars(WorkerStep(w))
    /\ \A t \in Threads : WF_vars(Pursue(t))
    /\ WF_vars(SaveEach) /\ WF_vars(Serve) /\ WF_vars(Close) /\ WF_vars(Exit)

Spec == Init /\ [][Next]_vars
FairSpec == Spec /\ Fairness

-----------------------------------------------------------------------------
(* Properties *)

JobType == [status : Statuses, seq : Nat, lane : 0 .. 2, filed : BOOLEAN,
            run : 1 .. MaxRuns, shut : SUBSET (1 .. MaxRuns), ran : BOOLEAN]
RowType == [status : Statuses, seq : Nat, lane : 0 .. 2, filed : BOOLEAN]

UnlockAhead ==
    rowWrite # Free => \E i \in DOMAIN todo[rowWrite] : todo[rowWrite][i].do = "unlock"

\* Every variable has its type, and the holder of rowWrite has its unlock ahead.
TypeOK ==
    /\ pending \subseteq Ids /\ finished \subseteq Ids /\ order \subseteq Ids \X Ids
    /\ index \subseteq Ids /\ running \subseteq Ids
    /\ ctx \in [Ids -> {"none", "live", "operator", "shutdown"}]
    /\ held \in [Workers -> Ids \cup {0}]
    /\ nextID \in 0 .. MaxJobs /\ closed \in BOOLEAN /\ paused \in BOOLEAN
    /\ jobs \in [Ids -> JobType]
    /\ todo \in [Threads -> Seq(Step)]
    /\ rowWrite \in Threads \cup {Free}
    /\ UnlockAhead
    /\ asleep \subseteq Workers /\ exited \subseteq Workers
    /\ rows \in [Ids -> RowType] /\ highWater \in 0 .. MaxJobs
    /\ phase \in {"down", "boot", "up", "stopping", "closing"}
    /\ boots \in 0 .. MaxBoots /\ told \subseteq Ids

Has(t, what, j) == \E i \in DOMAIN todo[t] : todo[t][i].do \in what /\ todo[t][i].job = j
Covers(t, what, j) == \E i \in DOMAIN todo[t] : todo[t][i].do \in what /\ j \in todo[t][i].jobs

\* A job the queue knows is in exactly one of the FIFO, the running set and the
\* ring, with a status that fits: whatever the order of retries, cancels,
\* clears and evictions, none is lost, listed twice, or queued while it runs.
OnePlace ==
    /\ index = pending \cup running \cup finished
    /\ pending \cap running = {} /\ pending \cap finished = {} /\ running \cap finished = {}
    /\ \A j \in pending : jobs[j].status = "queued"
    /\ \A j \in finished : IsSettled(j)

\* The ring holds at most MaxFinished jobs, in one order of arrival that no
\* removal, retry or batch of cancels tangles: eviction always has an oldest.
RingInOrder ==
    /\ Cardinality(finished) <= MaxFinished
    /\ \A a, b \in finished : a # b => (<<a, b>> \in order <=> <<b, a>> \notin order)
    /\ order \subseteq (pending \X pending) \cup (finished \X finished)

\* Queue.Retry refuses "a running job", one the processor has already settled
\* included: no job is ever on two workers, and the running set is what they
\* hold.
OneWorkerPerJob ==
    /\ \A v, w \in Workers : held[v] = held[w] /\ held[v] # 0 => v = w
    /\ running = {held[w] : w \in Workers} \ {0}

\* Goroutine t will still write the present status of job j.
OwesSave(t, j) ==
    \/ t \in Workers /\ held[t] = j
    \/ Has(t, {"save", "keep"}, j)
    \/ Covers(t, {"release", "saveEach"}, j)
    \/ \E i \in DOMAIN todo[t] : /\ todo[t][i].do = "write" /\ todo[t][i].job = j
                                 /\ todo[t][i].row.status = jobs[j].status

\* The row of a listed job has its present status, or a goroutine is about to
\* write it: snapshots that reach the database out of order never leave an
\* older status behind (SaveJob's seq guard).
StoreCatchesUp ==
    \A j \in index : rows[j].status = jobs[j].status \/ \E t \in Threads : OwesSave(t, j)

\* A job whose Process has begun is never queued on disk, so a crash finds it
\* interrupted and the next boot does not resume it (UseStore).
RunningOnDisk ==
    \A w \in Workers : At(w, "process") /\ jobs[held[w]].ran
        => rows[held[w]].status \notin {"none", "queued"}

\* A row outlives its job only until a delete already under way has run: what
\* was cleared, canceled or evicted does not come back at the next boot.
NoGhostRows ==
    IsUp => \A j \in Ids \ index :
        rows[j].status = "none" \/ \E t \in Threads : Covers(t, {"delete"}, j)

\* A run settles once: the processor's own code, a cancel and the worker's
\* verdict cannot overwrite one another; only a retry leaves a settled status.
SettledOnce ==
    [][\A j \in Ids : jobs[j].status \in Settled /\ jobs'[j].status # jobs[j].status
          => \/ jobs'[j].status = "queued" /\ jobs'[j].run = jobs[j].run + 1
             \/ phase' = "down"]_vars

\* An id a caller was answered with is below the next one in every later life
\* of the process: it is never issued again, even with its row deleted.
ToldIdsStand == phase # "down" => \A j \in told : j <= nextID

\* A parked Wait is woken: its channel is closed, or the job it names is still
\* in the run it waits for and on its way to a signalDone.
WaitersAreWoken ==
    \A c \in Callers : At(c, "await") =>
        LET j == Arg(c).job
            r == Arg(c).row.seq
        IN  \/ DoneClosed(j, r)
            \/ /\ jobs[j].run = r
               /\ \/ j \in pending \cup running
                  \/ \E t \in Threads : Has(t, {"signal", "drop"}, j) \/ Covers(t, {"release"}, j)

\* What the database says of a job follows what the queue does with it: a run
\* says running before it has an effect, and a removal lasts.
RowsFollow == RunningOnDisk /\ NoGhostRows

\* What a restart will find is what was told and decided: no id is issued twice
\* and every listed job's row has, or is about to have, its present status.
RestartFindsAll == ToldIdsStand /\ StoreCatchesUp

\* Stop takes no more work and settles what was pending: once it is done the
\* FIFO stays empty, and no Wait is parked on a job that cannot run.
StoppedIsEmpty == phase = "closing" => pending = {}

\* A job canceled by the shutdown alone settles interrupted, not canceled.
ShutdownInterrupts ==
    [][\A j \in Ids : ctx[j] = "shutdown" /\ jobs[j].status = "running"
          => jobs'[j].status # "canceled"]_vars

\* A job the process died running comes back, interrupted.
CrashedComeBack ==
    [][Boot => \A j \in Ids : rows[j].status = "running" => j \in index']_vars

\* A waiting job leaves the FIFO while the queue is open and not paused: no
\* wake-up is lost between a worker going to sleep and a push, retry or resume.
Served == \A j \in Ids : (j \in pending) ~> (j \notin pending \/ paused \/ closed)

\* Close returns: every worker, asleep or running, leaves.
CloseEnds == (phase = "closing") ~> (phase = "down")

-----------------------------------------------------------------------------
(* Refinement *)

\* The place of a job, as the abstract specification sees it.
StateOf(j) ==
    IF j \in pending THEN "waiting"
    ELSE IF j \in running THEN "running"
    ELSE IF j \in finished THEN "ended"
    ELSE IF j <= nextID THEN "gone" ELSE "unissued"

Lifecycle == INSTANCE JobLifecycle WITH
    Jobs <- Ids, Capacity <- Cardinality(Workers), state <- [j \in Ids |-> StateOf(j)]

\* Between two starts of the process the queue implements the life cycle of
\* JobLifecycle, whatever its goroutines interleave.
ImplementsLifecycle == Lifecycle!Spec

=============================================================================
