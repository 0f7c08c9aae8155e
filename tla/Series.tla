-------------------------------- MODULE Series --------------------------------
(***************************************************************************)
(* A search fetched window by window (src/internal/queue): each job takes  *)
(* up to the cap, a job that filled it offers "get next", and a fetch-all  *)
(* or a target chains windows by itself from the worker that ends one.     *)
(*                                                                         *)
(* One series of one search.  A step is one hold of Queue.mu or of a Job's *)
(* mu; the loops over the windows of a series take one hold a window, so   *)
(* workers move between two of them.  Rows, signals and reports are the    *)
(* subject of JobQueue.                                                    *)
(***************************************************************************)
EXTENDS Integers, FiniteSets, Sequences

CONSTANTS
    Workers,
    Posts,       \* how many posts the search has, numbered from 0
    Cap,         \* max_items_per_job, which stays
    Asked,       \* what is asked for: 0, a number of posts or ItemsAll
    Listings,    \* whether the source lists itself whole: a dispatcher, a title
    Calls,       \* the operator's operations in this instance
    Outcomes,    \* what the items of a window may make of its run
    MaxWindows,  \* bound: windows ever submitted
    MaxRuns,     \* bound: runs of one window
    MaxCalls     \* bound: operations of the operator after the submission

Ids      == 1 .. MaxWindows
ItemsAll == -1

ASSUME SeriesAssumption ==
    /\ Posts \in Nat /\ MaxWindows \in Nat /\ MaxRuns \in Nat \ {0} /\ MaxCalls \in Nat
    /\ Cap \in Nat \ {0}
    /\ Asked \subseteq Nat \cup {ItemsAll}
    /\ Listings \subseteq BOOLEAN /\ Outcomes \subseteq {"succeeded", "partial", "failed"}

VARIABLES
    win,        \* the windows: their Job objects
    index,      \* those the queue knows
    fifo,       \* waiting, in order
    finished,   \* in the history
    crew,       \* what each worker is at
    cut,        \* workers whose context is canceled
    closed,
    nextID,
    whole,      \* the source lists itself whole
    op,         \* the operator's loop over the series
    fetched,    \* history: posts of windows that ended well
    lapsed,     \* history: of each window, those that held nothing when it was made
    dismissed,  \* history: posts of windows the operator removed
    calledOff,  \* history: a cancel of the live series was answered
    meddled     \* operations after the submission, for the bound

queue   == <<index, fifo, finished, nextID>>
history == <<fetched, lapsed, dismissed, calledOff, meddled>>
vars    == <<win, queue, crew, cut, closed, whole, op, history>>

Good    == {"succeeded", "partial"}
Settled == Good \cup {"failed", "canceled"}

NoWindow == [status |-> "none", offset |-> 0, max |-> 0, auto |-> FALSE, target |-> 0,
             capped |-> FALSE, cap |-> 0, items |-> 0, run |-> 0]

\* WithItems: what is asked for, as a window size, a chain or a target.
WithItems(n) ==
    [NoWindow EXCEPT !.max = IF n > 0 THEN n ELSE 0, !.target = IF n > 0 THEN n ELSE 0,
                     !.auto = n = ItemsAll]

Smaller(a, b) == IF a < b THEN a ELSE b
Largest(S)    == CHOOSE n \in S : \A m \in S : m <= n

IsSettled(j)  == win[j].status \in Settled
OnWorker(j)   == \E w \in Workers : crew[w].job = j /\ crew[w].do \in {"resolve", "settle", "finish"}
Waiting(j)    == \E i \in DOMAIN fifo : fifo[i] = j
IsLive(j)     == OnWorker(j) \/ Waiting(j)

\* Mutant of windowEnd: a window that has not resolved reserves nothing.
windowEndUnreserved(j) ==
    IF win[j].capped THEN win[j].offset + win[j].cap ELSE win[j].offset + win[j].items

\* An unresolved window reserves its whole range.
windowEnd(j) ==
    IF win[j].capped THEN win[j].offset + win[j].cap
    ELSE IF ~IsSettled(j) /\ win[j].items = 0 THEN win[j].offset + win[j].max
    ELSE win[j].offset + win[j].items

\* seriesExtentLocked: the furthest end and the widest cap.
High   == Largest({windowEnd(j) : j \in index} \cup {0})
Widest == Largest({win[j].cap : j \in index} \cup {0})

\* rangeFor: max_items can only lower the configured cap.
LimitOf(j) == IF win[j].max > 0 THEN Smaller(win[j].max, Cap) ELSE Cap

\* The posts a window is about.
Extent(j) ==
    win[j].offset .. win[j].offset - 1 +
        (IF win[j].capped THEN win[j].cap
         ELSE IF win[j].items = 0 /\ win[j].status \notin Good
           THEN IF win[j].max > 0 THEN win[j].max ELSE Cap
         ELSE win[j].items)

-----------------------------------------------------------------------------
(* Submitting and continuing *)

MayCall(call) == call \in Calls /\ op.do = "none" /\ meddled < MaxCalls

\* enqueueLocked.
EnqueueWindow(window) ==
    /\ nextID < MaxWindows
    /\ nextID' = nextID + 1
    /\ win' = [win EXCEPT ![nextID + 1] = [window EXCEPT !.status = "queued", !.run = 1]]
    /\ index' = index \cup {nextID + 1}
    /\ fifo' = Append(fifo, nextID + 1)
    /\ lapsed' = [lapsed EXCEPT ![nextID + 1] =
                    {j \in index : IsSettled(j) /\ windowEnd(j) = win[j].offset}]
    /\ UNCHANGED finished

Submit ==
    /\ nextID = 0
    /\ \E n \in Asked : EnqueueWindow(WithItems(n))
    /\ whole' \in Listings
    /\ UNCHANGED <<crew, cut, closed, op, fetched, dismissed, calledOff, meddled>>

\* Mutant of NextWindow: the last window is as wide as the others.
NextWindowWide(auto, target) ==
    [NoWindow EXCEPT !.offset = High, !.auto = auto, !.target = target, !.max = Widest]

\* The next window; a target cuts it to what is left.
NextWindow(auto, target) ==
    [NoWindow EXCEPT !.offset = High, !.auto = auto, !.target = target,
                     !.max = IF target > 0 THEN Smaller(Widest, target - High) ELSE Widest]

MayContinue(j, target) ==
    /\ j \in index /\ win[j].capped
    /\ target > 0 => High < target

\* Continue, ContinueAll.
Continue(j, auto) ==
    /\ MayCall("continue")
    /\ MayContinue(j, 0)
    /\ EnqueueWindow(NextWindow(auto, 0))
    /\ calledOff' = FALSE /\ meddled' = meddled + 1
    /\ UNCHANGED <<crew, cut, closed, whole, op, fetched, dismissed>>

-----------------------------------------------------------------------------
(* Retries *)

MayRetry(j) == j \in index /\ ~OnWorker(j) /\ IsSettled(j)

\* Retry: reset, and to the back of the FIFO.
DoRetry(j) ==
    /\ win' = [win EXCEPT ![j] = [win[j] EXCEPT !.status = "queued", !.capped = FALSE, !.cap = 0,
                                                !.items = 0, !.run = win[j].run + 1]]
    /\ finished' = finished \ {j}
    /\ fifo' = Append(fifo, j)
    /\ UNCHANGED <<index, nextID>>

Retry(j) ==
    /\ MayCall("retry")
    /\ MayRetry(j) /\ win[j].run < MaxRuns
    /\ DoRetry(j)
    /\ calledOff' = FALSE /\ meddled' = meddled + 1
    /\ UNCHANGED <<crew, cut, closed, whole, op, fetched, lapsed, dismissed>>

\* RetrySeries lists the windows, then retries them one by one in id order.
RetrySeries ==
    /\ MayCall("retrySeries") /\ index # {}
    /\ op' = [do |-> "retry", ids |-> index, live |-> FALSE]
    /\ calledOff' = FALSE /\ meddled' = meddled + 1
    /\ UNCHANGED <<win, queue, crew, cut, closed, whole, fetched, lapsed, dismissed>>

RetryNext ==
    /\ op.do = "retry" /\ op.ids # {}
    /\ LET j == CHOOSE k \in op.ids : \A m \in op.ids : k <= m
       IN  /\ op' = [op EXCEPT !.ids = @ \ {j}]
           /\ IF MayRetry(j) /\ win[j].run < MaxRuns
                THEN DoRetry(j)
                ELSE UNCHANGED <<win, queue>>
    /\ UNCHANGED <<crew, cut, closed, whole, history>>

-----------------------------------------------------------------------------
(* Cancels *)

\* seriesToCancel, for the window j.
Listed(j) == IF IsLive(j) THEN {k \in index : IsLive(k)} ELSE index

CancelSeries(j) ==
    /\ MayCall("cancelSeries") /\ j \in index
    /\ op' = [do |-> "cancel", ids |-> Listed(j), live |-> IsLive(j)]
    /\ meddled' = meddled + 1
    /\ UNCHANGED <<win, queue, crew, cut, closed, whole, fetched, lapsed, dismissed, calledOff>>

\* CancelLive tests the window, then lists the series under a second hold.
CancelLive(j) ==
    /\ MayCall("cancelLive") /\ IsLive(j)
    /\ op' = [do |-> "list", ids |-> {j}, live |-> TRUE]
    /\ meddled' = meddled + 1
    /\ UNCHANGED <<win, queue, crew, cut, closed, whole, fetched, lapsed, dismissed, calledOff>>

ListLive ==
    /\ op.do = "list"
    /\ LET j == CHOOSE k \in op.ids : TRUE
       IN  op' = [do |-> "keepRow", ids |-> IF j \in index THEN Listed(j) ELSE {},
                  live |-> j \in index /\ IsLive(j)]
    /\ UNCHANGED <<win, queue, crew, cut, closed, whole, history>>

\* The worker of j has its context canceled.
CutRunning(j) ==
    /\ OnWorker(j)
    /\ cut' = cut \cup {w \in Workers : crew[w].job = j}
    /\ UNCHANGED <<win, index, fifo, finished>>

WithoutWindow(j) ==
    IF ~Waiting(j) THEN fifo
    ELSE LET i == CHOOSE k \in DOMAIN fifo : fifo[k] = j
         IN  [k \in 1 .. Len(fifo) - 1 |-> fifo[IF k < i THEN k ELSE k + 1]]

\* cancel, for one window: refused, cut, or removed.
CancelNext ==
    /\ op.do = "cancel" /\ op.ids # {}
    /\ \E j \in op.ids :
         /\ op' = [op EXCEPT !.ids = @ \ {j}]
         /\ \/ /\ j \notin index \/ (op.live /\ ~IsLive(j))
               /\ UNCHANGED <<win, index, fifo, finished, cut, dismissed>>
            \/ j \in index /\ CutRunning(j) /\ UNCHANGED dismissed
            \/ /\ j \in index /\ ~OnWorker(j) /\ (op.live => IsLive(j))
               /\ index' = index \ {j}
               /\ fifo' = WithoutWindow(j) /\ finished' = finished \ {j}
               /\ win' = IF Waiting(j) THEN [win EXCEPT ![j].status = "canceled"] ELSE win
               /\ dismissed' = dismissed \cup Extent(j)
               /\ UNCHANGED cut
    /\ UNCHANGED <<nextID, crew, closed, whole, fetched, lapsed, calledOff, meddled>>

\* cancelKeepingRow, for one window.
CancelKeepingRow ==
    /\ op.do = "keepRow" /\ op.ids # {}
    /\ \E j \in op.ids :
         /\ op' = [op EXCEPT !.ids = @ \ {j}]
         /\ \/ j \in index /\ CutRunning(j)
            \/ /\ j \in index /\ Waiting(j)
               /\ fifo' = WithoutWindow(j) /\ finished' = finished \cup {j}
               /\ win' = [win EXCEPT ![j].status = "canceled"]
               /\ UNCHANGED <<index, cut>>
            \/ /\ j \notin index \/ ~IsLive(j)
               /\ UNCHANGED <<win, index, fifo, finished, cut>>
    /\ UNCHANGED <<nextID, crew, closed, whole, history>>

\* The loop is over and the operator answered.
Answered ==
    /\ op.do \in {"retry", "cancel", "keepRow"} /\ op.ids = {}
    /\ op' = [do |-> "none", ids |-> {}, live |-> FALSE]
    /\ calledOff' = (op.do # "retry" /\ op.live)
    /\ UNCHANGED <<win, queue, crew, cut, closed, whole, fetched, lapsed, dismissed, meddled>>

-----------------------------------------------------------------------------
(* Clears, settings, shutdown *)

\* clearableLocked: no window of the series may have follow-up.
noFollowUp(j) == win[j].status = "succeeded" /\ ~win[j].capped
Clearable     == IF \A j \in index : noFollowUp(j) THEN finished ELSE {}

ClearSucceeded ==
    /\ MayCall("clearSucceeded") /\ Clearable # {}
    /\ index' = index \ Clearable /\ finished' = finished \ Clearable
    /\ meddled' = meddled + 1
    /\ UNCHANGED <<win, fifo, nextID, crew, cut, closed, whole, op, fetched, lapsed,
                   dismissed, calledOff>>

\* Stop: what waits settles canceled; the windows on workers run on.
Stop ==
    /\ "stop" \in Calls /\ ~closed
    /\ closed' = TRUE
    /\ win' = [j \in Ids |-> IF Waiting(j) THEN [win[j] EXCEPT !.status = "canceled"] ELSE win[j]]
    /\ finished' = finished \cup {j \in Ids : Waiting(j)}
    /\ fifo' = << >>
    /\ UNCHANGED <<index, nextID, crew, cut, whole, op, history>>

-----------------------------------------------------------------------------
(* Workers *)

At(w, what) == crew[w].do = what
Mine(w)     == crew[w].job
Goes(w, what) == crew' = [crew EXCEPT ![w].do = what]

Take(w) ==
    /\ At(w, "idle") /\ fifo # << >> /\ ~closed
    /\ crew' = [crew EXCEPT ![w] = [job |-> Head(fifo), do |-> "resolve"]]
    /\ fifo' = Tail(fifo)
    /\ win' = [win EXCEPT ![Head(fifo)].status = "running"]
    /\ cut' = cut \ {w}
    /\ UNCHANGED <<index, finished, nextID, closed, whole, op, history>>

Ahead(j)  == IF win[j].offset < Posts THEN Posts - win[j].offset ELSE 0
Listing(j) == Smaller(LimitOf(j), Ahead(j))

\* A full page may have more behind it; a whole listing tells.
Fills(j) == IF whole THEN Ahead(j) > LimitOf(j) ELSE Ahead(j) >= LimitOf(j)

\* The resolve of processDownload, processDispatch or processChapters lists the
\* posts and says whether the window is capped.
Resolve(w) ==
    /\ At(w, "resolve") /\ w \notin cut
    /\ LET j == Mine(w)
       IN  win' = [win EXCEPT ![j].items = Listing(j), ![j].capped = Fills(j),
                              ![j].cap = IF Fills(j) THEN LimitOf(j) ELSE 0]
    /\ Goes(w, "settle")
    /\ UNCHANGED <<queue, cut, closed, whole, op, history>>

\* The resolve fails, and abortJob settles the window.
ResolveFails(w) ==
    /\ At(w, "resolve") /\ w \notin cut
    /\ win' = [win EXCEPT ![Mine(w)].status = "failed"]
    /\ Goes(w, "finish")
    /\ UNCHANGED <<queue, cut, closed, whole, op, history>>

\* The resolve returns on the canceled context.
ResolveCut(w) ==
    /\ At(w, "resolve") /\ w \in cut
    /\ Goes(w, "settle")
    /\ UNCHANGED <<win, queue, cut, closed, whole, op, history>>

\* What the items make of a run: deriveStatus.
Verdicts(j) == IF win[j].items = 0 THEN {"succeeded"} ELSE Outcomes

\* The posts a window lists.
Page(j) == win[j].offset .. win[j].offset + win[j].items - 1

\* Process has returned; runJob reads the context.
Settle(w) ==
    /\ At(w, "settle")
    /\ \E verdict \in IF w \in cut THEN {"canceled"} ELSE Verdicts(Mine(w)) :
         /\ win' = [win EXCEPT ![Mine(w)].status = verdict]
         /\ fetched' = fetched \cup (IF verdict \in Good THEN Page(Mine(w)) ELSE {})
    /\ Goes(w, "finish")
    /\ UNCHANGED <<queue, cut, closed, whole, op, lapsed, dismissed, calledOff, meddled>>

\* finish moves the window to the history.
Finish(w) ==
    /\ At(w, "finish")
    /\ finished' = finished \cup {Mine(w)}
    /\ Goes(w, "chain")
    /\ UNCHANGED <<win, index, fifo, nextID, cut, closed, whole, op, history>>

\* Mutant of Chains: a target does not chain.
ChainsAutoOnly(j) == win[j].auto /\ win[j].capped /\ ~closed /\ win[j].status \in Good

\* autoContinue decides on a snapshot.
Chains(j) ==
    /\ win[j].auto \/ win[j].target > 0
    /\ win[j].capped /\ ~closed /\ win[j].status \in Good

Chain(w) ==
    /\ At(w, "chain")
    /\ Goes(w, IF Chains(Mine(w)) THEN "continue" ELSE "reconcile")
    /\ UNCHANGED <<win, queue, cut, closed, whole, op, history>>

\* continueFrom, on the window as it is by then.
ContinueChain(w) ==
    /\ At(w, "continue")
    /\ LET j == Mine(w)
       IN  IF MayContinue(j, win[j].target)
             THEN EnqueueWindow(NextWindow(win[j].auto, win[j].target))
             ELSE UNCHANGED <<win, queue, lapsed>>
    /\ Goes(w, "reconcile")
    /\ UNCHANGED <<cut, closed, whole, op, fetched, dismissed, calledOff, meddled>>

\* Mutant of ShowsTheEnd: any continuation that ends well.
ShowsAnEnd(j) == j # 1 /\ win[j].status \in Good

\* reconcileSeries: a short continuation means the source ran out; a canceled
\* or failed one proves nothing.
ShowsTheEnd(j) == ~win[j].capped /\ j # 1 /\ win[j].status \in Good

Reconcile(w) ==
    /\ At(w, "reconcile")
    /\ crew' = [crew EXCEPT ![w] = IF ShowsTheEnd(Mine(w)) THEN [@ EXCEPT !.do = "clear"]
                                   ELSE [job |-> 0, do |-> "idle"]]
    /\ UNCHANGED <<win, queue, cut, closed, whole, op, history>>

ClearCapped(w) ==
    /\ At(w, "clear")
    /\ win' = [j \in Ids |-> IF j \in index THEN [win[j] EXCEPT !.capped = FALSE] ELSE win[j]]
    /\ crew' = [crew EXCEPT ![w] = [job |-> 0, do |-> "idle"]]
    /\ UNCHANGED <<queue, cut, closed, whole, op, history>>

WorkerStep(w) ==
    \/ Take(w) \/ Resolve(w) \/ ResolveFails(w) \/ ResolveCut(w) \/ Settle(w) \/ Finish(w)
    \/ Chain(w) \/ ContinueChain(w) \/ Reconcile(w) \/ ClearCapped(w)

-----------------------------------------------------------------------------
Init ==
    /\ win = [j \in Ids |-> NoWindow] /\ index = {} /\ fifo = << >> /\ finished = {}
    /\ crew = [w \in Workers |-> [job |-> 0, do |-> "idle"]] /\ cut = {}
    /\ closed = FALSE /\ nextID = 0 /\ whole = FALSE
    /\ op = [do |-> "none", ids |-> {}, live |-> FALSE]
    /\ fetched = {} /\ lapsed = [j \in Ids |-> {}] /\ dismissed = {} /\ calledOff = FALSE
    /\ meddled = 0

OperatorStep ==
    \/ Submit \/ RetrySeries \/ ClearSucceeded \/ Stop
    \/ \E j \in Ids : Retry(j) \/ CancelSeries(j) \/ CancelLive(j)
    \/ \E j \in Ids, auto \in BOOLEAN : Continue(j, auto)

LoopStep == RetryNext \/ ListLive \/ CancelNext \/ CancelKeepingRow \/ Answered

Next == OperatorStep \/ LoopStep \/ \E w \in Workers : WorkerStep(w)

Spec == Init /\ [][Next]_vars

-----------------------------------------------------------------------------
(* Properties *)

WindowType ==
    [status : {"none", "queued", "running"} \cup Settled, offset : Nat, max : Nat,
     auto : BOOLEAN, target : Nat, capped : BOOLEAN, cap : Nat, items : Nat, run : 0 .. MaxRuns]

\* Every variable has its type.
TypeOK ==
    /\ win \in [Ids -> WindowType]
    /\ index \subseteq Ids /\ finished \subseteq Ids /\ fifo \in Seq(Ids)
    /\ crew \in [Workers -> [job : Ids \cup {0},
                             do : {"idle", "resolve", "settle", "finish", "chain", "continue",
                                   "reconcile", "clear"}]]
    /\ cut \subseteq Workers /\ closed \in BOOLEAN /\ whole \in BOOLEAN
    /\ nextID \in 0 .. MaxWindows
    /\ op \in [do : {"none", "retry", "cancel", "list", "keepRow"}, ids : SUBSET Ids, live : BOOLEAN]
    /\ fetched \subseteq 0 .. Posts - 1 /\ lapsed \in [Ids -> SUBSET Ids] /\ dismissed \subseteq Int
    /\ calledOff \in BOOLEAN /\ meddled \in Nat

\* No post of the search is passed over in silence: what no window imported, and
\* no removed window held, is in a window that waits, runs or says it did not end
\* well, or lies past the series while some window still offers to go on.
\* Whatever continues, chains, retries and failures interleave.
EveryPostHasAWay ==
    index # {} =>
        \A p \in (0 .. Posts - 1) \ (fetched \cup dismissed) :
            \/ \E j \in index : win[j].status \notin Good /\ p \in Extent(j)
            \/ p >= High /\ \E j \in index : win[j].capped \/ win[j].status \notin Good

\* continueFrom holds Queue.mu from the high-water read to the enqueue: two
\* windows never list the same post, unless the earlier one had failed or been
\* canceled with nothing listed when the later one was made.
NoDoubleFetch ==
    \A a, b \in index : a < b /\ a \notin lapsed[b] =>
        Page(a) \cap Page(b) = {}

\* No window of a chain with a target reaches past it, the retried ones included.
TargetKept == \A j \in index : win[j].target > 0 => windowEnd(j) <= win[j].target

Wanted ==
    LET root == win[1]
    IN  IF root.auto THEN 0 .. Posts - 1
        ELSE IF root.target > 0 THEN 0 .. Smaller(root.target, Posts) - 1 ELSE {}

\* A fetch-all or a target is delivered: left alone and open, the chain does not
\* end before the last post wanted, unless a window says it failed.
ChainDelivers ==
    /\ nextID > 0 /\ fifo = << >> /\ \A w \in Workers : At(w, "idle")
    /\ meddled = 0 /\ ~closed
    => Wanted \subseteq fetched \/ \E j \in index : win[j].status = "failed"

\* A chain reaches what it was asked for, and no further.
ChainIsKept == TargetKept /\ ChainDelivers

\* "CancelSeries stops a live series" (queue.go): once a cancel of a live series
\* is answered, no window is added to it until the operator asks for one.
CanceledStays == [][calledOff /\ calledOff' => nextID' = nextID]_vars

\* "A series goes whole or not at all" (clearableLocked).
SeriesGoesWhole == [][ClearSucceeded => index' = {}]_vars

=============================================================================
