---------------------------- MODULE QueueStoreProofs ----------------------------
(***************************************************************************)
(* What JobQueue leaves in its store and whom it wakes, for any number of  *)
(* workers, callers, jobs, runs and restarts: RestartFindsAll without      *)
(* conditions, and RowsFollow and WaitersAreWoken up to the one race each  *)
(* of them is exposed to.                                                  *)
(***************************************************************************)
EXTENDS JobQueueProofs

-----------------------------------------------------------------------------
(* The invariants *)

\* The steps some goroutine still has to take.
InHand == UNION {Elems(todo[t]) : t \in Threads}

\* The jobs a step is about.
Named(x) == IF x.do \in OfJob THEN {x.job} ELSE x.jobs

\* The step leads to a snapshot of job j, taken later.
Promises(x, j) == x.do \in {"save", "keep", "release", "saveEach"} /\ j \in Named(x)

WritesOf(j) == {x \in InHand : x.do = "write" /\ x.job = j}

\* No step is ahead of an issue, no snapshot ahead of its job, and what is to be
\* deleted has left the index for good.
Dated ==
    /\ \A x \in InHand : /\ Named(x) \subseteq 1 .. nextID
                         /\ x.do = "write" => x.row.seq <= jobs[x.job].seq
                         /\ x.do = "delete" => x.jobs \cap index = {}
    /\ phase # "down" => \A j \in Ids : /\ rows[j].seq <= jobs[j].seq
                                        /\ j > nextID => rows[j] = NoRow /\ jobs[j].seq = 0

\* The latest snapshot of j is in its row or in hand, and has its status.
Written(j) ==
    /\ rows[j].seq = jobs[j].seq \/ \E x \in WritesOf(j) : x.row.seq = jobs[j].seq
    /\ rows[j].seq = jobs[j].seq => rows[j].status = jobs[j].status
    /\ \A x \in WritesOf(j) : x.row.seq = jobs[j].seq => x.row.status = jobs[j].status

IsHeld(j) == \E w \in Workers : held[w] = j
Promised(j) == IsHeld(j) \/ \E x \in InHand : Promises(x, j)

CaughtUp == \A j \in index : Promised(j) \/ Written(j)

\* These steps are the last of their list.
Closing == {"answer", "wait", "cancel", "cancelKeeping", "start", "process", "settle", "finish"}

ClosedBy(s) == \A i, k \in DOMAIN s : i < k => s[i].do \notin Closing

Ordered == \A t \in Threads : ClosedBy(todo[t])

\* An id that was told is below the high-water mark; one about to be told is, or
\* its goroutine raises the mark first.
Marks(y, x) == y.do \in {"save", "high"} /\ y.job = x.job
Marked ==
    /\ \A j \in told : j <= highWater
    /\ phase # "down" => highWater <= nextID
    /\ \A t \in Threads : \A x \in Elems(todo[t]) :
          x.do \in {"answer", "wait"} => x.job <= highWater \/ \E y \in Elems(todo[t]) : Marks(y, x)

\* Of each list at most one unlock, and only the holder of rowWrite has it.
Unlocks == {x \in Step : x.do = "unlock"}
Locked ==
    \A t \in Threads : /\ AtMostOnce(todo[t], Unlocks)
                       /\ \A x \in Elems(todo[t]) : x.do = "unlock" => rowWrite = t

\* A snapshot of a job that was begun.
Begun(row) == row.status \notin {"none", "queued"}

\* Row r of j says that j was begun, and so does every later one.
Settles(r, j) ==
    /\ Begun(r)
    /\ rows[j].seq >= r.seq => Begun(rows[j])
    /\ \A z \in WritesOf(j) : z.row.seq >= r.seq => Begun(z.row)

\* While a worker is about to call Process, or in it, a snapshot that says so is
\* in the row or in the worker's own list, or the worker will take one first.
SaidByRow(w, j) ==
    \/ \E x \in Elems(todo[w]) : x.do = "save" /\ x.job = j
    \/ Settles(rows[j], j)
    \/ \E x \in Elems(todo[w]) : x.do = "write" /\ x.job = j /\ Settles(x.row, j)
OnDisk ==
    \A w \in Workers : (\E x \in Elems(todo[w]) : x.do = "process") =>
        Begun(jobs[held[w]]) /\ SaidByRow(w, held[w])

StoreInv == IInv /\ Dated /\ CaughtUp /\ Ordered /\ Marked /\ Locked /\ OnDisk

\* x writes, or will write, the row of j without looking whether j is indexed,
\* and y makes that good: j's row is deleted later, or it was locked till now.
Writes(x, j) == x.do \in {"save", "write", "release", "saveEach"} /\ j \in Named(x)
Undoes(y, j) == y.do = "unlock" \/ (y.do = "delete" /\ j \in y.jobs)
Guarded(s, j) == \A i \in DOMAIN s : Writes(s[i], j) => \E k \in DOMAIN s : i < k /\ Undoes(s[k], j)

\* Who writes the row of a job that is gone also deletes it.
Strayless == \A j \in Ids \ index : \A t \in Threads : Guarded(todo[t], j)
GoneIsGone ==
    phase # "down" => \A j \in Ids \ index :
        \/ \E x \in InHand : x.do = "delete" /\ j \in x.jobs
        \/ rows[j].status = "none" /\ \A x \in InHand : ~Writes(x, j)

\* A step that leads to the signal of the present run of j.
Signals(x, j) == x.do \in {"signal", "drop", "release"} /\ j \in Named(x)
Signaled(j) == jobs[j].run \in jobs[j].shut \/ \E x \in InHand : Signals(x, j)

\* The end of a run is signaled, or a goroutine is about to; who waits for it is
\* woken, or the run is still on.
Ended == \A j \in finished : Signaled(j)
Woken ==
    \A x \in InHand : x.do = "await" =>
        \/ DoneClosed(x.job, x.row.seq)
        \/ /\ jobs[x.job].run = x.row.seq
           /\ x.job \in pending \cup running \/ Signaled(x.job)

\* A job leaves the index, or is left out of it by a boot, when no goroutine has
\* yet to write its row, or none that does not delete it afterwards.
NoneOvertaken ==
    \A j \in Ids \ index' : j \in index \/ phase = "down" => \A t \in Threads : Guarded(todo[t], j)'

\* A job is not run again before the end of its last run is signaled.
RetriesAreSignaled ==
    \A j \in Ids : jobs'[j].run # jobs[j].run => ~\E x \in InHand : Signals(x, j)

-----------------------------------------------------------------------------
(* Lists *)

\* What a step of t does to the steps in hand.
LEMMA HandsMove ==
    ASSUME TypeOK, NEW t \in Threads, NEW u \in Seq(Step), Becomes(t, u)
    PROVE  /\ todo' \in [Threads -> Seq(Step)]
           /\ \A o \in Threads \ {t} : todo'[o] = todo[o]
           /\ InHand' \subseteq InHand \cup Elems(u)
           /\ Elems(u) \subseteq InHand' /\ Elems(u) \subseteq Elems(todo'[t])
           /\ Elems(todo'[t]) \subseteq Elems(u) \cup Elems(todo[t])
           /\ \A x \in Elems(todo[t]) : x \in Elems(todo'[t]) \/ (~Idle(t) /\ x = Arg(t))
           /\ \A x \in InHand : x \in InHand' \/ (~Idle(t) /\ x = Arg(t))
           /\ InHand \subseteq Step /\ InHand' \subseteq Step
           /\ ~Idle(t) => Arg(t) \in InHand /\ Arg(t) \in Elems(todo[t])
  <1>1. /\ todo' \in [Threads -> Seq(Step)]
        /\ \A o \in Threads \ {t} : todo'[o] = todo[o]
        /\ Elems(u) \subseteq Elems(todo'[t])
        /\ Elems(todo'[t]) \subseteq Elems(u) \cup Elems(todo[t])
        /\ \A x \in Elems(todo[t]) : x \in Elems(todo'[t]) \/ (~Idle(t) /\ x = Arg(t))
        /\ ~Idle(t) => Arg(t) \in Elems(todo[t])
    <2>1. CASE Idle(t)
      <3>1. Begin(t, u)
        BY <2>1 DEF Becomes
      <3> QED BY <2>1, <3>1, BeginElems
    <2>2. CASE ~Idle(t)
      <3> DEFINE s == Tail(todo[t])
      <3>1. Proceed(t, u)
        BY <2>2 DEF Becomes
      <3>2. /\ todo' \in [Threads -> Seq(Step)] /\ \A o \in Threads \ {t} : todo'[o] = todo[o]
            /\ Elems(todo'[t]) = Elems(u) \cup Elems(s) /\ Elems(todo[t]) = {Arg(t)} \cup Elems(s)
        BY <2>2, <3>1, ProceedElems
      <3> HIDE DEF s
      <3> QED BY <2>2, <3>2
    <2> QED BY <2>1, <2>2
  <1>2. \A o \in Threads : Elems(todo[o]) \subseteq Step /\ Elems(todo'[o]) \subseteq Step
    BY <1>1, ElementOfSeq, LenProperties DEF TypeOK, Elems
  <1>3. InHand \subseteq Step /\ InHand' \subseteq Step
    BY <1>2 DEF InHand
  <1>4. InHand' \subseteq InHand \cup Elems(u)
    BY <1>1 DEF InHand
  <1>5. \A x \in InHand : x \in InHand' \/ (~Idle(t) /\ x = Arg(t))
    BY <1>1 DEF InHand
  <1> QED BY <1>1, <1>3, <1>4, <1>5 DEF InHand

\* A step that closes its list has nothing behind it.
LEMMA ClosingIsLast ==
    ASSUME TypeOK, Ordered, NEW t \in Threads, ~Idle(t), Arg(t).do \in Closing
    PROVE  Tail(todo[t]) = << >> /\ Elems(todo[t]) = {Arg(t)}
  <1> DEFINE s == todo[t]
             r == Tail(s)
             n == Len(s)
  <1>1. s \in Seq(Step) /\ s # << >> /\ ClosedBy(s)
    BY DEF TypeOK, Idle, Ordered
  <1>2. /\ Head(s) = s[1] /\ r \in Seq(Step) /\ Len(r) = n - 1
        /\ n \in Nat \ {0} /\ DOMAIN s = 1 .. n
    <2> HIDE DEF s
    <2> QED BY <1>1, HeadTailProperties, EmptySeq, LenProperties
  <1>3. Head(s).do \in Closing
    BY DEF Arg
  <1> HIDE DEF s, r, n
  <1>4. n = 1
    <2>1. 1 \in DOMAIN s /\ n \in DOMAIN s
      BY <1>2
    <2>2. ~(1 < n)
      BY <1>1, <1>2, <1>3, <2>1 DEF ClosedBy
    <2> QED BY <1>2, <2>2
  <1>5. r = << >>
    <2>1. Len(r) = 0
      BY <1>2, <1>4
    <2> QED BY <1>2, <2>1, EmptySeq
  <1>6. Elems(s) = {Head(s)} \cup Elems(r)
    BY <1>1, ElemsOfHeadTail DEF r
  <1> QED BY <1>5, <1>6, EmptyElems DEF Arg, s, r

LEMMA ClosedByTail ==
    ASSUME NEW s \in Seq(Step), s # << >>, ClosedBy(s)
    PROVE  ClosedBy(Tail(s))
  <1>1. /\ Tail(s) \in Seq(Step) /\ Len(Tail(s)) = Len(s) - 1
        /\ Len(s) \in Nat \ {0} /\ \A i \in 1 .. Len(s) - 1 : Tail(s)[i] = s[i + 1]
    BY HeadTailProperties, EmptySeq
  <1>2. DOMAIN s = 1 .. Len(s) /\ DOMAIN Tail(s) = 1 .. Len(s) - 1
    BY <1>1, LenProperties
  <1> SUFFICES ASSUME NEW i \in 1 .. Len(s) - 1, NEW k \in 1 .. Len(s) - 1, i < k
               PROVE  Tail(s)[i].do \notin Closing
    BY <1>2 DEF ClosedBy
  <1>3. i + 1 \in 1 .. Len(s) /\ k + 1 \in 1 .. Len(s) /\ i + 1 < k + 1
    BY <1>1
  <1>4. s[i + 1].do \notin Closing
    BY <1>2, <1>3 DEF ClosedBy
  <1> QED BY <1>1, <1>4

LEMMA ClosedByConcat ==
    ASSUME NEW s \in Seq(Step), NEW r \in Seq(Step), ClosedBy(r), \A x \in Elems(s) : x.do \notin Closing
    PROVE  ClosedBy(s \o r)
  <1>1. \A i \in 1 .. Len(s) + Len(r) : (s \o r)[i] = IF i <= Len(s) THEN s[i] ELSE r[i - Len(s)]
    BY ConcatProperties
  <1>2. /\ Len(s) \in Nat /\ Len(r) \in Nat
        /\ DOMAIN s = 1 .. Len(s) /\ DOMAIN r = 1 .. Len(r)
        /\ DOMAIN (s \o r) = 1 .. Len(s) + Len(r)
    BY LenProperties, ConcatProperties
  <1> SUFFICES ASSUME NEW i \in 1 .. Len(s) + Len(r), NEW k \in 1 .. Len(s) + Len(r), i < k
               PROVE  (s \o r)[i].do \notin Closing
    BY <1>2 DEF ClosedBy
  <1>3. CASE i <= Len(s)
    <2>1. (s \o r)[i] = s[i] /\ i \in DOMAIN s
      BY <1>1, <1>2, <1>3
    <2> QED BY <2>1 DEF Elems
  <1>4. CASE i > Len(s)
    <2>1. i - Len(s) \in 1 .. Len(r) /\ k - Len(s) \in 1 .. Len(r) /\ i - Len(s) < k - Len(s)
      BY <1>2, <1>4
    <2>2. r[i - Len(s)].do \notin Closing
      BY <1>2, <2>1 DEF ClosedBy
    <2> QED BY <1>1, <1>2, <1>4, <2>2
  <1> QED BY <1>2, <1>3, <1>4

\* How a step of t orders its list: what it adds is closed, and closes nothing
\* that still has steps behind it.
Closes(t, u) ==
    ClosedBy(u) /\ (Idle(t) \/ Arg(t).do \in Closing \/ \A x \in Elems(u) : x.do \notin Closing)

LEMMA OrderIsKept ==
    ASSUME TypeOK, Ordered, NEW t \in Threads, NEW u \in Seq(Step), Becomes(t, u), Closes(t, u)
    PROVE  Ordered'
  <1>1. \A o \in Threads \ {t} : todo'[o] = todo[o]
    BY HandsMove
  <1>2. ClosedBy(todo'[t])
    <2>1. CASE Idle(t)
      BY <2>1, BeginElems DEF Becomes, Closes
    <2>2. CASE ~Idle(t)
      <3> DEFINE s == Tail(todo[t])
      <3>1. Proceed(t, u)
        BY <2>2 DEF Becomes
      <3>2. todo'[t] = u \o s /\ s \in Seq(Step)
        BY <2>2, <3>1, ProceedElems
      <3>3. ClosedBy(s)
        BY <2>2, ClosedByTail DEF Ordered, TypeOK, Idle
      <3>4. CASE Arg(t).do \in Closing
        <4>1. s = << >>
          BY <2>2, <3>4, ClosingIsLast
        <4>2. u \o << >> = u
          BY ConcatEmptySeq
        <4> QED BY <3>2, <4>1, <4>2 DEF Closes
      <3>5. CASE Arg(t).do \notin Closing
        <4> HIDE DEF s
        <4> QED BY <2>2, <3>2, <3>3, <3>5, ClosedByConcat DEF Closes
      <3> QED BY <3>4, <3>5
    <2> QED BY <2>1, <2>2
  <1> QED BY <1>1, <1>2 DEF Ordered

-----------------------------------------------------------------------------
(* What a step does to the invariants: u is what t goes on with *)

\* Ids only grow, and what is added is about ids issued, or gone if to delete.
Reaches(u) ==
    /\ nextID' \in Nat /\ nextID' >= nextID /\ phase # "down" /\ phase' # "down"
    /\ \A j \in index' : j \in index \/ j > nextID
    /\ \A x \in Elems(u) : /\ Named(x) \subseteq 1 .. nextID'
                           /\ x.do = "delete" => x.jobs \cap index' = {}

\* Only a save takes a snapshot, only a write files one, only a delete drops one.
Shoots(t, u) ==
    /\ \A j \in Ids : jobs'[j].seq = IF At(t, "save") /\ Arg(t).job = j THEN jobs[j].seq + 1 ELSE jobs[j].seq
    /\ \A x \in Elems(u) : x.do = "write" =>
          At(t, "save") /\ x.job = Arg(t).job /\ x.row.seq = jobs[x.job].seq + 1 /\ x.row.status = jobs[x.job].status
    /\ At(t, "save") => /\ jobs'[Arg(t).job].status = jobs[Arg(t).job].status
                        /\ \E x \in Elems(u) : x.do = "write" /\ x.job = Arg(t).job
    /\ \A j \in Ids :
          IF At(t, "write") /\ Arg(t).job = j
            THEN rows'[j] = IF Accepts(rows[j], Arg(t).row) THEN Arg(t).row ELSE rows[j]
            ELSE rows'[j] = rows[j] \/ (At(t, "delete") /\ j \in Arg(t).jobs /\ rows'[j] = NoRow)

\* Who changes the status of a listed job will save it, and passes on what it owes.
Promising(t, u) ==
    /\ \A j \in index' : \/ j \in index /\ jobs'[j].status = jobs[j].status
                         \/ IsHeld(j)' \/ \E x \in Elems(u) : Promises(x, j)
    /\ \A j \in index' : IsHeld(j) => IsHeld(j)' \/ \E x \in Elems(u) : Promises(x, j)
    /\ \A j \in index' : ~Idle(t) /\ ~At(t, "save") /\ Promises(Arg(t), j) =>
          \E x \in Elems(u) : Promises(x, j)

Marking(t, u) ==
    /\ highWater' = IF At(t, "high") /\ Arg(t).job > highWater THEN Arg(t).job ELSE highWater
    /\ told' = IF At(t, "answer") THEN told \cup {Arg(t).job} ELSE told
    /\ At(t, "save") => \E y \in Elems(u) : y.do = "high" /\ y.job = Arg(t).job
    /\ \A x \in Elems(u) : x.do \in {"answer", "wait"} =>
          (At(t, "wait") /\ Arg(t).job = x.job) \/ \E y \in Elems(u) : y.do = "save" /\ y.job = x.job

Locking(t, u) ==
    \/ ~At(t, "unlock") /\ rowWrite' = rowWrite /\ \A x \in Elems(u) : x.do # "unlock"
    \/ At(t, "unlock") /\ rowWrite' = Free /\ \A x \in Elems(u) : x.do # "unlock"
    \/ ~At(t, "unlock") /\ rowWrite = Free /\ rowWrite' = t /\ AtMostOnce(u, Unlocks)

\* A job on a worker stays begun, and no Process is ahead without a save.
Starting(t, u) ==
    /\ \A j \in running : Begun(jobs[j]) => Begun(jobs'[j])
    /\ \A w \in Workers : \A x \in Elems(todo'[w]) : x.do = "process" =>
          /\ held'[w] = held[w]
          /\ \/ \E y \in Elems(todo[w]) : y.do = "process"
             \/ w = t /\ Begun(jobs'[held[w]]) /\ \E y \in Elems(u) : y.do = "save" /\ y.job = held[w]

\* Who takes a job out of the index deletes its row, and nobody starts to write
\* the row of a job that is gone.
Removing(t, u) ==
    /\ \A j \in index \ index' : \E x \in Elems(u) : x.do = "delete" /\ j \in x.jobs
    /\ \A j \in Ids \ (index \cup index') : \A x \in Elems(u) :
          Writes(x, j) => ~Idle(t) /\ Writes(Arg(t), j)
    /\ At(t, "delete") => rowWrite' = Free /\ \A j \in Arg(t).jobs : rows'[j] = NoRow

\* A channel stays closed; only a job of the ring is run again; who ends a run
\* signals it, and passes on a signal it owes.
Waiting(t, u) ==
    LET Signaling(j) == jobs'[j].run \in jobs'[j].shut \/ \E y \in Elems(u) : Signals(y, j)
    IN  /\ \A j \in 1 .. nextID : /\ jobs[j].shut \subseteq jobs'[j].shut
                                  /\ jobs'[j].run = jobs[j].run \/ (j \in finished /\ j \in pending')
        /\ \A j \in Ids : ~Idle(t) /\ Signals(Arg(t), j) => Signaling(j)
        /\ \A j \in (pending \cup running) \ (pending' \cup running') : Signaling(j)
        /\ \A j \in finished' \ finished : Signaling(j)
        /\ \A x \in Elems(u) : x.do = "await" => x.row.seq = jobs'[x.job].run /\ x.job \in index'

Traced(t, u) ==
    /\ Reaches(u) /\ Shoots(t, u) /\ Promising(t, u) /\ Closes(t, u) /\ Marking(t, u)
    /\ Locking(t, u) /\ Starting(t, u) /\ Removing(t, u) /\ Waiting(t, u)

\* What a goroutine can rely on of its own next step.
LEMMA Ahead ==
    ASSUME StoreInv, NEW t \in Threads, ~Idle(t)
    PROVE  /\ Arg(t) \in Step /\ Arg(t) \in InHand /\ Arg(t) \in Elems(todo[t])
           /\ Named(Arg(t)) \subseteq 1 .. nextID /\ Named(Arg(t)) \subseteq Ids
           /\ Arg(t).do \in OfJob => Arg(t).job \in Ids /\ Named(Arg(t)) = {Arg(t).job}
           /\ Arg(t).do = "write" => Arg(t).row.seq <= jobs[Arg(t).job].seq
           /\ Arg(t).do = "delete" => Arg(t).jobs \cap index = {}
  <1>1. Arg(t) \in Step /\ Sound(Arg(t))
    BY Pursuing DEF StoreInv
  <1>2. todo[t] \in Seq(Step) /\ todo[t] # << >>
    BY DEF StoreInv, IInv, TypeOK, Idle
  <1>3. Arg(t) \in Elems(todo[t])
    BY <1>2, ElemsOfHeadTail DEF Arg
  <1>4. Arg(t) \in InHand
    BY <1>3 DEF InHand
  <1>5. nextID \in 0 .. MaxJobs /\ MaxJobs \in Nat
    BY BoundsAssumption DEF StoreInv, IInv, TypeOK
  <1>6. Named(Arg(t)) \subseteq 1 .. nextID
    BY <1>4 DEF StoreInv, Dated
  <1>7. Named(Arg(t)) \subseteq Ids
    BY <1>5, <1>6 DEF Ids
  <1> QED BY <1>1, <1>3, <1>4, <1>6, <1>7 DEF StoreInv, Dated, Sound, Named

LEMMA DatedIsKept ==
    ASSUME StoreInv, IInv', NEW t \in Threads, NEW u \in Seq(Step), Becomes(t, u),
           Reaches(u), Shoots(t, u)
    PROVE  Dated'
  <1>0. TypeOK
    BY DEF StoreInv, IInv
  <1>1. /\ InHand' \subseteq InHand \cup Elems(u) /\ InHand \subseteq Step /\ InHand' \subseteq Step
        /\ jobs \in [Ids -> JobType] /\ rows \in [Ids -> RowType] /\ nextID \in Nat
        /\ \A j \in Ids : jobs[j].seq \in Nat /\ rows[j].seq \in Nat
    <2>1. InHand' \subseteq InHand \cup Elems(u) /\ InHand \subseteq Step /\ InHand' \subseteq Step
      BY <1>0, HandsMove
    <2> QED BY <1>0, <2>1 DEF TypeOK, JobType, RowType
  <1>2. \A j \in Ids : jobs'[j].seq \in Nat /\ jobs'[j].seq >= jobs[j].seq
    BY <1>1 DEF Shoots
  <1>3. ASSUME NEW x \in InHand' PROVE Named(x) \subseteq 1 .. nextID' /\ (x.do = "delete" => x.jobs \cap index' = {})
    <2>1. CASE x \in Elems(u)
      BY <2>1 DEF Reaches
    <2>2. CASE x \in InHand
      <3>1. Named(x) \subseteq 1 .. nextID /\ (x.do = "delete" => x.jobs \cap index = {})
        BY <2>2 DEF StoreInv, Dated
      <3>2. Named(x) \subseteq 1 .. nextID'
        BY <1>1, <3>1 DEF Reaches
      <3>3. x.do = "delete" => Named(x) = x.jobs
        BY DEF Named, OfJob
      <3> QED BY <1>1, <3>1, <3>2, <3>3 DEF Reaches
    <2> QED BY <1>1, <1>3, <2>1, <2>2
  <1>4. ASSUME NEW x \in InHand', x.do = "write" PROVE x.row.seq <= jobs'[x.job].seq
    <2>1. x.job \in Ids
      BY <1>3, <1>4 DEF Named, OfJob, IInv, Steps, InHand, Sound
    <2>2. CASE x \in Elems(u)
      BY <1>1, <1>4, <2>1, <2>2 DEF Shoots
    <2>3. CASE x \in InHand
      <3>1. x.row.seq <= jobs[x.job].seq /\ x.row.seq \in Nat
        BY <1>1, <1>4, <2>3 DEF StoreInv, Dated, Step
      <3> QED BY <1>1, <1>2, <2>1, <3>1
    <2> QED BY <1>1, <1>4, <2>2, <2>3
  <1>5. ASSUME NEW j \in Ids PROVE rows'[j].seq <= jobs'[j].seq /\ (j > nextID' => rows'[j] = NoRow /\ jobs'[j].seq = 0)
    <2>1. rows[j].seq <= jobs[j].seq /\ (j > nextID => rows[j] = NoRow /\ jobs[j].seq = 0)
      BY DEF StoreInv, Dated, Reaches
    <2>2. j > nextID' => j > nextID
      BY <1>1 DEF Reaches, Ids
    <2>3. CASE At(t, "write") /\ Arg(t).job = j
      <3>1. Arg(t).row.seq <= jobs[j].seq /\ j \in 1 .. nextID /\ Arg(t) \in Step
        BY <2>3, Ahead DEF At, Arg, Named, OfJob
      <3>2. Arg(t).row.seq \in Nat
        BY <3>1 DEF Step
      <3>3. rows'[j] = Arg(t).row \/ rows'[j] = rows[j]
        BY <2>3 DEF Shoots
      <3> QED BY <1>1, <1>2, <2>1, <2>2, <3>1, <3>2, <3>3
    <2>4. CASE ~(At(t, "write") /\ Arg(t).job = j)
      <3>1. rows'[j] = rows[j] \/ rows'[j] = NoRow
        BY <2>4 DEF Shoots
      <3>2. rows'[j].seq <= jobs'[j].seq
        BY <1>1, <1>2, <2>1, <3>1 DEF NoRow
      <3>3. j > nextID' => jobs'[j].seq = 0
        <4>1. At(t, "save") => Named(Arg(t)) \subseteq 1 .. nextID /\ Named(Arg(t)) = {Arg(t).job}
          BY Ahead DEF At, Arg, OfJob
        <4>2. j > nextID => j \notin 1 .. nextID
          BY <1>1 DEF Ids
        <4> QED BY <2>1, <2>2, <4>1, <4>2 DEF Shoots
      <3> QED BY <2>1, <2>2, <3>1, <3>2, <3>3
    <2> QED BY <2>3, <2>4
  <1> QED BY <1>3, <1>4, <1>5 DEF Dated

\* Promises stay, but for the save that is carried out.
LEMMA PromisesStay ==
    ASSUME StoreInv, NEW t \in Threads, NEW u \in Seq(Step), Becomes(t, u), Promising(t, u),
           NEW j \in index', j \in index, Promised(j), ~(At(t, "save") /\ Arg(t).job = j)
    PROVE  Promised(j)'
  <1>1. /\ Elems(u) \subseteq InHand'
        /\ \A x \in InHand : x \in InHand' \/ (~Idle(t) /\ x = Arg(t))
    BY HandsMove DEF StoreInv, IInv
  <1>2. IsHeld(j)' \/ (\E x \in Elems(u) : Promises(x, j)) => Promised(j)'
    <2>1. \A x : Promises(x, j)' <=> Promises(x, j)
      BY DEF Promises, Named
    <2> QED BY <1>1, <2>1 DEF Promised
  <1>3. CASE IsHeld(j)
    BY <1>2, <1>3 DEF Promising
  <1>4. CASE \E x \in InHand : Promises(x, j)
    <2>1. PICK x \in InHand : Promises(x, j)
      BY <1>4
    <2>2. CASE x \in InHand'
      BY <2>1, <2>2 DEF Promised, Promises, Named
    <2>3. CASE ~Idle(t) /\ x = Arg(t)
      <3>1. ~At(t, "save")
        BY <2>1, <2>3 DEF Promises, Named, OfJob, At, Arg
      <3> QED BY <1>2, <2>1, <2>3, <3>1 DEF Promising
    <2> QED BY <1>1, <2>2, <2>3
  <1> QED BY <1>3, <1>4 DEF Promised

\* A job that is listed, and not on a worker, has a status.
LEMMA ListedHasStatus ==
    ASSUME IInv, NEW j \in index, ~IsHeld(j)
    PROVE  jobs[j].status # "none"
  <1>1. j \in pending \cup finished
    BY DEF IInv, OnePlace, OneWorkerPerJob, IsHeld
  <1> QED BY <1>1 DEF IInv, OnePlace, IsSettled, Settled

LEMMA CaughtUpIsKept ==
    ASSUME StoreInv, NEW t \in Threads, NEW u \in Seq(Step), Becomes(t, u),
           Shoots(t, u), Promising(t, u)
    PROVE  CaughtUp'
  <1> SUFFICES ASSUME NEW j \in index', ~Promised(j)' PROVE Written(j)'
    BY DEF CaughtUp
  <1>0. IInv /\ TypeOK /\ Dated
    BY DEF StoreInv, IInv
  <1>1. /\ InHand' \subseteq InHand \cup Elems(u) /\ InHand \subseteq Step /\ InHand' \subseteq Step
        /\ Elems(u) \subseteq InHand'
        /\ \A x \in InHand : x \in InHand' \/ (~Idle(t) /\ x = Arg(t))
    BY <1>0, HandsMove
  <1>2. ~IsHeld(j)' /\ ~\E x \in Elems(u) : Promises(x, j)
    <2>1. \A x : Promises(x, j)' <=> Promises(x, j)
      BY DEF Promises, Named
    <2> QED BY <1>1, <2>1 DEF Promised
  <1>3. j \in index /\ j \in Ids /\ jobs'[j].status = jobs[j].status
    BY <1>0, <1>2 DEF Promising, TypeOK
  <1>4. CASE At(t, "save") /\ Arg(t).job = j
    <2>1. jobs'[j].seq = jobs[j].seq + 1 /\ jobs[j].seq \in Nat /\ rows'[j] = rows[j]
          /\ rows[j].seq \in Nat /\ rows[j].seq <= jobs[j].seq
      <3>1. rows[j].seq <= jobs[j].seq
        BY <1>0, <1>3, <1>4, Pursuing DEF Dated, At
      <3>2. ~At(t, "write") /\ ~At(t, "delete")
        BY <1>4 DEF At
      <3> QED BY <1>0, <1>3, <1>4, <3>1, <3>2 DEF Shoots, TypeOK, JobType, RowType
    <2>2. PICK x \in Elems(u) : x.do = "write" /\ x.job = j
      BY <1>4 DEF Shoots
    <2>3. x \in WritesOf(j)' /\ x.row.seq = jobs'[j].seq
      BY <1>1, <2>1, <2>2 DEF Shoots, WritesOf
    <2>4. \A z \in WritesOf(j)' : z.row.seq = jobs'[j].seq => z.row.status = jobs'[j].status
      <3> SUFFICES ASSUME NEW z \in InHand', z.do = "write", z.job = j, z.row.seq = jobs'[j].seq
                   PROVE  z.row.status = jobs[j].status
        BY <1>3 DEF WritesOf
      <3>1. z \notin InHand
        <4>1. z \in InHand => z.row.seq <= jobs[j].seq
          BY <1>0 DEF Dated
        <4> QED BY <2>1, <4>1
      <3> QED BY <1>1, <3>1 DEF Shoots
    <2> QED BY <2>1, <2>3, <2>4 DEF Written
  <1>5. CASE ~(At(t, "save") /\ Arg(t).job = j)
    <2>1. ~Promised(j)
      BY <1>3, <1>5, PromisesStay
    <2>2. Written(j) /\ ~IsHeld(j)
      BY <1>3, <2>1 DEF StoreInv, CaughtUp, Promised
    <2>3. jobs[j].status # "none"
      BY <1>0, <1>3, <2>2, ListedHasStatus
    <2>4. jobs'[j].seq = jobs[j].seq
      BY <1>3, <1>5 DEF Shoots
    <2>5. WritesOf(j)' \subseteq WritesOf(j)
      <3>1. \A x \in Elems(u) : x.do = "write" => x.job # j
        BY <1>5 DEF Shoots
      <3> QED BY <1>1, <3>1 DEF WritesOf
    <2>6. CASE At(t, "write") /\ Arg(t).job = j
      <3> DEFINE x == Arg(t)
      <3>1. x \in WritesOf(j) /\ x.row.seq \in Nat /\ x.row.seq <= jobs[j].seq
        BY <2>6, Ahead DEF WritesOf, At, Arg, Step
      <3>2. rows[j].seq \in Nat /\ jobs[j].seq \in Nat
        BY <1>0, <1>3 DEF TypeOK, JobType, RowType
      <3>3. \A z \in WritesOf(j) : z \in WritesOf(j)' \/ z = x
        BY <1>1 DEF WritesOf
      <3>4. rows'[j] = IF rows[j].status = "none" \/ x.row.seq >= rows[j].seq THEN x.row ELSE rows[j]
        BY <1>3, <2>6 DEF Shoots, Accepts
      <3> HIDE DEF x
      <3>5. CASE rows[j].seq = jobs[j].seq
        <4>1. rows[j].status = jobs[j].status
          BY <2>2, <3>5 DEF Written
        <4>2. rows'[j].seq = jobs[j].seq /\ rows'[j].status = jobs[j].status
          BY <2>2, <2>3, <3>1, <3>2, <3>4, <3>5, <4>1 DEF Written
        <4> QED BY <1>3, <2>2, <2>4, <2>5, <4>2 DEF Written
      <3>6. CASE rows[j].seq # jobs[j].seq
        <4>1. PICK z \in WritesOf(j) : z.row.seq = jobs[j].seq
          BY <2>2, <3>6 DEF Written
        <4>2. rows[j].seq <= jobs[j].seq
          BY <1>0, <1>3, <2>6, Pursuing DEF Dated, At
        <4>3. CASE x.row.seq = jobs[j].seq
          <5>1. rows'[j] = x.row /\ x.row.status = jobs[j].status
            BY <2>2, <3>1, <3>2, <3>4, <4>2, <4>3 DEF Written
          <5> QED BY <1>3, <2>2, <2>4, <2>5, <4>3, <5>1 DEF Written
        <4>4. CASE x.row.seq # jobs[j].seq
          <5>1. z \in WritesOf(j)' /\ rows'[j].seq # jobs[j].seq
            BY <3>3, <3>4, <3>6, <4>1, <4>4
          <5> QED BY <1>3, <2>2, <2>4, <2>5, <4>1, <5>1 DEF Written
        <4> QED BY <4>3, <4>4
      <3> QED BY <3>5, <3>6
    <2>7. CASE ~(At(t, "write") /\ Arg(t).job = j)
      <3>1. At(t, "delete") => j \notin Arg(t).jobs
        BY <1>3, Ahead DEF At, Arg
      <3>2. rows'[j] = rows[j]
        BY <1>3, <2>7, <3>1 DEF Shoots
      <3>3. WritesOf(j) \subseteq WritesOf(j)'
        BY <1>1, <2>7 DEF WritesOf, At, Arg
      <3>4. WritesOf(j)' = WritesOf(j)
        BY <2>5, <3>3
      <3> QED BY <1>3, <2>2, <2>4, <3>2, <3>4 DEF Written
    <2> QED BY <2>6, <2>7
  <1> QED BY <1>4, <1>5

LEMMA MarkedIsKept ==
    ASSUME StoreInv, NEW t \in Threads, NEW u \in Seq(Step), Becomes(t, u),
           Reaches(u), Marking(t, u)
    PROVE  Marked'
  <1>0. /\ TypeOK /\ Marked /\ Ordered
        /\ highWater \in Nat /\ nextID \in Nat /\ nextID' \in Nat /\ nextID' >= nextID
        /\ phase # "down"
    BY BoundsAssumption DEF StoreInv, IInv, TypeOK, Reaches
  <1>1. /\ \A o \in Threads \ {t} : todo'[o] = todo[o]
        /\ \A x \in Elems(todo'[t]) : x \in Elems(u) \/ x \in Elems(todo[t])
        /\ Elems(u) \subseteq Elems(todo'[t])
        /\ \A x \in Elems(todo[t]) : x \in Elems(todo'[t]) \/ (~Idle(t) /\ x = Arg(t))
        /\ InHand' \subseteq Step /\ InHand \subseteq Step
    BY <1>0, HandsMove
  <1>2. /\ highWater' \in Nat /\ highWater' >= highWater
        /\ At(t, "high") => highWater' >= Arg(t).job /\ Arg(t).job \in Nat
    <2>1. At(t, "high") => Arg(t).job \in Nat
      BY Ahead DEF At, Arg, OfJob, Ids
    <2> QED BY <1>0, <2>1 DEF Marking
  <1>3. highWater' <= nextID'
    <2>1. At(t, "high") => Arg(t).job \in 1 .. nextID
      BY Ahead DEF At, Arg, OfJob
    <2> QED BY <1>0, <2>1 DEF Marking, Marked
  <1>4. \A j \in told' : j <= highWater'
    <2>1. \A j \in told : j <= highWater /\ j \in Nat
      BY <1>0 DEF Marked, TypeOK, Ids
    <2>2. At(t, "answer") => Arg(t).job <= highWater /\ Arg(t).job \in Nat
      <3> SUFFICES ASSUME At(t, "answer") PROVE Arg(t).job <= highWater /\ Arg(t).job \in Nat
        OBVIOUS
      <3>1. ~Idle(t) /\ Arg(t).do = "answer"
        BY DEF At, Arg
      <3>2. Elems(todo[t]) = {Arg(t)}
        BY <1>0, <3>1, ClosingIsLast DEF Closing
      <3>3. Arg(t).job <= highWater
        BY <1>0, <3>1, <3>2 DEF Marked, Marks
      <3> QED BY <3>1, <3>3, Ahead DEF OfJob, Ids
    <2> QED BY <1>0, <1>2, <2>1, <2>2 DEF Marking
  <1>5. ASSUME NEW o \in Threads, NEW x \in Elems(todo'[o]), x.do \in {"answer", "wait"}
        PROVE  x.job <= highWater' \/ \E y \in Elems(todo'[o]) : Marks(y, x)
    <2>0. x \in Step
      BY <1>1, <1>5 DEF InHand
    <2>00. x.job \in Nat
      BY <2>0, BoundsAssumption DEF Step
    <2>1. CASE o # t
      <3>1. todo'[o] = todo[o]
        BY <1>1, <2>1
      <3>2. x.job <= highWater \/ \E y \in Elems(todo[o]) : Marks(y, x)
        BY <1>0, <1>5, <3>1 DEF Marked
      <3> QED BY <1>0, <1>2, <2>00, <3>1, <3>2
    <2>2. CASE o = t /\ x \in Elems(todo[t])
      <3>1. x.job <= highWater \/ \E y \in Elems(todo[t]) : Marks(y, x)
        BY <1>0, <1>5, <2>2 DEF Marked
      <3>2. CASE x.job <= highWater
        BY <1>0, <1>2, <2>00, <3>2
      <3>3. CASE \E y \in Elems(todo[t]) : Marks(y, x)
        <4>1. PICK y \in Elems(todo[t]) : Marks(y, x)
          BY <3>3
        <4>2. CASE y \in Elems(todo'[t])
          BY <2>2, <4>1, <4>2
        <4>3. CASE ~Idle(t) /\ y = Arg(t)
          <5>1. At(t, "save") \/ At(t, "high")
            BY <4>1, <4>3 DEF Marks, At, Arg
          <5>2. CASE At(t, "save")
            <6>1. PICK z \in Elems(u) : z.do = "high" /\ z.job = Arg(t).job
              BY <5>2 DEF Marking
            <6> QED BY <1>1, <2>2, <4>1, <4>3, <6>1 DEF Marks
          <5>3. CASE At(t, "high")
            BY <1>2, <4>1, <4>3, <5>3 DEF Marks
          <5> QED BY <5>1, <5>2, <5>3
        <4> QED BY <1>1, <4>1, <4>2, <4>3
      <3> QED BY <3>1, <3>2, <3>3
    <2>3. CASE o = t /\ x \in Elems(u)
      <3>1. CASE At(t, "wait") /\ Arg(t).job = x.job
        <4>1. ~Idle(t) /\ Arg(t).do = "wait" /\ Arg(t) \in Elems(todo[t])
          BY <3>1, Ahead DEF At, Arg
        <4>2. Elems(todo[t]) = {Arg(t)}
          BY <1>0, <4>1, ClosingIsLast DEF Closing
        <4>3. Arg(t).job <= highWater
          BY <1>0, <4>1, <4>2 DEF Marked, Marks
        <4> QED BY <1>0, <1>2, <2>00, <3>1, <4>3
      <3>2. CASE \E y \in Elems(u) : y.do = "save" /\ y.job = x.job
        BY <1>1, <2>3, <3>2 DEF Marks
      <3> QED BY <1>5, <2>3, <3>1, <3>2 DEF Marking
    <2> QED BY <1>1, <1>5, <2>1, <2>2, <2>3
  <1>6. \A o \in Threads : \A x \in Elems(todo'[o]) :
          x.do \in {"answer", "wait"} => x.job <= highWater' \/ \E y \in Elems(todo'[o]) : Marks(y, x)
    BY <1>5
  <1> QED BY <1>3, <1>4, <1>6 DEF Marked, Marks

LEMMA LockedIsKept ==
    ASSUME StoreInv, NEW t \in Threads, NEW u \in Seq(Step), Becomes(t, u), Locking(t, u)
    PROVE  Locked'
  <1>0. TypeOK /\ Locked /\ Free \notin Threads
    BY ThreadsAssumption DEF StoreInv, IInv
  <1>1. /\ \A o \in Threads \ {t} : todo'[o] = todo[o]
        /\ \A x \in Elems(todo'[t]) : x \in Elems(u) \/ x \in Elems(todo[t])
        /\ InHand' \subseteq Step /\ InHand \subseteq Step
    BY <1>0, HandsMove
  <1>2. /\ AtMostOnce(todo'[t], Unlocks)
        /\ At(t, "unlock") => \A x \in Elems(todo'[t]) : x.do # "unlock"
    <2>1. CASE Idle(t)
      <3>1. todo'[t] = u /\ ~At(t, "unlock")
        BY <1>0, <2>1, BeginElems DEF Becomes, At
      <3>2. AtMostOnce(u, Unlocks)
        <4>1. CASE \A x \in Elems(u) : x.do # "unlock"
          BY <4>1 DEF AtMostOnce, Unlocks, Elems
        <4> QED BY <4>1, <3>1 DEF Locking
      <3> QED BY <3>1, <3>2
    <2>2. CASE ~Idle(t)
      <3> DEFINE s == Tail(todo[t])
      <3>1. Proceed(t, u)
        BY <2>2 DEF Becomes
      <3>2. /\ todo'[t] = u \o s /\ s \in Seq(Step) /\ Elems(todo'[t]) = Elems(u) \cup Elems(s)
            /\ Elems(todo[t]) = {Arg(t)} \cup Elems(s)
        BY <1>0, <2>2, <3>1, ProceedElems
      <3>3. todo[t] \in Seq(Step) /\ todo[t] # << >> /\ AtMostOnce(todo[t], Unlocks)
        BY <1>0, <2>2 DEF TypeOK, Idle, Locked
      <3>4. AtMostOnce(s, Unlocks) /\ (Head(todo[t]) \in Unlocks => Elems(s) \cap Unlocks = {})
        BY <3>3, AtMostOnceInTail
      <3>5. Elems(s) \subseteq Step /\ Arg(t) \in Step
        BY <1>0, <2>2, <3>2, Ahead, ElementOfSeq, LenProperties DEF Elems
      <3> HIDE DEF s
      <3>6. CASE \A x \in Elems(u) : x.do # "unlock"
        <4>1. AtMostOnce(u, Unlocks) /\ Elems(u) \cap Unlocks = {}
          BY <3>6 DEF AtMostOnce, Unlocks, Elems
        <4>2. AtMostOnce(todo'[t], Unlocks)
          BY <3>2, <3>4, <4>1, AtMostOnceInConcat
        <4>3. At(t, "unlock") => Elems(s) \cap Unlocks = {}
          BY <3>4, <3>5 DEF At, Arg, Unlocks
        <4> QED BY <3>2, <3>5, <3>6, <4>2, <4>3 DEF Unlocks
      <3>7. CASE ~At(t, "unlock") /\ rowWrite = Free /\ rowWrite' = t /\ AtMostOnce(u, Unlocks)
        <4>1. \A x \in Elems(todo[t]) : x.do # "unlock"
          BY <1>0, <3>7 DEF Locked
        <4>2. Elems(s) \cap Unlocks = {}
          BY <3>2, <4>1 DEF Unlocks
        <4> QED BY <3>2, <3>4, <3>7, <4>2, AtMostOnceInConcat
      <3> QED BY <3>6, <3>7 DEF Locking
    <2> QED BY <2>1, <2>2
  <1>3. ASSUME NEW o \in Threads PROVE AtMostOnce(todo'[o], Unlocks)
    BY <1>0, <1>1, <1>2 DEF Locked
  <1>4. ASSUME NEW o \in Threads, NEW x \in Elems(todo'[o]), x.do = "unlock" PROVE rowWrite' = o
    <2>1. CASE At(t, "unlock")
      <3>1. rowWrite = t
        BY <1>0, <2>1, Ahead DEF Locked, At, Arg
      <3>2. o # t
        BY <1>2, <1>4, <2>1
      <3> QED BY <1>0, <1>1, <1>4, <3>1, <3>2 DEF Locked
    <2>2. CASE ~At(t, "unlock") /\ rowWrite = Free
      BY <1>0, <1>1, <1>4, <2>2 DEF Locked, Locking
    <2>3. CASE ~At(t, "unlock") /\ rowWrite # Free
      BY <1>0, <1>1, <1>4, <2>3 DEF Locked, Locking
    <2> QED BY <2>1, <2>2, <2>3
  <1> QED BY <1>3, <1>4 DEF Locked

LEMMA SaidByRowStays ==
    ASSUME StoreInv, NEW t \in Threads, NEW u \in Seq(Step), Becomes(t, u), Shoots(t, u),
           phase # "down", NEW w \in Workers, NEW j \in Ids, j \in index,
           Begun(jobs[j]), SaidByRow(w, j)
    PROVE  SaidByRow(w, j)'
  <1>0. TypeOK /\ Dated /\ OnDisk /\ IInv
    BY DEF StoreInv, IInv
  <1>1. /\ \A o \in Threads \ {t} : todo'[o] = todo[o]
        /\ InHand' \subseteq InHand \cup Elems(u) /\ Elems(u) \subseteq InHand'
        /\ Elems(u) \subseteq Elems(todo'[t])
        /\ \A x \in Elems(todo[t]) : x \in Elems(todo'[t]) \/ (~Idle(t) /\ x = Arg(t))
        /\ InHand' \subseteq Step /\ InHand \subseteq Step /\ w \in Threads
    BY <1>0, HandsMove DEF Threads
  <1>2. rows[j].seq \in Nat /\ jobs[j].seq \in Nat /\ rows[j].seq <= jobs[j].seq
        /\ \A z \in WritesOf(j) : z.row.seq \in Nat /\ z.row.seq <= jobs[j].seq
    <2>1. rows[j].seq \in Nat /\ jobs[j].seq \in Nat
      BY <1>0 DEF TypeOK, JobType, RowType
    <2>2. rows[j].seq <= jobs[j].seq
      BY <1>0 DEF Dated
    <2>3. \A z \in WritesOf(j) : z.row.seq \in Nat /\ z.row.seq <= jobs[j].seq
      BY <1>0, <1>1 DEF Dated, WritesOf, Step
    <2> QED BY <2>1, <2>2, <2>3
  <1>3. At(t, "delete") => j \notin Arg(t).jobs
    BY Ahead DEF At, Arg
  <1>4. ASSUME NEW z \in WritesOf(j)'
        PROVE  z \in WritesOf(j) \/ (At(t, "save") /\ Arg(t).job = j /\ z.row.seq = jobs[j].seq + 1 /\ Begun(z.row))
    <2>1. z \in InHand \/ z \in Elems(u)
      BY <1>1, <1>4 DEF WritesOf
    <2>2. z.do = "write" /\ z.job = j
      BY <1>4 DEF WritesOf
    <2> QED BY <2>1, <2>2 DEF WritesOf, Shoots, Begun
  <1>5. rows'[j] = rows[j] \/ (At(t, "write") /\ Arg(t).job = j /\ rows'[j] = Arg(t).row /\ Arg(t) \in WritesOf(j)
                                /\ (Begun(rows[j]) => Arg(t).row.seq >= rows[j].seq))
    <2>1. CASE At(t, "write") /\ Arg(t).job = j
      <3>1. Arg(t) \in WritesOf(j)
        BY <2>1, Ahead DEF WritesOf, At, Arg
      <3> QED BY <2>1, <3>1 DEF Shoots, Accepts, Begun
    <2>2. CASE ~(At(t, "write") /\ Arg(t).job = j)
      BY <1>3, <2>2 DEF Shoots
    <2> QED BY <2>1, <2>2
  <1>6. ASSUME NEW r, r.seq \in Nat, Settles(r, j)
        PROVE  Settles(r, j)'
    <2>1. /\ Begun(r) /\ (rows[j].seq >= r.seq => Begun(rows[j]))
          /\ \A z \in WritesOf(j) : z.row.seq >= r.seq => Begun(z.row)
      BY <1>6 DEF Settles
    <2>2. rows'[j].seq >= r.seq => Begun(rows'[j])
      BY <1>5, <2>1
    <2>3. \A z \in WritesOf(j)' : z.row.seq >= r.seq => Begun(z.row)
      BY <1>4, <2>1
    <2> QED BY <2>1, <2>2, <2>3 DEF SaidByRow, Settles, Begun
  <1>7. CASE Settles(rows[j], j)
    <2>1. CASE rows'[j] = rows[j]
      <3>1. /\ Begun(rows'[j]) /\ (rows'[j].seq >= rows'[j].seq => Begun(rows'[j]))
            /\ \A z \in WritesOf(j)' : z.row.seq >= rows'[j].seq => Begun(z.row)
        <4>1. Begun(rows[j])
          BY <1>7 DEF Settles
        <4>2. \A z \in WritesOf(j)' : z.row.seq >= rows[j].seq => Begun(z.row)
          BY <1>4, <1>7 DEF Settles
        <4> QED BY <2>1, <4>1, <4>2
      <3> QED BY <3>1 DEF SaidByRow, Settles, Begun
    <2>2. CASE At(t, "write") /\ rows'[j] = Arg(t).row /\ Arg(t) \in WritesOf(j) /\ Arg(t).row.seq >= rows[j].seq
      <3> DEFINE r == Arg(t).row
      <3>1. Begun(r) /\ r.seq \in Nat
        BY <1>2, <1>7, <2>2 DEF Settles
      <3>2. \A z \in WritesOf(j)' : z.row.seq >= r.seq => Begun(z.row)
        <4> SUFFICES ASSUME NEW z \in WritesOf(j)', z.row.seq >= r.seq, z \in WritesOf(j) PROVE Begun(z.row)
          BY <1>4
        <4>1. z.row.seq >= rows[j].seq
          BY <1>2, <2>2
        <4> QED BY <1>7, <4>1 DEF Settles
      <3>3. /\ Begun(rows'[j]) /\ (rows'[j].seq >= rows'[j].seq => Begun(rows'[j]))
            /\ \A z \in WritesOf(j)' : z.row.seq >= rows'[j].seq => Begun(z.row)
        BY <2>2, <3>1, <3>2
      <3> QED BY <3>3 DEF SaidByRow, Settles, Begun
    <2>3. Begun(rows[j])
      BY <1>7 DEF Settles
    <2> QED BY <1>5, <2>1, <2>2, <2>3
  <1>8. CASE \E x \in Elems(todo[w]) : x.do = "save" /\ x.job = j
    <2>1. PICK x \in Elems(todo[w]) : x.do = "save" /\ x.job = j
      BY <1>8
    <2>2. CASE x \in Elems(todo'[w])
      BY <2>1, <2>2 DEF SaidByRow
    <2>3. CASE w = t /\ ~Idle(t) /\ x = Arg(t)
      <3>1. At(t, "save") /\ Arg(t).job = j
        BY <2>1, <2>3 DEF At, Arg
      <3>2. PICK z \in Elems(u) : z.do = "write" /\ z.job = j
        BY <3>1 DEF Shoots
      <3>3. z.row.seq = jobs[j].seq + 1 /\ Begun(z.row) /\ z \in Elems(todo'[w])
        BY <1>1, <2>3, <3>2 DEF Shoots, Begun
      <3>4. rows'[j] = rows[j]
        BY <1>5, <3>1 DEF At
      <3>5. /\ (rows'[j].seq >= z.row.seq => Begun(rows'[j]))
            /\ \A y \in WritesOf(j)' : y.row.seq >= z.row.seq => Begun(y.row)
        BY <1>2, <1>4, <3>3, <3>4
      <3> QED BY <3>2, <3>3, <3>5 DEF SaidByRow, Settles, Begun
    <2> QED BY <1>1, <2>1, <2>2, <2>3
  <1>9. CASE \E x \in Elems(todo[w]) : x.do = "write" /\ x.job = j /\ Settles(x.row, j)
    <2>1. PICK x \in Elems(todo[w]) : x.do = "write" /\ x.job = j /\ Settles(x.row, j)
      BY <1>9
    <2>2. x.row.seq \in Nat /\ x \in WritesOf(j)
      BY <1>1, <1>2, <2>1 DEF InHand, WritesOf
    <2>3. CASE x \in Elems(todo'[w])
      BY <1>6, <2>1, <2>2, <2>3 DEF SaidByRow
    <2>4. CASE w = t /\ ~Idle(t) /\ x = Arg(t)
      <3>1. At(t, "write") /\ Arg(t).job = j
        BY <2>1, <2>4 DEF At, Arg
      <3>2. rows'[j] = IF Accepts(rows[j], x.row) THEN x.row ELSE rows[j]
        BY <2>4, <3>1 DEF Shoots
      <3>3. Begun(x.row) /\ (rows[j].seq >= x.row.seq => Begun(rows[j]))
            /\ \A z \in WritesOf(j) : z.row.seq >= x.row.seq => Begun(z.row)
        BY <2>1 DEF Settles
      <3>4. Begun(rows'[j]) /\ rows'[j].seq >= x.row.seq
        BY <1>2, <2>2, <3>2, <3>3 DEF Accepts
      <3>5. \A z \in WritesOf(j)' : z.row.seq >= rows'[j].seq => Begun(z.row)
        <4> SUFFICES ASSUME NEW z \in WritesOf(j)', z.row.seq >= rows'[j].seq, z \in WritesOf(j) PROVE Begun(z.row)
          BY <1>4
        <4>1. z.row.seq >= x.row.seq
          <5>1. rows'[j].seq \in Nat
            BY <1>2, <2>2, <3>2
          <5> QED BY <1>2, <2>2, <3>4, <5>1
        <4> QED BY <3>3, <4>1
      <3> QED BY <3>4, <3>5 DEF SaidByRow, Settles, Begun
    <2> QED BY <1>1, <2>1, <2>3, <2>4
  <1> QED BY <1>7, <1>8, <1>9 DEF SaidByRow

LEMMA OnDiskIsKept ==
    ASSUME StoreInv, IInv', NEW t \in Threads, NEW u \in Seq(Step), Becomes(t, u),
           Reaches(u), Shoots(t, u), Starting(t, u)
    PROVE  OnDisk'
  <1>0. TypeOK /\ OnDisk /\ IInv /\ phase # "down"
    BY DEF StoreInv, IInv, Reaches
  <1> SUFFICES ASSUME NEW w \in Workers, NEW p \in Elems(todo'[w]), p.do = "process"
               PROVE  (Begun(jobs[held[w]]) /\ SaidByRow(w, held[w]))'
    BY DEF OnDisk
  <1>1. /\ Elems(u) \subseteq Elems(todo'[t])
        /\ InHand' \subseteq Step /\ w \in Threads
    BY <1>0, HandsMove DEF Threads
  <1>2. held'[w] = held[w]
    BY DEF Starting
  <1>3. p \in Mine
    BY <1>1 DEF InHand, Mine
  <1>4. held[w] # 0
    BY <1>2, <1>3 DEF IInv, Steps
  <1>5. PICK j \in Ids : held[w] = j
    BY <1>0, <1>4 DEF TypeOK
  <1>6. j \in running /\ j \in index
    BY <1>0, <1>4, <1>5 DEF IInv, OneWorkerPerJob, OnePlace
  <1>7. Begun(jobs'[j]) /\ SaidByRow(w, j)'
    <2>1. CASE w = t /\ Begun(jobs'[j]) /\ \E y \in Elems(u) : y.do = "save" /\ y.job = j
      BY <1>1, <2>1 DEF SaidByRow
    <2>2. CASE \E y \in Elems(todo[w]) : y.do = "process"
      <3>1. Begun(jobs[j]) /\ SaidByRow(w, j)
        BY <1>0, <1>5, <2>2 DEF OnDisk
      <3>2. SaidByRow(w, j)'
        BY <1>0, <1>6, <3>1, SaidByRowStays
      <3> QED BY <1>6, <3>1, <3>2 DEF Starting
    <2> QED BY <1>5, <2>1, <2>2 DEF Starting
  <1> QED BY <1>2, <1>5, <1>7 DEF SaidByRow, Settles, Begun, WritesOf

LEMMA GuardedTail ==
    ASSUME NEW s \in Seq(Step), s # << >>, NEW j, Guarded(s, j)
    PROVE  /\ Guarded(Tail(s), j)
           /\ Writes(Head(s), j) => \E y \in Elems(Tail(s)) : Undoes(y, j)
  <1> DEFINE r == Tail(s)
  <1>1. /\ r \in Seq(Step) /\ Len(r) = Len(s) - 1 /\ Head(s) = s[1]
        /\ Len(s) \in Nat \ {0} /\ \A i \in 1 .. Len(s) - 1 : r[i] = s[i + 1]
    BY HeadTailProperties, EmptySeq
  <1>2. DOMAIN s = 1 .. Len(s) /\ DOMAIN r = 1 .. Len(s) - 1
    BY <1>1, LenProperties
  <1> HIDE DEF r
  <1>3. ASSUME NEW i \in 1 .. Len(s), Writes(s[i], j)
        PROVE  \E k \in 1 .. Len(s) - 1 : i < k + 1 /\ Undoes(r[k], j)
    <2>1. PICK k \in 1 .. Len(s) : i < k /\ Undoes(s[k], j)
      BY <1>2, <1>3 DEF Guarded
    <2>2. k - 1 \in 1 .. Len(s) - 1 /\ r[k - 1] = s[(k - 1) + 1] /\ (k - 1) + 1 = k
      BY <1>1, <2>1
    <2> QED BY <2>1, <2>2
  <1>4. ASSUME NEW i \in 1 .. Len(s) - 1, Writes(r[i], j)
        PROVE  \E k \in 1 .. Len(s) - 1 : i < k /\ Undoes(r[k], j)
    <2>1. i + 1 \in 1 .. Len(s) /\ Writes(s[i + 1], j)
      BY <1>1, <1>4
    <2>2. PICK k \in 1 .. Len(s) - 1 : i + 1 < k + 1 /\ Undoes(r[k], j)
      BY <1>3, <2>1
    <2> QED BY <1>1, <2>2
  <1>5. Guarded(r, j)
    BY <1>2, <1>4 DEF Guarded
  <1>6. Writes(Head(s), j) => \E y \in Elems(r) : Undoes(y, j)
    <2>1. 1 \in 1 .. Len(s)
      BY <1>1
    <2>2. Writes(s[1], j) => \E k \in 1 .. Len(s) - 1 : Undoes(r[k], j)
      BY <1>3, <2>1
    <2> QED BY <1>1, <1>2, <2>2 DEF Elems
  <1> QED BY <1>5, <1>6 DEF r

LEMMA GuardedConcat ==
    ASSUME NEW s \in Seq(Step), NEW r \in Seq(Step), NEW j, Guarded(r, j),
           (\A x \in Elems(s) : ~Writes(x, j)) \/ \E y \in Elems(r) : Undoes(y, j)
    PROVE  Guarded(s \o r, j)
  <1>1. \A i \in 1 .. Len(s) + Len(r) : (s \o r)[i] = IF i <= Len(s) THEN s[i] ELSE r[i - Len(s)]
    BY ConcatProperties
  <1>2. /\ Len(s) \in Nat /\ Len(r) \in Nat
        /\ DOMAIN s = 1 .. Len(s) /\ DOMAIN r = 1 .. Len(r)
        /\ DOMAIN (s \o r) = 1 .. Len(s) + Len(r)
    BY LenProperties, ConcatProperties
  <1>3. ASSUME NEW k \in 1 .. Len(r)
        PROVE  k + Len(s) \in 1 .. Len(s) + Len(r) /\ (s \o r)[k + Len(s)] = r[k]
    <2>1. k + Len(s) \in 1 .. Len(s) + Len(r) /\ ~(k + Len(s) <= Len(s)) /\ (k + Len(s)) - Len(s) = k
      BY <1>2
    <2> QED BY <1>1, <2>1
  <1> SUFFICES ASSUME NEW i \in 1 .. Len(s) + Len(r), Writes((s \o r)[i], j)
               PROVE  \E k \in 1 .. Len(s) + Len(r) : i < k /\ Undoes((s \o r)[k], j)
    BY <1>2 DEF Guarded
  <1>4. CASE i <= Len(s)
    <2>1. i \in DOMAIN s /\ (s \o r)[i] = s[i] /\ s[i] \in Elems(s)
      BY <1>1, <1>2, <1>4 DEF Elems
    <2>2. PICK k \in 1 .. Len(r) : Undoes(r[k], j)
      BY <1>2, <2>1 DEF Elems
    <2> QED BY <1>2, <1>3, <1>4, <2>2
  <1>5. CASE i > Len(s)
    <2>1. i - Len(s) \in 1 .. Len(r) /\ (s \o r)[i] = r[i - Len(s)]
      BY <1>1, <1>2, <1>5
    <2>2. PICK k \in 1 .. Len(r) : i - Len(s) < k /\ Undoes(r[k], j)
      BY <1>2, <2>1 DEF Guarded
    <2>3. i < k + Len(s)
      BY <1>2, <2>2
    <2> QED BY <1>3, <2>2, <2>3
  <1> QED BY <1>2, <1>4, <1>5

LEMMA StraylessIsKept ==
    ASSUME StoreInv, Strayless, NEW t \in Threads, NEW u \in Seq(Step), Becomes(t, u),
           Removing(t, u), NoneOvertaken
    PROVE  Strayless'
  <1> SUFFICES ASSUME NEW j \in Ids \ index', NEW o \in Threads PROVE Guarded(todo[o], j)'
    BY DEF Strayless
  <1>0. TypeOK
    BY DEF StoreInv, IInv
  <1>1. CASE j \in index
    BY <1>1 DEF NoneOvertaken
  <1>2. CASE j \notin index
    <2>1. Guarded(todo[o], j)
      BY <1>2 DEF Strayless
    <2>2. CASE o # t
      <3>1. todo'[o] = todo[o]
        BY <1>0, <2>2, HandsMove
      <3> QED BY <2>1, <3>1 DEF Guarded, Writes, Undoes, Named
    <2>3. CASE o = t
      <3>1. Guarded(todo'[t], j)
        <4>1. CASE Idle(t)
          <5>1. todo'[t] = u
            BY <1>0, <4>1, BeginElems DEF Becomes
          <5>2. \A x \in Elems(u) : ~Writes(x, j)
            BY <1>2, <4>1 DEF Removing
          <5> QED BY <5>1, <5>2 DEF Guarded, Elems
        <4>2. CASE ~Idle(t)
          <5> DEFINE s == Tail(todo[t])
          <5>1. Proceed(t, u)
            BY <4>2 DEF Becomes
          <5>2. todo'[t] = u \o s /\ s \in Seq(Step)
            BY <1>0, <4>2, <5>1, ProceedElems
          <5>3. todo[t] \in Seq(Step) /\ todo[t] # << >>
            BY <1>0, <4>2 DEF TypeOK, Idle
          <5>4. Guarded(s, j) /\ (Writes(Arg(t), j) => \E y \in Elems(s) : Undoes(y, j))
            BY <2>1, <2>3, <5>3, GuardedTail DEF Arg
          <5>5. (\A x \in Elems(u) : ~Writes(x, j)) \/ Writes(Arg(t), j)
            BY <1>2, <4>2 DEF Removing
          <5> HIDE DEF s
          <5> QED BY <5>2, <5>4, <5>5, GuardedConcat
        <4> QED BY <4>1, <4>2
      <3> QED BY <2>3, <3>1 DEF Guarded, Writes, Undoes, Named
    <2> QED BY <2>2, <2>3
  <1> QED BY <1>1, <1>2

LEMMA GoneIsKept ==
    ASSUME StoreInv, Locked', Strayless', GoneIsGone, phase # "down",
           NEW t \in Threads, NEW u \in Seq(Step), Becomes(t, u), Shoots(t, u), Removing(t, u)
    PROVE  GoneIsGone'
  <1>0. TypeOK /\ Free \notin Threads
    BY ThreadsAssumption DEF StoreInv, IInv
  <1>1. /\ InHand' \subseteq InHand \cup Elems(u) /\ Elems(u) \subseteq InHand'
        /\ \A x \in InHand : x \in InHand' \/ (~Idle(t) /\ x = Arg(t))
    BY <1>0, HandsMove
  <1> SUFFICES ASSUME NEW j \in Ids \ index'
               PROVE  \/ \E x \in InHand' : x.do = "delete" /\ j \in x.jobs
                      \/ rows'[j].status = "none" /\ \A x \in InHand' : ~Writes(x, j)
    BY DEF GoneIsGone, Writes, Named
  <1>2. CASE j \in index
    BY <1>1, <1>2 DEF Removing
  <1>3. CASE j \notin index
    <2>1. \A x \in Elems(u) : Writes(x, j) => ~Idle(t) /\ Writes(Arg(t), j)
      BY <1>3 DEF Removing
    <2>2. CASE \E x \in InHand : x.do = "delete" /\ j \in x.jobs
      <3>1. PICK x \in InHand : x.do = "delete" /\ j \in x.jobs
        BY <2>2
      <3>2. CASE x \in InHand'
        BY <3>1, <3>2
      <3>3. CASE ~Idle(t) /\ x = Arg(t)
        <4>1. At(t, "delete") /\ rowWrite' = Free /\ rows'[j] = NoRow
          BY <3>1, <3>3 DEF At, Arg, Removing
        <4>2. CASE \E y \in InHand' : Writes(y, j)
          <5>0. PICK o \in Threads : \E i \in DOMAIN todo'[o] : Writes(todo'[o][i], j)
            BY <4>2 DEF InHand, Elems
          <5>1. PICK i \in DOMAIN todo'[o] : Writes(todo'[o][i], j)
            BY <5>0
          <5>2. Guarded(todo'[o], j)
            BY DEF Strayless, Guarded, Writes, Undoes, Named
          <5>3. PICK k \in DOMAIN todo'[o] : Undoes(todo'[o][k], j)
            BY <5>1, <5>2 DEF Guarded
          <5>4. todo'[o][k] \in Elems(todo'[o]) /\ todo'[o][k] \in InHand'
            BY DEF Elems, InHand
          <5>5. todo'[o][k].do # "unlock"
            BY <1>0, <4>1, <5>4 DEF Locked
          <5> QED BY <5>3, <5>4, <5>5 DEF Undoes
        <4>3. CASE \A y \in InHand' : ~Writes(y, j)
          BY <4>1, <4>3 DEF NoRow
        <4> QED BY <4>2, <4>3
      <3> QED BY <1>1, <3>1, <3>2, <3>3
    <2>3. CASE rows[j].status = "none" /\ \A x \in InHand : ~Writes(x, j)
      <3>1. ~Idle(t) => ~Writes(Arg(t), j)
        BY <2>3, Ahead
      <3>2. \A x \in InHand' : ~Writes(x, j)
        BY <1>1, <2>1, <2>3, <3>1
      <3>3. ~(At(t, "write") /\ Arg(t).job = j)
        BY <3>1 DEF At, Arg, Writes, Named, OfJob
      <3>4. rows'[j].status = "none"
        BY <2>3, <3>3 DEF Shoots, NoRow
      <3> QED BY <3>2, <3>4
    <2> QED BY <1>3, <2>2, <2>3 DEF GoneIsGone
  <1> QED BY <1>2, <1>3

LEMMA EndedIsKept ==
    ASSUME StoreInv, IInv', Ended, NEW t \in Threads, NEW u \in Seq(Step), Becomes(t, u),
           Waiting(t, u)
    PROVE  Ended'
  <1> SUFFICES ASSUME NEW j \in finished'
               PROVE  jobs'[j].run \in jobs'[j].shut \/ \E x \in InHand' : Signals(x, j)
    BY DEF Ended, Signaled, Signals, Named
  <1>0. TypeOK /\ IInv
    BY DEF StoreInv, IInv
  <1>1. /\ Elems(u) \subseteq InHand'
        /\ \A x \in InHand : x \in InHand' \/ (~Idle(t) /\ x = Arg(t))
    BY <1>0, HandsMove
  <1>2. j \in Ids
    BY DEF IInv, TypeOK
  <1>3. CASE j \notin finished
    BY <1>1, <1>3 DEF Waiting
  <1>4. CASE j \in finished
    <2>1. j \in 1 .. nextID /\ j \notin pending'
      BY <1>0, <1>4 DEF IInv, OnePlace, Grounded
    <2>2. jobs'[j].run = jobs[j].run /\ jobs[j].shut \subseteq jobs'[j].shut
      BY <2>1 DEF Waiting
    <2>3. jobs[j].run \in jobs[j].shut \/ \E x \in InHand : Signals(x, j)
      BY <1>4 DEF Ended, Signaled
    <2>4. ~Idle(t) /\ Signals(Arg(t), j) => jobs'[j].run \in jobs'[j].shut \/ \E y \in Elems(u) : Signals(y, j)
      BY <1>2 DEF Waiting
    <2> QED BY <1>1, <2>2, <2>3, <2>4
  <1> QED BY <1>3, <1>4

LEMMA WokenIsKept ==
    ASSUME StoreInv, IInv', Ended', Woken, NEW t \in Threads, NEW u \in Seq(Step), Becomes(t, u),
           Waiting(t, u), RetriesAreSignaled
    PROVE  Woken'
  <1>0. TypeOK /\ IInv
    BY DEF StoreInv, IInv
  <1>1. /\ Elems(u) \subseteq InHand' /\ InHand' \subseteq InHand \cup Elems(u)
        /\ \A x \in InHand : x \in InHand' \/ (~Idle(t) /\ x = Arg(t))
    BY <1>0, HandsMove
  <1> SUFFICES ASSUME NEW x \in InHand', x.do = "await"
               PROVE  \/ x.row.seq \in jobs'[x.job].shut
                      \/ /\ jobs'[x.job].run = x.row.seq
                         /\ x.job \in pending' \cup running' \/ Signaled(x.job)'
    BY DEF Woken, DoneClosed
  <1>2. PICK j : j = x.job
    OBVIOUS
  <1>3. Signaled(j)' <=> jobs'[j].run \in jobs'[j].shut \/ \E y \in InHand' : Signals(y, j)
    BY DEF Signaled, Signals, Named
  <1>4. Signaled(x.job)' <=> Signaled(j)'
    BY <1>2 DEF Signaled, Signals, Named
  <1>5. CASE x \in Elems(u)
    <2>1. j \in index' /\ jobs'[j].run = x.row.seq
      BY <1>2, <1>5 DEF Waiting
    <2>2. j \in finished' => Signaled(j)'
      BY DEF Ended, Signaled, Signals, Named
    <2> QED BY <1>2, <1>4, <2>1, <2>2 DEF IInv, OnePlace
  <1>6. CASE x \in InHand
    <2>1. j \in 1 .. nextID /\ j \in Ids
      <3>1. nextID \in 0 .. MaxJobs /\ MaxJobs \in Nat
        BY <1>0, BoundsAssumption DEF TypeOK
      <3>2. j \in 1 .. nextID
        BY <1>2, <1>6 DEF StoreInv, Dated, Named, OfJob
      <3> QED BY <3>1, <3>2 DEF Ids
    <2>2. jobs[j].shut \subseteq jobs'[j].shut /\ (jobs'[j].run = jobs[j].run \/ j \in finished)
      BY <2>1 DEF Waiting
    <2>3. CASE x.row.seq \in jobs[j].shut
      BY <1>2, <2>2, <2>3
    <2>4. CASE jobs[j].run = x.row.seq /\ j \in pending \cup running
      <3>1. jobs'[j].run = jobs[j].run
        BY <1>0, <2>2, <2>4 DEF IInv, OnePlace
      <3>2. j \in pending' \cup running' \/ Signaled(j)'
        BY <1>1, <1>3, <2>4 DEF Waiting
      <3> QED BY <1>2, <1>4, <2>4, <3>1, <3>2
    <2>5. CASE jobs[j].run = x.row.seq /\ \E y \in InHand : Signals(y, j)
      <3>1. jobs'[j].run = jobs[j].run
        BY <2>1, <2>5 DEF RetriesAreSignaled
      <3>2. PICK y \in InHand : Signals(y, j)
        BY <2>5
      <3>3. Signaled(j)'
        BY <1>1, <1>3, <2>1, <3>2 DEF Waiting
      <3> QED BY <1>2, <1>4, <2>5, <3>1, <3>3
    <2>6. \/ x.row.seq \in jobs[j].shut
          \/ jobs[j].run = x.row.seq /\ (j \in pending \cup running \/ Signaled(j))
      BY <1>2, <1>6 DEF Woken, DoneClosed
    <2> QED BY <2>3, <2>4, <2>5, <2>6 DEF Signaled
  <1> QED BY <1>1, <1>5, <1>6

-----------------------------------------------------------------------------
(* The lists that actions begin or go on with *)

LEMMA Doing ==
    ASSUME NEW what \in OfJob, NEW j \in Ids
    PROVE  LET x == Do(what, j)
           IN  /\ x \in Step /\ x.do = what /\ x.job = j /\ x.row = NoRow /\ Named(x) = {j}
               /\ << x >> \in Seq(Step) /\ Elems(<< x >>) = {x}
  <1> DEFINE x == Do(what, j)
  <1>1. x \in Step /\ x.do = what /\ x.job = j /\ x.row = NoRow
    <2>1. j \in 0 .. MaxJobs
      BY BoundsAssumption DEF Ids
    <2> QED BY <2>1, DoIsAStep DEF OfJob, Do
  <1> HIDE DEF x
  <1>2. Named(x) = {j} /\ << x >> \in Seq(Step) /\ Elems(<< x >>) = {x}
    BY <1>1, One DEF Named
  <1> QED BY <1>1, <1>2 DEF x

LEMMA Looped ==
    ASSUME NEW what \in {"release", "delete", "report", "saveEach"}, NEW S \in SUBSET Ids
    PROVE  /\ ForEach(what, S) \in Seq(Step)
           /\ \A x \in Elems(ForEach(what, S)) : x \in Step /\ x.do = what /\ x.jobs = S /\ Named(x) = S
           /\ S # {} => \E x \in Elems(ForEach(what, S)) : x.do = what /\ x.jobs = S /\ Named(x) = S
  <1>1. CASE S = {}
    BY <1>1, EmptyElems, EmptySeq DEF ForEach
  <1>2. CASE S # {}
    <2> DEFINE x == [Do(what, 0) EXCEPT !.jobs = S]
    <2>1. Do(what, 0) \in Step /\ Do(what, 0).do = what
      BY BoundsAssumption, DoIsAStep
    <2>2. x \in Step /\ x.do = what /\ x.jobs = S
      BY <2>1 DEF Step
    <2>3. Named(x) = S
      BY <2>2 DEF Named, OfJob
    <2>4. ForEach(what, S) = << x >>
      BY <1>2 DEF ForEach
    <2> HIDE DEF x
    <2> QED BY <2>2, <2>3, <2>4, One
  <1> QED BY <1>1, <1>2

LEMMA NoneCloses ==
    ASSUME NEW u \in Seq(Step), \A x \in Elems(u) : x.do \notin Closing
    PROVE  ClosedBy(u)
  BY DEF ClosedBy, Elems

LEMMA EmptyList == << >> \in Seq(Step) /\ Elems(<< >>) = {} /\ ClosedBy(<< >>)
  <1>1. << >> \in Seq(Step) /\ Elems(<< >>) = {}
    BY EmptyElems, EmptySeq
  <1> QED BY <1>1, NoneCloses

LEMMA OneCloses ==
    ASSUME NEW x \in Step
    PROVE  << x >> \in Seq(Step) /\ Elems(<< x >>) = {x} /\ ClosedBy(<< x >>)
  <1>1. DOMAIN << x >> = {1}
    OBVIOUS
  <1> QED BY <1>1, One DEF ClosedBy

LEMMA LastCloses ==
    ASSUME NEW x \in Step, NEW y \in Step, x.do \notin Closing
    PROVE  << x, y >> \in Seq(Step) /\ Elems(<< x, y >>) = {x, y} /\ ClosedBy(<< x, y >>)
  BY Two DEF ClosedBy

\* A step about a job, then a loop over S.
DoLoop(a, j, what, S) == << Do(a, j) >> \o ForEach(what, S)
IsDoLoop(u, a, j, what, S) ==
    /\ u \in Seq(Step) /\ ClosedBy(u)
    /\ \A x \in Elems(u) : /\ x.do \in {a, what} \ Closing
                           /\ x.do = a => x.job = j /\ Named(x) = {j}
                           /\ x.do = what => x.jobs = S /\ Named(x) = S
    /\ \E x \in Elems(u) : x.do = a /\ x.job = j /\ Named(x) = {j}
    /\ S # {} => \E x \in Elems(u) : x.do = what /\ x.jobs = S /\ Named(x) = S

LEMMA DoThenLoop ==
    ASSUME NEW a \in OfJob \ Closing, NEW j \in Ids,
           NEW what \in {"release", "delete", "report", "saveEach"}, NEW S \in SUBSET Ids, a # what
    PROVE  IsDoLoop(DoLoop(a, j, what, S), a, j, what, S)
  <1> DEFINE x == Do(a, j)
             r == << x >>
             f == ForEach(what, S)
  <1>1. x.do = a /\ x.job = j /\ Named(x) = {j} /\ r \in Seq(Step) /\ Elems(r) = {x}
    BY Doing
  <1>2. /\ f \in Seq(Step) /\ \A y \in Elems(f) : y.do = what /\ y.jobs = S /\ Named(y) = S
        /\ S # {} => \E y \in Elems(f) : y.do = what /\ y.jobs = S /\ Named(y) = S
    <2>1. f \in Seq(Step)
      BY Looped
    <2>2. \A y \in Elems(f) : y.do = what /\ y.jobs = S /\ Named(y) = S
      BY Looped
    <2>3. S # {} => \E y \in Elems(f) : y.do = what /\ y.jobs = S /\ Named(y) = S
      BY Looped
    <2> QED BY <2>1, <2>2, <2>3
  <1> HIDE DEF x, r, f
  <1> DEFINE u == r \o f
  <1>3. u \in Seq(Step) /\ Elems(u) = {x} \cup Elems(f)
    BY <1>1, <1>2, ElemsOfConcat
  <1> HIDE DEF u
  <1>4. /\ \A y \in Elems(u) : /\ y.do \in {a, what} \ Closing
                               /\ y.do = a => y.job = j /\ Named(y) = {j}
                               /\ y.do = what => y.jobs = S /\ Named(y) = S
        /\ \E y \in Elems(u) : y.do = a /\ y.job = j /\ Named(y) = {j}
        /\ S # {} => \E y \in Elems(u) : y.do = what /\ y.jobs = S /\ Named(y) = S
    BY <1>1, <1>2, <1>3 DEF Closing
  <1>5. ClosedBy(u)
    BY <1>3, <1>4, NoneCloses
  <1> QED BY <1>3, <1>4, <1>5 DEF u, x, r, f, DoLoop, IsDoLoop

IsReleased(u, j, S) ==
    /\ u \in Seq(Step) /\ ClosedBy(u)
    /\ \A x \in Elems(u) : /\ x.do \in {"signal", "save", "release"}
                           /\ x.do # "release" => x.job = j /\ Named(x) = {j}
                           /\ x.do = "release" => x.jobs = S /\ Named(x) = S
    /\ \E x \in Elems(u) : x.do = "signal" /\ x.job = j /\ Named(x) = {j}
    /\ \E x \in Elems(u) : x.do = "save" /\ x.job = j /\ Named(x) = {j}
    /\ S # {} => \E x \in Elems(u) : x.do = "release" /\ x.jobs = S /\ Named(x) = S

LEMMA ReleasedList ==
    ASSUME NEW j \in Ids, NEW S \in SUBSET Ids
    PROVE  IsReleased(<< Do("signal", j), Do("save", j) >> \o ForEach("release", S), j, S)
  <1> DEFINE x == Do("signal", j)
             y == Do("save", j)
             r == << x, y >>
             f == ForEach("release", S)
  <1>1. /\ x \in Step /\ x.do = "signal" /\ x.job = j /\ Named(x) = {j}
        /\ y \in Step /\ y.do = "save" /\ y.job = j /\ Named(y) = {j}
    <2>1. "signal" \in OfJob /\ "save" \in OfJob
      BY DEF OfJob
    <2>2. x \in Step /\ x.do = "signal" /\ x.job = j /\ Named(x) = {j}
      BY <2>1, Doing
    <2>3. y \in Step /\ y.do = "save" /\ y.job = j /\ Named(y) = {j}
      BY <2>1, Doing
    <2> QED BY <2>2, <2>3
  <1> HIDE DEF x, y
  <1>2. r \in Seq(Step) /\ Elems(r) = {x, y}
    BY <1>1, Two
  <1>3. /\ f \in Seq(Step) /\ \A z \in Elems(f) : z.do = "release" /\ z.jobs = S /\ Named(z) = S
        /\ S # {} => \E z \in Elems(f) : z.do = "release" /\ z.jobs = S /\ Named(z) = S
    BY Looped
  <1> HIDE DEF r, f
  <1> DEFINE u == r \o f
  <1>4. u \in Seq(Step) /\ Elems(u) = {x, y} \cup Elems(f)
    BY <1>2, <1>3, ElemsOfConcat
  <1> HIDE DEF u
  <1>5. /\ \A z \in Elems(u) : /\ z.do \in {"signal", "save", "release"}
                               /\ z.do # "release" => z.job = j /\ Named(z) = {j}
                               /\ z.do = "release" => z.jobs = S /\ Named(z) = S
        /\ \E z \in Elems(u) : z.do = "signal" /\ z.job = j /\ Named(z) = {j}
        /\ \E z \in Elems(u) : z.do = "save" /\ z.job = j /\ Named(z) = {j}
        /\ S # {} => \E z \in Elems(u) : z.do = "release" /\ z.jobs = S /\ Named(z) = S
    BY <1>1, <1>3, <1>4
  <1>6. ClosedBy(u)
    BY <1>4, <1>5, NoneCloses DEF Closing
  <1> QED BY <1>4, <1>5, <1>6 DEF u, x, y, r, f, IsReleased

IsCanceled(u, j, E) ==
    /\ u \in Seq(Step) /\ ClosedBy(u)
    /\ \A x \in Elems(u) : /\ x.do \in {"signal", "report", "save", "delete"}
                           /\ x.do \in {"signal", "save"} => x.job = j
                           /\ x.do # "delete" => Named(x) = {j}
                           /\ x.do = "delete" => x.jobs = E /\ Named(x) = E
    /\ \E x \in Elems(u) : x.do = "signal" /\ x.job = j /\ Named(x) = {j}
    /\ \E x \in Elems(u) : x.do = "save" /\ x.job = j /\ Named(x) = {j}
    /\ E # {} => \E x \in Elems(u) : x.do = "delete" /\ x.jobs = E /\ Named(x) = E

LEMMA CanceledList ==
    ASSUME NEW j \in Ids, NEW E \in SUBSET Ids
    PROVE  IsCanceled(CanceledSteps(j, E), j, E)
  <1> DEFINE x == Do("signal", j)
             y == [Do("report", 0) EXCEPT !.jobs = {j}]
             z == Do("save", j)
             r == << x, y, z >>
             f == ForEach("delete", E)
  <1>0. "signal" \in OfJob /\ "save" \in OfJob
    BY DEF OfJob
  <1>1. x \in Step /\ x.do = "signal" /\ x.job = j /\ Named(x) = {j}
    BY <1>0, Doing
  <1>2. z \in Step /\ z.do = "save" /\ z.job = j /\ Named(z) = {j}
    BY <1>0, Doing
  <1>3. y \in Step /\ y.do = "report" /\ Named(y) = {j}
    <2>1. Do("report", 0) \in Step /\ Do("report", 0).do = "report"
      BY DoIsAStep, BoundsAssumption
    <2>2. y \in Step /\ y.do = "report" /\ y.jobs = {j}
      BY <2>1 DEF Step
    <2> QED BY <2>2 DEF Named, OfJob
  <1> HIDE DEF x, y, z
  <1>4. r \in Seq(Step) /\ Elems(r) = {x, y, z}
    BY <1>1, <1>2, <1>3, Three
  <1>5. f \in Seq(Step) /\ \A v \in Elems(f) : v.do = "delete" /\ v.jobs = E /\ Named(v) = E
    BY Looped
  <1>6. E # {} => \E v \in Elems(f) : v.do = "delete" /\ v.jobs = E /\ Named(v) = E
    BY Looped
  <1> HIDE DEF r, f
  <1> DEFINE u == r \o f
  <1>7. u \in Seq(Step) /\ Elems(u) = {x, y, z} \cup Elems(f)
    BY <1>4, <1>5, ElemsOfConcat
  <1>8. u = CanceledSteps(j, E)
    BY DEF CanceledSteps, r, f, x, y, z
  <1> HIDE DEF u
  <1>9. /\ \A v \in Elems(u) : /\ v.do \in {"signal", "report", "save", "delete"}
                               /\ v.do \in {"signal", "save"} => v.job = j
                               /\ v.do # "delete" => Named(v) = {j}
                               /\ v.do = "delete" => v.jobs = E /\ Named(v) = E
        /\ \E v \in Elems(u) : v.do = "signal" /\ v.job = j /\ Named(v) = {j}
        /\ \E v \in Elems(u) : v.do = "save" /\ v.job = j /\ Named(v) = {j}
        /\ E # {} => \E v \in Elems(u) : v.do = "delete" /\ v.jobs = E /\ Named(v) = E
    BY <1>1, <1>2, <1>3, <1>5, <1>6, <1>7
  <1>10. ClosedBy(u)
    BY <1>7, <1>9, NoneCloses DEF Closing
  <1> QED BY <1>7, <1>8, <1>9, <1>10 DEF IsCanceled

IsFinished(u, j, E) ==
    /\ u \in Seq(Step) /\ ClosedBy(u)
    /\ \A x \in Elems(u) : /\ x.do \in {"keep", "delete", "signal"}
                           /\ x.do # "delete" => x.job = j /\ Named(x) = {j}
                           /\ x.do = "delete" => x.jobs = E /\ Named(x) = E
    /\ \E x \in Elems(u) : x.do = "signal" /\ x.job = j /\ Named(x) = {j}
    /\ \E x \in Elems(u) : x.do = "keep" /\ x.job = j /\ Named(x) = {j}
    /\ E # {} => \E x \in Elems(u) : x.do = "delete" /\ x.jobs = E /\ Named(x) = E

LEMMA FinishedList ==
    ASSUME NEW j \in Ids, NEW E \in SUBSET Ids
    PROVE  IsFinished(FinishSteps(j, E), j, E)
  <1> DEFINE s == DoLoop("keep", j, "delete", E)
             z == Do("signal", j)
             r == << z >>
             u == s \o r
  <1>0. "signal" \in OfJob /\ "keep" \in OfJob \ Closing
    BY DEF OfJob, Closing
  <1>1. z.do = "signal" /\ z.job = j /\ Named(z) = {j} /\ r \in Seq(Step) /\ Elems(r) = {z}
    BY <1>0, Doing
  <1>9. IsDoLoop(s, "keep", j, "delete", E)
    BY <1>0, DoThenLoop
  <1>2. /\ s \in Seq(Step)
        /\ \A x \in Elems(s) : /\ x.do \in {"keep", "delete"} \ Closing
                               /\ x.do = "keep" => x.job = j /\ Named(x) = {j}
                               /\ x.do = "delete" => x.jobs = E /\ Named(x) = E
    BY <1>9 DEF IsDoLoop
  <1>3. \E x \in Elems(s) : x.do = "keep" /\ x.job = j /\ Named(x) = {j}
    BY <1>9 DEF IsDoLoop
  <1>4. E # {} => \E x \in Elems(s) : x.do = "delete" /\ x.jobs = E /\ Named(x) = E
    BY <1>9 DEF IsDoLoop
  <1>5. u = FinishSteps(j, E)
    BY DEF FinishSteps, DoLoop
  <1> HIDE DEF s, z, r
  <1>6. u \in Seq(Step) /\ Elems(u) = Elems(s) \cup {z}
    BY <1>1, <1>2, ElemsOfConcat
  <1> HIDE DEF u
  <1>7. /\ \A x \in Elems(u) : /\ x.do \in {"keep", "delete", "signal"}
                               /\ x.do # "delete" => x.job = j /\ Named(x) = {j}
                               /\ x.do = "delete" => x.jobs = E /\ Named(x) = E
        /\ \E x \in Elems(u) : x.do = "signal" /\ x.job = j /\ Named(x) = {j}
        /\ \E x \in Elems(u) : x.do = "keep" /\ x.job = j /\ Named(x) = {j}
        /\ E # {} => \E x \in Elems(u) : x.do = "delete" /\ x.jobs = E /\ Named(x) = E
    BY <1>1, <1>2, <1>3, <1>4, <1>6
  <1>8. ClosedBy(u)
    BY <1>6, <1>7, NoneCloses DEF Closing
  <1> QED BY <1>5, <1>6, <1>7, <1>8 DEF IsFinished

IsRemoved(u, j) ==
    /\ u \in Seq(Step) /\ ClosedBy(u)
    /\ \A x \in Elems(u) : /\ x.do \in {"drop", "report", "delete"} /\ Named(x) \subseteq {j}
                           /\ x.do = "drop" => x.job = j
                           /\ x.do = "delete" => x.jobs = {j}
    /\ \E x \in Elems(u) : x.do = "drop" /\ x.job = j /\ Named(x) = {j}
    /\ \E x \in Elems(u) : x.do = "delete" /\ x.jobs = {j}

LEMMA RemovedList ==
    ASSUME NEW j \in Ids
    PROVE  IsRemoved(RemovedSteps(j), j)
  <1> DEFINE S == IF jobs[j].status = "queued" THEN {j} ELSE {}
  <1>0. "drop" \in OfJob \ Closing /\ S \in SUBSET Ids /\ S \subseteq {j} /\ {j} \in SUBSET Ids
    BY DEF OfJob, Closing
  <1> HIDE DEF S
  <1> DEFINE s == DoLoop("drop", j, "report", S)
             r == ForEach("delete", {j})
             u == s \o r
  <1>1. r \in Seq(Step) /\ \A x \in Elems(r) : x.do = "delete" /\ x.jobs = {j} /\ Named(x) = {j}
    BY <1>0, Looped
  <1>2. \E x \in Elems(r) : x.do = "delete" /\ x.jobs = {j} /\ Named(x) = {j}
    BY <1>0, Looped
  <1>9. IsDoLoop(s, "drop", j, "report", S)
    BY <1>0, DoThenLoop
  <1>3. /\ s \in Seq(Step)
        /\ \A x \in Elems(s) : /\ x.do \in {"drop", "report"}
                               /\ x.do = "drop" => x.job = j /\ Named(x) = {j}
                               /\ x.do = "report" => x.jobs = S /\ Named(x) = S
    BY <1>9 DEF IsDoLoop
  <1>4. \E x \in Elems(s) : x.do = "drop" /\ x.job = j /\ Named(x) = {j}
    BY <1>9 DEF IsDoLoop
  <1>5. u = RemovedSteps(j)
    BY DEF RemovedSteps, DoLoop, S
  <1> HIDE DEF s, r
  <1>6. u \in Seq(Step) /\ Elems(u) = Elems(s) \cup Elems(r)
    BY <1>1, <1>3, ElemsOfConcat
  <1> HIDE DEF u
  <1>7. /\ \A x \in Elems(u) : /\ x.do \in {"drop", "report", "delete"} /\ Named(x) \subseteq {j}
                               /\ x.do = "drop" => x.job = j
                               /\ x.do = "delete" => x.jobs = {j}
        /\ \E x \in Elems(u) : x.do = "drop" /\ x.job = j /\ Named(x) = {j}
        /\ \E x \in Elems(u) : x.do = "delete" /\ x.jobs = {j}
    BY <1>0, <1>1, <1>2, <1>3, <1>4, <1>6
  <1>8. ClosedBy(u)
    BY <1>6, <1>7, NoneCloses DEF Closing
  <1> QED BY <1>5, <1>6, <1>7, <1>8 DEF IsRemoved

\* Two loops, one after the other.
LoopLoop(a, S, b, T) == ForEach(a, S) \o ForEach(b, T)
IsLoopLoop(u, a, S, b, T) ==
    /\ u \in Seq(Step) /\ ClosedBy(u)
    /\ \A x \in Elems(u) : /\ x.do \in {a, b}
                           /\ x.do = a => x.jobs = S /\ Named(x) = S
                           /\ x.do = b => x.jobs = T /\ Named(x) = T
    /\ S # {} => \E x \in Elems(u) : x.do = a /\ x.jobs = S /\ Named(x) = S
    /\ T # {} => \E x \in Elems(u) : x.do = b /\ x.jobs = T /\ Named(x) = T

LEMMA TwoLoops ==
    ASSUME NEW a \in {"release", "delete", "report", "saveEach"}, NEW S \in SUBSET Ids,
           NEW b \in {"release", "delete", "report", "saveEach"}, NEW T \in SUBSET Ids, a # b
    PROVE  IsLoopLoop(LoopLoop(a, S, b, T), a, S, b, T)
  <1> DEFINE s == ForEach(a, S)
             r == ForEach(b, T)
             u == s \o r
  <1>1. s \in Seq(Step) /\ \A x \in Elems(s) : x.do = a /\ x.jobs = S /\ Named(x) = S
    BY Looped
  <1>2. S # {} => \E x \in Elems(s) : x.do = a /\ x.jobs = S /\ Named(x) = S
    BY Looped
  <1>3. r \in Seq(Step) /\ \A x \in Elems(r) : x.do = b /\ x.jobs = T /\ Named(x) = T
    BY Looped
  <1>4. T # {} => \E x \in Elems(r) : x.do = b /\ x.jobs = T /\ Named(x) = T
    BY Looped
  <1> HIDE DEF s, r
  <1>5. u \in Seq(Step) /\ Elems(u) = Elems(s) \cup Elems(r)
    BY <1>1, <1>3, ElemsOfConcat
  <1> HIDE DEF u
  <1>6. /\ \A x \in Elems(u) : /\ x.do \in {a, b}
                               /\ x.do = a => x.jobs = S /\ Named(x) = S
                               /\ x.do = b => x.jobs = T /\ Named(x) = T
        /\ S # {} => \E x \in Elems(u) : x.do = a /\ x.jobs = S /\ Named(x) = S
        /\ T # {} => \E x \in Elems(u) : x.do = b /\ x.jobs = T /\ Named(x) = T
    BY <1>1, <1>2, <1>3, <1>4, <1>5
  <1>7. ClosedBy(u)
    BY <1>5, <1>6, NoneCloses DEF Closing
  <1> QED BY <1>5, <1>6, <1>7 DEF u, s, r, LoopLoop, IsLoopLoop

IsDropped(u, P, E) ==
    /\ u \in Seq(Step) /\ ClosedBy(u)
    /\ \A x \in Elems(u) : /\ x.do \in {"release", "report", "delete"}
                           /\ x.do # "delete" => x.jobs = P /\ Named(x) = P
                           /\ x.do = "delete" => x.jobs = E /\ Named(x) = E
    /\ P # {} => \E x \in Elems(u) : x.do = "release" /\ x.jobs = P /\ Named(x) = P
    /\ E # {} => \E x \in Elems(u) : x.do = "delete" /\ x.jobs = E /\ Named(x) = E

LEMMA DroppedList ==
    ASSUME NEW P \in SUBSET Ids, NEW E \in SUBSET Ids
    PROVE  IsDropped(ForEach("release", P) \o ForEach("report", P) \o ForEach("delete", E), P, E)
  <1> DEFINE s == LoopLoop("release", P, "report", P)
             r == ForEach("delete", E)
             u == s \o r
  <1>9. IsLoopLoop(s, "release", P, "report", P)
    BY TwoLoops
  <1>1. s \in Seq(Step) /\ \A x \in Elems(s) : /\ x.do \in {"release", "report"}
                                               /\ x.do = "release" => x.jobs = P /\ Named(x) = P
                                               /\ x.do = "report" => x.jobs = P /\ Named(x) = P
    BY <1>9 DEF IsLoopLoop
  <1>2. P # {} => \E x \in Elems(s) : x.do = "release" /\ x.jobs = P /\ Named(x) = P
    BY <1>9 DEF IsLoopLoop
  <1>3. r \in Seq(Step) /\ \A x \in Elems(r) : x.do = "delete" /\ x.jobs = E /\ Named(x) = E
    BY Looped
  <1>4. E # {} => \E x \in Elems(r) : x.do = "delete" /\ x.jobs = E /\ Named(x) = E
    BY Looped
  <1> HIDE DEF s, r
  <1>5. u \in Seq(Step) /\ Elems(u) = Elems(s) \cup Elems(r)
    BY <1>1, <1>3, ElemsOfConcat
  <1> HIDE DEF u
  <1>6. /\ \A x \in Elems(u) : /\ x.do \in {"release", "report", "delete"}
                               /\ x.do # "delete" => x.jobs = P /\ Named(x) = P
                               /\ x.do = "delete" => x.jobs = E /\ Named(x) = E
        /\ P # {} => \E x \in Elems(u) : x.do = "release" /\ x.jobs = P /\ Named(x) = P
        /\ E # {} => \E x \in Elems(u) : x.do = "delete" /\ x.jobs = E /\ Named(x) = E
    BY <1>1, <1>2, <1>3, <1>4, <1>5
  <1>7. ClosedBy(u)
    BY <1>5, <1>6, NoneCloses DEF Closing
  <1> QED BY <1>5, <1>6, <1>7 DEF u, s, r, LoopLoop, IsDropped

-----------------------------------------------------------------------------
(* Each step is Traced *)

Followed(t) == \E u \in Seq(Step) : Becomes(t, u) /\ Traced(t, u)

\* A step that leaves the store, the lock and the snapshots alone.
LEMMA CalmStep ==
    ASSUME NEW t \in Threads, NEW u \in Seq(Step), UNCHANGED <<rowWrite, rows, highWater, told>>,
           \A j \in Ids : jobs'[j].seq = jobs[j].seq,
           Idle(t) \/ Arg(t).do \notin {"save", "write", "high", "answer", "unlock", "delete"},
           \A x \in Elems(u) : x.do \notin {"write", "unlock"},
           \A x \in Elems(u) : x.do \in {"answer", "wait"} =>
              (At(t, "wait") /\ Arg(t).job = x.job) \/ \E y \in Elems(u) : y.do = "save" /\ y.job = x.job
    PROVE  Shoots(t, u) /\ Marking(t, u) /\ Locking(t, u) /\ ~At(t, "delete")
  <1>1. /\ ~At(t, "save") /\ ~At(t, "write") /\ ~At(t, "high") /\ ~At(t, "answer")
        /\ ~At(t, "unlock") /\ ~At(t, "delete")
    BY DEF At, Arg
  <1>2. Shoots(t, u)
    BY <1>1 DEF Shoots
  <1>3. Marking(t, u)
    BY <1>1 DEF Marking
  <1> QED BY <1>1, <1>2, <1>3 DEF Locking

\* A step that starts no run and settles none that a worker has.
LEMMA NoStart ==
    ASSUME TypeOK, NEW t \in Threads, NEW u \in Seq(Step), Becomes(t, u), held' = held,
           \A x \in Elems(u) : x.do # "process",
           \A j \in running : jobs'[j].status = jobs[j].status
    PROVE  Starting(t, u)
  <1>1. ASSUME NEW w \in Workers, NEW x \in Elems(todo'[w]), x.do = "process"
        PROVE  held'[w] = held[w] /\ \E y \in Elems(todo[w]) : y.do = "process"
    <2>1. w \in Threads
      BY DEF Threads
    <2>2. x \in Elems(todo[w])
      BY <1>1, <2>1, HandsMove
    <2> QED BY <1>1, <2>2
  <1> QED BY <1>1 DEF Starting, Begun

\* A step that is done with, and moves no job.
LEMMA DoneWith ==
    ASSUME StoreInv, NEW t \in Threads, ~Idle(t), Proceed(t, << >>),
           UNCHANGED <<pending, finished, index, running, held, nextID, phase>>,
           \A j \in Ids : /\ jobs'[j].seq = jobs[j].seq /\ jobs'[j].run = jobs[j].run
                          /\ jobs[j].shut \subseteq jobs'[j].shut
                          /\ j \in index => jobs'[j].status = jobs[j].status,
           Arg(t).do \notin {"save", "release", "saveEach"},
           \A j \in index : ~Promises(Arg(t), j),
           Arg(t).do \in {"signal", "drop"} => jobs'[Arg(t).job].run \in jobs'[Arg(t).job].shut,
           At(t, "delete") => rowWrite' = Free /\ \A j \in Arg(t).jobs : rows'[j] = NoRow,
           Shoots(t, << >>), Marking(t, << >>), Locking(t, << >>)
    PROVE  Followed(t)
  <1>1. << >> \in Seq(Step) /\ Elems(<< >>) = {} /\ ClosedBy(<< >>)
    BY EmptyList
  <1>2. Becomes(t, << >>)
    BY DEF Becomes
  <1>3. TypeOK /\ IInv /\ phase # "down"
    BY Pursuing DEF StoreInv, IInv
  <1>4. nextID \in Nat /\ index \subseteq 1 .. nextID /\ running \subseteq index /\ index \subseteq Ids
        /\ 1 .. nextID \subseteq Ids /\ running \subseteq Ids
    BY <1>3, BoundsAssumption DEF IInv, TypeOK, Grounded, OnePlace, Ids
  <1>5. Reaches(<< >>)
    BY <1>1, <1>3, <1>4 DEF Reaches
  <1>6. Promising(t, << >>)
    BY <1>1, <1>4 DEF Promising, IsHeld
  <1>7. Closes(t, << >>)
    BY <1>1 DEF Closes
  <1>8. Starting(t, << >>)
    BY <1>1, <1>2, <1>3, <1>4, NoStart
  <1>9. Removing(t, << >>)
    BY <1>1 DEF Removing
  <1>10. Waiting(t, << >>)
    <2>1. ASSUME NEW j \in Ids, Signals(Arg(t), j) PROVE jobs'[j].run \in jobs'[j].shut
      <3>1. Arg(t).do \in {"signal", "drop"} /\ Arg(t).job = j
        BY <2>1 DEF Signals, Named, OfJob
      <3> QED BY <3>1
    <2> QED BY <1>1, <1>4, <2>1 DEF Waiting
  <1> QED BY <1>1, <1>2, <1>5, <1>6, <1>7, <1>8, <1>9, <1>10 DEF Traced, Followed

LEMMA WriteFollows ==
    ASSUME StoreInv, NEW t \in Threads, Write(t)
    PROVE  Followed(t)
  <1> USE DEF lists, crew, control, life
  <1>1. ~Idle(t) /\ Arg(t).do = "write" /\ At(t, "write") /\ Arg(t).job \in Ids
    <2>1. ~Idle(t) /\ Arg(t).do = "write" /\ At(t, "write")
      BY DEF Write, At, Arg
    <2> QED BY <2>1, Ahead DEF OfJob
  <1>2. Elems(<< >>) = {} /\ rows \in [Ids -> RowType]
    BY EmptyList DEF StoreInv, IInv, TypeOK
  <1>3. /\ rows' = [rows EXCEPT ![Arg(t).job] = IF Accepts(@, Arg(t).row) THEN Arg(t).row ELSE @]
        /\ Proceed(t, << >>) /\ UNCHANGED <<lists, crew, control, jobs, rowWrite, highWater, life>>
    BY DEF Write
  <1>4. Shoots(t, << >>)
    BY <1>1, <1>2, <1>3 DEF Shoots, At, Arg
  <1>5. Marking(t, << >>) /\ Locking(t, << >>)
    BY <1>1, <1>2, <1>3 DEF Marking, Locking, At, Arg
  <1> QED BY <1>1, <1>3, <1>4, <1>5, DoneWith DEF Promises, At, Arg

LEMMA HighFollows ==
    ASSUME StoreInv, NEW t \in Threads, High(t)
    PROVE  Followed(t)
  <1> USE DEF lists, crew, control, life
  <1>1. ~Idle(t) /\ Arg(t).do = "high" /\ At(t, "high")
    BY DEF High, At, Arg
  <1>2. Elems(<< >>) = {}
    BY EmptyList
  <1>3. /\ highWater' = IF Arg(t).job > highWater THEN Arg(t).job ELSE highWater
        /\ Proceed(t, << >>) /\ UNCHANGED <<lists, crew, control, jobs, rowWrite, rows, life>>
    BY DEF High
  <1>4. Shoots(t, << >>)
    BY <1>1, <1>2, <1>3 DEF Shoots, At, Arg
  <1>5. Marking(t, << >>) /\ Locking(t, << >>)
    BY <1>1, <1>2, <1>3 DEF Marking, Locking, At, Arg
  <1> QED BY <1>1, <1>3, <1>4, <1>5, DoneWith DEF Promises, At, Arg

LEMMA UnlockFollows ==
    ASSUME StoreInv, NEW t \in Threads, Unlock(t)
    PROVE  Followed(t)
  <1> USE DEF lists, crew, control, life, store
  <1>1. ~Idle(t) /\ Arg(t).do = "unlock" /\ At(t, "unlock")
    BY DEF Unlock, At, Arg
  <1>2. Elems(<< >>) = {}
    BY EmptyList
  <1>3. /\ rowWrite' = Free /\ Proceed(t, << >>)
        /\ UNCHANGED <<lists, crew, control, jobs, store, life>>
    BY DEF Unlock
  <1>4. Shoots(t, << >>)
    BY <1>1, <1>2, <1>3 DEF Shoots, At, Arg
  <1>5. Marking(t, << >>) /\ Locking(t, << >>)
    BY <1>1, <1>2, <1>3 DEF Marking, Locking, At, Arg
  <1> QED BY <1>1, <1>3, <1>4, <1>5, DoneWith DEF Promises, At, Arg

LEMMA DeleteFollows ==
    ASSUME StoreInv, NEW t \in Threads, Delete(t)
    PROVE  Followed(t)
  <1> USE DEF lists, crew, control, life
  <1>1. ~Idle(t) /\ Arg(t).do = "delete" /\ At(t, "delete") /\ Arg(t).jobs \subseteq Ids
    <2>1. ~Idle(t) /\ Arg(t).do = "delete" /\ At(t, "delete")
      BY DEF Delete, At, Arg
    <2> QED BY <2>1, Ahead DEF OfJob, Named
  <1>2. Elems(<< >>) = {}
    BY EmptyList
  <1>3. /\ rows' = [j \in Ids |-> IF j \in Arg(t).jobs THEN NoRow ELSE rows[j]] /\ rowWrite = Free
        /\ Proceed(t, << >>) /\ UNCHANGED <<lists, crew, control, jobs, rowWrite, highWater, life>>
    BY DEF Delete
  <1>4. Shoots(t, << >>) /\ \A j \in Arg(t).jobs : rows'[j] = NoRow
    BY <1>1, <1>2, <1>3 DEF Shoots, At, Arg
  <1>5. Marking(t, << >>) /\ Locking(t, << >>)
    BY <1>1, <1>2, <1>3 DEF Marking, Locking, At, Arg
  <1> QED BY <1>1, <1>3, <1>4, <1>5, DoneWith DEF Promises, At, Arg

LEMMA AnswerFollows ==
    ASSUME StoreInv, NEW t \in Threads, Answer(t)
    PROVE  Followed(t)
  <1> USE DEF lists, crew, control, store
  <1>1. ~Idle(t) /\ Arg(t).do = "answer" /\ At(t, "answer")
    BY DEF Answer, At, Arg
  <1>2. Elems(<< >>) = {}
    BY EmptyList
  <1>3. /\ told' = told \cup {Arg(t).job} /\ Proceed(t, << >>)
        /\ UNCHANGED <<lists, crew, control, jobs, rowWrite, store, phase, boots>>
    BY DEF Answer
  <1>4. Shoots(t, << >>)
    BY <1>1, <1>2, <1>3 DEF Shoots, At, Arg
  <1>5. Marking(t, << >>) /\ Locking(t, << >>)
    BY <1>1, <1>2, <1>3 DEF Marking, Locking, At, Arg
  <1> QED BY <1>1, <1>3, <1>4, <1>5, DoneWith DEF Promises, At, Arg

LEMMA QuietDone ==
    ASSUME StoreInv, NEW t \in Threads, Report(t) \/ Awake(t) \/ Expire(t)
    PROVE  Followed(t)
  <1> USE DEF lists, crew, control, store, life
  <1>1. /\ ~Idle(t) /\ Arg(t).do \in {"report", "await"}
        /\ Proceed(t, << >>) /\ UNCHANGED <<lists, crew, control, jobs, rowWrite, store, life>>
    BY DEF Report, Awake, Expire, At, Arg
  <1>2. << >> \in Seq(Step) /\ Elems(<< >>) = {}
    BY EmptyList
  <1>3. Shoots(t, << >>) /\ Marking(t, << >>) /\ Locking(t, << >>) /\ ~At(t, "delete")
    BY <1>1, <1>2, CalmStep
  <1> QED BY <1>1, <1>3, DoneWith DEF Promises

LEMMA SignalFollows ==
    ASSUME StoreInv, NEW t \in Threads, Signal(t) \/ Drop(t)
    PROVE  Followed(t)
  <1> USE DEF lists, crew, control, store, life
  <1> DEFINE j == Arg(t).job
  <1>1. /\ ~Idle(t) /\ Arg(t).do \in {"signal", "drop"}
        /\ Proceed(t, << >>) /\ UNCHANGED <<lists, crew, control, rowWrite, store, life>>
    BY DEF Signal, Drop, At, Arg
  <1>2. << >> \in Seq(Step) /\ Elems(<< >>) = {}
    BY EmptyList
  <1>3. j \in Ids /\ (Arg(t).do = "drop" => j \notin index)
    BY <1>1, Pursuing DEF StoreInv, Sound, OfJob
  <1>4. jobs \in [Ids -> JobType]
    BY DEF StoreInv, IInv, TypeOK
  <1>5. PICK r \in JobType : /\ jobs' = [jobs EXCEPT ![j] = r]
                             /\ r.seq = jobs[j].seq /\ r.run = jobs[j].run /\ r.shut = jobs[j].shut \cup {r.run}
                             /\ r.status = jobs[j].status \/ j \notin index
    <2>1. CASE Signal(t)
      <3>1. /\ signalDone(j) \in JobType /\ signalDone(j).status = jobs[j].status
            /\ signalDone(j).seq = jobs[j].seq /\ signalDone(j).run = jobs[j].run
            /\ signalDone(j).shut = jobs[j].shut \cup {jobs[j].run}
        BY <1>3, <1>4 DEF signalDone, JobType
      <3> QED BY <2>1, <3>1 DEF Signal
    <2>2. CASE Drop(t)
      <3> DEFINE s == settle(j, "canceled")
                 r == [s EXCEPT !.shut = @ \cup {jobs[j].run}]
      <3>1. s \in JobType /\ s.seq = jobs[j].seq /\ s.run = jobs[j].run /\ s.shut = jobs[j].shut
        BY <1>3, <1>4 DEF settle, JobType, Statuses, Settled
      <3>2. jobs' = [jobs EXCEPT ![j] = r] /\ j \notin index
        BY <1>3, <2>2 DEF Drop, At, Arg
      <3> HIDE DEF s
      <3>3. r \in JobType /\ r.seq = jobs[j].seq /\ r.run = jobs[j].run /\ r.shut = jobs[j].shut \cup {jobs[j].run}
        BY <1>3, <1>4, <3>1 DEF JobType
      <3> QED BY <3>2, <3>3
    <2> QED BY <2>1, <2>2
  <1>9. jobs'[j] = r /\ \A k \in Ids \ {j} : jobs'[k] = jobs[k]
    BY <1>3, <1>4, <1>5
  <1>6. \A k \in Ids : /\ jobs'[k].seq = jobs[k].seq /\ jobs'[k].run = jobs[k].run
                       /\ jobs[k].shut \subseteq jobs'[k].shut
                       /\ k \in index => jobs'[k].status = jobs[k].status
    BY <1>5, <1>9
  <1>7. jobs'[j].run \in jobs'[j].shut
    BY <1>5, <1>9
  <1>8. Shoots(t, << >>) /\ Marking(t, << >>) /\ Locking(t, << >>) /\ ~At(t, "delete")
    BY <1>1, <1>2, <1>6, CalmStep
  <1> HIDE DEF j
  <1> QED BY <1>1, <1>6, <1>7, <1>8, DoneWith DEF Promises, j

\* A step that only goes on with u, or takes a snapshot, and moves no job.
LEMMA HandedOn ==
    ASSUME StoreInv, NEW t \in Threads, NEW u \in Seq(Step), Becomes(t, u), ClosedBy(u), phase # "down",
           UNCHANGED <<pending, finished, index, running, held, nextID, phase>>,
           \A j \in Ids : /\ jobs'[j].run = jobs[j].run /\ jobs'[j].shut = jobs[j].shut
                          /\ jobs'[j].status = jobs[j].status,
           Idle(t) \/ Arg(t).do # "delete",
           Idle(t) \/ Arg(t).do \in Closing \/ \A x \in Elems(u) : x.do \notin Closing,
           \A x \in Elems(u) : Named(x) \subseteq 1 .. nextID /\ x.do # "delete" /\ x.do # "process",
           \A j \in index : ~Idle(t) /\ ~At(t, "save") /\ Promises(Arg(t), j) => \E x \in Elems(u) : Promises(x, j),
           \A j \in Ids \ index : \A x \in Elems(u) : Writes(x, j) => ~Idle(t) /\ Writes(Arg(t), j),
           \A j \in Ids : ~Idle(t) /\ Signals(Arg(t), j) => \E y \in Elems(u) : Signals(y, j),
           \A x \in Elems(u) : x.do = "await" => x.row.seq = jobs[x.job].run /\ x.job \in index,
           Shoots(t, u), Marking(t, u), Locking(t, u)
    PROVE  Followed(t)
  <1>1. TypeOK /\ IInv
    BY DEF StoreInv, IInv
  <1>2. nextID \in Nat /\ index \subseteq 1 .. nextID /\ index \subseteq Ids /\ running \subseteq Ids
        /\ 1 .. nextID \subseteq Ids
    BY <1>1, BoundsAssumption DEF IInv, TypeOK, Grounded, Ids
  <1>3. Reaches(u)
    BY <1>1, <1>2 DEF Reaches
  <1>4. Promising(t, u)
    BY <1>2 DEF Promising, IsHeld
  <1>5. Closes(t, u)
    BY DEF Closes
  <1>6. Starting(t, u)
    BY <1>1, <1>2, NoStart
  <1>7. Removing(t, u)
    <2>1. ~At(t, "delete")
      BY DEF At, Arg
    <2> QED BY <2>1 DEF Removing
  <1>8. Waiting(t, u)
    BY <1>2 DEF Waiting
  <1> QED BY <1>3, <1>4, <1>5, <1>6, <1>7, <1>8 DEF Traced, Followed

LEMMA SaveFollows ==
    ASSUME StoreInv, NEW t \in Threads, Save(t)
    PROVE  Followed(t)
  <1> USE DEF lists, crew, control, store, life
  <1> DEFINE j == Arg(t).job
             row == [status |-> jobs[j].status, seq |-> jobs[j].seq + 1,
                     lane |-> jobs[j].lane, filed |-> jobs[j].filed]
             x == [Do("write", j) EXCEPT !.row = row]
             y == Do("high", j)
  <1>0. "write" \in OfJob /\ "high" \in OfJob
    BY DEF OfJob
  <1>1. ~Idle(t) /\ Arg(t).do = "save" /\ At(t, "save")
    BY DEF Save, At, Arg
  <1>2. phase # "down" /\ j \in Ids /\ Named(Arg(t)) = {j} /\ j \in 1 .. nextID
    BY <1>1, Ahead, Pursuing DEF StoreInv, OfJob
  <1>3. jobs[j] \in JobType /\ row \in RowType /\ jobs \in [Ids -> JobType]
    BY <1>2 DEF StoreInv, IInv, TypeOK, JobType, RowType
  <1>4. x \in Step /\ x.do = "write" /\ x.job = j /\ x.row = row /\ Named(x) = {j}
    <2>1. Do("write", j) \in Step /\ Do("write", j).do = "write" /\ Do("write", j).job = j
      BY <1>0, <1>2, Doing
    <2>2. x \in Step /\ x.do = "write" /\ x.job = j /\ x.row = row
      BY <1>3, <2>1 DEF Step, RowType
    <2> QED BY <2>2 DEF Named, OfJob
  <1>5. y \in Step /\ y.do = "high" /\ y.job = j /\ Named(y) = {j}
    BY <1>0, <1>2, Doing
  <1>6. /\ jobs' = [jobs EXCEPT ![j].seq = @ + 1] /\ Proceed(t, << x, y >>)
        /\ UNCHANGED <<lists, crew, control, rowWrite, store, life>>
    BY DEF Save
  <1>7. /\ \A k \in Ids : /\ jobs'[k].run = jobs[k].run /\ jobs'[k].shut = jobs[k].shut
                          /\ jobs'[k].status = jobs[k].status
                          /\ jobs'[k].seq = IF k = j THEN jobs[k].seq + 1 ELSE jobs[k].seq
    <2>1. jobs'[j] = [jobs[j] EXCEPT !.seq = @ + 1] /\ \A k \in Ids \ {j} : jobs'[k] = jobs[k]
      BY <1>2, <1>3, <1>6
    <2> QED BY <1>2, <1>3, <2>1 DEF JobType
  <1>8. x.row.seq = jobs[j].seq + 1 /\ x.row.status = jobs[j].status
    BY <1>4
  <1> DEFINE u == << x, y >>
  <1> HIDE DEF x, y
  <1>9. u \in Seq(Step) /\ Elems(u) = {x, y} /\ ClosedBy(u)
    <2>1. x.do \notin Closing
      BY <1>4 DEF Closing
    <2> QED BY <1>4, <1>5, <2>1, LastCloses
  <1>10. Becomes(t, u)
    BY <1>1, <1>6 DEF Becomes
  <1> HIDE DEF u
  <1>11. ~At(t, "write") /\ ~At(t, "delete") /\ ~At(t, "high") /\ ~At(t, "answer") /\ ~At(t, "unlock")
    BY <1>1 DEF At, Arg
  <1>12. Shoots(t, u)
    <2>1. \A k \in Ids : jobs'[k].seq = IF At(t, "save") /\ Arg(t).job = k THEN jobs[k].seq + 1 ELSE jobs[k].seq
      BY <1>1, <1>7
    <2>2. \A z \in Elems(u) : z.do = "write" =>
             At(t, "save") /\ z.job = Arg(t).job /\ z.row.seq = jobs[z.job].seq + 1 /\ z.row.status = jobs[z.job].status
      BY <1>1, <1>4, <1>5, <1>8, <1>9
    <2>3. jobs'[j].status = jobs[j].status /\ \E z \in Elems(u) : z.do = "write" /\ z.job = j
      BY <1>2, <1>4, <1>7, <1>9
    <2> QED BY <1>6, <1>11, <2>1, <2>2, <2>3 DEF Shoots
  <1>13. Marking(t, u)
    <2>1. \E z \in Elems(u) : z.do = "high" /\ z.job = Arg(t).job
      BY <1>5, <1>9
    <2> QED BY <1>4, <1>5, <1>6, <1>9, <1>11, <2>1 DEF Marking
  <1>14. Locking(t, u)
    BY <1>4, <1>5, <1>6, <1>9, <1>11 DEF Locking
  <1>15. \A z \in Elems(u) : /\ Named(z) \subseteq 1 .. nextID /\ z.do \in {"write", "high"} /\ z.do \notin Closing
                             /\ \A k \in Ids : Writes(z, k) => Writes(Arg(t), k)
    <2>1. Named(x) \subseteq 1 .. nextID /\ Named(y) \subseteq 1 .. nextID
      BY <1>2, <1>4, <1>5
    <2>2. \A k \in Ids : Writes(x, k) => Writes(Arg(t), k)
      BY <1>1, <1>2, <1>4 DEF Writes
    <2>3. \A k \in Ids : ~Writes(y, k)
      BY <1>5 DEF Writes
    <2> QED BY <1>4, <1>5, <1>9, <2>1, <2>2, <2>3 DEF Closing
  <1>16. \A k \in Ids : ~Signals(Arg(t), k)
    BY <1>1 DEF Signals
  <1> HIDE DEF j, row
  <1> QED
    BY <1>1, <1>2, <1>6, <1>7, <1>9, <1>10, <1>12, <1>13, <1>14, <1>15, <1>16, HandedOn

LEMMA KeepFollows ==
    ASSUME StoreInv, NEW t \in Threads, Keep(t)
    PROVE  Followed(t)
  <1> USE DEF lists, crew, control, store, life
  <1> DEFINE j == Arg(t).job
             x == Do("save", j)
             y == Do("unlock", j)
  <1>1. /\ ~Idle(t) /\ Arg(t).do = "keep"
        /\ ~At(t, "save") /\ ~At(t, "write") /\ ~At(t, "delete") /\ ~At(t, "high")
        /\ ~At(t, "answer") /\ ~At(t, "unlock")
    BY DEF Keep, At, Arg
  <1>2. phase # "down" /\ j \in Ids /\ Named(Arg(t)) = {j} /\ j \in 1 .. nextID
    BY <1>1, Ahead, Pursuing DEF StoreInv, OfJob
  <1>3. UNCHANGED <<lists, crew, control, jobs, store, life>> /\ rowWrite = Free
    BY DEF Keep
  <1>4. CASE j \in index
    <2>1. Proceed(t, << x, y >>) /\ rowWrite' = t
      BY <1>4 DEF Keep, KeptSteps
    <2>2. x \in Step /\ x.do = "save" /\ x.job = j /\ Named(x) = {j}
      <3>1. "save" \in OfJob
        BY DEF OfJob
      <3> QED BY <1>2, <3>1, Doing
    <2>3. y \in Step /\ y.do = "unlock" /\ y.jobs = {}
      BY <1>2, DoIsAStep, BoundsAssumption DEF Ids, Do
    <2> DEFINE u == << x, y >>
    <2> HIDE DEF x, y
    <2>4. u \in Seq(Step) /\ Elems(u) = {x, y} /\ ClosedBy(u) /\ AtMostOnce(u, Unlocks)
      <3>1. x.do \notin Closing
        BY <2>2 DEF Closing
      <3>2. AtMostOnce(u, Unlocks)
        BY <2>2, <2>3 DEF AtMostOnce, Unlocks
      <3> QED BY <2>2, <2>3, <3>1, <3>2, LastCloses
    <2>5. Becomes(t, u)
      BY <1>1, <2>1 DEF Becomes
    <2> HIDE DEF u
    <2>6. Shoots(t, u)
      BY <1>1, <1>3, <2>2, <2>3, <2>4 DEF Shoots
    <2>7. Marking(t, u)
      BY <1>1, <1>3, <2>2, <2>3, <2>4 DEF Marking
    <2>8. Locking(t, u)
      BY <1>1, <1>3, <2>1, <2>4 DEF Locking
    <2>9. \A z \in Elems(u) : /\ Named(z) \subseteq 1 .. nextID /\ z.do \in {"save", "unlock"} /\ z.do \notin Closing
                              /\ \A k \in Ids : Writes(z, k) => k = j
      <3>1. Named(y) = {}
        BY <2>3 DEF Named, OfJob
      <3> QED BY <1>2, <2>2, <2>3, <2>4, <3>1 DEF Closing, Writes
    <2>10. \A k \in index : Promises(Arg(t), k) => \E z \in Elems(u) : Promises(z, k)
      BY <1>2, <2>2, <2>4 DEF Promises
    <2>11. \A k \in Ids : ~Signals(Arg(t), k)
      BY <1>1 DEF Signals
    <2> HIDE DEF j
    <2> QED
      BY <1>1, <1>2, <1>3, <1>4, <2>4, <2>5, <2>6, <2>7, <2>8, <2>9, <2>10, <2>11, HandedOn
  <1>5. CASE j \notin index
    <2>1. Proceed(t, << >>) /\ rowWrite' = rowWrite
      BY <1>3, <1>5 DEF Keep
    <2>2. << >> \in Seq(Step) /\ Elems(<< >>) = {}
      BY EmptyList
    <2>3. Shoots(t, << >>) /\ Marking(t, << >>) /\ Locking(t, << >>)
      BY <1>1, <1>3, <2>1, <2>2, CalmStep
    <2>4. \A k \in index : ~Promises(Arg(t), k)
      BY <1>2, <1>5 DEF Promises
    <2> HIDE DEF j
    <2> QED BY <1>1, <1>3, <2>1, <2>3, <2>4, DoneWith
  <1> QED BY <1>4, <1>5

LEMMA ReleaseFollows ==
    ASSUME StoreInv, NEW t \in Threads, Release(t)
    PROVE  Followed(t)
  <1> USE DEF lists, crew, control, store, life
  <1>1. /\ ~Idle(t) /\ Arg(t).do = "release" /\ ~At(t, "save")
        /\ UNCHANGED <<lists, crew, control, jobs, rowWrite, store, life>>
    BY DEF Release, At, Arg
  <1>2. PICK j \in Arg(t).jobs :
           Proceed(t, << Do("signal", j), Do("save", j) >> \o ForEach("release", Arg(t).jobs \ {j}))
    BY DEF Release
  <1>3. phase # "down" /\ Arg(t).jobs \subseteq Ids /\ Arg(t).jobs \subseteq 1 .. nextID /\ Named(Arg(t)) = Arg(t).jobs
    BY <1>1, Ahead, Pursuing DEF StoreInv, Named, OfJob
  <1> DEFINE S == Arg(t).jobs \ {j}
             u == << Do("signal", j), Do("save", j) >> \o ForEach("release", S)
  <1>4. j \in Ids /\ S \in SUBSET Ids /\ S \subseteq Arg(t).jobs /\ Arg(t).jobs \subseteq S \cup {j}
    BY <1>3
  <1>5. Becomes(t, u)
    BY <1>1, <1>2 DEF Becomes
  <1> HIDE DEF S
  <1>6. IsReleased(u, j, S)
    BY <1>4, ReleasedList
  <1> HIDE DEF u
  <1>7. u \in Seq(Step) /\ ClosedBy(u)
    BY <1>6 DEF IsReleased
  <1>8. \A x \in Elems(u) : x.do \in {"signal", "save", "release"} /\ Named(x) \subseteq Arg(t).jobs
    BY <1>4, <1>6 DEF IsReleased
  <1>9. \A k \in Arg(t).jobs : \E x \in Elems(u) : Promises(x, k)
    <2> SUFFICES ASSUME NEW k \in Arg(t).jobs PROVE \E x \in Elems(u) : Promises(x, k)
      OBVIOUS
    <2>1. CASE k = j
      BY <1>6, <2>1 DEF IsReleased, Promises
    <2>2. CASE k \in S
      BY <1>6, <2>2 DEF IsReleased, Promises
    <2> QED BY <1>4, <2>1, <2>2
  <1>10. \A k \in Arg(t).jobs : \E x \in Elems(u) : Signals(x, k)
    <2> SUFFICES ASSUME NEW k \in Arg(t).jobs PROVE \E x \in Elems(u) : Signals(x, k)
      OBVIOUS
    <2>1. CASE k = j
      BY <1>6, <2>1 DEF IsReleased, Signals
    <2>2. CASE k \in S
      BY <1>6, <2>2 DEF IsReleased, Signals
    <2> QED BY <1>4, <2>1, <2>2
  <1>11. Shoots(t, u) /\ Marking(t, u) /\ Locking(t, u)
    BY <1>1, <1>7, <1>8, CalmStep
  <1>12. \A x \in Elems(u) : x.do \notin Closing
    BY <1>8 DEF Closing
  <1>13. /\ \A k \in index : Promises(Arg(t), k) => \E x \in Elems(u) : Promises(x, k)
         /\ \A k \in Ids : Signals(Arg(t), k) => \E x \in Elems(u) : Signals(x, k)
         /\ \A k \in Ids : \A x \in Elems(u) : Writes(x, k) => Writes(Arg(t), k)
    BY <1>1, <1>3, <1>8, <1>9, <1>10 DEF Promises, Signals, Writes
  <1>14. \A x \in Elems(u) : Named(x) \subseteq 1 .. nextID /\ x.do # "delete" /\ x.do # "process" /\ x.do # "await"
    BY <1>3, <1>8
  <1> QED BY <1>1, <1>3, <1>5, <1>7, <1>11, <1>12, <1>13, <1>14, HandedOn

LEMMA SaveEachFollows ==
    ASSUME StoreInv, SaveEach
    PROVE  Followed(Main)
  <1> USE DEF lists, crew, control, store, life
  <1> DEFINE t == Main
  <1>0. t \in Threads /\ "save" \in OfJob \ Closing
    BY DEF Threads, OfJob, Closing
  <1>1. /\ ~Idle(t) /\ Arg(t).do = "saveEach" /\ ~At(t, "save")
        /\ UNCHANGED <<lists, crew, control, jobs, rowWrite, store, life>>
    BY DEF SaveEach, At, Arg
  <1>2. PICK j \in Arg(t).jobs :
           Proceed(t, << Do("save", j) >> \o ForEach("saveEach", Arg(t).jobs \ {j}))
    BY DEF SaveEach
  <1>3. phase # "down" /\ Arg(t).jobs \subseteq Ids /\ Arg(t).jobs \subseteq 1 .. nextID /\ Named(Arg(t)) = Arg(t).jobs
    <2>1. phase # "down"
      BY <1>0, <1>1, Pursuing DEF StoreInv
    <2>2. Named(Arg(t)) \subseteq 1 .. nextID /\ Named(Arg(t)) \subseteq Ids
      BY <1>0, <1>1, Ahead
    <2> QED BY <1>1, <2>1, <2>2 DEF Named, OfJob
  <1> DEFINE S == Arg(t).jobs \ {j}
             u == DoLoop("save", j, "saveEach", S)
  <1>4. j \in Ids /\ S \in SUBSET Ids /\ S \subseteq Arg(t).jobs /\ Arg(t).jobs \subseteq S \cup {j}
    BY <1>3
  <1>5. Becomes(t, u)
    BY <1>1, <1>2 DEF Becomes, DoLoop
  <1> HIDE DEF S
  <1>6. IsDoLoop(u, "save", j, "saveEach", S)
    BY <1>0, <1>4, DoThenLoop
  <1> HIDE DEF u, t
  <1>7. u \in Seq(Step) /\ ClosedBy(u)
    BY <1>6 DEF IsDoLoop
  <1>8. \A x \in Elems(u) : x.do \in {"save", "saveEach"} /\ Named(x) \subseteq Arg(t).jobs
    BY <1>4, <1>6 DEF IsDoLoop
  <1>9. \A k \in Arg(t).jobs : \E x \in Elems(u) : Promises(x, k)
    <2> SUFFICES ASSUME NEW k \in Arg(t).jobs PROVE \E x \in Elems(u) : Promises(x, k)
      OBVIOUS
    <2>1. CASE k = j
      BY <1>6, <2>1 DEF IsDoLoop, Promises
    <2>2. CASE k \in S
      BY <1>6, <2>2 DEF IsDoLoop, Promises
    <2> QED BY <1>4, <2>1, <2>2
  <1>11. Shoots(t, u) /\ Marking(t, u) /\ Locking(t, u)
    BY <1>0, <1>1, <1>7, <1>8, CalmStep
  <1>12. \A x \in Elems(u) : x.do \notin Closing
    BY <1>8 DEF Closing
  <1>13. /\ \A k \in index : Promises(Arg(t), k) => \E x \in Elems(u) : Promises(x, k)
         /\ \A k \in Ids : ~Signals(Arg(t), k)
         /\ \A k \in Ids : \A x \in Elems(u) : Writes(x, k) => Writes(Arg(t), k)
    BY <1>1, <1>3, <1>8, <1>9 DEF Promises, Signals, Writes
  <1>14. \A x \in Elems(u) : Named(x) \subseteq 1 .. nextID /\ x.do # "delete" /\ x.do # "process" /\ x.do # "await"
    BY <1>3, <1>8
  <1>15. Followed(t)
    BY <1>0, <1>1, <1>3, <1>5, <1>7, <1>11, <1>12, <1>13, <1>14, HandedOn
  <1> QED BY <1>15 DEF t

LEMMA WaitFollows ==
    ASSUME StoreInv, NEW t \in Threads, Wait(t)
    PROVE  Followed(t)
  <1> USE DEF lists, crew, control, store, life
  <1> DEFINE j == Arg(t).job
             x == [Do("await", j) EXCEPT !.row.seq = jobs[j].run]
             y == Do("answer", j)
  <1>0. "await" \in OfJob /\ "answer" \in OfJob
    BY DEF OfJob
  <1>1. /\ ~Idle(t) /\ Arg(t).do = "wait" /\ Arg(t).do \in Closing /\ At(t, "wait") /\ ~At(t, "save")
        /\ UNCHANGED <<lists, crew, control, jobs, rowWrite, store, life>>
    BY DEF Wait, At, Arg, Closing
  <1>2. phase # "down" /\ j \in Ids /\ Named(Arg(t)) = {j} /\ j \in 1 .. nextID
    BY <1>1, Ahead, Pursuing DEF StoreInv, OfJob
  <1>3. x \in Step /\ x.do = "await" /\ x.job = j /\ x.row.seq = jobs[j].run /\ Named(x) = {j}
    <2>1. Do("await", j) \in Step /\ Do("await", j).do = "await" /\ Do("await", j).job = j
      BY <1>0, <1>2, Doing
    <2>2. jobs[j].run \in Nat
      BY <1>2 DEF StoreInv, IInv, TypeOK, JobType
    <2>3. x \in Step /\ x.do = "await" /\ x.job = j /\ x.row.seq = jobs[j].run
      BY <2>1, <2>2 DEF Step
    <2> QED BY <2>3 DEF Named, OfJob
  <1>4. y \in Step /\ y.do = "answer" /\ y.job = j /\ Named(y) = {j}
    BY <1>0, <1>2, Doing
  <1>5. \/ j \in index /\ Proceed(t, << x, y >>)
        \/ Proceed(t, << y >>)
    BY DEF Wait
  <1> HIDE DEF x, y, j
  <1>6. /\ << x, y >> \in Seq(Step) /\ Elems(<< x, y >>) = {x, y} /\ ClosedBy(<< x, y >>)
        /\ << y >> \in Seq(Step) /\ Elems(<< y >>) = {y} /\ ClosedBy(<< y >>)
    <2>1. x.do \notin Closing
      BY <1>3 DEF Closing
    <2> QED BY <1>3, <1>4, <2>1, LastCloses, OneCloses
  <1>7. PICK u \in Seq(Step) : Proceed(t, u) /\ ClosedBy(u) /\ Elems(u) \subseteq {x, y} /\ (x \in Elems(u) => j \in index)
    <2>1. x # y
      BY <1>3, <1>4
    <2> QED BY <1>5, <1>6, <2>1
  <1>8. Becomes(t, u)
    BY <1>1, <1>7 DEF Becomes
  <1>9. Shoots(t, u) /\ Marking(t, u) /\ Locking(t, u)
    <2>1. \A z \in Elems(u) : z.do \in {"answer", "wait"} => At(t, "wait") /\ Arg(t).job = z.job
      BY <1>1, <1>3, <1>4, <1>7 DEF j
    <2>2. \A z \in Elems(u) : z.do \notin {"write", "unlock"}
      BY <1>3, <1>4, <1>7
    <2> QED BY <1>1, <2>1, <2>2, CalmStep
  <1>10. \A z \in Elems(u) : /\ Named(z) \subseteq 1 .. nextID /\ z.do # "delete" /\ z.do # "process"
                             /\ z.do = "await" => z.row.seq = jobs[z.job].run /\ z.job \in index
                             /\ \A k \in Ids : ~Writes(z, k)
    BY <1>2, <1>3, <1>4, <1>7 DEF Writes
  <1>11. \A k \in Ids : ~Signals(Arg(t), k) /\ ~Promises(Arg(t), k)
    BY <1>1 DEF Signals, Promises
  <1>12. index \subseteq Ids
    BY DEF StoreInv, IInv, TypeOK
  <1> QED BY <1>1, <1>2, <1>7, <1>8, <1>9, <1>10, <1>11, <1>12, HandedOn

\* An operation that has only looked, and has one step to take.
LEMMA LookedOnly ==
    ASSUME StoreInv, NEW t \in Threads, Idle(t), IsUp, NEW x \in Step, Begin(t, << x >>),
           x.do \in {"keep", "cancelKeeping", "cancel"}, x.job \in 1 .. nextID,
           UNCHANGED <<lists, crew, control, jobs, rowWrite, store, life>>
    PROVE  Followed(t)
  <1> USE DEF lists, crew, control, store, life
  <1> DEFINE u == << x >>
  <1>1. u \in Seq(Step) /\ Elems(u) = {x} /\ ClosedBy(u)
    BY OneCloses
  <1>2. Becomes(t, u) /\ phase # "down" /\ ~At(t, "save")
    BY DEF Becomes, IsUp, At
  <1> HIDE DEF u
  <1>3. Named(x) \subseteq 1 .. nextID
    BY DEF Named, OfJob
  <1>4. Shoots(t, u) /\ Marking(t, u) /\ Locking(t, u)
    BY <1>1, CalmStep
  <1>5. \A k \in Ids : ~Writes(x, k)
    BY DEF Writes
  <1> QED BY <1>1, <1>2, <1>3, <1>4, <1>5, HandedOn

LEMMA LookingFollows ==
    ASSUME StoreInv, NEW c \in Callers, NEW j \in Ids, CancelLive(c, j) \/ CancelSeries(c, j)
    PROVE  Followed(c)
  <1>0. "cancel" \in OfJob /\ "cancelKeeping" \in OfJob
    BY DEF OfJob
  <1>1. /\ c \in Threads /\ Idle(c) /\ IsUp /\ UNCHANGED <<lists, crew, control, jobs, rowWrite, store, life>>
        /\ j \in 1 .. nextID
    BY DEF CancelLive, CancelSeries, CanCall, Threads, StoreInv, IInv, Grounded
  <1>2. CASE CancelLive(c, j)
    <2> DEFINE x == Do("cancelKeeping", j)
    <2>1. x \in Step /\ x.do = "cancelKeeping" /\ x.job = j
      BY <1>0, Doing
    <2>2. Begin(c, << x >>)
      BY <1>2 DEF CancelLive
    <2> HIDE DEF x
    <2> QED BY <1>1, <2>1, <2>2, LookedOnly
  <1>3. CASE CancelSeries(c, j)
    <2> DEFINE x == [Do("cancel", j) EXCEPT !.live = IsLive(j)]
    <2>1. Do("cancel", j) \in Step /\ Do("cancel", j).do = "cancel" /\ Do("cancel", j).job = j
      BY <1>0, Doing
    <2>2. x \in Step /\ x.do = "cancel" /\ x.job = j
      BY <2>1 DEF Step, IsLive
    <2>3. Begin(c, << x >>)
      BY <1>3 DEF CancelSeries
    <2> HIDE DEF x
    <2> QED BY <1>1, <2>2, <2>3, LookedOnly
  <1> QED BY <1>2, <1>3

\* A step that moves jobs between the lists, and has u to do for them.
LEMMA MovedOn ==
    ASSUME StoreInv, NEW t \in Threads, NEW u \in Seq(Step), Becomes(t, u), ClosedBy(u),
           phase # "down", phase' # "down", UNCHANGED <<running, held, rowWrite, rows, highWater, told>>,
           nextID' \in Nat, nextID' >= nextID, Idle(t) \/ Arg(t).do \in {"cancelKeeping", "cancel"},
           \A j \in Ids : jobs'[j].seq = jobs[j].seq,
           \A j \in 1 .. nextID : /\ jobs[j].shut \subseteq jobs'[j].shut
                                  /\ jobs'[j].run = jobs[j].run \/ (j \in finished /\ j \in pending'),
           \A j \in running : jobs'[j].status = jobs[j].status,
           \A x \in Elems(u) : /\ x.do \in {"save", "keep", "release", "report", "delete", "signal",
                                            "drop", "answer", "wait"}
                               /\ Named(x) \subseteq 1 .. nextID'
                               /\ x.do = "delete" => x.jobs \cap index' = {},
           \A x \in Elems(u) : x.do \in {"answer", "wait"} => \E y \in Elems(u) : y.do = "save" /\ y.job = x.job,
           \A j \in index' : j \in index \/ j > nextID,
           \A j \in index' : (j \in index /\ jobs'[j].status = jobs[j].status) \/ \E x \in Elems(u) : Promises(x, j),
           \A j \in index \ index' : \E x \in Elems(u) : x.do = "delete" /\ j \in x.jobs,
           \A j \in Ids \ (index \cup index') : \A x \in Elems(u) : ~Writes(x, j),
           \A j \in pending \ (pending' \cup running) : \E x \in Elems(u) : Signals(x, j),
           \A j \in finished' \ finished : jobs'[j].run \in jobs'[j].shut \/ \E x \in Elems(u) : Signals(x, j)
    PROVE  Followed(t)
  <1>1. TypeOK /\ IInv
    BY DEF StoreInv, IInv
  <1>2. Reaches(u)
    BY DEF Reaches
  <1>3. Shoots(t, u) /\ Marking(t, u) /\ Locking(t, u) /\ ~At(t, "delete")
    BY CalmStep
  <1>4. Promising(t, u)
    <2>1. ~Idle(t) => \A j \in index' : ~Promises(Arg(t), j)
      BY DEF Promises
    <2> QED BY <2>1 DEF Promising, IsHeld
  <1>5. Closes(t, u)
    BY DEF Closes, Closing
  <1>6. Starting(t, u)
    BY <1>1, NoStart
  <1>7. Removing(t, u)
    BY <1>3 DEF Removing
  <1>8. Waiting(t, u)
    <2>1. ~Idle(t) => \A j \in Ids : ~Signals(Arg(t), j)
      BY DEF Signals
    <2> QED BY <2>1 DEF Waiting
  <1> QED BY <1>2, <1>3, <1>4, <1>5, <1>6, <1>7, <1>8 DEF Traced, Followed

LEMMA EnqueueFollows ==
    ASSUME StoreInv, NEW c \in Callers, NEW lane \in Lanes, NEW wait \in BOOLEAN, Enqueue(c, lane, wait)
    PROVE  Followed(c)
  <1> DEFINE n == NewId
             x == Do("save", n)
             y == Do(IF wait THEN "wait" ELSE "answer", n)
             u == << x, y >>
  <1>0. "save" \in OfJob /\ "wait" \in OfJob /\ "answer" \in OfJob
    BY DEF OfJob
  <1>1. /\ c \in Threads /\ Idle(c) /\ phase # "down" /\ n \in Ids /\ nextID' = n
        /\ jobs' = [jobs EXCEPT ![n] = newJob(lane)] /\ index' = index \cup {n} /\ pending' = pending \cup {n}
        /\ Begin(c, u) /\ UNCHANGED <<finished, running, held, rowWrite, rows, highWater, told, phase>>
    BY DEF Enqueue, CanCall, IsUp, Threads, store, life
  <1>2. IInv /\ TypeOK /\ OnePlace /\ Dated
    BY DEF StoreInv, IInv
  <1>3. /\ nextID \in Nat /\ n = nextID + 1 /\ n \notin index /\ n \notin pending \cup running \cup finished
        /\ 1 .. nextID \subseteq Ids
    BY <1>1, <1>2, NextIsNew, BoundsAssumption DEF Ids, TypeOK
  <1>4. jobs[n].seq = 0 /\ jobs \in [Ids -> JobType]
    BY <1>1, <1>2, <1>3 DEF Dated, TypeOK
  <1>5. x \in Step /\ x.do = "save" /\ x.job = n /\ Named(x) = {n}
    BY <1>0, <1>1, Doing
  <1>6. y \in Step /\ y.do \in {"wait", "answer"} /\ y.job = n /\ Named(y) = {n}
    <2>1. CASE wait
      BY <1>0, <1>1, <2>1, Doing
    <2>2. CASE ~wait
      BY <1>0, <1>1, <2>2, Doing
    <2> QED BY <2>1, <2>2
  <1>7. jobs'[n].seq = 0 /\ \A k \in Ids \ {n} : jobs'[k] = jobs[k]
    BY <1>1, <1>4 DEF newJob, NoJob
  <1> HIDE DEF n, x, y
  <1>8. u \in Seq(Step) /\ Elems(u) = {x, y} /\ ClosedBy(u)
    <2>1. x.do \notin Closing
      BY <1>5 DEF Closing
    <2> QED BY <1>5, <1>6, <2>1, LastCloses
  <1>9. Becomes(c, u)
    BY <1>1 DEF Becomes
  <1> HIDE DEF u
  <1>10. nextID' \in Nat /\ nextID' >= nextID /\ n > nextID /\ n \in 1 .. nextID'
         /\ \A k \in 1 .. nextID : k # n /\ k \in Ids
    BY <1>1, <1>3
  <1>11. \A k \in Ids : jobs'[k].seq = jobs[k].seq
    BY <1>4, <1>7
  <1>12. /\ \A k \in 1 .. nextID : jobs'[k] = jobs[k]
         /\ \A k \in running : jobs'[k].status = jobs[k].status
         /\ \A k \in index : jobs'[k].status = jobs[k].status
    BY <1>2, <1>3, <1>7, <1>10 DEF TypeOK
  <1>13. \A z \in Elems(u) : /\ z.do \in {"save", "answer", "wait"} /\ z.job = n /\ Named(z) = {n}
                             /\ z.do \in {"answer", "wait"} => z # x
    BY <1>5, <1>6, <1>8
  <1>14. Promises(x, n) /\ x \in Elems(u)
    BY <1>5, <1>8 DEF Promises
  <1>15. \A k \in Ids \ (index \cup index') : \A z \in Elems(u) : ~Writes(z, k)
    BY <1>1, <1>13 DEF Writes
  <1> QED
    BY <1>1, <1>5, <1>8, <1>9, <1>10, <1>11, <1>12, <1>13, <1>14, <1>15, MovedOn

LEMMA RetryFollows ==
    ASSUME StoreInv, NEW c \in Callers, NEW j \in Ids, Retry(c, j)
    PROVE  Followed(c)
  <1> DEFINE x == Do("save", j)
             u == << x >>
  <1>0. "save" \in OfJob
    BY DEF OfJob
  <1>1. /\ c \in Threads /\ Idle(c) /\ phase # "down"
        /\ j \in index /\ j \notin running /\ jobs[j].status \in Settled
        /\ jobs' = [jobs EXCEPT ![j] = reset(j)] /\ finished' = finished \ {j} /\ pending' = pending \cup {j}
        /\ Begin(c, u) /\ UNCHANGED <<index, running, held, nextID, rowWrite, rows, highWater, told, phase>>
    BY DEF Retry, CanCall, IsUp, Threads, MayRetry, CanReset, IsSettled, control, store, life
  <1>2. IInv /\ TypeOK /\ OnePlace /\ Grounded
    BY DEF StoreInv, IInv
  <1>3. j \in finished
    <2>1. j \notin pending
      BY <1>1, <1>2 DEF OnePlace, Settled
    <2> QED BY <1>1, <1>2, <2>1 DEF OnePlace
  <1>4. /\ nextID \in Nat /\ 1 .. nextID \subseteq Ids /\ jobs \in [Ids -> JobType] /\ index \subseteq 1 .. nextID
        /\ index \subseteq Ids /\ running \subseteq Ids
    BY <1>2, BoundsAssumption DEF Ids, TypeOK, Grounded
  <1>5. x \in Step /\ x.do = "save" /\ x.job = j /\ Named(x) = {j}
    BY <1>0, Doing
  <1>6. jobs'[j].seq = jobs[j].seq /\ jobs'[j].shut = jobs[j].shut /\ \A k \in Ids \ {j} : jobs'[k] = jobs[k]
    <2>1. jobs[j] \in JobType /\ jobs'[j] = reset(j) /\ \A k \in Ids \ {j} : jobs'[k] = jobs[k]
      BY <1>1, <1>4
    <2>2. reset(j).seq = jobs[j].seq /\ reset(j).shut = jobs[j].shut
      BY <2>1 DEF reset, JobType
    <2> QED BY <2>1, <2>2
  <1> HIDE DEF x
  <1>7. u \in Seq(Step) /\ Elems(u) = {x} /\ ClosedBy(u)
    BY <1>5, OneCloses
  <1>8. Becomes(c, u)
    BY <1>1 DEF Becomes
  <1> HIDE DEF u
  <1>9. /\ \A k \in Ids : jobs'[k].seq = jobs[k].seq
        /\ \A k \in 1 .. nextID : /\ jobs[k].shut \subseteq jobs'[k].shut
                                  /\ jobs'[k].run = jobs[k].run \/ (k \in finished /\ k \in pending')
        /\ \A k \in running : jobs'[k].status = jobs[k].status
    BY <1>1, <1>3, <1>4, <1>6
  <1>10. /\ nextID' \in Nat /\ nextID' >= nextID
         /\ \A z \in Elems(u) : z.do = "save" /\ Named(z) \subseteq 1 .. nextID'
         /\ \A k \in index' : (k \in index /\ jobs'[k].status = jobs[k].status) \/ \E z \in Elems(u) : Promises(z, k)
    BY <1>1, <1>4, <1>5, <1>6, <1>7 DEF Promises
  <1>11. \A k \in Ids \ (index \cup index') : \A z \in Elems(u) : ~Writes(z, k)
    BY <1>1, <1>5, <1>7 DEF Writes
  <1> QED BY <1>1, <1>7, <1>8, <1>9, <1>10, <1>11, MovedOn

\* What the moves of jobs can rely on.
LEMMA Places ==
    ASSUME StoreInv
    PROVE  /\ TypeOK /\ OnePlace /\ Dated
           /\ nextID \in Nat /\ 1 .. nextID \subseteq Ids /\ jobs \in [Ids -> JobType]
           /\ index \subseteq 1 .. nextID /\ index \subseteq Ids
           /\ pending \subseteq index /\ running \subseteq index /\ finished \subseteq index
           /\ pending \cap running = {}
  <1>1. TypeOK /\ OnePlace /\ Grounded
    BY DEF StoreInv, IInv
  <1> QED BY <1>1, BoundsAssumption DEF StoreInv, Ids, TypeOK, Grounded, OnePlace

LEMMA SettledStays ==
    ASSUME TypeOK, NEW j \in Ids
    PROVE  LET r == settle(j, "canceled")
           IN  r.seq = jobs[j].seq /\ r.run = jobs[j].run /\ r.shut = jobs[j].shut
  BY DEF settle, TypeOK, JobType

LEMMA RecordLookupFollows ==
    ASSUME StoreInv, NEW c \in Callers, RecordLookup(c)
    PROVE  Followed(c)
  <1>0. "keep" \in OfJob \ Closing
    BY DEF OfJob, Closing
  <1>1. /\ c \in Threads /\ Idle(c) /\ IsUp /\ phase # "down" /\ UNCHANGED <<crew, rowWrite, store, life>>
        /\ UNCHANGED <<running, held, rows, highWater, told, phase>>
    BY DEF RecordLookup, CanCall, IsUp, Threads, crew, store, life
  <1>2. CASE UNCHANGED <<lists, control, jobs>> /\ \E j \in finished : Begin(c, << Do("keep", j) >>)
    <2>1. PICK j \in finished : Begin(c, << Do("keep", j) >>)
      BY <1>2
    <2>2. j \in Ids /\ j \in 1 .. nextID
      BY Places
    <2>3. Do("keep", j) \in Step /\ Do("keep", j).do = "keep" /\ Do("keep", j).job = j
      BY <1>0, <2>2, Doing
    <2> QED BY <1>1, <1>2, <2>1, <2>2, <2>3, LookedOnly
  <1>3. CASE ~(UNCHANGED <<lists, control, jobs>> /\ \E j \in finished : Begin(c, << Do("keep", j) >>))
    <2> DEFINE n == NewId
               job == [newJob(2) EXCEPT !.filed = TRUE, !.status = "succeeded", !.shut = {1}]
               E == EvictedBy({n})
               u == DoLoop("keep", n, "delete", E)
    <2>1. /\ n \in Ids /\ nextID' = n /\ jobs' = [jobs EXCEPT ![n] = job] /\ PushFinished({n}, index \cup {n})
          /\ Begin(c, u) /\ pending' = pending
      BY <1>3 DEF RecordLookup, DoLoop
    <2>2. /\ TypeOK /\ Dated /\ nextID \in Nat /\ 1 .. nextID \subseteq Ids /\ jobs \in [Ids -> JobType]
          /\ index \subseteq 1 .. nextID /\ index \subseteq Ids /\ finished \subseteq index /\ running \subseteq index
      BY Places
    <2>3. n = nextID + 1
      BY DEF NewId
    <2>4. {n} \in SUBSET Ids
      BY <2>1
    <2>5. /\ E \subseteq finished \cup {n} /\ finished' = (finished \cup {n}) \ E
          /\ index' = (index \cup {n}) \ E
      BY <2>1, <2>2, <2>4, Pushing
    <2>6. jobs'[n] = job /\ \A k \in Ids \ {n} : jobs'[k] = jobs[k]
      BY <2>1, <2>2
    <2>7. job.seq = 0 /\ job.run = 1 /\ job.shut = {1}
      BY DEF newJob, NoJob
    <2> HIDE DEF n, job, E
    <2>8. E \in SUBSET Ids
      BY <2>1, <2>2, <2>5
    <2>9. IsDoLoop(u, "keep", n, "delete", E)
      BY <1>0, <2>1, <2>8, DoThenLoop
    <2> HIDE DEF u
    <2>10. u \in Seq(Step) /\ ClosedBy(u) /\ Becomes(c, u)
      BY <1>1, <2>1, <2>9 DEF IsDoLoop, Becomes
    <2>11. /\ nextID' \in Nat /\ nextID' >= nextID /\ index \subseteq 1 .. nextID' /\ n \in 1 .. nextID'
           /\ n > nextID /\ \A k \in 1 .. nextID : k # n /\ k \in Ids
      BY <2>1, <2>2, <2>3
    <2>12. jobs[n].seq = 0
      BY <1>1, <2>1, <2>2, <2>11 DEF Dated
    <2>13. /\ \A k \in Ids : jobs'[k].seq = jobs[k].seq
           /\ \A k \in 1 .. nextID : jobs'[k] = jobs[k]
           /\ \A k \in running : jobs'[k].status = jobs[k].status
           /\ \A k \in index : jobs'[k].status = jobs[k].status
      BY <2>2, <2>6, <2>7, <2>11, <2>12
    <2>14. \A x \in Elems(u) : /\ x.do \in {"keep", "delete"}
                               /\ Named(x) \subseteq 1 .. nextID'
                               /\ x.do = "delete" => x.jobs \cap index' = {}
      BY <2>2, <2>5, <2>9, <2>11 DEF IsDoLoop
    <2>15. \A k \in index' : k \in index \/ (k = n /\ k > nextID)
      BY <2>5, <2>11
    <2>16. \E x \in Elems(u) : Promises(x, n)
      BY <2>9 DEF IsDoLoop, Promises
    <2>17. \A k \in index \ index' : \E x \in Elems(u) : x.do = "delete" /\ k \in x.jobs
      BY <2>5, <2>9 DEF IsDoLoop
    <2>18. \A k \in Ids \ (index \cup index') : \A x \in Elems(u) : ~Writes(x, k)
      BY <2>14 DEF Writes
    <2>19. \A k \in finished' \ finished : jobs'[k].run \in jobs'[k].shut
      BY <2>5, <2>6, <2>7
    <2> QED
      BY <1>1, <2>1, <2>10, <2>11, <2>13, <2>14, <2>15, <2>16, <2>17, <2>18, <2>19, MovedOn
  <1> QED BY <1>2, <1>3

LEMMA CancelKeepingRowFollows ==
    ASSUME StoreInv, NEW t \in Threads, CancelKeepingRow(t)
    PROVE  Followed(t)
  <1> DEFINE j == Arg(t).job
  <1>1. /\ ~Idle(t) /\ Arg(t).do = "cancelKeeping"
        /\ UNCHANGED <<running, held, nextID, rowWrite, rows, highWater, phase, told>>
    BY DEF CancelKeepingRow, At, Arg, control, life, store
  <1>2. phase # "down" /\ j \in Ids /\ j \in 1 .. nextID
    BY <1>1, Ahead, Pursuing DEF StoreInv, OfJob, Named
  <1>3. /\ TypeOK /\ nextID \in Nat /\ 1 .. nextID \subseteq Ids /\ jobs \in [Ids -> JobType]
        /\ index \subseteq 1 .. nextID /\ index \subseteq Ids /\ finished \subseteq index /\ running \subseteq index
        /\ pending \subseteq index /\ pending \cap running = {}
    BY Places
  <1> HIDE DEF j
  <1>4. CASE Proceed(t, << >>) /\ UNCHANGED <<lists, jobs>>
    <2>1. << >> \in Seq(Step) /\ Elems(<< >>) = {}
      BY EmptyList
    <2>2. Shoots(t, << >>) /\ Marking(t, << >>) /\ Locking(t, << >>) /\ ~At(t, "delete")
      BY <1>1, <1>4, <2>1, CalmStep
    <2> QED BY <1>1, <1>4, <2>2, DoneWith DEF Promises, lists
  <1>5. CASE /\ j \in index /\ j \in pending /\ pending' = pending \ {j}
             /\ jobs' = [jobs EXCEPT ![j] = settle(j, "canceled")] /\ PushFinished({j}, index)
             /\ Proceed(t, CanceledSteps(j, EvictedBy({j})))
    <2> DEFINE E == EvictedBy({j})
               u == CanceledSteps(j, E)
               r == settle(j, "canceled")
    <2>1. {j} \in SUBSET Ids
      BY <1>2
    <2>2. E \subseteq finished \cup {j} /\ finished' = (finished \cup {j}) \ E /\ index' = index \ E
      BY <1>3, <1>5, <2>1, Pushing
    <2>3. r.seq = jobs[j].seq /\ r.run = jobs[j].run /\ r.shut = jobs[j].shut
      BY <1>2, <1>3, SettledStays
    <2>4. jobs'[j] = r /\ \A k \in Ids \ {j} : jobs'[k] = jobs[k]
      BY <1>2, <1>3, <1>5
    <2> HIDE DEF r, E
    <2>5. E \in SUBSET Ids /\ E \subseteq index
      BY <1>3, <1>5, <2>2
    <2>6. IsCanceled(u, j, E)
      BY <1>2, <2>5, CanceledList
    <2>7. Proceed(t, u)
      BY <1>5 DEF E
    <2> HIDE DEF u
    <2>8. u \in Seq(Step) /\ ClosedBy(u) /\ Becomes(t, u)
      BY <1>1, <2>6, <2>7 DEF IsCanceled, Becomes
    <2>9. /\ \A k \in Ids : /\ jobs'[k].seq = jobs[k].seq /\ jobs'[k].run = jobs[k].run
                            /\ jobs'[k].shut = jobs[k].shut
                            /\ k = j \/ jobs'[k].status = jobs[k].status
      BY <2>3, <2>4
    <2>10. j \notin running
      BY <1>3, <1>5
    <2>11. \A x \in Elems(u) : /\ x.do \in {"signal", "report", "save", "delete"}
                               /\ Named(x) \subseteq 1 .. nextID'
                               /\ x.do = "delete" => x.jobs \cap index' = {}
      BY <1>1, <1>2, <1>3, <2>2, <2>5, <2>6 DEF IsCanceled
    <2>12. (\E x \in Elems(u) : Promises(x, j)) /\ (\E x \in Elems(u) : Signals(x, j))
      BY <2>6 DEF IsCanceled, Promises, Signals
    <2>13. \A k \in index \ index' : \E x \in Elems(u) : x.do = "delete" /\ k \in x.jobs
      BY <2>2, <2>6 DEF IsCanceled
    <2>14. \A k \in Ids \ (index \cup index') : \A x \in Elems(u) : ~Writes(x, k)
      BY <1>5, <2>6 DEF IsCanceled, Writes
    <2>15. index' \subseteq index /\ finished' \ finished \subseteq {j} /\ pending \ pending' \subseteq {j}
           /\ nextID' \in Nat /\ nextID' >= nextID
      BY <1>1, <1>3, <1>5, <2>2
    <2>16. running \subseteq Ids /\ \A k \in running : k # j
      BY <1>3, <2>10
    <2> QED
      BY <1>1, <1>2, <1>3, <2>8, <2>9, <2>11, <2>12, <2>13, <2>14, <2>15, <2>16, MovedOn
  <1> QED BY <1>4, <1>5 DEF CancelKeepingRow, j

LEMMA CancelFollows ==
    ASSUME StoreInv, NEW t \in Threads, Cancel(t)
    PROVE  Followed(t)
  <1> DEFINE j == Arg(t).job
  <1>1. /\ ~Idle(t) /\ Arg(t).do = "cancel"
        /\ UNCHANGED <<running, held, nextID, jobs, rowWrite, rows, highWater, phase, told>>
    BY DEF Cancel, At, Arg, control, life, store
  <1>2. phase # "down" /\ j \in Ids /\ j \in 1 .. nextID
    BY <1>1, Ahead, Pursuing DEF StoreInv, OfJob, Named
  <1>3. /\ nextID \in Nat /\ 1 .. nextID \subseteq Ids /\ index \subseteq Ids /\ running \subseteq index
    BY Places
  <1> HIDE DEF j
  <1>4. CASE Proceed(t, << >>) /\ UNCHANGED lists
    <2>1. << >> \in Seq(Step) /\ Elems(<< >>) = {}
      BY EmptyList
    <2>2. Shoots(t, << >>) /\ Marking(t, << >>) /\ Locking(t, << >>) /\ ~At(t, "delete")
      BY <1>1, <1>4, <2>1, CalmStep
    <2> QED BY <1>1, <1>4, <2>2, DoneWith DEF Promises, lists
  <1>5. CASE /\ j \in index /\ j \notin running /\ pending' = pending \ {j} /\ finished' = finished \ {j}
             /\ index' = index \ {j} /\ Proceed(t, RemovedSteps(j))
    <2> DEFINE u == RemovedSteps(j)
    <2>1. IsRemoved(u, j)
      BY <1>2, RemovedList
    <2>2. Proceed(t, u)
      BY <1>5
    <2> HIDE DEF u
    <2>3. u \in Seq(Step) /\ ClosedBy(u) /\ Becomes(t, u)
      BY <1>1, <2>1, <2>2 DEF IsRemoved, Becomes
    <2>4. \A x \in Elems(u) : /\ x.do \in {"drop", "report", "delete"}
                              /\ Named(x) \subseteq 1 .. nextID'
                              /\ x.do = "delete" => x.jobs \cap index' = {}
      BY <1>1, <1>2, <1>5, <2>1 DEF IsRemoved
    <2>5. \E x \in Elems(u) : Signals(x, j)
      BY <2>1 DEF IsRemoved, Signals
    <2>6. \A k \in index \ index' : \E x \in Elems(u) : x.do = "delete" /\ k \in x.jobs
      BY <1>5, <2>1 DEF IsRemoved
    <2>7. \A k \in Ids : \A x \in Elems(u) : ~Writes(x, k)
      BY <2>4 DEF Writes
    <2>8. index' \subseteq index /\ finished' \subseteq finished /\ pending \ pending' \subseteq {j}
          /\ nextID' \in Nat /\ nextID' >= nextID
      BY <1>1, <1>3, <1>5
    <2> QED BY <1>1, <1>2, <2>3, <2>4, <2>5, <2>6, <2>7, <2>8, MovedOn
  <1> QED BY <1>4, <1>5 DEF Cancel, NothingToCancel, j

LEMMA DropPendingFollows ==
    ASSUME StoreInv, NEW t \in Threads, Idle(t), IsUp, DropPending(t), phase' # "down",
           UNCHANGED <<running, held, nextID, rowWrite, rows, highWater, told>>
    PROVE  Followed(t)
  <1> DEFINE P == pending
             E == EvictedBy(P)
             u == ForEach("release", P) \o ForEach("report", P) \o ForEach("delete", E)
  <1>1. /\ pending' = {} /\ jobs' = [j \in Ids |-> IF j \in P THEN settle(j, "canceled") ELSE jobs[j]]
        /\ PushFinished(P, index) /\ Begin(t, u) /\ phase # "down"
    BY DEF DropPending, IsUp
  <1>2. /\ TypeOK /\ nextID \in Nat /\ 1 .. nextID \subseteq Ids
        /\ index \subseteq 1 .. nextID /\ index \subseteq Ids /\ finished \subseteq index /\ running \subseteq index
        /\ P \subseteq index /\ P \cap running = {}
    BY Places
  <1>3. P \in SUBSET Ids
    BY <1>2
  <1>4. E \subseteq finished \cup P /\ finished' = (finished \cup P) \ E /\ index' = index \ E
    BY <1>1, <1>2, <1>3, Pushing
  <1>5. \A k \in Ids : /\ jobs'[k].seq = jobs[k].seq /\ jobs'[k].run = jobs[k].run
                       /\ jobs'[k].shut = jobs[k].shut
                       /\ k \in P \/ jobs'[k].status = jobs[k].status
    BY <1>1, <1>2, SettledStays
  <1>6. E \in SUBSET Ids /\ E \subseteq index
    BY <1>2, <1>4
  <1> HIDE DEF P, E
  <1>7. IsDropped(u, P, E)
    BY <1>3, <1>6, DroppedList
  <1> HIDE DEF u
  <1>8. u \in Seq(Step) /\ ClosedBy(u) /\ Becomes(t, u)
    BY <1>1, <1>7 DEF IsDropped, Becomes
  <1>9. \A x \in Elems(u) : /\ x.do \in {"release", "report", "delete"}
                            /\ Named(x) \subseteq 1 .. nextID'
                            /\ x.do = "delete" => x.jobs \cap index' = {}
    BY <1>2, <1>4, <1>6, <1>7 DEF IsDropped
  <1>10. \A k \in P : (\E x \in Elems(u) : Promises(x, k)) /\ (\E x \in Elems(u) : Signals(x, k))
    BY <1>7 DEF IsDropped, Promises, Signals
  <1>11. \A k \in index \ index' : \E x \in Elems(u) : x.do = "delete" /\ k \in x.jobs
    BY <1>4, <1>7 DEF IsDropped
  <1>12. \A k \in Ids \ (index \cup index') : \A x \in Elems(u) : ~Writes(x, k)
    BY <1>2, <1>7 DEF IsDropped, Writes
  <1>13. index' \subseteq index /\ finished' \ finished \subseteq P /\ pending \subseteq P
         /\ nextID' \in Nat /\ nextID' >= nextID /\ running \subseteq Ids /\ \A k \in running : k \notin P
    BY <1>2, <1>4 DEF P
  <1> QED
    BY <1>1, <1>2, <1>5, <1>8, <1>9, <1>10, <1>11, <1>12, <1>13, MovedOn

LEMMA DropFinishedFollows ==
    ASSUME StoreInv, NEW c \in Callers, Idle(c), IsUp, NEW S \in SUBSET finished, DropFinished(c, S)
    PROVE  Followed(c)
  <1> DEFINE u == ForEach("delete", S)
  <1>1. /\ c \in Threads /\ phase # "down" /\ S # {} /\ finished' = finished \ S /\ index' = index \ S /\ Begin(c, u)
        /\ UNCHANGED <<pending, running, held, nextID, jobs, rowWrite, rows, highWater, told, phase>>
    BY DEF DropFinished, Threads, IsUp, crew, control, store, life
  <1>2. /\ nextID \in Nat /\ 1 .. nextID \subseteq Ids /\ index \subseteq 1 .. nextID /\ finished \subseteq index
    BY Places
  <1>3. S \in SUBSET Ids
    BY <1>2
  <1>4. u \in Seq(Step) /\ \A x \in Elems(u) : x.do = "delete" /\ x.jobs = S /\ Named(x) = S
    BY <1>3, Looped
  <1>5. \E x \in Elems(u) : x.do = "delete" /\ x.jobs = S
    BY <1>1, <1>3, Looped
  <1> HIDE DEF u
  <1>6. ClosedBy(u) /\ Becomes(c, u)
    BY <1>1, <1>4, NoneCloses DEF Closing, Becomes
  <1>7. \A x \in Elems(u) : /\ x.do = "delete" /\ Named(x) \subseteq 1 .. nextID'
                            /\ x.jobs \cap index' = {}
    BY <1>1, <1>2, <1>4
  <1>8. \A k \in index \ index' : \E x \in Elems(u) : x.do = "delete" /\ k \in x.jobs
    BY <1>1, <1>5
  <1>9. \A k \in Ids : \A x \in Elems(u) : ~Writes(x, k)
    BY <1>7 DEF Writes
  <1>10. index' \subseteq index /\ finished' \subseteq finished /\ nextID' \in Nat /\ nextID' >= nextID
    BY <1>1, <1>2
  <1> QED BY <1>1, <1>2, <1>4, <1>6, <1>7, <1>8, <1>9, <1>10, MovedOn

\* The operations of a request that have steps to do for what they move.
Quiet(c) == Pause(c) \/ Resume(c)

LEMMA CallerStepFollows ==
    ASSUME StoreInv, NEW c \in Callers, CallerStep(c), ~Quiet(c)
    PROVE  Followed(c)
  <1>1. CASE \E lane \in Lanes, wait \in BOOLEAN : Enqueue(c, lane, wait)
    BY <1>1, EnqueueFollows
  <1>2. CASE \E j \in Ids : Retry(c, j) \/ CancelLive(c, j) \/ CancelSeries(c, j)
    BY <1>2, RetryFollows, LookingFollows
  <1>3. CASE RecordLookup(c)
    BY <1>3, RecordLookupFollows
  <1>4. CASE CancelPending(c)
    <2>1. /\ c \in Threads /\ Idle(c) /\ IsUp /\ phase' # "down" /\ DropPending(c)
          /\ UNCHANGED <<running, held, nextID, rowWrite, rows, highWater, told>>
      BY <1>4 DEF CancelPending, CanCall, IsUp, Threads, crew, control, store, life
    <2> QED BY <2>1, DropPendingFollows
  <1>5. CASE Clear(c) \/ ClearSucceeded(c) \/ Sweep(c)
    <2>1. Idle(c) /\ IsUp /\ \E S \in SUBSET finished : DropFinished(c, S)
      BY <1>5 DEF Clear, ClearSucceeded, Sweep, CanCall, Clearable
    <2> QED BY <2>1, DropFinishedFollows
  <1> QED BY <1>1, <1>2, <1>3, <1>4, <1>5 DEF CallerStep, Quiet

LEMMA PursueFollows ==
    ASSUME StoreInv, NEW t \in Threads, Pursue(t)
    PROVE  Followed(t)
  BY SaveFollows, WriteFollows, HighFollows, KeepFollows, UnlockFollows, DeleteFollows, SignalFollows,
     ReleaseFollows, QuietDone, AnswerFollows, WaitFollows, CancelKeepingRowFollows, CancelFollows
     DEF Pursue

LEMMA TakeFollows ==
    ASSUME StoreInv, NEW w \in Workers, Take(w)
    PROVE  Followed(w)
  <1>1. /\ w \in Threads /\ Idle(w) /\ phase # "down" /\ Begin(w, << Own("start") >>)
        /\ UNCHANGED <<finished, index, nextID, jobs, rowWrite, rows, highWater, told, phase>>
    BY DEF Take, IsUp, Threads, control, store, life
  <1>2. PICK j \in pending : pending' = pending \ {j} /\ running' = running \cup {j} /\ held' = [held EXCEPT ![w] = j]
    BY DEF Take
  <1>3. /\ TypeOK /\ nextID \in Nat /\ index \subseteq Ids /\ running \subseteq index
    BY Places
  <1> DEFINE x == Own("start")
             u == << x >>
  <1>4. x \in Step /\ x.do = "start" /\ x.jobs = {}
    BY OwnIsAStep DEF Own, Do
  <1> HIDE DEF x
  <1>5. u \in Seq(Step) /\ Elems(u) = {x} /\ ClosedBy(u)
    BY <1>4, OneCloses
  <1>6. Becomes(w, u)
    BY <1>1 DEF Becomes, x
  <1> HIDE DEF u
  <1>7. Elems(todo[w]) = {}
    BY <1>1, EmptyElems DEF Idle
  <1>8. held[w] = 0
    BY <1>7 DEF StoreInv, IInv, Steps
  <1>9. \A v \in Workers \ {w} : held'[v] = held[v]
    BY <1>2, <1>3 DEF TypeOK
  <1>10. Named(x) = {}
    BY <1>4 DEF Named, OfJob
  <1>11. Reaches(u)
    BY <1>1, <1>3, <1>4, <1>5, <1>10 DEF Reaches
  <1>12. Shoots(w, u) /\ Marking(w, u) /\ Locking(w, u) /\ ~At(w, "delete")
    BY <1>1, <1>4, <1>5, CalmStep
  <1>13. Promising(w, u)
    <2>1. \A k \in Ids : IsHeld(k) => IsHeld(k)'
      <3> SUFFICES ASSUME NEW k \in Ids, NEW v \in Workers, held[v] = k PROVE \E o \in Workers : held'[o] = k
        BY DEF IsHeld
      <3>1. v # w
        BY <1>8 DEF Ids
      <3> QED BY <1>9, <3>1
    <2> QED BY <1>1, <1>3, <2>1 DEF Promising
  <1>14. Closes(w, u)
    BY <1>1, <1>5 DEF Closes
  <1>15. Starting(w, u)
    <2>1. ASSUME NEW v \in Workers, NEW y \in Elems(todo'[v]), y.do = "process"
          PROVE  held'[v] = held[v] /\ \E z \in Elems(todo[v]) : z.do = "process"
      <3>1. v \in Threads
        BY DEF Threads
      <3>2. y \in Elems(todo[v])
        BY <1>1, <1>3, <1>4, <1>5, <1>6, <2>1, <3>1, HandsMove
      <3> QED BY <1>7, <1>9, <2>1, <3>2
    <2> QED BY <1>1, <2>1 DEF Starting
  <1>16. Removing(w, u)
    BY <1>1, <1>4, <1>5, <1>12 DEF Removing, Writes
  <1>17. Waiting(w, u)
    BY <1>1, <1>2, <1>4, <1>5 DEF Waiting
  <1> QED
    BY <1>5, <1>6, <1>11, <1>12, <1>13, <1>14, <1>15, <1>16, <1>17 DEF Traced, Followed

\* A worker writes the status of the job it holds and goes on.
LEMMA RunsOn ==
    ASSUME StoreInv, NEW w \in Workers, ~Idle(w), Arg(w).do \in {"start", "process", "settle"},
           NEW u \in Seq(Step), Proceed(w, u), ClosedBy(u),
           NEW r, jobs' = [jobs EXCEPT ![held[w]] = r],
           r.seq = jobs[held[w]].seq, r.run = jobs[held[w]].run, r.shut = jobs[held[w]].shut,
           Begun(jobs[held[w]]) => Begun(r),
           \A x \in Elems(u) : /\ x.do \in {"save", "process", "settle", "finish"}
                               /\ x.do = "save" => x.job = held[w]
                               /\ x.do # "save" => x.jobs = {}
                               /\ x.do = "process" => Begun(r) /\ \E y \in Elems(u) : y.do = "save" /\ y.job = held[w],
           UNCHANGED <<lists, crew, control, rowWrite, store, life>>
    PROVE  Followed(w)
  <1> USE DEF lists, crew, control, store, life
  <1> DEFINE j == held[w]
  <1>1. w \in Threads /\ Becomes(w, u) /\ ~At(w, "save")
    BY DEF Threads, Becomes, At, Arg
  <1>2. Arg(w) \in Step
    BY <1>1, Ahead
  <1>3. Arg(w) \in Mine
    BY <1>2 DEF Mine
  <1>4. j \in running /\ j \in index /\ j \in Ids /\ phase # "down"
    BY <1>3, Holding DEF StoreInv
  <1>5. /\ TypeOK /\ nextID \in Nat /\ 1 .. nextID \subseteq Ids /\ jobs \in [Ids -> JobType]
        /\ index \subseteq 1 .. nextID /\ index \subseteq Ids /\ running \subseteq index
    BY Places
  <1>6. jobs'[j] = r /\ \A k \in Ids \ {j} : jobs'[k] = jobs[k]
    BY <1>4, <1>5
  <1>7. \A k \in Ids : jobs'[k].seq = jobs[k].seq /\ jobs'[k].run = jobs[k].run /\ jobs'[k].shut = jobs[k].shut
    BY <1>6
  <1> HIDE DEF j
  <1>8. \A x \in Elems(u) : Named(x) \subseteq {j}
    BY DEF Named, OfJob, j
  <1>9. Reaches(u)
    BY <1>4, <1>5, <1>8 DEF Reaches
  <1>10. Shoots(w, u) /\ Marking(w, u) /\ Locking(w, u) /\ ~At(w, "delete")
    BY <1>1, <1>7, CalmStep
  <1>11. Promising(w, u)
    <2>1. \A k \in Ids : IsHeld(k) => IsHeld(k)'
      BY DEF IsHeld
    <2>2. \A k \in Ids : k = j => IsHeld(k)'
      BY DEF IsHeld, j
    <2>3. \A k \in Ids : ~Promises(Arg(w), k)
      BY DEF Promises
    <2> QED BY <1>5, <1>6, <2>1, <2>2, <2>3 DEF Promising
  <1>12. Closes(w, u)
    BY DEF Closes, Closing
  <1>13. Starting(w, u)
    <2>1. \A k \in running : Begun(jobs[k]) => Begun(jobs'[k])
      BY <1>5, <1>6 DEF j
    <2>2. ASSUME NEW v \in Workers, NEW y \in Elems(todo'[v]), y.do = "process"
          PROVE  \/ \E z \in Elems(todo[v]) : z.do = "process"
                 \/ v = w /\ Begun(jobs'[held[v]]) /\ \E z \in Elems(u) : z.do = "save" /\ z.job = held[v]
      <3>1. v \in Threads
        BY DEF Threads
      <3>2. y \in Elems(todo[v]) \/ (v = w /\ y \in Elems(u))
        BY <1>1, <1>5, <2>2, <3>1, HandsMove
      <3> QED BY <1>6, <2>2, <3>2 DEF j
    <2> QED BY <2>1, <2>2 DEF Starting
  <1>14. Removing(w, u)
    <2>1. \A k \in Ids \ index : \A x \in Elems(u) : ~Writes(x, k)
      BY <1>4, <1>8 DEF Writes
    <2> QED BY <1>10, <2>1 DEF Removing
  <1>15. Waiting(w, u)
    <2>1. \A k \in Ids : ~Signals(Arg(w), k)
      BY DEF Signals
    <2> QED BY <1>5, <1>7, <2>1 DEF Waiting
  <1> QED BY <1>1, <1>9, <1>10, <1>11, <1>12, <1>13, <1>14, <1>15 DEF Traced, Followed

LEMMA OwnList ==
    ASSUME NEW what \in {"settle", "finish"}
    PROVE  /\ << Own(what) >> \in Seq(Step) /\ ClosedBy(<< Own(what) >>)
           /\ \A x \in Elems(<< Own(what) >>) : x.do = what /\ x.jobs = {}
  <1> DEFINE x == Own(what)
  <1>1. x \in Step /\ x.do = what /\ x.jobs = {}
    BY OwnIsAStep DEF Own, Do
  <1> HIDE DEF x
  <1>2. << x >> \in Seq(Step) /\ Elems(<< x >>) = {x} /\ ClosedBy(<< x >>)
    BY <1>1, OneCloses
  <1>3. \A y \in Elems(<< x >>) : y.do = what /\ y.jobs = {}
    BY <1>1, <1>2
  <1> QED BY <1>2, <1>3 DEF x

LEMMA StartFollows ==
    ASSUME StoreInv, NEW w \in Workers, Start(w)
    PROVE  Followed(w)
  <1> DEFINE j == held[w]
  <1>1. ~Idle(w) /\ Arg(w).do = "start" /\ UNCHANGED <<lists, crew, control, rowWrite, store, life>>
    BY DEF Start, At, Arg
  <1>2. w \in Threads /\ TypeOK /\ IInv
    BY DEF Threads, StoreInv, IInv
  <1>3. Arg(w) \in Mine
    BY <1>1, <1>2, Pursuing DEF Mine
  <1>4. j \in Ids /\ jobs[j] \in JobType /\ jobs \in [Ids -> JobType]
    BY <1>1, <1>2, <1>3, Holding DEF TypeOK
  <1>5. CASE jobs[j].status = "queued"
    <2> DEFINE x == Do("save", j)
               y == Own("process")
               u == << x, y >>
               r == [jobs[j] EXCEPT !.status = "running"]
    <2>1. jobs' = [jobs EXCEPT ![j] = r] /\ Proceed(w, u)
      BY <1>4, <1>5 DEF Start, StartedSteps
    <2>2. r.seq = jobs[j].seq /\ r.run = jobs[j].run /\ r.shut = jobs[j].shut /\ r.status = "running"
      BY <1>4 DEF JobType
    <2>3. x \in Step /\ x.do = "save" /\ x.job = j
      <3>1. "save" \in OfJob
        BY DEF OfJob
      <3> QED BY <1>4, <3>1, Doing
    <2>4. y \in Step /\ y.do = "process" /\ y.jobs = {}
      BY OwnIsAStep DEF Own, Do
    <2> HIDE DEF x, y, r
    <2>5. u \in Seq(Step) /\ Elems(u) = {x, y} /\ ClosedBy(u)
      <3>1. x.do \notin Closing
        BY <2>3 DEF Closing
      <3> QED BY <2>3, <2>4, <3>1, LastCloses
    <2> HIDE DEF u
    <2>6. Begun(r)
      BY <2>2 DEF Begun
    <2>7. \A z \in Elems(u) : /\ z.do \in {"save", "process", "settle", "finish"}
                              /\ z.do = "save" => z.job = j
                              /\ z.do # "save" => z.jobs = {}
                              /\ z.do = "process" => Begun(r) /\ \E v \in Elems(u) : v.do = "save" /\ v.job = j
      BY <2>3, <2>4, <2>5, <2>6
    <2> QED BY <1>1, <2>1, <2>2, <2>5, <2>6, <2>7, RunsOn
  <1>6. CASE jobs[j].status # "queued"
    <2> DEFINE u == << Own("finish") >>
               r == settle(j, "canceled")
    <2>1. jobs' = [jobs EXCEPT ![j] = r] /\ Proceed(w, u)
      BY <1>6 DEF Start
    <2>2. u \in Seq(Step) /\ ClosedBy(u) /\ \A x \in Elems(u) : x.do = "finish" /\ x.jobs = {}
      BY OwnList
    <2>3. r.seq = jobs[j].seq /\ r.run = jobs[j].run /\ r.shut = jobs[j].shut
      BY <1>2, <1>4, SettledStays
    <2>4. Begun(jobs[j]) => Begun(r)
      BY <1>4 DEF Begun, settle, JobType
    <2> HIDE DEF u, r
    <2> QED BY <1>1, <2>1, <2>2, <2>3, <2>4, RunsOn
  <1> QED BY <1>5, <1>6

LEMMA SettleKeepsRun ==
    ASSUME TypeOK, NEW j \in Ids, NEW s \in Settled
    PROVE  LET r == settle(j, s)
           IN  /\ r.seq = jobs[j].seq /\ r.run = jobs[j].run /\ r.shut = jobs[j].shut
               /\ Begun(jobs[j]) => Begun(r)
  BY DEF settle, TypeOK, JobType, Begun, Settled

LEMMA ReturnFollows ==
    ASSUME StoreInv, NEW w \in Workers, Return(w) \/ Settle(w)
    PROVE  Followed(w)
  <1> DEFINE j == held[w]
  <1>1. ~Idle(w) /\ Arg(w).do \in {"process", "settle"} /\ UNCHANGED <<lists, crew, control, rowWrite, store, life>>
    BY DEF Return, Settle, At, Arg
  <1>2. w \in Threads /\ TypeOK /\ IInv
    BY DEF Threads, StoreInv, IInv
  <1>3. Arg(w) \in Mine
    BY <1>1, <1>2, Pursuing DEF Mine
  <1>4. j \in Ids /\ jobs[j] \in JobType /\ jobs \in [Ids -> JobType]
    BY <1>1, <1>2, <1>3, Holding DEF TypeOK
  <1>5. "settle" \in {"settle", "finish"} /\ "finish" \in {"settle", "finish"}
    OBVIOUS
  <1>6. CASE jobs' = jobs /\ Proceed(w, << Own("settle") >>)
    <2> DEFINE u == << Own("settle") >>
               r == jobs[j]
    <2>1. u \in Seq(Step) /\ ClosedBy(u) /\ \A x \in Elems(u) : x.do = "settle" /\ x.jobs = {}
      BY <1>5, OwnList
    <2>2. jobs' = [jobs EXCEPT ![j] = r]
      BY <1>4, <1>6
    <2>3. Proceed(w, u)
      BY <1>6
    <2> HIDE DEF u
    <2> QED BY <1>1, <2>1, <2>2, <2>3, RunsOn
  <1>7. CASE \E s \in Settled : jobs' = [jobs EXCEPT ![j] = settle(j, s)] /\ Proceed(w, << Own("finish") >>)
    <2> DEFINE u == << Own("finish") >>
    <2>1. u \in Seq(Step) /\ ClosedBy(u) /\ \A x \in Elems(u) : x.do = "finish" /\ x.jobs = {}
      BY <1>5, OwnList
    <2>2. PICK s \in Settled : jobs' = [jobs EXCEPT ![j] = settle(j, s)] /\ Proceed(w, u)
      BY <1>7
    <2> DEFINE r == settle(j, s)
    <2>3. r.seq = jobs[j].seq /\ r.run = jobs[j].run /\ r.shut = jobs[j].shut /\ (Begun(jobs[j]) => Begun(r))
      BY <1>2, <1>4, SettleKeepsRun
    <2>4. jobs' = [jobs EXCEPT ![j] = r]
      BY <2>2
    <2> HIDE DEF u, r
    <2> QED BY <1>1, <2>1, <2>2, <2>3, <2>4, RunsOn
  <1>8. CASE Return(w)
    <2>1. "interrupted" \in Settled
      BY DEF Settled
    <2> QED BY <1>6, <1>7, <1>8, <2>1 DEF Return
  <1>9. CASE Settle(w)
    <2>1. Outcomes \subseteq Settled /\ "canceled" \in Settled
      BY BoundsAssumption DEF Settled
    <2>2. PICK s \in IF ctx[j] # "live" THEN {"canceled"} ELSE Outcomes :
             jobs' = [jobs EXCEPT ![j] = settle(j, s)]
      BY <1>9 DEF Settle
    <2>3. s \in Settled /\ Proceed(w, << Own("finish") >>)
      BY <1>9, <2>1, <2>2 DEF Settle
    <2> QED BY <1>7, <2>2, <2>3
  <1> QED BY <1>8, <1>9

LEMMA FinishFollows ==
    ASSUME StoreInv, NEW w \in Workers, Finish(w)
    PROVE  Followed(w)
  <1> DEFINE j == held[w]
             E == EvictedBy({j})
             u == FinishSteps(j, E)
  <1>1. ~Idle(w) /\ Arg(w).do = "finish" /\ Arg(w).do \in Closing /\ w \in Threads
    BY DEF Finish, At, Arg, Closing, Threads
  <1>2. Arg(w) \in Mine /\ TypeOK /\ IInv
    BY <1>1, Pursuing DEF Mine, StoreInv, IInv
  <1>3. /\ j \in running /\ j \in Ids /\ j \in index /\ j \notin pending /\ phase # "down"
        /\ \A v \in Workers \ {w} : held[v] # j
    BY <1>1, <1>2, Holding
  <1>4. /\ running' = running \ {j} /\ held' = [held EXCEPT ![w] = 0]
        /\ PushFinished({j}, index) /\ Proceed(w, u)
        /\ UNCHANGED <<pending, nextID, jobs, rowWrite, rows, highWater, told, phase>>
    BY DEF Finish, control, store, life
  <1>5. /\ nextID \in Nat /\ index \subseteq 1 .. nextID /\ index \subseteq Ids /\ finished \subseteq index
        /\ held \in [Workers -> Ids \cup {0}]
    BY <1>2, Places DEF TypeOK
  <1>6. {j} \in SUBSET Ids
    BY <1>3
  <1>7. E \subseteq finished \cup {j} /\ finished' = (finished \cup {j}) \ E /\ index' = index \ E
    BY <1>2, <1>4, <1>6, Pushing
  <1>8. held'[w] = 0 /\ \A v \in Workers \ {w} : held'[v] = held[v]
    BY <1>4, <1>5
  <1>9. Elems(todo[w]) = {Arg(w)}
    BY <1>1, <1>2, ClosingIsLast DEF StoreInv
  <1> HIDE DEF j, E
  <1>10. E \in SUBSET Ids /\ E \subseteq index
    BY <1>3, <1>5, <1>7
  <1>11. IsFinished(u, j, E)
    BY <1>3, <1>10, FinishedList
  <1> HIDE DEF u
  <1>12. u \in Seq(Step) /\ ClosedBy(u) /\ Becomes(w, u)
    BY <1>1, <1>4, <1>11 DEF IsFinished, Becomes
  <1>13. \A x \in Elems(u) : /\ x.do \in {"keep", "delete", "signal"}
                             /\ Named(x) \subseteq 1 .. nextID'
                             /\ x.do = "delete" => x.jobs \cap index' = {}
    BY <1>3, <1>4, <1>5, <1>7, <1>10, <1>11 DEF IsFinished
  <1>14. Reaches(u)
    BY <1>3, <1>4, <1>5, <1>7, <1>13 DEF Reaches
  <1>15. Shoots(w, u) /\ Marking(w, u) /\ Locking(w, u) /\ ~At(w, "delete")
    BY <1>1, <1>4, <1>12, <1>13, CalmStep
  <1>16. Promising(w, u)
    <2>1. ASSUME NEW k \in Ids, IsHeld(k), k # j PROVE \E v \in Workers : held'[v] = k
      <3>1. PICK v \in Workers : held[v] = k
        BY <2>1 DEF IsHeld
      <3>2. v # w
        BY <2>1, <3>1 DEF j
      <3> QED BY <1>8, <3>1, <3>2
    <2>2. \E x \in Elems(u) : Promises(x, j)
      BY <1>11 DEF IsFinished, Promises
    <2>3. \A k \in Ids : ~Promises(Arg(w), k)
      BY <1>1 DEF Promises
    <2>4. \A k \in index' : k \in index /\ k \in Ids /\ jobs'[k].status = jobs[k].status
      BY <1>4, <1>5, <1>7
    <2>5. \A k \in Ids : IsHeld(k) /\ k # j => IsHeld(k)'
      BY <2>1 DEF IsHeld
    <2> QED BY <2>2, <2>3, <2>4, <2>5 DEF Promising
  <1>17. Closes(w, u)
    BY <1>1, <1>12 DEF Closes
  <1>18. Starting(w, u)
    <2>1. ASSUME NEW v \in Workers, NEW y \in Elems(todo'[v]), y.do = "process"
          PROVE  held'[v] = held[v] /\ \E z \in Elems(todo[v]) : z.do = "process"
      <3>1. v \in Threads
        BY DEF Threads
      <3>2. y \in Elems(todo[v])
        BY <1>1, <1>2, <1>12, <1>13, <2>1, <3>1, HandsMove
      <3>3. v # w
        BY <1>1, <1>9, <2>1, <3>2
      <3> QED BY <1>8, <2>1, <3>2, <3>3
    <2> QED BY <1>4, <2>1 DEF Starting
  <1>19. Removing(w, u)
    <2>1. \A k \in index \ index' : \E x \in Elems(u) : x.do = "delete" /\ k \in x.jobs
      BY <1>7, <1>11 DEF IsFinished
    <2>2. \A k \in Ids : \A x \in Elems(u) : ~Writes(x, k)
      BY <1>13 DEF Writes
    <2> QED BY <1>15, <2>1, <2>2 DEF Removing
  <1>20. Waiting(w, u)
    <2>1. \A k \in Ids : ~Signals(Arg(w), k)
      BY <1>1 DEF Signals
    <2>2. \E x \in Elems(u) : Signals(x, j)
      BY <1>11 DEF IsFinished, Signals
    <2>3. (pending \cup running) \ (pending' \cup running') \subseteq {j} /\ finished' \ finished \subseteq {j}
      BY <1>4, <1>7
    <2> QED BY <1>4, <1>13, <2>1, <2>2, <2>3 DEF Waiting
  <1> QED
    BY <1>12, <1>14, <1>15, <1>16, <1>17, <1>18, <1>19, <1>20 DEF Traced, Followed

LEMMA StopFollows ==
    ASSUME StoreInv, Stop
    PROVE  Followed(Main)
  <1>1. /\ Main \in Threads /\ Idle(Main) /\ IsUp /\ DropPending(Main) /\ phase' = "stopping"
        /\ UNCHANGED <<running, held, nextID, rowWrite, rows, highWater, told>>
    BY DEF Stop, IsUp, Threads, store
  <1>2. phase' # "down"
    BY <1>1
  <1> QED BY <1>1, <1>2, DropPendingFollows

-----------------------------------------------------------------------------
(* Every step *)

\* A step that takes nothing off a todo list and lists no job elsewhere: at most
\* the status of a job on a worker moves on.
Still ==
    /\ UNCHANGED <<pending, finished, index, running, held, nextID, todo, rowWrite, rows, highWater, told>>
    /\ phase' = "down" <=> phase = "down"
    /\ \A j \in Ids : /\ jobs'[j].seq = jobs[j].seq /\ jobs'[j].run = jobs[j].run
                      /\ jobs'[j].shut = jobs[j].shut
                      /\ \/ jobs'[j].status = jobs[j].status
                         \/ IsHeld(j) /\ Begun(jobs[j]) /\ Begun(jobs'[j])

LEMMA StillSteps ==
    ASSUME StoreInv,
           \/ \E w \in Workers : Sleep(w) \/ Leave(w)
           \/ \E c \in Callers : Quiet(c)
           \/ Serve \/ Close \/ UNCHANGED vars
    PROVE  Still
  <1> USE DEF vars, lists, crew, control, store, life
  <1>1. /\ UNCHANGED <<pending, finished, index, running, held, nextID, jobs, todo, rowWrite, rows, highWater, told>>
        /\ phase' = "down" <=> phase = "down"
    BY DEF Sleep, Leave, Quiet, Pause, Resume, Serve, Close
  <1> QED BY <1>1 DEF Still

LEMMA ProcessStands ==
    ASSUME StoreInv, NEW w \in Workers, Process(w) \/ Abort(w)
    PROVE  Still
  <1> USE DEF lists, crew, control, store, life
  <1> DEFINE j == held[w]
  <1>1. ~Idle(w) /\ Arg(w).do = "process" /\ UNCHANGED <<lists, crew, control, todo, rowWrite, store, life>>
    BY DEF Process, Abort, At, Arg
  <1>2. w \in Threads /\ TypeOK /\ IInv
    BY DEF Threads, StoreInv, IInv
  <1>3. Arg(w) \in Mine
    BY <1>1, <1>2, Pursuing DEF Mine
  <1>4. j \in Ids /\ jobs[j] \in JobType /\ jobs \in [Ids -> JobType] /\ IsHeld(j)
    BY <1>1, <1>2, <1>3, Holding DEF TypeOK, IsHeld
  <1>5. Begun(jobs[j])
    BY <1>1, <1>2, Ahead DEF StoreInv, OnDisk
  <1>6. "failed" \in Settled
    BY DEF Settled
  <1>7. PICK r : /\ jobs' = [jobs EXCEPT ![j] = r] /\ Begun(r)
                 /\ r.seq = jobs[j].seq /\ r.run = jobs[j].run /\ r.shut = jobs[j].shut
    <2>1. CASE Process(w)
      <3> DEFINE q == [jobs[j] EXCEPT !.ran = TRUE]
      <3>1. jobs' = [jobs EXCEPT ![j] = q]
        BY <1>4, <2>1 DEF Process
      <3>2. q.seq = jobs[j].seq /\ q.run = jobs[j].run /\ q.shut = jobs[j].shut /\ q.status = jobs[j].status
        BY <1>4 DEF JobType
      <3>3. Begun(q)
        BY <1>5, <3>2 DEF Begun
      <3> QED BY <3>1, <3>2, <3>3
    <2>2. CASE Abort(w)
      <3> DEFINE q == settle(j, "failed")
      <3>1. q.seq = jobs[j].seq /\ q.run = jobs[j].run /\ q.shut = jobs[j].shut /\ Begun(q)
        BY <1>2, <1>4, <1>5, <1>6, SettleKeepsRun
      <3>2. jobs' = [jobs EXCEPT ![j] = q]
        BY <2>2 DEF Abort
      <3> QED BY <3>1, <3>2
    <2> QED BY <2>1, <2>2
  <1> HIDE DEF j
  <1>8. \A k \in Ids : jobs'[k] = IF k = j THEN r ELSE jobs[k]
    BY <1>4, <1>7
  <1> QED BY <1>1, <1>4, <1>5, <1>7, <1>8 DEF Still

\* Every step is a step of one goroutine through its list, a step that stands
\* still, a boot or the end of the process.
LEMMA StepIs ==
    ASSUME StoreInv, [Next]_vars
    PROVE  Still \/ (\E t \in Threads : Followed(t)) \/ Boot \/ Vanish
  <1>1. CASE \E w \in Workers : WorkerStep(w)
    <2>1. PICK w \in Workers : WorkerStep(w)
      BY <1>1
    <2>2. w \in Threads
      BY DEF Threads
    <2> QED
      BY <2>1, <2>2, StillSteps, ProcessStands, TakeFollows, StartFollows, ReturnFollows, FinishFollows
         DEF WorkerStep
  <1>2. CASE \E c \in Callers : CallerStep(c)
    <2>1. PICK c \in Callers : CallerStep(c)
      BY <1>2
    <2>2. c \in Threads
      BY DEF Threads
    <2> QED BY <2>1, <2>2, StillSteps, CallerStepFollows
  <1>3. CASE \E c \in Callers : Expire(c)
    BY <1>3, QuietDone DEF Threads
  <1>4. CASE \E t \in Threads : Pursue(t)
    BY <1>4, PursueFollows
  <1>5. CASE SaveEach \/ Stop
    BY <1>5, SaveEachFollows, StopFollows DEF Threads
  <1>6. CASE Serve \/ Close \/ UNCHANGED vars
    BY <1>6, StillSteps
  <1>7. CASE Exit \/ Crash
    BY <1>7 DEF Exit, Crash
  <1> QED
    BY <1>1, <1>2, <1>3, <1>4, <1>5, <1>6, <1>7 DEF Next

\* A listed job, a row about to be written and a job about to be saved have a
\* status; a row without one holds nothing at all.
Real ==
    /\ \A j \in index : jobs[j].status # "none"
    /\ \A x \in InHand : x.do = "write" => x.row.status # "none"
    /\ \A x \in InHand : \A j \in Ids : Writes(x, j) => jobs[j].status # "none"
    /\ \A j \in Ids : rows[j].status = "none" => rows[j] = NoRow

\* No job loses its status, and a worker takes its job from the FIFO.
Standing ==
    /\ \A j \in Ids : jobs[j].status # "none" => jobs'[j].status # "none"
    /\ running' \subseteq running \cup pending

LEMMA OneJobChanges ==
    ASSUME TypeOK, NEW j, NEW r, jobs' = [jobs EXCEPT ![j] = r], running' \subseteq running \cup pending,
           j \in Ids => r.status \in {jobs[j].status} \cup (Statuses \ {"none"})
    PROVE  Standing
  BY DEF Standing, TypeOK

LEMMA SettledStands ==
    ASSUME TypeOK, NEW j \in Ids, NEW s \in Statuses \ {"none"}
    PROVE  settle(j, s).status \in {jobs[j].status} \cup (Statuses \ {"none"})
  BY DEF settle, TypeOK, JobType

LEMMA WorkersStand ==
    ASSUME StoreInv, NEW w \in Workers, WorkerStep(w)
    PROVE  Standing
  <1> USE DEF lists, crew, control, store, life
  <1>0. /\ TypeOK /\ jobs \in [Ids -> JobType]
        /\ {"canceled", "interrupted", "failed", "running"} \cup Outcomes \subseteq Statuses \ {"none"}
    BY BoundsAssumption DEF StoreInv, IInv, TypeOK, Statuses, Settled
  <1>1. CASE Sleep(w) \/ Leave(w) \/ Take(w) \/ Finish(w)
    BY <1>1 DEF Sleep, Leave, Take, Finish, Standing
  <1>2. ASSUME held[w] \in Ids, Start(w)
        PROVE  Standing
    <2> DEFINE j == held[w]
    <2>1. CASE jobs[j].status = "queued"
      <3>1. jobs' = [jobs EXCEPT ![j] = [jobs[j] EXCEPT !.status = "running"]] /\ running' = running
        BY <1>0, <1>2, <2>1 DEF Start
      <3>2. [jobs[j] EXCEPT !.status = "running"].status = "running"
        BY <1>0, <1>2 DEF JobType
      <3> QED BY <1>0, <3>1, <3>2, OneJobChanges
    <2>2. CASE jobs[j].status # "queued"
      BY <1>0, <1>2, <2>2, SettledStands, OneJobChanges DEF Start
    <2> QED BY <2>1, <2>2
  <1>3. ASSUME held[w] \in Ids, Return(w)
        PROVE  Standing
    <2>1. CASE jobs' = jobs
      BY <1>3, <2>1 DEF Return, Standing
    <2>2. CASE jobs' = [jobs EXCEPT ![held[w]] = settle(held[w], "interrupted")]
      <3>1. running' = running
        BY <1>3 DEF Return
      <3> QED BY <1>0, <1>3, <2>2, <3>1, SettledStands, OneJobChanges
    <2> QED BY <1>3, <2>1, <2>2 DEF Return
  <1>4. ASSUME held[w] \in Ids, Settle(w)
        PROVE  Standing
    <2>1. PICK s \in IF ctx[held[w]] # "live" THEN {"canceled"} ELSE Outcomes :
             jobs' = [jobs EXCEPT ![held[w]] = settle(held[w], s)]
      BY <1>4 DEF Settle
    <2>2. s \in Statuses \ {"none"} /\ running' = running
      BY <1>0, <1>4, <2>1 DEF Settle
    <2> QED BY <1>0, <1>4, <2>1, <2>2, SettledStands, OneJobChanges
  <1>5. ASSUME Start(w) \/ Return(w) \/ Settle(w)
        PROVE  held[w] \in Ids
    <2>1. ~Idle(w) /\ Arg(w).do \in {"start", "process", "settle"}
      BY <1>5 DEF Start, Return, Settle, At, Arg
    <2>2. w \in Threads
      BY DEF Threads
    <2>3. Arg(w) \in Mine
      BY <2>1, <2>2, Ahead DEF Mine
    <2> QED BY <2>1, <2>3, Holding DEF StoreInv
  <1>6. CASE Process(w) \/ Abort(w)
    BY <1>6, ProcessStands DEF Still, Standing, Begun
  <1> QED BY <1>1, <1>2, <1>3, <1>4, <1>5, <1>6 DEF WorkerStep

LEMMA OthersStand ==
    ASSUME StoreInv, NEW t \in Threads, CallerStep(t) \/ Expire(t) \/ Pursue(t)
    PROVE  Standing
  <1> USE DEF lists, crew, control, store, life
  <1>0. /\ TypeOK /\ jobs \in [Ids -> JobType] /\ IInv
        /\ "canceled" \in Statuses \ {"none"}
    BY BoundsAssumption DEF StoreInv, IInv, TypeOK, Statuses, Settled
  <1>1. CASE jobs' = jobs /\ running' = running
    BY <1>1 DEF Standing
  <1>2. CASE \E lane \in Lanes, wait \in BOOLEAN : Enqueue(t, lane, wait)
    <2>1. PICK lane \in Lanes : jobs' = [jobs EXCEPT ![NewId] = newJob(lane)] /\ running' = running
      BY <1>2 DEF Enqueue
    <2>2. newJob(lane).status = "queued"
      BY DEF newJob, NoJob
    <2> QED BY <1>0, <2>1, <2>2 DEF Standing
  <1>3. CASE \E j \in Ids : Retry(t, j)
    <2>1. PICK j \in Ids : jobs' = [jobs EXCEPT ![j] = reset(j)] /\ running' = running
      BY <1>3 DEF Retry
    <2>2. reset(j).status = "queued"
      BY <1>0 DEF reset, JobType
    <2> QED BY <1>0, <2>1, <2>2 DEF Standing
  <1>4. CASE \E j \in Ids : CancelLive(t, j) \/ CancelSeries(t, j)
    BY <1>1, <1>4 DEF CancelLive, CancelSeries
  <1>5. CASE RecordLookup(t)
    <2> DEFINE r == [newJob(2) EXCEPT !.filed = TRUE, !.status = "succeeded", !.shut = {1}]
    <2>1. r.status = "succeeded"
      BY DEF newJob, NoJob
    <2>2. (jobs' = jobs \/ jobs' = [jobs EXCEPT ![NewId] = r]) /\ running' = running
      BY <1>5 DEF RecordLookup
    <2> QED BY <1>0, <2>1, <2>2 DEF Standing
  <1>6. CASE CancelPending(t)
    <2>1. jobs' = [j \in Ids |-> IF j \in pending THEN settle(j, "canceled") ELSE jobs[j]] /\ running' = running
      BY <1>6 DEF CancelPending, DropPending
    <2>2. \A j \in Ids : settle(j, "canceled").status \in {jobs[j].status} \cup (Statuses \ {"none"})
      BY <1>0, SettledStands
    <2> QED BY <2>1, <2>2 DEF Standing
  <1>7. CASE Clear(t) \/ ClearSucceeded(t) \/ Sweep(t) \/ Pause(t) \/ Resume(t)
    BY <1>1, <1>7 DEF Clear, ClearSucceeded, Sweep, Pause, Resume, DropFinished
  <1>8. CASE Write(t) \/ High(t) \/ Keep(t) \/ Unlock(t) \/ Delete(t) \/ Release(t) \/ Report(t)
              \/ Answer(t) \/ Wait(t) \/ Awake(t) \/ Expire(t) \/ Cancel(t)
    BY <1>1, <1>8 DEF Write, High, Keep, Unlock, Delete, Release, Report, Answer, Wait, Awake, Expire, Cancel
  <1>9. CASE Save(t)
    BY <1>0, <1>9 DEF Save, Standing, JobType
  <1>10. CASE Signal(t)
    BY <1>0, <1>10 DEF Signal, signalDone, Standing, JobType
  <1>11. CASE Drop(t)
    <2> DEFINE j == Arg(t).job
               r == [settle(j, "canceled") EXCEPT !.shut = @ \cup {jobs[j].run}]
    <2>1. jobs' = [jobs EXCEPT ![j] = r] /\ running' = running
      BY <1>11 DEF Drop
    <2>2. ASSUME j \in Ids PROVE r.status \in {jobs[j].status} \cup (Statuses \ {"none"})
      <3>1. settle(j, "canceled").status \in {jobs[j].status} \cup (Statuses \ {"none"})
        BY <1>0, <2>2, SettledStands
      <3>2. settle(j, "canceled") \in JobType
        BY <1>0, <2>2, JobIsTyped DEF Settled
      <3>3. r.status = settle(j, "canceled").status
        BY <3>2 DEF JobType
      <3> QED BY <3>1, <3>3
    <2> QED BY <1>0, <2>1, <2>2, OneJobChanges
  <1>12. CASE CancelKeepingRow(t)
    <2>1. /\ jobs' = jobs \/ (Arg(t).job \in pending /\ jobs' = [jobs EXCEPT ![Arg(t).job] = settle(Arg(t).job, "canceled")])
          /\ running' = running
      BY <1>12 DEF CancelKeepingRow
    <2>2. pending \subseteq Ids
      BY <1>0 DEF TypeOK
    <2> QED BY <1>0, <1>1, <2>1, <2>2, SettledStands, OneJobChanges
  <1> QED
    BY <1>2, <1>3, <1>4, <1>5, <1>6, <1>7, <1>8, <1>9, <1>10, <1>11, <1>12 DEF CallerStep, Pursue

LEMMA StepStands ==
    ASSUME StoreInv, [Next]_vars
    PROVE  Standing \/ Boot \/ Vanish
  <1> USE DEF lists, crew, control, store, life
  <1>1. CASE SaveEach \/ Serve \/ Close \/ UNCHANGED vars
    BY <1>1 DEF SaveEach, Serve, Close, Standing, vars
  <1>2. CASE Stop
    <2>1. jobs' = [j \in Ids |-> IF j \in pending THEN settle(j, "canceled") ELSE jobs[j]] /\ running' = running
      BY <1>2 DEF Stop, DropPending
    <2>2. TypeOK /\ "canceled" \in Statuses \ {"none"}
      BY DEF StoreInv, IInv, Statuses, Settled
    <2>3. \A j \in Ids : settle(j, "canceled").status \in {jobs[j].status} \cup (Statuses \ {"none"})
      BY <2>2, SettledStands
    <2> QED BY <2>1, <2>3 DEF Standing
  <1>3. Workers \subseteq Threads /\ Callers \subseteq Threads
    BY DEF Threads
  <1> QED
    BY <1>1, <1>2, <1>3, WorkersStand, OthersStand DEF Next, Exit, Crash

LEMMA RealIsKept ==
    ASSUME StoreInv, IInv', Real, Standing, NEW t \in Threads, NEW u \in Seq(Step), Becomes(t, u),
           Traced(t, u)
    PROVE  Real'
  <1>0. TypeOK /\ IInv /\ index \subseteq Ids /\ index' \subseteq Ids /\ pending \cup running \subseteq index
    BY DEF StoreInv, IInv, TypeOK, OnePlace
  <1>1. /\ InHand' \subseteq InHand \cup Elems(u) /\ InHand \subseteq Step /\ InHand' \subseteq Step
        /\ ~Idle(t) => Arg(t) \in InHand
    BY <1>0, HandsMove
  <1>2. \A j \in index' : jobs'[j].status # "none"
    <2> SUFFICES ASSUME NEW j \in index' PROVE jobs'[j].status # "none"
      OBVIOUS
    <2>1. CASE j \in index
      BY <1>0, <2>1 DEF Real, Standing
    <2>2. CASE j \notin index
      <3>1. j \in pending' \cup finished'
        BY <1>0, <2>2 DEF IInv, OnePlace, Standing
      <3>2. jobs'[j].status = "queued" \/ jobs'[j].status \in Settled
        BY <3>1 DEF IInv, OnePlace, IsSettled
      <3> QED BY <3>2 DEF Settled
    <2> QED BY <2>1, <2>2
  <1>3. ASSUME NEW x \in InHand', NEW j \in Ids, Writes(x, j)
        PROVE  jobs'[j].status # "none"
    <2>1. CASE x \in InHand
      BY <1>3, <2>1 DEF Real, Standing
    <2>2. CASE x \in Elems(u) /\ j \in index \cup index'
      BY <1>0, <1>2, <2>2 DEF Real, Standing
    <2>3. CASE x \in Elems(u) /\ j \notin index \cup index'
      <3>1. ~Idle(t) /\ Writes(Arg(t), j)
        BY <1>3, <2>3 DEF Traced, Removing
      <3> QED BY <1>1, <3>1 DEF Real, Standing
    <2> QED BY <1>1, <1>3, <2>1, <2>2, <2>3
  <1>4. ASSUME NEW x \in InHand', x.do = "write"
        PROVE  x.row.status # "none"
    <2>1. CASE x \in InHand
      BY <1>4, <2>1 DEF Real
    <2>2. CASE x \in Elems(u)
      <3>1. ~Idle(t) /\ Arg(t).do = "save" /\ x.job = Arg(t).job /\ x.row.status = jobs[x.job].status
        BY <1>4, <2>2 DEF Traced, Shoots, At, Arg
      <3>2. Arg(t).job \in Ids /\ Named(Arg(t)) = {Arg(t).job}
        BY <3>1, Ahead DEF OfJob
      <3>3. Writes(Arg(t), Arg(t).job)
        BY <3>1, <3>2 DEF Writes
      <3> QED BY <1>1, <3>1, <3>2, <3>3 DEF Real
    <2> QED BY <1>1, <1>4, <2>1, <2>2
  <1>5. ASSUME NEW j \in Ids, rows'[j].status = "none"
        PROVE  rows'[j] = NoRow
    <2>1. rows[j].status = "none" => rows[j] = NoRow
      BY DEF Real
    <2>2. At(t, "write") => Arg(t).row.status # "none"
      BY <1>1 DEF Real, At, Arg
    <2>3. rows'[j] = NoRow \/ rows'[j] = rows[j] \/ (At(t, "write") /\ rows'[j] = Arg(t).row)
      BY DEF Traced, Shoots
    <2> QED BY <1>5, <2>1, <2>2, <2>3
  <1> QED BY <1>2, <1>3, <1>4, <1>5 DEF Real

\* What the further invariants say survives a step that stands still.
LEMMA StillKeeps ==
    ASSUME StoreInv, Real, IInv', Still, Standing
    PROVE  /\ StoreInv' /\ Real'
           /\ Strayless => Strayless'
           /\ GoneIsGone => GoneIsGone'
           /\ Ended => Ended'
           /\ Woken => Woken'
  <1> USE DEF Still
  <1>0. /\ InHand' = InHand /\ TypeOK /\ \A t \in Threads : Elems(todo'[t]) = Elems(todo[t])
        /\ \A j : IsHeld(j)' <=> IsHeld(j)
        /\ index \subseteq Ids /\ running \subseteq index /\ pending \subseteq index /\ finished \subseteq index
    BY DEF InHand, IsHeld, StoreInv, IInv, TypeOK, OnePlace
  <1>1. \A x \in InHand : x \in Step /\ Named(x) \subseteq Ids /\ (x.do \in OfJob => x.job \in Ids)
    <2>1. nextID \in 0 .. MaxJobs /\ MaxJobs \in Nat
      BY <1>0, BoundsAssumption DEF TypeOK
    <2>2. \A x \in InHand : Named(x) \subseteq Ids
      BY <2>1 DEF StoreInv, Dated, Ids
    <2>3. \A x \in InHand : \E t \in Threads : x \in Elems(todo[t])
      BY DEF InHand
    <2>4. \A t \in Threads : todo[t] \in Seq(Step) /\ Elems(todo[t]) \subseteq Step
      BY <1>0 DEF TypeOK, Elems
    <2> QED BY <2>2, <2>3, <2>4 DEF StoreInv, IInv, Steps, Sound
  <1>2. Dated'
    BY <1>0, <1>1 DEF StoreInv, Dated, OfJob
  <1>3. CaughtUp'
    <2>1. \A j \in Ids : WritesOf(j)' = WritesOf(j)
      BY <1>0 DEF WritesOf
    <2>2. \A j \in Ids : Promised(j)' <=> Promised(j)
      BY <1>0 DEF Promised
    <2>3. \A j \in index : Written(j) /\ ~IsHeld(j) => Written(j)'
      BY <1>0, <2>1 DEF Written
    <2>4. \A j \in index : IsHeld(j) => Promised(j)
      BY DEF Promised
    <2> QED BY <1>0, <2>2, <2>3, <2>4 DEF StoreInv, CaughtUp
  <1>4. Ordered' /\ Marked' /\ Locked'
    BY <1>0 DEF StoreInv, Ordered, Marked, Locked
  <1>5. OnDisk'
    <2>1. \A j \in Ids : WritesOf(j)' = WritesOf(j)
      BY <1>0 DEF WritesOf
    <2>2. \A j \in Ids : Begun(jobs[j]) => Begun(jobs'[j])
      BY DEF Begun
    <2>3. ASSUME NEW w \in Workers, \E x \in Elems(todo[w]) : x.do = "process"
          PROVE  held[w] \in Ids
      <3>1. w \in Threads
        BY DEF Threads
      <3>2. PICK x \in Elems(todo[w]) : x.do = "process"
        BY <2>3
      <3>3. x \in Step
        BY <1>1, <3>1, <3>2 DEF InHand
      <3>4. x \in Mine
        BY <3>2, <3>3 DEF Mine
      <3>5. held[w] # 0
        BY <3>2, <3>4 DEF StoreInv, IInv, Steps
      <3> QED BY <1>0, <3>5 DEF TypeOK
    <2>4. \A j \in Ids : \A r : Settles(r, j) => Settles(r, j)'
      BY <2>1 DEF Settles
    <2>5. ASSUME NEW w \in Workers, NEW j \in Ids, SaidByRow(w, j)
          PROVE  SaidByRow(w, j)'
      <3>1. Elems(todo'[w]) = Elems(todo[w]) /\ rows'[j] = rows[j]
        OBVIOUS
      <3>2. Settles(rows[j], j) => Settles(rows[j], j)'
        BY <2>1 DEF Settles
      <3> QED BY <2>4, <2>5, <3>1, <3>2 DEF SaidByRow
    <2>6. ASSUME NEW w \in Workers, \E x \in Elems(todo[w]) : x.do = "process"
          PROVE  Begun(jobs'[held[w]]) /\ SaidByRow(w, held[w])'
      <3>1. held[w] \in Ids /\ Begun(jobs[held[w]]) /\ SaidByRow(w, held[w])
        BY <2>3, <2>6 DEF StoreInv, OnDisk
      <3>2. PICK j \in Ids : j = held[w]
        BY <3>1
      <3>3. SaidByRow(w, j)'
        BY <2>5, <3>1, <3>2
      <3> QED BY <2>2, <3>1, <3>2, <3>3 DEF SaidByRow, Settles
    <2> QED BY <2>6 DEF OnDisk
  <1>6. Real'
    BY <1>0, <1>1 DEF Real, Standing
  <1>7. Strayless => Strayless'
    BY DEF Strayless
  <1>8. GoneIsGone => GoneIsGone'
    BY <1>0 DEF GoneIsGone
  <1>9. Ended => Ended'
    BY <1>0 DEF Ended, Signaled
  <1>10. Woken => Woken'
    <2>1. \A x \in InHand : x.do = "await" => x.job \in Ids
      BY <1>1 DEF OfJob
    <2> QED BY <1>0, <2>1 DEF Woken, DoneClosed, Signaled
  <1> QED
    BY <1>2, <1>3, <1>4, <1>5, <1>6, <1>7, <1>8, <1>9, <1>10 DEF StoreInv

\* The process goes down with nothing in hand and leaves the store as it is.
LEMMA VanishKeepsStore ==
    ASSUME StoreInv, Real, IInv', Vanish
    PROVE  StoreInv' /\ Real' /\ Strayless' /\ GoneIsGone' /\ Ended' /\ Woken'
  <1>1. /\ todo' = [t \in Threads |-> << >>] /\ index' = {} /\ finished' = {} /\ phase' = "down"
        /\ UNCHANGED <<rows, highWater, told>>
    BY DEF Vanish, store
  <1>2. \A t \in Threads : todo'[t] = << >> /\ Elems(todo'[t]) = {} /\ ClosedBy(todo'[t])
    BY <1>1, EmptyList
  <1>3. InHand' = {} /\ Workers \subseteq Threads
    BY <1>2 DEF InHand, Threads
  <1>4. Dated' /\ CaughtUp' /\ Ordered' /\ Marked'
    BY <1>1, <1>2, <1>3 DEF StoreInv, Dated, CaughtUp, Ordered, Marked
  <1>5. Locked' /\ OnDisk'
    <2>1. \A t \in Threads : AtMostOnce(todo'[t], Unlocks)
      BY <1>2, EmptyElems
    <2> QED BY <1>2, <1>3, <2>1 DEF Locked, OnDisk
  <1>6. Real'
    BY <1>1, <1>3 DEF Real
  <1>7. Strayless'
    BY <1>2 DEF Strayless, Guarded
  <1>8. GoneIsGone' /\ Ended' /\ Woken'
    BY <1>1, <1>3 DEF GoneIsGone, Ended, Woken
  <1> QED BY <1>4, <1>5, <1>6, <1>7, <1>8 DEF StoreInv

\* UseStore takes over what the rows say, and the next id from the high-water
\* mark.  What it drops for want of room is deleted, and may come back where it
\* was also interrupted: this is what NoneOvertaken excludes of a boot.
LEMMA BootKeepsStore ==
    ASSUME StoreInv, Real, IInv', Boot
    PROVE  /\ StoreInv' /\ Real' /\ Ended' /\ Woken'
           /\ NoneOvertaken => Strayless' /\ GoneIsGone'
  <1> DEFINE loaded == {j \in Ids : rows[j].status # "none"}
             queued == {j \in loaded : rows[j].status = "queued"}
             crashed == {j \in loaded : rows[j].status = "running"}
             kept   == loaded \ queued
             byId   == {p \in kept \X kept : p[1] < p[2]}
             gone   == Evicted(kept, byId)
             u      == LoopLoop("delete", gone, "saveEach", crashed)
  <1>1. /\ phase = "down" /\ phase' = "boot"
        /\ finished' = kept \ gone /\ index' = loaded \ gone
        /\ nextID' = LastIssued(loaded) /\ Begin(Main, u)
        /\ UNCHANGED <<held, rowWrite, rows, highWater, told>>
    BY DEF Boot, crew, store, BootSteps, LoopLoop
  <1>2. \A j \in Ids : /\ j \notin loaded => jobs'[j] = NoJob
                       /\ j \in loaded => /\ jobs'[j].seq = rows[j].seq /\ jobs'[j].run = 1
                                          /\ jobs'[j].shut = IF j \in queued THEN {} ELSE {1}
                                          /\ jobs'[j].status = IF j \in crashed THEN "interrupted" ELSE rows[j].status
    BY DEF Boot, NoJob
  <1>3. /\ TypeOK /\ Main \in Threads /\ \A t \in Threads : todo[t] = << >>
        /\ rows \in [Ids -> RowType] /\ todo \in [Threads -> Seq(Step)] /\ Workers \subseteq Threads
    BY <1>1 DEF StoreInv, IInv, Grounded, Threads, TypeOK
  <1>4. /\ loaded \in SUBSET Ids /\ queued \in SUBSET loaded /\ crashed \in SUBSET loaded
        /\ kept = loaded \ queued /\ gone \in SUBSET kept
        /\ \A j \in loaded : rows[j].status # "none"
        /\ \A j \in Ids \ loaded : rows[j].status = "none"
    BY DEF Evicted
  <1>5. \A j \in kept \ gone : jobs'[j].run = 1 /\ jobs'[j].shut = {1}
    BY <1>2, <1>4
  <1>6. nextID' \in 0 .. MaxJobs /\ highWater <= nextID' /\ \A j \in loaded : j <= nextID'
    <2>1. nextID' \in 0 .. MaxJobs /\ \A j \in loaded : j <= nextID'
      BY <1>1, <1>3, <1>4, LastIssuedIsLast
    <2> DEFINE S == loaded \cup {highWater}
    <2>2. S \in SUBSET (0 .. MaxJobs) /\ S # {} /\ MaxJobs \in Nat /\ highWater \in S
      BY <1>3, BoundsAssumption DEF TypeOK, Ids
    <2>3. \E n \in S : \A m \in S : m <= n
      BY <2>2, Greatest
    <2>4. \A m \in S : m <= LastIssued(loaded)
      BY <2>3 DEF LastIssued
    <2> QED BY <1>1, <2>1, <2>2, <2>4
  <1> HIDE DEF loaded, queued, crashed, kept, gone
  <1>7. gone \in SUBSET Ids /\ crashed \in SUBSET Ids
    BY <1>4
  <1>8. IsLoopLoop(u, "delete", gone, "saveEach", crashed)
    BY <1>7, TwoLoops
  <1> HIDE DEF u
  <1>9. /\ \A t \in Threads : todo'[t] = IF t = Main THEN u ELSE << >>
        /\ u \in Seq(Step) /\ ClosedBy(u)
    BY <1>1, <1>3, <1>8 DEF Begin, IsLoopLoop
  <1>10. \A x \in Elems(u) : /\ x.do \in {"delete", "saveEach"}
                             /\ x.do = "delete" => x.jobs = gone /\ Named(x) = gone
                             /\ x.do = "saveEach" => x.jobs = crashed /\ Named(x) = crashed
    BY <1>8 DEF IsLoopLoop
  <1>11. InHand' = Elems(u)
    <2>1. \A t \in Threads : Elems(todo'[t]) = IF t = Main THEN Elems(u) ELSE {}
      BY <1>9, EmptyList
    <2> QED BY <1>3, <2>1 DEF InHand
  <1>12. index' \subseteq loaded /\ \A x \in Elems(u) : Named(x) \subseteq loaded
    BY <1>1, <1>4, <1>10
  <1>13. \A j \in Ids \ loaded : rows[j] = NoRow /\ NoRow.seq = 0 /\ jobs'[j].seq = 0
    BY <1>2, <1>4 DEF Real, NoRow, NoJob
  <1>14. Dated'
    <2>0. \A j \in loaded : j \in 1 .. nextID'
      <3> SUFFICES ASSUME NEW j \in loaded PROVE j \in 1 .. nextID'
        OBVIOUS
      <3>1. j \in 1 .. MaxJobs /\ MaxJobs \in Nat
        BY <1>4, BoundsAssumption DEF Ids
      <3> QED BY <1>6, <3>1
    <2>1. \A x \in Elems(u) : Named(x) \subseteq 1 .. nextID'
      BY <1>12, <2>0
    <2>2. \A x \in Elems(u) : x.do # "write" /\ (x.do = "delete" => x.jobs \cap index' = {})
      BY <1>1, <1>10
    <2>3. \A j \in Ids : rows'[j].seq <= jobs'[j].seq
      <3> SUFFICES ASSUME NEW j \in Ids PROVE rows[j].seq <= jobs'[j].seq
        BY <1>1
      <3>1. rows[j].seq \in Nat
        BY <1>3 DEF RowType
      <3>2. rows[j].seq = jobs'[j].seq
        BY <1>2, <1>13
      <3> QED BY <3>1, <3>2
    <2>4. \A j \in Ids : j > nextID' => j \notin loaded
      BY <1>6 DEF Ids
    <2>5. \A j \in Ids : j > nextID' => rows'[j] = NoRow /\ jobs'[j].seq = 0
      BY <1>1, <1>13, <2>4
    <2> QED BY <1>11, <2>1, <2>2, <2>3, <2>5 DEF Dated
  <1>15. CaughtUp'
    <2> SUFFICES ASSUME NEW j \in index' PROVE Promised(j)' \/ Written(j)'
      BY DEF CaughtUp
    <2>1. j \in loaded /\ j \in Ids
      BY <1>4, <1>12
    <2>2. CASE j \in crashed
      <3>1. \E x \in Elems(u) : x.do = "saveEach" /\ Named(x) = crashed
        BY <1>8, <2>2 DEF IsLoopLoop
      <3>2. \E x \in InHand' : Promises(x, j)
        BY <1>11, <2>2, <3>1 DEF Promises
      <3> QED BY <3>2 DEF Promised
    <2>3. CASE j \notin crashed
      <3>1. WritesOf(j)' = {}
        BY <1>10, <1>11 DEF WritesOf
      <3>2. jobs'[j].seq = rows'[j].seq /\ jobs'[j].status = rows'[j].status
        BY <1>1, <1>2, <2>1, <2>3
      <3> QED BY <3>1, <3>2 DEF Written
    <2> QED BY <2>2, <2>3
  <1>16. Ordered'
    BY <1>9, EmptyList DEF Ordered
  <1>17. \A t \in Threads : \A x \in Elems(todo'[t]) : x.do \in {"delete", "saveEach"}
    BY <1>9, <1>10, EmptyList
  <1>18. Marked'
    BY <1>1, <1>6, <1>17 DEF Marked, StoreInv
  <1>19. Locked'
    <2>1. \A t \in Threads : AtMostOnce(todo'[t], Unlocks)
      BY <1>17 DEF AtMostOnce, Elems, Unlocks
    <2> QED BY <1>17, <2>1 DEF Locked
  <1>20. OnDisk'
    BY <1>3, <1>17 DEF OnDisk
  <1>21. \A j \in loaded : jobs'[j].status # "none"
    BY <1>2, <1>4
  <1>22. Real'
    BY <1>1, <1>4, <1>10, <1>11, <1>12, <1>13, <1>21 DEF Real, Writes
  <1>23. Ended' /\ Woken'
    <2>1. Ended'
      BY <1>1, <1>5 DEF Ended, Signaled
    <2> QED BY <1>10, <1>11, <2>1 DEF Woken
  <1>24. ASSUME NoneOvertaken PROVE Strayless' /\ GoneIsGone'
    <2>1. Strayless'
      BY <1>1, <1>24 DEF NoneOvertaken, Strayless
    <2>2. ASSUME NEW j \in Ids \ index'
          PROVE  \/ \E x \in InHand' : x.do = "delete" /\ j \in x.jobs
                 \/ rows'[j].status = "none" /\ \A x \in InHand' : ~Writes(x, j)
      <3>1. CASE j \in gone
        BY <1>8, <1>11, <3>1 DEF IsLoopLoop
      <3>2. CASE j \notin gone
        <4>1. j \notin loaded /\ j \notin crashed
          BY <1>1, <1>4, <2>2, <3>2
        <4>2. \A x \in Elems(u) : ~Writes(x, j)
          BY <1>10, <4>1 DEF Writes
        <4> QED BY <1>1, <1>4, <1>11, <4>1, <4>2
      <3> QED BY <3>1, <3>2
    <2> QED BY <2>1, <2>2 DEF GoneIsGone
  <1> QED
    BY <1>14, <1>15, <1>16, <1>18, <1>19, <1>20, <1>22, <1>23, <1>24 DEF StoreInv

LEMMA FollowedKeeps ==
    ASSUME StoreInv, Real, IInv', Standing, NEW t \in Threads, Followed(t)
    PROVE  /\ StoreInv' /\ Real'
           /\ Strayless /\ GoneIsGone /\ NoneOvertaken => Strayless' /\ GoneIsGone'
           /\ Ended /\ Woken /\ RetriesAreSignaled => Ended' /\ Woken'
  <1>1. PICK u \in Seq(Step) : Becomes(t, u) /\ Traced(t, u)
    BY DEF Followed
  <1>2. /\ Reaches(u) /\ Shoots(t, u) /\ Promising(t, u) /\ Closes(t, u) /\ Marking(t, u)
        /\ Locking(t, u) /\ Starting(t, u) /\ Removing(t, u) /\ Waiting(t, u) /\ phase # "down"
    BY <1>1 DEF Traced, Reaches
  <1>3. TypeOK /\ Ordered
    BY DEF StoreInv, IInv
  <1>4. Dated' /\ CaughtUp'
    BY <1>1, <1>2, DatedIsKept, CaughtUpIsKept
  <1>5. Ordered' /\ Marked'
    BY <1>1, <1>2, <1>3, OrderIsKept, MarkedIsKept
  <1>6. Locked' /\ OnDisk'
    BY <1>1, <1>2, LockedIsKept, OnDiskIsKept
  <1>7. StoreInv'
    BY <1>4, <1>5, <1>6 DEF StoreInv
  <1>8. Real'
    BY <1>1, RealIsKept
  <1>9. Strayless /\ GoneIsGone /\ NoneOvertaken => Strayless' /\ GoneIsGone'
    BY <1>1, <1>2, <1>6, StraylessIsKept, GoneIsKept
  <1>10. Ended /\ Woken /\ RetriesAreSignaled => Ended' /\ Woken'
    BY <1>1, <1>2, EndedIsKept, WokenIsKept
  <1> QED BY <1>7, <1>8, <1>9, <1>10

-----------------------------------------------------------------------------
(* The induction *)

Sane == StoreInv /\ Real

LEMMA FromNothing == Init => Sane /\ Strayless /\ GoneIsGone /\ Ended /\ Woken
  <1> SUFFICES ASSUME Init PROVE Sane /\ Strayless /\ GoneIsGone /\ Ended /\ Woken
    OBVIOUS
  <1>1. /\ todo = [t \in Threads |-> << >>] /\ index = {} /\ finished = {} /\ phase = "down"
        /\ rows = [j \in Ids |-> NoRow] /\ told = {}
    BY DEF Init
  <1>2. \A t \in Threads : todo[t] = << >> /\ Elems(todo[t]) = {} /\ ClosedBy(todo[t])
    BY <1>1, EmptyList
  <1>3. InHand = {} /\ Workers \subseteq Threads
    BY <1>2 DEF InHand, Threads
  <1>4. Dated /\ CaughtUp /\ Ordered /\ Marked
    BY <1>1, <1>2, <1>3 DEF Dated, CaughtUp, Ordered, Marked
  <1>5. Locked /\ OnDisk
    <2>1. \A t \in Threads : AtMostOnce(todo[t], Unlocks)
      BY <1>2, EmptyElems
    <2> QED BY <1>2, <1>3, <2>1 DEF Locked, OnDisk
  <1>6. Real
    BY <1>1, <1>3 DEF Real
  <1>7. Strayless
    BY <1>2 DEF Strayless, Guarded
  <1>8. GoneIsGone /\ Ended /\ Woken
    BY <1>1, <1>3 DEF GoneIsGone, Ended, Woken
  <1> QED BY <1>4, <1>5, <1>6, <1>7, <1>8, Initially DEF Sane, StoreInv

LEMMA EveryStep ==
    ASSUME Sane, [Next]_vars
    PROVE  /\ Sane'
           /\ Strayless /\ GoneIsGone /\ (NoneOvertaken \/ UNCHANGED vars) => Strayless' /\ GoneIsGone'
           /\ Ended /\ Woken /\ (RetriesAreSignaled \/ UNCHANGED vars) => Ended' /\ Woken'
  <1>1. StoreInv /\ Real /\ IInv'
    BY StepKeeps DEF Sane, StoreInv
  <1>2. CASE Boot /\ ~UNCHANGED vars
    BY <1>1, <1>2, BootKeepsStore DEF Sane
  <1>3. CASE Vanish
    BY <1>1, <1>3, VanishKeepsStore DEF Sane
  <1>4. CASE Standing /\ Still
    BY <1>1, <1>4, StillKeeps DEF Sane
  <1>5. CASE Standing /\ ~UNCHANGED vars /\ \E t \in Threads : Followed(t)
    BY <1>1, <1>5, FollowedKeeps DEF Sane
  <1>6. CASE UNCHANGED vars
    <2>1. Standing
      BY <1>6 DEF Standing, vars, lists, crew, control, store, life
    <2>2. Still
      BY <1>1, <1>6, StillSteps
    <2> QED BY <1>4, <2>1, <2>2
  <1> QED
    BY <1>1, <1>2, <1>3, <1>4, <1>5, <1>6, StepIs, StepStands

LEMMA AlwaysSane == Spec => []Sane
  <1>1. Init => Sane
    BY FromNothing
  <1>2. Sane /\ [Next]_vars => Sane'
    BY EveryStep
  <1> QED BY <1>1, <1>2, PTL DEF Spec

LEMMA AlwaysGone == Spec /\ [][NoneOvertaken]_vars => []GoneIsGone
  <1>1. Init => Strayless /\ GoneIsGone
    BY FromNothing
  <1>2. Sane /\ Strayless /\ GoneIsGone /\ [Next]_vars /\ [NoneOvertaken]_vars => Strayless' /\ GoneIsGone'
    BY EveryStep
  <1> QED BY <1>1, <1>2, AlwaysSane, PTL DEF Spec

LEMMA AlwaysWoken == Spec /\ [][RetriesAreSignaled]_vars => []Woken
  <1>1. Init => Ended /\ Woken
    BY FromNothing
  <1>2. Sane /\ Ended /\ Woken /\ [Next]_vars /\ [RetriesAreSignaled]_vars => Ended' /\ Woken'
    BY EveryStep
  <1> QED BY <1>1, <1>2, AlwaysSane, PTL DEF Spec

-----------------------------------------------------------------------------
(* The theorems *)

\* A step in hand is somewhere in the list of a goroutine.
LEMMA Somewhere ==
    ASSUME TypeOK, NEW x \in InHand
    PROVE  \E t \in Threads : \E i \in DOMAIN todo[t] : todo[t][i] = x
  BY DEF InHand, Elems

LEMMA SaneFindsAll == Sane => RestartFindsAll
  <1> SUFFICES ASSUME Sane PROVE ToldIdsStand /\ StoreCatchesUp
    BY DEF RestartFindsAll
  <1>0. TypeOK /\ Dated /\ CaughtUp /\ Marked
    BY DEF Sane, StoreInv, IInv
  <1>1. ToldIdsStand
    <2> SUFFICES ASSUME phase # "down", NEW j \in told PROVE j <= nextID
      BY DEF ToldIdsStand
    <2>1. j \in Nat /\ highWater \in Nat /\ nextID \in Nat
      BY <1>0, BoundsAssumption DEF TypeOK, Ids
    <2>2. j <= highWater /\ highWater <= nextID
      BY <1>0 DEF Marked
    <2> QED BY <2>1, <2>2
  <1>2. StoreCatchesUp
    <2> SUFFICES ASSUME NEW j \in index, rows[j].status # jobs[j].status
                 PROVE  \E t \in Threads : OwesSave(t, j)
      BY DEF StoreCatchesUp
    <2>1. CASE IsHeld(j)
      BY <2>1 DEF IsHeld, OwesSave, Threads
    <2>2. ASSUME NEW x \in InHand, Promises(x, j) PROVE \E t \in Threads : OwesSave(t, j)
      <3>1. PICK t \in Threads : \E i \in DOMAIN todo[t] : todo[t][i] = x
        BY <1>0, Somewhere
      <3>2. \/ x.do \in {"save", "keep"} /\ x.job = j
            \/ x.do \in {"release", "saveEach"} /\ j \in x.jobs
        BY <2>2 DEF Promises, Named, OfJob
      <3> QED BY <3>1, <3>2 DEF OwesSave, Has, Covers
    <2>3. CASE Written(j)
      <3>1. PICK x \in WritesOf(j) : x.row.seq = jobs[j].seq
        BY <2>3 DEF Written
      <3>2. x \in InHand /\ x.do = "write" /\ x.job = j /\ x.row.status = jobs[j].status
        BY <2>3, <3>1 DEF Written, WritesOf
      <3>3. PICK t \in Threads : \E i \in DOMAIN todo[t] : todo[t][i] = x
        BY <1>0, <3>2, Somewhere
      <3> QED BY <3>2, <3>3 DEF OwesSave
    <2> QED BY <1>0, <2>1, <2>2, <2>3 DEF CaughtUp, Promised
  <1> QED BY <1>1, <1>2

LEMMA SaneRunsOnDisk == Sane => RunningOnDisk
  <1> SUFFICES ASSUME Sane, NEW w \in Workers, At(w, "process")
               PROVE  rows[held[w]].status \notin {"none", "queued"}
    BY DEF RunningOnDisk
  <1>1. /\ TypeOK /\ Ordered /\ OnDisk /\ w \in Threads /\ ~Idle(w)
        /\ Arg(w).do = "process" /\ Arg(w).do \in Closing
    BY DEF Sane, StoreInv, IInv, Threads, At, Arg, Closing
  <1>2. Elems(todo[w]) = {Arg(w)}
    BY <1>1, ClosingIsLast
  <1>3. SaidByRow(w, held[w])
    BY <1>1, <1>2 DEF OnDisk
  <1>4. Settles(rows[held[w]], held[w])
    BY <1>1, <1>2, <1>3 DEF SaidByRow
  <1> QED BY <1>4 DEF Settles, Begun

\* Whatever the restarts, retries, cancels, clears, evictions and the order in
\* which snapshots reach the database: no id a caller was told is issued again
\* (enqueueLocked, SaveJob, UseStore), and the row of every listed job has its
\* present status or a goroutine is about to write it (persist, persistKept,
\* the seq guard of SaveJob).
THEOREM RestartsFindAll == Spec => []RestartFindsAll
  <1> QED BY AlwaysSane, SaneFindsAll, PTL

\* No effect of Process precedes the row that says the job runs: a crash finds
\* every job that was begun interrupted, and never resumes it (runJob, UseStore).
THEOREM RunsAreOnDisk == Spec => []RunningOnDisk
  <1> QED BY AlwaysSane, SaneRunsOnDisk, PTL

\* What was cleared, canceled or evicted does not come back, as long as no job
\* leaves the index while a goroutine that does not delete its row is still to
\* write it.  These are the writes persist makes without looking at the index
\* (queue.go): persistKept and persistDelete under rowWrite need no such care.
THEOREM RemovalsLast == Spec /\ [][NoneOvertaken]_vars => []RowsFollow
  <1>1. GoneIsGone => NoGhostRows
    <2> SUFFICES ASSUME GoneIsGone, IsUp, NEW j \in Ids \ index
                 PROVE  rows[j].status = "none" \/ \E t \in Threads : Covers(t, {"delete"}, j)
      BY DEF NoGhostRows
    <2>1. CASE rows[j].status = "none"
      BY <2>1
    <2>2. CASE \E x \in InHand : x.do = "delete" /\ j \in x.jobs
      <3>1. PICK t \in Threads : \E x \in Elems(todo[t]) : x.do = "delete" /\ j \in x.jobs
        BY <2>2 DEF InHand
      <3> QED BY <3>1 DEF Elems, Covers
    <2> QED BY <2>1, <2>2 DEF GoneIsGone, IsUp
  <1>2. Spec /\ [][NoneOvertaken]_vars => []NoGhostRows
    BY <1>1, AlwaysGone, PTL
  <1>3. RunningOnDisk /\ NoGhostRows => RowsFollow
    BY DEF RowsFollow
  <1> QED BY <1>2, <1>3, RunsAreOnDisk, PTL

\* Whoever waits for a run is woken when it ends, by its worker, a cancel, a
\* batch of cancels or a removal, as long as no job is retried before the end of
\* its last run was signaled: finish signals after the job is in the ring, where
\* Retry finds it (worker.go, queue.go).
THEOREM WaitersAreNotForgotten == Spec /\ [][RetriesAreSignaled]_vars => []WaitersAreWoken
  <1>1. Sane /\ Woken => WaitersAreWoken
    <2> SUFFICES ASSUME Sane, Woken, NEW c \in Callers, At(c, "await")
                 PROVE  \/ DoneClosed(Arg(c).job, Arg(c).row.seq)
                        \/ /\ jobs[Arg(c).job].run = Arg(c).row.seq
                           /\ \/ Arg(c).job \in pending \cup running
                              \/ \E t \in Threads : \/ Has(t, {"signal", "drop"}, Arg(c).job)
                                                    \/ Covers(t, {"release"}, Arg(c).job)
      BY DEF WaitersAreWoken
    <2> DEFINE j == Arg(c).job
    <2>1. c \in Threads /\ ~Idle(c) /\ Arg(c).do = "await" /\ StoreInv /\ TypeOK
      BY DEF Threads, At, Arg, Sane, StoreInv, IInv
    <2>2. Arg(c) \in InHand
      BY <2>1, Ahead
    <2>3. ASSUME NEW x \in InHand, Signals(x, j)
          PROVE  \E t \in Threads : Has(t, {"signal", "drop"}, j) \/ Covers(t, {"release"}, j)
      <3>1. PICK t \in Threads : \E i \in DOMAIN todo[t] : todo[t][i] = x
        BY <2>1, Somewhere
      <3>2. \/ x.do \in {"signal", "drop"} /\ x.job = j
            \/ x.do = "release" /\ j \in x.jobs
        BY <2>3 DEF Signals, Named, OfJob
      <3> QED BY <3>1, <3>2 DEF Has, Covers
    <2>4. \/ DoneClosed(j, Arg(c).row.seq)
          \/ /\ jobs[j].run = Arg(c).row.seq
             /\ j \in pending \cup running \/ Signaled(j)
      BY <2>1, <2>2 DEF Woken
    <2> QED BY <2>3, <2>4 DEF Signaled, DoneClosed
  <1> QED BY <1>1, AlwaysSane, AlwaysWoken, PTL
=============================================================================
