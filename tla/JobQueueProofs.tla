---------------------------- MODULE JobQueueProofs ----------------------------
(***************************************************************************)
(* What becomes of a job in JobQueue, for any number of workers, callers,  *)
(* jobs, runs and restarts and any ring: type correctness, OnePlace and    *)
(* OneWorkerPerJob, then SettledOnce, the life cycle of JobLifecycle and   *)
(* RingInOrder.                                                            *)
(***************************************************************************)
EXTENDS JobQueue, SequenceTheorems, FiniteSetTheorems, WellFoundedInduction, TLAPS

-----------------------------------------------------------------------------
(* Numbers and sequences *)

\* A set of numbers has a least one.
LEMMA Least ==
    ASSUME NEW T \in SUBSET Nat, T # {}
    PROVE  \E x \in T : \A y \in T : x <= y
  <1>1. IsWellFoundedOn({ss \in Nat \X Nat : ss[1] < ss[2]}, Nat)
    BY NatLessThanWellFounded DEF OpToRel
  <1>2. PICK x \in T : \A y \in T : <<y, x>> \notin {ss \in Nat \X Nat : ss[1] < ss[2]}
    BY <1>1, WFMin
  <1>3. \A y \in T : x <= y
    <2> SUFFICES ASSUME NEW y \in T, y < x PROVE FALSE
      BY SMT
    <2> QED BY <1>2
  <1> QED BY <1>3

\* A bounded set of numbers has a greatest one.
LEMMA Greatest ==
    ASSUME NEW n \in Nat, NEW S \in SUBSET (0 .. n), S # {}
    PROVE  \E x \in S : \A y \in S : y <= x
  <1> DEFINE Gap == {n - x : x \in S}
  <1>1. Gap \in SUBSET Nat /\ Gap # {}
    <2>1. \A x \in S : n - x \in Nat
      OBVIOUS
    <2> QED BY <2>1
  <1>2. PICK g \in Gap : \A h \in Gap : g <= h
    BY <1>1, Least
  <1>3. PICK x \in S : g = n - x
    OBVIOUS
  <1>4. \A y \in S : n - x <= n - y
    BY <1>2, <1>3
  <1> QED BY <1>4

Elems(s) == {s[i] : i \in DOMAIN s}

\* Items of A are nowhere twice in s.
AtMostOnce(s, A) == \A i, k \in DOMAIN s : s[i] \in A /\ s[k] \in A => i = k

LEMMA EmptyElems == Elems(<< >>) = {} /\ \A A : AtMostOnce(<< >>, A)
  BY DEF Elems, AtMostOnce

LEMMA ElemsOfHeadTail ==
    ASSUME NEW S, NEW s \in Seq(S), s # << >>
    PROVE  /\ Head(s) \in S /\ Tail(s) \in Seq(S)
           /\ Elems(s) = {Head(s)} \cup Elems(Tail(s))
  <1>1. /\ Head(s) = s[1] /\ Tail(s) \in Seq(S) /\ Len(Tail(s)) = Len(s) - 1
        /\ Len(s) \in Nat \ {0} /\ \A i \in 1 .. Len(s) - 1 : Tail(s)[i] = s[i + 1]
    BY HeadTailProperties, EmptySeq
  <1>2. DOMAIN s = 1 .. Len(s) /\ DOMAIN Tail(s) = 1 .. Len(s) - 1
    BY <1>1, LenProperties
  <1>3. \A i \in 1 .. Len(s) : i = 1 \/ i - 1 \in 1 .. Len(s) - 1
    BY <1>1
  <1>4. ASSUME NEW i \in 1 .. Len(s), i # 1 PROVE s[i] \in Elems(Tail(s))
    <2>1. i - 1 \in 1 .. Len(s) - 1 /\ Tail(s)[i - 1] = s[(i - 1) + 1] /\ (i - 1) + 1 = i
      BY <1>1, <1>3, <1>4
    <2> QED BY <1>2, <2>1 DEF Elems
  <1>5. ASSUME NEW i \in 1 .. Len(s) - 1 PROVE Tail(s)[i] \in Elems(s)
    BY <1>1, <1>2 DEF Elems
  <1> QED
    BY <1>1, <1>2, <1>4, <1>5, ElementOfSeq DEF Elems

LEMMA ElemsOfConcat ==
    ASSUME NEW S, NEW s \in Seq(S), NEW u \in Seq(S)
    PROVE  /\ s \o u \in Seq(S)
           /\ Elems(s \o u) = Elems(s) \cup Elems(u)
  <1>1. /\ s \o u \in Seq(S) /\ Len(s \o u) = Len(s) + Len(u)
        /\ \A i \in 1 .. Len(s) + Len(u) :
              (s \o u)[i] = IF i <= Len(s) THEN s[i] ELSE u[i - Len(s)]
    BY ConcatProperties
  <1>2. /\ Len(s) \in Nat /\ Len(u) \in Nat
        /\ DOMAIN s = 1 .. Len(s) /\ DOMAIN u = 1 .. Len(u)
        /\ DOMAIN (s \o u) = 1 .. Len(s) + Len(u)
    BY <1>1, LenProperties
  <1>3. ASSUME NEW i \in 1 .. Len(s) + Len(u) PROVE (s \o u)[i] \in Elems(s) \cup Elems(u)
    BY <1>1, <1>2 DEF Elems
  <1>4. ASSUME NEW i \in 1 .. Len(s) PROVE s[i] \in Elems(s \o u)
    <2>1. i \in 1 .. Len(s) + Len(u) /\ (s \o u)[i] = s[i]
      BY <1>1, <1>2
    <2> QED BY <1>2, <2>1 DEF Elems
  <1>5. ASSUME NEW i \in 1 .. Len(u) PROVE u[i] \in Elems(s \o u)
    <2>1. Len(s) + i \in 1 .. Len(s) + Len(u) /\ (s \o u)[Len(s) + i] = u[i]
      BY <1>1, <1>2
    <2> QED BY <1>2, <2>1 DEF Elems
  <1> QED
    BY <1>1, <1>2, <1>3, <1>4, <1>5 DEF Elems

\* The concatenation has an item of A at most once when both parts have, and not
\* both of them have one.
LEMMA AtMostOnceInConcat ==
    ASSUME NEW S, NEW A, NEW s \in Seq(S), NEW u \in Seq(S),
           AtMostOnce(s, A), AtMostOnce(u, A),
           Elems(s) \cap A = {} \/ Elems(u) \cap A = {}
    PROVE  AtMostOnce(s \o u, A)
  <1>1. \A i \in 1 .. Len(s) + Len(u) :
              (s \o u)[i] = IF i <= Len(s) THEN s[i] ELSE u[i - Len(s)]
    BY ConcatProperties
  <1>2. /\ Len(s) \in Nat /\ Len(u) \in Nat
        /\ DOMAIN s = 1 .. Len(s) /\ DOMAIN u = 1 .. Len(u)
        /\ DOMAIN (s \o u) = 1 .. Len(s) + Len(u)
    BY LenProperties, ConcatProperties
  <1> SUFFICES ASSUME NEW i \in 1 .. Len(s) + Len(u), NEW k \in 1 .. Len(s) + Len(u),
                      (s \o u)[i] \in A, (s \o u)[k] \in A
               PROVE  i = k
    BY <1>2 DEF AtMostOnce
  <1>3. CASE i <= Len(s) /\ k <= Len(s)
    BY <1>1, <1>2, <1>3 DEF AtMostOnce
  <1>4. CASE i > Len(s) /\ k > Len(s)
    <2>1. i - Len(s) \in 1 .. Len(u) /\ k - Len(s) \in 1 .. Len(u)
      BY <1>2, <1>4
    <2>2. u[i - Len(s)] \in A /\ u[k - Len(s)] \in A
      BY <1>1, <1>2, <1>4
    <2>3. i - Len(s) = k - Len(s)
      BY <1>2, <2>1, <2>2 DEF AtMostOnce
    <2> QED BY <1>2, <2>3
  <1>5. CASE ~(i <= Len(s) <=> k <= Len(s))
    <2>1. \E m \in 1 .. Len(s), n \in 1 .. Len(u) : s[m] \in A /\ u[n] \in A
      BY <1>1, <1>2, <1>5
    <2>2. (\E m \in 1 .. Len(s) : s[m] \in Elems(s) \cap A) /\ (\E n \in 1 .. Len(u) : u[n] \in Elems(u) \cap A)
      BY <1>2, <2>1 DEF Elems
    <2> QED BY <2>2
  <1> QED BY <1>2, <1>3, <1>4, <1>5

\* The tail has an item of A at most once, and none when the head was it.
LEMMA AtMostOnceInTail ==
    ASSUME NEW S, NEW A, NEW s \in Seq(S), s # << >>, AtMostOnce(s, A)
    PROVE  /\ AtMostOnce(Tail(s), A)
           /\ Head(s) \in A => Elems(Tail(s)) \cap A = {}
  <1>1. /\ Head(s) = s[1] /\ Tail(s) \in Seq(S) /\ Len(Tail(s)) = Len(s) - 1
        /\ Len(s) \in Nat \ {0} /\ \A i \in 1 .. Len(s) - 1 : Tail(s)[i] = s[i + 1]
    BY HeadTailProperties, EmptySeq
  <1>2. DOMAIN s = 1 .. Len(s) /\ DOMAIN Tail(s) = 1 .. Len(s) - 1
    BY <1>1, LenProperties
  <1>3. \A i \in 1 .. Len(s) - 1 : i + 1 \in 1 .. Len(s)
    BY <1>1
  <1>4. AtMostOnce(Tail(s), A)
    BY <1>1, <1>2, <1>3 DEF AtMostOnce
  <1>5. ASSUME Head(s) \in A, NEW i \in 1 .. Len(s) - 1, Tail(s)[i] \in A PROVE FALSE
    <2>1. s[i + 1] \in A /\ s[1] \in A /\ i + 1 \in DOMAIN s /\ 1 \in DOMAIN s
      BY <1>1, <1>2, <1>3, <1>5
    <2>2. i + 1 = 1
      BY <2>1 DEF AtMostOnce
    <2> QED BY <2>2
  <1> QED
    BY <1>2, <1>4, <1>5 DEF Elems

-----------------------------------------------------------------------------
(* The inductive invariant *)

\* The steps of runJob, which only the worker that holds a job has.
Mine == {x \in Step : x.do \in {"start", "process", "settle", "finish"}}

\* The steps about one job.
OfJob == {"save", "write", "high", "keep", "signal", "drop", "cancelKeeping", "cancel",
          "answer", "wait", "await"}

\* A step names a job; a job being dropped has left the index for good.
Sound(x) ==
    /\ x.do \in OfJob => x.job \in Ids
    /\ x.do = "drop" => x.job <= nextID /\ x.job \notin index

Steps ==
    /\ \A t \in Threads : \A x \in Elems(todo[t]) : Sound(x)
    /\ \A t \in Threads : AtMostOnce(todo[t], Mine)
    /\ \A t \in Threads \ Workers : Elems(todo[t]) \cap Mine = {}
    /\ \A w \in Workers : held[w] # 0 <=> Elems(todo[w]) \cap Mine # {}

\* A job is settled when its worker comes to finish.
FinishesSettled ==
    \A w \in Workers : \A x \in Elems(todo[w]) : x.do = "finish" => IsSettled(held[w])

\* No id is ahead of its issue, and a process that is down has nothing.
Grounded ==
    /\ index \subseteq 1 .. nextID
    /\ phase = "down" =>
          /\ pending = {} /\ running = {} /\ finished = {}
          /\ nextID = 0 /\ rowWrite = Free
          /\ \A t \in Threads : todo[t] = << >>

IInv == TypeOK /\ OnePlace /\ OneWorkerPerJob /\ Steps /\ FinishesSettled /\ Grounded

-----------------------------------------------------------------------------
(* Todo lists *)

LEMMA DoIsAStep ==
    ASSUME NEW what \in {"save", "write", "high", "keep", "unlock", "delete",
                 "signal", "release", "drop", "report", "cancelKeeping",
                 "cancel", "answer", "wait", "await", "saveEach",
                 "start", "process", "settle", "finish"},
           NEW j \in 0 .. MaxJobs
    PROVE  /\ Do(what, j) \in Step /\ Do(what, j).do = what /\ Do(what, j).job = j
           /\ what \notin {"start", "process", "settle", "finish"} => Do(what, j) \notin Mine
           /\ what \in {"start", "process", "settle", "finish"} => Do(what, j) \in Mine
  BY BoundsAssumption DEF Do, Step, NoRow, Statuses, Ids, Mine

LEMMA One ==
    ASSUME NEW x \in Step
    PROVE  << x >> \in Seq(Step) /\ Elems(<< x >>) = {x} /\ AtMostOnce(<< x >>, Mine)
  BY DEF Elems, AtMostOnce

LEMMA Two ==
    ASSUME NEW x \in Step, NEW y \in Step
    PROVE  << x, y >> \in Seq(Step) /\ Elems(<< x, y >>) = {x, y}
  BY DEF Elems

LEMMA Three ==
    ASSUME NEW x \in Step, NEW y \in Step, NEW z \in Step
    PROVE  << x, y, z >> \in Seq(Step) /\ Elems(<< x, y, z >>) = {x, y, z}
  BY DEF Elems

LEMMA ForEachSteps ==
    ASSUME NEW what \in {"release", "delete", "report", "saveEach"}, NEW S \in SUBSET Ids
    PROVE  /\ ForEach(what, S) \in Seq(Step)
           /\ \A x \in Elems(ForEach(what, S)) : x.do = what /\ x \notin Mine
  <1>1. CASE S = {}
    BY <1>1, EmptyElems, EmptySeq DEF ForEach
  <1>2. CASE S # {}
    <2> DEFINE x == [Do(what, 0) EXCEPT !.jobs = S]
    <2>1. Do(what, 0) \in Step /\ Do(what, 0).do = what
      BY BoundsAssumption, DoIsAStep
    <2>2. x \in Step /\ x.do = what
      BY <2>1 DEF Step
    <2>3. x \notin Mine
      BY <2>2 DEF Mine
    <2>4. ForEach(what, S) = << x >>
      BY <1>2 DEF ForEach
    <2> HIDE DEF x
    <2> QED BY <2>2, <2>3, <2>4, One
  <1> QED BY <1>1, <1>2

LEMMA ProceedElems ==
    ASSUME TypeOK, NEW t \in Threads, ~Idle(t), NEW u \in Seq(Step), Proceed(t, u)
    PROVE  /\ todo' \in [Threads -> Seq(Step)]
           /\ \A o \in Threads \ {t} : todo'[o] = todo[o]
           /\ todo'[t] = u \o Tail(todo[t]) /\ Tail(todo[t]) \in Seq(Step)
           /\ Elems(todo'[t]) = Elems(u) \cup Elems(Tail(todo[t]))
           /\ Elems(todo[t]) = {Arg(t)} \cup Elems(Tail(todo[t]))
           /\ Arg(t) \in Step
  <1>1. todo \in [Threads -> Seq(Step)] /\ todo[t] \in Seq(Step) /\ todo[t] # << >>
    BY DEF TypeOK, Idle
  <1>2. todo' = [todo EXCEPT ![t] = u \o Tail(todo[t])]
    BY <1>1 DEF Proceed
  <1>3. /\ Arg(t) \in Step /\ Tail(todo[t]) \in Seq(Step)
        /\ Elems(todo[t]) = {Arg(t)} \cup Elems(Tail(todo[t]))
    BY <1>1, ElemsOfHeadTail DEF Arg
  <1>4. u \o Tail(todo[t]) \in Seq(Step) /\ Elems(u \o Tail(todo[t])) = Elems(u) \cup Elems(Tail(todo[t]))
    <2> DEFINE s == Tail(todo[t])
    <2>1. s \in Seq(Step)
      BY <1>3
    <2> HIDE DEF s
    <2>2. u \o s \in Seq(Step) /\ Elems(u \o s) = Elems(u) \cup Elems(s)
      BY <2>1, ElemsOfConcat
    <2> QED BY <2>2 DEF s
  <1> QED BY <1>1, <1>2, <1>3, <1>4

LEMMA BeginElems ==
    ASSUME TypeOK, NEW t \in Threads, Idle(t), NEW u \in Seq(Step), Begin(t, u)
    PROVE  /\ todo' \in [Threads -> Seq(Step)]
           /\ \A o \in Threads \ {t} : todo'[o] = todo[o]
           /\ todo'[t] = u
           /\ Elems(todo[t]) = {}
  BY EmptyElems DEF TypeOK, Idle, Begin

\* How an action changes the todo list of t: it begins with u, or goes on with u.
Becomes(t, u) == (Idle(t) /\ Begin(t, u)) \/ (~Idle(t) /\ Proceed(t, u))

\* A step outside runJob leaves what the invariant says of todo lists in place.
LEMMA QuietStep ==
    ASSUME IInv, NEW t \in Threads, NEW u \in Seq(Step), Becomes(t, u),
           Idle(t) \/ Arg(t) \notin Mine,
           \A x \in Elems(u) : x \notin Mine /\ Sound(x)',
           held' = held, nextID' >= nextID, \A j \in 1 .. nextID : j \in index' => j \in index,
           nextID' \in Nat,
           \A w \in Workers : held[w] # 0 /\ IsSettled(held[w]) => IsSettled(held[w])',
           \/ rowWrite' = Free
           \/ rowWrite' = rowWrite /\ (Idle(t) \/ Arg(t).do # "unlock")
           \/ rowWrite' = t /\ \E x \in Elems(u) : x.do = "unlock"
    PROVE  /\ todo' \in [Threads -> Seq(Step)]
           /\ UnlockAhead' /\ Steps' /\ FinishesSettled'
  <1>1. /\ todo' \in [Threads -> Seq(Step)]
        /\ \A o \in Threads \ {t} : todo'[o] = todo[o]
        /\ \A x \in Elems(todo'[t]) : x \in Elems(u) \/ x \in Elems(todo[t])
        /\ Elems(u) \subseteq Elems(todo'[t])
        /\ \A x \in Elems(todo[t]) : x \in Elems(todo'[t]) \/ (~Idle(t) /\ x = Arg(t))
        /\ AtMostOnce(todo'[t], Mine)
    <2>0. TypeOK /\ AtMostOnce(todo[t], Mine) /\ AtMostOnce(u, Mine) /\ Elems(u) \cap Mine = {}
      BY DEF IInv, Steps, AtMostOnce, Elems
    <2>1. CASE Idle(t)
      BY <2>0, <2>1, BeginElems DEF Becomes
    <2>2. CASE ~Idle(t)
      <3>1. Proceed(t, u)
        BY <2>2 DEF Becomes
      <3>2. AtMostOnce(Tail(todo[t]), Mine)
        BY <2>0, <2>2, AtMostOnceInTail DEF TypeOK, Idle
      <3>3. AtMostOnce(todo'[t], Mine)
        <4> DEFINE s == Tail(todo[t])
        <4>1. s \in Seq(Step) /\ todo'[t] = u \o s
          BY <2>0, <2>2, <3>1, ProceedElems
        <4>2. AtMostOnce(s, Mine)
          BY <3>2
        <4> HIDE DEF s
        <4> QED BY <2>0, <4>1, <4>2, AtMostOnceInConcat
      <3>4. /\ todo' \in [Threads -> Seq(Step)]
            /\ \A o \in Threads \ {t} : todo'[o] = todo[o]
            /\ Elems(todo'[t]) = Elems(u) \cup Elems(Tail(todo[t]))
            /\ Elems(todo[t]) = {Arg(t)} \cup Elems(Tail(todo[t]))
        BY <2>0, <2>2, <3>1, ProceedElems
      <3> QED BY <2>2, <3>3, <3>4
    <2> QED BY <2>1, <2>2
  <1>2. UnlockAhead'
    <2>1. rowWrite \in Threads \cup {Free} /\ UnlockAhead
      BY DEF IInv, TypeOK
    <2>2. rowWrite # Free => \E x \in Elems(todo[rowWrite]) : x.do = "unlock"
      BY <2>1 DEF UnlockAhead, Elems
    <2>3. Idle(t) => Elems(todo[t]) = {}
      BY EmptyElems DEF Idle
    <2>4. rowWrite' # Free => \E x \in Elems(todo'[rowWrite']) : x.do = "unlock"
      BY <1>1, <2>1, <2>2, <2>3
    <2> QED BY <2>4 DEF UnlockAhead, Elems
  <1>3. \A o \in Threads : \A x \in Elems(todo[o]) : Sound(x)'
    <2>1. \A o \in Threads : \A x \in Elems(todo[o]) : Sound(x)
      BY DEF IInv, Steps
    <2>2. \A o \in Threads : \A x \in Elems(todo[o]) : x \in Step
      BY ElementOfSeq, LenProperties DEF IInv, TypeOK, Elems
    <2>3. nextID \in Nat
      BY DEF IInv, TypeOK
    <2> QED BY <2>1, <2>2, <2>3 DEF Sound, Step, OfJob, Ids
  <1>4. Steps'
    <2>1. \A o \in Threads : \A x \in Elems(todo'[o]) : Sound(x)'
      BY <1>1, <1>3
    <2>2. \A o \in Threads : AtMostOnce(todo'[o], Mine)
      BY <1>1 DEF IInv, Steps
    <2>3. \A o \in Threads : \A x \in Mine : x \in Elems(todo'[o]) <=> x \in Elems(todo[o])
      BY <1>1
    <2>4. \A o \in Threads \ Workers : Elems(todo'[o]) \cap Mine = {}
      BY <2>3 DEF IInv, Steps
    <2>5. \A w \in Workers : held'[w] # 0 <=> Elems(todo'[w]) \cap Mine # {}
      BY <2>3 DEF IInv, Steps, Threads
    <2> QED BY <2>1, <2>2, <2>4, <2>5 DEF Steps
  <1>5. FinishesSettled'
    <2> SUFFICES ASSUME NEW w \in Workers, NEW x \in Elems(todo'[w]), x.do = "finish"
                 PROVE  IsSettled(held[w])'
      BY DEF FinishesSettled, IsSettled
    <2>1. x \in Step
      BY <1>1, ElementOfSeq, LenProperties DEF Elems, Threads
    <2>2. x \in Mine
      BY <2>1 DEF Mine
    <2>3. x \in Elems(todo[w])
      BY <1>1, <2>2 DEF Threads
    <2>4. held[w] # 0
      BY <2>2, <2>3 DEF IInv, Steps
    <2> QED BY <2>3, <2>4 DEF IInv, FinishesSettled, IsSettled
  <1> QED BY <1>1, <1>2, <1>4, <1>5

-----------------------------------------------------------------------------
(* Steps that move no job *)

\* What a goroutine with something to do can rely on.
LEMMA Pursuing ==
    ASSUME IInv, NEW t \in Threads, ~Idle(t)
    PROVE  phase # "down" /\ Arg(t) \in Step /\ Sound(Arg(t))
  <1>1. todo[t] \in Seq(Step) /\ todo[t] # << >>
    BY DEF IInv, TypeOK, Idle
  <1>2. Arg(t) \in Step /\ Arg(t) \in Elems(todo[t])
    BY <1>1, ElemsOfHeadTail DEF Arg
  <1> QED BY <1>1, <1>2 DEF IInv, Grounded, Steps

LEMMA OffListStep ==
    ASSUME IInv, NEW t \in Threads, NEW u \in Seq(Step), Becomes(t, u),
           phase # "down", Idle(t) \/ Arg(t) \notin Mine,
           \A x \in Elems(u) : x \notin Mine /\ x.do # "drop" /\ (x.do \in OfJob => x.job \in Ids),
           UNCHANGED <<lists, crew, control, phase, boots>>,
           jobs' \in [Ids -> JobType], \A j \in index : jobs'[j].status = jobs[j].status,
           \/ rowWrite' = Free
           \/ rowWrite' = rowWrite /\ (Idle(t) \/ Arg(t).do # "unlock")
           \/ rowWrite' = t /\ \E x \in Elems(u) : x.do = "unlock",
           rows' \in [Ids -> RowType], highWater' \in 0 .. MaxJobs, told' \subseteq Ids
    PROVE  IInv'
  <1> USE DEF lists, crew, control
  <1>1. \A w \in Workers : held[w] # 0 /\ IsSettled(held[w]) => IsSettled(held[w])'
    <2> SUFFICES ASSUME NEW w \in Workers, held[w] # 0, IsSettled(held[w]) PROVE IsSettled(held[w])'
      OBVIOUS
    <2>1. held[w] \in index
      BY DEF IInv, OnePlace, OneWorkerPerJob
    <2> QED BY <2>1 DEF IsSettled
  <1>2. nextID \in Nat /\ rowWrite \in Threads \cup {Free}
    BY DEF IInv, TypeOK
  <1>3. \A x \in Elems(u) : x \notin Mine /\ Sound(x)'
    BY DEF Sound
  <1>4. todo' \in [Threads -> Seq(Step)] /\ UnlockAhead' /\ Steps' /\ FinishesSettled'
    BY <1>1, <1>2, <1>3, QuietStep
  <1>5. TypeOK'
    <2>1. rowWrite' \in Threads \cup {Free}
      BY <1>2
    <2> QED BY <1>4, <2>1 DEF IInv, TypeOK
  <1>6. OnePlace'
    BY DEF IInv, OnePlace, IsSettled
  <1>7. OneWorkerPerJob'
    BY DEF IInv, OneWorkerPerJob
  <1>8. Grounded'
    BY DEF IInv, Grounded
  <1> QED BY <1>4, <1>5, <1>6, <1>7, <1>8 DEF IInv

LEMMA SaveKeeps ==
    ASSUME IInv, NEW t \in Threads, Save(t)
    PROVE  IInv'
  <1> USE DEF store, life
  <1> DEFINE j == Arg(t).job
             row == [status |-> jobs[j].status, seq |-> jobs[j].seq + 1,
                     lane |-> jobs[j].lane, filed |-> jobs[j].filed]
             x == [Do("write", j) EXCEPT !.row = row]
             y == Do("high", j)
  <1>1. ~Idle(t) /\ Arg(t).do = "save" /\ Arg(t) \notin Mine
    BY DEF Save, At, Arg, Mine
  <1>2. phase # "down" /\ j \in Ids
    BY <1>1, Pursuing DEF Sound, OfJob
  <1>3. jobs[j] \in JobType /\ row \in RowType
    BY <1>2 DEF IInv, TypeOK, JobType, RowType
  <1>4. x \in Step /\ x.do = "write" /\ x.job = j /\ y \in Step /\ y.do = "high" /\ y.job = j
    <2>1. Do("write", j) \in Step /\ Do("write", j).do = "write" /\ Do("write", j).job = j
      BY <1>2, DoIsAStep, BoundsAssumption DEF Ids
    <2>2. y \in Step /\ y.do = "high" /\ y.job = j
      BY <1>2, DoIsAStep, BoundsAssumption DEF Ids
    <2> QED BY <1>3, <2>1, <2>2 DEF Step, RowType
  <1>5. Becomes(t, << x, y >>)
    BY <1>1 DEF Save, Becomes
  <1>6. jobs' \in [Ids -> JobType] /\ \A k \in Ids : jobs'[k].status = jobs[k].status
    <2>1. jobs' = [jobs EXCEPT ![j].seq = @ + 1]
      BY DEF Save
    <2>2. jobs \in [Ids -> JobType]
      BY DEF IInv, TypeOK
    <2> QED BY <1>2, <1>3, <2>1, <2>2 DEF JobType
  <1>7. /\ UNCHANGED <<lists, crew, control, phase, boots, rowWrite, rows, highWater, told>>
        /\ index \subseteq Ids /\ rows \in [Ids -> RowType] /\ highWater \in 0 .. MaxJobs /\ told \subseteq Ids
    BY DEF Save, IInv, TypeOK
  <1> HIDE DEF x, y
  <1>8. << x, y >> \in Seq(Step) /\ Elems(<< x, y >>) = {x, y}
    BY <1>4, Two
  <1>9. \A z \in {x, y} : z \notin Mine /\ z.do # "drop" /\ (z.do \in OfJob => z.job \in Ids)
    BY <1>2, <1>4 DEF Mine
  <1> QED
    BY <1>1, <1>2, <1>5, <1>6, <1>7, <1>8, <1>9, OffListStep

\* A step that is done with leaves nothing behind.
LEMMA StepDone ==
    ASSUME IInv, NEW t \in Threads, ~Idle(t), Arg(t) \notin Mine, Proceed(t, << >>),
           UNCHANGED <<lists, crew, control, jobs, phase, boots>>,
           rowWrite' = Free \/ (rowWrite' = rowWrite /\ Arg(t).do # "unlock"),
           rows' \in [Ids -> RowType], highWater' \in 0 .. MaxJobs, told' \subseteq Ids
    PROVE  IInv'
  <1>1. << >> \in Seq(Step) /\ Elems(<< >>) = {}
    BY EmptyElems, EmptySeq
  <1>2. phase # "down" /\ Becomes(t, << >>)
    BY Pursuing DEF Becomes
  <1>3. jobs' \in [Ids -> JobType] /\ \A j \in index : jobs'[j].status = jobs[j].status
    BY DEF IInv, TypeOK
  <1> QED BY <1>1, <1>2, <1>3, OffListStep

LEMMA DoneStepsKeep ==
    ASSUME IInv, NEW t \in Threads,
           Write(t) \/ High(t) \/ Unlock(t) \/ Delete(t) \/ Report(t) \/ Answer(t) \/ Awake(t)
              \/ Expire(t)
    PROVE  IInv'
  <1> USE DEF store, life
  <1>1. ~Idle(t) /\ Arg(t) \notin Mine
    BY DEF Write, High, Unlock, Delete, Report, Answer, Awake, Expire, At, Arg, Mine
  <1>2. Arg(t) \in Step /\ Sound(Arg(t))
    BY <1>1, Pursuing
  <1>3. Proceed(t, << >>) /\ UNCHANGED <<lists, crew, control, jobs, phase, boots>>
    BY DEF Write, High, Unlock, Delete, Report, Answer, Awake, Expire
  <1>4. rowWrite' = Free \/ (rowWrite' = rowWrite /\ Arg(t).do # "unlock")
    BY DEF Write, High, Unlock, Delete, Report, Answer, Awake, Expire, At, Arg
  <1>5. rows \in [Ids -> RowType] /\ highWater \in 0 .. MaxJobs /\ told \subseteq Ids
    BY DEF IInv, TypeOK
  <1>6. rows' \in [Ids -> RowType]
    <2>1. CASE Write(t)
      <3>1. Arg(t).row \in RowType
        BY <1>2 DEF Step, RowType
      <3>2. \E r \in {rows[Arg(t).job], Arg(t).row} : rows' = [rows EXCEPT ![Arg(t).job] = r]
        BY <2>1 DEF Write
      <3> QED BY <1>5, <3>1, <3>2
    <2>2. CASE Delete(t)
      <3>1. NoRow \in RowType
        BY DEF NoRow, RowType, Statuses
      <3> QED BY <1>5, <2>2, <3>1 DEF Delete
    <2>3. CASE High(t) \/ Unlock(t) \/ Report(t) \/ Answer(t) \/ Awake(t) \/ Expire(t)
      BY <1>5, <2>3 DEF High, Unlock, Report, Answer, Awake, Expire
    <2> QED BY <2>1, <2>2, <2>3
  <1>7. highWater' \in 0 .. MaxJobs
    BY <1>2, <1>5 DEF Write, High, Unlock, Delete, Report, Answer, Awake, Expire, Step
  <1>8. told' \subseteq Ids
    <2>1. CASE Answer(t)
      BY <1>2, <1>5, <2>1 DEF Answer, At, Arg, Sound, OfJob
    <2>2. CASE ~Answer(t)
      BY <1>5, <2>2 DEF Write, High, Unlock, Delete, Report, Awake, Expire
    <2> QED BY <2>1, <2>2
  <1> QED BY <1>1, <1>3, <1>4, <1>6, <1>7, <1>8, StepDone

LEMMA KeepKeeps ==
    ASSUME IInv, NEW t \in Threads, Keep(t)
    PROVE  IInv'
  <1> USE DEF store, life
  <1> DEFINE j == Arg(t).job
             x == Do("save", j)
             y == Do("unlock", j)
  <1>1. ~Idle(t) /\ Arg(t).do = "keep" /\ Arg(t) \notin Mine
    BY DEF Keep, At, Arg, Mine
  <1>2. phase # "down" /\ j \in Ids /\ j \in 0 .. MaxJobs
    BY <1>1, Pursuing, BoundsAssumption DEF Sound, OfJob, Ids
  <1>3. /\ UNCHANGED <<lists, crew, control, jobs, phase, boots, rows, highWater, told>>
        /\ rows \in [Ids -> RowType] /\ highWater \in 0 .. MaxJobs /\ told \subseteq Ids
        /\ jobs \in [Ids -> JobType]
    BY DEF Keep, IInv, TypeOK
  <1>4. CASE j \in index
    <2>1. Becomes(t, << x, y >>) /\ rowWrite' = t
      BY <1>1, <1>4 DEF Keep, Becomes, KeptSteps
    <2>2. /\ x \in Step /\ x.do = "save" /\ x.job = j /\ x \notin Mine
          /\ y \in Step /\ y.do = "unlock" /\ y.job = j /\ y \notin Mine
      BY <1>2, DoIsAStep
    <2> HIDE DEF x, y
    <2>3. << x, y >> \in Seq(Step) /\ Elems(<< x, y >>) = {x, y}
      BY <2>2, Two
    <2> QED BY <1>1, <1>2, <1>3, <2>1, <2>2, <2>3, OffListStep
  <1>5. CASE j \notin index
    <2>1. Proceed(t, << >>) /\ rowWrite' = Free
      BY <1>5 DEF Keep
    <2> QED BY <1>1, <1>3, <2>1, StepDone
  <1> QED BY <1>4, <1>5

\* A step that only touches the done channel, or a job out of the index.
LEMMA SignalKeeps ==
    ASSUME IInv, NEW t \in Threads, Signal(t) \/ Drop(t)
    PROVE  IInv'
  <1> USE DEF store, life
  <1> DEFINE j == Arg(t).job
  <1>1. ~Idle(t) /\ Arg(t).do \in {"signal", "drop"} /\ Arg(t) \notin Mine /\ Arg(t).do # "unlock"
    BY DEF Signal, Drop, At, Arg, Mine
  <1>2. phase # "down" /\ j \in Ids /\ (Arg(t).do = "drop" => j \notin index)
    BY <1>1, Pursuing DEF Sound, OfJob
  <1>3. /\ UNCHANGED <<lists, crew, control, phase, boots, rowWrite, rows, highWater, told>>
        /\ rows \in [Ids -> RowType] /\ highWater \in 0 .. MaxJobs /\ told \subseteq Ids
        /\ jobs \in [Ids -> JobType] /\ index \subseteq Ids
    BY DEF Signal, Drop, IInv, TypeOK
  <1>4. jobs' \in [Ids -> JobType] /\ \A k \in index : jobs'[k].status = jobs[k].status
    <2>1. jobs[j] \in JobType
      BY <1>2, <1>3
    <2>2. PICK r \in JobType : jobs' = [jobs EXCEPT ![j] = r] /\ (r.status = jobs[j].status \/ j \notin index)
      <3>1. CASE Signal(t)
        <4>1. signalDone(j) \in JobType /\ signalDone(j).status = jobs[j].status
          BY <2>1 DEF signalDone, JobType
        <4> QED BY <3>1, <4>1 DEF Signal
      <3>2. CASE Drop(t)
        <4>1. settle(j, "canceled") \in JobType
          BY <2>1 DEF settle, JobType, Settled, Statuses
        <4>2. [settle(j, "canceled") EXCEPT !.shut = @ \cup {jobs[j].run}] \in JobType
          BY <2>1, <4>1 DEF JobType
        <4>3. j \notin index
          BY <1>2, <3>2 DEF Drop, At, Arg
        <4> QED BY <3>2, <4>2, <4>3 DEF Drop
      <3> QED BY <3>1, <3>2
    <2> QED BY <1>2, <1>3, <2>2
  <1>5. << >> \in Seq(Step) /\ Elems(<< >>) = {} /\ Becomes(t, << >>)
    BY <1>1, EmptyElems, EmptySeq DEF Signal, Drop, Becomes
  <1> QED BY <1>1, <1>2, <1>3, <1>4, <1>5, OffListStep

\* One or two steps about job j, then a loop over S.
LEMMA OneThenLoop ==
    ASSUME NEW a \in {"save", "keep", "signal", "drop"}, NEW j \in Ids,
           NEW what \in {"release", "delete", "report", "saveEach"}, NEW S \in SUBSET Ids
    PROVE  /\ << Do(a, j) >> \o ForEach(what, S) \in Seq(Step)
           /\ \A x \in Elems(<< Do(a, j) >> \o ForEach(what, S)) :
                 x \notin Mine /\ x.do \in {a, what} /\ (x.do = a => x.job = j)
  <1> DEFINE x == Do(a, j)
             r == << x >>
             f == ForEach(what, S)
  <1>1. x \in Step /\ x.do = a /\ x.job = j /\ x \notin Mine
    BY DoIsAStep, BoundsAssumption DEF Ids
  <1> HIDE DEF x
  <1>2. r \in Seq(Step) /\ Elems(r) = {x}
    BY <1>1, One
  <1>3. f \in Seq(Step) /\ \A y \in Elems(f) : y.do = what /\ y \notin Mine
    BY ForEachSteps
  <1> HIDE DEF r, f
  <1>4. r \o f \in Seq(Step) /\ Elems(r \o f) = {x} \cup Elems(f)
    BY <1>2, <1>3, ElemsOfConcat
  <1>5. \A y \in Elems(r \o f) : y \notin Mine /\ y.do \in {a, what} /\ (y.do = a => y.job = j)
    BY <1>1, <1>3, <1>4
  <1> QED BY <1>4, <1>5 DEF x, r, f

LEMMA TwoThenLoop ==
    ASSUME NEW j \in Ids, NEW S \in SUBSET Ids
    PROVE  /\ << Do("signal", j), Do("save", j) >> \o ForEach("release", S) \in Seq(Step)
           /\ \A x \in Elems(<< Do("signal", j), Do("save", j) >> \o ForEach("release", S)) :
                 x \notin Mine /\ x.do \in {"signal", "save", "release"}
                 /\ (x.do # "release" => x.job = j)
  <1> DEFINE x == Do("signal", j)
             y == Do("save", j)
             r == << x, y >>
             f == ForEach("release", S)
  <1>1. /\ x \in Step /\ x.do = "signal" /\ x.job = j /\ x \notin Mine
        /\ y \in Step /\ y.do = "save" /\ y.job = j /\ y \notin Mine
    BY DoIsAStep, BoundsAssumption DEF Ids
  <1> HIDE DEF x, y
  <1>2. r \in Seq(Step) /\ Elems(r) = {x, y}
    BY <1>1, Two
  <1>3. f \in Seq(Step) /\ \A z \in Elems(f) : z.do = "release" /\ z \notin Mine
    BY ForEachSteps
  <1> HIDE DEF r, f
  <1>4. r \o f \in Seq(Step) /\ Elems(r \o f) = {x, y} \cup Elems(f)
    BY <1>2, <1>3, ElemsOfConcat
  <1>5. \A z \in Elems(r \o f) :
           z \notin Mine /\ z.do \in {"signal", "save", "release"} /\ (z.do # "release" => z.job = j)
    BY <1>1, <1>3, <1>4
  <1> QED BY <1>4, <1>5 DEF x, y, r, f

\* A step of t that goes on with steps u and changes nothing else.
LEMMA OnlyTodo ==
    ASSUME IInv, NEW t \in Threads, NEW u \in Seq(Step), Becomes(t, u),
           phase # "down", Idle(t) \/ (Arg(t) \notin Mine /\ Arg(t).do # "unlock"),
           \A x \in Elems(u) : x \notin Mine /\ x.do # "drop" /\ (x.do \in OfJob => x.job \in Ids),
           UNCHANGED <<lists, crew, control, jobs, rowWrite, store, life>>
    PROVE  IInv'
  <1>1. /\ UNCHANGED <<lists, crew, control, phase, boots, rowWrite, rows, highWater, told>>
        /\ jobs' \in [Ids -> JobType] /\ \A j \in index : jobs'[j].status = jobs[j].status
        /\ rows' \in [Ids -> RowType] /\ highWater' \in 0 .. MaxJobs /\ told' \subseteq Ids
    BY DEF store, life, IInv, TypeOK
  <1> QED BY <1>1, OffListStep

LEMMA ReleaseKeeps ==
    ASSUME IInv, NEW t \in Threads, Release(t)
    PROVE  IInv'
  <1>1. ~Idle(t) /\ Arg(t).do = "release" /\ Arg(t) \notin Mine
    BY DEF Release, At, Arg, Mine
  <1>2. phase # "down" /\ Arg(t).jobs \in SUBSET Ids
    BY <1>1, Pursuing DEF Step
  <1>3. PICK j \in Arg(t).jobs :
           Proceed(t, << Do("signal", j), Do("save", j) >> \o ForEach("release", Arg(t).jobs \ {j}))
    BY DEF Release
  <1> DEFINE u == << Do("signal", j), Do("save", j) >> \o ForEach("release", Arg(t).jobs \ {j})
  <1>4. /\ u \in Seq(Step) /\ \A x \in Elems(u) : /\ x \notin Mine /\ x.do \in {"signal", "save", "release"}
                                               /\ (x.do # "release" => x.job = j)
    BY <1>2, TwoThenLoop
  <1>5. Becomes(t, u)
    BY <1>1, <1>3 DEF Becomes
  <1> HIDE DEF u
  <1>6. \A x \in Elems(u) : x \notin Mine /\ x.do # "drop" /\ (x.do \in OfJob => x.job \in Ids)
    BY <1>2, <1>4 DEF OfJob
  <1>7. UNCHANGED <<lists, crew, control, jobs, rowWrite, store, life>>
    BY DEF Release
  <1> QED BY <1>1, <1>2, <1>4, <1>5, <1>6, <1>7, OnlyTodo

LEMMA SaveEachKeeps ==
    ASSUME IInv, SaveEach
    PROVE  IInv'
  <1>1. Main \in Threads /\ ~Idle(Main) /\ Arg(Main).do = "saveEach" /\ Arg(Main) \notin Mine
    BY DEF SaveEach, At, Arg, Mine, Threads
  <1>2. phase # "down" /\ Arg(Main).jobs \in SUBSET Ids
    BY <1>1, Pursuing DEF Step
  <1>3. PICK j \in Arg(Main).jobs :
           Proceed(Main, << Do("save", j) >> \o ForEach("saveEach", Arg(Main).jobs \ {j}))
    BY DEF SaveEach
  <1> DEFINE u == << Do("save", j) >> \o ForEach("saveEach", Arg(Main).jobs \ {j})
  <1>4. /\ u \in Seq(Step) /\ \A x \in Elems(u) : /\ x \notin Mine /\ x.do \in {"save", "saveEach"}
                                               /\ (x.do = "save" => x.job = j)
    <2>1. j \in Ids /\ Arg(Main).jobs \ {j} \in SUBSET Ids
      BY <1>2
    <2> QED BY <2>1, OneThenLoop
  <1>5. Becomes(Main, u)
    BY <1>1, <1>3 DEF Becomes
  <1> HIDE DEF u
  <1>6. \A x \in Elems(u) : x \notin Mine /\ x.do # "drop" /\ (x.do \in OfJob => x.job \in Ids)
    BY <1>2, <1>4 DEF OfJob
  <1>7. UNCHANGED <<lists, crew, control, jobs, rowWrite, store, life>>
    BY DEF SaveEach
  <1> QED BY <1>1, <1>2, <1>4, <1>5, <1>6, <1>7, OnlyTodo

LEMMA WaitKeeps ==
    ASSUME IInv, NEW t \in Threads, Wait(t)
    PROVE  IInv'
  <1> DEFINE j == Arg(t).job
             x == [Do("await", j) EXCEPT !.row.seq = jobs[j].run]
             y == Do("answer", j)
  <1>1. ~Idle(t) /\ Arg(t).do = "wait" /\ Arg(t) \notin Mine
    BY DEF Wait, At, Arg, Mine
  <1>2. phase # "down" /\ j \in Ids
    BY <1>1, Pursuing DEF Sound, OfJob
  <1>3. /\ x \in Step /\ x.do = "await" /\ x.job = j /\ x \notin Mine
        /\ y \in Step /\ y.do = "answer" /\ y.job = j /\ y \notin Mine
    <2>1. Do("await", j) \in Step /\ Do("await", j).do = "await" /\ Do("await", j).job = j
      BY <1>2, DoIsAStep, BoundsAssumption DEF Ids
    <2>2. jobs[j].run \in Nat
      BY <1>2 DEF IInv, TypeOK, JobType
    <2>3. x \in Step /\ x.do = "await" /\ x.job = j
      BY <2>1, <2>2 DEF Step
    <2>4. x \notin Mine
      BY <2>3 DEF Mine
    <2> HIDE DEF x
    <2> QED BY <1>2, <2>3, <2>4, DoIsAStep, BoundsAssumption DEF Ids
  <1>4. Becomes(t, << x, y >>) \/ Becomes(t, << y >>)
    BY <1>1 DEF Wait, Becomes
  <1>5. UNCHANGED <<lists, crew, control, jobs, rowWrite, store, life>>
    BY DEF Wait
  <1> HIDE DEF x, y
  <1>6. /\ << x, y >> \in Seq(Step) /\ Elems(<< x, y >>) = {x, y}
        /\ << y >> \in Seq(Step) /\ Elems(<< y >>) = {y}
    BY <1>3, One, Two
  <1>7. \A z \in {x, y} : z \notin Mine /\ z.do # "drop" /\ (z.do \in OfJob => z.job \in Ids)
    BY <1>2, <1>3
  <1> QED BY <1>1, <1>2, <1>4, <1>5, <1>6, <1>7, OnlyTodo

\* An operation that has only looked, and has one step to take.
LEMMA OneStepBegun ==
    ASSUME IInv, NEW t \in Threads, Idle(t), IsUp, NEW x \in Step, Begin(t, << x >>),
           x.do \in OfJob \ {"drop"}, x.job \in Ids,
           UNCHANGED <<lists, crew, control, jobs, rowWrite, store, life>>
    PROVE  IInv'
  <1>1. << x >> \in Seq(Step) /\ Elems(<< x >>) = {x} /\ x \notin Mine
    BY One DEF OfJob, Mine
  <1>2. Becomes(t, << x >>) /\ phase # "down"
    BY DEF Becomes, IsUp
  <1> QED BY <1>1, <1>2, OnlyTodo

LEMMA LookingKeeps ==
    ASSUME IInv, NEW c \in Callers, NEW j \in Ids, CancelLive(c, j) \/ CancelSeries(c, j)
    PROVE  IInv'
  <1>1. c \in Threads /\ Idle(c) /\ IsUp /\ UNCHANGED <<lists, crew, control, jobs, rowWrite, store, life>>
    BY DEF CancelLive, CancelSeries, CanCall, Threads
  <1>2. CASE CancelLive(c, j)
    <2> DEFINE x == Do("cancelKeeping", j)
    <2>1. x \in Step /\ x.do = "cancelKeeping" /\ x.job = j
      BY DoIsAStep, BoundsAssumption DEF Ids
    <2>2. Begin(c, << x >>)
      BY <1>2 DEF CancelLive
    <2> HIDE DEF x
    <2> QED BY <1>1, <2>1, <2>2, OneStepBegun DEF OfJob
  <1>3. CASE CancelSeries(c, j)
    <2> DEFINE x == [Do("cancel", j) EXCEPT !.live = IsLive(j)]
    <2>1. Do("cancel", j) \in Step /\ Do("cancel", j).do = "cancel" /\ Do("cancel", j).job = j
      BY DoIsAStep, BoundsAssumption DEF Ids
    <2>2. x \in Step /\ x.do = "cancel" /\ x.job = j
      BY <2>1 DEF Step, IsLive
    <2>3. Begin(c, << x >>)
      BY <1>3 DEF CancelSeries
    <2> HIDE DEF x
    <2> QED BY <1>1, <2>2, <2>3, OneStepBegun DEF OfJob
  <1> QED BY <1>2, <1>3

-----------------------------------------------------------------------------
(* Steps of the requests and of main that move jobs *)

LEMMA QuietListStep ==
    ASSUME IInv, NEW t \in Threads, NEW u \in Seq(Step), Becomes(t, u),
           phase # "down", phase' \in {"boot", "up", "stopping", "closing"},
           Idle(t) \/ (Arg(t) \notin Mine /\ Arg(t).do # "unlock"),
           \A x \in Elems(u) : x \notin Mine /\ Sound(x)',
           UNCHANGED <<running, held, exited, rowWrite, store, boots, told>>,
           pending' \in SUBSET Ids, finished' \in SUBSET Ids, order' \in SUBSET (Ids \X Ids),
           index' \in SUBSET (1 .. nextID'), \A j \in 1 .. nextID : j \in index' => j \in index,
           ctx' \in [Ids -> {"none", "live", "operator", "shutdown"}],
           nextID' \in nextID .. MaxJobs, closed' \in BOOLEAN, paused' \in BOOLEAN,
           asleep' \subseteq Workers, jobs' \in [Ids -> JobType],
           \A j \in running : jobs[j].status \in Settled => jobs'[j].status \in Settled,
           OnePlace'
    PROVE  IInv'
  <1>1. \A w \in Workers : held[w] # 0 /\ IsSettled(held[w]) => IsSettled(held[w])'
    <2> SUFFICES ASSUME NEW w \in Workers, held[w] # 0, IsSettled(held[w]) PROVE IsSettled(held[w])'
      OBVIOUS
    <2>1. held[w] \in running
      BY DEF IInv, OneWorkerPerJob
    <2> QED BY <2>1 DEF IsSettled
  <1>2. nextID' >= nextID /\ nextID' \in Nat /\ held' = held
    BY DEF IInv, TypeOK
  <1>3. todo' \in [Threads -> Seq(Step)] /\ UnlockAhead' /\ Steps' /\ FinishesSettled'
    BY <1>1, <1>2, QuietStep
  <1>4. TypeOK'
    <2>0. nextID \in Nat /\ MaxJobs \in Nat
      BY BoundsAssumption DEF IInv, TypeOK
    <2>1. index' \subseteq Ids /\ nextID' \in 0 .. MaxJobs
      BY <2>0 DEF Ids
    <2> QED BY <1>3, <2>1 DEF IInv, TypeOK, store
  <1>5. OneWorkerPerJob'
    BY DEF IInv, OneWorkerPerJob
  <1>6. Grounded'
    BY DEF IInv, Grounded
  <1> QED BY <1>3, <1>4, <1>5, <1>6 DEF IInv

LEMMA Pushing ==
    ASSUME TypeOK, NEW S \in SUBSET Ids, NEW known, PushFinished(S, known)
    PROVE  /\ EvictedBy(S) \subseteq finished \cup S
           /\ finished' = (finished \cup S) \ EvictedBy(S) /\ index' = known \ EvictedBy(S)
           /\ order' \in SUBSET (Ids \X Ids)
  <1>1. EvictedBy(S) \subseteq finished \cup S
    BY DEF EvictedBy, Evicted
  <1>2. AfterPushFinished(S) \subseteq Ids \X Ids
    BY DEF AfterPushFinished, TypeOK
  <1> QED BY <1>1, <1>2 DEF PushFinished

LEMMA JobIsTyped ==
    ASSUME TypeOK, NEW j \in Ids
    PROVE  /\ jobs[j] \in JobType
           /\ \A s \in Settled : settle(j, s) \in JobType /\ settle(j, s).status \in Settled
           /\ \A s \in Settled : IsSettled(j) => settle(j, s) = jobs[j]
           /\ \A lane \in 0 .. 2 : newJob(lane) \in JobType /\ newJob(lane).status = "queued"
  <1>1. jobs[j] \in JobType
    BY DEF TypeOK
  <1>2. \A s \in Settled : s \in Statuses
    BY DEF Statuses
  <1>3. NoJob \in JobType
    BY BoundsAssumption DEF NoJob, JobType, Statuses
  <1>4. \A lane \in 0 .. 2 : newJob(lane) \in JobType /\ newJob(lane).status = "queued"
    BY <1>3 DEF newJob, JobType, Statuses
  <1>5. ASSUME NEW s \in Settled
        PROVE  settle(j, s) \in JobType /\ settle(j, s).status \in Settled
    BY <1>1, <1>2 DEF settle, IsSettled, JobType
  <1> QED BY <1>1, <1>4, <1>5 DEF settle

\* In a life of the process ids only grow, and the next one is not known yet.
LEMMA NextIsNew ==
    ASSUME IInv, NewId \in Ids
    PROVE  /\ nextID \in Nat /\ NewId = nextID + 1 /\ NewId \notin index
           /\ NewId \notin pending \cup running \cup finished /\ NewId \in nextID .. MaxJobs
  BY DEF IInv, TypeOK, Grounded, NewId, OnePlace, Ids

LEMMA EnqueueKeeps ==
    ASSUME IInv, NEW c \in Callers, NEW lane \in Lanes, NEW wait \in BOOLEAN, Enqueue(c, lane, wait)
    PROVE  IInv'
  <1> DEFINE n == NewId
             last == IF wait THEN "wait" ELSE "answer"
             x == Do("save", n)
             y == Do(last, n)
  <1>1. /\ c \in Threads /\ Idle(c) /\ phase # "down" /\ n \in Ids /\ lane \in 0 .. 2
        /\ UNCHANGED <<running, held, exited, rowWrite, store, boots, told, ctx, closed, paused, phase>>
    BY BoundsAssumption DEF Enqueue, CanCall, IsUp, Threads, life
  <1>2. /\ nextID \in Nat /\ n = nextID + 1 /\ n \notin index /\ n \in nextID .. MaxJobs
        /\ n \notin pending \cup running \cup finished
    BY <1>1, NextIsNew
  <1>3. /\ nextID' = n /\ jobs' = [jobs EXCEPT ![n] = newJob(lane)] /\ index' = index \cup {n}
        /\ order' = AfterPushPending(n, lane) /\ pending' = pending \cup {n} /\ asleep' = {}
        /\ Begin(c, << x, y >>) /\ finished' = finished
    BY DEF Enqueue, Broadcast
  <1>4. /\ x \in Step /\ x.do = "save" /\ x.job = n /\ x \notin Mine
        /\ y \in Step /\ y.do = last /\ y.job = n /\ y \notin Mine
    <2>1. n \in 0 .. MaxJobs /\ last \in {"wait", "answer"}
      BY <1>1 DEF Ids
    <2> HIDE DEF last, n
    <2> QED BY <2>1, DoIsAStep
  <1>5. TypeOK /\ OnePlace /\ pending \in SUBSET Ids /\ finished \in SUBSET Ids /\ order \in SUBSET (Ids \X Ids)
        /\ jobs \in [Ids -> JobType] /\ ctx \in [Ids -> {"none", "live", "operator", "shutdown"}]
        /\ closed \in BOOLEAN /\ paused \in BOOLEAN
        /\ phase \in {"down", "boot", "up", "stopping", "closing"}
        /\ index \in SUBSET (1 .. nextID)
    BY DEF IInv, TypeOK, Grounded
  <1> HIDE DEF n, x, y, last
  <1>6. << x, y >> \in Seq(Step) /\ Elems(<< x, y >>) = {x, y} /\ Becomes(c, << x, y >>)
    BY <1>1, <1>3, <1>4, Two DEF Becomes
  <1>7. \A z \in {x, y} : z \notin Mine /\ Sound(z)'
    BY <1>1, <1>4 DEF Sound, last
  <1>8. newJob(lane) \in JobType /\ newJob(lane).status = "queued"
    BY <1>1, <1>5, JobIsTyped
  <1>9. jobs' \in [Ids -> JobType] /\ jobs'[n].status = "queued" /\ \A j \in Ids \ {n} : jobs'[j] = jobs[j]
    BY <1>1, <1>3, <1>5, <1>8
  <1>10. order' \in SUBSET (Ids \X Ids)
    BY <1>1, <1>3, <1>5 DEF AfterPushPending
  <1>11. OnePlace'
    BY <1>2, <1>3, <1>5, <1>9, <1>1 DEF OnePlace, IsSettled
  <1>12. \A j \in running : jobs[j].status \in Settled => jobs'[j].status \in Settled
    BY <1>2, <1>9 DEF IInv, TypeOK
  <1>13. /\ index' \in SUBSET (1 .. nextID') /\ nextID' \in nextID .. MaxJobs
         /\ \A j \in 1 .. nextID : j \in index' => j \in index
    BY <1>2, <1>3, <1>5
  <1>14. pending' \in SUBSET Ids /\ finished' \in SUBSET Ids /\ asleep' \subseteq Workers
    BY <1>1, <1>3, <1>5
  <1> QED
    BY <1>1, <1>5, <1>6, <1>7, <1>9, <1>10, <1>11, <1>12, <1>13, <1>14, QuietListStep

LEMMA RecordLookupKeeps ==
    ASSUME IInv, NEW c \in Callers, RecordLookup(c)
    PROVE  IInv'
  <1>1. c \in Threads /\ Idle(c) /\ IsUp /\ phase # "down" /\ UNCHANGED <<crew, rowWrite, store, life>>
    BY DEF RecordLookup, CanCall, IsUp, Threads
  <1>2. CASE UNCHANGED <<lists, control, jobs>> /\ \E j \in finished : Begin(c, << Do("keep", j) >>)
    <2>1. PICK j \in finished : Begin(c, << Do("keep", j) >>)
      BY <1>2
    <2>2. j \in Ids /\ j \in 0 .. MaxJobs
      BY DEF IInv, TypeOK, Ids
    <2>3. Do("keep", j) \in Step /\ Do("keep", j).do = "keep" /\ Do("keep", j).job = j
      BY <2>2, DoIsAStep
    <2> QED BY <1>1, <1>2, <2>1, <2>2, <2>3, OneStepBegun DEF OfJob
  <1>3. CASE ~(UNCHANGED <<lists, control, jobs>> /\ \E j \in finished : Begin(c, << Do("keep", j) >>))
    <2> DEFINE n == NewId
               job == [newJob(2) EXCEPT !.filed = TRUE, !.status = "succeeded", !.shut = {1}]
               E == EvictedBy({n})
               u == << Do("keep", n) >> \o ForEach("delete", E)
    <2>1. /\ n \in Ids /\ nextID' = n /\ jobs' = [jobs EXCEPT ![n] = job]
          /\ PushFinished({n}, index \cup {n})
          /\ Begin(c, u) /\ UNCHANGED <<pending, closed, paused>>
      BY <1>3 DEF RecordLookup
    <2>2. /\ nextID \in Nat /\ n = nextID + 1 /\ n \notin index /\ n \in nextID .. MaxJobs
          /\ n \notin pending \cup running \cup finished
      BY <2>1, NextIsNew
    <2>3. /\ TypeOK /\ OnePlace /\ pending \in SUBSET Ids /\ finished \in SUBSET Ids
          /\ jobs \in [Ids -> JobType] /\ ctx \in [Ids -> {"none", "live", "operator", "shutdown"}]
          /\ closed \in BOOLEAN /\ paused \in BOOLEAN /\ asleep \subseteq Workers
          /\ phase \in {"down", "boot", "up", "stopping", "closing"}
          /\ index \in SUBSET (1 .. nextID)
      BY DEF IInv, TypeOK, Grounded
    <2>4. job \in JobType /\ job.status = "succeeded"
      <3>1. newJob(2) \in JobType
        BY <2>1, <2>3, JobIsTyped
      <3>2. {1} \in SUBSET (1 .. MaxRuns)
        BY BoundsAssumption
      <3> QED BY <3>1, <3>2 DEF JobType, Statuses, Settled
    <2> HIDE DEF n, job
    <2>5. /\ E \subseteq finished \cup {n} /\ finished' = (finished \cup {n}) \ E
          /\ index' = (index \cup {n}) \ E /\ order' \in SUBSET (Ids \X Ids)
      BY <2>1, <2>3, Pushing
    <2>6. E \in SUBSET Ids
      BY <2>1, <2>3, <2>5
    <2> HIDE DEF E
    <2>7. /\ u \in Seq(Step) /\ \A x \in Elems(u) : /\ x \notin Mine /\ x.do \in {"keep", "delete"}
                                                 /\ (x.do = "keep" => x.job = n)
      BY <2>1, <2>6, OneThenLoop
    <2> HIDE DEF u
    <2>8. Becomes(c, u) /\ \A x \in Elems(u) : x \notin Mine /\ Sound(x)'
      BY <1>1, <2>1, <2>7 DEF Becomes, Sound, OfJob
    <2>9. jobs' \in [Ids -> JobType] /\ jobs'[n].status = "succeeded" /\ \A j \in Ids \ {n} : jobs'[j] = jobs[j]
      BY <2>1, <2>3, <2>4
    <2>10. UNCHANGED <<running, held, exited, ctx, asleep, phase, boots, told, rowWrite, store>>
      BY <1>1 DEF crew, life
    <2>11. OnePlace'
      BY <2>1, <2>2, <2>3, <2>5, <2>9, <2>10 DEF OnePlace, IsSettled, Settled
    <2>12. \A j \in running : jobs[j].status \in Settled => jobs'[j].status \in Settled
      BY <2>2, <2>9 DEF IInv, TypeOK
    <2>13. /\ index' \in SUBSET (1 .. nextID') /\ nextID' \in nextID .. MaxJobs
           /\ \A j \in 1 .. nextID : j \in index' => j \in index
      BY <2>1, <2>2, <2>3, <2>5
    <2>14. pending' \in SUBSET Ids /\ finished' \in SUBSET Ids
      BY <2>1, <2>3, <2>5
    <2> QED
      BY <1>1, <2>1, <2>3, <2>5, <2>7, <2>8, <2>9, <2>10, <2>11, <2>12, <2>13, <2>14, QuietListStep
  <1> QED BY <1>2, <1>3

LEMMA RetryKeeps ==
    ASSUME IInv, NEW c \in Callers, NEW j \in Ids, Retry(c, j)
    PROVE  IInv'
  <1> DEFINE x == Do("save", j)
  <1>1. /\ c \in Threads /\ Idle(c) /\ phase # "down"
        /\ j \in index /\ j \notin running /\ IsSettled(j) /\ jobs[j].run < MaxRuns
        /\ jobs' = [jobs EXCEPT ![j] = reset(j)] /\ finished' = finished \ {j}
        /\ order' = AfterPushPending(j, jobs[j].lane) /\ pending' = pending \cup {j}
        /\ asleep' = {} /\ Begin(c, << x >>)
        /\ UNCHANGED <<index, running, ctx, held, exited, nextID, closed, paused, rowWrite, store, phase, boots, told>>
    BY DEF Retry, MayRetry, CanReset, CanCall, IsUp, Threads, Broadcast, control, life
  <1>2. /\ TypeOK /\ OnePlace /\ pending \in SUBSET Ids /\ finished \in SUBSET Ids /\ order \in SUBSET (Ids \X Ids)
        /\ jobs \in [Ids -> JobType] /\ ctx \in [Ids -> {"none", "live", "operator", "shutdown"}]
        /\ closed \in BOOLEAN /\ paused \in BOOLEAN /\ nextID \in 0 .. MaxJobs
        /\ phase \in {"down", "boot", "up", "stopping", "closing"}
        /\ index \in SUBSET (1 .. nextID)
    BY DEF IInv, TypeOK, Grounded
  <1>3. j \in finished /\ j \notin pending
    BY <1>1, <1>2 DEF OnePlace, IsSettled, Settled
  <1>4. x \in Step /\ x.do = "save" /\ x.job = j /\ x \notin Mine
    BY DoIsAStep, BoundsAssumption DEF Ids
  <1>5. reset(j) \in JobType /\ reset(j).status = "queued"
    <2>1. jobs[j] \in JobType
      BY <1>2
    <2>2. jobs[j].run + 1 \in 1 .. MaxRuns
      BY <1>1, <2>1, BoundsAssumption DEF JobType
    <2> QED BY <2>1, <2>2 DEF reset, JobType, Statuses
  <1> HIDE DEF x
  <1>6. << x >> \in Seq(Step) /\ Elems(<< x >>) = {x} /\ Becomes(c, << x >>)
    BY <1>1, <1>4, One DEF Becomes
  <1>7. x \notin Mine /\ Sound(x)'
    BY <1>4 DEF Sound
  <1>8. jobs' \in [Ids -> JobType] /\ jobs'[j].status = "queued" /\ \A k \in Ids \ {j} : jobs'[k] = jobs[k]
    BY <1>1, <1>2, <1>5
  <1>9. order' \in SUBSET (Ids \X Ids)
    BY <1>1, <1>2 DEF AfterPushPending
  <1>10. OnePlace'
    BY <1>1, <1>2, <1>3, <1>8 DEF OnePlace, IsSettled
  <1>11. \A k \in running : jobs[k].status \in Settled => jobs'[k].status \in Settled
    BY <1>1, <1>8 DEF IInv, TypeOK
  <1>12. nextID' \in nextID .. MaxJobs
    BY <1>1, <1>2, BoundsAssumption
  <1> QED
    BY <1>1, <1>2, <1>6, <1>7, <1>8, <1>9, <1>10, <1>11, <1>12, QuietListStep

Looping == {x \in Step : x.do \in {"release", "delete", "report"}}

\* Steps about job j, and loops.
About(j) == {x \in Step : x.do \in {"signal", "save"} /\ x.job = j} \cup Looping

LEMMA LoopSteps ==
    ASSUME NEW what \in {"release", "delete", "report"}, NEW S \in SUBSET Ids
    PROVE  ForEach(what, S) \in Seq(Step) /\ Elems(ForEach(what, S)) \subseteq Looping
  <1>1. ForEach(what, S) \in Seq(Step) /\ \A x \in Elems(ForEach(what, S)) : x.do = what
    BY ForEachSteps
  <1>2. \A x \in Elems(ForEach(what, S)) : x \in Step
    BY <1>1, ElementOfSeq, LenProperties DEF Elems
  <1> QED BY <1>1, <1>2 DEF Looping

LEMMA CanceledStepsAbout ==
    ASSUME NEW j \in Ids, NEW E \in SUBSET Ids
    PROVE  CanceledSteps(j, E) \in Seq(Step) /\ Elems(CanceledSteps(j, E)) \subseteq About(j)
  <1> DEFINE x == Do("signal", j)
             y == [Do("report", 0) EXCEPT !.jobs = {j}]
             z == Do("save", j)
             r == << x, y, z >>
             f == ForEach("delete", E)
  <1>1. x \in Step /\ z \in Step /\ x.do = "signal" /\ x.job = j /\ z.do = "save" /\ z.job = j
    BY DoIsAStep, BoundsAssumption DEF Ids
  <1>2. y \in Step /\ y.do = "report"
    <2>1. Do("report", 0) \in Step /\ Do("report", 0).do = "report"
      BY DoIsAStep, BoundsAssumption
    <2> QED BY <2>1 DEF Step
  <1> HIDE DEF x, y, z
  <1>3. r \in Seq(Step) /\ Elems(r) = {x, y, z} /\ {x, y, z} \subseteq About(j)
    <2>1. r \in Seq(Step) /\ Elems(r) = {x, y, z}
      BY <1>1, <1>2, Three
    <2>2. x \in About(j) /\ y \in About(j) /\ z \in About(j)
      BY <1>1, <1>2 DEF About, Looping
    <2> QED BY <2>1, <2>2
  <1>4. f \in Seq(Step) /\ Elems(f) \subseteq About(j)
    BY LoopSteps DEF About
  <1> HIDE DEF r, f
  <1>5. r \o f \in Seq(Step) /\ Elems(r \o f) \subseteq About(j)
    BY <1>3, <1>4, ElemsOfConcat
  <1> QED BY <1>5 DEF CanceledSteps, x, y, z, r, f

LEMMA RemovedStepsAbout ==
    ASSUME NEW j \in Ids
    PROVE  /\ RemovedSteps(j) \in Seq(Step)
           /\ Elems(RemovedSteps(j)) \subseteq {Do("drop", j)} \cup About(j)
           /\ Do("drop", j) \in Step /\ Do("drop", j).do = "drop" /\ Do("drop", j).job = j
           /\ Do("drop", j) \notin Mine
  <1> DEFINE x == Do("drop", j)
             r == << x >>
             S == IF jobs[j].status = "queued" THEN {j} ELSE {}
             f == ForEach("report", S)
             g == ForEach("delete", {j})
  <1>1. x \in Step /\ x.do = "drop" /\ x.job = j /\ x \notin Mine
    BY DoIsAStep, BoundsAssumption DEF Ids
  <1> HIDE DEF x
  <1>2. r \in Seq(Step) /\ Elems(r) = {x}
    BY <1>1, One
  <1>3. S \in SUBSET Ids
    OBVIOUS
  <1> HIDE DEF S, r
  <1>4. f \in Seq(Step) /\ Elems(f) \subseteq About(j)
    BY <1>3, LoopSteps DEF About
  <1>5. g \in Seq(Step) /\ Elems(g) \subseteq About(j)
    BY LoopSteps DEF About
  <1> HIDE DEF f, g
  <1>6. r \o f \in Seq(Step) /\ Elems(r \o f) \subseteq {x} \cup About(j)
    BY <1>2, <1>4, ElemsOfConcat
  <1>7. (r \o f) \o g \in Seq(Step) /\ Elems((r \o f) \o g) \subseteq {x} \cup About(j)
    <2> DEFINE rf == r \o f
    <2>1. rf \in Seq(Step) /\ Elems(rf) \subseteq {x} \cup About(j)
      BY <1>6
    <2> HIDE DEF rf
    <2>2. rf \o g \in Seq(Step) /\ Elems(rf \o g) \subseteq {x} \cup About(j)
      BY <1>5, <2>1, ElemsOfConcat
    <2> QED BY <2>2 DEF rf
  <1> QED BY <1>1, <1>7 DEF RemovedSteps, x, r, f, g, S

LEMMA CancelKeepingRowKeeps ==
    ASSUME IInv, NEW t \in Threads, CancelKeepingRow(t)
    PROVE  IInv'
  <1> DEFINE j == Arg(t).job
  <1>1. /\ ~Idle(t) /\ Arg(t).do = "cancelKeeping" /\ Arg(t) \notin Mine /\ Arg(t).do # "unlock"
        /\ UNCHANGED <<running, held, asleep, exited, nextID, closed, paused, rowWrite, store, phase, boots, told>>
    BY DEF CancelKeepingRow, At, Arg, Mine, control, life
  <1>2. phase # "down" /\ j \in Ids
    BY <1>1, Pursuing DEF Sound, OfJob
  <1>3. /\ TypeOK /\ OnePlace /\ pending \in SUBSET Ids /\ finished \in SUBSET Ids /\ order \in SUBSET (Ids \X Ids)
        /\ jobs \in [Ids -> JobType] /\ ctx \in [Ids -> {"none", "live", "operator", "shutdown"}]
        /\ closed \in BOOLEAN /\ paused \in BOOLEAN /\ nextID \in 0 .. MaxJobs /\ asleep \subseteq Workers
        /\ phase \in {"down", "boot", "up", "stopping", "closing"} /\ nextID \in nextID .. MaxJobs
        /\ index \in SUBSET (1 .. nextID)
    BY BoundsAssumption DEF IInv, TypeOK, Grounded
  <1>4. << >> \in Seq(Step) /\ Elems(<< >>) = {}
    BY EmptyElems, EmptySeq
  <1> HIDE DEF j
  <1>5. CASE j \in index /\ j \in running /\ ctx' = [ctx EXCEPT ![j] = CutBy(j, "operator")]
               /\ Proceed(t, << >>) /\ UNCHANGED <<lists, jobs>>
    <2>1. Becomes(t, << >>)
      BY <1>1, <1>5 DEF Becomes
    <2>2. CutBy(j, "operator") \in {"none", "live", "operator", "shutdown"}
      BY <1>2, <1>3 DEF CutBy
    <2>3. ctx' \in [Ids -> {"none", "live", "operator", "shutdown"}]
      BY <1>3, <1>5, <2>2
    <2>4. UNCHANGED <<pending, finished, order, index, jobs>>
      BY <1>5 DEF lists
    <2>5. OnePlace'
      BY <1>1, <1>3, <2>4 DEF OnePlace, IsSettled
    <2> QED BY <1>1, <1>2, <1>3, <1>4, <2>1, <2>3, <2>4, <2>5, QuietListStep
  <1>6. CASE /\ j \in index /\ j \in pending /\ pending' = pending \ {j}
             /\ jobs' = [jobs EXCEPT ![j] = settle(j, "canceled")] /\ PushFinished({j}, index)
             /\ Proceed(t, CanceledSteps(j, EvictedBy({j}))) /\ ctx' = ctx
    <2> DEFINE E == EvictedBy({j})
               u == CanceledSteps(j, E)
    <2>1. /\ E \subseteq finished \cup {j} /\ finished' = (finished \cup {j}) \ E
          /\ index' = index \ E /\ order' \in SUBSET (Ids \X Ids)
      BY <1>2, <1>3, <1>6, Pushing
    <2>2. Proceed(t, u)
      BY <1>6
    <2>3. E \in SUBSET Ids
      BY <1>2, <1>3, <2>1
    <2> HIDE DEF E
    <2>4. u \in Seq(Step) /\ Elems(u) \subseteq About(j)
      BY <1>2, <2>3, CanceledStepsAbout
    <2> HIDE DEF u
    <2>5. \A x \in Elems(u) : x \notin Mine /\ Sound(x)'
      BY <1>2, <2>4 DEF About, Looping, Mine, Sound, OfJob
    <2>6. Becomes(t, u)
      BY <1>1, <2>2 DEF Becomes
    <2>7. settle(j, "canceled") \in JobType /\ settle(j, "canceled").status \in Settled
      BY <1>2, <1>3, JobIsTyped DEF Settled
    <2>8. jobs' \in [Ids -> JobType] /\ jobs'[j].status \in Settled /\ \A k \in Ids \ {j} : jobs'[k] = jobs[k]
      BY <1>2, <1>3, <1>6, <2>7
    <2>9. OnePlace'
      BY <1>1, <1>2, <1>3, <1>6, <2>1, <2>8 DEF OnePlace, IsSettled
    <2>10. \A k \in running : jobs[k].status \in Settled => jobs'[k].status \in Settled
      BY <2>8 DEF IInv, TypeOK
    <2>11. /\ pending' \in SUBSET Ids /\ finished' \in SUBSET Ids /\ index' \in SUBSET (1 .. nextID')
           /\ \A k \in 1 .. nextID : k \in index' => k \in index
      BY <1>1, <1>2, <1>3, <1>6, <2>1
    <2> QED
      BY <1>1, <1>2, <1>3, <1>6, <2>1, <2>4, <2>5, <2>6, <2>8, <2>9, <2>10, <2>11, QuietListStep
  <1>7. CASE Proceed(t, << >>) /\ UNCHANGED <<lists, ctx, jobs>>
    <2>1. UNCHANGED <<lists, crew, control, jobs, phase, boots, rowWrite, rows, highWater, told>>
      BY <1>1, <1>7 DEF crew, control, store, life
    <2>2. rows' \in [Ids -> RowType] /\ highWater' \in 0 .. MaxJobs /\ told' \subseteq Ids
      BY <1>3, <2>1 DEF TypeOK
    <2> QED BY <1>1, <1>7, <2>1, <2>2, StepDone
  <1> QED
    BY <1>5, <1>6, <1>7 DEF CancelKeepingRow, j

LEMMA CancelKeeps ==
    ASSUME IInv, NEW t \in Threads, Cancel(t)
    PROVE  IInv'
  <1> DEFINE j == Arg(t).job
  <1>1. /\ ~Idle(t) /\ Arg(t).do = "cancel" /\ Arg(t) \notin Mine /\ Arg(t).do # "unlock"
        /\ UNCHANGED <<running, held, asleep, exited, nextID, closed, paused, jobs, rowWrite, store, phase, boots, told>>
    BY DEF Cancel, At, Arg, Mine, control, life
  <1>2. phase # "down" /\ j \in Ids
    BY <1>1, Pursuing DEF Sound, OfJob
  <1>3. /\ TypeOK /\ OnePlace /\ pending \in SUBSET Ids /\ finished \in SUBSET Ids /\ order \in SUBSET (Ids \X Ids)
        /\ jobs \in [Ids -> JobType] /\ ctx \in [Ids -> {"none", "live", "operator", "shutdown"}]
        /\ closed \in BOOLEAN /\ paused \in BOOLEAN /\ nextID \in 0 .. MaxJobs /\ asleep \subseteq Workers
        /\ phase \in {"down", "boot", "up", "stopping", "closing"} /\ nextID \in nextID .. MaxJobs
        /\ index \in SUBSET (1 .. nextID)
    BY BoundsAssumption DEF IInv, TypeOK, Grounded
  <1>4. << >> \in Seq(Step) /\ Elems(<< >>) = {}
    BY EmptyElems, EmptySeq
  <1> HIDE DEF j
  <1>5. CASE ctx' = [ctx EXCEPT ![j] = CutBy(j, "operator")] /\ Proceed(t, << >>) /\ UNCHANGED lists
    <2>1. Becomes(t, << >>)
      BY <1>1, <1>5 DEF Becomes
    <2>2. CutBy(j, "operator") \in {"none", "live", "operator", "shutdown"}
      BY <1>2, <1>3 DEF CutBy
    <2>3. ctx' \in [Ids -> {"none", "live", "operator", "shutdown"}]
      BY <1>3, <1>5, <2>2
    <2>4. UNCHANGED <<pending, finished, order, index>>
      BY <1>5 DEF lists
    <2>5. OnePlace'
      BY <1>1, <1>3, <2>4 DEF OnePlace, IsSettled
    <2> QED BY <1>1, <1>2, <1>3, <1>4, <2>1, <2>3, <2>4, <2>5, QuietListStep
  <1>6. CASE /\ ~NothingToCancel(j, Arg(t).live) /\ j \notin running
             /\ pending' = pending \ {j} /\ finished' = finished \ {j}
             /\ order' = order \ Touching({j}) /\ index' = index \ {j}
             /\ Proceed(t, RemovedSteps(j)) /\ ctx' = ctx
    <2> DEFINE u == RemovedSteps(j)
               x == Do("drop", j)
    <2>1. /\ u \in Seq(Step) /\ Elems(u) \subseteq {x} \cup About(j)
          /\ x \in Step /\ x.do = "drop" /\ x.job = j /\ x \notin Mine
      BY <1>2, RemovedStepsAbout
    <2>2. Becomes(t, u)
      BY <1>1, <1>6 DEF Becomes
    <2>3. j \in index
      BY <1>6 DEF NothingToCancel
    <2> HIDE DEF u, x
    <2>4. \A y \in Elems(u) : y \notin Mine /\ Sound(y)'
      <3>1. j <= nextID' /\ j \notin index'
        BY <1>1, <1>3, <1>6, <2>3
      <3> QED BY <1>2, <2>1, <3>1 DEF About, Looping, Mine, Sound, OfJob
    <2>5. OnePlace'
      BY <1>1, <1>2, <1>3, <1>6 DEF OnePlace, IsSettled
    <2>6. /\ pending' \in SUBSET Ids /\ finished' \in SUBSET Ids /\ index' \in SUBSET (1 .. nextID')
          /\ \A k \in 1 .. nextID : k \in index' => k \in index
          /\ order' \in SUBSET (Ids \X Ids)
      BY <1>1, <1>2, <1>3, <1>6
    <2> QED
      BY <1>1, <1>2, <1>3, <1>6, <2>1, <2>2, <2>4, <2>5, <2>6, QuietListStep
  <1>7. CASE Proceed(t, << >>) /\ UNCHANGED <<lists, ctx>>
    <2>1. UNCHANGED <<lists, crew, control, jobs, phase, boots, rowWrite, rows, highWater, told>>
      BY <1>1, <1>7 DEF crew, control, store, life
    <2>2. rows' \in [Ids -> RowType] /\ highWater' \in 0 .. MaxJobs /\ told' \subseteq Ids
      BY <1>3, <2>1 DEF TypeOK
    <2> QED BY <1>1, <1>7, <2>1, <2>2, StepDone
  <1> QED
    BY <1>5, <1>6, <1>7 DEF Cancel, j

\* What dropPendingLocked leaves, and the loops of releaseDropped.
LEMMA DropPendingFacts ==
    ASSUME IInv, NEW t \in Threads, Idle(t), DropPending(t)
    PROVE  \E u \in Seq(Step) :
              /\ Becomes(t, u) /\ Elems(u) \subseteq Looping
              /\ pending' = {} /\ finished' \subseteq pending \cup finished
              /\ finished' \in SUBSET Ids /\ order' \in SUBSET (Ids \X Ids)
              /\ index' \in SUBSET index /\ index' = running \cup finished'
              /\ jobs' \in [Ids -> JobType]
              /\ \A j \in pending : jobs'[j].status \in Settled
              /\ \A j \in Ids \ pending : jobs'[j] = jobs[j]
  <1> DEFINE E == EvictedBy(pending)
             a == ForEach("release", pending)
             b == ForEach("report", pending)
             d == ForEach("delete", E)
  <1>1. TypeOK /\ OnePlace /\ pending \in SUBSET Ids /\ finished \in SUBSET Ids
    BY DEF IInv, TypeOK
  <1>2. /\ pending' = {} /\ jobs' = [j \in Ids |-> IF j \in pending THEN settle(j, "canceled") ELSE jobs[j]]
        /\ PushFinished(pending, index) /\ Begin(t, (a \o b) \o d)
    BY DEF DropPending
  <1>3. /\ E \subseteq finished \cup pending /\ finished' = (finished \cup pending) \ E
        /\ index' = index \ E /\ order' \in SUBSET (Ids \X Ids)
    BY <1>1, <1>2, Pushing
  <1>4. E \in SUBSET Ids
    BY <1>1, <1>3
  <1> HIDE DEF E
  <1>5. /\ a \in Seq(Step) /\ Elems(a) \subseteq Looping
        /\ b \in Seq(Step) /\ Elems(b) \subseteq Looping
        /\ d \in Seq(Step) /\ Elems(d) \subseteq Looping
    BY <1>1, <1>4, LoopSteps
  <1> HIDE DEF a, b, d
  <1> DEFINE ab == a \o b
             u == ab \o d
  <1>6. ab \in Seq(Step) /\ Elems(ab) \subseteq Looping
    BY <1>5, ElemsOfConcat
  <1>7. Begin(t, ab \o d)
    BY <1>2
  <1> HIDE DEF ab
  <1>8. u \in Seq(Step) /\ Elems(u) \subseteq Looping
    BY <1>5, <1>6, ElemsOfConcat
  <1>9. Becomes(t, u)
    BY <1>7 DEF Becomes
  <1>10. \A j \in Ids : settle(j, "canceled") \in JobType /\ settle(j, "canceled").status \in Settled
    BY <1>1, JobIsTyped DEF Settled
  <1>11. /\ jobs' \in [Ids -> JobType] /\ \A j \in pending : jobs'[j].status \in Settled
         /\ \A j \in Ids \ pending : jobs'[j] = jobs[j]
    BY <1>1, <1>2, <1>10 DEF TypeOK
  <1>12. /\ finished' \subseteq pending \cup finished /\ finished' \in SUBSET Ids
         /\ index' \in SUBSET index /\ index' = running \cup finished'
    BY <1>1, <1>3 DEF OnePlace
  <1> HIDE DEF u
  <1> QED BY <1>2, <1>3, <1>8, <1>9, <1>11, <1>12

LEMMA DropPendingKeeps ==
    ASSUME IInv, NEW t \in Threads, Idle(t), IsUp, DropPending(t),
           asleep' \subseteq Workers, closed' \in BOOLEAN, phase' \in {"up", "stopping", "closing"},
           UNCHANGED <<running, ctx, held, exited, nextID, paused, rowWrite, store, boots, told>>
    PROVE  IInv'
  <1>1. PICK u \in Seq(Step) :
              /\ Becomes(t, u) /\ Elems(u) \subseteq Looping
              /\ pending' = {} /\ finished' \subseteq pending \cup finished
              /\ finished' \in SUBSET Ids /\ order' \in SUBSET (Ids \X Ids)
              /\ index' \in SUBSET index /\ index' = running \cup finished'
              /\ jobs' \in [Ids -> JobType]
              /\ \A j \in pending : jobs'[j].status \in Settled
              /\ \A j \in Ids \ pending : jobs'[j] = jobs[j]
    BY DropPendingFacts
  <1>2. /\ OnePlace /\ pending \in SUBSET Ids /\ finished \in SUBSET Ids /\ running \in SUBSET Ids
        /\ ctx \in [Ids -> {"none", "live", "operator", "shutdown"}] /\ paused \in BOOLEAN
        /\ nextID \in 0 .. MaxJobs /\ nextID \in nextID .. MaxJobs /\ index \in SUBSET (1 .. nextID)
    BY BoundsAssumption DEF IInv, TypeOK, Grounded
  <1>3. phase # "down"
    BY DEF IsUp
  <1>4. \A x \in Elems(u) : x \notin Mine /\ Sound(x)'
    BY <1>1 DEF Looping, Mine, Sound, OfJob
  <1>5. OnePlace'
    BY <1>1, <1>2 DEF OnePlace, IsSettled
  <1>6. \A j \in running : jobs[j].status \in Settled => jobs'[j].status \in Settled
    BY <1>1, <1>2 DEF OnePlace
  <1>7. pending' \in SUBSET Ids /\ index' \in SUBSET (1 .. nextID') /\ \A j \in 1 .. nextID : j \in index' => j \in index
    BY <1>1, <1>2
  <1> QED
    BY <1>1, <1>2, <1>3, <1>4, <1>5, <1>6, <1>7, QuietListStep

LEMMA DropFinishedKeeps ==
    ASSUME IInv, NEW c \in Callers, Idle(c), IsUp, NEW S \in SUBSET finished, DropFinished(c, S)
    PROVE  IInv'
  <1>1. /\ OnePlace /\ pending \in SUBSET Ids /\ finished \in SUBSET Ids /\ running \in SUBSET Ids
        /\ order \in SUBSET (Ids \X Ids) /\ jobs \in [Ids -> JobType]
        /\ ctx \in [Ids -> {"none", "live", "operator", "shutdown"}] /\ paused \in BOOLEAN
        /\ closed \in BOOLEAN /\ asleep \subseteq Workers
        /\ nextID \in 0 .. MaxJobs /\ nextID \in nextID .. MaxJobs /\ index \in SUBSET (1 .. nextID)
    BY BoundsAssumption DEF IInv, TypeOK, Grounded
  <1>2. c \in Threads /\ phase # "down" /\ phase \in {"boot", "up", "stopping", "closing"}
    BY DEF Threads, IsUp
  <1>3. /\ finished' = finished \ S /\ order' = order \ Touching(S) /\ index' = index \ S
        /\ Begin(c, ForEach("delete", S))
        /\ UNCHANGED <<pending, running, ctx, held, asleep, exited, nextID, closed, paused, jobs,
                       rowWrite, store, phase, boots, told>>
    BY DEF DropFinished, crew, control, life
  <1> DEFINE u == ForEach("delete", S)
  <1>4. u \in Seq(Step) /\ Elems(u) \subseteq Looping
    BY <1>1, LoopSteps
  <1>5. Becomes(c, u)
    BY <1>3 DEF Becomes
  <1> HIDE DEF u
  <1>6. \A x \in Elems(u) : x \notin Mine /\ Sound(x)'
    BY <1>4 DEF Looping, Mine, Sound, OfJob
  <1>7. OnePlace'
    BY <1>1, <1>3 DEF OnePlace, IsSettled
  <1>8. /\ finished' \in SUBSET Ids /\ order' \in SUBSET (Ids \X Ids) /\ index' \in SUBSET (1 .. nextID')
        /\ \A j \in 1 .. nextID : j \in index' => j \in index
    BY <1>1, <1>3
  <1> QED
    BY <1>1, <1>2, <1>3, <1>4, <1>5, <1>6, <1>7, <1>8, QuietListStep

LEMMA CallerStepKeeps ==
    ASSUME IInv, NEW c \in Callers, CallerStep(c)
    PROVE  IInv'
  <1>1. CASE \E lane \in Lanes, wait \in BOOLEAN : Enqueue(c, lane, wait)
    BY <1>1, EnqueueKeeps
  <1>2. CASE \E j \in Ids : Retry(c, j) \/ CancelLive(c, j) \/ CancelSeries(c, j)
    BY <1>2, RetryKeeps, LookingKeeps
  <1>3. CASE RecordLookup(c)
    BY <1>3, RecordLookupKeeps
  <1>4. CASE CancelPending(c)
    <2>1. /\ c \in Threads /\ Idle(c) /\ IsUp /\ DropPending(c) /\ phase' \in {"up", "stopping", "closing"}
          /\ UNCHANGED <<running, ctx, held, exited, asleep, nextID, closed, paused, rowWrite, store, boots, told>>
      BY <1>4 DEF CancelPending, CanCall, IsUp, Threads, crew, control, life
    <2>2. asleep' \subseteq Workers /\ closed' \in BOOLEAN
      BY <2>1 DEF IInv, TypeOK
    <2> QED BY <2>1, <2>2, DropPendingKeeps
  <1>5. CASE Clear(c) \/ ClearSucceeded(c) \/ Sweep(c)
    <2>1. Idle(c) /\ IsUp /\ \E S \in SUBSET finished : DropFinished(c, S)
      BY <1>5 DEF Clear, ClearSucceeded, Clearable, Sweep, CanCall
    <2> QED BY <2>1, DropFinishedKeeps
  <1>6. CASE Pause(c) \/ Resume(c)
    <2>1. /\ UNCHANGED <<lists, running, ctx, held, exited, nextID, closed, jobs, todo, rowWrite, store, life>>
          /\ paused' \in BOOLEAN /\ (asleep' = asleep \/ asleep' = {})
      BY <1>6 DEF Pause, Resume, Broadcast, crew
    <2>2. TypeOK'
      BY <2>1 DEF IInv, TypeOK, UnlockAhead, lists, store, life
    <2>3. OnePlace' /\ OneWorkerPerJob'
      BY <2>1 DEF IInv, OnePlace, OneWorkerPerJob, IsSettled, lists
    <2>4. Steps' /\ FinishesSettled' /\ Grounded'
      BY <2>1 DEF IInv, Steps, FinishesSettled, Grounded, Sound, IsSettled, lists, life
    <2> QED BY <2>2, <2>3, <2>4 DEF IInv
  <1> QED
    BY <1>1, <1>2, <1>3, <1>4, <1>5, <1>6 DEF CallerStep

LEMMA PursueKeeps ==
    ASSUME IInv, NEW t \in Threads, Pursue(t)
    PROVE  IInv'
  BY SaveKeeps, DoneStepsKeep, KeepKeeps, SignalKeeps, ReleaseKeeps, WaitKeeps,
     CancelKeepingRowKeeps, CancelKeeps DEF Pursue

-----------------------------------------------------------------------------
(* Steps of runJob *)

\* A step of runJob leaves what the invariant says of todo lists in place, when
\* the worker still has exactly one such step if it still holds a job.
LEMMA OwnStep ==
    ASSUME IInv, NEW w \in Workers, NEW u \in Seq(Step), Becomes(w, u),
           Idle(w) \/ Arg(w) \in Mine, AtMostOnce(u, Mine),
           \A x \in Elems(u) : Sound(x)' /\ (x.do = "finish" => IsSettled(held[w])'),
           held'[w] # 0 <=> Elems(u) \cap Mine # {},
           \A v \in Workers \ {w} : held'[v] = held[v],
           \A v \in Workers \ {w} : held[v] # 0 /\ IsSettled(held[v]) => jobs'[held[v]].status \in Settled,
           nextID' = nextID, index' \subseteq index, rowWrite' = rowWrite
    PROVE  todo' \in [Threads -> Seq(Step)] /\ UnlockAhead' /\ Steps' /\ FinishesSettled'
  <1>0. TypeOK /\ w \in Threads /\ AtMostOnce(todo[w], Mine)
    BY DEF IInv, Steps, Threads
  <1>1. /\ todo' \in [Threads -> Seq(Step)]
        /\ \A o \in Threads \ {w} : todo'[o] = todo[o]
        /\ AtMostOnce(todo'[w], Mine)
        /\ \A x \in Elems(todo'[w]) : x \in Elems(u) \/ (x \in Elems(todo[w]) /\ x \notin Mine)
        /\ Elems(u) \subseteq Elems(todo'[w])
        /\ \A x \in Elems(todo[w]) : x \in Elems(todo'[w]) \/ x \in Mine
    <2>1. CASE Idle(w)
      <3>1. Begin(w, u)
        BY <2>1 DEF Becomes
      <3>2. /\ todo' \in [Threads -> Seq(Step)] /\ \A o \in Threads \ {w} : todo'[o] = todo[o]
            /\ todo'[w] = u /\ Elems(todo[w]) = {}
        BY <1>0, <2>1, <3>1, BeginElems
      <3> QED BY <3>2
    <2>2. CASE ~Idle(w)
      <3> DEFINE s == Tail(todo[w])
      <3>1. Proceed(w, u) /\ Arg(w) \in Mine
        BY <2>2 DEF Becomes
      <3>2. /\ todo' \in [Threads -> Seq(Step)] /\ \A o \in Threads \ {w} : todo'[o] = todo[o]
            /\ todo'[w] = u \o s /\ s \in Seq(Step)
            /\ Elems(todo'[w]) = Elems(u) \cup Elems(s)
            /\ Elems(todo[w]) = {Arg(w)} \cup Elems(s)
        BY <1>0, <2>2, <3>1, ProceedElems
      <3>3. AtMostOnce(s, Mine) /\ Elems(s) \cap Mine = {}
        BY <1>0, <2>2, <3>1, AtMostOnceInTail DEF TypeOK, Idle, Arg
      <3> HIDE DEF s
      <3>4. AtMostOnce(todo'[w], Mine)
        BY <3>2, <3>3, AtMostOnceInConcat
      <3> QED BY <3>1, <3>2, <3>3, <3>4
    <2> QED BY <2>1, <2>2
  <1>2. UnlockAhead'
    <2>1. rowWrite \in Threads \cup {Free} /\ UnlockAhead
      BY <1>0 DEF TypeOK
    <2>2. rowWrite # Free => \E x \in Elems(todo[rowWrite]) : x.do = "unlock"
      BY <2>1 DEF UnlockAhead, Elems
    <2>3. \A x \in Mine : x.do # "unlock"
      BY DEF Mine
    <2>4. rowWrite' # Free => \E x \in Elems(todo'[rowWrite']) : x.do = "unlock"
      BY <1>1, <2>1, <2>2, <2>3
    <2> QED BY <2>4 DEF UnlockAhead, Elems
  <1>3. \A o \in Threads : \A x \in Elems(todo[o]) : x \in Step
    BY <1>0, ElementOfSeq, LenProperties DEF TypeOK, Elems
  <1>4. Steps'
    <2>1. \A o \in Threads : \A x \in Elems(todo[o]) : Sound(x)
      BY DEF IInv, Steps
    <2>2. \A o \in Threads : \A x \in Elems(todo[o]) : Sound(x)'
      BY <2>1 DEF Sound
    <2>3. \A o \in Threads : \A x \in Elems(todo'[o]) : Sound(x)'
      BY <1>1, <2>2
    <2>4. \A o \in Threads : AtMostOnce(todo'[o], Mine)
      BY <1>1 DEF IInv, Steps
    <2>5. \A o \in Threads \ Workers : Elems(todo'[o]) \cap Mine = {}
      BY <1>1 DEF IInv, Steps
    <2>6. \A v \in Workers : held'[v] # 0 <=> Elems(todo'[v]) \cap Mine # {}
      <3>1. held'[w] # 0 <=> Elems(todo'[w]) \cap Mine # {}
        BY <1>1
      <3>2. \A v \in Workers \ {w} : held'[v] = held[v] /\ todo'[v] = todo[v]
        BY <1>1 DEF Threads
      <3>3. \A v \in Workers \ {w} : held[v] # 0 <=> Elems(todo[v]) \cap Mine # {}
        BY DEF IInv, Steps
      <3> QED BY <3>1, <3>2, <3>3
    <2> QED BY <2>3, <2>4, <2>5, <2>6 DEF Steps
  <1>5. FinishesSettled'
    <2> SUFFICES ASSUME NEW v \in Workers, NEW x \in Elems(todo'[v]), x.do = "finish"
                 PROVE  IsSettled(held[v])'
      BY DEF FinishesSettled
    <2>1. CASE v = w
      <3>1. x \notin Elems(u) => x \in Step /\ x \notin Mine
        BY <1>0, <1>1, <1>3, <2>1
      <3>2. x \in Elems(u)
        BY <3>1 DEF Mine
      <3> QED BY <2>1, <3>2
    <2>2. CASE v # w
      <3>1. v \in Threads \ {w} /\ x \in Elems(todo[v]) /\ x \in Step
        BY <1>1, <1>3, <2>2 DEF Threads
      <3>2. x \in Mine
        BY <3>1 DEF Mine
      <3>3. held[v] # 0 /\ IsSettled(held[v]) /\ held'[v] = held[v]
        BY <2>2, <3>1, <3>2 DEF IInv, Steps, FinishesSettled
      <3> QED BY <2>2, <3>3 DEF IsSettled
    <2> QED BY <2>1, <2>2
  <1> QED BY <1>1, <1>2, <1>4, <1>5

\* What a worker with a step of runJob at hand can rely on.
LEMMA Holding ==
    ASSUME IInv, NEW w \in Workers, ~Idle(w), Arg(w) \in Mine
    PROVE  /\ held[w] \in running /\ held[w] \in Ids /\ held[w] # 0 /\ held[w] \in index
           /\ held[w] \notin pending /\ held[w] \notin finished
           /\ \A v \in Workers \ {w} : held[v] # held[w]
           /\ phase # "down"
           /\ Arg(w).do = "finish" => IsSettled(held[w])
  <1>1. w \in Threads /\ todo[w] \in Seq(Step) /\ todo[w] # << >>
    BY DEF IInv, TypeOK, Idle, Threads
  <1>2. Arg(w) \in Elems(todo[w])
    BY <1>1, ElemsOfHeadTail DEF Arg
  <1>3. held[w] # 0 /\ (Arg(w).do = "finish" => IsSettled(held[w]))
    BY <1>2 DEF IInv, Steps, FinishesSettled
  <1>4. held[w] \in running /\ \A v \in Workers \ {w} : held[v] # held[w]
    BY <1>3 DEF IInv, OneWorkerPerJob
  <1>5. phase # "down"
    BY <1>1, Pursuing
  <1> QED BY <1>3, <1>4, <1>5 DEF IInv, OnePlace, TypeOK

\* A worker writes the status of the job it holds and goes on.
LEMMA RunStep ==
    ASSUME IInv, NEW w \in Workers, ~Idle(w), Arg(w) \in Mine,
           NEW u \in Seq(Step), Proceed(w, u), AtMostOnce(u, Mine), Elems(u) \cap Mine # {},
           \A x \in Elems(u) : Sound(x) /\ (x.do = "finish" => jobs'[held[w]].status \in Settled),
           NEW r \in JobType, jobs' = [jobs EXCEPT ![held[w]] = r],
           UNCHANGED <<lists, crew, control, rowWrite, store, life>>
    PROVE  IInv'
  <1> DEFINE j == held[w]
  <1>1. /\ j \in running /\ j \in Ids /\ j # 0 /\ j \notin pending /\ j \notin finished
        /\ \A v \in Workers \ {w} : held[v] # j
    BY Holding
  <1>2. TypeOK /\ jobs \in [Ids -> JobType] /\ held \in [Workers -> Ids \cup {0}]
    BY DEF IInv, TypeOK
  <1>3. jobs' \in [Ids -> JobType] /\ \A k \in Ids \ {j} : jobs'[k] = jobs[k]
    BY <1>1, <1>2
  <1>4. todo' \in [Threads -> Seq(Step)] /\ UnlockAhead' /\ Steps' /\ FinishesSettled'
    <2>1. Becomes(w, u) /\ nextID' = nextID /\ index' \subseteq index /\ held' = held /\ rowWrite' = rowWrite
      BY DEF Becomes, lists, crew, control
    <2>2. \A x \in Elems(u) : Sound(x)' /\ (x.do = "finish" => IsSettled(held[w])')
      BY <2>1 DEF Sound, IsSettled, lists
    <2>3. \A v \in Workers \ {w} : held[v] # 0 /\ IsSettled(held[v]) => jobs'[held[v]].status \in Settled
      BY <1>1, <1>2, <1>3 DEF IsSettled
    <2> QED BY <1>1, <2>1, <2>2, <2>3, OwnStep
  <1>5. TypeOK'
    BY <1>2, <1>3, <1>4 DEF TypeOK, lists, crew, control, store, life
  <1>6. OnePlace' /\ OneWorkerPerJob' /\ Grounded'
    <2>1. OnePlace'
      BY <1>1, <1>2, <1>3 DEF IInv, TypeOK, OnePlace, IsSettled, lists, crew
    <2>2. OneWorkerPerJob'
      BY DEF IInv, OneWorkerPerJob, crew
    <2>3. Grounded'
      BY Holding DEF IInv, Grounded, lists, control, life
    <2> QED BY <2>1, <2>2, <2>3
  <1> QED BY <1>4, <1>5, <1>6 DEF IInv

LEMMA OwnIsAStep ==
    ASSUME NEW what \in {"start", "process", "settle", "finish"}
    PROVE  /\ Own(what) \in Step /\ Own(what) \in Mine /\ Own(what).do = what /\ Sound(Own(what))
           /\ << Own(what) >> \in Seq(Step) /\ Elems(<< Own(what) >>) = {Own(what)}
           /\ AtMostOnce(<< Own(what) >>, Mine)
  <1> DEFINE x == Own(what)
  <1>1. x \in Step /\ x \in Mine /\ x.do = what
    BY DoIsAStep, BoundsAssumption DEF Own
  <1>2. Sound(x)
    BY <1>1 DEF Sound, OfJob
  <1> HIDE DEF x
  <1>3. << x >> \in Seq(Step) /\ Elems(<< x >>) = {x} /\ AtMostOnce(<< x >>, Mine)
    BY <1>1, One
  <1> QED BY <1>1, <1>2, <1>3 DEF x

LEMMA StartKeeps ==
    ASSUME IInv, NEW w \in Workers, Start(w)
    PROVE  IInv'
  <1> DEFINE j == held[w]
  <1>1. ~Idle(w) /\ Arg(w).do = "start" /\ UNCHANGED <<lists, crew, control, rowWrite, store, life>>
    BY DEF Start, At, Arg
  <1>2. Arg(w) \in Mine
    <2>1. Arg(w) \in Step
      BY <1>1, Pursuing DEF Threads
    <2> QED BY <1>1, <2>1 DEF Mine
  <1>3. j \in Ids
    BY <1>1, <1>2, Holding
  <1>4. /\ jobs[j] \in JobType
        /\ settle(j, "canceled") \in JobType /\ settle(j, "canceled").status \in Settled
        /\ jobs \in [Ids -> JobType]
    BY <1>3, JobIsTyped DEF IInv, TypeOK, Settled
  <1>5. CASE jobs[j].status = "queued"
    <2> DEFINE x == Do("save", j)
               y == Own("process")
               u == << x, y >>
               r == [jobs[j] EXCEPT !.status = "running"]
    <2>1. r \in JobType /\ jobs' = [jobs EXCEPT ![j] = r]
      BY <1>4, <1>5 DEF Start, JobType, Statuses
    <2>2. Proceed(w, u)
      BY <1>5 DEF Start, StartedSteps
    <2>3. /\ x \in Step /\ x.do = "save" /\ x.job = j /\ x \notin Mine
          /\ y \in Step /\ y.do = "process" /\ y \in Mine /\ Sound(y)
      BY <1>3, DoIsAStep, OwnIsAStep, BoundsAssumption DEF Ids
    <2> HIDE DEF x, y, r
    <2>4. u \in Seq(Step) /\ Elems(u) = {x, y}
      BY <2>3, Two
    <2>5. AtMostOnce(u, Mine)
      BY <2>3 DEF AtMostOnce
    <2> HIDE DEF u
    <2>6. Elems(u) \cap Mine # {} /\ \A z \in Elems(u) : Sound(z) /\ z.do # "finish"
      BY <1>3, <2>3, <2>4 DEF Sound
    <2> QED BY <1>1, <1>2, <2>1, <2>2, <2>4, <2>5, <2>6, RunStep
  <1>6. CASE jobs[j].status # "queued"
    <2> DEFINE u == << Own("finish") >>
               r == settle(j, "canceled")
    <2>1. jobs' = [jobs EXCEPT ![j] = r] /\ Proceed(w, u)
      BY <1>6 DEF Start
    <2>2. /\ u \in Seq(Step) /\ AtMostOnce(u, Mine) /\ Elems(u) \cap Mine # {}
          /\ \A x \in Elems(u) : Sound(x)
      BY OwnIsAStep
    <2>3. r \in JobType /\ jobs'[j].status \in Settled
      BY <1>3, <1>4, <2>1
    <2> HIDE DEF u, r
    <2> QED BY <1>1, <1>2, <2>1, <2>2, <2>3, RunStep
  <1> QED BY <1>5, <1>6

LEMMA ReturnKeeps ==
    ASSUME IInv, NEW w \in Workers, Return(w) \/ Settle(w)
    PROVE  IInv'
  <1> DEFINE j == held[w]
  <1>1. ~Idle(w) /\ Arg(w).do \in {"process", "settle"} /\ UNCHANGED <<lists, crew, control, rowWrite, store, life>>
    BY DEF Return, Settle, At, Arg
  <1>2. Arg(w) \in Mine
    <2>1. Arg(w) \in Step
      BY <1>1, Pursuing DEF Threads
    <2> QED BY <1>1, <2>1 DEF Mine
  <1>3. j \in Ids
    BY <1>1, <1>2, Holding
  <1>4. /\ jobs[j] \in JobType /\ jobs \in [Ids -> JobType]
        /\ \A s \in Settled : settle(j, s) \in JobType /\ settle(j, s).status \in Settled
    BY <1>3, JobIsTyped DEF IInv, TypeOK
  <1>5. CASE \E s \in Settled : jobs' = [jobs EXCEPT ![j] = settle(j, s)] /\ Proceed(w, << Own("finish") >>)
    <2>1. PICK s \in Settled : jobs' = [jobs EXCEPT ![j] = settle(j, s)] /\ Proceed(w, << Own("finish") >>)
      BY <1>5
    <2> DEFINE u == << Own("finish") >>
               r == settle(j, s)
    <2>2. jobs' = [jobs EXCEPT ![j] = r] /\ Proceed(w, u)
      BY <2>1
    <2>3. /\ u \in Seq(Step) /\ AtMostOnce(u, Mine) /\ Elems(u) \cap Mine # {}
          /\ \A x \in Elems(u) : Sound(x)
      BY OwnIsAStep
    <2>4. r \in JobType /\ jobs'[j].status \in Settled
      BY <1>3, <1>4, <2>2
    <2> HIDE DEF u, r
    <2> QED BY <1>1, <1>2, <2>2, <2>3, <2>4, RunStep
  <1>6. CASE jobs' = jobs /\ Proceed(w, << Own("settle") >>)
    <2> DEFINE u == << Own("settle") >>
    <2>1. Proceed(w, u) /\ jobs' = [jobs EXCEPT ![j] = jobs[j]]
      BY <1>3, <1>4, <1>6
    <2>2. /\ u \in Seq(Step) /\ AtMostOnce(u, Mine) /\ Elems(u) \cap Mine # {}
          /\ \A x \in Elems(u) : Sound(x) /\ x.do # "finish"
      BY OwnIsAStep
    <2> HIDE DEF u
    <2> QED BY <1>1, <1>2, <1>4, <2>1, <2>2, RunStep
  <1>7. CASE Return(w)
    BY <1>5, <1>6, <1>7 DEF Return, Settled
  <1>8. CASE Settle(w)
    BY <1>5, <1>8, BoundsAssumption DEF Settle, Settled
  <1> QED BY <1>7, <1>8

\* Process has begun, or has settled the job itself: the worker stays at it.
LEMMA ProcessKeeps ==
    ASSUME IInv, NEW w \in Workers, Process(w) \/ Abort(w)
    PROVE  IInv'
  <1> DEFINE j == held[w]
  <1>1. /\ ~Idle(w) /\ Arg(w).do = "process"
        /\ UNCHANGED <<lists, crew, control, todo, rowWrite, store, life>>
    BY DEF Process, Abort, At, Arg
  <1>2. Arg(w) \in Mine
    <2>1. Arg(w) \in Step
      BY <1>1, Pursuing DEF Threads
    <2> QED BY <1>1, <2>1 DEF Mine
  <1>3. j \in Ids /\ j \in running /\ j \notin pending /\ j \notin finished
    BY <1>1, <1>2, Holding
  <1>4. jobs[j] \in JobType /\ settle(j, "failed") \in JobType /\ settle(j, "failed").status \in Settled
        /\ jobs \in [Ids -> JobType]
    BY <1>3, JobIsTyped DEF IInv, TypeOK, Settled
  <1>5. PICK r \in JobType : jobs' = [jobs EXCEPT ![j] = r] /\ (r.status = jobs[j].status \/ r.status \in Settled)
    <2>1. CASE Process(w)
      <3>1. [jobs[j] EXCEPT !.ran = TRUE] \in JobType /\ [jobs[j] EXCEPT !.ran = TRUE].status = jobs[j].status
        BY <1>4 DEF JobType
      <3> QED BY <2>1, <3>1, <1>3, <1>4 DEF Process
    <2>2. CASE Abort(w)
      BY <1>4, <2>2 DEF Abort
    <2> QED BY <2>1, <2>2
  <1>6. jobs' \in [Ids -> JobType] /\ jobs'[j] = r /\ \A k \in Ids \ {j} : jobs'[k] = jobs[k]
    BY <1>3, <1>4, <1>5
  <1>7. TypeOK'
    BY <1>1, <1>6 DEF IInv, TypeOK, UnlockAhead, lists, crew, control, store, life
  <1>8. OnePlace' /\ OneWorkerPerJob'
    <2>1. OnePlace'
      BY <1>1, <1>3, <1>6 DEF IInv, TypeOK, OnePlace, IsSettled, lists, crew
    <2> QED BY <1>1, <2>1 DEF IInv, OneWorkerPerJob, crew
  <1>9. Steps' /\ Grounded'
    BY <1>1 DEF IInv, Steps, Sound, Grounded, lists, crew, control, life
  <1>10. FinishesSettled'
    <2> SUFFICES ASSUME NEW v \in Workers, NEW x \in Elems(todo[v]), x.do = "finish"
                 PROVE  jobs'[held[v]].status \in Settled
      BY <1>1 DEF FinishesSettled, IsSettled, crew
    <2>1. v \in Threads /\ todo[v] \in Seq(Step) /\ x \in Step
      BY ElementOfSeq, LenProperties DEF IInv, TypeOK, Elems, Threads
    <2>2. x \in Mine
      BY <2>1 DEF Mine
    <2>3. held[v] # 0 /\ jobs[held[v]].status \in Settled
      BY <2>2 DEF IInv, Steps, FinishesSettled, IsSettled
    <2>4. held[v] \in Ids
      BY <2>3 DEF IInv, TypeOK
    <2> QED BY <1>5, <1>6, <2>3, <2>4
  <1> QED BY <1>7, <1>8, <1>9, <1>10 DEF IInv

LEMMA FinishStepsQuiet ==
    ASSUME NEW j \in Ids, NEW E \in SUBSET Ids
    PROVE  /\ FinishSteps(j, E) \in Seq(Step)
           /\ \A x \in Elems(FinishSteps(j, E)) :
                 x \notin Mine /\ x.do \in {"keep", "delete", "signal"} /\ (x.do \in OfJob => x.job = j)
  <1> DEFINE x == Do("keep", j)
             z == Do("signal", j)
             a == << x >>
             c == << z >>
             f == ForEach("delete", E)
             af == a \o f
  <1>1. /\ x \in Step /\ x.do = "keep" /\ x.job = j /\ x \notin Mine
        /\ z \in Step /\ z.do = "signal" /\ z.job = j /\ z \notin Mine
    BY DoIsAStep, BoundsAssumption DEF Ids
  <1> HIDE DEF x, z
  <1>2. /\ a \in Seq(Step) /\ Elems(a) = {x} /\ c \in Seq(Step) /\ Elems(c) = {z}
    BY <1>1, One
  <1>3. f \in Seq(Step) /\ \A y \in Elems(f) : y.do = "delete" /\ y \notin Mine
    BY ForEachSteps
  <1> HIDE DEF a, c, f
  <1>4. af \in Seq(Step) /\ Elems(af) = {x} \cup Elems(f)
    BY <1>2, <1>3, ElemsOfConcat
  <1> HIDE DEF af
  <1>5. af \o c \in Seq(Step) /\ Elems(af \o c) = Elems(af) \cup {z}
    BY <1>2, <1>4, ElemsOfConcat
  <1>6. \A y \in Elems(af \o c) :
           y \notin Mine /\ y.do \in {"keep", "delete", "signal"} /\ (y.do \in OfJob => y.job = j)
    BY <1>1, <1>3, <1>4, <1>5 DEF OfJob
  <1> QED BY <1>5, <1>6 DEF FinishSteps, x, z, a, c, f, af

LEMMA FinishKeeps ==
    ASSUME IInv, NEW w \in Workers, Finish(w)
    PROVE  IInv'
  <1> DEFINE j == held[w]
             E == EvictedBy({j})
             u == FinishSteps(j, E)
  <1>1. ~Idle(w) /\ Arg(w).do = "finish"
    BY DEF Finish, At, Arg
  <1>2. Arg(w) \in Mine
    <2>1. Arg(w) \in Step
      BY <1>1, Pursuing DEF Threads
    <2> QED BY <1>1, <2>1 DEF Mine
  <1>3. /\ j \in running /\ j \in Ids /\ j # 0 /\ j \in index /\ j \notin pending /\ j \notin finished
        /\ \A v \in Workers \ {w} : held[v] # j
        /\ phase # "down" /\ IsSettled(j)
    BY <1>1, <1>2, Holding
  <1>4. /\ running' = running \ {j} /\ ctx' = [ctx EXCEPT ![j] = "none"] /\ held' = [held EXCEPT ![w] = 0]
        /\ PushFinished({j}, index) /\ Proceed(w, u)
        /\ UNCHANGED <<pending, asleep, exited, control, jobs, rowWrite, store, life>>
    BY DEF Finish
  <1>5. /\ TypeOK /\ held \in [Workers -> Ids \cup {0}]
        /\ ctx \in [Ids -> {"none", "live", "operator", "shutdown"}]
        /\ finished \subseteq Ids /\ running \subseteq Ids /\ index \subseteq Ids
    BY DEF IInv, TypeOK
  <1>6. /\ E \subseteq finished \cup {j} /\ finished' = (finished \cup {j}) \ E
        /\ index' = index \ E /\ order' \in SUBSET (Ids \X Ids)
    BY <1>3, <1>4, <1>5, Pushing
  <1>7. E \in SUBSET Ids
    BY <1>3, <1>5, <1>6
  <1> HIDE DEF E
  <1>8. /\ u \in Seq(Step)
        /\ \A x \in Elems(u) :
              x \notin Mine /\ x.do \in {"keep", "delete", "signal"} /\ (x.do \in OfJob => x.job = j)
    BY <1>3, <1>7, FinishStepsQuiet
  <1> HIDE DEF u
  <1>9. /\ held' \in [Workers -> Ids \cup {0}] /\ held'[w] = 0
        /\ \A v \in Workers \ {w} : held'[v] = held[v]
    BY <1>4, <1>5
  <1>10. todo' \in [Threads -> Seq(Step)] /\ UnlockAhead' /\ Steps' /\ FinishesSettled'
    <2>1. Becomes(w, u) /\ nextID' = nextID /\ index' \subseteq index /\ rowWrite' = rowWrite
      BY <1>1, <1>4, <1>6 DEF Becomes, control
    <2>2. \A x \in Elems(u) : Sound(x)' /\ (x.do = "finish" => IsSettled(held[w])')
      BY <1>3, <1>8 DEF Sound
    <2>3. \A v \in Workers \ {w} : held[v] # 0 /\ IsSettled(held[v]) => jobs'[held[v]].status \in Settled
      BY <1>4 DEF IsSettled
    <2>4. AtMostOnce(u, Mine) /\ Elems(u) \cap Mine = {}
      BY <1>8 DEF AtMostOnce, Elems
    <2> QED BY <1>2, <1>8, <1>9, <2>1, <2>2, <2>3, <2>4, OwnStep
  <1>11. TypeOK'
    <2>1. ctx' \in [Ids -> {"none", "live", "operator", "shutdown"}]
      BY <1>4, <1>5
    <2>2. pending' \subseteq Ids /\ finished' \subseteq Ids /\ index' \subseteq Ids /\ running' \subseteq Ids
      BY <1>3, <1>4, <1>5, <1>6 DEF TypeOK
    <2> QED BY <1>4, <1>5, <1>6, <1>9, <1>10, <2>1, <2>2 DEF TypeOK, control, store, life
  <1>12. OnePlace'
    BY <1>3, <1>4, <1>6 DEF IInv, OnePlace, IsSettled
  <1>13. OneWorkerPerJob'
    BY <1>3, <1>4, <1>5, <1>9 DEF IInv, OneWorkerPerJob
  <1>14. Grounded'
    BY <1>3, <1>4, <1>6 DEF IInv, Grounded, control, life
  <1> QED BY <1>10, <1>11, <1>12, <1>13, <1>14 DEF IInv

LEMMA TakeKeeps ==
    ASSUME IInv, NEW w \in Workers, Take(w)
    PROVE  IInv'
  <1> DEFINE u == << Own("start") >>
  <1>1. PICK j \in pending :
          /\ pending' = pending \ {j} /\ order' = order \ Touching({j})
          /\ running' = running \cup {j} /\ ctx' = [ctx EXCEPT ![j] = "live"]
          /\ held' = [held EXCEPT ![w] = j] /\ Begin(w, u)
    BY DEF Take
  <1>2. /\ Idle(w) /\ IsUp /\ w \in Threads
        /\ UNCHANGED <<finished, index, asleep, exited, control, jobs, rowWrite, store, life>>
    BY DEF Take, Threads
  <1>3. /\ TypeOK /\ held \in [Workers -> Ids \cup {0}] /\ pending \subseteq Ids /\ order \subseteq Ids \X Ids
        /\ ctx \in [Ids -> {"none", "live", "operator", "shutdown"}] /\ running \subseteq Ids
    BY DEF IInv, TypeOK
  <1>4. /\ u \in Seq(Step) /\ AtMostOnce(u, Mine) /\ Elems(u) \cap Mine # {}
        /\ \A x \in Elems(u) : Sound(x) /\ x.do # "finish"
    BY OwnIsAStep
  <1> HIDE DEF u
  <1>5. j \in Ids /\ j # 0 /\ j \in index /\ j \notin running /\ j \notin finished
    BY <1>3 DEF IInv, OnePlace, Ids
  <1>6. held[w] = 0
    <2>1. Elems(todo[w]) = {}
      BY <1>2, EmptyElems DEF Idle
    <2> QED BY <2>1 DEF IInv, Steps
  <1>7. /\ held' \in [Workers -> Ids \cup {0}] /\ held'[w] = j
        /\ \A v \in Workers \ {w} : held'[v] = held[v] /\ held[v] # j
    BY <1>1, <1>3, <1>5 DEF IInv, OneWorkerPerJob
  <1>8. todo' \in [Threads -> Seq(Step)] /\ UnlockAhead' /\ Steps' /\ FinishesSettled'
    <2>1. Becomes(w, u) /\ nextID' = nextID /\ index' \subseteq index /\ rowWrite' = rowWrite
      BY <1>1, <1>2 DEF Becomes, control
    <2>2. \A x \in Elems(u) : Sound(x)' /\ (x.do = "finish" => IsSettled(held[w])')
      BY <1>2, <1>4 DEF Sound, control
    <2>3. \A v \in Workers \ {w} : held[v] # 0 /\ IsSettled(held[v]) => jobs'[held[v]].status \in Settled
      BY <1>2 DEF IsSettled
    <2> QED BY <1>2, <1>4, <1>5, <1>7, <2>1, <2>2, <2>3, OwnStep
  <1>9. TypeOK'
    <2>1. ctx' \in [Ids -> {"none", "live", "operator", "shutdown"}]
      BY <1>1, <1>3
    <2>2. pending' \subseteq Ids /\ order' \subseteq Ids \X Ids /\ running' \subseteq Ids
      BY <1>1, <1>3, <1>5
    <2> QED BY <1>2, <1>3, <1>7, <1>8, <2>1, <2>2 DEF TypeOK, control, store, life
  <1>10. OnePlace'
    BY <1>1, <1>2, <1>5 DEF IInv, OnePlace, IsSettled
  <1>11. OneWorkerPerJob'
    BY <1>1, <1>3, <1>5, <1>6, <1>7 DEF IInv, OneWorkerPerJob
  <1>12. Grounded'
    BY <1>2 DEF IInv, Grounded, IsUp, control, life
  <1> QED BY <1>8, <1>9, <1>10, <1>11, <1>12 DEF IInv

LEMMA WorkerStepKeeps ==
    ASSUME IInv, NEW w \in Workers, WorkerStep(w)
    PROVE  IInv'
  <1>1. CASE Sleep(w) \/ Leave(w)
    <2>1. /\ UNCHANGED <<lists, running, ctx, held, control, jobs, todo, rowWrite, store, life>>
          /\ asleep' \subseteq asleep \cup {w} /\ exited' \subseteq exited \cup {w}
      BY <1>1 DEF Sleep, Leave
    <2>2. TypeOK'
      BY <2>1 DEF IInv, TypeOK, UnlockAhead, lists, control, store, life
    <2>3. OnePlace' /\ OneWorkerPerJob'
      BY <2>1 DEF IInv, OnePlace, OneWorkerPerJob, IsSettled, lists
    <2>4. Steps' /\ FinishesSettled' /\ Grounded'
      BY <2>1 DEF IInv, Steps, FinishesSettled, Grounded, Sound, IsSettled, lists, control, life
    <2> QED BY <2>2, <2>3, <2>4 DEF IInv
  <1> QED
    BY <1>1, TakeKeeps, StartKeeps, ProcessKeeps, ReturnKeeps, FinishKeeps DEF WorkerStep

-----------------------------------------------------------------------------
(* The process *)

LEMMA LastIssuedIsLast ==
    ASSUME TypeOK, NEW loaded \in SUBSET Ids
    PROVE  /\ LastIssued(loaded) \in 0 .. MaxJobs
           /\ \A j \in loaded : j <= LastIssued(loaded)
  <1> DEFINE S == loaded \cup {highWater}
  <1>1. S \in SUBSET (0 .. MaxJobs) /\ S # {} /\ MaxJobs \in Nat
    BY BoundsAssumption DEF TypeOK, Ids
  <1>2. \E n \in S : \A m \in S : m <= n
    BY <1>1, Greatest
  <1>3. LastIssued(loaded) \in S /\ \A m \in S : m <= LastIssued(loaded)
    BY <1>2 DEF LastIssued
  <1> QED BY <1>1, <1>3

LEMMA BootStepsQuiet ==
    ASSUME NEW gone \in SUBSET Ids, NEW crashed \in SUBSET Ids
    PROVE  /\ BootSteps(gone, crashed) \in Seq(Step)
           /\ \A x \in Elems(BootSteps(gone, crashed)) : x \notin Mine /\ x.do \in {"delete", "saveEach"}
  <1> DEFINE a == ForEach("delete", gone)
             b == ForEach("saveEach", crashed)
  <1>1. /\ a \in Seq(Step) /\ b \in Seq(Step)
        /\ \A x \in Elems(a) \cup Elems(b) : x \notin Mine /\ x.do \in {"delete", "saveEach"}
    BY ForEachSteps
  <1> HIDE DEF a, b
  <1>2. a \o b \in Seq(Step) /\ Elems(a \o b) = Elems(a) \cup Elems(b)
    BY <1>1, ElemsOfConcat
  <1>3. \A x \in Elems(a \o b) : x \notin Mine /\ x.do \in {"delete", "saveEach"}
    BY <1>1, <1>2
  <1> QED BY <1>2, <1>3 DEF BootSteps, a, b

\* The places of the jobs that UseStore brings back.
LEMMA BootKeeps ==
    ASSUME IInv, Boot
    PROVE  IInv'
  <1> DEFINE loaded == {j \in Ids : rows[j].status # "none"}
             queued == {j \in loaded : rows[j].status = "queued"}
             crashed == {j \in loaded : rows[j].status = "running"}
             kept   == loaded \ queued
             byId   == {p \in kept \X kept : p[1] < p[2]}
             gone   == Evicted(kept, byId)
             u      == BootSteps(gone, crashed)
             status(j) == IF j \in crashed THEN "interrupted" ELSE rows[j].status
             job(j) == [NoJob EXCEPT
                        !.status = IF j \in crashed THEN "interrupted" ELSE rows[j].status,
                        !.shut = IF j \in queued THEN {} ELSE {1},
                        !.seq = rows[j].seq, !.lane = rows[j].lane, !.filed = rows[j].filed]
  <1>1. /\ phase = "down" /\ phase' = "boot" /\ boots' = boots + 1 /\ boots < MaxBoots
        /\ jobs' = [j \in Ids |-> IF j \notin loaded THEN NoJob ELSE job(j)]
        /\ pending' = queued /\ finished' = kept \ gone /\ index' = loaded \ gone
        /\ nextID' = LastIssued(loaded) /\ Begin(Main, u)
        /\ UNCHANGED <<running, ctx, held, asleep, exited, closed, paused, rowWrite, rows, highWater, told>>
    BY DEF Boot, crew, store
  <1>2. order' \in SUBSET (Ids \X Ids)
    BY DEF Boot
  <1>3. /\ TypeOK /\ Main \in Threads /\ pending = {} /\ running = {} /\ finished = {} /\ nextID = 0
        /\ rowWrite = Free /\ Idle(Main) /\ \A t \in Threads : todo[t] = << >>
    BY <1>1 DEF IInv, Grounded, Threads, Idle
  <1>4. \A w \in Workers : held[w] = 0
    BY <1>3, EmptyElems DEF IInv, Steps, Threads
  <1>5. rows \in [Ids -> RowType]
    BY <1>3 DEF TypeOK
  <1>6. /\ loaded \in SUBSET Ids /\ queued \in SUBSET loaded /\ crashed \in SUBSET Ids
        /\ kept = loaded \ queued /\ gone \in SUBSET kept
    BY DEF Evicted
  <1>7. \A j \in loaded : job(j) \in JobType /\ job(j).status = status(j)
    <2> SUFFICES ASSUME NEW j \in loaded PROVE job(j) \in JobType /\ job(j).status = status(j)
      OBVIOUS
    <2>1. rows[j] \in RowType
      BY <1>5
    <2>2. NoJob \in JobType
      BY BoundsAssumption DEF NoJob, JobType, Statuses
    <2>3. {} \in SUBSET (1 .. MaxRuns) /\ {1} \in SUBSET (1 .. MaxRuns)
      BY BoundsAssumption
    <2>4. status(j) \in Statuses
      BY <2>1 DEF RowType, Statuses, Settled
    <2> QED BY <2>1, <2>2, <2>3, <2>4 DEF JobType, RowType
  <1>8. /\ \A j \in queued : status(j) = "queued"
        /\ \A j \in kept : status(j) \in Settled
    <2>1. \A j \in loaded : rows[j].status \in Statuses \ {"none"}
      BY <1>5 DEF RowType
    <2> QED BY <2>1 DEF Statuses, Settled
  <1> HIDE DEF gone, job, status
  <1>9. NoJob \in JobType
    BY BoundsAssumption DEF NoJob, JobType, Statuses
  <1>10. /\ jobs' \in [Ids -> JobType]
         /\ \A j \in loaded : jobs'[j].status = status(j)
    BY <1>1, <1>7, <1>9
  <1>11. /\ u \in Seq(Step)
         /\ \A x \in Elems(u) : x \notin Mine /\ x.do \in {"delete", "saveEach"}
    BY <1>6, BootStepsQuiet
  <1>12. /\ nextID' \in 0 .. MaxJobs /\ \A j \in loaded : j <= nextID'
    BY <1>1, <1>3, <1>6, LastIssuedIsLast
  <1> HIDE DEF u, loaded, queued, crashed, kept
  <1>13. todo' \in [Threads -> Seq(Step)] /\ UnlockAhead' /\ Steps' /\ FinishesSettled'
    <2>1. Becomes(Main, u) /\ held' = held /\ nextID' >= nextID /\ nextID' \in Nat
      BY <1>1, <1>3, <1>12, BoundsAssumption DEF Becomes
    <2>2. \A j \in 1 .. nextID : j \in index' => j \in index
      BY <1>3
    <2>3. \A x \in Elems(u) : x \notin Mine /\ Sound(x)'
      BY <1>11 DEF Sound, OfJob
    <2> QED BY <1>1, <1>3, <1>4, <1>11, <2>1, <2>2, <2>3, QuietStep
  <1>14. index' \subseteq Ids /\ pending' \subseteq Ids /\ finished' \subseteq Ids
    BY <1>1, <1>6
  <1>15. TypeOK'
    <2>1. boots' \in 0 .. MaxBoots
      BY <1>1, <1>3, BoundsAssumption DEF TypeOK
    <2> QED BY <1>1, <1>2, <1>3, <1>10, <1>12, <1>13, <1>14, <2>1 DEF TypeOK
  <1>16. OnePlace'
    BY <1>1, <1>3, <1>6, <1>8, <1>10 DEF OnePlace, IsSettled
  <1>17. OneWorkerPerJob'
    BY <1>1 DEF IInv, OneWorkerPerJob
  <1>18. Grounded'
    <2>1. \A j \in index' : j \in 1 .. nextID'
      BY <1>1, <1>6, <1>12 DEF Ids
    <2> QED BY <1>1, <2>1 DEF Grounded
  <1> QED BY <1>13, <1>15, <1>16, <1>17, <1>18 DEF IInv

LEMMA StopKeeps ==
    ASSUME IInv, Stop
    PROVE  IInv'
  <1>1. /\ Main \in Threads /\ Idle(Main) /\ IsUp /\ DropPending(Main) /\ asleep' = {}
        /\ closed' = TRUE /\ phase' = "stopping"
        /\ UNCHANGED <<running, ctx, held, exited, nextID, paused, rowWrite, store, boots, told>>
    BY DEF Stop, IsUp, Broadcast, Threads
  <1>2. closed' \in BOOLEAN
    BY <1>1, Zenon
  <1> QED BY <1>1, <1>2, DropPendingKeeps

LEMMA ServeKeeps ==
    ASSUME IInv, Serve \/ Close
    PROVE  IInv'
  <1>1. /\ UNCHANGED <<lists, running, held, asleep, exited, control, jobs, todo, rowWrite, store, boots, told>>
        /\ phase # "down" /\ phase' \in {"up", "closing"}
    BY DEF Serve, Close, crew
  <1>2. ctx' \in [Ids -> {"none", "live", "operator", "shutdown"}]
    <2>1. ctx \in [Ids -> {"none", "live", "operator", "shutdown"}]
      BY DEF IInv, TypeOK
    <2>2. CASE Serve
      BY <2>1, <2>2 DEF Serve, crew
    <2>3. CASE Close
      <3>1. \A j \in Ids : (IF j \in running THEN CutBy(j, "shutdown") ELSE ctx[j])
                              \in {"none", "live", "operator", "shutdown"}
        BY <2>1 DEF CutBy
      <3> QED BY <2>3, <3>1 DEF Close
    <2> QED BY <2>2, <2>3
  <1>3. TypeOK'
    BY <1>1, <1>2 DEF IInv, TypeOK, UnlockAhead, lists, control, store
  <1>4. OnePlace' /\ OneWorkerPerJob' /\ Grounded'
    BY <1>1 DEF IInv, OnePlace, OneWorkerPerJob, Grounded, IsSettled, lists, control
  <1>5. Steps' /\ FinishesSettled'
    BY <1>1 DEF IInv, Steps, FinishesSettled, Sound, IsSettled, lists, control
  <1> QED BY <1>3, <1>4, <1>5 DEF IInv

\* A process that is down has an empty queue and the store it left.
LEMMA DownIsGood ==
    ASSUME pending = {}, finished = {}, order = {}, index = {}, running = {},
           ctx = [j \in Ids |-> "none"], held = [w \in Workers |-> 0], asleep = {}, exited = {},
           nextID = 0, closed = FALSE, paused = FALSE, jobs = [j \in Ids |-> NoJob],
           todo = [t \in Threads |-> << >>], rowWrite = Free, phase = "down",
           rows \in [Ids -> RowType], highWater \in 0 .. MaxJobs, boots \in 0 .. MaxBoots, told \subseteq Ids
    PROVE  IInv
  <1>1. NoJob \in JobType
    BY BoundsAssumption DEF NoJob, JobType, Statuses
  <1>2. closed \in BOOLEAN /\ paused \in BOOLEAN
    BY Zenon
  <1>3. todo \in [Threads -> Seq(Step)] /\ \A t \in Threads : todo[t] = << >> /\ Elems(todo[t]) = {}
    <2>1. \A t \in Threads : todo[t] = << >>
      OBVIOUS
    <2> QED BY <2>1, EmptyElems, EmptySeq
  <1>4. TypeOK
    BY <1>1, <1>2, <1>3, BoundsAssumption DEF TypeOK, UnlockAhead
  <1>5. OnePlace
    BY DEF OnePlace
  <1>6. OneWorkerPerJob
    BY DEF OneWorkerPerJob
  <1>7. Steps /\ FinishesSettled
    BY <1>3, EmptyElems DEF Steps, FinishesSettled, Threads
  <1>8. Grounded
    BY <1>3 DEF Grounded
  <1> QED BY <1>4, <1>5, <1>6, <1>7, <1>8 DEF IInv

LEMMA Initially == Init => IInv
  <1> SUFFICES ASSUME Init PROVE IInv
    OBVIOUS
  <1>1. NoRow \in RowType
    BY DEF NoRow, RowType, Statuses
  <1>2. rows \in [Ids -> RowType] /\ highWater \in 0 .. MaxJobs /\ boots \in 0 .. MaxBoots /\ told \subseteq Ids
    BY <1>1, BoundsAssumption DEF Init
  <1> QED BY <1>2, DownIsGood DEF Init

LEMMA VanishKeeps ==
    ASSUME IInv, Vanish
    PROVE  IInv'
  <1>1. rows' \in [Ids -> RowType] /\ highWater' \in 0 .. MaxJobs /\ boots' \in 0 .. MaxBoots /\ told' \subseteq Ids
    BY DEF Vanish, IInv, TypeOK, store
  <1>2. NoJob \in JobType
    BY BoundsAssumption DEF NoJob, JobType, Statuses
  <1>3. closed' \in BOOLEAN /\ paused' \in BOOLEAN
    BY Zenon DEF Vanish
  <1>4. todo' \in [Threads -> Seq(Step)] /\ \A t \in Threads : todo'[t] = << >> /\ Elems(todo'[t]) = {}
    <2>1. todo' = [t \in Threads |-> << >>]
      BY DEF Vanish
    <2> QED BY <2>1, EmptyElems, EmptySeq
  <1>5. TypeOK'
    BY <1>1, <1>2, <1>3, <1>4, BoundsAssumption DEF TypeOK, UnlockAhead, Vanish
  <1>6. OnePlace' /\ OneWorkerPerJob'
    <2>1. OnePlace'
      BY DEF OnePlace, Vanish
    <2> QED BY <2>1 DEF OneWorkerPerJob, Vanish
  <1>7. Steps' /\ FinishesSettled'
    BY <1>4, EmptyElems DEF Steps, FinishesSettled, Threads, Vanish
  <1>8. Grounded'
    BY <1>4 DEF Grounded, Vanish
  <1> QED BY <1>5, <1>6, <1>7, <1>8 DEF IInv

-----------------------------------------------------------------------------
(* The theorems *)

LEMMA StepKeeps == IInv /\ [Next]_vars => IInv'
  <1> SUFFICES ASSUME IInv, [Next]_vars PROVE IInv'
    OBVIOUS
  <1>1. CASE \E w \in Workers : WorkerStep(w)
    BY <1>1, WorkerStepKeeps
  <1>2. CASE \E c \in Callers : CallerStep(c)
    BY <1>2, CallerStepKeeps
  <1>3. CASE \E c \in Callers : Expire(c)
    BY <1>3, DoneStepsKeep DEF Threads
  <1>4. CASE \E t \in Threads : Pursue(t)
    BY <1>4, PursueKeeps
  <1>5. CASE Boot \/ SaveEach \/ Serve \/ Stop \/ Close
    BY <1>5, BootKeeps, SaveEachKeeps, ServeKeeps, StopKeeps
  <1>6. CASE Exit \/ Crash
    BY <1>6, VanishKeeps DEF Exit, Crash
  <1>7. CASE UNCHANGED vars
    <2> USE <1>7 DEF vars, lists, crew, control, store, life
    <2>1. TypeOK'
      BY DEF IInv, TypeOK, UnlockAhead
    <2>2. OnePlace' /\ OneWorkerPerJob' /\ Grounded'
      BY DEF IInv, OnePlace, OneWorkerPerJob, Grounded, IsSettled
    <2>3. Steps' /\ FinishesSettled'
      BY DEF IInv, Steps, FinishesSettled, Sound, IsSettled
    <2> QED BY <2>1, <2>2, <2>3 DEF IInv
  <1> QED
    BY <1>1, <1>2, <1>3, <1>4, <1>5, <1>6, <1>7 DEF Next

LEMMA Inductive == Spec => []IInv
  <1> QED BY Initially, StepKeeps, PTL DEF Spec

\* Every variable keeps its type: ids stay below the bound across restarts, and
\* whoever holds rowWrite (persistKept, queue.go) still has its unlock to do.
THEOREM TypesAreKept == Spec => []TypeOK
  <1>1. IInv => TypeOK
    BY DEF IInv
  <1> QED BY <1>1, Inductive, PTL

\* However retries, cancels, clears, evictions, shutdowns and restarts
\* interleave, a job of the index is in exactly one of the FIFO, the running set
\* and the ring, queued in the first and settled in the last (queue.go).
THEOREM JobsHaveOnePlace == Spec => []OnePlace
  <1>1. IInv => OnePlace
    BY DEF IInv
  <1> QED BY <1>1, Inductive, PTL

\* No job is ever on two workers, and the running set is what the workers hold,
\* retries of a job its processor has already settled included (Retry, nextJob
\* and finish).
THEOREM JobsHaveOneWorker == Spec => []OneWorkerPerJob
  <1>1. IInv => OneWorkerPerJob
    BY DEF IInv
  <1> QED BY <1>1, Inductive, PTL

-----------------------------------------------------------------------------
(* The status of a job *)

\* A job has a status once its id is issued.
Issued == \A j \in Ids : jobs[j].status # "none" => j <= nextID

\* How one step may change the status of a job: not at all, from one that is not
\* settled, or by a reset.
Moves(j) ==
    \/ jobs'[j].status = jobs[j].status
    \/ ~IsSettled(j) /\ j <= nextID'
    \/ jobs'[j].status = "queued" /\ jobs'[j].run = jobs[j].run + 1 /\ j <= nextID'

LEMMA SettleMoves ==
    ASSUME TypeOK, NEW j \in Ids, j <= nextID, NEW s \in Statuses, jobs' = [jobs EXCEPT ![j] = settle(j, s)],
           nextID' = nextID
    PROVE  \A k \in Ids : Moves(k)
  BY DEF Moves, settle, TypeOK, JobType

LEMMA HeldIsIssued ==
    ASSUME IInv, NEW w \in Workers, held[w] # 0
    PROVE  held[w] \in Ids /\ held[w] \in running /\ held[w] <= nextID
  BY DEF IInv, TypeOK, OnePlace, OneWorkerPerJob, Grounded, Ids

\* A worker with a step of runJob holds a job.
LEMMA RunsHeld ==
    ASSUME IInv, NEW w \in Workers, NEW what \in {"start", "process", "settle", "finish"}, At(w, what)
    PROVE  held[w] # 0
  <1>1. Arg(w) \in Step /\ Arg(w).do = what /\ Arg(w) \in Elems(todo[w])
    BY ElemsOfHeadTail DEF IInv, TypeOK, At, Arg, Idle, Threads
  <1>2. Arg(w) \in Mine
    BY <1>1 DEF Mine
  <1> QED BY <1>1, <1>2 DEF IInv, Steps

LEMMA WorkerMoves ==
    ASSUME IInv, NEW w \in Workers, WorkerStep(w)
    PROVE  nextID' = nextID /\ \A k \in Ids : Moves(k)
  <1> USE DEF control
  <1>1. CASE Sleep(w) \/ Take(w) \/ Leave(w) \/ Finish(w)
    BY <1>1 DEF Sleep, Take, Leave, Finish, Moves
  <1>2. CASE Process(w)
    BY <1>2 DEF Process, Moves, IInv, TypeOK, JobType
  <1>3. ASSUME Start(w) \/ Abort(w) \/ Return(w) \/ Settle(w)
        PROVE  nextID' = nextID /\ \A k \in Ids : Moves(k)
    <2>1. held[w] \in Ids /\ held[w] <= nextID /\ nextID' = nextID
      BY <1>3, RunsHeld, HeldIsIssued DEF Start, Abort, Return, Settle
    <2>2. TypeOK /\ {"canceled", "failed", "interrupted"} \cup Outcomes \subseteq Statuses
      BY BoundsAssumption DEF IInv, Statuses, Settled
    <2>3. \/ \E s \in {"canceled", "failed", "interrupted"} \cup Outcomes : jobs' = [jobs EXCEPT ![held[w]] = settle(held[w], s)]
          \/ jobs' = jobs
          \/ jobs' = [jobs EXCEPT ![held[w]].status = "running"] /\ jobs[held[w]].status = "queued"
      BY <1>3 DEF Start, Abort, Return, Settle
    <2>4. CASE jobs' = [jobs EXCEPT ![held[w]].status = "running"] /\ jobs[held[w]].status = "queued"
      BY <2>1, <2>4 DEF Moves, IsSettled, Settled, IInv, TypeOK
    <2> QED BY <2>1, <2>2, <2>3, <2>4, SettleMoves DEF Moves
  <1> QED BY <1>1, <1>2, <1>3 DEF WorkerStep

LEMMA PursueMoves ==
    ASSUME IInv, NEW t \in Threads, Pursue(t) \/ Expire(t)
    PROVE  nextID' = nextID /\ \A k \in Ids : Moves(k)
  <1> USE DEF control
  <1>1. CASE \/ Write(t) \/ High(t) \/ Keep(t) \/ Unlock(t) \/ Delete(t) \/ Release(t) \/ Report(t)
             \/ Answer(t) \/ Wait(t) \/ Awake(t) \/ Expire(t) \/ Cancel(t)
    BY <1>1 DEF Write, High, Keep, Unlock, Delete, Release, Report, Answer, Wait, Awake, Expire, Cancel, Moves
  <1>2. CASE Save(t) \/ Signal(t)
    <2>1. ~Idle(t) /\ Arg(t).do \in OfJob
      BY <1>2 DEF Save, Signal, At, Arg, OfJob
    <2>2. Arg(t).job \in Ids /\ jobs \in [Ids -> JobType]
      BY <2>1, Pursuing DEF Sound, IInv, TypeOK
    <2>3. \E j \in Ids : \/ jobs' = [jobs EXCEPT ![j].seq = jobs[j].seq + 1]
                           \/ jobs' = [jobs EXCEPT ![j] = [jobs[j] EXCEPT !.shut = jobs[j].shut \cup {jobs[j].run}]]
      BY <1>2, <2>2 DEF Save, Signal, signalDone
    <2>4. \A k \in Ids : jobs'[k].status = jobs[k].status
      BY <2>2, <2>3 DEF JobType
    <2>5. nextID' = nextID
      BY <1>2 DEF Save, Signal
    <2> QED BY <2>4, <2>5 DEF Moves
  <1>3. CASE Drop(t)
    <2>1. ~Idle(t) /\ Arg(t).do = "drop"
      BY <1>3 DEF Drop, At, Arg
    <2>2. Arg(t).job \in Ids /\ Arg(t).job <= nextID
      BY <2>1, Pursuing DEF Sound, OfJob
    <2> QED BY <1>3, <2>2 DEF Drop, Moves, settle, IInv, TypeOK, JobType
  <1>4. CASE CancelKeepingRow(t)
    <2>1. \/ jobs' = jobs
          \/ Arg(t).job \in index /\ jobs' = [jobs EXCEPT ![Arg(t).job] = settle(Arg(t).job, "canceled")]
      BY <1>4 DEF CancelKeepingRow
    <2>2. index \subseteq Ids /\ (\A j \in index : j <= nextID) /\ nextID' = nextID /\ "canceled" \in Statuses /\ TypeOK
      BY <1>4 DEF IInv, TypeOK, Grounded, CancelKeepingRow, Statuses, Settled
    <2> QED BY <2>1, <2>2, SettleMoves DEF Moves
  <1> QED BY <1>1, <1>2, <1>3, <1>4 DEF Pursue

LEMMA CallerMoves ==
    ASSUME IInv, Issued, NEW c \in Callers, CallerStep(c)
    PROVE  nextID' >= nextID /\ \A k \in Ids : Moves(k)
  <1> USE DEF control
  <1>1. nextID \in Nat /\ (\A j \in index : j <= nextID) /\ \A j \in Ids : j > nextID => jobs[j].status = "none"
    BY DEF IInv, TypeOK, Grounded, Issued, Ids
  <1>2. CASE \E lane \in Lanes, wait \in BOOLEAN : Enqueue(c, lane, wait)
    <2>1. nextID' = NewId /\ NewId \in Ids /\ \A k \in Ids : k # NewId => jobs'[k] = jobs[k]
      BY <1>2 DEF Enqueue, IInv, TypeOK
    <2>2. ~IsSettled(NewId) /\ NewId <= nextID'
      BY <1>1, <2>1 DEF NewId, IsSettled, Settled, Ids
    <2> QED BY <1>1, <2>1, <2>2 DEF Moves, NewId
  <1>3. CASE RecordLookup(c)
    <2>1. CASE UNCHANGED <<lists, control, jobs>>
      BY <1>1, <2>1 DEF Moves
    <2>2. CASE nextID' = NewId /\ NewId \in Ids /\ \A k \in Ids : k # NewId => jobs'[k] = jobs[k]
      <3>1. ~IsSettled(NewId) /\ NewId <= nextID'
        BY <1>1, <2>2 DEF NewId, IsSettled, Settled, Ids
      <3> QED BY <1>1, <2>2, <3>1 DEF Moves, NewId
    <2> QED BY <1>3, <2>1, <2>2 DEF RecordLookup, IInv, TypeOK
  <1>4. ASSUME NEW j \in Ids, Retry(c, j) PROVE nextID' >= nextID /\ \A k \in Ids : Moves(k)
    <2>1. jobs' = [jobs EXCEPT ![j] = reset(j)] /\ j \in index /\ nextID' = nextID
      BY <1>4 DEF Retry, MayRetry
    <2> QED BY <1>1, <2>1 DEF Moves, reset, IInv, TypeOK, JobType
  <1>5. CASE CancelPending(c)
    <2>1. nextID' = nextID /\ jobs' = [j \in Ids |-> IF j \in pending THEN settle(j, "canceled") ELSE jobs[j]]
      BY <1>5 DEF CancelPending, DropPending
    <2>2. \A j \in pending : j <= nextID
      BY <1>1 DEF IInv, OnePlace
    <2> QED BY <1>1, <2>1, <2>2 DEF Moves, settle
  <1>6. CASE \/ \E j \in Ids : CancelLive(c, j) \/ CancelSeries(c, j)
             \/ Clear(c) \/ ClearSucceeded(c) \/ Sweep(c) \/ Pause(c) \/ Resume(c)
    <2>1. nextID' = nextID /\ jobs' = jobs
      BY <1>6 DEF CancelLive, CancelSeries, Clear, ClearSucceeded, Sweep, DropFinished, Pause, Resume
    <2> QED BY <1>1, <2>1 DEF Moves
  <1> QED BY <1>2, <1>3, <1>4, <1>5, <1>6 DEF CallerStep

LEMMA ProcessMoves ==
    ASSUME IInv, Issued, Boot \/ SaveEach \/ Serve \/ Stop \/ Close
    PROVE  nextID' >= nextID /\ \A k \in Ids : Moves(k)
  <1> USE DEF control
  <1>1. nextID \in Nat /\ (\A j \in index : j <= nextID) /\ \A j \in Ids : j > nextID => jobs[j].status = "none"
    BY DEF IInv, TypeOK, Grounded, Issued, Ids
  <1>2. CASE SaveEach \/ Serve \/ Close
    BY <1>1, <1>2 DEF SaveEach, Serve, Close, Moves
  <1>3. CASE Stop
    <2>1. nextID' = nextID /\ jobs' = [j \in Ids |-> IF j \in pending THEN settle(j, "canceled") ELSE jobs[j]]
      BY <1>3 DEF Stop, DropPending
    <2>2. \A j \in pending : j <= nextID
      BY <1>1 DEF IInv, OnePlace
    <2> QED BY <1>1, <2>1, <2>2 DEF Moves, settle
  <1>4. CASE Boot
    <2> DEFINE loaded == {j \in Ids : rows[j].status # "none"}
    <2>1. nextID = 0 /\ nextID' = LastIssued(loaded) /\ \A j \in Ids : j \notin loaded => jobs'[j] = NoJob
      BY <1>4 DEF Boot, IInv, Grounded
    <2>2. nextID' \in Nat /\ \A j \in loaded : j <= nextID'
      <3>1. loaded \in SUBSET Ids /\ TypeOK
        BY DEF IInv
      <3> HIDE DEF loaded
      <3> QED BY <2>1, <3>1, LastIssuedIsLast, BoundsAssumption
    <2>3. \A j \in Ids : jobs[j].status = "none"
      BY <1>1, <2>1 DEF Ids
    <2> HIDE DEF loaded
    <2> QED BY <2>1, <2>2, <2>3 DEF Moves, IsSettled, Settled, NoJob
  <1> QED BY <1>2, <1>3, <1>4

LEMMA NextMoves ==
    ASSUME IInv, Issued, [Next]_vars
    PROVE  Exit \/ Crash \/ (nextID' >= nextID /\ \A k \in Ids : Moves(k))
  <1>1. nextID \in Nat /\ Callers \subseteq Threads
    BY DEF IInv, TypeOK, Threads
  <1>2. CASE UNCHANGED vars
    BY <1>1, <1>2 DEF vars, control, Moves
  <1>3. ASSUME NEW c \in Callers, Expire(c) PROVE nextID' >= nextID /\ \A k \in Ids : Moves(k)
    BY <1>1, <1>3, PursueMoves
  <1>4. ASSUME NEW t \in Threads, Pursue(t) PROVE nextID' >= nextID /\ \A k \in Ids : Moves(k)
    BY <1>1, <1>4, PursueMoves
  <1>5. ASSUME NEW w \in Workers, WorkerStep(w) PROVE nextID' >= nextID /\ \A k \in Ids : Moves(k)
    BY <1>1, <1>5, WorkerMoves
  <1>6. CASE Boot \/ SaveEach \/ Serve \/ Stop \/ Close
    BY <1>6, ProcessMoves
  <1> QED BY <1>2, <1>3, <1>4, <1>5, <1>6, CallerMoves DEF Next

LEMMA InitiallyIssued == Init => Issued
  BY DEF Init, Issued, NoJob

LEMMA IssuedKept == IInv /\ Issued /\ [Next]_vars => Issued'
  <1> SUFFICES ASSUME IInv, Issued, [Next]_vars PROVE Issued'
    OBVIOUS
  <1>1. CASE Exit \/ Crash
    BY <1>1 DEF Exit, Crash, Vanish, Issued, NoJob
  <1>2. CASE nextID' >= nextID /\ \A k \in Ids : Moves(k)
    <2>1. IInv'
      BY StepKeeps
    <2>2. nextID \in Nat /\ nextID' \in Nat
      BY <2>1 DEF IInv, TypeOK
    <2>3. ASSUME NEW j \in Ids, jobs'[j].status # "none" PROVE j <= nextID'
      BY <1>2, <2>2, <2>3 DEF Issued, Moves, Ids
    <2> QED BY <2>3 DEF Issued
  <1> QED BY <1>1, <1>2, NextMoves

LEMMA IssuedHolds == Spec => [](IInv /\ Issued)
  BY Initially, StepKeeps, InitiallyIssued, IssuedKept, PTL DEF Spec

\* A run settles once (settle and reset in job.go): a status that is settled
\* changes by a retry, which starts a new run, and by nothing else the process
\* does, whichever of a cancel, the processor and the worker comes second.
THEOREM RunsSettleOnce == Spec => SettledOnce
  <1>1. ASSUME IInv, Issued, [Next]_vars
        PROVE  [\A j \in Ids : jobs[j].status \in Settled /\ jobs'[j].status # jobs[j].status
                  => \/ jobs'[j].status = "queued" /\ jobs'[j].run = jobs[j].run + 1
                     \/ phase' = "down"]_vars
    <2>1. CASE Exit \/ Crash
      BY <2>1 DEF Exit, Crash, Vanish
    <2>2. CASE \A k \in Ids : Moves(k)
      BY <2>2 DEF Moves, IsSettled
    <2> QED BY <1>1, <2>1, <2>2, NextMoves
  <1> QED BY <1>1, IssuedHolds, PTL DEF Spec, SettledOnce

-----------------------------------------------------------------------------
(* The life cycle *)

\* What JobLifecycle sees of the queue.
States == [j \in Ids |-> StateOf(j)]

\* The three places are disjoint and hold issued ids.
LEMMA PlacesAreApart ==
    ASSUME IInv
    PROVE  /\ nextID \in Nat /\ index \subseteq Ids
           /\ pending \subseteq Ids /\ running \subseteq Ids /\ finished \subseteq Ids
           /\ \A j \in pending \cup running \cup finished : j <= nextID /\ j \in index
           /\ pending \cap running = {} /\ pending \cap finished = {} /\ running \cap finished = {}
           /\ \A j \in Ids : ~IsSettled(j) => j \notin finished
           /\ \A j \in Ids : IsSettled(j) => j \notin pending
  BY DEF IInv, TypeOK, OnePlace, Grounded, Ids, IsSettled, Settled

\* A new job is at the back of the ring: it is not the one evicted.
LEMMA NewestStays ==
    ASSUME NEW j, j \notin finished
    PROVE  j \notin EvictedBy({j})
  <1>1. {m \in finished \cup {j} : <<j, m>> \in AfterPushFinished({j})} = {}
    BY DEF AfterPushFinished, Touching
  <1>2. ~(0 >= MaxFinished)
    BY BoundsAssumption
  <1> QED BY <1>1, <1>2, FS_EmptySet DEF EvictedBy, Evicted

LEMMA Unmoved ==
    ASSUME UNCHANGED <<pending, running, finished, nextID>>
    PROVE  UNCHANGED States
  BY DEF States, StateOf

LEMMA EnqueueSubmits ==
    ASSUME IInv, NEW c \in Callers, NEW lane \in Lanes, NEW wait \in BOOLEAN, Enqueue(c, lane, wait)
    PROVE  Lifecycle!Next
  <1>1. /\ pending' = pending \cup {NewId} /\ nextID' = NewId /\ NewId \in Ids
        /\ finished' = finished /\ running' = running
    BY DEF Enqueue
  <1>2. NewId = nextID + 1 /\ nextID \in Nat
    BY PlacesAreApart DEF NewId
  <1>3. \A j \in Ids : StateOf(j)' = IF j \in {NewId} THEN "waiting" ELSE StateOf(j)
    BY <1>1, <1>2 DEF StateOf, Ids
  <1>4. StateOf(NewId) = "unissued" /\ \A k \in Ids : k < NewId => StateOf(k) # "unissued"
    BY <1>2, PlacesAreApart DEF StateOf, Ids
  <1>5. Lifecycle!Submit(NewId)
    BY <1>1, <1>3, <1>4 DEF Lifecycle!Submit, Lifecycle!Becomes
  <1> QED BY <1>1, <1>5 DEF Lifecycle!Next

LEMMA RecordFiles ==
    ASSUME IInv, NEW c \in Callers, RecordLookup(c)
    PROVE  Lifecycle!Next \/ UNCHANGED States
  <1>1. CASE UNCHANGED <<lists, control>>
    BY <1>1, Unmoved DEF RecordLookup, lists, control, crew
  <1>2. CASE /\ NewId \in Ids /\ nextID' = NewId /\ PushFinished({NewId}, index \cup {NewId})
             /\ pending' = pending
    <2>1. PICK n \in Ids : n = NewId
      BY <1>2
    <2>2. n = nextID + 1 /\ nextID \in Nat /\ n \notin finished /\ n \notin pending /\ n \notin running
      BY <2>1, PlacesAreApart DEF NewId
    <2>3. PICK E : E = EvictedBy({n})
      OBVIOUS
    <2>4. E \subseteq finished /\ n \notin E
      BY <2>2, <2>3, NewestStays DEF EvictedBy, Evicted
    <2>5. finished' = (finished \cup {n}) \ E /\ running' = running /\ pending' = pending /\ nextID' = n
      BY <1>2, <2>1, <2>3 DEF PushFinished, RecordLookup, crew
    <2>6. StateOf(n)' = "ended"
      BY <2>2, <2>4, <2>5 DEF StateOf
    <2>7. \A j \in Ids \ {n} : StateOf(j)' = IF j \in E THEN "gone" ELSE StateOf(j)
      BY <2>2, <2>4, <2>5, PlacesAreApart DEF StateOf, Ids
    <2>8. StateOf(n) = "unissued" /\ \A k \in Ids : k < n => StateOf(k) # "unissued"
      BY <2>2, PlacesAreApart DEF StateOf, Ids
    <2>9. E \subseteq Lifecycle!Are("ended")
      BY <2>4, PlacesAreApart DEF StateOf, Lifecycle!Are
    <2>10. Lifecycle!File(n, E)
      BY <2>6, <2>7, <2>8 DEF Lifecycle!File, Lifecycle!Becomes
    <2> QED BY <2>9, <2>10 DEF Lifecycle!Next
  <1> QED BY <1>1, <1>2 DEF RecordLookup, lists, control

LEMMA FinishEnds ==
    ASSUME IInv, NEW w \in Workers, Finish(w)
    PROVE  Lifecycle!Next
  <1>1. PICK j : j = held[w]
    OBVIOUS
  <1>2. PICK E : E = EvictedBy({j})
    OBVIOUS
  <1>3. j \in Ids /\ j \in running /\ j \notin finished /\ j \notin pending /\ j <= nextID
    BY <1>1, RunsHeld, HeldIsIssued, PlacesAreApart DEF Finish
  <1>4. /\ running' = running \ {j} /\ finished' = (finished \cup {j}) \ E
        /\ pending' = pending /\ nextID' = nextID
    BY <1>1, <1>2 DEF Finish, PushFinished, control
  <1>5. E \subseteq finished /\ j \notin E
    BY <1>2, <1>3, NewestStays DEF EvictedBy, Evicted
  <1>6. StateOf(j) = "running" /\ StateOf(j)' = "ended"
    BY <1>3, <1>4, <1>5 DEF StateOf
  <1>7. \A k \in Ids \ {j} : StateOf(k)' = IF k \in E THEN "gone" ELSE StateOf(k)
    BY <1>3, <1>4, <1>5, PlacesAreApart DEF StateOf
  <1>8. E \subseteq Lifecycle!Are("ended")
    BY <1>5, PlacesAreApart DEF StateOf, Lifecycle!Are
  <1>9. Lifecycle!End(j, E)
    BY <1>3, <1>6, <1>7 DEF Lifecycle!End, Lifecycle!Becomes
  <1> QED BY <1>3, <1>8, <1>9 DEF Lifecycle!Next

LEMMA TakeBegins ==
    ASSUME IInv, NEW w \in Workers, Take(w)
    PROVE  Lifecycle!Next
  <1>1. PICK j \in pending : /\ pending' = pending \ {j} /\ running' = running \cup {j}
                             /\ finished' = finished /\ nextID' = nextID
    BY DEF Take, control
  <1>2. j \in Ids /\ j \notin running /\ j \notin finished
    BY PlacesAreApart
  <1>3. \A k \in Ids : StateOf(k)' = IF k \in {j} THEN "running" ELSE StateOf(k)
    BY <1>1, <1>2 DEF StateOf
  <1>4. Lifecycle!Are("running") = running
    BY PlacesAreApart DEF StateOf, Lifecycle!Are
  <1>5. Cardinality(running) < Cardinality(Workers)
    <2> DEFINE Others == Workers \ {w}
               busy == {v \in Others : held[v] # 0}
               f == [v \in busy |-> held[v]]
    <2>1. held[w] = 0
      BY EmptyElems DEF IInv, Steps, Take, Idle, Threads
    <2>2. f \in Surjection(busy, running)
      <3>1. \A v \in busy : held[v] \in running
        BY DEF IInv, OneWorkerPerJob
      <3>2. \A k \in running : \E v \in busy : held[v] = k
        BY <2>1 DEF IInv, OneWorkerPerJob
      <3> QED BY <3>1, <3>2 DEF Surjection
    <2>3. /\ IsFiniteSet(Others) /\ Cardinality(Others) = Cardinality(Workers) - 1
          /\ Cardinality(Workers) \in Nat
      BY ThreadsAssumption, FS_RemoveElement, FS_CardinalityType
    <2> HIDE DEF Others
    <2>4. IsFiniteSet(busy) /\ Cardinality(busy) <= Cardinality(Others)
      BY <2>3, FS_Subset
    <2> HIDE DEF busy, f
    <2>5. Cardinality(running) <= Cardinality(busy) /\ IsFiniteSet(running)
      BY <2>2, <2>4, FS_Surjection
    <2>6. Cardinality(busy) \in Nat /\ Cardinality(Others) \in Nat /\ Cardinality(running) \in Nat
      BY <2>3, <2>4, <2>5, FS_CardinalityType
    <2> QED BY <2>3, <2>4, <2>5, <2>6
  <1>6. StateOf(j) = "waiting"
    BY DEF StateOf
  <1>7. Lifecycle!Begin(j)
    <2>1. \A S : Lifecycle!Cardinality(S) = Cardinality(S)
      BY DEF Lifecycle!Cardinality, Cardinality
    <2>2. Lifecycle!Cardinality(Lifecycle!Are("running")) < Cardinality(Workers)
      BY <1>4, <1>5, <2>1
    <2> QED BY <1>2, <1>3, <1>6, <2>2 DEF Lifecycle!Begin, Lifecycle!Becomes
  <1> QED BY <1>2, <1>7 DEF Lifecycle!Next

LEMMA RetryRunsAgain ==
    ASSUME IInv, NEW c \in Callers, NEW j \in Ids, Retry(c, j)
    PROVE  Lifecycle!Next
  <1>1. /\ pending' = pending \cup {j} /\ finished' = finished \ {j}
        /\ running' = running /\ nextID' = nextID
    BY DEF Retry, control
  <1>2. j \in finished /\ j \notin pending /\ j \notin running
    BY PlacesAreApart DEF Retry, MayRetry, CanReset, IInv, OnePlace
  <1>3. \A k \in Ids : StateOf(k)' = IF k \in {j} THEN "waiting" ELSE StateOf(k)
    BY <1>1, <1>2 DEF StateOf
  <1>4. Lifecycle!RunAgain(j)
    BY <1>2, <1>3 DEF Lifecycle!RunAgain, Lifecycle!Becomes, StateOf
  <1> QED BY <1>4 DEF Lifecycle!Next

\* A batch of waiting jobs moves to the ring.
LEMMA BatchCancels ==
    ASSUME IInv, NEW S \in SUBSET pending, PushFinished(S, index),
           pending' = pending \ S, running' = running, nextID' = nextID
    PROVE  Lifecycle!Next
  <1>1. PICK E : E = EvictedBy(S)
    OBVIOUS
  <1>2. E \subseteq finished \cup S /\ finished' = (finished \cup S) \ E
    BY <1>1 DEF EvictedBy, Evicted, PushFinished
  <1>3. \A k \in Ids : StateOf(k)' = IF k \in E THEN "gone" ELSE IF k \in S THEN "ended" ELSE StateOf(k)
    BY <1>2, PlacesAreApart DEF StateOf
  <1>4. S \subseteq Lifecycle!Are("waiting") /\ E \subseteq S \cup Lifecycle!Are("ended") /\ S \subseteq Ids /\ E \subseteq Ids
    BY <1>2, PlacesAreApart DEF StateOf, Lifecycle!Are
  <1>5. Lifecycle!Cancel(S, E)
    BY <1>3, <1>4 DEF Lifecycle!Cancel
  <1> QED BY <1>4, <1>5 DEF Lifecycle!Next

\* Waiting and ended jobs leave the queue.
LEMMA RemovalDiscards ==
    ASSUME IInv, NEW S \in SUBSET (pending \cup finished),
           pending' = pending \ S, finished' = finished \ S, running' = running, nextID' = nextID
    PROVE  Lifecycle!Next
  <1>1. \A k \in Ids : StateOf(k)' = IF k \in S THEN "gone" ELSE StateOf(k)
    BY PlacesAreApart DEF StateOf
  <1>2. S \subseteq Lifecycle!Are("waiting") \cup Lifecycle!Are("ended") /\ S \subseteq Ids
    BY PlacesAreApart DEF StateOf, Lifecycle!Are
  <1>3. Lifecycle!Discard(S)
    BY <1>1, <1>2 DEF Lifecycle!Discard, Lifecycle!Becomes
  <1> QED BY <1>2, <1>3 DEF Lifecycle!Next

\* Every step of a goroutine is a step of the life cycle, or does not show in it.
LEMMA GoroutinesFollow ==
    ASSUME IInv,
           \/ \E w \in Workers : WorkerStep(w)
           \/ \E c \in Callers : CallerStep(c) \/ Expire(c)
           \/ \E t \in Threads : Pursue(t)
    PROVE  Lifecycle!Next \/ UNCHANGED States
  <1> USE DEF lists, crew, control
  <1>1. ASSUME NEW w \in Workers, WorkerStep(w) PROVE Lifecycle!Next \/ UNCHANGED States
    <2>1. CASE Sleep(w) \/ Leave(w) \/ Start(w) \/ Process(w) \/ Abort(w) \/ Return(w) \/ Settle(w)
      BY <2>1, Unmoved DEF Sleep, Leave, Start, Process, Abort, Return, Settle
    <2> QED BY <1>1, <2>1, TakeBegins, FinishEnds DEF WorkerStep
  <1>2. ASSUME NEW t \in Threads, Pursue(t) \/ Expire(t) PROVE Lifecycle!Next \/ UNCHANGED States
    <2>1. CASE \/ Save(t) \/ Write(t) \/ High(t) \/ Keep(t) \/ Unlock(t) \/ Delete(t)
               \/ Signal(t) \/ Drop(t) \/ Release(t) \/ Report(t)
               \/ Answer(t) \/ Wait(t) \/ Awake(t) \/ Expire(t)
      BY <2>1, Unmoved DEF Save, Write, High, Keep, Unlock, Delete, Signal, Drop, Release, Report, Answer, Wait, Awake, Expire
    <2>2. CASE CancelKeepingRow(t)
      <3>1. PICK j : j = Arg(t).job
        OBVIOUS
      <3>2. CASE UNCHANGED lists
        BY <2>2, <3>2, Unmoved DEF CancelKeepingRow
      <3>3. CASE j \in pending /\ pending' = pending \ {j} /\ PushFinished({j}, index)
        BY <2>2, <3>3, BatchCancels DEF CancelKeepingRow
      <3> QED BY <2>2, <3>1, <3>2, <3>3 DEF CancelKeepingRow
    <2>3. CASE Cancel(t)
      <3>1. PICK j : j = Arg(t).job
        OBVIOUS
      <3>2. CASE UNCHANGED lists
        BY <2>3, <3>2, Unmoved DEF Cancel
      <3>3. CASE /\ ~NothingToCancel(j, Arg(t).live) /\ j \notin running
                 /\ pending' = pending \ {j} /\ finished' = finished \ {j}
        <4>1. j \in pending \cup finished
          BY <3>3 DEF NothingToCancel, IInv, OnePlace
        <4> QED BY <2>3, <3>3, <4>1, RemovalDiscards DEF Cancel
      <3> QED BY <2>3, <3>1, <3>2, <3>3 DEF Cancel
    <2> QED BY <1>2, <2>1, <2>2, <2>3 DEF Pursue
  <1>3. ASSUME NEW c \in Callers, CallerStep(c) PROVE Lifecycle!Next \/ UNCHANGED States
    <2>1. CASE CancelPending(c)
      BY <2>1, BatchCancels DEF CancelPending, DropPending
    <2>2. CASE Clear(c) \/ ClearSucceeded(c) \/ Sweep(c)
      <3>1. PICK S \in SUBSET finished : DropFinished(c, S)
        BY <2>2 DEF Clear, ClearSucceeded, Sweep, Clearable
      <3>2. pending' = pending \ S
        BY <3>1, PlacesAreApart DEF DropFinished
      <3> QED BY <3>1, <3>2, RemovalDiscards DEF DropFinished
    <2>3. CASE Pause(c) \/ Resume(c) \/ \E j \in Ids : CancelLive(c, j) \/ CancelSeries(c, j)
      BY <2>3, Unmoved DEF Pause, Resume, CancelLive, CancelSeries
    <2> QED BY <1>3, <2>1, <2>2, <2>3, EnqueueSubmits, RecordFiles, RetryRunsAgain DEF CallerStep
  <1> QED BY <1>1, <1>2, <1>3 DEF Threads

\* So is every step of the process but a start and an end.
LEMMA StepsFollow ==
    ASSUME IInv, [Next]_vars
    PROVE  Boot \/ Exit \/ Crash \/ Lifecycle!Next \/ UNCHANGED States
  <1>1. CASE SaveEach \/ Serve \/ Close \/ UNCHANGED vars
    BY <1>1, Unmoved DEF SaveEach, Serve, Close, vars, lists, crew, control
  <1>2. CASE Stop
    BY <1>2, BatchCancels DEF Stop, DropPending
  <1> QED BY <1>1, <1>2, GoroutinesFollow DEF Next

\* Between two starts of the process the queue implements the life cycle of
\* JobLifecycle: whatever its goroutines do while it is up is a submission, a
\* begin, an end, a cancel, a retry or a removal as that module allows them
\* (queue.go and worker.go).
THEOREM LivesFollowLifecycle ==
    Spec => [][phase # "down" /\ phase' # "down" => [Lifecycle!Next]_States]_vars
  <1>1. ASSUME IInv, [Next]_vars
        PROVE  [phase # "down" /\ phase' # "down" => [Lifecycle!Next]_States]_vars
    BY <1>1, StepsFollow DEF Boot, Exit, Crash, Vanish
  <1> QED BY <1>1, Inductive, PTL DEF Spec

-----------------------------------------------------------------------------
(* One life of the process *)

\* Nothing is stored before the first start, and the process does not end.
FirstLife ==
    /\ phase \in {"down", "boot", "up"}
    /\ phase = "down" => highWater = 0 /\ \A j \in Ids : rows[j].status = "none"

\* Goroutines run in a process that is up, and leave its phase alone.
LEMMA GoroutinesKeepPhase ==
    ASSUME IInv,
           \/ \E w \in Workers : WorkerStep(w)
           \/ \E c \in Callers : CallerStep(c) \/ Expire(c)
           \/ \E t \in Threads : Pursue(t)
    PROVE  phase # "down" /\ phase' = phase
  <1> USE DEF life
  <1>1. ASSUME NEW w \in Workers, WorkerStep(w) PROVE phase # "down" /\ phase' = phase
    <2>1. phase' = phase
      BY <1>1 DEF WorkerStep, Sleep, Take, Leave, Start, Process, Abort, Return, Settle, Finish
    <2>2. IsUp \/ ~Idle(w)
      BY <1>1 DEF WorkerStep, Sleep, Take, Leave, Start, Process, Abort, Return, Settle, Finish, At
    <2> QED BY <2>1, <2>2, Pursuing DEF IsUp, Threads
  <1>2. ASSUME NEW t \in Threads, Pursue(t) \/ Expire(t) PROVE phase # "down" /\ phase' = phase
    <2>1. phase' = phase
      BY <1>2 DEF Pursue, Save, Write, High, Keep, Unlock, Delete, Signal, Drop, Release, Report, Answer, Wait, Awake,
                  Expire, CancelKeepingRow, Cancel
    <2>2. ~Idle(t)
      BY <1>2 DEF Pursue, Save, Write, High, Keep, Unlock, Delete, Signal, Drop, Release, Report, Answer, Wait, Awake,
                  Expire, CancelKeepingRow, Cancel, At
    <2> QED BY <2>1, <2>2, Pursuing
  <1>3. ASSUME NEW c \in Callers, CallerStep(c) PROVE phase # "down" /\ phase' = phase
    <2>1. phase' = phase
      BY <1>3 DEF CallerStep, Enqueue, Retry, CancelLive, CancelSeries, RecordLookup, CancelPending,
                  Clear, ClearSucceeded, Sweep, DropFinished, Pause, Resume
    <2>2. IsUp
      BY <1>3 DEF CallerStep, Enqueue, Retry, CancelLive, CancelSeries, RecordLookup, CancelPending,
                  Clear, ClearSucceeded, Sweep, Pause, Resume, CanCall
    <2> QED BY <2>1, <2>2 DEF IsUp
  <1> QED BY <1>1, <1>2, <1>3 DEF Threads

LEMMA FirstLifeKept ==
    ASSUME Calls \cap {"crash", "stop"} = {}, IInv, FirstLife, [Next]_vars
    PROVE  FirstLife' /\ ([Lifecycle!Next]_States)
  <1>1. ~Stop /\ ~Close /\ ~Exit /\ ~Crash
    BY DEF Stop, Close, Exit, Crash, FirstLife
  <1>2. CASE Boot
    <2>1. (\A j \in Ids : rows[j].status = "none") /\ highWater = 0
      BY <1>2 DEF Boot, FirstLife
    <2>2. {j \in Ids : rows[j].status # "none"} = {}
      BY <2>1
    <2>3. LastIssued({}) = 0
      BY <2>1 DEF LastIssued
    <2>4. pending' = {} /\ finished' = {} /\ nextID' = 0 /\ running' = running /\ phase' = "boot"
      BY <1>2, <2>2, <2>3 DEF Boot, crew, Evicted
    <2>5. UNCHANGED <<pending, running, finished, nextID>>
      BY <1>2, <2>4 DEF Boot, IInv, Grounded
    <2> QED BY <2>4, <2>5, Unmoved DEF FirstLife
  <1>3. CASE UNCHANGED vars
    BY <1>3, Unmoved DEF FirstLife, vars, store, life, lists, crew, control
  <1>4. CASE SaveEach
    <2>1. ~Idle(Main) /\ phase' = phase
      BY <1>4 DEF SaveEach, At, life
    <2>2. phase # "down"
      BY <2>1, Pursuing DEF Threads
    <2> QED BY <1>1, <1>4, <2>1, <2>2, StepsFollow DEF FirstLife, Boot
  <1>5. CASE Serve
    BY <1>1, <1>5, StepsFollow DEF Serve, Boot, FirstLife
  <1>6. CASE \/ \E w \in Workers : WorkerStep(w)
             \/ \E c \in Callers : CallerStep(c) \/ Expire(c)
             \/ \E t \in Threads : Pursue(t)
    BY <1>6, GoroutinesKeepPhase, GoroutinesFollow DEF FirstLife
  <1> QED BY <1>1, <1>2, <1>3, <1>4, <1>5, <1>6 DEF Next

LEMMA FirstLifeBegins == Init => FirstLife /\ Lifecycle!Init
  <1> SUFFICES ASSUME Init PROVE FirstLife /\ Lifecycle!Init
    OBVIOUS
  <1>1. FirstLife
    BY DEF Init, FirstLife, NoRow
  <1>2. \A j \in Ids : StateOf(j) = "unissued"
    BY DEF Init, StateOf, Ids
  <1> QED BY <1>1, <1>2 DEF Lifecycle!Init

\* In a process that neither stops nor crashes the queue implements JobLifecycle
\* from its first state on.
THEOREM QueueImplementsLifecycle ==
    ASSUME Calls \cap {"crash", "stop"} = {}
    PROVE  Spec => ImplementsLifecycle
  <1>1. Init => IInv /\ FirstLife /\ Lifecycle!Init
    BY Initially, FirstLifeBegins
  <1>2. IInv /\ FirstLife /\ [Next]_vars => IInv' /\ FirstLife' /\ [Lifecycle!Next]_States
    BY StepKeeps, FirstLifeKept
  <1> QED BY <1>1, <1>2, PTL DEF Spec, ImplementsLifecycle, Lifecycle!Spec, States

-----------------------------------------------------------------------------
(* The order of the FIFO and of the ring *)

\* R orders the members of M in a line.
InLine(M, R) ==
    /\ \A a \in M : <<a, a>> \notin R
    /\ \A a, b, c \in M : <<a, b>> \in R /\ <<b, c>> \in R => <<a, c>> \in R
    /\ \A a, b \in M : a # b => <<a, b>> \in R \/ <<b, a>> \in R

\* Of a line the ring keeps MaxFinished at most: the oldest of those it keeps has
\* all the others behind it.
LEMMA KeptFit ==
    ASSUME NEW M, IsFiniteSet(M), NEW R, InLine(M, R)
    PROVE  Cardinality(M \ Evicted(M, R)) <= MaxFinished
  <1> DEFINE After(k) == {m \in M : <<k, m>> \in R}
             Kept == M \ Evicted(M, R)
             Ranks == {Cardinality(After(k)) : k \in Kept}
  <1>1. \A k \in M : IsFiniteSet(After(k)) /\ Cardinality(After(k)) \in 0 .. Cardinality(M)
    <2> SUFFICES ASSUME NEW k \in M PROVE IsFiniteSet(After(k)) /\ Cardinality(After(k)) \in 0 .. Cardinality(M)
      OBVIOUS
    <2>1. IsFiniteSet(After(k)) /\ Cardinality(After(k)) <= Cardinality(M)
      BY FS_Subset
    <2> HIDE DEF After
    <2>2. Cardinality(After(k)) \in Nat /\ Cardinality(M) \in Nat
      BY <2>1, FS_CardinalityType
    <2> QED BY <2>1, <2>2
  <1>2. \A k \in M : k \in Kept <=> ~(Cardinality(After(k)) >= MaxFinished)
    BY DEF Evicted
  <1>3. IsFiniteSet(Kept) /\ Cardinality(Kept) \in Nat /\ Cardinality(M) \in Nat /\ Kept \subseteq M
    BY FS_Subset, FS_CardinalityType
  <1> HIDE DEF Kept
  <1>4. CASE Kept = {}
    <2>1. Cardinality(Kept) = 0
      BY <1>4, FS_EmptySet
    <2> QED BY <2>1, BoundsAssumption DEF Kept
  <1>5. CASE Kept # {}
    <2>1. Ranks \in SUBSET (0 .. Cardinality(M)) /\ Ranks # {}
      BY <1>1, <1>3, <1>5
    <2>2. PICK top \in Ranks : \A r \in Ranks : r <= top
      BY <1>3, <2>1, Greatest
    <2>3. PICK g \in Kept : top = Cardinality(After(g))
      BY <2>2
    <2>4. \A k \in Kept : Cardinality(After(k)) <= Cardinality(After(g))
      BY <2>2, <2>3
    <2>5. ASSUME NEW m \in Kept, m # g PROVE <<g, m>> \in R
      <3>1. CASE <<m, g>> \in R
        <4>1. g \notin After(g) /\ After(g) \cup {g} \in SUBSET After(m)
          BY <1>3, <3>1 DEF InLine
        <4>2. IsFiniteSet(After(g)) /\ IsFiniteSet(After(m)) /\ Cardinality(After(g)) \in Nat /\ Cardinality(After(m)) \in Nat
          BY <1>1, <1>3
        <4>3. Cardinality(After(m)) <= Cardinality(After(g))
          BY <2>4
        <4> HIDE DEF After
        <4>4. Cardinality(After(g) \cup {g}) = Cardinality(After(g)) + 1
          BY <4>1, <4>2, FS_AddElement
        <4>5. Cardinality(After(g) \cup {g}) <= Cardinality(After(m))
          BY <4>1, <4>2, FS_Subset
        <4> QED BY <4>2, <4>3, <4>4, <4>5
      <3> QED BY <1>3, <2>5, <3>1 DEF InLine
    <2>6. Kept \ {g} \in SUBSET After(g)
      BY <1>3, <2>5
    <2>7. IsFiniteSet(After(g)) /\ Cardinality(After(g)) \in Nat /\ ~(Cardinality(After(g)) >= MaxFinished)
      BY <1>1, <1>2, <1>3
    <2> HIDE DEF After
    <2>8. Cardinality(Kept \ {g}) <= Cardinality(After(g)) /\ Cardinality(Kept \ {g}) = Cardinality(Kept) - 1
      BY <1>3, <2>6, <2>7, FS_Subset, FS_RemoveElement
    <2>9. Cardinality(Kept) <= MaxFinished
      BY <1>3, <2>7, <2>8, BoundsAssumption
    <2> QED BY <2>9 DEF Kept
  <1> QED BY <1>4, <1>5

Lane(l) == {j \in pending : jobs[j].lane = l}

\* The ring and each lane of the FIFO are lines, and order holds nothing else.
Lined ==
    /\ order \subseteq (pending \X pending) \cup (finished \X finished)
    /\ \A a, b \in pending : <<a, b>> \in order => jobs[a].lane = jobs[b].lane
    /\ InLine(finished, order)
    /\ \A l \in 0 .. 2 : InLine(Lane(l), order)
    /\ Cardinality(finished) <= MaxFinished

\* The lanes of the jobs the queue knows stay what they are.
LanesStand == \A j \in index : jobs'[j].lane = jobs[j].lane

LEMMA LaneIsKnown ==
    ASSUME IInv, NEW j \in Ids
    PROVE  jobs[j].lane \in 0 .. 2
  BY DEF IInv, TypeOK, JobType

LEMMA IdsAreFinite == IsFiniteSet(Ids)
  BY BoundsAssumption, FS_Interval DEF Ids

\* Jobs leave the lines and nothing else changes.
LEMMA LinesShrink ==
    ASSUME IInv, Lined, LanesStand, pending' \subseteq pending, finished' \subseteq finished,
           order' = {p \in order : p[1] \in pending' \cup finished' /\ p[2] \in pending' \cup finished'}
    PROVE  Lined'
  <1>1. \A j \in pending : jobs'[j].lane = jobs[j].lane
    BY PlacesAreApart DEF LanesStand
  <1>2. \A a, b \in pending' \cup finished' : <<a, b>> \in order' <=> <<a, b>> \in order
    OBVIOUS
  <1>3. order' \subseteq (pending' \X pending') \cup (finished' \X finished')
    BY PlacesAreApart DEF Lined
  <1>4. InLine(finished', order')
    BY <1>2 DEF Lined, InLine
  <1>5. \A l \in 0 .. 2 : InLine({j \in pending' : jobs'[j].lane = l}, order')
    BY <1>1, <1>2 DEF Lined, InLine, Lane
  <1>6. Cardinality(finished') <= MaxFinished
    <2>1. IsFiniteSet(finished)
      BY PlacesAreApart, IdsAreFinite, FS_Subset
    <2>2. Cardinality(finished') <= Cardinality(finished) /\ Cardinality(finished) <= MaxFinished
      BY <2>1, FS_Subset DEF Lined
    <2>3. IsFiniteSet(finished') /\ Cardinality(finished) \in Nat /\ Cardinality(finished') \in Nat
      BY <2>1, FS_Subset, FS_CardinalityType
    <2> QED BY <2>2, <2>3, BoundsAssumption
  <1>7. \A a, b \in pending' : <<a, b>> \in order' => jobs'[a].lane = jobs'[b].lane
    BY <1>1 DEF Lined
  <1> QED BY <1>3, <1>4, <1>5, <1>6, <1>7 DEF Lined, Lane

LEMMA PairsAreListed ==
    ASSUME Lined
    PROVE  \A a, b : <<a, b>> \in order => (a \in pending /\ b \in pending) \/ (a \in finished /\ b \in finished)
  <1> SUFFICES ASSUME NEW a, NEW b, <<a, b>> \in order
               PROVE  (a \in pending /\ b \in pending) \/ (a \in finished /\ b \in finished)
    OBVIOUS
  <1>1. <<a, b>> \in pending \X pending \/ <<a, b>> \in finished \X finished
    BY DEF Lined
  <1> QED BY <1>1

\* A job is pushed behind its lane: a new one, or one of the ring.
LEMMA LinesTakeOne ==
    ASSUME IInv, Lined, NEW j \in Ids, j \notin pending, NEW lane \in 0 .. 2,
           pending' = pending \cup {j}, finished' = finished \ {j}, order' = AfterPushPending(j, lane),
           jobs'[j].lane = lane, \A k \in Ids \ {j} : jobs'[k].lane = jobs[k].lane
    PROVE  Lined'
  <1>1. \A a, b : <<a, b>> \in order' <=> \/ <<a, b>> \in order /\ a # j /\ b # j
                                          \/ b = j /\ a \in pending /\ jobs[a].lane = lane
    BY DEF AfterPushPending, Touching
  <1>2. order' \subseteq (pending' \X pending') \cup (finished' \X finished')
    <2>1. \A p \in order' : p = <<p[1], p[2]>>
      BY DEF AfterPushPending, Lined
    <2>2. ASSUME NEW a, NEW b, <<a, b>> \in order'
          PROVE  (a \in pending' /\ b \in pending') \/ (a \in finished' /\ b \in finished')
      <3>1. CASE <<a, b>> \in order /\ a # j /\ b # j
        BY <3>1, PairsAreListed
      <3> QED BY <1>1, <2>2, <3>1
    <2> QED BY <2>1, <2>2
  <1>3. \A k \in pending : k \in Ids \ {j} /\ jobs'[k].lane = jobs[k].lane
    BY PlacesAreApart
  <1>4. \A a, b \in pending' : <<a, b>> \in order' => jobs'[a].lane = jobs'[b].lane
    BY <1>1, <1>3 DEF Lined
  <1>5. InLine(finished', order')
    BY <1>1, PlacesAreApart DEF Lined, InLine
  <1>6. ASSUME NEW l \in 0 .. 2 PROVE InLine({k \in pending' : jobs'[k].lane = l}, order')
    <2> DEFINE L == {k \in pending' : jobs'[k].lane = l}
    <2>1. \A k : k \in L <=> k \in Lane(l) \/ (k = j /\ lane = l)
      BY <1>3 DEF Lane
    <2>2. InLine(Lane(l), order) /\ j \notin Lane(l)
      BY DEF Lined, Lane
    <2>3. \A a, b \in Lane(l) : <<a, b>> \in order' <=> <<a, b>> \in order
      BY <1>1 DEF Lane
    <2>4. \A a \in Lane(l) : (lane = l => <<a, j>> \in order') /\ <<j, a>> \notin order'
      BY <1>1 DEF Lane
    <2>5. <<j, j>> \notin order'
      BY <1>1
    <2> HIDE DEF L
    <2>6. \A a \in L : <<a, a>> \notin order'
      BY <2>1, <2>2, <2>3, <2>5 DEF InLine
    <2>7. ASSUME NEW a \in L, NEW b \in L, a # b PROVE <<a, b>> \in order' \/ <<b, a>> \in order'
      <3>1. CASE a \in Lane(l) /\ b \in Lane(l)
        BY <2>2, <2>3, <2>7, <3>1 DEF InLine
      <3>2. lane = l \/ (a \in Lane(l) /\ b \in Lane(l))
        BY <2>1, <2>7
      <3>3. (a \in Lane(l) /\ b = j) \/ (b \in Lane(l) /\ a = j) \/ (a \in Lane(l) /\ b \in Lane(l))
        BY <2>1, <2>7
      <3> QED BY <2>4, <3>1, <3>2, <3>3
    <2>8. ASSUME NEW a \in L, NEW b \in L, NEW c \in L, <<a, b>> \in order', <<b, c>> \in order'
          PROVE  <<a, c>> \in order'
      <3>1. a \in Lane(l) /\ b \in Lane(l)
        <4>1. \A k \in L : <<j, k>> \notin order'
          BY <2>1, <2>4, <2>5
        <4> QED BY <2>1, <2>8, <4>1
      <3>2. CASE c = j
        BY <2>1, <2>2, <2>4, <3>1, <3>2
      <3>3. CASE c \in Lane(l)
        BY <2>2, <2>3, <2>8, <3>1, <3>3 DEF InLine
      <3> QED BY <2>1, <3>2, <3>3
    <2>9. InLine(L, order')
      BY <2>6, <2>7, <2>8 DEF InLine
    <2> QED BY <2>9 DEF L
  <1>7. Cardinality(finished') <= MaxFinished
    <2>1. IsFiniteSet(finished)
      BY PlacesAreApart, IdsAreFinite, FS_Subset
    <2>2. Cardinality(finished') <= Cardinality(finished) /\ Cardinality(finished) <= MaxFinished
      BY <2>1, FS_Subset DEF Lined
    <2>3. IsFiniteSet(finished') /\ Cardinality(finished) \in Nat /\ Cardinality(finished') \in Nat
      BY <2>1, FS_Subset, FS_CardinalityType
    <2> QED BY <2>2, <2>3, BoundsAssumption
  <1> QED BY <1>2, <1>4, <1>5, <1>6, <1>7 DEF Lined, Lane

\* Jobs are pushed into the ring: those of the FIFO in its order, or one alone.
LEMMA LinesTakeSettled ==
    ASSUME IInv, Lined, LanesStand, NEW S \in SUBSET Ids, NEW known, S \cap finished = {},
           S \subseteq pending \/ \E j : S = {j}, PushFinished(S, known), pending' = pending \ S
    PROVE  Lined'
  <1>1. PICK R : R = AfterPushFinished(S)
    OBVIOUS
  <1>2. \A a, b : <<a, b>> \in R <=> \/ <<a, b>> \in order /\ a \notin S /\ b \notin S
                                     \/ a \in finished /\ b \in S
                                     \/ a \in S /\ b \in S /\ a # b /\ Before(a, b)
    BY <1>1 DEF AfterPushFinished, Touching
  <1>3. InLine(S, R)
    <2>1. \A a, b \in S : <<a, b>> \in R <=> a # b /\ Before(a, b)
      BY <1>2
    <2>2. CASE \E j : S = {j}
      BY <2>1, <2>2 DEF InLine
    <2>3. CASE S \subseteq pending
      <3>1. \A a \in S : jobs[a].lane \in 0 .. 2
        BY LaneIsKnown
      <3>2. \A a, b, c \in S : jobs[a].lane = jobs[b].lane /\ jobs[b].lane = jobs[c].lane =>
               /\ <<a, a>> \notin order
               /\ <<a, b>> \in order /\ <<b, c>> \in order => <<a, c>> \in order
               /\ a # b => <<a, b>> \in order \/ <<b, a>> \in order
        BY <2>3, <3>1 DEF Lined, InLine, Lane
      <3>3. ASSUME NEW a \in S, NEW b \in S, a # b PROVE Before(a, b) \/ Before(b, a)
        <4>1. jobs[a].lane = jobs[b].lane => <<a, b>> \in order \/ <<b, a>> \in order
          BY <3>2, <3>3
        <4>2. jobs[a].lane \in 0 .. 2 /\ jobs[b].lane \in 0 .. 2
          BY <3>1
        <4> QED BY <4>1, <4>2 DEF Before
      <3>4. ASSUME NEW a \in S, NEW b \in S, NEW c \in S, Before(a, b), Before(b, c) PROVE Before(a, c) /\ a # c
        <4>1. jobs[a].lane \in 0 .. 2 /\ jobs[b].lane \in 0 .. 2 /\ jobs[c].lane \in 0 .. 2
          BY <3>1
        <4>2. CASE jobs[a].lane = jobs[b].lane /\ jobs[b].lane = jobs[c].lane
          <5>1. <<a, b>> \in order /\ <<b, c>> \in order
            BY <3>4, <4>1, <4>2 DEF Before
          <5>2. <<a, c>> \in order /\ <<a, a>> \notin order
            BY <3>2, <4>2, <5>1
          <5> QED BY <4>2, <5>2 DEF Before
        <4> QED BY <3>4, <4>1, <4>2 DEF Before
      <3> QED BY <2>1, <3>3, <3>4 DEF InLine
    <2> QED BY <2>2, <2>3
  <1>4. InLine(finished \cup S, R)
    <2>1. \A a, b \in finished : <<a, b>> \in R <=> <<a, b>> \in order
      BY <1>2
    <2>2. \A a \in finished, b \in S : <<a, b>> \in R /\ <<b, a>> \notin R
      BY <1>2
    <2> QED BY <1>3, <2>1, <2>2 DEF Lined, InLine
  <1>5. PICK E : E = Evicted(finished \cup S, R)
    OBVIOUS
  <1>6. finished' = (finished \cup S) \ E /\ order' = {p \in R : p[1] \notin E /\ p[2] \notin E}
    BY <1>1, <1>5 DEF PushFinished, EvictedBy
  <1>7. E \subseteq finished \cup S
    BY <1>5 DEF Evicted
  <1>8. Cardinality(finished') <= MaxFinished
    <2>1. IsFiniteSet(finished \cup S)
      BY PlacesAreApart, IdsAreFinite, FS_Subset
    <2> QED BY <1>4, <1>5, <1>6, <2>1, KeptFit
  <1>9. \A a, b : <<a, b>> \in order' <=> <<a, b>> \in R /\ a \notin E /\ b \notin E
    BY <1>6
  <1>10. InLine(finished', order')
    BY <1>4, <1>6, <1>9 DEF InLine
  <1>11. \A a, b \in pending' : <<a, b>> \in order' <=> <<a, b>> \in order
    BY <1>2, <1>7, <1>9, PlacesAreApart
  <1>12. \A a \in pending' : a \in pending /\ jobs'[a].lane = jobs[a].lane
    BY PlacesAreApart DEF LanesStand
  <1>13. \A l \in 0 .. 2 : InLine({k \in pending' : jobs'[k].lane = l}, order')
    BY <1>11, <1>12 DEF Lined, InLine, Lane
  <1>14. order' \subseteq (pending' \X pending') \cup (finished' \X finished')
    <2>1. \A p \in R : p = <<p[1], p[2]>>
      BY <1>1 DEF AfterPushFinished, Lined
    <2>2. \A a, b : <<a, b>> \in order' => (a \in pending' /\ b \in pending') \/ (a \in finished' /\ b \in finished')
      BY <1>2, <1>6, <1>9, PairsAreListed
    <2> QED BY <1>6, <2>1, <2>2
  <1>15. \A a, b \in pending' : <<a, b>> \in order' => jobs'[a].lane = jobs'[b].lane
    BY <1>11, <1>12 DEF Lined
  <1> QED BY <1>8, <1>10, <1>13, <1>14, <1>15 DEF Lined, Lane

LEMMA SettleKeepsLane ==
    ASSUME IInv, NEW j \in Ids, NEW s
    PROVE  settle(j, s).lane = jobs[j].lane
  BY DEF IInv, TypeOK, JobType, settle

LEMMA OneUpdated ==
    ASSUME IInv, NEW j, NEW v, jobs' = [jobs EXCEPT ![j] = v], j \in index => v.lane = jobs[j].lane
    PROVE  LanesStand
  BY PlacesAreApart DEF LanesStand, IInv, TypeOK

LEMMA GoroutinesKeepLanes ==
    ASSUME IInv,
           \/ \E w \in Workers : WorkerStep(w)
           \/ \E c \in Callers : CallerStep(c) \/ Expire(c)
           \/ \E t \in Threads : Pursue(t)
    PROVE  LanesStand
  <1>0. ASSUME jobs' = jobs PROVE LanesStand
    BY <1>0 DEF LanesStand
  <1>1. ASSUME NEW w \in Workers, WorkerStep(w) PROVE LanesStand
    <2>1. CASE Sleep(w) \/ Take(w) \/ Leave(w) \/ Finish(w)
      BY <1>0, <2>1 DEF Sleep, Take, Leave, Finish
    <2>2. CASE Start(w) \/ Process(w) \/ Abort(w) \/ Return(w) \/ Settle(w)
      <3>1. held[w] \in Ids
        BY <2>2, RunsHeld, HeldIsIssued DEF Start, Process, Abort, Return, Settle
      <3>2. \/ \E s : jobs' = [jobs EXCEPT ![held[w]] = settle(held[w], s)]
            \/ jobs' = jobs
            \/ jobs' = [jobs EXCEPT ![held[w]].status = "running"]
            \/ jobs' = [jobs EXCEPT ![held[w]].ran = TRUE]
        BY <2>2 DEF Start, Process, Abort, Return, Settle
      <3>3. ASSUME NEW s, jobs' = [jobs EXCEPT ![held[w]] = settle(held[w], s)] PROVE LanesStand
        BY <3>1, <3>3, SettleKeepsLane, OneUpdated
      <3>4. CASE \/ jobs' = [jobs EXCEPT ![held[w]].status = "running"]
                 \/ jobs' = [jobs EXCEPT ![held[w]].ran = TRUE]
        <4>1. PICK j \in Ids : j = held[w]
          BY <3>1
        <4>2. jobs' = [jobs EXCEPT ![j].status = "running"] \/ jobs' = [jobs EXCEPT ![j].ran = TRUE]
          BY <3>4, <4>1
        <4>3. jobs \in [Ids -> JobType]
          BY DEF IInv, TypeOK
        <4>4. \A k \in Ids : jobs'[k].lane = jobs[k].lane
          BY <4>2, <4>3 DEF JobType
        <4> QED BY <4>4, PlacesAreApart DEF LanesStand
      <3> QED BY <1>0, <3>2, <3>3, <3>4
    <2> QED BY <1>1, <2>1, <2>2 DEF WorkerStep
  <1>2. ASSUME NEW t \in Threads, Pursue(t) \/ Expire(t) PROVE LanesStand
    <2>1. CASE \/ Write(t) \/ High(t) \/ Keep(t) \/ Unlock(t) \/ Delete(t) \/ Release(t) \/ Report(t)
               \/ Answer(t) \/ Wait(t) \/ Awake(t) \/ Expire(t) \/ Cancel(t)
      BY <1>0, <2>1 DEF Write, High, Keep, Unlock, Delete, Release, Report, Answer, Wait, Awake, Expire, Cancel
    <2>2. CASE Save(t) \/ Signal(t) \/ Drop(t) \/ CancelKeepingRow(t)
      <3>1. ~Idle(t) /\ Arg(t).do \in OfJob
        BY <2>2 DEF Save, Signal, Drop, CancelKeepingRow, At, Arg, OfJob
      <3>2. PICK j \in Ids : j = Arg(t).job
        BY <3>1, Pursuing DEF Sound
      <3>3. \/ jobs' = [jobs EXCEPT ![j].seq = jobs[j].seq + 1]
            \/ jobs' = [jobs EXCEPT ![j] = [jobs[j] EXCEPT !.shut = jobs[j].shut \cup {jobs[j].run}]]
            \/ jobs' = [jobs EXCEPT ![j] = [settle(j, "canceled") EXCEPT !.shut = settle(j, "canceled").shut \cup {jobs[j].run}]]
            \/ jobs' = jobs
            \/ jobs' = [jobs EXCEPT ![j] = settle(j, "canceled")]
        BY <2>2, <3>2 DEF Save, Signal, Drop, CancelKeepingRow, signalDone
      <3>4. settle(j, "canceled") \in JobType /\ settle(j, "canceled").lane = jobs[j].lane
        BY SettleKeepsLane, JobIsTyped DEF IInv, Settled
      <3>5. jobs \in [Ids -> JobType]
        BY DEF IInv, TypeOK
      <3>6. \A k \in Ids : jobs'[k].lane = jobs[k].lane
        BY <3>3, <3>4, <3>5 DEF JobType
      <3> QED BY <3>6, PlacesAreApart DEF LanesStand
    <2> QED BY <1>2, <2>1, <2>2 DEF Pursue
  <1>3. ASSUME NEW c \in Callers, CallerStep(c) PROVE LanesStand
    <2>1. NewId \notin index
      BY PlacesAreApart, NextIsNew DEF NewId, IInv, Grounded
    <2>2. ASSUME NEW lane, NEW wait, Enqueue(c, lane, wait) PROVE LanesStand
      BY <2>1, <2>2, OneUpdated DEF Enqueue
    <2>3. CASE RecordLookup(c)
      BY <1>0, <2>1, <2>3, OneUpdated DEF RecordLookup
    <2>4. ASSUME NEW j \in Ids, Retry(c, j) PROVE LanesStand
      <3>1. reset(j).lane = jobs[j].lane
        BY DEF reset, IInv, TypeOK, JobType
      <3> QED BY <2>4, <3>1, OneUpdated DEF Retry
    <2>5. CASE CancelPending(c)
      BY <2>5, PlacesAreApart, SettleKeepsLane DEF CancelPending, DropPending, LanesStand
    <2>6. CASE \/ \E j \in Ids : CancelLive(c, j) \/ CancelSeries(c, j)
               \/ Clear(c) \/ ClearSucceeded(c) \/ Sweep(c) \/ Pause(c) \/ Resume(c)
      BY <1>0, <2>6 DEF CancelLive, CancelSeries, Clear, ClearSucceeded, Sweep, DropFinished, Pause, Resume
    <2> QED BY <1>3, <2>2, <2>3, <2>4, <2>5, <2>6 DEF CallerStep
  <1> QED BY <1>1, <1>2, <1>3 DEF Threads

LEMMA LinesStand ==
    ASSUME IInv, Lined, LanesStand, UNCHANGED <<pending, finished, order>>
    PROVE  Lined'
  <1>1. \A j \in pending : jobs'[j].lane = jobs[j].lane
    BY PlacesAreApart DEF LanesStand
  <1>2. \A l \in 0 .. 2 : {j \in pending' : jobs'[j].lane = l} = Lane(l)
    BY <1>1 DEF Lane
  <1>3. \A l \in 0 .. 2 : InLine({j \in pending' : jobs'[j].lane = l}, order')
    BY <1>2 DEF Lined
  <1> QED BY <1>1, <1>3 DEF Lined, Lane

\* What is left when the jobs S leave the lines.
LEMMA TouchingGone ==
    ASSUME IInv, Lined, NEW S, pending' = pending \ S, finished' = finished \ S
    PROVE  order \ Touching(S) = {p \in order : p[1] \in pending' \cup finished' /\ p[2] \in pending' \cup finished'}
  BY DEF Lined, Touching

LEMMA RemovalKeepsLines ==
    ASSUME IInv, Lined, LanesStand, NEW S,
           pending' = pending \ S, finished' = finished \ S, order' = order \ Touching(S)
    PROVE  Lined'
  BY TouchingGone, LinesShrink

LEMMA GoroutinesKeepLines ==
    ASSUME IInv, Lined,
           \/ \E w \in Workers : WorkerStep(w)
           \/ \E c \in Callers : CallerStep(c) \/ Expire(c)
           \/ \E t \in Threads : Pursue(t)
    PROVE  Lined'
  <1>0. LanesStand
    BY GoroutinesKeepLanes
  <1>1. ASSUME NEW w \in Workers, WorkerStep(w) PROVE Lined'
    <2>1. CASE Sleep(w) \/ Leave(w) \/ Start(w) \/ Process(w) \/ Abort(w) \/ Return(w) \/ Settle(w)
      BY <1>0, <2>1, LinesStand DEF Sleep, Leave, Start, Process, Abort, Return, Settle, lists
    <2>2. CASE Take(w)
      <3>1. PICK j \in pending : pending' = pending \ {j} /\ order' = order \ Touching({j}) /\ finished' = finished
        BY <2>2 DEF Take
      <3>2. finished' = finished \ {j}
        BY <3>1, PlacesAreApart
      <3> QED BY <1>0, <3>1, <3>2, RemovalKeepsLines
    <2>3. CASE Finish(w)
      <3>1. PICK j \in Ids : j = held[w]
        BY <2>3, RunsHeld, HeldIsIssued DEF Finish
      <3>2. j \in running
        BY <2>3, <3>1, RunsHeld, HeldIsIssued DEF Finish
      <3>3. PushFinished({j}, index) /\ pending' = pending \ {j} /\ {j} \cap finished = {}
        BY <2>3, <3>1, <3>2, PlacesAreApart DEF Finish
      <3> QED BY <1>0, <3>3, LinesTakeSettled
    <2> QED BY <1>1, <2>1, <2>2, <2>3 DEF WorkerStep
  <1>2. ASSUME NEW t \in Threads, Pursue(t) \/ Expire(t) PROVE Lined'
    <2>1. CASE \/ Save(t) \/ Write(t) \/ High(t) \/ Keep(t) \/ Unlock(t) \/ Delete(t)
               \/ Signal(t) \/ Drop(t) \/ Release(t) \/ Report(t)
               \/ Answer(t) \/ Wait(t) \/ Awake(t) \/ Expire(t)
      BY <1>0, <2>1, LinesStand
         DEF Save, Write, High, Keep, Unlock, Delete, Signal, Drop, Release, Report, Answer, Wait, Awake, Expire, lists
    <2>2. CASE UNCHANGED lists
      BY <1>0, <2>2, LinesStand DEF lists
    <2>3. CASE CancelKeepingRow(t)
      <3>1. PICK j : j = Arg(t).job
        OBVIOUS
      <3>2. CASE j \in pending /\ pending' = pending \ {j} /\ PushFinished({j}, index)
        BY <1>0, <3>2, LinesTakeSettled, PlacesAreApart
      <3> QED BY <2>2, <2>3, <3>1, <3>2 DEF CancelKeepingRow
    <2>4. CASE Cancel(t)
      <3>1. PICK j : j = Arg(t).job
        OBVIOUS
      <3>2. CASE pending' = pending \ {j} /\ finished' = finished \ {j} /\ order' = order \ Touching({j})
        BY <1>0, <3>2, RemovalKeepsLines
      <3> QED BY <2>2, <2>4, <3>1, <3>2 DEF Cancel
    <2> QED BY <1>2, <2>1, <2>3, <2>4 DEF Pursue
  <1>3. ASSUME NEW c \in Callers, CallerStep(c) PROVE Lined'
    <2>1. ASSUME NEW lane \in Lanes, NEW wait \in BOOLEAN, Enqueue(c, lane, wait) PROVE Lined'
      <3>1. PICK n \in Ids : n = NewId
        BY <2>1 DEF Enqueue
      <3>2. n \notin pending /\ n \notin finished /\ lane \in 0 .. 2
        BY <3>1, NextIsNew, BoundsAssumption
      <3>3. /\ pending' = pending \cup {n} /\ finished' = finished \ {n} /\ order' = AfterPushPending(n, lane)
            /\ jobs' = [jobs EXCEPT ![n] = newJob(lane)]
        BY <2>1, <3>1, <3>2 DEF Enqueue
      <3>4. jobs'[n].lane = lane /\ \A k \in Ids \ {n} : jobs'[k].lane = jobs[k].lane
        BY <3>3 DEF newJob, NoJob, IInv, TypeOK
      <3> QED BY <3>2, <3>3, <3>4, LinesTakeOne
    <2>2. CASE RecordLookup(c)
      <3>1. CASE UNCHANGED lists
        BY <1>0, <3>1, LinesStand DEF lists
      <3>2. CASE NewId \in Ids /\ PushFinished({NewId}, index \cup {NewId}) /\ pending' = pending
        <4>1. PICK n \in Ids : n = NewId
          BY <3>2
        <4>2. n \notin pending /\ n \notin finished
          BY <4>1, NextIsNew
        <4>3. PushFinished({n}, index \cup {n}) /\ pending' = pending \ {n} /\ {n} \cap finished = {}
          BY <3>2, <4>1, <4>2
        <4> QED BY <1>0, <4>3, LinesTakeSettled
      <3> QED BY <2>2, <3>1, <3>2 DEF RecordLookup
    <2>3. ASSUME NEW j \in Ids, Retry(c, j) PROVE Lined'
      <3>1. j \notin pending
        BY <2>3, PlacesAreApart DEF Retry, MayRetry, CanReset
      <3>2. jobs[j].lane \in 0 .. 2 /\ reset(j).lane = jobs[j].lane
        BY LaneIsKnown DEF reset, IInv, TypeOK, JobType
      <3>3. PICK lane \in 0 .. 2 : lane = jobs[j].lane
        BY <3>2
      <3>4. pending' = pending \cup {j} /\ finished' = finished \ {j} /\ order' = AfterPushPending(j, lane)
        BY <2>3, <3>3 DEF Retry
      <3>5. jobs'[j].lane = lane /\ \A k \in Ids \ {j} : jobs'[k].lane = jobs[k].lane
        BY <2>3, <3>2, <3>3 DEF Retry, IInv, TypeOK
      <3> QED BY <3>1, <3>4, <3>5, LinesTakeOne
    <2>4. CASE CancelPending(c)
      BY <1>0, <2>4, LinesTakeSettled, PlacesAreApart DEF CancelPending, DropPending
    <2>5. CASE Clear(c) \/ ClearSucceeded(c) \/ Sweep(c)
      <3>1. PICK S \in SUBSET finished : DropFinished(c, S)
        BY <2>5 DEF Clear, ClearSucceeded, Sweep, Clearable
      <3>2. pending' = pending \ S
        BY <3>1, PlacesAreApart DEF DropFinished
      <3> QED BY <1>0, <3>1, <3>2, RemovalKeepsLines DEF DropFinished
    <2>6. CASE Pause(c) \/ Resume(c) \/ \E j \in Ids : CancelLive(c, j) \/ CancelSeries(c, j)
      BY <1>0, <2>6, LinesStand DEF Pause, Resume, CancelLive, CancelSeries, lists
    <2> QED BY <1>3, <2>1, <2>2, <2>3, <2>4, <2>5, <2>6 DEF CallerStep
  <1> QED BY <1>1, <1>2, <1>3 DEF Threads

\* The lines that UseStore brings back are in the order of the ids.
LEMMA BootLines ==
    ASSUME IInv, Boot
    PROVE  Lined'
  <1> DEFINE loaded == {j \in Ids : rows[j].status # "none"}
             queued == {j \in loaded : rows[j].status = "queued"}
             kept   == loaded \ queued
             byId   == {p \in kept \X kept : p[1] < p[2]}
             gone   == Evicted(kept, byId)
             bylane == {p \in queued \X queued : p[1] < p[2] /\ rows[p[1]].lane = rows[p[2]].lane}
  <1>1. /\ pending' = queued /\ finished' = kept \ gone
        /\ order' = {p \in byId : p[1] \notin gone /\ p[2] \notin gone} \cup bylane
    BY DEF Boot
  <1>2. \A j \in queued : jobs'[j].lane = rows[j].lane
    <2> SUFFICES ASSUME NEW j \in queued PROVE jobs'[j].lane = rows[j].lane
      OBVIOUS
    <2>1. j \in Ids /\ j \in loaded
      OBVIOUS
    <2>2. \E st, sh : jobs'[j] = [NoJob EXCEPT !.status = st, !.shut = sh,
                                !.seq = rows[j].seq, !.lane = rows[j].lane, !.filed = rows[j].filed]
      BY <2>1 DEF Boot
    <2> HIDE DEF loaded, queued, kept, byId, gone, bylane
    <2> QED BY <2>2 DEF NoJob
  <1>3. /\ kept \subseteq Ids /\ queued \subseteq Ids /\ kept \cap queued = {} /\ gone \subseteq kept
        /\ Ids \subseteq Nat
    BY DEF Ids, Evicted
  <1>4. \A a, b : <<a, b>> \in byId <=> a \in kept /\ b \in kept /\ a < b
    OBVIOUS
  <1>5. \A a, b : <<a, b>> \in bylane <=> a \in queued /\ b \in queued /\ a < b /\ rows[a].lane = rows[b].lane
    OBVIOUS
  <1>6. byId \subseteq kept \X kept /\ bylane \subseteq queued \X queued
    OBVIOUS
  <1>7. \A p \in byId : p[1] \in kept /\ p[2] \in kept /\ p = <<p[1], p[2]>>
    OBVIOUS
  <1> HIDE DEF kept, byId, gone, bylane, queued, loaded
  <1>8. InLine(kept, byId)
    BY <1>3, <1>4 DEF InLine
  <1>9. Cardinality(finished') <= MaxFinished
    <2>1. IsFiniteSet(kept)
      BY <1>3, IdsAreFinite, FS_Subset
    <2> QED BY <1>1, <1>8, <2>1, KeptFit DEF gone
  <1>10. \A a, b : <<a, b>> \in order' <=> \/ <<a, b>> \in byId /\ a \notin gone /\ b \notin gone
                                           \/ <<a, b>> \in bylane
    BY <1>1
  <1>11. InLine(finished', order')
    BY <1>1, <1>3, <1>5, <1>8, <1>10 DEF InLine
  <1>12. \A l \in 0 .. 2 : InLine({j \in pending' : jobs'[j].lane = l}, order')
    <2> SUFFICES ASSUME NEW l \in 0 .. 2 PROVE InLine({j \in pending' : jobs'[j].lane = l}, order')
      OBVIOUS
    <2>1. \A a, b \in queued : <<a, b>> \in order' <=> a < b /\ rows[a].lane = rows[b].lane
      BY <1>3, <1>4, <1>5, <1>10
    <2>2. \A k : k \in {j \in pending' : jobs'[j].lane = l} <=> k \in queued /\ rows[k].lane = l
      BY <1>1, <1>2
    <2> DEFINE L == {j \in pending' : jobs'[j].lane = l}
    <2>3. \A k : k \in L <=> k \in queued /\ rows[k].lane = l
      BY <2>2
    <2> HIDE DEF L
    <2>4. \A k \in L : k \in Nat
      BY <1>3, <2>3
    <2>5. \A a, b \in L : <<a, b>> \in order' <=> a < b
      BY <2>1, <2>3
    <2>6. InLine(L, order')
      BY <2>4, <2>5 DEF InLine
    <2> QED BY <2>6 DEF L
  <1>13. order' \subseteq (pending' \X pending') \cup (finished' \X finished')
    BY <1>1, <1>6, <1>7
  <1>14. \A a, b \in pending' : <<a, b>> \in order' => jobs'[a].lane = jobs'[b].lane
    BY <1>1, <1>2, <1>3, <1>4, <1>5, <1>10
  <1> QED BY <1>9, <1>11, <1>12, <1>13, <1>14 DEF Lined, Lane

LEMMA EmptyLines ==
    ASSUME pending = {}, finished = {}, order = {}
    PROVE  Lined
  BY FS_EmptySet, BoundsAssumption DEF Lined, InLine, Lane

LEMMA LinesKept == IInv /\ Lined /\ [Next]_vars => Lined'
  <1> SUFFICES ASSUME IInv, Lined, [Next]_vars PROVE Lined'
    OBVIOUS
  <1>1. CASE Exit \/ Crash
    <2>1. pending' = {} /\ finished' = {} /\ order' = {}
      BY <1>1 DEF Exit, Crash, Vanish
    <2> QED BY <2>1, FS_EmptySet, BoundsAssumption DEF Lined, InLine, Lane
  <1>2. CASE SaveEach \/ Serve \/ Close \/ UNCHANGED vars
    <2>1. LanesStand
      BY <1>2 DEF SaveEach, Serve, Close, vars, LanesStand
    <2> QED BY <1>2, <2>1, LinesStand DEF SaveEach, Serve, Close, vars, lists
  <1>3. CASE Stop
    <2>1. LanesStand
      BY <1>3, PlacesAreApart, SettleKeepsLane DEF Stop, DropPending, LanesStand
    <2> QED BY <1>3, <2>1, LinesTakeSettled, PlacesAreApart DEF Stop, DropPending
  <1> QED BY <1>1, <1>2, <1>3, BootLines, GoroutinesKeepLines DEF Next

\* The ring (pushFinishedLocked and every removal in queue.go) holds MaxFinished
\* jobs at most, in one order of arrival, and order never names a job that has
\* left it or the FIFO: eviction always finds the oldest.
THEOREM RingKeepsOrder == Spec => []RingInOrder
  <1>1. Init => Lined
    BY EmptyLines DEF Init
  <1>2. Lined => RingInOrder
    BY DEF Lined, RingInOrder, InLine
  <1> QED BY <1>1, <1>2, Initially, StepKeeps, LinesKept, PTL DEF Spec

==============================================================================
