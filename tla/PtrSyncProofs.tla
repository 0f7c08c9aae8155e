----------------------------- MODULE PtrSyncProofs -----------------------------
(***************************************************************************)
(* IndexIsPrefix and CompleteIsWhole of PtrSync, for any number of         *)
(* requests, repositories, updates, faults, starts and calls.              *)
(***************************************************************************)
EXTENDS PtrSync, SequenceTheorems, TLAPS

-----------------------------------------------------------------------------
(* The invariant *)

\* The steps of a request for which it holds lifecycleMu.
Locked == {"publish", "close", "unlink"}

\* A list that lets go of the lock it took: a cancel is followed by its close, and
\* no step that needs the lock comes but after the one that hands it on.
WellFormed(s) ==
    \A i \in DOMAIN s :
        /\ s[i].do = "cancel" => i + 1 \in DOMAIN s /\ s[i + 1].do = "close"
        /\ i # 1 => /\ s[i].do # "publish"
                    /\ s[i].do = "close" => s[i - 1].do = "cancel"
                    /\ s[i].do = "unlink" => s[i - 1].do = "close"

Unlocked(s) == s = << >> \/ Head(s).do \notin Locked

\* Who holds lifecycleMu.
Locks ==
    /\ \A t \in Threads : WellFormed(todo[t])
    /\ \A t \in Threads : lifecycle = t <=> ~Unlocked(todo[t])

\* What the holder may rely on.
Work ==
    /\ \A t \in Threads : Doing(t, "publish") => ~engine.open /\ index.there /\ index.built = engine.address
    /\ \A t \in Threads : Doing(t, "unlink") => ~engine.open

CursorOf(i) == IF i.applied = << >> THEN 0 ELSE i.applied[Len(i.applied)][2]

Whole(i) == whole # None /\ Len(i.applied) >= whole

\* An index as it is, or as a power cut may leave it.
Sound(i) ==
    /\ ~i.there => i.applied = << >> /\ ~i.ready /\ i.covered = 0
    /\ \A k \in DOMAIN i.applied : i.applied[k][1] = i.built
    /\ \A k, m \in DOMAIN i.applied : k < m => i.applied[k][2] < i.applied[m][2]
    /\ ~misled => \A k \in DOMAIN i.applied : i.applied[k][2] = k
    /\ i.covered <= CursorOf(i)
    /\ i.ready => Whole(i)

\* An open engine, its index and its copy of the coverage.
Engine ==
    /\ engine.open => index.there /\ index.built = engine.address
    /\ engine.open /\ engine.everReady => Whole(index)
    /\ whole = None \/ Whole(index)
    /\ ~engine.open => engine.covered = 0
    /\ engine.covered <= index.covered

\* What the loop knows where it is.
Looping ==
    /\ loop.at # "none" => engine.open
    /\ loop.at \in {"entry", "fetch", "replay"} =>
          /\ loop.prev = Cursor
          /\ ~misled => \A k \in DOMAIN loop.left : loop.left[k] = loop.prev + k
    /\ loop.at \in {"fetch", "replay"} => loop.left # << >> /\ InOrder
    /\ loop.at = "note" =>
          /\ loop.left # << >> /\ loop.left[1] = Cursor /\ index.covered = Cursor
          /\ ~misled => \A k \in DOMAIN loop.left : loop.left[k] = loop.left[1] + k - 1
    /\ loop.at = "mark" => Whole(index)
    /\ loop.at = "ready" => index.ready

IInv ==
    /\ TypeOK
    /\ Locks /\ Work
    /\ \A i \in past \cup {index} : Sound(i)
    /\ Engine
    /\ Looping

-----------------------------------------------------------------------------
(* Lists *)

LEMMA EmptyList == << >> \in Seq(Items) /\ WellFormed(<< >>) /\ Unlocked(<< >>)
  BY DEF WellFormed, Unlocked

\* The steps of a list after its first.
LEMMA LaterStep ==
    ASSUME NEW s \in Seq(Items), WellFormed(s), NEW i \in DOMAIN s, NEW k \in DOMAIN s, k = i + 1
    PROVE  /\ s[k].do # "publish"
           /\ s[k].do = "close" => s[i].do = "cancel"
           /\ s[k].do = "unlink" => s[i].do = "close"
  <1>1. k # 1 /\ k - 1 = i
    BY LenProperties
  <1>2. k # 1 => /\ s[k].do # "publish"
                 /\ s[k].do = "close" => s[k - 1].do = "cancel"
                 /\ s[k].do = "unlink" => s[k - 1].do = "close"
    BY Zenon DEF WellFormed
  <1> QED BY <1>1, <1>2

\* What is left of a list.
LEMMA RestOfList ==
    ASSUME NEW s \in Seq(Items), s # << >>, WellFormed(s)
    PROVE  /\ Tail(s) \in Seq(Items) /\ WellFormed(Tail(s))
           /\ Head(s) \in Items
           /\ Head(s).do = "cancel" => Tail(s) # << >> /\ Head(Tail(s)).do = "close"
           /\ Head(s).do = "close" => Tail(s) = << >> \/ Head(Tail(s)).do \notin {"publish", "close"}
           /\ Head(s).do \notin {"cancel", "close"} => Unlocked(Tail(s))
  <1>1. /\ Len(s) \in Nat \ {0} /\ DOMAIN s = 1 .. Len(s) /\ Head(s) = s[1]
        /\ Tail(s) \in Seq(Items) /\ Len(Tail(s)) = Len(s) - 1 /\ DOMAIN Tail(s) = 1 .. Len(s) - 1
        /\ \A i \in 1 .. Len(s) - 1 : Tail(s)[i] = s[i + 1]
    BY HeadTailProperties, EmptySeq, LenProperties
  <1>2. WellFormed(Tail(s))
    <2> SUFFICES ASSUME NEW i \in 1 .. Len(s) - 1
                 PROVE  /\ Tail(s)[i].do = "cancel" => i + 1 \in 1 .. Len(s) - 1 /\ Tail(s)[i + 1].do = "close"
                        /\ i # 1 => /\ Tail(s)[i].do # "publish"
                                    /\ Tail(s)[i].do = "close" => Tail(s)[i - 1].do = "cancel"
                                    /\ Tail(s)[i].do = "unlink" => Tail(s)[i - 1].do = "close"
      BY <1>1 DEF WellFormed
    <2>1. i + 1 \in 1 .. Len(s) /\ Tail(s)[i] = s[i + 1] /\ i + 1 # 1
      BY <1>1
    <2>2. Tail(s)[i].do = "cancel" => i + 2 \in 1 .. Len(s) /\ s[i + 2].do = "close"
      <3>1. PICK k : k = i + 1
        OBVIOUS
      <3>2. k \in DOMAIN s
        BY <1>1, <2>1, <3>1
      <3>3. s[k].do = "cancel" => k + 1 \in DOMAIN s /\ s[k + 1].do = "close"
        BY <3>2 DEF WellFormed
      <3>4. k + 1 = i + 2 /\ Tail(s)[i] = s[k]
        BY <2>1, <3>1
      <3> QED BY <1>1, <3>3, <3>4
    <2>3. i + 2 \in 1 .. Len(s) => i + 1 \in 1 .. Len(s) - 1 /\ Tail(s)[i + 1] = s[i + 2]
      BY <1>1
    <2>4. i # 1 => i - 1 \in 1 .. Len(s) - 1 /\ Tail(s)[i - 1] = s[i]
      BY <1>1
    <2>5. /\ s[i + 1].do # "publish"
          /\ s[i + 1].do = "close" => s[i].do = "cancel"
          /\ s[i + 1].do = "unlink" => s[i].do = "close"
      <3>1. i \in DOMAIN s /\ i + 1 \in DOMAIN s
        BY <1>1, <2>1
      <3> QED BY <3>1, LaterStep
    <2> QED BY <2>1, <2>2, <2>3, <2>4, <2>5
  <1>3. Tail(s) # << >> => 2 \in 1 .. Len(s) /\ Head(Tail(s)) = s[2]
    <2>1. Tail(s) # << >> => Len(s) - 1 # 0 /\ Head(Tail(s)) = Tail(s)[1]
      BY <1>1, HeadTailProperties, EmptySeq
    <2> QED BY <1>1, <2>1
  <1>4. Tail(s) = << >> => Len(s) = 1
    BY <1>1
  <1>5. Head(s).do = "cancel" => Tail(s) # << >> /\ Head(Tail(s)).do = "close"
    BY <1>1, <1>3, <1>4 DEF WellFormed
  <1>6. /\ Tail(s) # << >> => Head(Tail(s)).do # "publish"
        /\ Tail(s) # << >> /\ Head(Tail(s)).do = "close" => Head(s).do = "cancel"
        /\ Tail(s) # << >> /\ Head(Tail(s)).do = "unlink" => Head(s).do = "close"
    <2> SUFFICES ASSUME Tail(s) # << >>
                 PROVE  /\ Head(Tail(s)).do # "publish"
                        /\ Head(Tail(s)).do = "close" => Head(s).do = "cancel"
                        /\ Head(Tail(s)).do = "unlink" => Head(s).do = "close"
      OBVIOUS
    <2>1. 1 \in DOMAIN s /\ 1 + 1 \in DOMAIN s /\ Head(Tail(s)) = s[1 + 1] /\ Head(s) = s[1]
      BY <1>1, <1>3
    <2> QED BY <2>1, LaterStep
  <1> QED BY <1>1, <1>2, <1>5, <1>6 DEF Unlocked, Locked

\* A list before another.
LEMMA ListBefore ==
    ASSUME NEW u \in Seq(Items), NEW v \in Seq(Items), WellFormed(u), WellFormed(v), Unlocked(v)
    PROVE  /\ u \o v \in Seq(Items) /\ WellFormed(u \o v)
           /\ u = << >> => u \o v = v
           /\ u # << >> => u \o v # << >> /\ Head(u \o v) = Head(u)
  <1>1. /\ u \o v \in Seq(Items) /\ Len(u \o v) = Len(u) + Len(v)
        /\ \A i \in 1 .. Len(u) + Len(v) : (u \o v)[i] = IF i <= Len(u) THEN u[i] ELSE v[i - Len(u)]
        /\ Len(u) \in Nat /\ Len(v) \in Nat
        /\ DOMAIN u = 1 .. Len(u) /\ DOMAIN v = 1 .. Len(v) /\ DOMAIN (u \o v) = 1 .. Len(u) + Len(v)
    BY ConcatProperties, LenProperties
  <1>2. 1 \in DOMAIN v => v[1].do \notin Locked
    BY <1>1, HeadTailProperties, EmptySeq DEF Unlocked
  <1>3. WellFormed(u \o v)
    <2> SUFFICES ASSUME NEW i \in 1 .. Len(u) + Len(v)
                 PROVE  /\ (u \o v)[i].do = "cancel" => i + 1 \in 1 .. Len(u) + Len(v) /\ (u \o v)[i + 1].do = "close"
                        /\ i # 1 => /\ (u \o v)[i].do # "publish"
                                    /\ (u \o v)[i].do = "close" => (u \o v)[i - 1].do = "cancel"
                                    /\ (u \o v)[i].do = "unlink" => (u \o v)[i - 1].do = "close"
      BY <1>1 DEF WellFormed
    <2>1. CASE i <= Len(u)
      <3>1. i \in DOMAIN u /\ (u \o v)[i] = u[i]
        BY <1>1, <2>1
      <3>2. i # 1 => i - 1 \in 1 .. Len(u) + Len(v) /\ (u \o v)[i - 1] = u[i - 1]
        BY <1>1, <2>1
      <3>3. i + 1 \in DOMAIN u => i + 1 \in 1 .. Len(u) + Len(v) /\ (u \o v)[i + 1] = u[i + 1]
        BY <1>1, <2>1
      <3> QED BY <3>1, <3>2, <3>3 DEF WellFormed
    <2>2. CASE i > Len(u)
      <3> DEFINE m == i - Len(u)
      <3>1. m \in DOMAIN v /\ (u \o v)[i] = v[m]
        BY <1>1, <2>2
      <3>2. m # 1 => m - 1 \in DOMAIN v /\ i - 1 \in 1 .. Len(u) + Len(v) /\ (u \o v)[i - 1] = v[m - 1]
        <4>1. m # 1 => i - 1 \in 1 .. Len(u) + Len(v) /\ ~(i - 1 <= Len(u)) /\ (i - 1) - Len(u) = m - 1 /\ m - 1 \in 1 .. Len(v)
          BY <1>1, <2>2
        <4> QED BY <1>1, <4>1
      <3>3. m + 1 \in DOMAIN v => i + 1 \in 1 .. Len(u) + Len(v) /\ (u \o v)[i + 1] = v[m + 1]
        <4>1. m + 1 \in DOMAIN v => i + 1 \in 1 .. Len(u) + Len(v) /\ ~(i + 1 <= Len(u)) /\ (i + 1) - Len(u) = m + 1
          BY <1>1, <2>2
        <4> QED BY <1>1, <4>1
      <3> HIDE DEF m
      <3> QED BY <1>2, <3>1, <3>2, <3>3 DEF WellFormed, Locked
    <2> QED BY <1>1, <2>1, <2>2
  <1>4. u = << >> => u \o v = v
    BY ConcatEmptySeq
  <1>5. u # << >> => u \o v # << >> /\ Head(u \o v) = Head(u)
    <2> SUFFICES ASSUME u # << >> PROVE u \o v # << >> /\ Head(u \o v) = Head(u)
      OBVIOUS
    <2>1. Len(u) # 0 /\ Len(u \o v) # 0 /\ u \o v # << >>
      BY <1>1, EmptySeq
    <2>2. Head(u) = u[1] /\ Head(u \o v) = (u \o v)[1]
      BY <1>1, <2>1, HeadTailProperties
    <2> QED BY <1>1, <2>1, <2>2
  <1> QED BY <1>1, <1>3, <1>4, <1>5

\* A list of one step.
LEMMA OneItem ==
    ASSUME NEW x \in Items, x.do # "cancel"
    PROVE  <<x>> \in Seq(Items) /\ WellFormed(<<x>>) /\ <<x>> # << >> /\ Head(<<x>>) = x
  BY DEF WellFormed

\* What each kind of step carries.
LEMMA ItemFields ==
    ASSUME NEW x \in Items
    PROVE  /\ x.do \in {"keepPaused", "keepEnabled", "keepOn", "apply", "answer"} => x.value \in BOOLEAN
           /\ x.do = "keepAddress" => x.value \in Addresses
           /\ x.do = "open" => x.shown \in BOOLEAN
  BY DEF Items

-----------------------------------------------------------------------------
(* What a step of a request leaves as it is *)

\* One list changes, and the lock with it.
LEMMA LocksKept ==
    ASSUME TypeOK, Locks, NEW t \in Threads, NEW more \in Seq(Items), WellFormed(more), Then(t, more),
           lifecycle' = t <=> ~Unlocked(more),
           \A u \in Threads \ {t} : lifecycle' = u <=> lifecycle = u
    PROVE  /\ Locks' /\ todo' \in [Threads -> Seq(Items)]
           /\ todo'[t] = more /\ \A u \in Threads \ {t} : todo'[u] = todo[u]
  <1>1. /\ todo' \in [Threads -> Seq(Items)]
        /\ todo'[t] = more /\ \A u \in Threads \ {t} : todo'[u] = todo[u]
    BY DEF TypeOK, Then
  <1>2. ASSUME NEW u \in Threads PROVE WellFormed(todo'[u]) /\ (lifecycle' = u <=> ~Unlocked(todo'[u]))
    <2>1. CASE u = t
      BY <1>1, <2>1
    <2>2. CASE u # t
      BY <1>1, <2>2 DEF Locks
    <2> QED BY <2>1, <2>2
  <1> QED BY <1>1, <1>2 DEF Locks, WellFormed, Unlocked

\* An index that stays as it is stays sound.
LEMMA SoundStays ==
    ASSUME \A i \in past \cup {index} : Sound(i), UNCHANGED <<whole, misled>>, past' \cup {index'} \subseteq past \cup {index}
    PROVE  (\A i \in past \cup {index} : Sound(i))'
  BY DEF Sound, Whole, CursorOf

\* A step that neither takes nor hands on the lock, and leaves the loop and its index alone.
LEMMA RequestKeeps ==
    ASSUME IInv, TypeOK', NEW t \in Threads, NEW more \in Seq(Items), WellFormed(more), Then(t, more),
           Unlocked(todo[t]), Unlocked(more),
           UNCHANGED <<lifecycle, loop, disk, whole, misled>>,
           engine'.open = engine.open, engine'.everReady = engine.everReady, engine'.covered = engine.covered,
           engine'.address = engine.address \/ (lifecycle = Free /\ ~engine.open)
    PROVE  IInv'
  <1> USE DEF IInv, disk
  <1>1. lifecycle # t
    BY DEF Locks
  <1>2. /\ Locks'
        /\ todo'[t] = more /\ \A u \in Threads \ {t} : todo'[u] = todo[u]
    BY <1>1, LocksKept
  <1>3. Work'
    <2> SUFFICES ASSUME NEW u \in Threads
                 PROVE  /\ Doing(u, "publish")' => (~engine.open /\ index.there /\ index.built = engine.address)'
                        /\ Doing(u, "unlink")' => ~engine'.open
      BY DEF Work
    <2>1. CASE u = t
      BY <1>2, <2>1 DEF Doing, Unlocked, Locked
    <2>2. CASE u # t
      <3>1. lifecycle = Free => ~Doing(u, "publish")
        BY PtrSyncAssumption DEF Locks, Unlocked, Locked, Doing
      <3>2. /\ Doing(u, "publish")' => Doing(u, "publish")
            /\ Doing(u, "unlink")' => Doing(u, "unlink")
        BY <1>2, <2>2 DEF Doing
      <3> QED BY <3>1, <3>2 DEF Work
    <2> QED BY <2>1, <2>2
  <1>4. (\A i \in past \cup {index} : Sound(i))'
    BY SoundStays
  <1>5. Engine' /\ Looping'
    BY DEF Engine, Looping, Whole, Cursor, InOrder
  <1> QED BY <1>2, <1>3, <1>4, <1>5

-----------------------------------------------------------------------------
(* The steps of a request *)

LEMMA PauseKeeps ==
    ASSUME IInv, NEW t \in Threads, Pause(t)
    PROVE  IInv'
  <1> DEFINE s == todo[t]
  <1>1. s \in Seq(Items) /\ s # << >> /\ WellFormed(s) /\ Head(s).do = "pause" /\ Then(t, Tail(s))
    BY DEF IInv, TypeOK, Locks, Pause, Doing, Rest
  <1>2. Tail(s) \in Seq(Items) /\ WellFormed(Tail(s)) /\ Unlocked(Tail(s)) /\ Unlocked(s)
    BY <1>1, RestOfList DEF Unlocked, Locked
  <1>3. TypeOK'
    BY <1>1, <1>2 DEF IInv, TypeOK, Pause, Then, States, disk, bounds
  <1>4. /\ UNCHANGED <<lifecycle, loop, disk, whole, misled>>
        /\ engine'.open = engine.open /\ engine'.everReady = engine.everReady /\ engine'.covered = engine.covered
        /\ engine'.address = engine.address
    BY DEF IInv, TypeOK, Pause
  <1> HIDE DEF s
  <1> QED BY <1>1, <1>2, <1>3, <1>4, RequestKeeps DEF s

LEMMA ResumeKeeps ==
    ASSUME IInv, NEW t \in Threads, Resume(t)
    PROVE  IInv'
  <1> DEFINE s == todo[t]
  <1>1. s \in Seq(Items) /\ s # << >> /\ WellFormed(s) /\ Head(s).do = "resume" /\ Then(t, Tail(s))
    BY DEF IInv, TypeOK, Locks, Resume, Doing, Rest
  <1>2. Tail(s) \in Seq(Items) /\ WellFormed(Tail(s)) /\ Unlocked(Tail(s)) /\ Unlocked(s)
    BY <1>1, RestOfList DEF Unlocked, Locked
  <1>3. TypeOK'
    BY <1>1, <1>2 DEF IInv, TypeOK, Resume, Then, States, disk, hist, bounds, Resumed
  <1>4. /\ UNCHANGED <<lifecycle, loop, disk, whole, misled>>
        /\ engine'.open = engine.open /\ engine'.everReady = engine.everReady /\ engine'.covered = engine.covered
        /\ engine'.address = engine.address
    BY DEF IInv, TypeOK, Resume, hist, Resumed
  <1> HIDE DEF s
  <1> QED BY <1>1, <1>2, <1>3, <1>4, RequestKeeps DEF s

LEMMA ShowErrorKeeps ==
    ASSUME IInv, NEW t \in Threads, ShowError(t)
    PROVE  IInv'
  <1> DEFINE s == todo[t]
  <1>1. s \in Seq(Items) /\ s # << >> /\ WellFormed(s) /\ Head(s).do = "showError" /\ Then(t, Tail(s))
    BY DEF IInv, TypeOK, Locks, ShowError, Doing, Rest
  <1>2. Tail(s) \in Seq(Items) /\ WellFormed(Tail(s)) /\ Unlocked(Tail(s)) /\ Unlocked(s)
    BY <1>1, RestOfList DEF Unlocked, Locked
  <1>3. TypeOK'
    BY <1>1, <1>2 DEF IInv, TypeOK, ShowError, Then, States, disk, hist, bounds, SetState
  <1>4. /\ UNCHANGED <<lifecycle, loop, disk, whole, misled>>
        /\ engine'.open = engine.open /\ engine'.everReady = engine.everReady /\ engine'.covered = engine.covered
        /\ engine'.address = engine.address
    BY DEF IInv, TypeOK, ShowError, hist, SetState
  <1> HIDE DEF s
  <1> QED BY <1>1, <1>2, <1>3, <1>4, RequestKeeps DEF s

LEMMA SetAddressKeeps ==
    ASSUME IInv, NEW t \in Threads, SetAddress(t)
    PROVE  IInv'
  <1> DEFINE s == todo[t]
  <1>1. s \in Seq(Items) /\ s # << >> /\ WellFormed(s) /\ Head(s).do = "setAddress" /\ Then(t, Tail(s))
    BY DEF IInv, TypeOK, Locks, SetAddress, Doing, Rest
  <1>2. Tail(s) \in Seq(Items) /\ WellFormed(Tail(s)) /\ Unlocked(Tail(s)) /\ Unlocked(s)
    BY <1>1, RestOfList DEF Unlocked, Locked
  <1>3. TypeOK'
    BY <1>1, <1>2 DEF IInv, TypeOK, SetAddress, Then, States, disk, hist, bounds
  <1>4. /\ UNCHANGED <<lifecycle, loop, disk, whole, misled>>
        /\ engine'.open = engine.open /\ engine'.everReady = engine.everReady /\ engine'.covered = engine.covered
        /\ (engine'.address = engine.address \/ (lifecycle = Free /\ ~engine.open))
    BY DEF IInv, TypeOK, SetAddress, hist
  <1> HIDE DEF s
  <1> QED BY <1>1, <1>2, <1>3, <1>4, RequestKeeps DEF s

LEMMA AnswerKeeps ==
    ASSUME IInv, NEW t \in Threads, Answer(t)
    PROVE  IInv'
  <1> DEFINE s == todo[t]
  <1>1. s \in Seq(Items) /\ s # << >> /\ WellFormed(s) /\ Head(s).do = "answer" /\ Then(t, Tail(s))
    BY DEF IInv, TypeOK, Locks, Answer, Doing, Rest
  <1>2. Tail(s) \in Seq(Items) /\ WellFormed(Tail(s)) /\ Unlocked(Tail(s)) /\ Unlocked(s)
    BY <1>1, RestOfList DEF Unlocked, Locked
  <1>3. TypeOK'
    BY <1>1, <1>2 DEF IInv, TypeOK, Answer, Then, disk, hist, bounds
  <1>4. /\ UNCHANGED <<lifecycle, loop, disk, whole, misled>>
        /\ engine'.open = engine.open /\ engine'.everReady = engine.everReady /\ engine'.covered = engine.covered
        /\ engine'.address = engine.address
    BY DEF IInv, TypeOK, Answer, hist
  <1> HIDE DEF s
  <1> QED BY <1>1, <1>2, <1>3, <1>4, RequestKeeps DEF s

LEMMA KeepSettingKeeps ==
    ASSUME IInv, NEW t \in Threads, KeepSetting(t)
    PROVE  IInv'
  <1> DEFINE s == todo[t]
  <1>1. /\ s \in Seq(Items) /\ s # << >> /\ WellFormed(s) /\ Then(t, Tail(s))
        /\ Head(s).do \in {"keepPaused", "keepEnabled", "keepOn", "keepAddress"}
    BY DEF IInv, TypeOK, Locks, KeepSetting, Doing, Rest
  <1>2. Tail(s) \in Seq(Items) /\ WellFormed(Tail(s)) /\ Unlocked(Tail(s)) /\ Unlocked(s) /\ Head(s) \in Items
    BY <1>1, RestOfList DEF Unlocked, Locked
  <1>3. TypeOK'
    <2>1. config' \in [enabled : BOOLEAN, paused : BOOLEAN, address : Addresses]
      <3>1. config \in [enabled : BOOLEAN, paused : BOOLEAN, address : Addresses]
        BY DEF IInv, TypeOK
      <3>2. \/ Head(s).value \in BOOLEAN /\ config' = [config EXCEPT !.paused = Head(s).value]
            \/ Head(s).value \in BOOLEAN /\ config' = [config EXCEPT !.enabled = Head(s).value]
            \/ Head(s).value \in BOOLEAN /\ config' = [config EXCEPT !.enabled = TRUE, !.paused = @ /\ ~Head(s).value]
            \/ Head(s).value \in Addresses /\ config' = [config EXCEPT !.address = Head(s).value]
        BY <1>2, ItemFields DEF KeepSetting, Doing
      <3>3. (config.paused /\ ~Head(s).value) \in BOOLEAN
        OBVIOUS
      <3> QED BY <3>1, <3>2, <3>3
    <2>2. todo' \in [Threads -> Seq(Items)]
      BY <1>1, <1>2 DEF IInv, TypeOK, Then
    <2> QED BY <2>1, <2>2 DEF IInv, TypeOK, KeepSetting, disk, hist
  <1>4. UNCHANGED <<lifecycle, loop, disk, whole, misled, engine>>
    BY DEF KeepSetting, hist
  <1> HIDE DEF s
  <1> QED BY <1>1, <1>2, <1>3, <1>4, RequestKeeps DEF s

LEMMA RetryKeeps ==
    ASSUME IInv, NEW t \in Threads, Retry(t)
    PROVE  IInv'
  <1> DEFINE s == todo[t]
             x == IF engine.open THEN Do("resume") ELSE OpenItem(TRUE)
  <1>1. /\ s \in Seq(Items) /\ s # << >> /\ WellFormed(s) /\ Head(s).do = "retry"
        /\ Then(t, <<x>> \o Tail(s))
    BY DEF IInv, TypeOK, Locks, Retry, Doing, Rest
  <1>2. Tail(s) \in Seq(Items) /\ WellFormed(Tail(s)) /\ Unlocked(Tail(s)) /\ Unlocked(s)
    BY <1>1, RestOfList DEF Unlocked, Locked
  <1>3. x \in Items /\ x.do \notin Locked /\ x.do # "cancel"
    BY DEF Items, Do, OpenItem, Locked
  <1>4. <<x>> \o Tail(s) \in Seq(Items) /\ WellFormed(<<x>> \o Tail(s)) /\ Unlocked(<<x>> \o Tail(s))
    <2> HIDE DEF x, s
    <2>1. <<x>> \in Seq(Items) /\ WellFormed(<<x>>) /\ <<x>> # << >> /\ Head(<<x>>) = x
      BY <1>3, OneItem
    <2> QED BY <1>2, <1>3, <2>1, ListBefore DEF Unlocked
  <1>5. TypeOK'
    <2> HIDE DEF x, s
    <2> QED BY <1>1, <1>4 DEF IInv, TypeOK, Retry, Then, disk, hist, bounds
  <1>6. UNCHANGED <<lifecycle, loop, disk, whole, misled, engine>>
    BY DEF Retry, hist
  <1> HIDE DEF s, x
  <1> QED BY <1>1, <1>2, <1>4, <1>5, <1>6, RequestKeeps DEF s

LEMMA ApplyKeeps ==
    ASSUME IInv, NEW t \in Threads, Apply(t)
    PROVE  IInv'
  <1> DEFINE s == todo[t]
             u == Application(Head(s).value)
  <1>1. /\ s \in Seq(Items) /\ s # << >> /\ WellFormed(s) /\ Head(s).do = "apply"
        /\ Then(t, u \o Tail(s))
    BY DEF IInv, TypeOK, Locks, Apply, Doing, Rest
  <1>2. Tail(s) \in Seq(Items) /\ WellFormed(Tail(s)) /\ Unlocked(Tail(s)) /\ Unlocked(s)
    BY <1>1, RestOfList DEF Unlocked, Locked
  <1>3. u \in Seq(Items) /\ WellFormed(u) /\ Unlocked(u)
    <2> DEFINE on  == <<OpenItem(FALSE), Keep("keepOn", config.paused)>>
               off == <<Do("cancel"), Do("close"), Keep("keepEnabled", FALSE)>>
               up  == <<Do("resume")>>
    <2>1. config.paused \in BOOLEAN
      BY DEF IInv, TypeOK
    <2>2. on \in Seq(Items) /\ WellFormed(on) /\ Unlocked(on)
      BY <2>1 DEF Items, OpenItem, Keep, WellFormed, Unlocked, Locked
    <2>3. off \in Seq(Items) /\ WellFormed(off) /\ Unlocked(off)
      BY DEF Items, Do, Keep, WellFormed, Unlocked, Locked
    <2>4. up \in Seq(Items) /\ WellFormed(up) /\ Unlocked(up) /\ up # << >>
      BY DEF Items, Do, WellFormed, Unlocked, Locked
    <2>5. up \o on \in Seq(Items) /\ WellFormed(up \o on) /\ Unlocked(up \o on)
      <3> HIDE DEF up, on
      <3> QED BY <2>2, <2>4, ListBefore DEF Unlocked
    <2>6. << >> \o on \in Seq(Items) /\ WellFormed(<< >> \o on) /\ Unlocked(<< >> \o on)
      <3> HIDE DEF on
      <3> QED BY <2>2, EmptyList, ListBefore
    <2>7. u = << >> \/ u = up \o on \/ u = << >> \o on \/ u = off
      BY DEF Application
    <2> HIDE DEF u, on, off, up
    <2> QED BY <2>3, <2>5, <2>6, <2>7, EmptyList
  <1>4. u \o Tail(s) \in Seq(Items) /\ WellFormed(u \o Tail(s)) /\ Unlocked(u \o Tail(s))
    <2> HIDE DEF u, s
    <2> QED BY <1>2, <1>3, ListBefore DEF Unlocked
  <1>5. TypeOK'
    <2> HIDE DEF u, s
    <2> QED BY <1>1, <1>4 DEF IInv, TypeOK, Apply, Then, disk, hist, bounds
  <1>6. UNCHANGED <<lifecycle, loop, disk, whole, misled, engine>>
    BY DEF Apply, hist
  <1> HIDE DEF s, u
  <1> QED BY <1>1, <1>2, <1>4, <1>5, <1>6, RequestKeeps DEF s

-----------------------------------------------------------------------------
(* The steps that take, hold or give back the lock *)

\* With the lock in one hand, no other request holds it.
LEMMA OneHolder ==
    ASSUME Locks, NEW t \in Threads, ~Unlocked(todo[t]) \/ lifecycle = Free, NEW u \in Threads \ {t}
    PROVE  Unlocked(todo[u]) /\ ~Doing(u, "publish") /\ ~Doing(u, "unlink")
  <1>1. lifecycle # u
    BY PtrSyncAssumption DEF Locks
  <1> QED BY <1>1 DEF Locks, Unlocked, Locked, Doing

LEMMA OpenStoreKeeps ==
    ASSUME IInv, NEW t \in Threads, OpenStore(t)
    PROVE  IInv'
  <1> DEFINE s == todo[t]
             rest == <<Do("publish")>> \o Tail(s)
  <1>1. /\ s \in Seq(Items) /\ s # << >> /\ WellFormed(s) /\ Head(s).do = "open" /\ lifecycle = Free
        /\ Head(s) \in Items
    BY RestOfList DEF IInv, TypeOK, Locks, OpenStore, Doing
  <1>2. Tail(s) \in Seq(Items) /\ WellFormed(Tail(s)) /\ Unlocked(Tail(s)) /\ Unlocked(s)
    BY <1>1, RestOfList DEF Unlocked, Locked
  <1>3. UNCHANGED <<published, config, engine, loop, whole, misled, asked>>
    BY DEF OpenStore, hist
  <1>4. CASE /\ Then(t, Tail(s)) \/ Then(t, Refuse(t))
             /\ UNCHANGED <<lifecycle, disk>>
    <2>1. PICK more : Then(t, more) /\ more \in {Tail(s), << >>, <<Do("showError")>>}
      BY <1>4 DEF Refuse
    <2>2. more \in Seq(Items) /\ WellFormed(more) /\ Unlocked(more)
      <3>1. Do("showError") \in Items /\ Do("showError").do = "showError"
        BY DEF Do, Items
      <3>2. <<Do("showError")>> \in Seq(Items) /\ WellFormed(<<Do("showError")>>) /\ Unlocked(<<Do("showError")>>)
        BY <3>1, OneItem DEF Unlocked, Locked
      <3> QED BY <1>2, <2>1, <3>2, EmptyList
    <2>3. TypeOK'
      BY <1>3, <1>4, <2>1, <2>2 DEF IInv, TypeOK, Then, disk
    <2> QED BY <1>2, <1>3, <1>4, <2>1, <2>2, <2>3, RequestKeeps
  <1>5. CASE /\ ~engine.open /\ Claimed.built = engine.address
             /\ IF Claimed = index THEN UNCHANGED disk ELSE Commit(Claimed)
             /\ lifecycle' = t /\ Then(t, rest)
    <2>1. /\ rest \in Seq(Items) /\ WellFormed(rest) /\ ~Unlocked(rest)
      <3>1. Do("publish") \in Items /\ Do("publish").do = "publish"
        BY DEF Do, Items
      <3> HIDE DEF s
      <3>2. <<Do("publish")>> \in Seq(Items) /\ WellFormed(<<Do("publish")>>) /\ <<Do("publish")>> # << >>
            /\ Head(<<Do("publish")>>) = Do("publish")
        BY <3>1, OneItem
      <3> QED BY <1>2, <3>1, <3>2, ListBefore DEF Unlocked, Locked
    <2>2. index' = Claimed /\ past' \subseteq past \cup {index}
      BY <1>5 DEF Commit, disk
    <2>3. /\ Claimed \in Indexes /\ Claimed.there /\ Claimed.applied = index.applied
          /\ Claimed.covered = index.covered /\ Claimed.ready = index.ready
          /\ index.there => Claimed.built = index.built
      BY DEF Claimed, Indexes, IInv, TypeOK
    <2>4. /\ Locks' /\ todo' \in [Threads -> Seq(Items)]
          /\ todo'[t] = rest /\ \A u \in Threads \ {t} : todo'[u] = todo[u]
      <3>1. \A u \in Threads \ {t} : lifecycle' = u <=> lifecycle = u
        BY <1>1, <1>5, PtrSyncAssumption
      <3> HIDE DEF rest
      <3> QED BY <1>5, <2>1, <3>1, LocksKept DEF IInv
    <2> HIDE DEF rest, s
    <2>5. TypeOK'
      BY <1>3, <1>5, <2>2, <2>3, <2>4 DEF IInv, TypeOK
    <2>6. Work'
      <3> SUFFICES ASSUME NEW u \in Threads
                   PROVE  /\ (~engine.open /\ index.there /\ index.built = engine.address)' \/ ~Doing(u, "publish")'
                          /\ ~engine'.open
        BY DEF Work
      <3> QED BY <1>3, <1>5, <2>2, <2>3
    <2>7. (\A i \in past \cup {index} : Sound(i))'
      <3>1. Sound(Claimed)
        BY <2>3 DEF IInv, Sound, Whole, CursorOf
      <3>2. \A i \in past' \cup {index'} : Sound(i)
        BY <2>2, <3>1 DEF IInv
      <3> HIDE DEF IInv
      <3> QED BY <1>3, <3>2 DEF Sound, Whole, CursorOf
    <2>8. Engine' /\ Looping'
      BY <1>3, <1>5, <2>2, <2>3 DEF IInv, TypeOK, Places, Engine, Looping, Whole
    <2> QED BY <2>4, <2>5, <2>6, <2>7, <2>8 DEF IInv
  <1> QED BY <1>4, <1>5 DEF OpenStore, Rest

LEMMA PublishKeeps ==
    ASSUME IInv, NEW t \in Threads, Publish(t)
    PROVE  IInv'
  <1> DEFINE s == todo[t]
  <1>1. /\ s \in Seq(Items) /\ s # << >> /\ WellFormed(s) /\ Head(s).do = "publish" /\ Then(t, Tail(s))
        /\ ~engine.open /\ index.there /\ index.built = engine.address
    BY DEF IInv, TypeOK, Locks, Work, Publish, Doing, Rest
  <1>2. Tail(s) \in Seq(Items) /\ WellFormed(Tail(s)) /\ Unlocked(Tail(s)) /\ ~Unlocked(s)
    BY <1>1, RestOfList DEF Unlocked, Locked
  <1>3. lifecycle = t
    BY <1>2 DEF IInv, Locks
  <1>4. /\ Locks' /\ todo' \in [Threads -> Seq(Items)]
        /\ todo'[t] = Tail(s) /\ \A u \in Threads \ {t} : todo'[u] = todo[u]
    <2>1. lifecycle' = Free
      BY DEF Publish
    <2>2. \A u \in Threads : lifecycle' # u
      BY <2>1, PtrSyncAssumption
    <2> QED BY <1>1, <1>2, <1>3, <2>2, LocksKept DEF IInv
  <1>5. /\ UNCHANGED <<disk, whole, misled, published, config, asked>>
        /\ engine' = Opened /\ loop' = At("seed") /\ lifecycle' = Free
    BY DEF Publish, hist
  <1>6. TypeOK'
    BY <1>4, <1>5 DEF IInv, TypeOK, Opened, At, Places, States, Indexes, disk
  <1>7. Work'
    <2>1. \A u \in Threads : ~Doing(u, "publish")' /\ ~Doing(u, "unlink")'
      <3> SUFFICES ASSUME NEW u \in Threads PROVE ~Doing(u, "publish")' /\ ~Doing(u, "unlink")'
        OBVIOUS
      <3>1. CASE u = t
        BY <1>2, <1>4, <3>1 DEF Doing, Unlocked, Locked
      <3>2. CASE u # t
        BY <1>2, <1>4, <3>2, OneHolder DEF Doing, IInv
      <3> QED BY <3>1, <3>2
    <2> QED BY <2>1 DEF Work
  <1>8. (\A i \in past \cup {index} : Sound(i))'
    BY <1>5, SoundStays DEF IInv, disk
  <1>9. Engine' /\ Looping'
    BY <1>1, <1>5 DEF IInv, TypeOK, Opened, At, Engine, Looping, Sound, Whole, disk
  <1> QED BY <1>4, <1>6, <1>7, <1>8, <1>9 DEF IInv

LEMMA CancelLoopKeeps ==
    ASSUME IInv, NEW t \in Threads, CancelLoop(t)
    PROVE  IInv'
  <1> DEFINE s == todo[t]
  <1>1. /\ s \in Seq(Items) /\ s # << >> /\ WellFormed(s) /\ Head(s).do = "cancel" /\ Then(t, Tail(s))
        /\ lifecycle = Free /\ lifecycle' = t
    BY DEF IInv, TypeOK, Locks, CancelLoop, Doing, Rest
  <1>2. /\ Tail(s) \in Seq(Items) /\ WellFormed(Tail(s))
        /\ Tail(s) # << >> /\ Head(Tail(s)).do = "close"
    BY <1>1, RestOfList
  <1>3. /\ Locks' /\ todo' \in [Threads -> Seq(Items)]
        /\ todo'[t] = Tail(s) /\ \A u \in Threads \ {t} : todo'[u] = todo[u]
    <2>1. \A u \in Threads \ {t} : lifecycle' = u <=> lifecycle = u
      BY <1>1, PtrSyncAssumption
    <2> QED BY <1>1, <1>2, <2>1, LocksKept DEF IInv, Unlocked, Locked
  <1>4. /\ UNCHANGED <<disk, whole, misled, published, config, asked, loop>>
        /\ engine' = [engine EXCEPT !.ctx = "canceled"]
    BY DEF CancelLoop, hist
  <1>5. TypeOK'
    BY <1>1, <1>3, <1>4 DEF IInv, TypeOK, disk
  <1>6. Work'
    <2> SUFFICES ASSUME NEW u \in Threads PROVE ~Doing(u, "publish")' /\ ~Doing(u, "unlink")'
      BY DEF Work
    <2>1. CASE u = t
      BY <1>2, <1>3, <2>1 DEF Doing
    <2>2. CASE u # t
      BY <1>1, <1>3, <2>2, OneHolder DEF Doing, IInv
    <2> QED BY <2>1, <2>2
  <1>7. (\A i \in past \cup {index} : Sound(i))'
    BY <1>4, SoundStays DEF IInv, disk
  <1>8. Engine' /\ Looping'
    BY <1>4 DEF IInv, TypeOK, Engine, Looping, Whole, disk, Cursor, InOrder
  <1> QED BY <1>3, <1>5, <1>6, <1>7, <1>8 DEF IInv

LEMMA CloseStoreKeeps ==
    ASSUME IInv, NEW t \in Threads, CloseStore(t)
    PROVE  IInv'
  <1> DEFINE s == todo[t]
  <1>1. /\ s \in Seq(Items) /\ s # << >> /\ WellFormed(s) /\ Head(s).do = "close" /\ Then(t, Tail(s))
        /\ loop.at = "none"
        /\ lifecycle' = IF Tail(s) # << >> /\ Head(Tail(s)).do = "unlink" THEN t ELSE Free
    BY DEF IInv, TypeOK, Locks, CloseStore, Ended, Doing, Rest
  <1>2. /\ Tail(s) \in Seq(Items) /\ WellFormed(Tail(s)) /\ ~Unlocked(s)
        /\ Tail(s) = << >> \/ Head(Tail(s)).do \notin {"publish", "close"}
    BY <1>1, RestOfList DEF Unlocked, Locked
  <1>3. lifecycle = t
    BY <1>2 DEF IInv, Locks
  <1>4. /\ Locks' /\ todo' \in [Threads -> Seq(Items)]
        /\ todo'[t] = Tail(s) /\ \A u \in Threads \ {t} : todo'[u] = todo[u]
    <2>1. lifecycle' = t <=> ~Unlocked(Tail(s))
      BY <1>1, <1>2, PtrSyncAssumption DEF Unlocked, Locked
    <2>2. \A u \in Threads \ {t} : lifecycle' = u <=> lifecycle = u
      BY <1>1, <1>3, PtrSyncAssumption
    <2> QED BY <1>1, <1>2, <2>1, <2>2, LocksKept DEF IInv
  <1>5. /\ UNCHANGED <<index, loop, whole, misled, published, config>>
        /\ past' = {} /\ asked' = FALSE
        /\ engine' = [engine EXCEPT !.open = FALSE, !.state = "disabled", !.covered = 0]
    BY DEF CloseStore
  <1>6. TypeOK'
    <2>1. lifecycle' \in Threads \cup {Free}
      BY <1>1
    <2>2. engine' \in [open : BOOLEAN, ctx : {"live", "canceled"}, state : States, everReady : BOOLEAN,
                       paused : BOOLEAN, wake : BOOLEAN, covered : 0 .. MaxUpdates, address : Addresses]
      <3>1. 0 \in 0 .. MaxUpdates /\ "disabled" \in States
        BY PtrSyncAssumption DEF States
      <3> QED BY <1>5, <3>1 DEF IInv, TypeOK
    <2> QED BY <1>4, <1>5, <2>1, <2>2 DEF IInv, TypeOK
  <1>7. ~engine'.open /\ engine'.covered = 0
    BY <1>5 DEF IInv, TypeOK
  <1>8. Work'
    <2> SUFFICES ASSUME NEW u \in Threads PROVE ~Doing(u, "publish")'
      BY <1>7 DEF Work
    <2>1. CASE u = t
      BY <1>2, <1>4, <2>1 DEF Doing
    <2>2. CASE u # t
      BY <1>2, <1>4, <2>2, OneHolder DEF Doing, IInv
    <2> QED BY <2>1, <2>2
  <1>9. (\A i \in past \cup {index} : Sound(i))'
    BY <1>5, SoundStays DEF IInv
  <1>10. Engine' /\ Looping'
    BY <1>1, <1>5, <1>7 DEF IInv, TypeOK, Indexes, Engine, Looping, Whole
  <1> QED BY <1>4, <1>6, <1>8, <1>9, <1>10 DEF IInv

LEMMA UnlinkKeeps ==
    ASSUME IInv, NEW t \in Threads, Unlink(t)
    PROVE  IInv'
  <1> DEFINE s == todo[t]
  <1>1. /\ s \in Seq(Items) /\ s # << >> /\ WellFormed(s) /\ Head(s).do = "unlink"
        /\ ~engine.open /\ engine.covered = 0
    BY DEF IInv, TypeOK, Locks, Work, Engine, Unlink, Doing
  <1>2. /\ Tail(s) \in Seq(Items) /\ WellFormed(Tail(s)) /\ Unlocked(Tail(s)) /\ ~Unlocked(s)
    BY <1>1, RestOfList DEF Unlocked, Locked
  <1>3. lifecycle = t
    BY <1>2 DEF IInv, Locks
  <1>4. PICK more : Then(t, more) /\ more \in {Tail(s), << >>}
    BY DEF Unlink, Rest
  <1>5. more \in Seq(Items) /\ WellFormed(more) /\ Unlocked(more)
    BY <1>2, <1>4, EmptyList
  <1>6. /\ UNCHANGED <<loop, published, config, asked>>
        /\ lifecycle' = Free
        /\ engine' = [engine EXCEPT !.everReady = FALSE]
        /\ \/ index' = NoIndex /\ past' = {} /\ whole' = None /\ misled' = FALSE
           \/ UNCHANGED <<index, past, whole, misled>>
    BY DEF Unlink, disk
  <1>7. /\ Locks' /\ todo' \in [Threads -> Seq(Items)]
        /\ todo'[t] = more /\ \A u \in Threads \ {t} : todo'[u] = todo[u]
    <2>1. \A u \in Threads : lifecycle' # u
      BY <1>6, PtrSyncAssumption
    <2> QED BY <1>3, <1>4, <1>5, <2>1, LocksKept DEF IInv
  <1>8. NoIndex \in Indexes /\ Sound(NoIndex)'
    BY PtrSyncAssumption DEF NoIndex, Indexes, Sound, CursorOf
  <1>9. TypeOK'
    BY <1>6, <1>7, <1>8 DEF IInv, TypeOK
  <1>10. ~engine'.open /\ engine'.covered = 0
    BY <1>1, <1>6 DEF IInv, TypeOK
  <1>11. Work'
    <2> SUFFICES ASSUME NEW u \in Threads PROVE ~Doing(u, "publish")'
      BY <1>10 DEF Work
    <2>1. CASE u = t
      BY <1>5, <1>7, <2>1 DEF Doing, Unlocked, Locked
    <2>2. CASE u # t
      BY <1>2, <1>7, <2>2, OneHolder DEF Doing, IInv
    <2> QED BY <2>1, <2>2
  <1>12. (\A i \in past \cup {index} : Sound(i))'
    <2>1. CASE UNCHANGED <<index, past, whole, misled>>
      BY <2>1, SoundStays DEF IInv
    <2>2. CASE index' = NoIndex /\ past' = {}
      BY <1>8, <2>2 DEF Sound, Whole, CursorOf
    <2> QED BY <1>6, <2>1, <2>2
  <1>13. Engine' /\ Looping'
    BY <1>1, <1>6, <1>10 DEF IInv, TypeOK, Indexes, NoIndex, Engine, Looping, Whole
  <1> QED BY <1>7, <1>9, <1>11, <1>12, <1>13 DEF IInv

LEMMA ProceedKeeps ==
    ASSUME IInv, NEW t \in Threads, Proceed(t)
    PROVE  IInv'
  BY PauseKeeps, ResumeKeeps, RetryKeeps, OpenStoreKeeps, PublishKeeps, ShowErrorKeeps, CancelLoopKeeps,
     CloseStoreKeeps, UnlinkKeeps, SetAddressKeeps, ApplyKeeps, KeepSettingKeeps, AnswerKeeps
     DEF Proceed

\* A request begins with a list that takes no lock yet.
LEMMA BeginKeeps ==
    ASSUME IInv, NEW c \in Callers, Begin(c)
    PROVE  IInv'
  <1>1. c \in Threads /\ todo[c] = << >>
    BY DEF Threads, Begin, Request
  <1>2. PICK items :
          /\ Request(c, items)
          /\ \/ items = <<Do("pause"), Keep("keepPaused", TRUE)>>
             \/ items = <<Do("resume"), Keep("keepPaused", FALSE)>>
             \/ items = <<Do("retry")>>
             \/ items = <<Keep("apply", TRUE)>>
             \/ items = <<Do("cancel"), Do("close"), Do("unlink"), Keep("keepEnabled", FALSE)>>
             \/ \E a \in Addresses, on \in BOOLEAN :
                  items = <<Keep("keepAddress", a), Do("setAddress"), Keep("apply", on), Keep("answer", on)>>
    BY DEF Begin
  <1>3. items \in Seq(Items) /\ WellFormed(items) /\ Unlocked(items)
    <2>1. CASE items = <<Do("pause"), Keep("keepPaused", TRUE)>>
      BY <2>1 DEF Do, Keep, Items, WellFormed, Unlocked, Locked
    <2>2. CASE items = <<Do("resume"), Keep("keepPaused", FALSE)>>
      BY <2>2 DEF Do, Keep, Items, WellFormed, Unlocked, Locked
    <2>3. CASE items = <<Do("retry")>>
      BY <2>3 DEF Do, Keep, Items, WellFormed, Unlocked, Locked
    <2>4. CASE items = <<Keep("apply", TRUE)>>
      BY <2>4 DEF Do, Keep, Items, WellFormed, Unlocked, Locked
    <2>5. CASE items = <<Do("cancel"), Do("close"), Do("unlink"), Keep("keepEnabled", FALSE)>>
      BY <2>5 DEF Do, Keep, Items, WellFormed, Unlocked, Locked
    <2>6. ASSUME NEW a \in Addresses, NEW on \in BOOLEAN,
                 items = <<Keep("keepAddress", a), Do("setAddress"), Keep("apply", on), Keep("answer", on)>>
          PROVE  items \in Seq(Items) /\ WellFormed(items) /\ Unlocked(items)
      BY <2>6 DEF Do, Keep, Items, WellFormed, Unlocked, Locked
    <2> QED BY <1>2, <2>1, <2>2, <2>3, <2>4, <2>5, <2>6
  <1>4. Then(c, items) /\ UNCHANGED <<published, config, engine, lifecycle, loop, disk, whole, misled, asked>>
    BY <1>2 DEF Request, hist
  <1>5. TypeOK'
    BY <1>1, <1>3, <1>4 DEF IInv, TypeOK, Then, disk
  <1> QED BY <1>1, <1>3, <1>4, <1>5, RequestKeeps DEF Unlocked

-----------------------------------------------------------------------------
(* Sequences of updates *)

LEMMA FirstAndRest ==
    ASSUME NEW S, NEW s \in Seq(S), s # << >>
    PROVE  /\ s[1] \in S /\ 1 \in DOMAIN s /\ Tail(s) \in Seq(S)
           /\ \A k \in DOMAIN Tail(s) : k + 1 \in DOMAIN s /\ Tail(s)[k] = s[k + 1]
  <1>1. /\ Len(s) \in Nat \ {0} /\ DOMAIN s = 1 .. Len(s)
        /\ Tail(s) \in Seq(S) /\ DOMAIN Tail(s) = 1 .. Len(s) - 1
        /\ \A i \in 1 .. Len(s) - 1 : Tail(s)[i] = s[i + 1]
    BY HeadTailProperties, EmptySeq, LenProperties
  <1> QED BY <1>1, ElementOfSeq

\* The cursor is the last of the updates.
LEMMA CursorIsLast ==
    ASSUME NEW i \in Indexes, Sound(i), MaxUpdates \in Nat
    PROVE  /\ CursorOf(i) \in 0 .. MaxUpdates
           /\ \A k \in DOMAIN i.applied : i.applied[k][2] \in Nat /\ i.applied[k][2] <= CursorOf(i)
           /\ ~misled => CursorOf(i) = Len(i.applied)
  <1> DEFINE s == i.applied
  <1>1. s \in Seq(Addresses \X (1 .. MaxUpdates)) /\ Len(s) \in Nat /\ DOMAIN s = 1 .. Len(s)
    BY LenProperties DEF Indexes
  <1>2. \A k \in DOMAIN s : s[k] \in Addresses \X (1 .. MaxUpdates)
    BY <1>1, ElementOfSeq
  <1>3. s # << >> => Len(s) \in DOMAIN s
    BY <1>1, EmptySeq
  <1>4. s = << >> => Len(s) = 0
    OBVIOUS
  <1>5. \A k \in DOMAIN s : s[k][2] \in 1 .. MaxUpdates
    BY <1>2
  <1>6. CursorOf(i) \in 0 .. MaxUpdates
    BY <1>3, <1>5 DEF CursorOf
  <1>7. \A k \in DOMAIN s : s[k][2] <= CursorOf(i)
    <2> SUFFICES ASSUME NEW k \in DOMAIN s PROVE s[k][2] <= CursorOf(i)
      OBVIOUS
    <2>1. s # << >> /\ CursorOf(i) = s[Len(s)][2] /\ Len(s) \in DOMAIN s
      BY <1>1, <1>3, <1>4 DEF CursorOf
    <2>2. k = Len(s) \/ k < Len(s)
      BY <1>1
    <2>3. k < Len(s) => s[k][2] < s[Len(s)][2]
      BY <2>1 DEF Sound
    <2> QED BY <1>5, <2>1, <2>2, <2>3
  <1>8. ~misled => CursorOf(i) = Len(s)
    BY <1>3, <1>4 DEF CursorOf, Sound
  <1> QED BY <1>5, <1>6, <1>7, <1>8

LEMMA CursorIs == Cursor = CursorOf(index)
  BY DEF Cursor, CursorOf

\* An index of its fields.
LEMMA IndexMade ==
    ASSUME NEW b \in BOOLEAN, NEW x \in Addresses \cup {"none"}, NEW q \in Seq(Addresses \X (1 .. MaxUpdates)),
           NEW c \in 0 .. MaxUpdates, NEW r \in BOOLEAN
    PROVE  [there |-> b, built |-> x, applied |-> q, covered |-> c, ready |-> r] \in Indexes
  BY DEF Indexes

\* j is i with one more update, of number n.
Extends(j, i, n) ==
    /\ j \in Indexes /\ j.there = i.there /\ j.built = i.built /\ j.ready = i.ready /\ j.covered = n
    /\ j.applied = Append(i.applied, <<i.built, n>>)

LEMMA ExtendsIt ==
    ASSUME NEW i \in Indexes, i.built \in Addresses, NEW n \in 1 .. MaxUpdates
    PROVE  Extends([i EXCEPT !.applied = Append(@, <<i.built, n>>), !.covered = n], i, n)
  <1>1. PICK q : q = Append(i.applied, <<i.built, n>>)
    OBVIOUS
  <1>2. q \in Seq(Addresses \X (1 .. MaxUpdates)) /\ n \in 0 .. MaxUpdates
    BY <1>1 DEF Indexes
  <1>3. PICK j : j = [i EXCEPT !.applied = q, !.covered = n]
    OBVIOUS
  <1>4. j = [there |-> i.there, built |-> i.built, applied |-> q, covered |-> n, ready |-> i.ready]
    BY <1>3 DEF Indexes
  <1>5. i.there \in BOOLEAN /\ i.ready \in BOOLEAN /\ i.built \in Addresses \cup {"none"}
    BY DEF Indexes
  <1>6. j \in Indexes
    BY ONLY <1>2, <1>4, <1>5, IndexMade
  <1>7. /\ j.there = i.there /\ j.built = i.built /\ j.ready = i.ready /\ j.covered = n /\ j.applied = q
    BY ONLY <1>4
  <1> QED BY <1>1, <1>3, <1>6, <1>7 DEF Extends

\* A later update of the same repository leaves an index sound.
LEMMA OneMore ==
    ASSUME NEW i \in Indexes, Sound(i), i.there, i.built \in Addresses, NEW n \in 1 .. MaxUpdates,
           n > CursorOf(i), ~misled => n = CursorOf(i) + 1, MaxUpdates \in Nat,
           whole \in Nat \cup {None}, NEW j, Extends(j, i, n)
    PROVE  /\ j \in Indexes /\ Sound(j) /\ CursorOf(j) = n
           /\ j.built = i.built /\ j.there /\ j.covered = n /\ Len(j.applied) = Len(i.applied) + 1
  <1> DEFINE s == i.applied
  <1>0. PICK u, a : u = j.applied /\ a = i.built
    OBVIOUS
  <1>1. /\ s \in Seq(Addresses \X (1 .. MaxUpdates)) /\ Len(s) \in Nat /\ DOMAIN s = 1 .. Len(s)
        /\ \A k \in DOMAIN s : s[k] \in Addresses \X (1 .. MaxUpdates)
    BY LenProperties, ElementOfSeq DEF Indexes
  <1>2. /\ u \in Seq(Addresses \X (1 .. MaxUpdates)) /\ Len(u) = Len(s) + 1
        /\ \A k \in 1 .. Len(s) : u[k] = s[k]
        /\ u[Len(s) + 1] = <<a, n>> /\ u # << >>
    <2>1. <<a, n>> \in Addresses \X (1 .. MaxUpdates)
      BY <1>0
    <2>2. /\ u \in Seq(Addresses \X (1 .. MaxUpdates)) /\ Len(u) = Len(s) + 1
          /\ \A k \in 1 .. Len(s) : u[k] = s[k]
          /\ u[Len(s) + 1] = <<a, n>>
      BY <1>0, <1>1, <2>1, AppendProperties DEF Extends
    <2>3. Len(u) # 0
      BY <1>1, <2>2
    <2> QED BY <2>2, <2>3
  <1>3. /\ j \in Indexes /\ j.applied = u /\ j.covered = n /\ j.built = i.built
        /\ j.there = i.there /\ j.ready = i.ready /\ DOMAIN u = 1 .. Len(s) + 1
    BY <1>0, <1>2, LenProperties DEF Extends
  <1>4. CursorOf(j) = n
    BY <1>1, <1>2, <1>3 DEF CursorOf
  <1>5. /\ \A k \in DOMAIN s : s[k][2] \in Nat /\ s[k][2] <= CursorOf(i)
        /\ ~misled => CursorOf(i) = Len(s) /\ CursorOf(i) \in Nat
    BY CursorIsLast
  <1>6. /\ \A k \in DOMAIN u : k \in Nat /\ (k # Len(s) + 1 => k \in DOMAIN s /\ u[k] = s[k])
        /\ \A k \in DOMAIN u : k = Len(s) + 1 => u[k] = <<a, n>>
        /\ \A k, m \in DOMAIN u : k < m => k # Len(s) + 1
    <2>1. DOMAIN u = 1 .. Len(s) + 1 /\ DOMAIN s = 1 .. Len(s) /\ Len(s) \in Nat
      BY <1>1, <1>3
    <2>2. \A k \in 1 .. Len(s) + 1 : k \in Nat /\ (k # Len(s) + 1 => k \in 1 .. Len(s))
      BY ONLY <2>1
    <2>3. \A k, m \in 1 .. Len(s) + 1 : k < m => k # Len(s) + 1
      BY ONLY <2>1
    <2>4. \A k \in 1 .. Len(s) : u[k] = s[k]
      BY <1>2
    <2>5. u[Len(s) + 1] = <<a, n>>
      BY <1>2
    <2> HIDE DEF s
    <2> QED BY ONLY <2>1, <2>2, <2>3, <2>4, <2>5, Zenon
  <1>7. \A k, m \in DOMAIN u : k < m => u[k][2] < u[m][2]
    <2> SUFFICES ASSUME NEW k \in DOMAIN u, NEW m \in DOMAIN u, k < m
                 PROVE  u[k][2] < u[m][2]
      OBVIOUS
    <2>1. k \in DOMAIN s /\ u[k] = s[k]
      BY <1>6
    <2>2. CASE m = Len(s) + 1
      <3>1. s[k][2] < n
        BY <1>5, <2>1, CursorIsLast
      <3>2. u[m][2] = n
        BY <1>6, <2>2
      <3> QED BY <2>1, <3>1, <3>2
    <2>3. CASE m # Len(s) + 1
      <3>1. m \in DOMAIN s /\ u[m] = s[m]
        BY <1>6, <2>3
      <3>2. s[k][2] < s[m][2]
        BY <2>1, <3>1 DEF Sound
      <3> QED BY <2>1, <3>1, <3>2
    <2> QED BY <2>2, <2>3
  <1>8. /\ \A k \in DOMAIN u : u[k][1] = a
        /\ ~misled => \A k \in DOMAIN u : u[k][2] = k
    <2> SUFFICES ASSUME NEW k \in DOMAIN u PROVE u[k][1] = a /\ (~misled => u[k][2] = k)
      OBVIOUS
    <2>1. CASE k = Len(s) + 1
      <3>1. u[k][1] = a /\ u[k][2] = n
        BY <1>6, <2>1
      <3> QED BY <1>5, <2>1, <3>1
    <2>2. CASE k # Len(s) + 1
      <3>1. k \in DOMAIN s /\ u[k] = s[k]
        BY <1>6, <2>2
      <3>2. s[k][1] = i.built /\ (~misled => s[k][2] = k)
        BY <3>1 DEF Sound
      <3> QED BY <1>0, <3>1, <3>2
    <2> QED BY <2>1, <2>2
  <1>9. j.ready => Whole(j)
    <2>1. j.ready => whole \in Nat /\ Len(s) >= whole /\ whole # None
      BY <1>3 DEF Sound, Whole, None
    <2>2. Len(j.applied) = Len(s) + 1
      BY <1>2, <1>3
    <2>3. ASSUME j.ready PROVE Len(j.applied) >= whole
      BY <1>1, <2>1, <2>2, <2>3
    <2> QED BY <2>1, <2>3 DEF Whole
  <1>10. j.there /\ j.covered <= CursorOf(j)
    BY <1>3, <1>4
  <1>11. Sound(j)
    BY ONLY <1>0, <1>3, <1>7, <1>8, <1>9, <1>10 DEF Sound
  <1>12. Len(j.applied) = Len(i.applied) + 1
    BY <1>2, <1>3
  <1> QED BY ONLY <1>3, <1>4, <1>10, <1>11, <1>12

-----------------------------------------------------------------------------
(* The steps of the loop *)

Engines == [open : BOOLEAN, ctx : {"live", "canceled"}, state : States, everReady : BOOLEAN,
            paused : BOOLEAN, wake : BOOLEAN, covered : 0 .. MaxUpdates, address : Addresses]
Loops   == [at : Places, left : Seq(1 .. MaxUpdates), prev : 0 .. MaxUpdates]

\* What the engine may say without a commit.
LEMMA SetStateType ==
    ASSUME engine \in Engines, NEW s \in States
    PROVE  /\ SetState(s) \in Engines
           /\ SetState(s).open = engine.open /\ SetState(s).address = engine.address
           /\ SetState(s).covered = engine.covered
           /\ SetState(s).everReady => engine.everReady \/ s = "ready"
  BY DEF SetState, Engines

LEMMA AtType ==
    ASSUME loop \in Loops, NEW place \in Places
    PROVE  /\ At(place) \in Loops
           /\ At(place).at = place /\ At(place).left = loop.left /\ At(place).prev = loop.prev
           /\ [NoLoop EXCEPT !.at = place] \in Loops /\ [NoLoop EXCEPT !.at = place].at = place
  <1>1. NoLoop \in [at : {"none"}, left : Seq(1 .. MaxUpdates), prev : 0 .. MaxUpdates]
    <2>1. 0 \in 0 .. MaxUpdates /\ << >> \in Seq(1 .. MaxUpdates)
      BY PtrSyncAssumption
    <2> QED BY <2>1 DEF NoLoop
  <1>2. At(place) \in Loops /\ At(place).at = place /\ At(place).left = loop.left /\ At(place).prev = loop.prev
    BY DEF At, Loops
  <1>3. [NoLoop EXCEPT !.at = place] \in Loops /\ [NoLoop EXCEPT !.at = place].at = place
    BY <1>1 DEF Loops
  <1> QED BY <1>2, <1>3

\* A step of the loop that commits nothing.
LEMMA LoopStepKeeps ==
    ASSUME IInv, loop.at # "none",
           UNCHANGED <<published, config, lifecycle, todo, disk, whole>>,
           misled' \in BOOLEAN, misled => misled', asked' \in BOOLEAN,
           loop' \in Loops, engine' \in Engines,
           engine'.open = engine.open, engine'.address = engine.address,
           engine'.everReady => engine.everReady \/ index.ready,
           engine'.covered \in {engine.covered, index.covered},
           loop'.at # "none" => Looping'
    PROVE  IInv'
  <1>1. TypeOK'
    BY DEF IInv, TypeOK, Engines, Loops, disk
  <1>2. Locks' /\ Work'
    BY DEF IInv, Locks, Work, Doing, WellFormed, Unlocked, disk
  <1>3. \A i \in past' \cup {index'} : Sound(i)'
    <2> SUFFICES ASSUME NEW i \in past \cup {index} PROVE Sound(i)'
      BY DEF disk
    <2>1. Sound(i)
      BY DEF IInv
    <2> QED BY <2>1 DEF Sound, Whole, CursorOf
  <1>4. engine.open /\ Sound(index) /\ engine.covered <= index.covered /\ index.covered \in 0 .. MaxUpdates
    BY DEF IInv, Looping, Engine, TypeOK, Indexes
  <1>5. Engine'
    BY <1>4 DEF IInv, Engine, Sound, Whole, disk
  <1>6. Looping'
    <2>1. CASE loop'.at = "none"
      BY <2>1 DEF Looping
    <2> QED BY <2>1
  <1> QED BY <1>1, <1>2, <1>3, <1>5, <1>6 DEF IInv

LEMMA LoopExitKeeps == IInv /\ LoopExit => IInv'
  <1> SUFFICES ASSUME IInv, LoopExit PROVE IInv'
    OBVIOUS
  <1>1. /\ UNCHANGED <<published, config, lifecycle, todo, disk, whole, misled, asked, engine>>
        /\ loop.at # "none" /\ loop' = NoLoop
    BY DEF LoopExit, hist
  <1>2. loop' \in Loops /\ loop'.at = "none"
    BY <1>1, PtrSyncAssumption DEF NoLoop, Loops, Places
  <1> QED BY <1>1, <1>2, LoopStepKeeps DEF IInv, TypeOK, Engines

LEMMA LoopSeedKeeps == IInv /\ LoopSeed => IInv'
  <1> SUFFICES ASSUME IInv, LoopSeed PROVE IInv'
    OBVIOUS
  <1>1. /\ UNCHANGED <<published, config, lifecycle, todo, disk, whole, misled, asked>>
        /\ loop.at = "seed" /\ loop' = At("top") /\ engine' = [engine EXCEPT !.covered = index.covered]
    BY DEF LoopSeed, LoopStep
  <1>2. loop' \in Loops /\ loop'.at = "top"
    BY <1>1, AtType DEF IInv, TypeOK, Loops, Places
  <1>3. /\ engine' \in Engines /\ engine'.open = engine.open /\ engine'.address = engine.address
        /\ engine'.everReady = engine.everReady /\ engine'.covered = index.covered
    BY <1>1 DEF IInv, TypeOK, Engines, Indexes
  <1>4. Looping'
    BY <1>1, <1>2, <1>3 DEF IInv, Looping
  <1> QED BY <1>1, <1>2, <1>3, <1>4, LoopStepKeeps DEF IInv, TypeOK

\* A step to a place that promises nothing.
LEMMA PlainStep ==
    ASSUME IInv, loop.at # "none", NEW to \in Places,
           to \notin {"entry", "fetch", "replay", "note", "mark", "ready"},
           loop' \in {At(to), [NoLoop EXCEPT !.at = to]},
           UNCHANGED <<published, config, lifecycle, todo, disk, whole, misled>>, asked' \in BOOLEAN,
           engine' \in Engines, engine'.open = engine.open, engine'.address = engine.address,
           engine'.everReady => engine.everReady \/ index.ready,
           engine'.covered = engine.covered
    PROVE  IInv'
  <1>1. loop' \in Loops /\ loop'.at = to
    <2>1. loop \in Loops
      BY DEF IInv, TypeOK, Loops
    <2> QED BY <2>1, AtType
  <1>2. Looping'
    BY <1>1 DEF IInv, Looping
  <1> QED BY <1>1, <1>2, LoopStepKeeps DEF IInv, TypeOK

LEMMA PlainSteps ==
    ASSUME IInv, LoopTop \/ LoopPause \/ LoopPass \/ LoopFail \/ LoopWake \/ Fault
    PROVE  IInv'
  <1>1. /\ engine \in Engines /\ loop.at # "none" /\ asked \in BOOLEAN /\ asked' \in BOOLEAN
        /\ UNCHANGED <<published, config, lifecycle, todo, disk, whole, misled>>
    BY DEF IInv, TypeOK, Engines, LoopTop, LoopPause, LoopPass, LoopFail, LoopWake, Fault, LoopStep
  <1>2. {"top", "pausing", "pass", "poll", "wait", "backoff", "halt", "failed", "refused"} \subseteq Places
        /\ {"paused", "syncing", "error"} \subseteq States
    BY DEF Places, States
  <1> DEFINE Quiet == /\ engine' \in Engines /\ engine'.open = engine.open /\ engine'.address = engine.address
                      /\ engine'.everReady => engine.everReady \/ index.ready
                      /\ engine'.covered = engine.covered
             To(p) == loop' \in {At(p), [NoLoop EXCEPT !.at = p]}
  <1>3. Quiet
    <2>1. ASSUME NEW s \in {"paused", "syncing", "error"}, engine' = SetState(s) PROVE Quiet
      BY <1>1, <1>2, <2>1, SetStateType
    <2>2. ASSUME engine' = [engine EXCEPT !.wake = FALSE] PROVE Quiet
      BY <1>1, <2>2 DEF Engines
    <2>3. ASSUME engine' = engine PROVE Quiet
      BY <1>1, <2>3
    <2>4. \/ engine' = SetState("paused") \/ engine' = SetState("syncing") \/ engine' = SetState("error")
          \/ engine' = [engine EXCEPT !.wake = FALSE] \/ engine' = engine
      BY DEF LoopTop, LoopPause, LoopPass, LoopFail, LoopWake, Fault
    <2> QED BY <2>1, <2>2, <2>3, <2>4
  <1>4. \E p \in {"top", "pausing", "pass", "poll", "wait", "backoff", "halt", "failed", "refused"} : To(p)
    BY DEF LoopTop, LoopPause, LoopPass, LoopFail, LoopWake, Fault
  <1>5. PICK p \in {"top", "pausing", "pass", "poll", "wait", "backoff", "halt", "failed", "refused"} : To(p)
    BY <1>4
  <1> QED BY <1>1, <1>2, <1>3, <1>5, PlainStep

LEMMA LoopReadyKeeps == IInv /\ LoopReady => IInv'
  <1> SUFFICES ASSUME IInv, LoopReady PROVE IInv'
    OBVIOUS
  <1>1. /\ UNCHANGED <<published, config, lifecycle, todo, disk, whole, misled, asked>>
        /\ loop.at = "ready" /\ loop' = At("wait") /\ engine' = SetState("ready")
        /\ engine \in Engines /\ index.ready /\ asked \in BOOLEAN
    BY DEF LoopReady, LoopStep, IInv, TypeOK, Engines, Looping
  <1>2. "wait" \in Places /\ "ready" \in States
    BY DEF Places, States
  <1>3. /\ engine' \in Engines /\ engine'.open = engine.open /\ engine'.address = engine.address
        /\ engine'.covered = engine.covered
    BY <1>1, <1>2, SetStateType
  <1> QED BY <1>1, <1>2, <1>3, PlainStep

LEMMA LoopEntryKeeps == IInv /\ LoopEntry => IInv'
  <1> SUFFICES ASSUME IInv, LoopEntry PROVE IInv'
    OBVIOUS
  <1>1. /\ UNCHANGED <<published, config, lifecycle, todo, disk, whole, misled, asked, engine>>
        /\ loop.at = "entry" /\ engine \in Engines /\ loop \in Loops /\ asked \in BOOLEAN
    BY DEF LoopEntry, LoopStep, IInv, TypeOK, Engines, Loops
  <1>2. {"top", "poll", "failed", "fetch"} \subseteq Places
    BY DEF Places
  <1>3. CASE loop' \in {At("poll"), [NoLoop EXCEPT !.at = "top"], [NoLoop EXCEPT !.at = "failed"]}
    <2>1. PICK p \in {"top", "poll", "failed"} : loop' \in {At(p), [NoLoop EXCEPT !.at = p]}
      BY <1>3
    <2> QED BY <1>1, <1>2, <2>1, PlainStep
  <1>4. CASE loop' = At("fetch") /\ loop.left # << >> /\ InOrder
    <2>1. loop' \in Loops /\ loop'.at = "fetch" /\ loop'.left = loop.left /\ loop'.prev = loop.prev
      BY <1>1, <1>2, <1>4, AtType
    <2>2. Looping'
      BY <1>1, <1>4, <2>1 DEF IInv, Looping, InOrder, Cursor, disk
    <2> QED BY <1>1, <2>1, <2>2, LoopStepKeeps DEF IInv, TypeOK
  <1> QED BY <1>3, <1>4 DEF LoopEntry

LEMMA LoopFetchKeeps == IInv /\ LoopFetch => IInv'
  <1> SUFFICES ASSUME IInv, LoopFetch PROVE IInv'
    OBVIOUS
  <1>1. /\ UNCHANGED <<published, config, lifecycle, todo, disk, whole, misled, asked, engine>>
        /\ loop.at = "fetch" /\ engine \in Engines /\ loop \in Loops /\ asked \in BOOLEAN
        /\ loop' \in {At("replay"), [NoLoop EXCEPT !.at = "top"]}
    BY DEF LoopFetch, LoopStep, IInv, TypeOK, Engines, Loops
  <1>2. {"top", "replay"} \subseteq Places
    BY DEF Places
  <1>3. CASE loop' = [NoLoop EXCEPT !.at = "top"]
    BY <1>1, <1>2, <1>3, PlainStep
  <1>4. CASE loop' = At("replay")
    <2>1. loop' \in Loops /\ loop'.at = "replay" /\ loop'.left = loop.left /\ loop'.prev = loop.prev
      BY <1>1, <1>2, <1>4, AtType
    <2>2. Looping'
      BY <1>1, <1>4, <2>1 DEF IInv, Looping, InOrder, Cursor, disk
    <2> QED BY <1>1, <2>1, <2>2, LoopStepKeeps DEF IInv, TypeOK
  <1> QED BY <1>1, <1>3, <1>4

LEMMA LoopNoteKeeps == IInv /\ LoopNote => IInv'
  <1> SUFFICES ASSUME IInv, LoopNote PROVE IInv'
    OBVIOUS
  <1> DEFINE s == loop.left
  <1>1. /\ UNCHANGED <<published, config, lifecycle, todo, disk, whole, misled, asked>>
        /\ loop.at = "note" /\ engine \in Engines /\ loop \in Loops /\ asked \in BOOLEAN
        /\ engine' = [engine EXCEPT !.covered = s[1]]
        /\ loop' = [at |-> "entry", left |-> Tail(s), prev |-> s[1]]
    BY DEF LoopNote, LoopStep, IInv, TypeOK, Engines, Loops
  <1>2. /\ s # << >> /\ s[1] = Cursor /\ index.covered = Cursor /\ engine.open
        /\ ~misled => \A k \in DOMAIN s : s[k] = s[1] + k - 1
    BY <1>1 DEF IInv, Looping
  <1>3. s \in Seq(1 .. MaxUpdates)
    BY <1>1 DEF Loops
  <1> HIDE DEF s
  <1>4. /\ s[1] \in 1 .. MaxUpdates /\ 1 \in DOMAIN s /\ Tail(s) \in Seq(1 .. MaxUpdates)
        /\ \A k \in DOMAIN Tail(s) : k + 1 \in DOMAIN s /\ Tail(s)[k] = s[k + 1] /\ k \in Nat
    <2>1. \A k \in DOMAIN Tail(s) : k \in Nat
      <3>1. Tail(s) \in Seq(1 .. MaxUpdates)
        BY <1>2, <1>3, FirstAndRest
      <3> QED BY <3>1, LenProperties
    <2> QED BY <1>2, <1>3, <2>1, FirstAndRest
  <1>5. s[1] \in 0 .. MaxUpdates
    BY <1>4, PtrSyncAssumption
  <1>6. loop' \in Loops /\ loop'.at = "entry" /\ loop'.left = Tail(s) /\ loop'.prev = s[1]
    BY <1>1, <1>4, <1>5 DEF Loops, Places
  <1>7. /\ engine' \in Engines /\ engine'.open = engine.open /\ engine'.address = engine.address
        /\ engine'.everReady = engine.everReady /\ engine'.covered = index.covered
    BY <1>1, <1>2, <1>5 DEF Engines
  <1>8. ~misled => \A k \in DOMAIN Tail(s) : Tail(s)[k] = s[1] + k
    <2> SUFFICES ASSUME ~misled, NEW k \in DOMAIN Tail(s) PROVE Tail(s)[k] = s[1] + k
      OBVIOUS
    <2>1. k + 1 \in DOMAIN s /\ Tail(s)[k] = s[k + 1] /\ k \in Nat
      BY <1>4
    <2>2. s[k + 1] = s[1] + (k + 1) - 1
      BY <1>2, <2>1
    <2> QED BY <1>4, <2>1, <2>2
  <1>9. Looping'
    <2>1. Cursor' = Cursor /\ (~misled' => ~misled) /\ engine'.open
      BY <1>1, <1>2, <1>7 DEF Cursor, disk
    <2>2. ~misled' => \A k \in DOMAIN loop'.left : loop'.left[k] = loop'.prev + k
      BY <1>6, <1>8, <2>1
    <2>3. loop'.at = "entry" /\ loop'.prev = Cursor'
      BY <1>2, <1>6, <2>1
    <2> QED BY ONLY <2>1, <2>2, <2>3 DEF Looping
  <1>10. misled' \in BOOLEAN /\ (misled => misled') /\ asked' \in BOOLEAN
    BY <1>1 DEF IInv, TypeOK
  <1> QED BY <1>1, <1>6, <1>7, <1>9, <1>10, LoopStepKeeps

\* The true answer of a repository: what comes after the cursor, in order.
LEMMA NewsOfCursor ==
    ASSUME TypeOK, Cursor \in 0 .. MaxUpdates
    PROVE  /\ News \in Seq(1 .. MaxUpdates)
           /\ \A k \in DOMAIN News : News[k] = Cursor + k
  <1>1. published[engine.address] \in 0 .. MaxUpdates
    BY DEF TypeOK
  <1> DEFINE p == published[engine.address]
             c == Cursor
  <1>2. News = [k \in 1 .. p - c |-> c + k]
    <2>1. News = [k \in 1 .. (p - (c + 1) + 1) |-> (c + 1) + k - 1]
      BY DEF News, Since
    <2> HIDE DEF p, c
    <2>2. c \in Int /\ p \in Int
      BY <1>1 DEF p, c
    <2>3. p - (c + 1) + 1 = p - c
      BY <2>2
    <2>4. \A k \in 1 .. p - c : (c + 1) + k - 1 = c + k
      BY <2>2
    <2> QED BY <2>1, <2>3, <2>4
  <1> HIDE DEF p, c
  <1>3. c \in 0 .. MaxUpdates /\ p \in 0 .. MaxUpdates
    BY <1>1 DEF p, c
  <1>4. \A k \in 1 .. p - c : c + k \in 1 .. MaxUpdates
    BY <1>3, PtrSyncAssumption
  <1>5. \E n \in Nat : 1 .. p - c = 1 .. n
    <2>1. CASE p - c \in Nat
      BY <2>1
    <2>2. CASE p - c \notin Nat
      <3>1. 1 .. p - c = 1 .. 0
        BY <1>3, <2>2, PtrSyncAssumption
      <3> QED BY <3>1
    <2> QED BY <2>1, <2>2
  <1>6. News \in Seq(1 .. MaxUpdates)
    <2>1. PICK n \in Nat : 1 .. p - c = 1 .. n
      BY <1>5
    <2>2. News \in [1 .. n -> 1 .. MaxUpdates]
      BY <1>2, <1>4, <2>1
    <2> QED BY <2>2, SeqDef, Zenon
  <1> QED BY <1>2, <1>6 DEF c

LEMMA PollNewsKeeps == IInv /\ PollNews => IInv'
  <1> SUFFICES ASSUME IInv, PollNews PROVE IInv'
    OBVIOUS
  <1>1. /\ UNCHANGED <<published, config, lifecycle, todo, disk, whole>>
        /\ loop.at = "poll" /\ engine \in Engines /\ loop \in Loops /\ asked' = FALSE /\ misled \in BOOLEAN
        /\ engine.open /\ published[engine.address] \in 0 .. MaxUpdates
    BY DEF PollNews, LoopStep, IInv, TypeOK, Engines, Loops, Looping
  <1>2. Cursor \in 0 .. MaxUpdates
    BY CursorIs, CursorIsLast, PtrSyncAssumption DEF IInv, TypeOK
  <1>3. /\ News \in Seq(1 .. MaxUpdates)
        /\ \A k \in DOMAIN News : News[k] = Cursor + k
    BY <1>2, NewsOfCursor DEF IInv
  <1>4. PICK slice :
          /\ slice = News \/ \E n \in 1 .. 2 : slice \in [1 .. n -> 1 .. published[engine.address]]
          /\ misled' = (misled \/ slice # News)
          /\ \/ loop' = At("failed") /\ UNCHANGED engine
             \/ /\ loop' = [at |-> "entry", left |-> slice, prev |-> Since - 1]
                /\ engine' = SetState("syncing")
    BY DEF PollNews
  <1>5. slice \in Seq(1 .. MaxUpdates)
    <2>1. ASSUME NEW n \in 1 .. 2, slice \in [1 .. n -> 1 .. published[engine.address]]
          PROVE  slice \in Seq(1 .. MaxUpdates)
      <3>1. slice \in [1 .. n -> 1 .. MaxUpdates]
        BY <1>1, <2>1, PtrSyncAssumption
      <3>2. n \in Nat
        OBVIOUS
      <3> QED BY <3>1, <3>2, SeqDef, Zenon
    <2> QED BY <1>3, <1>4, <2>1
  <1>6. misled' \in BOOLEAN /\ (misled => misled') /\ (~misled' => slice = News)
    BY <1>1, <1>4
  <1>7. CASE loop' = At("failed") /\ UNCHANGED engine
    <2>1. "failed" \in Places
      BY DEF Places
    <2>2. loop' \in Loops /\ loop'.at = "failed"
      BY <1>1, <1>7, <2>1, AtType
    <2>3. Looping'
      BY <1>1, <1>7, <2>2 DEF Looping
    <2> QED BY <1>1, <1>6, <1>7, <2>2, <2>3, LoopStepKeeps
  <1>8. CASE loop' = [at |-> "entry", left |-> slice, prev |-> Since - 1] /\ engine' = SetState("syncing")
    <2>1. Since - 1 = Cursor
      BY <1>2 DEF Since
    <2>2. loop' \in Loops /\ loop'.at = "entry" /\ loop'.left = slice /\ loop'.prev = Cursor
      BY <1>2, <1>5, <1>8, <2>1 DEF Loops, Places
    <2>3. /\ engine' \in Engines /\ engine'.open = engine.open /\ engine'.address = engine.address
          /\ engine'.everReady => engine.everReady
          /\ engine'.covered = engine.covered
      <3>1. "syncing" \in States /\ "syncing" # "ready"
        BY DEF States
      <3> QED BY <1>1, <1>8, <3>1, SetStateType
    <2>4. Cursor' = Cursor
      BY <1>1 DEF Cursor, disk
    <2>5. Looping'
      BY <1>1, <1>3, <1>6, <2>2, <2>3, <2>4 DEF Looping
    <2> QED BY <1>1, <1>6, <2>2, <2>3, <2>5, LoopStepKeeps
  <1> QED BY <1>4, <1>7, <1>8

\* What a commit of the loop leaves: the index as it becomes, and the ones it was.
LEMMA CommitKeeps ==
    ASSUME IInv, loop.at # "none", NEW i \in Indexes, index' = i, past' \subseteq past \cup {index},
           UNCHANGED <<published, config, lifecycle, todo, misled>>,
           whole' \in Nat \cup {None}, whole # None => whole' = whole, asked' \in BOOLEAN,
           loop' \in Loops, engine' \in Engines,
           engine'.open = engine.open, engine'.address = engine.address, engine'.everReady = engine.everReady,
           i.there, i.built = index.built, Len(i.applied) >= Len(index.applied), index.covered <= i.covered,
           engine'.covered \in {engine.covered, i.covered},
           whole' = None \/ Whole(i)', Sound(i)', Looping'
    PROVE  IInv'
  <1>1. index' = i /\ past' \subseteq past \cup {index}
    OBVIOUS
  <1>2. TypeOK'
    BY <1>1 DEF IInv, TypeOK, Engines, Loops
  <1>3. engine.open /\ index.there /\ index.built = engine.address
    BY DEF IInv, Looping, Engine
  <1>4. Locks'
    BY DEF IInv, Locks, WellFormed, Unlocked
  <1>5. Work'
    <2> SUFFICES ASSUME NEW u \in Threads PROVE ~Doing(u, "publish")' /\ ~Doing(u, "unlink")'
      BY DEF Work
    <2>1. ~Doing(u, "publish") /\ ~Doing(u, "unlink")
      BY <1>3 DEF IInv, Work
    <2> QED BY <2>1 DEF Doing
  <1>6. \A k \in past' \cup {index'} : Sound(k)'
    <2>1. ASSUME NEW k \in past \cup {index} PROVE Sound(k)'
      <3>1. Sound(k)
        BY DEF IInv
      <3> QED BY <3>1 DEF Sound, Whole, CursorOf, None
    <2> QED BY <1>1, <2>1
  <1>7. Engine'
    <2>1. engine.everReady => Whole(i)'
      <3>1. engine.everReady => whole # None /\ Len(index.applied) >= whole /\ whole \in Nat
        BY <1>3 DEF IInv, Engine, Whole, TypeOK, None
      <3>2. Len(i.applied) \in Nat /\ Len(index.applied) \in Nat
        BY LenProperties DEF IInv, TypeOK, Indexes
      <3>3. engine.everReady => whole' = whole /\ whole \in Nat /\ Len(i.applied) >= whole
        BY ONLY <3>1, <3>2, whole # None => whole' = whole, Len(i.applied) >= Len(index.applied)
      <3> QED BY <3>1, <3>3 DEF Whole
    <2>2. engine'.covered <= i.covered
      <3>1. /\ engine.covered \in 0 .. MaxUpdates /\ index.covered \in 0 .. MaxUpdates /\ i.covered \in 0 .. MaxUpdates
            /\ engine.covered <= index.covered /\ index.covered <= i.covered
            /\ engine'.covered \in {engine.covered, i.covered}
        BY DEF IInv, Engine, TypeOK, Indexes
      <3> QED BY ONLY <3>1, PtrSyncAssumption
    <2> QED BY <1>1, <1>3, <2>1, <2>2 DEF Engine, Whole
  <1> QED BY <1>2, <1>4, <1>5, <1>6, <1>7 DEF IInv

\* Where a step of the loop starts from: an open engine over a sound index.
LEMMA LoopStart ==
    ASSUME IInv, loop.at # "none"
    PROVE  /\ engine.open /\ engine \in Engines /\ loop \in Loops
           /\ index \in Indexes /\ Sound(index) /\ index.there /\ index.built = engine.address
           /\ Cursor \in 0 .. MaxUpdates /\ Cursor = CursorOf(index)
           /\ index.covered \in 0 .. MaxUpdates /\ index.covered <= Cursor
           /\ engine.covered <= index.covered
           /\ asked \in BOOLEAN /\ misled \in BOOLEAN /\ whole \in Nat \cup {None}
           /\ Len(index.applied) \in Nat
  <1>1. /\ engine.open /\ index \in Indexes /\ Sound(index)
    BY DEF IInv, TypeOK, Looping
  <1>2. Cursor \in 0 .. MaxUpdates /\ Cursor = CursorOf(index)
    BY <1>1, CursorIs, CursorIsLast, PtrSyncAssumption
  <1>3. index.covered \in 0 .. MaxUpdates /\ Len(index.applied) \in Nat
    BY <1>1, LenProperties DEF Indexes
  <1> QED BY <1>1, <1>2, <1>3 DEF IInv, TypeOK, Engine, Engines, Loops, Sound

LEMMA LoopMarkKeeps == IInv /\ LoopMark => IInv'
  <1> SUFFICES ASSUME IInv, LoopMark PROVE IInv'
    OBVIOUS
  <1>a. PICK i : i = [index EXCEPT !.ready = TRUE]
    OBVIOUS
  <1>1. /\ loop.at = "mark" /\ Whole(index) /\ loop' = At("ready")
        /\ UNCHANGED <<published, config, lifecycle, todo, whole, misled, asked, engine>>
    BY DEF LoopMark, LoopStep, IInv, Looping
  <1>2. /\ engine.open /\ engine \in Engines /\ loop \in Loops
        /\ index \in Indexes /\ Sound(index) /\ index.there
        /\ asked \in BOOLEAN /\ whole \in Nat \cup {None} /\ Len(index.applied) \in Nat
        /\ index.covered \in 0 .. MaxUpdates
    BY <1>1, LoopStart
  <1>3. index' = i /\ past' \subseteq past \cup {index}
    <2>1. CASE index.ready
      BY <1>a, <1>2, <2>1 DEF LoopMark, Indexes, disk
    <2>2. CASE ~index.ready
      BY <1>a, <2>2 DEF LoopMark, Commit
    <2> QED BY <2>1, <2>2
  <1>4. /\ i \in Indexes /\ i.there = index.there /\ i.built = index.built /\ i.ready
        /\ i.applied = index.applied /\ i.covered = index.covered
    BY <1>a, <1>2 DEF Indexes
  <1>5. Sound(i)'
    BY <1>1, <1>2, <1>4 DEF Sound, Whole, CursorOf
  <1>6. loop' \in Loops /\ loop'.at = "ready"
    <2>1. "ready" \in Places
      BY DEF Places
    <2> QED BY <1>1, <1>2, <2>1, AtType
  <1>7. Looping'
    BY <1>1, <1>2, <1>3, <1>4, <1>6 DEF Looping
  <1>8. Len(i.applied) >= Len(index.applied) /\ index.covered <= i.covered /\ Whole(i)'
    BY <1>1, <1>2, <1>4 DEF Whole
  <1> QED BY <1>1, <1>2, <1>3, <1>4, <1>5, <1>6, <1>7, <1>8, CommitKeeps

LEMMA PollEmptyKeeps == IInv /\ PollEmpty => IInv'
  <1> SUFFICES ASSUME IInv, PollEmpty PROVE IInv'
    OBVIOUS
  <1>a. PICK c : c = IF engine.covered = 0 /\ Cursor > 0 THEN Cursor ELSE index.covered
    OBVIOUS
  <1>b. PICK i : i = [index EXCEPT !.covered = c]
    OBVIOUS
  <1>1. /\ loop.at = "poll" /\ loop' = At("mark") /\ asked' = FALSE
        /\ UNCHANGED <<published, config, lifecycle, todo, misled>>
        /\ whole' = IF whole = None THEN Len(index.applied) ELSE whole
    BY DEF PollEmpty, LoopStep
  <1>2. /\ engine.open /\ engine \in Engines /\ loop \in Loops
        /\ index \in Indexes /\ Sound(index) /\ index.there
        /\ whole \in Nat \cup {None} /\ Len(index.applied) \in Nat
        /\ Cursor \in 0 .. MaxUpdates /\ Cursor = CursorOf(index)
        /\ index.covered \in 0 .. MaxUpdates /\ index.covered <= Cursor
    BY <1>1, LoopStart
  <1>3. index' = i /\ past' \subseteq past \cup {index}
    BY <1>a, <1>b, <1>2 DEF PollEmpty, Commit, disk, Indexes
  <1>4. /\ engine' \in Engines /\ engine'.open = engine.open /\ engine'.address = engine.address
        /\ engine'.everReady = engine.everReady /\ engine'.covered \in {engine.covered, c}
    BY <1>a, <1>2 DEF PollEmpty, Engines
  <1>5. c \in 0 .. MaxUpdates /\ index.covered <= c /\ c <= Cursor
    BY <1>a, <1>2
  <1>6. /\ i \in Indexes /\ i.there = index.there /\ i.built = index.built /\ i.ready = index.ready
        /\ i.applied = index.applied /\ i.covered = c
    BY <1>b, <1>2, <1>5 DEF Indexes
  <1>7. /\ whole' \in Nat \cup {None} /\ (whole # None => whole' = whole)
        /\ whole' # None /\ Len(index.applied) >= whole'
        /\ index.ready => whole # None
    <2>1. whole = None \/ (whole # None /\ Len(index.applied) >= whole)
      BY DEF IInv, Engine, Whole
    <2>2. index.ready => whole # None
      BY <1>2 DEF Sound, Whole
    <2>3. CASE whole = None
      BY <1>1, <1>2, <2>2, <2>3, PtrSyncAssumption DEF None
    <2>4. CASE whole # None
      BY <1>1, <1>2, <2>1, <2>4
    <2> QED BY <2>3, <2>4
  <1>8. Sound(i)'
    BY <1>1, <1>2, <1>5, <1>6, <1>7 DEF Sound, Whole, CursorOf
  <1>9. Whole(i)'
    BY <1>2, <1>6, <1>7 DEF Whole
  <1>10. loop' \in Loops /\ loop'.at = "mark"
    <2>1. "mark" \in Places
      BY DEF Places
    <2> QED BY <1>1, <1>2, <2>1, AtType
  <1>11. Looping'
    BY <1>2, <1>3, <1>4, <1>9, <1>10 DEF Looping, Whole
  <1>12. Len(i.applied) >= Len(index.applied)
    BY <1>2, <1>6
  <1> QED BY <1>1, <1>2, <1>3, <1>4, <1>5, <1>6, <1>7, <1>8, <1>9, <1>10, <1>11, <1>12, CommitKeeps

\* The replay of an entry extends the index by what comes after its cursor.
LEMMA ReplayKeeps == IInv /\ Replay => IInv'
  <1> SUFFICES ASSUME IInv, Replay PROVE IInv'
    OBVIOUS
  <1>1. /\ loop.at = "replay" /\ loop' = At("note") /\ Commit(Replayed(loop.left[1]))
        /\ UNCHANGED <<published, config, lifecycle, todo, whole, misled, asked, engine>>
    BY DEF Replay, LoopStep
  <1>2. /\ engine.open /\ engine \in Engines /\ loop \in Loops
        /\ index \in Indexes /\ Sound(index) /\ index.there /\ index.built = engine.address
        /\ asked \in BOOLEAN /\ misled \in BOOLEAN /\ whole \in Nat \cup {None} /\ Len(index.applied) \in Nat
        /\ Cursor \in 0 .. MaxUpdates /\ Cursor = CursorOf(index)
        /\ index.covered \in 0 .. MaxUpdates /\ index.covered <= Cursor
    BY <1>1, LoopStart
  <1>3. PICK n, a : n = loop.left[1] /\ a = engine.address
    OBVIOUS
  <1>4. /\ loop.left # << >> /\ n > Cursor
        /\ ~misled => \A k \in DOMAIN loop.left : loop.left[k] = Cursor + k
    BY <1>1, <1>3 DEF IInv, Looping, InOrder
  <1>5. n \in 1 .. MaxUpdates /\ 1 \in DOMAIN loop.left
    BY <1>2, <1>3, <1>4, FirstAndRest DEF Loops
  <1>6. ~misled => n = Cursor + 1
    BY <1>3, <1>4, <1>5
  <1>7. PICK i : i = [index EXCEPT !.applied = Append(@, <<a, n>>), !.covered = n]
    OBVIOUS
  <1>8. index' = i /\ past' \subseteq past \cup {index}
    BY <1>1, <1>3, <1>7 DEF Commit, Replayed
  <1>9. a \in Addresses
    BY <1>2, <1>3 DEF Engines
  <1>10. /\ i \in Indexes /\ Sound(i) /\ CursorOf(i) = n
         /\ i.built = index.built /\ i.there /\ i.covered = n /\ Len(i.applied) = Len(index.applied) + 1
    <2>1. /\ index.built \in Addresses /\ n > CursorOf(index) /\ (~misled => n = CursorOf(index) + 1)
          /\ MaxUpdates \in Nat /\ index \in Indexes /\ Sound(index) /\ index.there /\ whole \in Nat \cup {None}
      BY <1>2, <1>3, <1>4, <1>6, <1>9, PtrSyncAssumption
    <2>2. Extends(i, index, n)
      BY <1>2, <1>3, <1>5, <1>7, <1>9, ExtendsIt
    <2>3. /\ i \in Indexes /\ Sound(i) /\ CursorOf(i) = n
          /\ i.built = index.built /\ i.there /\ i.covered = n /\ Len(i.applied) = Len(index.applied) + 1
      BY ONLY <1>5, <2>1, <2>2, OneMore
    <2> QED BY <2>3
  <1>11. Sound(i)'
    BY <1>1, <1>10 DEF Sound, Whole, CursorOf
  <1>12. loop' \in Loops /\ loop'.at = "note" /\ loop'.left = loop.left
    <2>1. "note" \in Places
      BY DEF Places
    <2> QED BY <1>1, <1>2, <2>1, AtType
  <1>13. Cursor' = n
    BY <1>8, <1>10 DEF Cursor, CursorOf
  <1>14. ~misled' => \A k \in DOMAIN loop'.left : loop'.left[k] = loop'.left[1] + k - 1
    <2> SUFFICES ASSUME ~misled, NEW k \in DOMAIN loop.left PROVE loop.left[k] = n + k - 1
      BY <1>1, <1>3, <1>12
    <2>1. k \in Nat
      BY <1>2, LenProperties DEF Loops
    <2> QED BY <1>2, <1>4, <1>6, <2>1
  <1>15. Looping'
    <2>1. loop'.left # << >> /\ loop'.left[1] = Cursor' /\ index'.covered = Cursor' /\ engine'.open /\ loop'.at = "note"
      BY <1>1, <1>2, <1>3, <1>4, <1>8, <1>10, <1>12, <1>13
    <2> QED BY ONLY <1>14, <2>1 DEF Looping
  <1>16. Len(i.applied) >= Len(index.applied) /\ index.covered <= i.covered
    BY <1>2, <1>4, <1>5, <1>10
  <1>17. whole' = None \/ Whole(i)'
    <2>1. whole = None \/ (whole # None /\ Len(index.applied) >= whole)
      BY DEF IInv, Engine, Whole
    <2> QED BY <1>1, <1>2, <1>10, <2>1 DEF Whole, None
  <1> QED BY <1>1, <1>2, <1>8, <1>10, <1>11, <1>12, <1>15, <1>16, <1>17, CommitKeeps

LEMMA LoopKeeps == IInv /\ (Loop \/ Fault) => IInv'
  BY LoopExitKeeps, LoopSeedKeeps, PlainSteps, PollEmptyKeeps, PollNewsKeeps, LoopEntryKeeps, LoopFetchKeeps,
     ReplayKeeps, LoopNoteKeeps, LoopMarkKeeps, LoopReadyKeeps DEF Loop

-----------------------------------------------------------------------------
(* The repository and the process *)

LEMMA GrowKeeps == IInv /\ Grow => IInv'
  <1> SUFFICES ASSUME IInv, Grow PROVE IInv'
    OBVIOUS
  <1>1. /\ UNCHANGED <<config, engine, lifecycle, loop, index, past, todo, whole, misled, asked>>
        /\ published' = [published EXCEPT ![engine.address] = @ + 1]
        /\ published[engine.address] < MaxUpdates
    BY DEF Grow, disk, hist
  <1>2. published' \in [Addresses -> 0 .. MaxUpdates]
    <2>1. published[engine.address] + 1 \in 0 .. MaxUpdates
      BY <1>1, PtrSyncAssumption DEF IInv, TypeOK
    <2> QED BY <1>1, <2>1 DEF IInv, TypeOK
  <1>3. TypeOK'
    BY <1>1, <1>2 DEF IInv, TypeOK
  <1>4. Locks' /\ Work' /\ Engine'
    BY <1>1 DEF IInv, Locks, Work, Engine, WellFormed, Unlocked, Doing, Whole
  <1>5. Looping'
    BY <1>1 DEF IInv, Looping, InOrder, Cursor, Whole
  <1>6. (\A i \in past \cup {index} : Sound(i))'
    BY <1>1, SoundStays DEF IInv
  <1> QED BY <1>3, <1>4, <1>5, <1>6 DEF IInv

\* A start finds the index, or what a power cut left of it; either is sound.
LEMMA BootKeeps == IInv /\ Boot => IInv'
  <1> SUFFICES ASSUME IInv, Boot PROVE IInv'
    OBVIOUS
  <1> DEFINE list == IF config.enabled THEN <<OpenItem(TRUE)>> ELSE << >>
  <1>1. /\ engine' = [open |-> FALSE, ctx |-> "live", state |-> "disabled", everReady |-> FALSE,
                      paused |-> config.paused, wake |-> FALSE, covered |-> 0, address |-> config.address]
        /\ lifecycle' = Free /\ loop' = NoLoop /\ past' = {} /\ asked' = FALSE
        /\ index' \in past \cup {index}
        /\ whole' = IF index'.ready THEN whole ELSE None
        /\ todo' = [t \in Threads |-> IF t = Main /\ config.enabled THEN <<OpenItem(TRUE)>> ELSE << >>]
        /\ UNCHANGED <<published, config, misled>>
    BY DEF Boot
  <1>2. /\ config \in [enabled : BOOLEAN, paused : BOOLEAN, address : Addresses]
        /\ index' \in Indexes /\ Sound(index')
        /\ published \in [Addresses -> 0 .. MaxUpdates] /\ misled \in BOOLEAN
        /\ whole \in Nat \cup {None}
    BY <1>1 DEF IInv, TypeOK
  <1>3. /\ <<OpenItem(TRUE)>> \in Seq(Items) /\ WellFormed(<<OpenItem(TRUE)>>) /\ Unlocked(<<OpenItem(TRUE)>>)
        /\ ~(<<OpenItem(TRUE)>> # << >> /\ Head(<<OpenItem(TRUE)>>).do \in {"publish", "unlink"})
    <2>1. OpenItem(TRUE) \in Items /\ OpenItem(TRUE).do = "open"
      BY DEF OpenItem, Items
    <2> QED BY <2>1, OneItem DEF Unlocked, Locked
  <1>4. \A t \in Threads : todo'[t] \in {<<OpenItem(TRUE)>>, << >>}
    BY <1>1
  <1>5. todo' \in [Threads -> Seq(Items)]
    BY <1>1, <1>3, EmptyList
  <1>6. Locks'
    <2>1. \A t \in Threads : WellFormed(todo'[t]) /\ Unlocked(todo'[t])
      BY <1>3, <1>4, EmptyList
    <2>2. \A t \in Threads : lifecycle' # t
      BY <1>1, PtrSyncAssumption
    <2> QED BY <2>1, <2>2 DEF Locks, WellFormed, Unlocked
  <1>7. Work'
    <2> SUFFICES ASSUME NEW t \in Threads PROVE ~Doing(t, "publish")' /\ ~Doing(t, "unlink")'
      BY DEF Work
    <2>1. CASE todo'[t] = << >>
      BY <2>1 DEF Doing
    <2>2. CASE todo'[t] = <<OpenItem(TRUE)>>
      BY <1>3, <2>2 DEF Doing
    <2> QED BY <1>4, <2>1, <2>2
  <1>8. whole' \in Nat \cup {None}
    BY <1>1, <1>2
  <1>9. engine' \in Engines
    <2>1. 0 \in 0 .. MaxUpdates /\ "disabled" \in States
      BY PtrSyncAssumption DEF States
    <2>2. config.paused \in BOOLEAN /\ config.address \in Addresses
      BY <1>2
    <2> QED BY <1>1, <2>1, <2>2 DEF Engines
  <1>10. loop' \in Loops /\ loop'.at = "none"
    <2>1. 0 \in 0 .. MaxUpdates /\ << >> \in Seq(1 .. MaxUpdates) /\ "none" \in Places
      BY PtrSyncAssumption DEF Places
    <2> QED BY <1>1, <2>1 DEF NoLoop, Loops
  <1>11. TypeOK'
    <2>1. asked' \in BOOLEAN /\ past' \subseteq Indexes /\ lifecycle' \in Threads \cup {Free}
      BY <1>1
    <2> QED BY <1>1, <1>2, <1>5, <1>8, <1>9, <1>10, <2>1 DEF TypeOK, Engines, Loops
  <1>12. index'.ready => Whole(index')
    BY <1>2 DEF Sound
  <1>13. Sound(index)'
    BY <1>1, <1>2, <1>12 DEF Sound, Whole, CursorOf
  <1>14. Engine'
    <2>1. ~engine'.open /\ engine'.covered = 0 /\ index'.covered \in 0 .. MaxUpdates
      BY <1>1, <1>2 DEF Indexes
    <2>2. whole' = None \/ Whole(index)'
      BY <1>1, <1>12 DEF Whole
    <2> QED BY <2>1, <2>2 DEF Engine
  <1>15. Looping'
    BY <1>10 DEF Looping
  <1> QED BY <1>1, <1>6, <1>7, <1>11, <1>13, <1>14, <1>15 DEF IInv

-----------------------------------------------------------------------------
(* The theorems *)

LEMMA Initially == Init => IInv
  <1> SUFFICES ASSUME Init PROVE IInv
    OBVIOUS
  <1>1. PICK a \in Addresses : config = [enabled |-> TRUE, paused |-> FALSE, address |-> a]
    BY DEF Init
  <1>2. /\ engine = [open |-> FALSE, ctx |-> "live", state |-> "disabled", everReady |-> FALSE,
                     paused |-> FALSE, wake |-> FALSE, covered |-> 0, address |-> a]
        /\ lifecycle = Free /\ loop = NoLoop /\ past = {} /\ todo = [t \in Threads |-> << >>]
        /\ whole = None /\ misled = FALSE /\ asked = FALSE
    BY <1>1 DEF Init
  <1>3. /\ published \in [Addresses -> 0 .. MaxUpdates]
        /\ index \in Indexes /\ Sound(index)
    <2>1. CASE published = [b \in Addresses |-> 0] /\ index = NoIndex
      BY <1>2, <2>1, PtrSyncAssumption DEF NoIndex, Indexes, Sound, CursorOf
    <2>2. CASE /\ published = [b \in Addresses |-> IF b = a THEN 1 ELSE 0]
               /\ index = [there |-> TRUE, built |-> a, covered |-> 0, ready |-> FALSE, applied |-> <<<<a, 1>>>>]
      <3>1. /\ 1 \in 1 .. MaxUpdates /\ 0 \in 0 .. MaxUpdates /\ 1 \in 0 .. MaxUpdates
        BY PtrSyncAssumption
      <3>2. PICK q : q = <<<<a, 1>>>>
        OBVIOUS
      <3>3. q \in Seq(Addresses \X (1 .. MaxUpdates)) /\ DOMAIN q = {1} /\ q[1] = <<a, 1>> /\ q # << >> /\ Len(q) = 1
        BY <3>1, <3>2
      <3>4. index.applied = q /\ index.there /\ index.built = a /\ ~index.ready /\ index.covered = 0
        BY <2>2, <3>2
      <3>5. index = [there |-> TRUE, built |-> a, applied |-> q, covered |-> 0, ready |-> FALSE]
        BY <2>2, <3>2
      <3>6. index \in Indexes
        BY <3>1, <3>3, <3>5, IndexMade
      <3>7. Sound(index)
        <4>1. q[1][1] = a /\ q[1][2] = 1
          BY <3>3
        <4> QED BY <3>3, <3>4, <4>1 DEF Sound, CursorOf
      <3>8. published \in [Addresses -> 0 .. MaxUpdates]
        BY <2>2, <3>1
      <3> QED BY <3>6, <3>7, <3>8
    <2> QED BY <1>1, <2>1, <2>2 DEF Init
  <1>4. config \in [enabled : BOOLEAN, paused : BOOLEAN, address : Addresses]
    BY <1>1
  <1>5. engine \in Engines /\ ~engine.open /\ engine.covered = 0
    <2>1. 0 \in 0 .. MaxUpdates /\ "disabled" \in States
      BY PtrSyncAssumption DEF States
    <2> QED BY <1>2, <2>1 DEF Engines
  <1>6. loop \in Loops /\ loop.at = "none"
    <2>1. 0 \in 0 .. MaxUpdates /\ << >> \in Seq(1 .. MaxUpdates) /\ "none" \in Places
      BY PtrSyncAssumption DEF Places
    <2> QED BY <1>2, <2>1 DEF NoLoop, Loops
  <1>7. TypeOK
    BY <1>2, <1>3, <1>4, <1>5, <1>6, EmptyList DEF TypeOK, Engines, Loops
  <1>8. Locks /\ Work
    BY <1>2, EmptyList, PtrSyncAssumption DEF Locks, Work, Doing
  <1>9. Engine
    BY <1>2, <1>3, <1>5 DEF Engine, Indexes
  <1>10. Looping
    BY <1>6 DEF Looping
  <1> QED BY <1>2, <1>3, <1>7, <1>8, <1>9, <1>10 DEF IInv

LEMMA NextKeeps == IInv /\ [Next]_vars => IInv'
  <1> SUFFICES ASSUME IInv, [Next]_vars PROVE IInv'
    OBVIOUS
  <1>1. CASE Next
    BY <1>1, BeginKeeps, ProceedKeeps, LoopKeeps, GrowKeeps, BootKeeps DEF Next
  <1>2. CASE UNCHANGED vars
    <2>1. UNCHANGED <<published, config, engine, lifecycle, loop, index, past, todo, whole, misled, asked>>
      BY <1>2 DEF vars, disk, hist
    <2>2. TypeOK' /\ Locks' /\ Work'
      BY <2>1 DEF IInv, TypeOK, Locks, Work, WellFormed, Unlocked, Doing
    <2>3. Engine' /\ Looping'
      BY <2>1 DEF IInv, Engine, Looping, Whole, Cursor, InOrder
    <2>4. (\A i \in past \cup {index} : Sound(i))'
      BY <2>1, SoundStays DEF IInv
    <2> QED BY <2>2, <2>3, <2>4 DEF IInv
  <1> QED BY <1>1, <1>2

LEMMA Inductive == Spec => []IInv
  BY Initially, NextKeeps, PTL DEF Spec

\* In every state every part is of its type (engine.go, store.go, handlers_ptr.go).
THEOREM TypesHold == Spec => []TypeOK
  <1>1. IInv => TypeOK
    BY DEF IInv
  <1> QED BY <1>1, Inductive, PTL

\* The index holds the first updates of one repository, in order, each once, through pauses, power
\* cuts, wipes and a change of the address (store.go, "Each carries its cursor, so the sync resumes
\* cleanly"; syncPass, Enable, SetAddress).
THEOREM IndexKeepsPrefix == Spec => []IndexIsPrefix
  <1>1. IInv => IndexIsPrefix
    <2> SUFFICES ASSUME IInv PROVE IndexIsPrefix
      OBVIOUS
    <2>1. Sound(index) /\ index.applied \in Seq(Addresses \X (1 .. MaxUpdates))
      BY DEF IInv, TypeOK, Indexes
    <2>2. \A k \in DOMAIN index.applied : index.applied[k] = <<index.applied[k][1], index.applied[k][2]>>
      BY <2>1, ElementOfSeq
    <2>3. PrefixApplied
      BY <2>1, <2>2 DEF PrefixApplied, Sound
    <2>4. OnceInOrder /\ OneRepository
      BY <2>1 DEF OnceInOrder, OneRepository, Sound, IInv, Engine
    <2> QED BY <2>3, <2>4 DEF IndexIsPrefix
  <1> QED BY <1>1, Inductive, PTL

\* Nothing speaks for more than the index holds: lookups are answered only from an index that once
\* was whole (CaughtUp), the coverage is never ahead of the rows (CoveredThrough), and the loop
\* runs only on an open store (Disable, Delete).
THEOREM CompleteStaysWhole == Spec => []CompleteIsWhole
  <1>1. IInv => CompleteIsWhole
    <2> SUFFICES ASSUME IInv PROVE CompleteIsWhole
      OBVIOUS
    <2>1. PartialBuildRefuses
      BY DEF IInv, Engine, PartialBuildRefuses, CaughtUp, Whole
    <2>2. index.covered <= Cursor /\ engine.covered <= index.covered
      BY CursorIs DEF IInv, Sound, Engine
    <2>3. LoopHasIndex
      BY DEF IInv, Looping, Engine, LoopHasIndex
    <2> QED BY <2>1, <2>2, <2>3 DEF CompleteIsWhole, CoverageIsIndexed
  <1> QED BY <1>1, Inductive, PTL

==============================================================================
