---------------------------- MODULE SeriesProofs ----------------------------
(***************************************************************************)
(* NoDoubleFetch and ChainIsKept of Series, for any number of workers,     *)
(* windows, runs, posts and operations, any cap and any target.            *)
(*                                                                         *)
(* What a window lists depends on its place alone: its offset and its      *)
(* size, which stay from its submission on.  So the windows are kept apart *)
(* by their places, whatever runs, fails, is retried or removed.           *)
(***************************************************************************)
EXTENDS Series, SequenceTheorems, WellFoundedInduction, TLAPS

-----------------------------------------------------------------------------
(* The invariant *)

Numbers == 1 .. nextID

\* Nobody knows of a window that was not submitted.
Known ==
    /\ index \subseteq Numbers
    /\ fifo \in Seq(Numbers)
    /\ \A w \in Workers : crew[w].do # "idle" => crew[w].job \in Numbers

\* A run lists what the place of its window holds, or nothing.
Fits(j, x) ==
    /\ x.items \in {0, Listing(j)}
    /\ x.capped => x.items = Listing(j) /\ x.cap = LimitOf(j) /\ Listing(j) = LimitOf(j)

Aimed(j) == win[j].target > 0 => win[j].max > 0 /\ win[j].offset + win[j].max <= win[j].target

\* Only the root may be of no size; every other window lies past what the root may list.
Rooted ==
    /\ nextID > 0 => win[1].offset = 0
    /\ \A b \in 2 .. nextID : LimitOf(1) <= win[b].offset /\ win[b].max > 0

\* A window starts past what an earlier one may list, unless that one had nothing by then.
Apart ==
    \A a, b \in index : a < b /\ a \notin lapsed[b] => win[a].offset + Listing(a) <= win[b].offset

Placed == (\A j \in Numbers : Fits(j, win[j]) /\ Aimed(j)) /\ Rooted /\ Apart

Inv == TypeOK /\ Known /\ Placed

\* A chain left alone goes from window to window: the last window starts where the
\* fetched posts end, and the earlier ones were all full.
Reached(j) ==
    /\ 0 .. win[j].offset - 1 \subseteq fetched
    /\ win[j].auto = win[1].auto /\ win[j].target = win[1].target
    /\ win[j].auto => win[j].target = 0
    /\ \A k \in 1 .. j - 1 : win[k].capped /\ windowEnd(k) <= win[j].offset

\* A window is full, or the last of the search.
ReadOut(j) == win[j].items = Listing(j) /\ (win[j].capped \/ Listing(j) = Ahead(j))

\* It ended well and there is more to fetch.
GoesOn(j) ==
    /\ win[j].capped /\ win[j].status \in Good
    /\ 0 .. win[j].offset + Listing(j) - 1 \subseteq fetched
    /\ win[j].target > 0 => windowEnd(j) < win[j].target

Bystander(v) == At(v, "idle") \/ (At(v, "reconcile") /\ Mine(v) < nextID)

Runs(w, j) ==
    /\ Mine(w) = j /\ fifo = << >> /\ \A v \in Workers \ {w} : Bystander(v)
    /\ \/ At(w, "resolve")
       \/ At(w, "settle") /\ ReadOut(j)
       \/ crew[w].do \in {"finish", "chain", "continue"} /\ GoesOn(j)

\* The last window waits, or one worker is at it.
Underway ==
    /\ Reached(nextID)
    /\ \/ fifo = <<nextID>> /\ \A v \in Workers : Bystander(v)
       \/ \E w \in Workers : Runs(w, nextID)

Delivered == Wanted \subseteq fetched \/ \E j \in index : win[j].status = "failed"

Stops(w) ==
    \/ ~win[Mine(w)].capped
    \/ win[Mine(w)].target > 0 /\ windowEnd(Mine(w)) >= win[Mine(w)].target
    \/ win[Mine(w)].status \notin Good /\ ~At(w, "continue")

\* Nothing is to be fetched any more, and no worker submits a window.
Over ==
    /\ Delivered /\ fifo = << >>
    /\ \A w \in Workers :
         /\ crew[w].do \notin {"resolve", "settle"}
         /\ crew[w].do \in {"finish", "chain", "continue"} => Stops(w)

Undisturbed == meddled = 0 /\ ~closed

Straight ==
    Undisturbed =>
        /\ op.do = "none" /\ cut = {} /\ index = Numbers
        /\ nextID = 0 => fifo = << >> /\ \A w \in Workers : At(w, "idle")
        /\ nextID > 0 /\ (win[1].auto \/ win[1].target > 0) => Over \/ Underway

-----------------------------------------------------------------------------
(* Lemmas about the operators *)

LEMMA LeastNumber ==
    ASSUME NEW T \in SUBSET Nat, T # {}
    PROVE  \E x \in T : \A y \in T : x <= y
  <1>1. IsWellFoundedOn({ss \in Nat \X Nat : ss[1] < ss[2]}, Nat)
    BY NatLessThanWellFounded DEF OpToRel
  <1>2. PICK x \in T : \A y \in T : <<y, x>> \notin {ss \in Nat \X Nat : ss[1] < ss[2]}
    BY <1>1, WFMin
  <1>3. ASSUME NEW y \in T PROVE x <= y
    <2>1. SUFFICES ASSUME y < x PROVE FALSE
      BY SMT
    <2>2. QED
      BY <1>2, <2>1
  <1>4. QED
    BY <1>3

\* Numbers of finitely many windows are bounded.
LEMMA Bounded ==
    ASSUME NEW n \in Nat, NEW f \in [1 .. n -> Nat]
    PROVE  \E u \in Nat : \A j \in 1 .. n : f[j] <= u
  <1> DEFINE T == {m \in 0 .. n : ~ \E u \in Nat : \A j \in 1 .. m : f[j] <= u}
  <1>1. SUFFICES ASSUME ~ \E u \in Nat : \A j \in 1 .. n : f[j] <= u PROVE FALSE
    OBVIOUS
  <1>2. T \in SUBSET Nat
    OBVIOUS
  <1>3. PICK m \in T : \A k \in T : m <= k
    <2>1. n \in T
      BY <1>1
    <2>2. QED
      BY <1>2, <2>1, LeastNumber
  <1>4. m # 0
    <2>1. \A j \in 1 .. 0 : f[j] <= 0
      OBVIOUS
    <2>2. QED
      BY <2>1
  <1>5. m - 1 \in 0 .. n /\ m - 1 \notin T
    <2>1. m \in 0 .. n /\ ~(m <= m - 1) /\ m - 1 \in 0 .. n
      BY <1>3, <1>4
    <2>2. QED
      BY <1>3, <2>1
  <1>6. PICK u \in Nat : \A j \in 1 .. m - 1 : f[j] <= u
    BY <1>5
  <1>7. PICK v \in Nat : v = f[m]
    BY <1>3, <1>4
  <1>8. \A j \in 1 .. m : f[j] <= u + v
    <2>1. ASSUME NEW j \in 1 .. m PROVE f[j] <= u + v
      <3>1. f[j] \in Nat
        BY <1>3
      <3>2. j = m \/ j \in 1 .. m - 1
        BY <1>3, <1>4
      <3>3. QED
        BY <1>6, <1>7, <3>1, <3>2
    <2>2. QED
      BY <2>1
  <1>9. u + v \in Nat
    OBVIOUS
  <1>10. QED
    BY <1>3, <1>8, <1>9

LEMMA LargestNumber ==
    ASSUME NEW u \in Nat, NEW S \in SUBSET (0 .. u), S # {}
    PROVE  Largest(S) \in S /\ \A y \in S : y <= Largest(S)
  <1> DEFINE Gap == {u - x : x \in S}
  <1>1. Gap \in SUBSET Nat /\ Gap # {}
    <2>1. \A x \in S : u - x \in Nat
      OBVIOUS
    <2>2. QED
      BY <2>1
  <1>2. PICK g \in Gap : \A h \in Gap : g <= h
    BY <1>1, LeastNumber
  <1>3. PICK x \in S : g = u - x
    OBVIOUS
  <1>4. \A y \in S : y <= x
    <2>1. ASSUME NEW y \in S PROVE y <= x
      <3>1. g <= u - y
        BY <1>2
      <3>2. QED
        BY <1>3, <3>1
    <2>2. QED
      BY <2>1
  <1>5. QED
    BY <1>4 DEF Largest

\* The largest of a number that each window of a set has.
LEMMA LargestOfWindows ==
    ASSUME NEW n \in Nat, NEW I \in SUBSET (1 .. n), NEW f \in [1 .. n -> Nat]
    PROVE  /\ Largest({f[j] : j \in I} \cup {0}) \in Nat
           /\ \A j \in I : f[j] <= Largest({f[i] : i \in I} \cup {0})
           /\ \/ Largest({f[j] : j \in I} \cup {0}) = 0
              \/ \E j \in I : Largest({f[i] : i \in I} \cup {0}) = f[j]
  <1> DEFINE S == {f[j] : j \in I} \cup {0}
  <1>1. PICK u \in Nat : \A j \in 1 .. n : f[j] <= u
    BY Bounded
  <1>2. S \in SUBSET (0 .. u) /\ S # {}
    BY <1>1
  <1>3. Largest(S) \in S /\ \A y \in S : y <= Largest(S)
    BY <1>1, <1>2, LargestNumber
  <1>4. PICK h : h = Largest(S)
    OBVIOUS
  <1>5. h \in S /\ \A j \in I : f[j] <= h
    BY <1>3, <1>4
  <1>6. h \in Nat /\ (h = 0 \/ \E j \in I : h = f[j])
    BY <1>5
  <1>7. QED
    BY <1>4, <1>5, <1>6

\* What a window may list is a number that its place gives.
LEMMA ListingType ==
    ASSUME TypeOK, NEW j \in Ids
    PROVE  /\ LimitOf(j) \in Nat \ {0} /\ Listing(j) \in Nat /\ Listing(j) <= LimitOf(j)
           /\ Ahead(j) \in Nat /\ Listing(j) <= Ahead(j)
           /\ win[j].max > 0 => LimitOf(j) <= win[j].max
           /\ win[j].offset + Ahead(j) <= Posts \/ Ahead(j) = 0
           /\ windowEnd(j) \in Nat /\ win[j].cap \in Nat /\ win[j] \in WindowType
  <1>1. win[j] \in WindowType /\ Cap \in Nat \ {0} /\ Posts \in Nat
    BY SeriesAssumption DEF TypeOK
  <1>2. /\ win[j].max \in Nat /\ win[j].offset \in Nat /\ win[j].items \in Nat /\ win[j].cap \in Nat
        /\ win[j].capped \in BOOLEAN
    BY <1>1 DEF WindowType
  <1>3. LimitOf(j) \in Nat \ {0} /\ (win[j].max > 0 => LimitOf(j) <= win[j].max)
    BY <1>1, <1>2 DEF LimitOf, Smaller
  <1>4. Ahead(j) \in Nat /\ (win[j].offset + Ahead(j) <= Posts \/ Ahead(j) = 0)
    BY <1>1, <1>2 DEF Ahead
  <1>5. Listing(j) \in Nat /\ Listing(j) <= LimitOf(j) /\ Listing(j) <= Ahead(j)
    BY <1>3, <1>4 DEF Listing, Smaller
  <1>6. windowEnd(j) \in Nat
    BY <1>2 DEF windowEnd
  <1>7. QED
    BY <1>1, <1>2, <1>3, <1>4, <1>5, <1>6

\* High is past the end of every window that the queue knows, and is one of them.
LEMMA HighIsHighest ==
    ASSUME TypeOK, Known
    PROVE  /\ High \in Nat
           /\ \A j \in index : windowEnd(j) <= High
           /\ High = 0 \/ \E j \in index : High = windowEnd(j)
  <1> DEFINE f == [j \in Numbers |-> windowEnd(j)]
  <1>1. nextID \in Nat /\ Numbers \subseteq Ids /\ index \in SUBSET (1 .. nextID)
    BY SeriesAssumption DEF TypeOK, Known, Numbers, Ids
  <1>2. f \in [1 .. nextID -> Nat]
    BY <1>1, ListingType DEF Numbers
  <1>3. {f[j] : j \in index} = {windowEnd(j) : j \in index}
    BY <1>1 DEF Numbers
  <1>4. High = Largest({f[j] : j \in index} \cup {0})
    BY <1>3 DEF High
  <1>5. \A j \in index : f[j] = windowEnd(j)
    BY <1>1 DEF Numbers
  <1> HIDE DEF f
  <1>6. QED
    BY <1>1, <1>2, <1>4, <1>5, LargestOfWindows

LEMMA WidestIsWidest ==
    ASSUME TypeOK, Known
    PROVE  Widest \in Nat /\ \A j \in index : win[j].cap <= Widest
  <1> DEFINE f == [j \in Numbers |-> win[j].cap]
  <1>1. nextID \in Nat /\ Numbers \subseteq Ids /\ index \in SUBSET (1 .. nextID)
    BY SeriesAssumption DEF TypeOK, Known, Numbers, Ids
  <1>2. f \in [1 .. nextID -> Nat]
    BY <1>1, ListingType DEF Numbers
  <1>3. {f[j] : j \in index} = {win[j].cap : j \in index}
    BY <1>1 DEF Numbers
  <1>4. Widest = Largest({f[j] : j \in index} \cup {0})
    BY <1>3 DEF Widest
  <1>5. \A j \in index : f[j] = win[j].cap
    BY <1>1 DEF Numbers
  <1> HIDE DEF f
  <1>6. QED
    BY <1>1, <1>2, <1>4, <1>5, LargestOfWindows

-----------------------------------------------------------------------------
(* The places of the windows *)

LEMMA NumbersAreIds == ASSUME TypeOK PROVE Numbers \subseteq Ids /\ nextID \in Nat
  BY SeriesAssumption DEF TypeOK, Numbers, Ids

\* A window whose place stays may list what it could before.
LEMMA PlaceStands ==
    ASSUME NEW j, win'[j].offset = win[j].offset, win'[j].max = win[j].max
    PROVE  LimitOf(j)' = LimitOf(j) /\ Ahead(j)' = Ahead(j) /\ Listing(j)' = Listing(j)
  BY DEF LimitOf, Ahead, Listing

\* A step that submits nothing leaves every window its place.
LEMMA PlacedStands ==
    ASSUME Inv, nextID' = nextID, index' \subseteq index, lapsed' = lapsed,
           \A j \in Numbers : /\ win'[j].offset = win[j].offset /\ win'[j].max = win[j].max
                              /\ win'[j].target = win[j].target /\ Fits(j, win'[j])
    PROVE  Placed'
  <1>1. Numbers' = Numbers /\ nextID \in Nat /\ index \subseteq Numbers
    BY NumbersAreIds DEF Inv, Known, Numbers
  <1>2. ASSUME NEW j \in Numbers
        PROVE  LimitOf(j)' = LimitOf(j) /\ Ahead(j)' = Ahead(j) /\ Listing(j)' = Listing(j)
    BY PlaceStands
  <1>3. ASSUME NEW j \in Numbers PROVE (Fits(j, win[j]) /\ Aimed(j))'
    <2>1. Fits(j, win[j])'
      BY <1>2 DEF Fits
    <2>2. Aimed(j)'
      BY DEF Aimed, Inv, Placed
    <2>3. QED
      BY <2>1, <2>2
  <1>4. Rooted'
    <2>1. nextID > 0 => win'[1].offset = win[1].offset
      BY <1>1 DEF Numbers
    <2>2. ASSUME NEW b \in 2 .. nextID PROVE LimitOf(1)' <= win'[b].offset /\ win'[b].max > 0
      <3>1. b \in Numbers /\ 1 \in Numbers
        BY <1>1 DEF Numbers
      <3>2. QED
        BY <1>2, <3>1 DEF Inv, Placed, Rooted
    <2>3. QED
      BY <2>1, <2>2 DEF Rooted, Inv, Placed
  <1>5. Apart'
    <2>1. ASSUME NEW a \in index', NEW b \in index', a < b, a \notin lapsed'[b]
          PROVE  win'[a].offset + Listing(a)' <= win'[b].offset
      <3>1. a \in Numbers /\ b \in Numbers /\ a \in index /\ b \in index
        BY <1>1
      <3>2. win[a].offset + Listing(a) <= win[b].offset
        BY <2>1, <3>1 DEF Inv, Placed, Apart
      <3>3. QED
        BY <1>2, <3>1, <3>2
    <2>2. QED
      BY <2>1 DEF Apart
  <1>6. QED
    BY <1>1, <1>3, <1>4, <1>5 DEF Placed

\* The next window lies past all that the others may list.
LEMMA HighIsPast ==
    ASSUME Inv, NEW k \in index, win[k].capped
    PROVE  /\ LimitOf(1) <= High /\ Widest > 0
           /\ \A a \in index : win[a].offset + Listing(a) <= High
                                 \/ (IsSettled(a) /\ windowEnd(a) = win[a].offset)
  <1>1. /\ TypeOK /\ Known /\ Placed /\ Numbers \subseteq Ids /\ nextID \in Nat
        /\ index \subseteq Numbers
    BY NumbersAreIds DEF Inv, Known
  <1>2. High \in Nat /\ \A j \in index : windowEnd(j) <= High
    BY <1>1, HighIsHighest
  <1>3. ASSUME NEW j \in index
        PROVE  /\ LimitOf(j) \in Nat \ {0} /\ Listing(j) \in Nat /\ Listing(j) <= LimitOf(j)
               /\ win[j].max > 0 => LimitOf(j) <= win[j].max
               /\ win[j].max \in Nat /\ win[j].offset \in Nat /\ win[j].items \in Nat
               /\ win[j].cap \in Nat /\ win[j].capped \in BOOLEAN
               /\ Fits(j, win[j])
    BY <1>1, ListingType DEF WindowType, Placed
  <1>4. ASSUME NEW j \in index, win[j].capped
        PROVE  windowEnd(j) = win[j].offset + Listing(j) /\ Listing(j) = LimitOf(j)
    BY <1>3, <1>4 DEF windowEnd, Fits
  <1>5. nextID > 0 /\ 1 \in Numbers /\ k \in Numbers
    BY <1>1 DEF Numbers
  <1>6. LimitOf(1) \in Nat /\ win[1].offset = 0
    BY <1>1, <1>5, ListingType DEF Placed, Rooted
  <1>7. LimitOf(1) <= High
    <2>1. CASE k = 1
      BY <1>2, <1>3, <1>4, <1>6, <2>1
    <2>2. CASE k # 1
      <3>1. k \in 2 .. nextID
        BY <1>1, <1>5, <2>2 DEF Numbers
      <3>2. LimitOf(1) <= win[k].offset
        BY <1>1, <3>1 DEF Placed, Rooted
      <3>3. QED
        BY <1>2, <1>3, <1>4, <1>6, <3>2
    <2>3. QED
      BY <2>1, <2>2
  <1>8. Widest > 0
    <2>1. Widest \in Nat /\ win[k].cap <= Widest
      BY <1>1, WidestIsWidest
    <2>2. win[k].cap = LimitOf(k)
      BY <1>3 DEF Fits
    <2>3. QED
      BY <1>3, <2>1, <2>2
  <1>9. ASSUME NEW a \in index, ~(IsSettled(a) /\ windowEnd(a) = win[a].offset)
        PROVE  win[a].offset + Listing(a) <= High
    <2>1. CASE win[a].capped
      BY <1>2, <1>4, <2>1
    <2>2. CASE ~win[a].capped /\ ~IsSettled(a) /\ win[a].items = 0 /\ win[a].max > 0
      <3>1. windowEnd(a) = win[a].offset + win[a].max
        BY <2>2 DEF windowEnd
      <3>2. windowEnd(a) <= High
        BY <1>2
      <3>3. Listing(a) <= win[a].max
        BY <1>3, <2>2
      <3>4. QED
        BY <1>2, <1>3, <3>1, <3>2, <3>3
    <2>3. CASE ~win[a].capped /\ ~IsSettled(a) /\ win[a].items = 0 /\ win[a].max = 0
      <3>1. a = 1
        <4>1. a \notin 2 .. nextID
          BY <1>1, <2>3 DEF Placed, Rooted
        <4>2. QED
          BY <1>1, <4>1 DEF Numbers
      <3>2. QED
        BY <1>2, <1>3, <1>6, <1>7, <3>1
    <2>4. CASE ~win[a].capped /\ ~(~IsSettled(a) /\ win[a].items = 0)
      <3>1. windowEnd(a) = win[a].offset + win[a].items
        BY <2>4 DEF windowEnd
      <3>2. win[a].items = Listing(a)
        <4>1. win[a].items \in {0, Listing(a)}
          BY <1>3 DEF Fits
        <4>2. CASE win[a].items = 0
          BY <1>3, <1>9, <2>4, <3>1, <4>2
        <4>3. QED
          BY <4>1, <4>2
      <3>3. QED
        BY <1>2, <3>1, <3>2
    <2>5. QED
      BY <1>3, <2>1, <2>2, <2>3, <2>4
  <1>10. QED
    BY <1>7, <1>8, <1>9

\* A submitted window is placed, the first one at the start and the others at High.
LEMMA EnqueueIsPlaced ==
    ASSUME Inv, NEW x \in WindowType, EnqueueWindow(x),
           x.items = 0, ~x.capped, x.cap = 0,
           x.target > 0 => x.max > 0 /\ x.offset + x.max <= x.target,
           \/ nextID = 0 /\ x.offset = 0
           \/ x.offset = High /\ x.max > 0 /\ \E k \in index : win[k].capped
    PROVE  /\ Placed' /\ win' \in [Ids -> WindowType] /\ nextID' \in 0 .. MaxWindows
           /\ lapsed' \in [Ids -> SUBSET Ids] /\ index' \subseteq Numbers'
           /\ fifo' \in Seq(Numbers') /\ Numbers \subseteq Numbers'
  <1>0. PICK n : n = nextID + 1
    OBVIOUS
  <1> DEFINE gone == {j \in index : IsSettled(j) /\ windowEnd(j) = win[j].offset}
  <1>1. /\ TypeOK /\ Known /\ Placed /\ nextID \in Nat /\ Numbers \subseteq Ids
        /\ index \subseteq Numbers /\ MaxWindows \in Nat /\ MaxRuns \in Nat \ {0}
    BY NumbersAreIds, SeriesAssumption DEF Inv, Known
  <1>2. PICK q : q = [x EXCEPT !.status = "queued", !.run = 1]
    OBVIOUS
  <1>3. /\ q \in WindowType /\ q.offset = x.offset /\ q.max = x.max /\ q.target = x.target
        /\ q.items = 0 /\ ~q.capped /\ q.cap = 0
    <2>1. 1 \in 0 .. MaxRuns
      BY <1>1
    <2>2. QED
      BY <1>2, <2>1 DEF WindowType
  <1>4. /\ nextID' = n /\ n \in Ids /\ n \notin Numbers /\ n \in 0 .. MaxWindows
        /\ Numbers' = Numbers \cup {n}
    BY <1>0, <1>1 DEF EnqueueWindow, Ids, Numbers
  <1>5. win' = [win EXCEPT ![n] = q] /\ index' = index \cup {n} /\ fifo' = Append(fifo, n)
    BY <1>0, <1>2 DEF EnqueueWindow
  <1>6. win' \in [Ids -> WindowType] /\ win'[n] = q /\ \A j \in Numbers : win'[j] = win[j]
    <2>1. win \in [Ids -> WindowType]
      BY <1>1 DEF TypeOK
    <2>2. QED
      BY <1>1, <1>3, <1>4, <1>5, <2>1
  <1>7. lapsed' = [lapsed EXCEPT ![n] = gone]
    BY <1>0 DEF EnqueueWindow
  <1>8. lapsed \in [Ids -> SUBSET Ids] /\ gone \in SUBSET Ids
    BY <1>1 DEF TypeOK
  <1>9. lapsed' \in [Ids -> SUBSET Ids] /\ lapsed'[n] = gone /\ \A j \in Numbers : lapsed'[j] = lapsed[j]
    BY <1>1, <1>4, <1>7, <1>8
  <1>10. fifo' \in Seq(Numbers')
    <2>1. fifo \in Seq(Numbers')
      BY <1>1, <1>4, SeqMonotonic DEF Known
    <2>2. QED
      BY <1>4, <1>5, <2>1, AppendProperties
  <1>11. ASSUME NEW j \in Numbers
         PROVE  LimitOf(j)' = LimitOf(j) /\ Ahead(j)' = Ahead(j) /\ Listing(j)' = Listing(j)
    BY <1>6, PlaceStands
  <1>12. \A j \in Numbers' : Fits(j, win[j])' /\ Aimed(j)'
    <2>1. ASSUME NEW j \in Numbers PROVE Fits(j, win[j])' /\ Aimed(j)'
      BY <1>1, <1>6, <1>11 DEF Placed, Fits, Aimed
    <2>2. Fits(n, win[n])' /\ Aimed(n)'
      BY <1>3, <1>6 DEF Fits, Aimed
    <2>3. QED
      BY <1>4, <2>1, <2>2
  <1>13. Rooted'
    <2>1. CASE nextID = 0 /\ x.offset = 0
      <3>1. n = 1 /\ 2 .. nextID' = {}
        BY <1>0, <1>4, <2>1
      <3>2. QED
        BY <1>3, <1>6, <2>1, <3>1 DEF Rooted
    <2>2. CASE nextID # 0
      <3>1. 1 \in Numbers /\ x.offset = High /\ x.max > 0 /\ LimitOf(1) <= High
        BY <1>1, <2>2, HighIsPast DEF Numbers
      <3>2. win'[1].offset = 0
        BY <1>1, <1>6, <2>2, <3>1 DEF Placed, Rooted
      <3>3. ASSUME NEW b \in 2 .. nextID' PROVE LimitOf(1)' <= win'[b].offset /\ win'[b].max > 0
        <4>1. CASE b = n
          BY <1>3, <1>6, <1>11, <3>1, <4>1
        <4>2. CASE b # n
          <5>1. b \in 2 .. nextID /\ b \in Numbers
            BY <1>0, <1>1, <1>4, <4>2 DEF Numbers
          <5>2. QED
            BY <1>1, <1>6, <1>11, <3>1, <5>1 DEF Placed, Rooted
        <4>3. QED
          BY <4>1, <4>2
      <3>4. QED
        BY <3>2, <3>3 DEF Rooted
    <2>3. CASE x.offset = High /\ x.max > 0 /\ \E k \in index : win[k].capped
      <3>1. nextID # 0
        BY <1>1, <2>3 DEF Numbers
      <3>2. QED
        BY <2>2, <3>1
    <2>4. QED
      BY <2>1, <2>3
  <1>14. Apart'
    <2>1. ASSUME NEW a \in index', NEW b \in index', a < b, a \notin lapsed'[b]
          PROVE  win'[a].offset + Listing(a)' <= win'[b].offset
      <3>1. a \in Numbers /\ a \in index
        BY <1>0, <1>1, <1>4, <1>5, <2>1 DEF Numbers
      <3>2. CASE b = n
        <4>1. a \notin gone
          BY <1>9, <2>1, <3>2
        <4>2. x.offset = High /\ \E k \in index : win[k].capped
          BY <1>1, <3>1 DEF Numbers
        <4>3. win[a].offset + Listing(a) <= High
          BY <3>1, <4>1, <4>2, HighIsPast
        <4>4. QED
          BY <1>3, <1>6, <1>11, <3>1, <3>2, <4>2, <4>3
      <3>3. CASE b # n
        <4>1. b \in index /\ b \in Numbers
          BY <1>1, <1>5, <3>3
        <4>2. win[a].offset + Listing(a) <= win[b].offset
          BY <1>1, <1>9, <2>1, <3>1, <4>1 DEF Placed, Apart
        <4>3. QED
          BY <1>6, <1>11, <3>1, <4>1, <4>2
      <3>4. QED
        BY <3>2, <3>3
    <2>2. QED
      BY <2>1 DEF Apart
  <1>15. index' \subseteq Numbers'
    BY <1>1, <1>4, <1>5
  <1>16. QED
    BY <1>4, <1>6, <1>9, <1>10, <1>12, <1>13, <1>14, <1>15 DEF Placed

\* A step that changes no window.
LEMMA PlacedRests ==
    ASSUME Inv, nextID' = nextID, index' \subseteq index, lapsed' = lapsed, win' = win
    PROVE  Placed'
  <1>1. ASSUME NEW j \in Numbers PROVE Fits(j, win'[j])
    BY DEF Inv, Placed
  <1>2. QED
    BY <1>1, PlacedStands

\* A step that changes one window, and not its place.
LEMMA WindowStands ==
    ASSUME Inv, NEW j \in Numbers, NEW x \in WindowType, win' = [win EXCEPT ![j] = x],
           x.offset = win[j].offset, x.max = win[j].max, x.target = win[j].target, Fits(j, x),
           nextID' = nextID, index' \subseteq index, lapsed' = lapsed
    PROVE  /\ Placed' /\ win' \in [Ids -> WindowType]
           /\ win'[j] = x /\ \A k \in Numbers : k # j => win'[k] = win[k]
  <1>1. win \in [Ids -> WindowType] /\ Numbers \subseteq Ids
    BY NumbersAreIds DEF Inv, TypeOK
  <1>2. win'[j] = x /\ \A k \in Numbers : k # j => win'[k] = win[k]
    BY <1>1
  <1>3. ASSUME NEW k \in Numbers
        PROVE  /\ win'[k].offset = win[k].offset /\ win'[k].max = win[k].max
               /\ win'[k].target = win[k].target /\ Fits(k, win'[k])
    BY <1>2 DEF Inv, Placed
  <1>4. Placed'
    BY <1>3, PlacedStands
  <1>5. QED
    BY <1>1, <1>2, <1>4

\* A window that keeps what it listed fits as before.
LEMMA StatusFits ==
    ASSUME Inv, NEW j \in Numbers, NEW s \in {"running", "canceled"} \cup Settled
    PROVE  /\ [win[j] EXCEPT !.status = s] \in WindowType
           /\ [win[j] EXCEPT !.status = s].offset = win[j].offset
           /\ [win[j] EXCEPT !.status = s].max = win[j].max
           /\ [win[j] EXCEPT !.status = s].target = win[j].target
           /\ Fits(j, [win[j] EXCEPT !.status = s])
  <1>1. win[j] \in WindowType /\ Fits(j, win[j])
    BY NumbersAreIds DEF Inv, TypeOK, Placed
  <1>2. PICK x : x = [win[j] EXCEPT !.status = s]
    OBVIOUS
  <1>3. /\ x \in WindowType /\ x.offset = win[j].offset /\ x.max = win[j].max
        /\ x.target = win[j].target /\ x.items = win[j].items /\ x.capped = win[j].capped
        /\ x.cap = win[j].cap
    BY <1>1, <1>2 DEF WindowType, Settled, Good
  <1>4. Fits(j, x)
    BY <1>1, <1>3 DEF Fits
  <1>5. QED
    BY <1>2, <1>3, <1>4

Stages == {"idle", "resolve", "settle", "finish", "chain", "continue", "reconcile", "clear"}

\* A worker goes on with its window.
LEMMA WorkerGoes ==
    ASSUME Inv, NEW w \in Workers, NEW what \in Stages, ~At(w, "idle"), Goes(w, what)
    PROVE  /\ crew' \in [Workers -> [job : Ids \cup {0}, do : Stages]]
           /\ crew' = [crew EXCEPT ![w] = [job |-> Mine(w), do |-> what]]
           /\ crew'[w] = [job |-> Mine(w), do |-> what] /\ Mine(w) \in Numbers
           /\ \A v \in Workers : v # w => crew'[v] = crew[v]
           /\ \A v \in Workers : crew'[v].do # "idle" => crew'[v].job \in Numbers
  <1>1. crew \in [Workers -> [job : Ids \cup {0}, do : Stages]]
    BY DEF Inv, TypeOK, Stages
  <1>2. Mine(w) \in Numbers
    BY DEF Inv, Known, Mine, At
  <1>3. PICK c : c = [job |-> Mine(w), do |-> what]
    OBVIOUS
  <1>4. c \in [job : Ids \cup {0}, do : Stages]
    BY <1>2, <1>3, NumbersAreIds DEF Inv
  <1>5. [crew[w] EXCEPT !.do = what] = c
    BY <1>1, <1>3 DEF Mine
  <1>6. crew' = [crew EXCEPT ![w] = c]
    BY <1>1, <1>5 DEF Goes
  <1>7. \A v \in Workers : crew'[v].do # "idle" => crew'[v].job \in Numbers
    BY <1>1, <1>2, <1>3, <1>6 DEF Inv, Known
  <1>8. QED
    BY <1>1, <1>2, <1>3, <1>4, <1>6, <1>7

\* A window taken off the FIFO leaves the others there.
LEMMA WithoutWindowType ==
    ASSUME Inv, NEW j
    PROVE  WithoutWindow(j) \in Seq(Numbers)
  <1>1. fifo \in Seq(Numbers)
    BY DEF Inv, Known
  <1>2. CASE ~Waiting(j)
    BY <1>1, <1>2 DEF WithoutWindow
  <1>3. CASE Waiting(j)
    <2>1. PICK i : i = CHOOSE k \in DOMAIN fifo : fifo[k] = j
      OBVIOUS
    <2>2. i \in 1 .. Len(fifo) /\ Len(fifo) \in Nat
      BY <1>1, <1>3, <2>1 DEF Waiting
    <2> DEFINE rest == [k \in 1 .. Len(fifo) - 1 |-> fifo[IF k < i THEN k ELSE k + 1]]
    <2>3. \A k \in 1 .. Len(fifo) - 1 : fifo[IF k < i THEN k ELSE k + 1] \in Numbers
      BY <1>1, <2>2
    <2>4. rest \in [1 .. Len(fifo) - 1 -> Numbers] /\ Len(fifo) - 1 \in Nat
      BY <2>2, <2>3
    <2>5. rest \in Seq(Numbers)
      BY <2>4, SeqDef
    <2>6. WithoutWindow(j) = rest
      BY <1>3, <2>1 DEF WithoutWindow
    <2>7. QED
      BY <2>5, <2>6
  <1>4. QED
    BY <1>2, <1>3

-----------------------------------------------------------------------------
(* The operator's steps *)

LEMMA SubmitKeeps == ASSUME Inv, Submit PROVE Inv'
  <1>1. PICK n \in Asked : EnqueueWindow(WithItems(n))
    BY DEF Submit
  <1>2. PICK x : x = WithItems(n)
    OBVIOUS
  <1>3. /\ x \in WindowType /\ x.items = 0 /\ ~x.capped /\ x.cap = 0 /\ x.offset = 0
        /\ x.target > 0 => x.max > 0 /\ x.offset + x.max <= x.target
    <2>1. n \in Nat \/ n = -1
      BY <1>1, SeriesAssumption DEF ItemsAll
    <2>2. PICK m \in Nat : m = IF n > 0 THEN n ELSE 0
      BY <2>1
    <2>3. PICK auto \in BOOLEAN : auto = (n = ItemsAll)
      OBVIOUS
    <2>4. x = [NoWindow EXCEPT !.max = m, !.target = m, !.auto = auto]
      BY <1>2, <2>2, <2>3 DEF WithItems
    <2>5. 0 \in 0 .. MaxRuns
      BY SeriesAssumption
    <2>6. /\ x.items = 0 /\ ~x.capped /\ x.cap = 0 /\ x.offset = 0 /\ x.max = m /\ x.target = m
      BY <2>4 DEF NoWindow
    <2>7. NoWindow \in WindowType
      BY <2>5 DEF NoWindow, WindowType
    <2>8. x \in WindowType
      BY <2>2, <2>3, <2>4, <2>7 DEF WindowType
    <2>9. QED
      BY <2>2, <2>6, <2>8
  <1>4. nextID = 0 /\ EnqueueWindow(x) /\ finished' = finished
    BY <1>1, <1>2 DEF Submit, EnqueueWindow
  <1>5. /\ Placed' /\ win' \in [Ids -> WindowType] /\ nextID' \in 0 .. MaxWindows
        /\ lapsed' \in [Ids -> SUBSET Ids] /\ index' \subseteq Numbers'
        /\ fifo' \in Seq(Numbers') /\ Numbers \subseteq Numbers'
    BY <1>3, <1>4, EnqueueIsPlaced
  <1>6. /\ UNCHANGED <<crew, cut, closed, op, fetched, dismissed, calledOff, meddled>>
        /\ whole' \in BOOLEAN
    BY SeriesAssumption DEF Submit
  <1>7. Numbers' \subseteq Ids
    BY <1>5, SeriesAssumption DEF Numbers, Ids
  <1>8. TypeOK'
    BY <1>4, <1>5, <1>6, <1>7, SeqMonotonic DEF Inv, TypeOK
  <1>9. Known'
    BY <1>5, <1>6 DEF Inv, Known
  <1>10. QED
    BY <1>5, <1>8, <1>9 DEF Inv

\* The next window has a size, ends within its target, and starts at High.
LEMMA NextWindowIsAimed ==
    ASSUME Inv, NEW k \in index, NEW auto \in BOOLEAN, NEW target \in Nat, MayContinue(k, target)
    PROVE  /\ NextWindow(auto, target) \in WindowType
           /\ NextWindow(auto, target).items = 0 /\ ~NextWindow(auto, target).capped
           /\ NextWindow(auto, target).cap = 0
           /\ NextWindow(auto, target).offset = High /\ NextWindow(auto, target).max > 0
           /\ NextWindow(auto, target).auto = auto /\ NextWindow(auto, target).target = target
           /\ target > 0 => High + NextWindow(auto, target).max <= target
  <1>1. High \in Nat /\ Widest \in Nat /\ Widest > 0
    BY HighIsHighest, WidestIsWidest, HighIsPast DEF Inv, MayContinue
  <1>2. PICK max : max = IF target > 0 THEN Smaller(Widest, target - High) ELSE Widest
    OBVIOUS
  <1>3. max \in Nat /\ max > 0 /\ (target > 0 => High + max <= target)
    BY <1>1, <1>2 DEF Smaller, MayContinue
  <1>4. PICK h : h = High
    OBVIOUS
  <1>5. PICK x : x = [NoWindow EXCEPT !.offset = h, !.auto = auto, !.target = target, !.max = max]
    OBVIOUS
  <1>6. NextWindow(auto, target) = x
    BY <1>2, <1>4, <1>5 DEF NextWindow
  <1>7. /\ x.items = 0 /\ ~x.capped /\ x.cap = 0 /\ x.offset = h /\ x.max = max
        /\ x.auto = auto /\ x.target = target
    BY <1>5 DEF NoWindow
  <1>8. 0 \in 0 .. MaxRuns
    BY SeriesAssumption
  <1>9. x \in WindowType
    BY <1>1, <1>3, <1>4, <1>5, <1>8 DEF NoWindow, WindowType
  <1>10. QED
    BY <1>3, <1>4, <1>6, <1>7, <1>9

LEMMA ContinuationIsPlaced ==
    ASSUME Inv, NEW k \in index, NEW auto \in BOOLEAN, NEW target \in Nat, MayContinue(k, target),
           EnqueueWindow(NextWindow(auto, target))
    PROVE  /\ Placed' /\ win' \in [Ids -> WindowType] /\ nextID' \in 0 .. MaxWindows
           /\ lapsed' \in [Ids -> SUBSET Ids] /\ index' \subseteq Ids /\ index' \subseteq Numbers'
           /\ fifo' \in Seq(Ids) /\ fifo' \in Seq(Numbers') /\ Numbers \subseteq Numbers'
           /\ finished' = finished
  <1>1. PICK x : x = NextWindow(auto, target)
    OBVIOUS
  <1>2. /\ x \in WindowType /\ x.items = 0 /\ ~x.capped /\ x.cap = 0
        /\ x.offset = High /\ x.max > 0 /\ x.target = target
        /\ target > 0 => High + x.max <= target
    BY <1>1, NextWindowIsAimed
  <1>3. EnqueueWindow(x) /\ \E i \in index : win[i].capped
    BY <1>1 DEF MayContinue
  <1>4. /\ Placed' /\ win' \in [Ids -> WindowType] /\ nextID' \in 0 .. MaxWindows
        /\ lapsed' \in [Ids -> SUBSET Ids] /\ index' \subseteq Numbers'
        /\ fifo' \in Seq(Numbers') /\ Numbers \subseteq Numbers'
    BY <1>2, <1>3, EnqueueIsPlaced
  <1>5. Numbers' \subseteq Ids
    BY <1>4, SeriesAssumption DEF Numbers, Ids
  <1>6. finished' = finished
    BY <1>3 DEF EnqueueWindow
  <1>7. QED
    BY <1>4, <1>5, <1>6, SeqMonotonic

LEMMA ContinueKeeps == ASSUME Inv, NEW j \in Ids, NEW auto \in BOOLEAN, Continue(j, auto) PROVE Inv'
  <1>1. j \in index /\ MayContinue(j, 0) /\ EnqueueWindow(NextWindow(auto, 0)) /\ 0 \in Nat
    BY DEF Continue, MayContinue
  <1>2. /\ Placed' /\ win' \in [Ids -> WindowType] /\ nextID' \in 0 .. MaxWindows
        /\ lapsed' \in [Ids -> SUBSET Ids] /\ index' \subseteq Ids /\ index' \subseteq Numbers'
        /\ fifo' \in Seq(Ids) /\ fifo' \in Seq(Numbers') /\ Numbers \subseteq Numbers'
        /\ finished' = finished
    BY <1>1, ContinuationIsPlaced
  <1>3. /\ UNCHANGED <<crew, cut, closed, whole, op, fetched, dismissed>>
        /\ calledOff' = FALSE /\ meddled' \in Nat
    BY DEF Continue, Inv, TypeOK
  <1>4. TypeOK'
    BY <1>2, <1>3 DEF Inv, TypeOK
  <1>5. Known'
    BY <1>2, <1>3 DEF Inv, Known
  <1>6. QED
    BY <1>2, <1>4, <1>5 DEF Inv

\* A retried window starts over at its place.
LEMMA RetryIsPlaced ==
    ASSUME Inv, NEW j \in index, DoRetry(j), win[j].run < MaxRuns, lapsed' = lapsed
    PROVE  /\ Placed' /\ win' \in [Ids -> WindowType] /\ nextID' = nextID /\ index' = index
           /\ fifo' \in Seq(Ids) /\ fifo' \in Seq(Numbers) /\ finished' \subseteq Ids
  <1>1. j \in Numbers /\ Numbers \subseteq Ids /\ win[j] \in WindowType
    BY NumbersAreIds DEF Inv, Known, TypeOK
  <1>2. win[j].run \in Nat /\ MaxRuns \in Nat
    BY <1>1, SeriesAssumption DEF WindowType
  <1>3. PICK run \in 0 .. MaxRuns : run = win[j].run + 1
    BY <1>2
  <1>4. PICK x : x = [win[j] EXCEPT !.status = "queued", !.capped = FALSE, !.cap = 0, !.items = 0,
                                    !.run = run]
    OBVIOUS
  <1>5. /\ x \in WindowType /\ x.offset = win[j].offset /\ x.max = win[j].max
        /\ x.target = win[j].target /\ x.items = 0 /\ ~x.capped
    BY <1>1, <1>3, <1>4 DEF WindowType
  <1>6. win' = [win EXCEPT ![j] = x]
    <2>1. win' = [win EXCEPT ![j] = [win[j] EXCEPT !.status = "queued", !.capped = FALSE, !.cap = 0,
                                                   !.items = 0, !.run = win[j].run + 1]]
      BY <1>1 DEF DoRetry, Inv, TypeOK, WindowType
    <2>2. QED
      BY <1>3, <1>4, <2>1
  <1>7. Fits(j, x)
    BY <1>5 DEF Fits
  <1>8. nextID' = nextID /\ index' = index
    BY DEF DoRetry
  <1>9. Placed' /\ win' \in [Ids -> WindowType]
    BY <1>1, <1>5, <1>6, <1>7, <1>8, WindowStands
  <1>10. fifo' \in Seq(Numbers)
    BY <1>1, AppendProperties DEF DoRetry, Inv, Known
  <1>11. fifo' \in Seq(Ids) /\ finished' \subseteq Ids
    BY <1>1, <1>10, SeqMonotonic DEF DoRetry, Inv, TypeOK
  <1>12. QED
    BY <1>8, <1>9, <1>10, <1>11

LEMMA RetryKeeps == ASSUME Inv, NEW j \in Ids, Retry(j) PROVE Inv'
  <1>1. j \in index /\ DoRetry(j) /\ win[j].run < MaxRuns /\ lapsed' = lapsed
    BY DEF Retry, MayRetry
  <1>2. /\ Placed' /\ win' \in [Ids -> WindowType] /\ nextID' = nextID /\ index' = index
        /\ fifo' \in Seq(Ids) /\ fifo' \in Seq(Numbers) /\ finished' \subseteq Ids
    BY <1>1, RetryIsPlaced
  <1>3. /\ UNCHANGED <<crew, cut, closed, whole, op, fetched, lapsed, dismissed>>
        /\ calledOff' = FALSE /\ meddled' \in Nat
    BY DEF Retry, Inv, TypeOK
  <1>4. TypeOK'
    BY <1>2, <1>3 DEF Inv, TypeOK
  <1>5. Known'
    BY <1>2, <1>3 DEF Inv, Known, Numbers
  <1>6. QED
    BY <1>2, <1>4, <1>5 DEF Inv

LEMMA RetryNextKeeps == ASSUME Inv, RetryNext PROVE Inv'
  <1>1. PICK j : /\ op' = [op EXCEPT !.ids = @ \ {j}]
                 /\ IF MayRetry(j) /\ win[j].run < MaxRuns THEN DoRetry(j) ELSE UNCHANGED <<win, queue>>
    BY DEF RetryNext
  <1>2. UNCHANGED <<crew, cut, closed, whole, fetched, lapsed, dismissed, calledOff, meddled>>
    BY DEF RetryNext, history
  <1>3. op' \in [do : {"none", "retry", "cancel", "list", "keepRow"}, ids : SUBSET Ids, live : BOOLEAN]
    BY <1>1 DEF Inv, TypeOK
  <1>4. CASE MayRetry(j) /\ win[j].run < MaxRuns
    <2>1. j \in index /\ DoRetry(j)
      BY <1>1, <1>4 DEF MayRetry
    <2>2. /\ Placed' /\ win' \in [Ids -> WindowType] /\ nextID' = nextID /\ index' = index
          /\ fifo' \in Seq(Ids) /\ fifo' \in Seq(Numbers) /\ finished' \subseteq Ids
      BY <1>2, <1>4, <2>1, RetryIsPlaced
    <2>3. TypeOK'
      BY <1>2, <1>3, <2>2 DEF Inv, TypeOK
    <2>4. Known'
      BY <1>2, <2>2 DEF Inv, Known, Numbers
    <2>5. QED
      BY <2>2, <2>3, <2>4 DEF Inv
  <1>5. CASE ~(MayRetry(j) /\ win[j].run < MaxRuns)
    <2>1. win' = win /\ index' = index /\ fifo' = fifo /\ finished' = finished /\ nextID' = nextID
      BY <1>1, <1>5 DEF queue
    <2>2. Placed'
      BY <1>2, <2>1, PlacedRests
    <2>3. TypeOK'
      BY <1>2, <1>3, <2>1 DEF Inv, TypeOK
    <2>4. Known'
      BY <1>2, <2>1 DEF Inv, Known, Numbers
    <2>5. QED
      BY <2>2, <2>3, <2>4 DEF Inv
  <1>6. QED
    BY <1>4, <1>5

\* The steps that only plan or end a loop over the windows.
LEMMA PlanKeeps ==
    ASSUME Inv, UNCHANGED <<win, queue, crew, cut, closed, whole, fetched, lapsed, dismissed>>,
           op' \in [do : {"none", "retry", "cancel", "list", "keepRow"}, ids : SUBSET Ids, live : BOOLEAN],
           calledOff' \in BOOLEAN, meddled' \in Nat
    PROVE  Inv'
  <1>1. win' = win /\ index' = index /\ fifo' = fifo /\ finished' = finished /\ nextID' = nextID
    BY DEF queue
  <1>2. Placed'
    BY <1>1, PlacedRests
  <1>3. TypeOK'
    BY <1>1 DEF Inv, TypeOK
  <1>4. Known'
    BY <1>1 DEF Inv, Known, Numbers
  <1>5. QED
    BY <1>2, <1>3, <1>4 DEF Inv

LEMMA ListedType == ASSUME Inv, NEW j PROVE Listed(j) \subseteq Ids /\ IsLive(j) \in BOOLEAN
  BY DEF Listed, Inv, TypeOK, IsLive, OnWorker, Waiting

LEMMA RetrySeriesKeeps == ASSUME Inv, RetrySeries PROVE Inv'
  <1>1. /\ UNCHANGED <<win, queue, crew, cut, closed, whole, fetched, lapsed, dismissed>>
        /\ op' = [do |-> "retry", ids |-> index, live |-> FALSE]
    BY DEF RetrySeries
  <1>2. calledOff' \in BOOLEAN /\ meddled' \in Nat
    <2>1. calledOff' = FALSE /\ meddled' = meddled + 1
      BY DEF RetrySeries
    <2>2. meddled \in Nat
      BY DEF Inv, TypeOK
    <2>3. calledOff' \in BOOLEAN
      BY <2>1, Zenon
    <2>4. meddled' \in Nat
      BY <2>1, <2>2
    <2>5. QED
      BY <2>3, <2>4
  <1>3. index \subseteq Ids
    BY DEF Inv, TypeOK
  <1>4. op' \in [do : {"none", "retry", "cancel", "list", "keepRow"}, ids : SUBSET Ids, live : BOOLEAN]
    BY <1>1, <1>3
  <1>5. QED
    BY <1>1, <1>2, <1>4, PlanKeeps

LEMMA CancelSeriesKeeps == ASSUME Inv, NEW j \in Ids, CancelSeries(j) PROVE Inv'
  BY PlanKeeps, ListedType DEF CancelSeries, Inv, TypeOK

LEMMA CancelLiveKeeps == ASSUME Inv, NEW j \in Ids, CancelLive(j) PROVE Inv'
  BY PlanKeeps DEF CancelLive, Inv, TypeOK

LEMMA ListLiveKeeps == ASSUME Inv, ListLive PROVE Inv'
  <1>0. PICK j : j = CHOOSE k \in op.ids : TRUE
    OBVIOUS
  <1>1. op' = [do |-> "keepRow", ids |-> IF j \in index THEN Listed(j) ELSE {},
               live |-> j \in index /\ IsLive(j)]
    BY <1>0 DEF ListLive
  <1>2. UNCHANGED <<win, queue, crew, cut, closed, whole, history>>
    BY DEF ListLive
  <1>3. QED
    BY <1>1, <1>2, PlanKeeps, ListedType DEF history, Inv, TypeOK

LEMMA AnsweredKeeps == ASSUME Inv, Answered PROVE Inv'
  BY PlanKeeps DEF Answered, Inv, TypeOK

\* A window is removed, or kept and settled, or its worker's context is canceled.
LEMMA CancelNextKeeps == ASSUME Inv, CancelNext PROVE Inv'
  <1>1. PICK j \in op.ids :
           /\ op' = [op EXCEPT !.ids = @ \ {j}]
           /\ \/ UNCHANGED <<win, index, fifo, finished, cut, dismissed>>
              \/ CutRunning(j) /\ UNCHANGED dismissed
              \/ /\ j \in index
                 /\ index' = index \ {j}
                 /\ fifo' = WithoutWindow(j) /\ finished' = finished \ {j}
                 /\ win' = IF Waiting(j) THEN [win EXCEPT ![j].status = "canceled"] ELSE win
                 /\ dismissed' = dismissed \cup Extent(j)
                 /\ UNCHANGED cut
    BY DEF CancelNext
  <1>2. UNCHANGED <<nextID, crew, closed, whole, fetched, lapsed, calledOff, meddled>>
    BY DEF CancelNext
  <1>3. op' \in [do : {"none", "retry", "cancel", "list", "keepRow"}, ids : SUBSET Ids, live : BOOLEAN]
    BY <1>1 DEF Inv, TypeOK
  <1>4. Numbers' = Numbers /\ Numbers \subseteq Ids
    BY <1>2, NumbersAreIds DEF Numbers, Inv
  <1>5. CASE \/ UNCHANGED <<win, index, fifo, finished, cut, dismissed>>
             \/ CutRunning(j) /\ UNCHANGED dismissed
    <2>1. /\ win' = win /\ index' = index /\ fifo' = fifo /\ finished' = finished
          /\ dismissed' = dismissed /\ cut' \subseteq Workers
      BY <1>5 DEF CutRunning, Inv, TypeOK
    <2>2. Placed'
      BY <1>2, <2>1, PlacedRests
    <2>3. TypeOK'
      BY <1>2, <1>3, <2>1 DEF Inv, TypeOK
    <2>4. Known'
      BY <1>2, <1>4, <2>1 DEF Inv, Known
    <2>5. QED
      BY <2>2, <2>3, <2>4 DEF Inv
  <1>6. CASE /\ j \in index
             /\ index' = index \ {j}
             /\ fifo' = WithoutWindow(j) /\ finished' = finished \ {j}
             /\ win' = IF Waiting(j) THEN [win EXCEPT ![j].status = "canceled"] ELSE win
             /\ dismissed' = dismissed \cup Extent(j)
             /\ UNCHANGED cut
    <2>1. j \in Numbers
      BY <1>6 DEF Inv, Known
    <2>2. Placed' /\ win' \in [Ids -> WindowType]
      <3>1. CASE Waiting(j)
        <4>1. PICK x : x = [win[j] EXCEPT !.status = "canceled"]
          OBVIOUS
        <4>2. /\ x \in WindowType /\ x.offset = win[j].offset /\ x.max = win[j].max
              /\ x.target = win[j].target /\ Fits(j, x)
          BY <2>1, <4>1, StatusFits
        <4>3. win' = [win EXCEPT ![j] = x]
          BY <1>6, <3>1, <4>1
        <4>4. QED
          BY <1>2, <1>6, <2>1, <4>2, <4>3, WindowStands
      <3>2. CASE ~Waiting(j)
        BY <1>2, <1>6, <3>2, PlacedRests DEF Inv, TypeOK
      <3>3. QED
        BY <3>1, <3>2
    <2>3. fifo' \in Seq(Numbers) /\ fifo' \in Seq(Ids)
      BY <1>4, <1>6, WithoutWindowType, SeqMonotonic
    <2>4. dismissed' \subseteq Int
      <3>1. Extent(j) \subseteq Int
        BY <1>4, <2>1 DEF Extent
      <3>2. QED
        BY <1>6, <3>1 DEF Inv, TypeOK
    <2>5. TypeOK'
      BY <1>2, <1>3, <1>6, <2>2, <2>3, <2>4 DEF Inv, TypeOK
    <2>6. Known'
      BY <1>2, <1>4, <1>6, <2>3 DEF Inv, Known
    <2>7. QED
      BY <2>2, <2>5, <2>6 DEF Inv
  <1>7. QED
    BY <1>1, <1>5, <1>6

LEMMA CancelKeepingRowKeeps == ASSUME Inv, CancelKeepingRow PROVE Inv'
  <1>1. PICK j \in op.ids :
           /\ op' = [op EXCEPT !.ids = @ \ {j}]
           /\ \/ CutRunning(j)
              \/ /\ j \in index
                 /\ fifo' = WithoutWindow(j) /\ finished' = finished \cup {j}
                 /\ win' = [win EXCEPT ![j].status = "canceled"]
                 /\ UNCHANGED <<index, cut>>
              \/ UNCHANGED <<win, index, fifo, finished, cut>>
    BY DEF CancelKeepingRow
  <1>2. UNCHANGED <<nextID, crew, closed, whole, fetched, lapsed, dismissed, calledOff, meddled>>
    BY DEF CancelKeepingRow, history
  <1>3. op' \in [do : {"none", "retry", "cancel", "list", "keepRow"}, ids : SUBSET Ids, live : BOOLEAN]
    BY <1>1 DEF Inv, TypeOK
  <1>4. Numbers' = Numbers /\ Numbers \subseteq Ids
    BY <1>2, NumbersAreIds DEF Numbers, Inv
  <1>5. CASE CutRunning(j) \/ UNCHANGED <<win, index, fifo, finished, cut>>
    <2>1. /\ win' = win /\ index' = index /\ fifo' = fifo /\ finished' = finished
          /\ cut' \subseteq Workers
      BY <1>5 DEF CutRunning, Inv, TypeOK
    <2>2. Placed'
      BY <1>2, <2>1, PlacedRests
    <2>3. TypeOK'
      BY <1>2, <1>3, <2>1 DEF Inv, TypeOK
    <2>4. Known'
      BY <1>2, <1>4, <2>1 DEF Inv, Known
    <2>5. QED
      BY <2>2, <2>3, <2>4 DEF Inv
  <1>6. CASE /\ j \in index
             /\ fifo' = WithoutWindow(j) /\ finished' = finished \cup {j}
             /\ win' = [win EXCEPT ![j].status = "canceled"]
             /\ UNCHANGED <<index, cut>>
    <2>1. j \in Numbers
      BY <1>6 DEF Inv, Known
    <2>2. Placed' /\ win' \in [Ids -> WindowType]
      <3>1. PICK x : x = [win[j] EXCEPT !.status = "canceled"]
        OBVIOUS
      <3>2. /\ x \in WindowType /\ x.offset = win[j].offset /\ x.max = win[j].max
            /\ x.target = win[j].target /\ Fits(j, x)
        BY <2>1, <3>1, StatusFits
      <3>3. win' = [win EXCEPT ![j] = x]
        BY <1>6, <3>1
      <3>4. QED
        BY <1>2, <1>6, <2>1, <3>2, <3>3, WindowStands
    <2>3. fifo' \in Seq(Numbers) /\ fifo' \in Seq(Ids)
      BY <1>4, <1>6, WithoutWindowType, SeqMonotonic
    <2>4. TypeOK'
      BY <1>2, <1>3, <1>4, <1>6, <2>1, <2>2, <2>3 DEF Inv, TypeOK
    <2>5. Known'
      BY <1>2, <1>4, <1>6, <2>3 DEF Inv, Known
    <2>6. QED
      BY <2>2, <2>4, <2>5 DEF Inv
  <1>7. QED
    BY <1>1, <1>5, <1>6

LEMMA ClearSucceededKeeps == ASSUME Inv, ClearSucceeded PROVE Inv'
  <1>1. /\ index' = index \ Clearable /\ finished' = finished \ Clearable
        /\ UNCHANGED <<win, fifo, nextID, crew, cut, closed, whole, op, fetched, lapsed,
                       dismissed, calledOff>>
        /\ meddled' \in Nat
    BY DEF ClearSucceeded, Inv, TypeOK
  <1>2. Placed'
    BY <1>1, PlacedRests
  <1>3. TypeOK'
    BY <1>1 DEF Inv, TypeOK
  <1>4. Known'
    BY <1>1 DEF Inv, Known, Numbers
  <1>5. QED
    BY <1>2, <1>3, <1>4 DEF Inv

LEMMA StopKeeps == ASSUME Inv, Stop PROVE Inv'
  <1>1. /\ win' = [j \in Ids |-> IF Waiting(j) THEN [win[j] EXCEPT !.status = "canceled"] ELSE win[j]]
        /\ finished' \subseteq Ids /\ fifo' = << >> /\ closed' = TRUE
        /\ UNCHANGED <<index, nextID, crew, cut, whole, op, fetched, lapsed, dismissed, calledOff,
                       meddled>>
    BY DEF Stop, history, Inv, TypeOK
  <1>2. ASSUME NEW j \in Numbers
        PROVE  /\ win'[j].offset = win[j].offset /\ win'[j].max = win[j].max
               /\ win'[j].target = win[j].target /\ Fits(j, win'[j])
    <2>1. PICK x : x = [win[j] EXCEPT !.status = "canceled"]
      OBVIOUS
    <2>2. /\ x \in WindowType /\ x.offset = win[j].offset /\ x.max = win[j].max
          /\ x.target = win[j].target /\ Fits(j, x) /\ Fits(j, win[j])
      BY <2>1, StatusFits DEF Inv, Placed
    <2>3. win'[j] = x \/ win'[j] = win[j]
      BY <1>1, <2>1, NumbersAreIds DEF Inv
    <2>4. QED
      BY <2>2, <2>3
  <1>3. Placed'
    BY <1>1, <1>2, PlacedStands
  <1>4. win' \in [Ids -> WindowType]
    <2>1. ASSUME NEW j \in Ids PROVE [win[j] EXCEPT !.status = "canceled"] \in WindowType
      <3>1. win[j] \in WindowType
        BY DEF Inv, TypeOK
      <3>2. QED
        BY <3>1 DEF WindowType, Settled, Good
    <2>2. QED
      BY <1>1, <2>1 DEF Inv, TypeOK
  <1>5. fifo' \in Seq(Ids) /\ fifo' \in Seq(Numbers')
    BY <1>1, EmptySeq
  <1>6. TypeOK'
    BY <1>1, <1>4, <1>5 DEF Inv, TypeOK
  <1>7. Known'
    BY <1>1, <1>5 DEF Inv, Known, Numbers
  <1>8. QED
    BY <1>3, <1>6, <1>7 DEF Inv

-----------------------------------------------------------------------------
(* The workers' steps *)

\* A step that moves only workers.
LEMMA CrewMoves ==
    ASSUME Inv, UNCHANGED <<win, queue, closed, whole, op, history>>, cut' \subseteq Workers,
           crew' \in [Workers -> [job : Ids \cup {0}, do : Stages]],
           \A v \in Workers : crew'[v].do # "idle" => crew'[v].job \in Numbers
    PROVE  Inv'
  <1>1. /\ win' = win /\ index' = index /\ fifo' = fifo /\ finished' = finished /\ nextID' = nextID
        /\ fetched' = fetched /\ lapsed' = lapsed /\ dismissed' = dismissed /\ calledOff' = calledOff
        /\ meddled' = meddled
    BY DEF queue, history
  <1>2. Placed'
    BY <1>1, PlacedRests
  <1>3. TypeOK'
    BY <1>1 DEF Inv, TypeOK, Stages
  <1>4. Known'
    BY <1>1 DEF Inv, Known, Numbers
  <1>5. QED
    BY <1>2, <1>3, <1>4 DEF Inv

\* A step that moves one worker and changes its window.
LEMMA RunMoves ==
    ASSUME Inv, NEW w \in Workers, NEW what \in Stages, ~At(w, "idle"), Goes(w, what),
           NEW x \in WindowType, win' = [win EXCEPT ![Mine(w)] = x],
           x.offset = win[Mine(w)].offset, x.max = win[Mine(w)].max, x.target = win[Mine(w)].target,
           Fits(Mine(w), x),
           UNCHANGED <<queue, cut, closed, whole, op, lapsed, dismissed, calledOff, meddled>>,
           fetched' \subseteq 0 .. Posts - 1
    PROVE  Inv'
  <1>1. /\ index' = index /\ fifo' = fifo /\ finished' = finished /\ nextID' = nextID
    BY DEF queue
  <1>2. /\ Mine(w) \in Numbers /\ crew' \in [Workers -> [job : Ids \cup {0}, do : Stages]]
        /\ \A v \in Workers : crew'[v].do # "idle" => crew'[v].job \in Numbers
    BY WorkerGoes
  <1>3. Placed' /\ win' \in [Ids -> WindowType]
    BY <1>1, <1>2, WindowStands
  <1>4. TypeOK'
    BY <1>1, <1>2, <1>3 DEF Inv, TypeOK, Stages
  <1>5. Known'
    BY <1>1, <1>2 DEF Inv, Known, Numbers
  <1>6. QED
    BY <1>3, <1>4, <1>5 DEF Inv

LEMMA TakeKeeps == ASSUME Inv, NEW w \in Workers, Take(w) PROVE Inv'
  <1>1. PICK j : j = Head(fifo)
    OBVIOUS
  <1>2. /\ fifo \in Seq(Numbers) /\ fifo # << >> /\ Numbers \subseteq Ids
    BY NumbersAreIds DEF Take, Inv, Known
  <1>3. j \in Numbers /\ Tail(fifo) \in Seq(Numbers)
    BY <1>1, <1>2, HeadTailProperties
  <1>4. /\ crew' = [crew EXCEPT ![w] = [job |-> j, do |-> "resolve"]] /\ fifo' = Tail(fifo)
        /\ cut' = cut \ {w}
        /\ win' = [win EXCEPT ![j].status = "running"]
        /\ UNCHANGED <<index, finished, nextID, closed, whole, op, fetched, lapsed, dismissed,
                       calledOff, meddled>>
    BY <1>1 DEF Take, history
  <1>5. PICK x : x = [win[j] EXCEPT !.status = "running"]
    OBVIOUS
  <1>6. /\ x \in WindowType /\ x.offset = win[j].offset /\ x.max = win[j].max
        /\ x.target = win[j].target /\ Fits(j, x)
    BY <1>3, <1>5, StatusFits
  <1>7. win' = [win EXCEPT ![j] = x]
    BY <1>4, <1>5
  <1>8. Placed' /\ win' \in [Ids -> WindowType]
    BY <1>3, <1>4, <1>6, <1>7, WindowStands
  <1>9. PICK c : c = [job |-> j, do |-> "resolve"]
    OBVIOUS
  <1>10. /\ c \in [job : Ids \cup {0}, do : Stages] /\ c.job \in Numbers
    BY <1>2, <1>3, <1>9 DEF Stages
  <1>11. crew' = [crew EXCEPT ![w] = c] /\ crew \in [Workers -> [job : Ids \cup {0}, do : Stages]]
    BY <1>4, <1>9 DEF Inv, TypeOK, Stages
  <1>12. /\ crew' \in [Workers -> [job : Ids \cup {0}, do : Stages]]
         /\ \A v \in Workers : crew'[v].do # "idle" => crew'[v].job \in Numbers
    BY <1>10, <1>11 DEF Inv, Known
  <1>13. fifo' \in Seq(Ids)
    BY <1>2, <1>3, <1>4, SeqMonotonic
  <1>14. TypeOK'
    BY <1>4, <1>8, <1>12, <1>13 DEF Inv, TypeOK, Stages
  <1>15. Known'
    BY <1>3, <1>4, <1>12 DEF Inv, Known, Numbers
  <1>16. QED
    BY <1>8, <1>14, <1>15 DEF Inv

LEMMA ResolveKeeps == ASSUME Inv, NEW w \in Workers, Resolve(w) PROVE Inv'
  <1>1. PICK j : j = Mine(w)
    OBVIOUS
  <1>2. ~At(w, "idle") /\ Goes(w, "settle") /\ "settle" \in Stages
    BY DEF Resolve, At, Stages
  <1>3. j \in Numbers /\ j \in Ids
    BY <1>1, <1>2, WorkerGoes, NumbersAreIds DEF Inv
  <1>4. PICK n : n = Listing(j)
    OBVIOUS
  <1>5. PICK l : l = LimitOf(j)
    OBVIOUS
  <1>6. PICK a \in Nat : a = Ahead(j)
    BY <1>3, ListingType DEF Inv
  <1>7. n \in Nat /\ l \in Nat /\ win[j] \in WindowType
    BY <1>3, <1>4, <1>5, ListingType DEF Inv
  <1>8. PICK full \in BOOLEAN : full = Fills(j) /\ (full => n = l)
    <2>1. n = (IF l < a THEN l ELSE a)
      BY <1>4, <1>5, <1>6 DEF Listing, Smaller
    <2>2. CASE a > l
      <3>1. a >= l /\ n = l
        BY <1>6, <1>7, <2>1, <2>2
      <3>2. Fills(j) = TRUE
        BY <1>5, <1>6, <2>2, <3>1 DEF Fills
      <3>3. QED
        BY <3>1, <3>2
    <2>3. CASE a = l /\ ~whole
      <3>1. a >= l /\ n = l
        BY <1>6, <1>7, <2>1, <2>3
      <3>2. Fills(j) = TRUE
        BY <1>5, <1>6, <2>3, <3>1 DEF Fills
      <3>3. QED
        BY <3>1, <3>2
    <2>4. CASE a < l \/ (a = l /\ whole)
      <3>1. ~(a > l) /\ (~whole => ~(a >= l))
        BY <1>6, <1>7, <2>4
      <3>2. Fills(j) = FALSE
        BY <1>5, <1>6, <3>1 DEF Fills
      <3>3. QED
        BY <3>2
    <2>5. QED
      BY <1>6, <1>7, <2>2, <2>3, <2>4
  <1>9. PICK cap \in Nat : cap = IF full THEN l ELSE 0
    BY <1>7
  <1>10. PICK x : x = [win[j] EXCEPT !.items = n, !.capped = full, !.cap = cap]
    OBVIOUS
  <1>11. /\ x \in WindowType /\ x.offset = win[j].offset /\ x.max = win[j].max
         /\ x.target = win[j].target /\ x.items = n /\ x.capped = full /\ x.cap = cap
    BY <1>7, <1>9, <1>10 DEF WindowType
  <1>12. Fits(j, x)
    BY <1>4, <1>5, <1>8, <1>9, <1>11 DEF Fits
  <1>13. win' = [win EXCEPT ![j] = x]
    <2>1. win' = [win EXCEPT ![j].items = n, ![j].capped = full, ![j].cap = cap]
      BY <1>1, <1>4, <1>5, <1>8, <1>9 DEF Resolve
    <2>2. win \in [Ids -> WindowType]
      BY DEF Inv, TypeOK
    <2>3. QED
      BY <1>3, <1>7, <1>10, <2>1, <2>2 DEF WindowType
  <1>14. /\ UNCHANGED <<queue, cut, closed, whole, op, lapsed, dismissed, calledOff, meddled>>
         /\ fetched' \subseteq 0 .. Posts - 1
    BY DEF Resolve, history, Inv, TypeOK
  <1>15. QED
    BY <1>1, <1>2, <1>11, <1>12, <1>13, <1>14, RunMoves

LEMMA ResolveFailsKeeps == ASSUME Inv, NEW w \in Workers, ResolveFails(w) PROVE Inv'
  <1>1. PICK j : j = Mine(w)
    OBVIOUS
  <1>2. ~At(w, "idle") /\ Goes(w, "finish") /\ "finish" \in Stages
    BY DEF ResolveFails, At, Stages
  <1>3. j \in Numbers /\ j \in Ids
    BY <1>1, <1>2, WorkerGoes, NumbersAreIds DEF Inv
  <1>4. PICK x : x = [win[j] EXCEPT !.status = "failed"]
    OBVIOUS
  <1>5. /\ x \in WindowType /\ x.offset = win[j].offset /\ x.max = win[j].max
        /\ x.target = win[j].target /\ Fits(j, x)
    BY <1>3, <1>4, StatusFits DEF Settled
  <1>6. win' = [win EXCEPT ![j] = x]
    BY <1>1, <1>4 DEF ResolveFails
  <1>7. /\ UNCHANGED <<queue, cut, closed, whole, op, lapsed, dismissed, calledOff, meddled>>
        /\ fetched' \subseteq 0 .. Posts - 1
    BY DEF ResolveFails, history, Inv, TypeOK
  <1>8. QED
    BY <1>1, <1>2, <1>5, <1>6, <1>7, RunMoves

\* What a window lists are posts of the search.
LEMMA PageOfPosts ==
    ASSUME Inv, NEW j \in Numbers
    PROVE  Page(j) \subseteq win[j].offset .. win[j].offset + Listing(j) - 1
           /\ Page(j) \subseteq 0 .. Posts - 1
  <1>1. j \in Ids /\ TypeOK /\ Fits(j, win[j])
    BY NumbersAreIds DEF Inv, Placed
  <1>2. /\ Listing(j) \in Nat /\ Ahead(j) \in Nat /\ Listing(j) <= Ahead(j) /\ win[j] \in WindowType
        /\ win[j].offset + Ahead(j) <= Posts \/ Ahead(j) = 0
    BY <1>1, ListingType
  <1>3. win[j].offset \in Nat /\ win[j].items \in Nat /\ win[j].items <= Listing(j) /\ Posts \in Nat
    BY <1>1, <1>2, SeriesAssumption DEF WindowType, Fits
  <1>4. QED
    BY <1>2, <1>3 DEF Page

LEMMA SettleKeeps == ASSUME Inv, NEW w \in Workers, Settle(w) PROVE Inv'
  <1>1. PICK j : j = Mine(w)
    OBVIOUS
  <1>2. ~At(w, "idle") /\ Goes(w, "finish") /\ "finish" \in Stages
    BY DEF Settle, At, Stages
  <1>3. j \in Numbers /\ j \in Ids
    BY <1>1, <1>2, WorkerGoes, NumbersAreIds DEF Inv
  <1>4. PICK verdict \in IF w \in cut THEN {"canceled"} ELSE Verdicts(j) :
            /\ win' = [win EXCEPT ![j].status = verdict]
            /\ fetched' = fetched \cup (IF verdict \in Good THEN Page(j) ELSE {})
    BY <1>1 DEF Settle
  <1>5. verdict \in Settled
    BY SeriesAssumption DEF Verdicts, Settled, Good
  <1>6. PICK x : x = [win[j] EXCEPT !.status = verdict]
    OBVIOUS
  <1>7. /\ x \in WindowType /\ x.offset = win[j].offset /\ x.max = win[j].max
        /\ x.target = win[j].target /\ Fits(j, x)
    BY <1>3, <1>5, <1>6, StatusFits
  <1>8. win' = [win EXCEPT ![j] = x]
    BY <1>4, <1>6
  <1>9. fetched' \subseteq 0 .. Posts - 1
    BY <1>3, <1>4, PageOfPosts DEF Inv, TypeOK
  <1>10. UNCHANGED <<queue, cut, closed, whole, op, lapsed, dismissed, calledOff, meddled>>
    BY DEF Settle
  <1>11. QED
    BY <1>1, <1>2, <1>7, <1>8, <1>9, <1>10, RunMoves

\* The steps that move the worker alone.
LEMMA WorkerMoveKeeps ==
    ASSUME Inv, NEW w \in Workers, ResolveCut(w) \/ Chain(w) PROVE Inv'
  <1>1. PICK what \in Stages : Goes(w, what)
    BY DEF ResolveCut, Chain, Stages
  <1>2. /\ ~At(w, "idle") /\ UNCHANGED <<win, queue, cut, closed, whole, op, history>>
    BY DEF ResolveCut, Chain, At
  <1>3. cut' \subseteq Workers
    BY <1>2 DEF Inv, TypeOK
  <1>4. QED
    BY <1>1, <1>2, <1>3, WorkerGoes, CrewMoves

LEMMA FinishKeeps == ASSUME Inv, NEW w \in Workers, Finish(w) PROVE Inv'
  <1>1. ~At(w, "idle") /\ Goes(w, "chain") /\ "chain" \in Stages
    BY DEF Finish, At, Stages
  <1>2. /\ Mine(w) \in Numbers /\ crew' \in [Workers -> [job : Ids \cup {0}, do : Stages]]
        /\ \A v \in Workers : crew'[v].do # "idle" => crew'[v].job \in Numbers
    BY <1>1, WorkerGoes
  <1>3. /\ finished' = finished \cup {Mine(w)}
        /\ UNCHANGED <<win, index, fifo, nextID, cut, closed, whole, op, fetched, lapsed, dismissed,
                       calledOff, meddled>>
    BY DEF Finish, history
  <1>4. finished' \subseteq Ids
    BY <1>2, <1>3, NumbersAreIds DEF Inv, TypeOK
  <1>5. Placed'
    BY <1>3, PlacedRests
  <1>6. TypeOK'
    BY <1>2, <1>3, <1>4 DEF Inv, TypeOK, Stages
  <1>7. Known'
    BY <1>2, <1>3 DEF Inv, Known, Numbers
  <1>8. QED
    BY <1>5, <1>6, <1>7 DEF Inv

LEMMA ContinueChainKeeps == ASSUME Inv, NEW w \in Workers, ContinueChain(w) PROVE Inv'
  <1>1. PICK j : j = Mine(w)
    OBVIOUS
  <1>2. ~At(w, "idle") /\ Goes(w, "reconcile") /\ "reconcile" \in Stages
    BY DEF ContinueChain, At, Stages
  <1>3. /\ j \in Numbers /\ crew' \in [Workers -> [job : Ids \cup {0}, do : Stages]]
        /\ \A v \in Workers : crew'[v].do # "idle" => crew'[v].job \in Numbers
    BY <1>1, <1>2, WorkerGoes
  <1>4. /\ IF MayContinue(j, win[j].target)
             THEN EnqueueWindow(NextWindow(win[j].auto, win[j].target))
             ELSE UNCHANGED <<win, queue, lapsed>>
        /\ UNCHANGED <<cut, closed, whole, op, fetched, dismissed, calledOff, meddled>>
    BY <1>1 DEF ContinueChain
  <1>5. CASE MayContinue(j, win[j].target)
    <2>1. win[j] \in WindowType /\ j \in index
      BY <1>3, <1>5, NumbersAreIds DEF Inv, TypeOK, MayContinue
    <2>2. PICK auto \in BOOLEAN : auto = win[j].auto
      BY <2>1 DEF WindowType
    <2>3. PICK target \in Nat : target = win[j].target
      BY <2>1 DEF WindowType
    <2>4. MayContinue(j, target) /\ EnqueueWindow(NextWindow(auto, target))
      BY <1>4, <1>5, <2>2, <2>3
    <2>5. /\ Placed' /\ win' \in [Ids -> WindowType] /\ nextID' \in 0 .. MaxWindows
          /\ lapsed' \in [Ids -> SUBSET Ids] /\ index' \subseteq Ids /\ index' \subseteq Numbers'
          /\ fifo' \in Seq(Ids) /\ fifo' \in Seq(Numbers') /\ Numbers \subseteq Numbers'
          /\ finished' = finished
      BY <2>1, <2>4, ContinuationIsPlaced
    <2>6. TypeOK'
      BY <1>3, <1>4, <2>5 DEF Inv, TypeOK, Stages
    <2>7. Known'
      BY <1>3, <2>5 DEF Inv, Known
    <2>8. QED
      BY <2>5, <2>6, <2>7 DEF Inv
  <1>6. CASE ~MayContinue(j, win[j].target)
    <2>1. UNCHANGED <<win, queue, closed, whole, op, history>> /\ cut' \subseteq Workers
      BY <1>4, <1>6 DEF history, Inv, TypeOK
    <2>2. QED
      BY <1>3, <2>1, CrewMoves
  <1>7. QED
    BY <1>5, <1>6

\* The worker is idle again, or about to clear.
LEMMA WorkerRests ==
    ASSUME Inv, NEW w \in Workers, crew' = [crew EXCEPT ![w] = [job |-> 0, do |-> "idle"]]
    PROVE  /\ crew' \in [Workers -> [job : Ids \cup {0}, do : Stages]]
           /\ \A v \in Workers : crew'[v].do # "idle" => crew'[v].job \in Numbers
  <1>1. PICK c : c = [job |-> 0, do |-> "idle"]
    OBVIOUS
  <1>2. c \in [job : Ids \cup {0}, do : Stages] /\ c.do = "idle"
    BY <1>1 DEF Stages
  <1>3. crew' = [crew EXCEPT ![w] = c] /\ crew \in [Workers -> [job : Ids \cup {0}, do : Stages]]
    BY <1>1 DEF Inv, TypeOK, Stages
  <1>4. QED
    BY <1>2, <1>3 DEF Inv, Known

LEMMA ReconcileKeeps == ASSUME Inv, NEW w \in Workers, Reconcile(w) PROVE Inv'
  <1>1. /\ ~At(w, "idle") /\ UNCHANGED <<win, queue, cut, closed, whole, op, history>>
        /\ cut' \subseteq Workers
    BY DEF Reconcile, At, Inv, TypeOK
  <1>2. CASE ShowsTheEnd(Mine(w))
    <2>1. Goes(w, "clear") /\ "clear" \in Stages
      BY <1>2 DEF Reconcile, Goes, Stages
    <2>2. QED
      BY <1>1, <2>1, WorkerGoes, CrewMoves
  <1>3. CASE ~ShowsTheEnd(Mine(w))
    <2>1. crew' = [crew EXCEPT ![w] = [job |-> 0, do |-> "idle"]]
      BY <1>3 DEF Reconcile
    <2>2. QED
      BY <1>1, <2>1, WorkerRests, CrewMoves
  <1>4. QED
    BY <1>2, <1>3

LEMMA ClearCappedKeeps == ASSUME Inv, NEW w \in Workers, ClearCapped(w) PROVE Inv'
  <1>1. /\ win' = [j \in Ids |-> IF j \in index THEN [win[j] EXCEPT !.capped = FALSE] ELSE win[j]]
        /\ crew' = [crew EXCEPT ![w] = [job |-> 0, do |-> "idle"]]
        /\ UNCHANGED <<index, fifo, finished, nextID, cut, closed, whole, op, fetched, lapsed,
                       dismissed, calledOff, meddled>>
    BY DEF ClearCapped, queue, history
  <1>2. ASSUME NEW j \in Ids
        PROVE  /\ win'[j] \in WindowType /\ win'[j].offset = win[j].offset /\ win'[j].max = win[j].max
               /\ win'[j].target = win[j].target
               /\ Fits(j, win[j]) => Fits(j, win'[j])
    <2>1. PICK x : x = [win[j] EXCEPT !.capped = FALSE]
      OBVIOUS
    <2>2. win[j] \in WindowType
      BY DEF Inv, TypeOK
    <2>3. /\ x \in WindowType /\ x.offset = win[j].offset /\ x.max = win[j].max
          /\ x.target = win[j].target /\ x.items = win[j].items /\ ~x.capped
      BY <2>1, <2>2 DEF WindowType
    <2>4. win'[j] = x \/ win'[j] = win[j]
      BY <1>1, <2>1
    <2>5. QED
      BY <2>2, <2>3, <2>4 DEF Fits
  <1>3. Placed'
    <2>1. ASSUME NEW j \in Numbers
          PROVE  /\ win'[j].offset = win[j].offset /\ win'[j].max = win[j].max
                 /\ win'[j].target = win[j].target /\ Fits(j, win'[j])
      BY <1>2, NumbersAreIds DEF Inv, Placed
    <2>2. QED
      BY <1>1, <2>1, PlacedStands
  <1>4. win' \in [Ids -> WindowType]
    BY <1>1, <1>2
  <1>5. /\ crew' \in [Workers -> [job : Ids \cup {0}, do : Stages]]
        /\ \A v \in Workers : crew'[v].do # "idle" => crew'[v].job \in Numbers
    BY <1>1, WorkerRests
  <1>6. TypeOK'
    BY <1>1, <1>4, <1>5 DEF Inv, TypeOK, Stages
  <1>7. Known'
    BY <1>1, <1>5 DEF Inv, Known, Numbers
  <1>8. QED
    BY <1>3, <1>6, <1>7 DEF Inv

-----------------------------------------------------------------------------
(* The invariant holds *)

LEMMA InitHasInv == Init => Inv
  <1> SUFFICES ASSUME Init PROVE Inv
    OBVIOUS
  <1>1. 0 \in 0 .. MaxRuns /\ 0 \in 0 .. MaxWindows
    BY SeriesAssumption
  <1>2. NoWindow \in WindowType
    BY <1>1 DEF NoWindow, WindowType
  <1>3. win \in [Ids -> WindowType]
    BY <1>2 DEF Init
  <1>4. fifo \in Seq(Ids) /\ fifo \in Seq(Numbers)
    BY EmptySeq DEF Init
  <1>5. crew \in [Workers -> [job : Ids \cup {0}, do : Stages]]
    BY DEF Init, Stages
  <1>6. TypeOK
    BY <1>1, <1>3, <1>4, <1>5 DEF Init, TypeOK, Stages
  <1>7. Known
    BY <1>4 DEF Init, Known, Numbers
  <1>8. Numbers = {} /\ 2 .. nextID = {} /\ nextID = 0
    BY DEF Init, Numbers
  <1>9. Placed
    BY <1>8 DEF Init, Placed, Rooted, Apart
  <1>10. QED
    BY <1>6, <1>7, <1>9 DEF Inv

LEMMA NextKeepsInv == Inv /\ [Next]_vars => Inv'
  <1> SUFFICES ASSUME Inv, [Next]_vars PROVE Inv'
    OBVIOUS
  <1>1. CASE OperatorStep
    BY <1>1, SubmitKeeps, RetrySeriesKeeps, ClearSucceededKeeps, StopKeeps, RetryKeeps,
       CancelSeriesKeeps, CancelLiveKeeps, ContinueKeeps DEF OperatorStep
  <1>2. CASE LoopStep
    BY <1>2, RetryNextKeeps, ListLiveKeeps, CancelNextKeeps, CancelKeepingRowKeeps, AnsweredKeeps
       DEF LoopStep
  <1>3. ASSUME NEW w \in Workers, WorkerStep(w) PROVE Inv'
    BY <1>3, TakeKeeps, ResolveKeeps, ResolveFailsKeeps, WorkerMoveKeeps, SettleKeeps, FinishKeeps,
       ContinueChainKeeps, ReconcileKeeps, ClearCappedKeeps DEF WorkerStep
  <1>4. CASE UNCHANGED vars
    <2>1. /\ UNCHANGED <<win, queue, crew, cut, closed, whole, fetched, lapsed, dismissed>>
          /\ op' = op /\ calledOff' = calledOff /\ meddled' = meddled
      BY <1>4 DEF vars, history
    <2>2. QED
      BY <2>1, PlanKeeps DEF Inv, TypeOK
  <1>5. QED
    BY <1>1, <1>2, <1>3, <1>4 DEF Next

\* Every variable keeps its type.
THEOREM TypesHold == Spec => []TypeOK
  <1>1. Inv => TypeOK
    BY DEF Inv
  <1>2. QED
    BY <1>1, InitHasInv, NextKeepsInv, PTL DEF Spec

\* The high-water read and the enqueue are one hold of Queue.mu, and a window lists
\* what its place holds: no post is in the lists of two windows, unless the earlier
\* one held nothing when the later one was made.
THEOREM PostsAreListedOnce == Spec => []NoDoubleFetch
  <1>1. Inv => NoDoubleFetch
    <2> SUFFICES ASSUME Inv, NEW a \in index, NEW b \in index, a < b, a \notin lapsed[b]
                 PROVE  Page(a) \cap Page(b) = {}
      BY DEF NoDoubleFetch
    <2>1. a \in Numbers /\ b \in Numbers /\ a \in Ids /\ b \in Ids
      BY NumbersAreIds DEF Inv, Known
    <2>2. win[a].offset + Listing(a) <= win[b].offset
      BY DEF Inv, Placed, Apart
    <2>3. /\ Page(a) \subseteq win[a].offset .. win[a].offset + Listing(a) - 1
          /\ Page(b) \subseteq win[b].offset .. win[b].offset + Listing(b) - 1
      BY <2>1, PageOfPosts
    <2>4. /\ win[a].offset \in Nat /\ win[b].offset \in Nat /\ Listing(a) \in Nat /\ Listing(b) \in Nat
      BY <2>1, ListingType DEF Inv, WindowType
    <2>5. QED
      BY <2>2, <2>3, <2>4
  <1>2. QED
    BY <1>1, InitHasInv, NextKeepsInv, PTL DEF Spec

\* A window is cut to what is left of its target when it is made, and lists no more
\* than its size, retried or not.
THEOREM TargetsStand == Spec => []TargetKept
  <1>1. Inv => TargetKept
    <2> SUFFICES ASSUME Inv, NEW j \in index, win[j].target > 0
                 PROVE  windowEnd(j) <= win[j].target
      BY DEF TargetKept
    <2>1. j \in Numbers /\ j \in Ids /\ Fits(j, win[j]) /\ Aimed(j)
      BY NumbersAreIds DEF Inv, Known, Placed
    <2>2. /\ Listing(j) \in Nat /\ LimitOf(j) \in Nat /\ Listing(j) <= LimitOf(j)
          /\ win[j].max > 0 => LimitOf(j) <= win[j].max
          /\ win[j].offset \in Nat /\ win[j].max \in Nat /\ win[j].target \in Nat
          /\ win[j].items \in Nat /\ win[j].cap \in Nat /\ win[j].capped \in BOOLEAN
      BY <2>1, ListingType DEF Inv, WindowType
    <2>3. win[j].max > 0 /\ win[j].offset + win[j].max <= win[j].target
      BY <2>1 DEF Aimed
    <2>4. win[j].items <= Listing(j) /\ (win[j].capped => win[j].cap = LimitOf(j))
      BY <2>1, <2>2 DEF Fits
    <2>5. QED
      BY <2>2, <2>3, <2>4 DEF windowEnd
  <1>2. QED
    BY <1>1, InitHasInv, NextKeepsInv, PTL DEF Spec

-----------------------------------------------------------------------------
(* A chain left alone *)

LEMMA EndStands == ASSUME NEW j, win'[j] = win[j] PROVE windowEnd(j)' = windowEnd(j)
  BY DEF windowEnd, IsSettled

LEMMA ReachedStands ==
    ASSUME NEW j \in Numbers, nextID \in Nat, Reached(j), fetched \subseteq fetched',
           \A k \in 1 .. j : /\ win'[k].offset = win[k].offset /\ win'[k].auto = win[k].auto
                             /\ win'[k].target = win[k].target,
           \A k \in 1 .. j - 1 : win'[k] = win[k]
    PROVE  Reached(j)'
  <1>1. 1 \in 1 .. j /\ j \in 1 .. j
    BY DEF Numbers
  <1>2. ASSUME NEW k \in 1 .. j - 1 PROVE win'[k].capped /\ windowEnd(k)' <= win'[j].offset
    BY <1>1, <1>2, EndStands DEF Reached
  <1>3. QED
    BY <1>1, <1>2 DEF Reached

\* The worker that is past the start of its window is the one at the last window.
LEMMA TheRunner ==
    ASSUME Underway, NEW w \in Workers, ~At(w, "idle"), ~At(w, "reconcile")
    PROVE  Runs(w, nextID)
  <1>1. ~Bystander(w)
    BY DEF Bystander
  <1>2. PICK u \in Workers : Runs(u, nextID)
    BY <1>1 DEF Underway
  <1>3. u = w
    BY <1>1, <1>2 DEF Runs
  <1>4. QED
    BY <1>2, <1>3

LEMMA DeliveredStands ==
    ASSUME Delivered, index' = index, fetched \subseteq fetched',
           win'[1].auto = win[1].auto, win'[1].target = win[1].target,
           \A j \in index : win'[j].status = win[j].status
    PROVE  Delivered'
  <1>1. Wanted' = Wanted
    BY DEF Wanted
  <1>2. QED
    BY <1>1 DEF Delivered

\* The chain is what the window of number 1 asked for.
Chained == nextID > 0 /\ (win[1].auto \/ win[1].target > 0)

LEMMA SubmitIsStraight == ASSUME Inv, Straight, Undisturbed, Submit PROVE Straight'
  <1>1. PICK n \in Asked : EnqueueWindow(WithItems(n))
    BY DEF Submit
  <1>2. /\ nextID = 0 /\ op.do = "none" /\ cut = {} /\ index = {} /\ fifo = << >>
        /\ \A w \in Workers : At(w, "idle")
    BY DEF Submit, Straight, Numbers
  <1>3. PICK x : x = WithItems(n)
    OBVIOUS
  <1>4. PICK q : q = [x EXCEPT !.status = "queued", !.run = 1]
    OBVIOUS
  <1>5. q.offset = 0 /\ (q.auto => q.target = 0)
    <2>1. n \in Nat \/ n = -1
      BY <1>1, SeriesAssumption DEF ItemsAll
    <2>2. PICK m : m = IF n > 0 THEN n ELSE 0
      OBVIOUS
    <2>3. PICK auto : auto = (n = ItemsAll)
      OBVIOUS
    <2>4. x = [NoWindow EXCEPT !.max = m, !.target = m, !.auto = auto]
      BY <1>3, <2>2, <2>3 DEF WithItems
    <2>5. q.offset = 0 /\ q.target = m /\ q.auto = auto
      BY <1>4, <2>4 DEF NoWindow
    <2>6. n = -1 => m = 0
      BY <2>2
    <2>7. QED
      BY <2>3, <2>5, <2>6 DEF ItemsAll
  <1>6. /\ nextID' = 1 /\ index' = {1} /\ fifo' = <<1>> /\ win' = [win EXCEPT ![1] = q]
    <2>1. nextID + 1 = 1
      BY <1>2
    <2>2. Append(<< >>, 1) = <<1>>
      OBVIOUS
    <2>3. QED
      BY <1>1, <1>2, <1>3, <1>4, <2>1, <2>2 DEF EnqueueWindow
  <1>7. win'[1] = q
    <2>1. 1 \in Ids
      BY <1>1, <1>2, SeriesAssumption DEF EnqueueWindow, Ids
    <2>2. QED
      BY <1>6, <2>1 DEF Inv, TypeOK
  <1>8. UNCHANGED <<crew, cut, closed, op, fetched, meddled>>
    BY DEF Submit
  <1>9. Numbers' = {1}
    BY <1>6 DEF Numbers
  <1>10. Reached(nextID)'
    <2>1. 0 .. win'[1].offset - 1 = {} /\ 1 .. nextID' - 1 = {}
      BY <1>5, <1>6, <1>7
    <2>2. QED
      BY <1>5, <1>6, <1>7, <2>1 DEF Reached
  <1>11. Underway'
    BY <1>2, <1>6, <1>8, <1>10 DEF Underway, Bystander, At
  <1>12. QED
    BY <1>2, <1>6, <1>8, <1>9, <1>11 DEF Straight

\* What a step of one worker leaves to the others.
LEMMA OthersStand ==
    ASSUME NEW w, nextID' = nextID,
           \A v \in Workers \ {w} : crew'[v] = crew[v]
    PROVE  \A v \in Workers \ {w} : Bystander(v) => Bystander(v)'
  BY DEF Bystander, At, Mine

LEMMA TakeIsStraight ==
    ASSUME Inv, Straight, Undisturbed, NEW w \in Workers, Take(w) PROVE Straight'
  <1>1. /\ fifo # << >> /\ At(w, "idle")
        /\ crew' = [crew EXCEPT ![w] = [job |-> Head(fifo), do |-> "resolve"]] /\ fifo' = Tail(fifo)
        /\ cut' = cut \ {w}
        /\ win' = [win EXCEPT ![Head(fifo)].status = "running"]
        /\ UNCHANGED <<index, finished, nextID, closed, whole, op, fetched, meddled>>
    BY DEF Take, history
  <1>2. Numbers' = Numbers /\ nextID > 0
    BY <1>1, NumbersAreIds DEF Straight, Numbers, Inv
  <1>3. op' = op /\ op.do = "none" /\ cut' = {} /\ index' = Numbers' /\ index = Numbers
    BY <1>1, <1>2 DEF Straight
  <1>4. PICK j : j = Head(fifo)
    OBVIOUS
  <1>5. j \in Numbers /\ j \in Ids /\ nextID \in Nat
    <2>1. fifo \in Seq(Numbers)
      BY DEF Inv, Known
    <2>2. QED
      BY <1>1, <1>4, <2>1, HeadTailProperties, NumbersAreIds DEF Inv
  <1>6. PICK x : x = [win[j] EXCEPT !.status = "running"]
    OBVIOUS
  <1>7. win \in [Ids -> WindowType] /\ win[j] \in WindowType
    BY <1>5 DEF Inv, TypeOK
  <1>8. x.offset = win[j].offset /\ x.auto = win[j].auto /\ x.target = win[j].target
    BY <1>6, <1>7 DEF WindowType
  <1>9. win' = [win EXCEPT ![j] = x]
    BY <1>1, <1>4, <1>6
  <1>10. win'[j] = x /\ \A k \in Numbers : k # j => win'[k] = win[k]
    BY <1>5, <1>7, <1>9, NumbersAreIds DEF Inv
  <1>11. ASSUME Chained' PROVE Underway'
    <2>1. Chained
      <3>1. 1 \in Numbers
        BY <1>2, <1>5 DEF Numbers
      <3>2. win'[1].auto = win[1].auto /\ win'[1].target = win[1].target
        BY <1>8, <1>10, <3>1
      <3>3. QED
        BY <1>2, <1>11, <3>2 DEF Chained
    <2>2. Underway
      BY <1>1, <2>1 DEF Straight, Over, Chained
    <2>3. fifo = <<nextID>> /\ \A v \in Workers : Bystander(v)
      BY <1>1, <2>2 DEF Underway, Runs
    <2>4. j = nextID /\ fifo' = << >>
      BY <1>1, <1>4, <2>3
    <2>5. Reached(nextID)'
      <3>1. Reached(j)
        BY <2>2, <2>4 DEF Underway
      <3>2. \A k \in 1 .. j : k \in Numbers
        BY <1>5 DEF Numbers
      <3>3. \A k \in 1 .. j - 1 : win'[k] = win[k]
        <4>1. \A k \in 1 .. j - 1 : k \in 1 .. j /\ k # j
          BY <1>5 DEF Numbers
        <4>2. QED
          BY <1>10, <3>2, <4>1
      <3>4. Reached(j)'
        BY <1>1, <1>5, <1>8, <1>10, <3>1, <3>2, <3>3, ReachedStands
      <3>5. QED
        BY <1>1, <2>4, <3>4
    <2>6. PICK c : c = [job |-> j, do |-> "resolve"]
      OBVIOUS
    <2>7. c.job = j /\ c.do = "resolve"
      BY <2>6
    <2>8. crew' = [crew EXCEPT ![w] = c]
      BY <1>1, <1>4, <2>6
    <2>9. crew'[w] = c /\ \A v \in Workers \ {w} : crew'[v] = crew[v]
      BY <2>8 DEF Inv, TypeOK
    <2>10. Runs(w, nextID)'
      BY <1>1, <2>3, <2>4, <2>7, <2>9, OthersStand DEF Runs, Mine, At
    <2>11. QED
      BY <2>5, <2>10 DEF Underway
  <1>12. QED
    BY <1>1, <1>2, <1>3, <1>11 DEF Straight, Chained

\* A step of the worker that is at the last window.
LEMMA RunnerStands ==
    ASSUME Inv, Chained, Underway, NEW w \in Workers, ~At(w, "idle"), ~At(w, "reconcile"),
           NEW what \in Stages, Goes(w, what), NEW x, win' = [win EXCEPT ![Mine(w)] = x],
           x.offset = win[Mine(w)].offset, x.auto = win[Mine(w)].auto,
           x.target = win[Mine(w)].target,
           UNCHANGED <<nextID, fifo, index>>, fetched \subseteq fetched'
    PROVE  /\ Mine(w) = nextID /\ nextID \in Numbers /\ nextID \in Ids /\ nextID \in Nat
           /\ Reached(nextID) /\ Reached(nextID)' /\ Runs(w, nextID)
           /\ win'[nextID] = x /\ fifo' = << >>
           /\ \A v \in Workers \ {w} : Bystander(v)'
           /\ \A v \in Workers \ {w} : crew'[v] = crew[v] /\ Bystander(v)
           /\ crew'[w].do = what /\ crew'[w].job = nextID
           /\ win'[1].auto = win[1].auto /\ win'[1].target = win[1].target
           /\ Wanted' = Wanted
  <1>1. nextID \in Nat /\ nextID > 0 /\ Numbers \subseteq Ids
    BY NumbersAreIds DEF Inv, Chained
  <1>2. nextID \in Numbers /\ 1 \in Numbers
    BY <1>1 DEF Numbers
  <1>3. Runs(w, nextID) /\ Mine(w) = nextID /\ Reached(nextID)
    BY TheRunner DEF Runs, Underway
  <1>4. win'[nextID] = x /\ \A k \in Numbers : k # nextID => win'[k] = win[k]
    BY <1>1, <1>2, <1>3 DEF Inv, TypeOK
  <1>5. /\ crew'[w] = [job |-> Mine(w), do |-> what]
        /\ \A v \in Workers : v # w => crew'[v] = crew[v]
    BY WorkerGoes
  <1>6. Reached(nextID)'
    <2>1. \A k \in 1 .. nextID : k \in Numbers
      BY DEF Numbers
    <2>2. \A k \in 1 .. nextID - 1 : k \in Numbers /\ k # nextID
      BY <1>1 DEF Numbers
    <2>3. \A k \in 1 .. nextID : /\ win'[k].offset = win[k].offset /\ win'[k].auto = win[k].auto
                                 /\ win'[k].target = win[k].target
      BY <1>3, <1>4, <2>1
    <2>4. QED
      BY <1>1, <1>2, <1>3, <1>4, <2>2, <2>3, ReachedStands
  <1>7. win'[1].auto = win[1].auto /\ win'[1].target = win[1].target
    BY <1>2, <1>3, <1>4
  <1>8. Wanted' = Wanted
    BY <1>7 DEF Wanted
  <1>9. \A v \in Workers \ {w} : Bystander(v) /\ Bystander(v)'
    BY <1>3, <1>5, OthersStand DEF Runs
  <1>10. QED
    BY <1>1, <1>2, <1>3, <1>4, <1>5, <1>6, <1>7, <1>8, <1>9 DEF Runs

\* A worker that resolves, settles or chains is at a window in flight.
LEMMA InFlight ==
    ASSUME Inv, Straight, Undisturbed, Chained, NEW w \in Workers,
           At(w, "resolve") \/ At(w, "settle")
    PROVE  Underway
  BY DEF Straight, Chained, Over, At

\* What a worker's step leaves of Straight but for the chain.
LEMMA StraightStands ==
    ASSUME Inv, Straight, Undisturbed, nextID > 0, UNCHANGED <<op, cut, index, nextID>>,
           Chained' => Over' \/ Underway'
    PROVE  Straight'
  <1>1. Numbers' = Numbers
    BY DEF Numbers
  <1>2. nextID' # 0
    BY NumbersAreIds DEF Inv
  <1>3. QED
    BY <1>1, <1>2 DEF Straight, Chained

LEMMA BusyMeansSubmitted ==
    ASSUME Inv, NEW w \in Workers, ~At(w, "idle") PROVE nextID > 0 /\ Mine(w) \in Numbers
  <1>1. Mine(w) \in Numbers
    BY DEF Inv, Known, At, Mine
  <1>2. QED
    BY <1>1, NumbersAreIds DEF Inv, Numbers

\* A change of one window, not of what it was asked for, leaves the chain wanted as it was.
LEMMA ChainedBefore ==
    ASSUME Inv, nextID > 0, nextID' = nextID, NEW j \in Numbers, NEW x,
           win' = [win EXCEPT ![j] = x],
           x.auto = win[j].auto, x.target = win[j].target, Chained'
    PROVE  Chained
  <1>1. 1 \in Numbers /\ Numbers \subseteq Ids
    BY NumbersAreIds DEF Inv, Numbers
  <1>2. win'[1].auto = win[1].auto /\ win'[1].target = win[1].target
    BY <1>1 DEF Inv, TypeOK
  <1>3. QED
    BY <1>2 DEF Chained

LEMMA ResolveIsStraight ==
    ASSUME Inv, Straight, Undisturbed, NEW w \in Workers, Resolve(w) PROVE Straight'
  <1>1. PICK j : j = Mine(w)
    OBVIOUS
  <1>2. /\ At(w, "resolve") /\ ~At(w, "idle") /\ ~At(w, "reconcile") /\ Goes(w, "settle")
        /\ "settle" \in Stages
    BY DEF Resolve, At, Stages
  <1>3. nextID > 0 /\ j \in Numbers /\ j \in Ids
    BY <1>1, <1>2, BusyMeansSubmitted, NumbersAreIds DEF Inv
  <1>4. UNCHANGED <<op, cut, index, nextID, fifo, fetched>>
    BY DEF Resolve, queue, history
  <1>5. PICK x : x = [win[j] EXCEPT !.items = Listing(j), !.capped = Fills(j),
                                    !.cap = IF Fills(j) THEN LimitOf(j) ELSE 0]
    OBVIOUS
  <1>6. win \in [Ids -> WindowType] /\ win[j] \in WindowType
    BY <1>3 DEF Inv, TypeOK
  <1>7. /\ x.offset = win[j].offset /\ x.auto = win[j].auto /\ x.target = win[j].target
        /\ x.max = win[j].max /\ x.items = Listing(j) /\ x.capped = Fills(j)
    BY <1>5, <1>6 DEF WindowType
  <1>8. win' = [win EXCEPT ![j] = x]
    <2>1. win' = [win EXCEPT ![j].items = Listing(j), ![j].capped = Fills(j),
                             ![j].cap = IF Fills(j) THEN LimitOf(j) ELSE 0]
      BY <1>1 DEF Resolve
    <2>2. QED
      BY <1>3, <1>5, <1>6, <2>1 DEF WindowType
  <1>9. ASSUME Chained' PROVE Underway'
    <2>1. Chained
      BY <1>3, <1>4, <1>7, <1>8, <1>9, ChainedBefore
    <2>2. Underway
      BY <1>2, <2>1, InFlight
    <2>3. /\ j = nextID /\ Reached(nextID)' /\ win'[nextID] = x /\ fifo' = << >>
          /\ \A v \in Workers \ {w} : Bystander(v)'
          /\ crew'[w].do = "settle" /\ crew'[w].job = nextID
      BY <1>1, <1>2, <1>4, <1>7, <1>8, <2>1, <2>2, RunnerStands
    <2>4. LimitOf(j)' = LimitOf(j) /\ Ahead(j)' = Ahead(j) /\ Listing(j)' = Listing(j)
      BY <1>7, <2>3, PlaceStands
    <2>5. Fills(j) \/ Listing(j) = Ahead(j)
      <3>1. Ahead(j) \in Nat /\ LimitOf(j) \in Nat
        BY <1>3, ListingType DEF Inv
      <3>2. QED
        BY <3>1 DEF Fills, Listing, Smaller
    <2>6. ReadOut(j)'
      BY <1>7, <2>3, <2>4, <2>5 DEF ReadOut
    <2>7. Runs(w, nextID)'
      BY <1>4, <2>3, <2>6 DEF Runs, At, Mine
    <2>8. QED
      BY <2>3, <2>7 DEF Underway
  <1>10. QED
    BY <1>3, <1>4, <1>9, StraightStands

LEMMA ResolveFailsIsStraight ==
    ASSUME Inv, Straight, Undisturbed, NEW w \in Workers, ResolveFails(w) PROVE Straight'
  <1>1. PICK j : j = Mine(w)
    OBVIOUS
  <1>2. /\ At(w, "resolve") /\ ~At(w, "idle") /\ ~At(w, "reconcile") /\ Goes(w, "finish")
        /\ "finish" \in Stages
    BY DEF ResolveFails, At, Stages
  <1>3. nextID > 0 /\ j \in Numbers /\ j \in Ids
    BY <1>1, <1>2, BusyMeansSubmitted, NumbersAreIds DEF Inv
  <1>4. UNCHANGED <<op, cut, index, nextID, fifo, fetched>>
    BY DEF ResolveFails, queue, history
  <1>5. PICK x : x = [win[j] EXCEPT !.status = "failed"]
    OBVIOUS
  <1>6. win[j] \in WindowType
    BY <1>3 DEF Inv, TypeOK
  <1>7. /\ x.offset = win[j].offset /\ x.auto = win[j].auto /\ x.target = win[j].target
        /\ x.status = "failed"
    BY <1>5, <1>6 DEF WindowType
  <1>8. win' = [win EXCEPT ![j] = x]
    BY <1>1, <1>5 DEF ResolveFails
  <1>9. ASSUME Chained' PROVE Over'
    <2>1. Chained
      BY <1>3, <1>4, <1>7, <1>8, <1>9, ChainedBefore
    <2>2. Underway
      BY <1>2, <2>1, InFlight
    <2>3. /\ j = nextID /\ win'[j] = x /\ fifo' = << >>
          /\ \A v \in Workers \ {w} : Bystander(v)'
          /\ crew'[w].do = "finish" /\ crew'[w].job = j
      BY <1>1, <1>2, <1>4, <1>7, <1>8, <2>1, <2>2, RunnerStands
    <2>4. Delivered'
      <3>1. j \in index'
        BY <1>3, <1>4 DEF Straight
      <3>2. QED
        BY <1>7, <2>3, <3>1 DEF Delivered
    <2>5. Stops(w)'
      BY <1>7, <2>3 DEF Stops, Mine, At, Good
    <2>6. QED
      BY <2>3, <2>4, <2>5 DEF Over, Bystander, At
  <1>10. QED
    BY <1>3, <1>4, <1>9, StraightStands

\* With the last window full or the search at its end, and all of it fetched, what
\* was wanted is there or the chain goes on.
LEMMA ReadOutDelivers ==
    ASSUME TypeOK, NEW j \in Ids, 1 \in Ids, Reached(j), ReadOut(j), Fits(j, win[j]),
           NEW got, 0 .. win[j].offset + Listing(j) - 1 \subseteq got,
           win[1].auto \/ win[1].target > 0,
           ~win[j].capped \/ (win[j].target > 0 /\ windowEnd(j) >= win[j].target)
    PROVE  Wanted \subseteq got
  <1>1. /\ win[j].offset \in Nat /\ win[j].target \in Nat /\ win[1].target \in Nat /\ Posts \in Nat
        /\ win[1].target = win[j].target
    <2>1. win[j] \in WindowType /\ win[1] \in WindowType
      BY DEF TypeOK
    <2>2. QED
      BY <2>1, SeriesAssumption DEF WindowType, Reached
  <1>2. Listing(j) \in Nat /\ Ahead(j) \in Nat
    BY ListingType
  <1>3. Wanted \subseteq 0 .. Posts - 1 /\ (win[j].target > 0 => Wanted \subseteq 0 .. win[j].target - 1)
    <2>1. CASE win[1].auto
      BY <1>1, <2>1 DEF Wanted, Reached
    <2>2. CASE ~win[1].auto
      BY <1>1, <2>2 DEF Wanted, Smaller
    <2>3. QED
      BY <2>1, <2>2
  <1>4. CASE ~win[j].capped
    <2>1. Listing(j) = Ahead(j)
      BY <1>4 DEF ReadOut
    <2>2. Posts <= win[j].offset + Listing(j)
      BY <1>1, <2>1 DEF Ahead
    <2>3. 0 .. Posts - 1 \subseteq 0 .. win[j].offset + Listing(j) - 1
      BY <1>1, <1>2, <2>2
    <2>4. QED
      BY <1>3, <2>3
  <1>5. CASE win[j].capped /\ win[j].target > 0 /\ windowEnd(j) >= win[j].target
    <2>1. windowEnd(j) = win[j].offset + Listing(j)
      BY <1>5 DEF windowEnd, Fits
    <2>2. 0 .. win[j].target - 1 \subseteq 0 .. win[j].offset + Listing(j) - 1
      BY <1>1, <1>2, <1>5, <2>1
    <2>3. QED
      BY <1>3, <1>5, <2>2
  <1>6. QED
    BY <1>4, <1>5

LEMMA SettleIsStraight ==
    ASSUME Inv, Straight, Undisturbed, NEW w \in Workers, Settle(w) PROVE Straight'
  <1>1. PICK j : j = Mine(w)
    OBVIOUS
  <1>2. /\ At(w, "settle") /\ ~At(w, "idle") /\ ~At(w, "reconcile") /\ Goes(w, "finish")
        /\ "finish" \in Stages
    BY DEF Settle, At, Stages
  <1>3. nextID > 0 /\ j \in Numbers /\ j \in Ids
    BY <1>1, <1>2, BusyMeansSubmitted, NumbersAreIds DEF Inv
  <1>4. UNCHANGED <<op, cut, index, nextID, fifo>>
    BY DEF Settle, queue
  <1>5. PICK verdict \in IF w \in cut THEN {"canceled"} ELSE Verdicts(j) :
            /\ win' = [win EXCEPT ![j].status = verdict]
            /\ fetched' = fetched \cup (IF verdict \in Good THEN Page(j) ELSE {})
    BY <1>1 DEF Settle
  <1>6. verdict \in Good \cup {"failed"}
    BY SeriesAssumption DEF Verdicts, Good, Straight
  <1>7. PICK x : x = [win[j] EXCEPT !.status = verdict]
    OBVIOUS
  <1>8. win[j] \in WindowType
    BY <1>3 DEF Inv, TypeOK
  <1>9. /\ x.offset = win[j].offset /\ x.auto = win[j].auto /\ x.target = win[j].target
        /\ x.max = win[j].max /\ x.status = verdict /\ x.capped = win[j].capped /\ x.cap = win[j].cap
    BY <1>7, <1>8 DEF WindowType
  <1>10. win' = [win EXCEPT ![j] = x] /\ fetched \subseteq fetched'
    BY <1>5, <1>7
  <1>11. ASSUME Chained' PROVE Over' \/ Underway'
    <2>1. Chained
      BY <1>3, <1>4, <1>9, <1>10, <1>11, ChainedBefore
    <2>2. Underway
      BY <1>2, <2>1, InFlight
    <2>3. /\ j = nextID /\ Reached(j) /\ Reached(nextID)' /\ win'[j] = x /\ fifo' = << >>
          /\ \A v \in Workers \ {w} : Bystander(v)'
          /\ crew'[w].do = "finish" /\ crew'[w].job = j /\ Runs(w, j) /\ Wanted' = Wanted
      BY <1>1, <1>2, <1>4, <1>9, <1>10, <2>1, <2>2, RunnerStands
    <2>4. ReadOut(j) /\ Fits(j, win[j]) /\ TypeOK /\ j \in index
      BY <1>2, <1>3, <2>3 DEF Runs, At, Inv, Placed, Straight
    <2>5. CASE verdict = "failed"
      <3>1. Delivered'
        BY <1>4, <1>9, <2>3, <2>4, <2>5 DEF Delivered
      <3>2. Stops(w)'
        BY <1>9, <2>3, <2>5 DEF Stops, Mine, At, Good
      <3>3. QED
        BY <2>3, <3>1, <3>2 DEF Over, Bystander, At
    <2>6. CASE verdict \in Good
      <3>1. /\ win[j].offset \in Nat /\ win[j].items = Listing(j) /\ Listing(j) \in Nat
            /\ win[j].target \in Nat /\ windowEnd(j) \in Nat
        BY <1>3, <2>4, ListingType DEF WindowType, ReadOut
      <3>2. 0 .. win[j].offset + Listing(j) - 1 \subseteq fetched'
        <4>1. fetched' = fetched \cup Page(j) /\ 0 .. win[j].offset - 1 \subseteq fetched
          BY <1>5, <2>3, <2>6 DEF Reached
        <4>2. Page(j) = win[j].offset .. win[j].offset + Listing(j) - 1
          BY <3>1 DEF Page
        <4>3. QED
          BY <3>1, <4>1, <4>2
      <3>3. CASE win[j].capped /\ (win[j].target > 0 => windowEnd(j) < win[j].target)
        <4>1. Listing(j)' = Listing(j)
          BY <1>9, <2>3, PlaceStands
        <4>2. windowEnd(j)' = windowEnd(j)
          BY <1>9, <2>3, <3>3 DEF windowEnd
        <4>3. GoesOn(j)'
          BY <1>9, <2>3, <2>6, <3>2, <3>3, <4>1, <4>2 DEF GoesOn
        <4>4. Runs(w, nextID)'
          BY <1>4, <2>3, <4>3 DEF Runs, At, Mine
        <4>5. QED
          BY <2>3, <4>4 DEF Underway
      <3>4. CASE ~win[j].capped \/ (win[j].target > 0 /\ windowEnd(j) >= win[j].target)
        <4>1. 1 \in Ids
          BY <1>3, NumbersAreIds DEF Inv, Numbers
        <4>2. Wanted \subseteq fetched'
          BY <1>3, <2>1, <2>3, <2>4, <3>2, <3>4, <4>1, ReadOutDelivers DEF Chained
        <4>3. Delivered'
          BY <2>3, <4>2 DEF Delivered
        <4>4. CASE ~win[j].capped
          <5>1. Stops(w)'
            BY <1>9, <2>3, <4>4 DEF Stops, Mine
          <5>2. QED
            BY <2>3, <4>3, <5>1 DEF Over, Bystander, At
        <4>5. CASE win[j].capped /\ win[j].target > 0 /\ windowEnd(j) >= win[j].target
          <5>1. windowEnd(j)' = windowEnd(j)
            BY <1>9, <2>3, <4>5 DEF windowEnd
          <5>2. Stops(w)'
            BY <1>9, <2>3, <4>5, <5>1 DEF Stops, Mine
          <5>3. QED
            BY <2>3, <4>3, <5>2 DEF Over, Bystander, At
        <4>6. QED
          BY <3>4, <4>4, <4>5
      <3>5. QED
        BY <3>1, <3>3, <3>4
    <2>7. QED
      BY <1>6, <2>5, <2>6
  <1>12. QED
    BY <1>3, <1>4, <1>11, StraightStands

\* A worker that has settled its window goes on beside the chain.
LEMMA WorkerIsStraight ==
    ASSUME Inv, Straight, Undisturbed, NEW w \in Workers, Finish(w) \/ Chain(w)
    PROVE  Straight'
  <1>1. /\ ~At(w, "idle") /\ ~At(w, "reconcile") /\ ~At(w, "continue")
        /\ ~At(w, "resolve") /\ ~At(w, "settle")
        /\ UNCHANGED <<win, index, fifo, nextID, cut, closed, op, fetched>>
    BY DEF Finish, Chain, At, queue, history
  <1>2. nextID > 0 /\ Mine(w) \in Numbers
    BY <1>1, BusyMeansSubmitted
  <1>3. PICK what \in {"chain", "continue", "reconcile"} :
            /\ Goes(w, what)
            /\ what = "continue" => Chains(Mine(w))
            /\ what = "reconcile" => At(w, "chain") /\ ~Chains(Mine(w))
    BY DEF Finish, Chain
  <1>4. what \in Stages
    BY <1>3 DEF Stages
  <1>5. /\ crew'[w].do = what /\ crew'[w].job = Mine(w)
        /\ \A v \in Workers \ {w} : crew'[v] = crew[v]
    <2>1. Goes(w, what) /\ ~At(w, "idle")
      BY <1>1, <1>3
    <2>2. /\ crew'[w] = [job |-> Mine(w), do |-> what]
          /\ \A v \in Workers : v # w => crew'[v] = crew[v]
      BY <1>4, <2>1, WorkerGoes
    <2>3. QED
      BY <2>2
  <1>6. ASSUME NEW j PROVE windowEnd(j)' = windowEnd(j) /\ Listing(j)' = Listing(j)
    BY <1>1, EndStands, PlaceStands
  <1>7. ASSUME Chained' PROVE Over' \/ Underway'
    <2>1. Chained
      BY <1>1, <1>7 DEF Chained
    <2>2. CASE Over
      <3>1. Delivered'
        BY <1>1, <2>2, DeliveredStands DEF Over
      <3>2. what # "reconcile" => Stops(w)'
        <4>1. Stops(w)
          BY <1>1, <2>2 DEF Over, At, Finish, Chain
        <4>2. what = "continue" => win[Mine(w)].status \in Good
          BY <1>3 DEF Chains
        <4>3. Mine(w)' = Mine(w) /\ windowEnd(Mine(w))' = windowEnd(Mine(w))
          BY <1>1, <1>5 DEF Mine, windowEnd, IsSettled
        <4>4. CASE win[Mine(w)].capped /\ ~(win[Mine(w)].target > 0 /\ windowEnd(Mine(w)) >= win[Mine(w)].target)
          <5>1. (win[Mine(w)].status \notin Good /\ what = "chain") \/ what = "reconcile"
            BY <1>3, <4>1, <4>2, <4>4 DEF Stops
          <5>2. QED
            BY <1>1, <1>5, <4>3, <5>1 DEF Stops, At
        <4>5. CASE ~win[Mine(w)].capped \/ (win[Mine(w)].target > 0 /\ windowEnd(Mine(w)) >= win[Mine(w)].target)
          BY <1>1, <4>3, <4>5 DEF Stops
        <4>6. QED
          BY <4>4, <4>5
      <3>3. ASSUME NEW v \in Workers
            PROVE  /\ crew'[v].do \notin {"resolve", "settle"}
                   /\ crew'[v].do \in {"finish", "chain", "continue"} => Stops(v)'
        <4>1. CASE v = w
          BY <1>3, <1>5, <3>2, <4>1
        <4>2. CASE v # w
          <5>1. Stops(v)' <=> Stops(v)
            BY <1>1, <1>5, <4>2 DEF Stops, Mine, At, windowEnd, IsSettled
          <5>2. QED
            BY <1>5, <2>2, <4>2, <5>1 DEF Over
        <4>3. QED
          BY <4>1, <4>2
      <3>4. QED
        BY <1>1, <2>2, <3>1, <3>3 DEF Over
    <2>3. CASE Underway
      <3>1. Runs(w, nextID)
        BY <1>1, <2>3, TheRunner
      <3>2. GoesOn(nextID) /\ Mine(w) = nextID /\ Reached(nextID)
        BY <1>1, <2>3, <3>1 DEF Runs, At, Underway
      <3>3. At(w, "chain") => Chains(nextID)
        BY <2>1, <3>2 DEF Chains, Chained, GoesOn, Reached, Undisturbed
      <3>4. what # "reconcile"
        BY <1>3, <3>2, <3>3
      <3>5. GoesOn(nextID)'
        BY <1>1, <1>6, <3>2 DEF GoesOn
      <3>6. Reached(nextID)'
        BY <1>1, <1>6, <3>2 DEF Reached
      <3>7. Runs(w, nextID)'
        BY <1>1, <1>3, <1>5, <3>1, <3>2, <3>4, <3>5, OthersStand DEF Runs, Mine, At
      <3>8. QED
        BY <3>6, <3>7 DEF Underway
    <2>4. QED
      BY <2>1, <2>2, <2>3 DEF Straight, Chained
  <1>8. QED
    BY <1>1, <1>2, <1>7, StraightStands

\* The high-water mark is the end of the last window.
LEMMA ChainEndsAtHigh ==
    ASSUME Inv, nextID > 0, index = Numbers, Reached(nextID), GoesOn(nextID)
    PROVE  /\ High = win[nextID].offset + Listing(nextID) /\ windowEnd(nextID) = High
           /\ MayContinue(nextID, win[nextID].target)
           /\ High \in Nat /\ \A k \in Numbers : windowEnd(k) <= High
  <1>1. nextID \in Nat /\ nextID \in Numbers /\ nextID \in Ids /\ TypeOK /\ Known
    BY NumbersAreIds DEF Inv, Numbers
  <1>2. /\ windowEnd(nextID) \in Nat /\ win[nextID].offset \in Nat /\ Listing(nextID) \in Nat
    BY <1>1, ListingType DEF WindowType
  <1>3. windowEnd(nextID) = win[nextID].offset + Listing(nextID)
    BY <1>1 DEF GoesOn, windowEnd, Inv, Placed, Fits
  <1>4. /\ High \in Nat /\ \A k \in index : windowEnd(k) <= High
        /\ High = 0 \/ \E k \in index : High = windowEnd(k)
    BY <1>1, HighIsHighest
  <1>5. \A k \in Numbers : windowEnd(k) <= windowEnd(nextID)
    <2>1. ASSUME NEW k \in Numbers PROVE windowEnd(k) <= windowEnd(nextID)
      <3>1. windowEnd(k) \in Nat
        BY <1>1, ListingType, NumbersAreIds DEF Inv
      <3>2. CASE k = nextID
        BY <3>1, <3>2
      <3>3. CASE k # nextID
        <4>1. k \in 1 .. nextID - 1
          BY <1>1, <3>3 DEF Numbers
        <4>2. windowEnd(k) <= win[nextID].offset
          BY <4>1 DEF Reached
        <4>3. QED
          BY <1>2, <1>3, <3>1, <4>2
      <3>4. QED
        BY <3>2, <3>3
    <2>2. QED
      BY <2>1
  <1>6. windowEnd(nextID) = High
    BY <1>1, <1>2, <1>4, <1>5
  <1>7. MayContinue(nextID, win[nextID].target)
    BY <1>1, <1>6 DEF MayContinue, GoesOn
  <1>8. QED
    BY <1>3, <1>4, <1>6, <1>7

LEMMA ContinueChainIsStraight ==
    ASSUME Inv, Straight, Undisturbed, NEW w \in Workers, ContinueChain(w) PROVE Straight'
  <1>1. PICK j : j = Mine(w)
    OBVIOUS
  <1>2. /\ At(w, "continue") /\ ~At(w, "idle") /\ ~At(w, "reconcile") /\ Goes(w, "reconcile")
        /\ "reconcile" \in Stages
        /\ UNCHANGED <<cut, closed, op, fetched, meddled>>
    BY DEF ContinueChain, At, Stages
  <1>3. /\ nextID > 0 /\ j \in Numbers /\ j \in Ids /\ nextID \in Nat /\ Numbers \subseteq Ids
        /\ index = Numbers /\ op.do = "none" /\ cut = {}
    BY <1>1, <1>2, BusyMeansSubmitted, NumbersAreIds DEF Inv, Straight
  <1>4. IF MayContinue(j, win[j].target)
          THEN EnqueueWindow(NextWindow(win[j].auto, win[j].target))
          ELSE UNCHANGED <<win, queue, lapsed>>
    BY <1>1 DEF ContinueChain
  <1>5. /\ crew'[w].do = "reconcile" /\ crew'[w].job = j
        /\ \A v \in Workers \ {w} : crew'[v] = crew[v]
    <2>1. /\ crew'[w] = [job |-> j, do |-> "reconcile"]
          /\ \A v \in Workers : v # w => crew'[v] = crew[v]
      BY <1>1, <1>2, WorkerGoes
    <2>2. QED
      BY <2>1
  <1>6. CASE ~MayContinue(j, win[j].target)
    <2>1. /\ win' = win /\ UNCHANGED <<index, fifo, nextID>>
      BY <1>4, <1>6 DEF queue
    <2>2. ASSUME Chained' PROVE Over'
      <3>1. Chained
        BY <2>1, <2>2 DEF Chained
      <3>2. ~Underway
        <4>1. ASSUME Underway PROVE FALSE
          <5>1. j = nextID /\ GoesOn(nextID) /\ Reached(nextID)
            BY <1>1, <1>2, <4>1, TheRunner DEF Runs, At, Underway
          <5>2. QED
            BY <1>3, <1>6, <5>1, ChainEndsAtHigh
        <4>2. QED
          BY <4>1
      <3>3. Over
        BY <3>1, <3>2 DEF Straight, Chained
      <3>4. Delivered'
        BY <1>2, <2>1, <3>3, DeliveredStands DEF Over
      <3>5. ASSUME NEW v \in Workers \ {w} PROVE Stops(v)' <=> Stops(v)
        BY <1>5, <2>1 DEF Stops, Mine, At, windowEnd, IsSettled
      <3>6. QED
        BY <1>5, <2>1, <3>3, <3>4, <3>5 DEF Over
    <2>3. QED
      BY <1>2, <1>3, <2>1, <2>2, StraightStands
  <1>7. CASE MayContinue(j, win[j].target)
    <2>1. PICK n : n = nextID + 1
      OBVIOUS
    <2>2. PICK auto \in BOOLEAN : auto = win[j].auto
      BY <1>3 DEF Inv, TypeOK, WindowType
    <2>3. PICK target \in Nat : target = win[j].target
      BY <1>3 DEF Inv, TypeOK, WindowType
    <2>4. PICK x : x = NextWindow(auto, target)
      OBVIOUS
    <2>5. x.offset = High /\ x.auto = auto /\ x.target = target
      BY <1>3, <1>7, <2>3, <2>4, NextWindowIsAimed
    <2>6. PICK q : q = [x EXCEPT !.status = "queued", !.run = 1]
      OBVIOUS
    <2>7. q.offset = High /\ q.auto = auto /\ q.target = target
      <3>1. x \in WindowType
        BY <1>3, <1>7, <2>3, <2>4, NextWindowIsAimed
      <3>2. QED
        BY <2>5, <2>6, <3>1 DEF WindowType
    <2>8. EnqueueWindow(x)
      BY <1>4, <1>7, <2>2, <2>3, <2>4
    <2>9. /\ nextID' = n /\ index' = index \cup {n} /\ fifo' = Append(fifo, n)
          /\ win' = [win EXCEPT ![n] = q] /\ n \in Ids /\ n \notin Numbers
          /\ Numbers' = Numbers \cup {n} /\ n \in Nat
      BY <1>3, <2>1, <2>6, <2>8, SeriesAssumption DEF EnqueueWindow, Ids, Numbers, Inv, TypeOK
    <2>10. win'[n] = q /\ \A k \in Numbers : win'[k] = win[k]
      BY <1>3, <2>9 DEF Inv, TypeOK
    <2>11. ASSUME Chained' PROVE Underway'
      <3>1. 1 \in Numbers
        BY <1>3 DEF Numbers
      <3>2. Chained
        BY <1>3, <2>10, <2>11, <3>1 DEF Chained
      <3>3. ~Over
        <4>1. ASSUME Over PROVE FALSE
          <5>1. Stops(w)
            BY <1>2, <4>1 DEF Over, At
          <5>2. win[j].target > 0 /\ windowEnd(j) >= win[j].target
            BY <1>1, <1>2, <1>7, <5>1 DEF Stops, MayContinue
          <5>3. windowEnd(j) <= High /\ High \in Nat /\ windowEnd(j) \in Nat
            BY <1>3, HighIsHighest, ListingType DEF Inv
          <5>4. High < win[j].target
            BY <1>7, <5>2 DEF MayContinue
          <5>5. QED
            BY <2>3, <5>2, <5>3, <5>4
        <4>2. QED
          BY <4>1
      <3>4. Underway
        BY <3>2, <3>3 DEF Straight, Chained
      <3>5. j = nextID /\ GoesOn(j) /\ Reached(j) /\ Runs(w, j)
        BY <1>1, <1>2, <3>4, TheRunner DEF Runs, At, Underway
      <3>6. /\ High = win[j].offset + Listing(j)
            /\ High \in Nat /\ \A k \in Numbers : windowEnd(k) <= High
        BY <1>3, <3>5, ChainEndsAtHigh
      <3>7. fifo' = <<n>>
        <4>1. fifo = << >> /\ Append(<< >>, n) = <<n>>
          BY <3>5 DEF Runs
        <4>2. QED
          BY <2>9, <4>1
      <3>8. ASSUME NEW v \in Workers PROVE Bystander(v)'
        <4>1. CASE v = w
          BY <1>3, <1>5, <2>1, <2>9, <3>5, <4>1 DEF Bystander, At, Mine
        <4>2. CASE v # w
          <5>1. Bystander(v) /\ crew'[v] = crew[v]
            BY <1>5, <3>5, <4>2 DEF Runs
          <5>2. CASE At(v, "idle")
            BY <5>1, <5>2 DEF Bystander, At
          <5>3. CASE At(v, "reconcile") /\ Mine(v) < nextID
            <6>1. Mine(v) \in Nat
              BY <5>3, BusyMeansSubmitted DEF At, Numbers
            <6>2. Mine(v) < n
              BY <1>3, <2>1, <5>3, <6>1
            <6>3. QED
              BY <2>9, <5>1, <5>3, <6>2 DEF Bystander, At, Mine
          <5>4. QED
            BY <5>1, <5>2, <5>3 DEF Bystander
        <4>3. QED
          BY <4>1, <4>2
      <3>9. Reached(nextID)'
        <4>1. 0 .. win'[n].offset - 1 \subseteq fetched'
          <5>1. 0 .. win[j].offset + Listing(j) - 1 \subseteq fetched
            BY <3>5 DEF GoesOn
          <5>2. win'[n].offset = win[j].offset + Listing(j)
            BY <2>7, <2>10, <3>6
          <5>3. fetched' = fetched
            BY <1>2
          <5>4. PICK end : end = win[j].offset + Listing(j)
            OBVIOUS
          <5>5. win'[n].offset = end
            BY <5>2, <5>4
          <5>6. 0 .. end - 1 \subseteq fetched
            <6>1. win[j].offset \in Nat /\ Listing(j) \in Nat
              BY <1>3, ListingType DEF Inv, WindowType
            <6>2. ASSUME NEW p \in 0 .. end - 1 PROVE p \in 0 .. win[j].offset + Listing(j) - 1
              BY <5>4, <6>1
            <6>3. QED
              BY <5>1, <6>2
          <5>7. 0 .. end - 1 \subseteq fetched'
            BY <5>3, <5>6
          <5>8. QED
            BY <5>5, <5>7
        <4>2. /\ win'[n].auto = win'[1].auto /\ win'[n].target = win'[1].target
              /\ win'[n].auto => win'[n].target = 0
          BY <2>2, <2>3, <2>7, <2>10, <3>1, <3>5 DEF Reached
        <4>3. ASSUME NEW k \in 1 .. n - 1 PROVE win'[k].capped /\ windowEnd(k)' <= win'[n].offset
          <5>1. k \in Numbers
            BY <1>3, <2>1, <4>3 DEF Numbers
          <5>2. win[k].capped
            <6>1. k = j \/ k \in 1 .. j - 1
              BY <1>3, <2>1, <3>5, <4>3
            <6>2. QED
              BY <3>5, <6>1 DEF GoesOn, Reached
          <5>3. windowEnd(k)' = windowEnd(k)
            BY <2>10, <5>1, EndStands
          <5>4. QED
            BY <2>7, <2>10, <3>6, <5>1, <5>2, <5>3
        <4>4. QED
          BY <2>9, <4>1, <4>2, <4>3 DEF Reached
      <3>10. QED
        BY <2>9, <3>7, <3>8, <3>9 DEF Underway
    <2>12. nextID' # 0
      BY <1>3, <2>1, <2>9
    <2>13. QED
      BY <1>2, <1>3, <2>9, <2>11, <2>12 DEF Straight, Chained
  <1>8. QED
    BY <1>6, <1>7

LEMMA ReconcileIsStraight ==
    ASSUME Inv, Straight, Undisturbed, NEW w \in Workers, Reconcile(w) PROVE Straight'
  <1>1. /\ At(w, "reconcile") /\ ~At(w, "idle")
        /\ UNCHANGED <<win, index, fifo, nextID, cut, closed, op, fetched>>
    BY DEF Reconcile, At, queue, history
  <1>2. nextID > 0 /\ Mine(w) \in Numbers /\ nextID \in Nat
    BY <1>1, BusyMeansSubmitted, NumbersAreIds DEF Inv
  <1>3. /\ crew'[w].do \in {"idle", "clear"}
        /\ ~ShowsTheEnd(Mine(w)) => crew'[w].do = "idle"
        /\ \A v \in Workers \ {w} : crew'[v] = crew[v]
    <2>1. crew \in [Workers -> [job : Ids \cup {0}, do : Stages]]
      BY DEF Inv, TypeOK, Stages
    <2>2. CASE ShowsTheEnd(Mine(w))
      <3>1. Goes(w, "clear") /\ "clear" \in Stages
        BY <2>2 DEF Reconcile, Goes, Stages
      <3>2. /\ crew'[w] = [job |-> Mine(w), do |-> "clear"]
            /\ \A v \in Workers : v # w => crew'[v] = crew[v]
        BY <1>1, <3>1, WorkerGoes
      <3>3. QED
        BY <2>2, <3>2
    <2>3. CASE ~ShowsTheEnd(Mine(w))
      <3>1. crew' = [crew EXCEPT ![w] = [job |-> 0, do |-> "idle"]]
        BY <2>3 DEF Reconcile
      <3>2. QED
        BY <2>1, <3>1
    <2>4. QED
      BY <2>2, <2>3
  <1>4. ASSUME Chained' PROVE Over' \/ Underway'
    <2>1. Chained
      BY <1>1, <1>4 DEF Chained
    <2>2. CASE Over
      <3>1. Delivered'
        BY <1>1, <2>2, DeliveredStands DEF Over
      <3>2. ASSUME NEW v \in Workers \ {w} PROVE Stops(v)' <=> Stops(v)
        BY <1>1, <1>3 DEF Stops, Mine, At, windowEnd, IsSettled
      <3>3. QED
        BY <1>1, <1>3, <2>2, <3>1, <3>2 DEF Over
    <2>3. CASE Underway
      <3>1. Bystander(w)
        BY <1>1, <2>3 DEF Underway, Runs, At
      <3>2. crew'[w].do = "idle"
        <4>1. Mine(w) \in 1 .. nextID - 1
          BY <1>1, <1>2, <3>1 DEF Bystander, At, Numbers
        <4>2. win[Mine(w)].capped
          BY <2>3, <4>1 DEF Underway, Reached
        <4>3. QED
          BY <1>3, <4>2 DEF ShowsTheEnd
      <3>3. \A v \in Workers : Bystander(v) => Bystander(v)'
        BY <1>1, <1>3, <3>2 DEF Bystander, At, Mine
      <3>4. Reached(nextID)'
        BY <1>1, <2>3 DEF Underway, Reached, windowEnd, IsSettled
      <3>5. CASE fifo = <<nextID>> /\ \A v \in Workers : Bystander(v)
        BY <1>1, <3>3, <3>4, <3>5 DEF Underway
      <3>6. ASSUME NEW u \in Workers, Runs(u, nextID) PROVE Underway'
        <4>1. u # w
          BY <1>1, <3>6 DEF Runs, At
        <4>2. crew'[u] = crew[u]
          BY <1>3, <4>1
        <4>3. ReadOut(nextID) => ReadOut(nextID)'
          BY <1>1 DEF ReadOut, Listing, Ahead, LimitOf
        <4>4. GoesOn(nextID) => GoesOn(nextID)'
          BY <1>1 DEF GoesOn, windowEnd, IsSettled, Listing, Ahead, LimitOf
        <4>5. Runs(u, nextID)'
          BY <1>1, <3>3, <3>6, <4>2, <4>3, <4>4 DEF Runs, Mine, At
        <4>6. QED
          BY <3>4, <4>5 DEF Underway
      <3>7. QED
        BY <2>3, <3>5, <3>6 DEF Underway
    <2>4. QED
      BY <2>1, <2>2, <2>3 DEF Straight, Chained
  <1>5. QED
    BY <1>1, <1>2, <1>4, StraightStands

LEMMA ClearCappedIsStraight ==
    ASSUME Inv, Straight, Undisturbed, NEW w \in Workers, ClearCapped(w) PROVE Straight'
  <1>1. /\ win' = [j \in Ids |-> IF j \in index THEN [win[j] EXCEPT !.capped = FALSE] ELSE win[j]]
        /\ crew' = [crew EXCEPT ![w] = [job |-> 0, do |-> "idle"]]
        /\ UNCHANGED <<index, fifo, nextID, cut, closed, op, fetched>>
        /\ At(w, "clear") /\ ~At(w, "idle") /\ ~At(w, "reconcile")
    BY DEF ClearCapped, queue, history, At
  <1>2. nextID > 0 /\ index = Numbers /\ Numbers \subseteq Ids /\ nextID \in Nat
    BY <1>1, BusyMeansSubmitted, NumbersAreIds DEF Inv, Straight
  <1>3. ASSUME NEW j \in Numbers
        PROVE  /\ win'[j].status = win[j].status /\ win'[j].auto = win[j].auto
               /\ win'[j].target = win[j].target /\ ~win'[j].capped
    <2>1. PICK x : x = [win[j] EXCEPT !.capped = FALSE]
      OBVIOUS
    <2>2. win'[j] = x /\ win[j] \in WindowType
      BY <1>1, <1>2, <2>1 DEF Inv, TypeOK
    <2>3. QED
      BY <2>1, <2>2 DEF WindowType
  <1>4. crew'[w].do = "idle" /\ \A v \in Workers \ {w} : crew'[v] = crew[v]
    <2>1. PICK c : c = [job |-> 0, do |-> "idle"]
      OBVIOUS
    <2>2. crew'[w] = c /\ \A v \in Workers \ {w} : crew'[v] = crew[v]
      BY <1>1, <2>1 DEF Inv, TypeOK
    <2>3. QED
      BY <2>1, <2>2
  <1>5. ASSUME Chained' PROVE Over'
    <2>1. 1 \in Numbers
      BY <1>2 DEF Numbers
    <2>2. Chained
      BY <1>1, <1>3, <1>5, <2>1 DEF Chained
    <2>3. ~Underway
      BY <1>1, TheRunner DEF Runs, At
    <2>4. Over
      BY <2>2, <2>3 DEF Straight, Chained
    <2>5. Delivered'
      BY <1>1, <1>2, <1>3, <2>1, <2>4, DeliveredStands DEF Over
    <2>6. ASSUME NEW v \in Workers \ {w}, crew[v].do \in {"finish", "chain", "continue"} PROVE Stops(v)'
      <3>1. Mine(v) \in Numbers
        BY <2>6, BusyMeansSubmitted DEF At
      <3>2. Mine(v)' = Mine(v)
        BY <1>4 DEF Mine
      <3>3. QED
        BY <1>3, <3>1, <3>2 DEF Stops
    <2>7. QED
      BY <1>1, <1>4, <2>4, <2>5, <2>6 DEF Over
  <1>6. QED
    BY <1>1, <1>2, <1>5, StraightStands

LEMMA NextKeepsStraight == Inv /\ Straight /\ [Next]_vars => Straight'
  <1> SUFFICES ASSUME Inv, Straight, [Next]_vars, Undisturbed' PROVE Straight'
    BY DEF Straight
  <1>1. meddled \in Nat
    BY DEF Inv, TypeOK
  <1>2. CASE UNCHANGED vars
    <2>1. /\ win' = win /\ index' = index /\ fifo' = fifo /\ nextID' = nextID /\ crew' = crew
          /\ cut' = cut /\ closed' = closed /\ op' = op /\ fetched' = fetched /\ meddled' = meddled
      BY <1>2 DEF vars, queue, history
    <2>2. Numbers' = Numbers
      BY <2>1 DEF Numbers
    <2>3. ASSUME NEW v PROVE Bystander(v)' <=> Bystander(v)
      BY <2>1 DEF Bystander, At, Mine
    <2>4. Reached(nextID)' <=> Reached(nextID)
      BY <2>1 DEF Reached, windowEnd, IsSettled
    <2>5. ASSUME NEW v PROVE Runs(v, nextID)' <=> Runs(v, nextID)
      <3>1. GoesOn(nextID)' <=> GoesOn(nextID)
        BY <2>1 DEF GoesOn, windowEnd, IsSettled, Listing, Ahead, LimitOf
      <3>2. ReadOut(nextID)' <=> ReadOut(nextID)
        BY <2>1 DEF ReadOut, Listing, Ahead, LimitOf
      <3>3. QED
        BY <2>1, <2>3, <3>1, <3>2 DEF Runs, At, Mine
    <2>6. Underway => Underway'
      BY <2>1, <2>3, <2>4, <2>5 DEF Underway
    <2>7. ASSUME NEW v PROVE Stops(v)' <=> Stops(v)
      BY <2>1 DEF Stops, At, Mine, windowEnd, IsSettled
    <2>8. Over => Over'
      BY <2>1, <2>7, DeliveredStands DEF Over
    <2>9. Undisturbed
      BY <2>1 DEF Undisturbed
    <2>10. QED
      BY <2>1, <2>2, <2>6, <2>8, <2>9 DEF Straight, At
  <1>3. closed' = FALSE /\ meddled' = 0
    <2>1. ~closed' /\ closed' \in BOOLEAN /\ meddled' = 0
      BY NextKeepsInv DEF Undisturbed, Inv, TypeOK
    <2>2. QED
      BY <2>1
  <1>4. ASSUME closed' = closed, meddled' = meddled PROVE Undisturbed
    BY <1>3, <1>4 DEF Undisturbed
  <1>5. meddled' # meddled + 1
    BY <1>1, <1>3
  <1>6. CASE OperatorStep
    <2>1. Submit
      BY <1>3, <1>5, <1>6 DEF OperatorStep, RetrySeries, ClearSucceeded, Stop, Retry, CancelSeries,
         CancelLive, Continue
    <2>2. QED
      BY <1>4, <2>1, SubmitIsStraight DEF Submit
  <1>7. CASE LoopStep
    <2>1. op.do # "none" /\ closed' = closed /\ meddled' = meddled
      BY <1>7 DEF LoopStep, RetryNext, ListLive, CancelNext, CancelKeepingRow, Answered, history
    <2>2. QED
      BY <1>4, <2>1 DEF Straight
  <1>8. ASSUME NEW w \in Workers, WorkerStep(w) PROVE Straight'
    <2>1. closed' = closed /\ meddled' = meddled
      BY <1>8 DEF WorkerStep, Take, Resolve, ResolveFails, ResolveCut, Settle, Finish, Chain,
         ContinueChain, Reconcile, ClearCapped, history
    <2>2. Undisturbed
      BY <1>4, <2>1
    <2>3. ~ResolveCut(w)
      BY <2>2 DEF ResolveCut, Straight
    <2>4. QED
      BY <1>8, <2>2, <2>3, TakeIsStraight, ResolveIsStraight, ResolveFailsIsStraight,
         SettleIsStraight, WorkerIsStraight, ContinueChainIsStraight, ReconcileIsStraight,
         ClearCappedIsStraight DEF WorkerStep
  <1>9. QED
    BY <1>2, <1>6, <1>7, <1>8 DEF Next

LEMMA InitIsStraight == Init => Straight
  <1> SUFFICES ASSUME Init PROVE Straight
    OBVIOUS
  <1>1. op.do = "none" /\ index = Numbers /\ nextID = 0 /\ ~(nextID > 0)
    BY DEF Init, Numbers
  <1>2. \A w \in Workers : At(w, "idle")
    BY DEF Init, At
  <1>3. QED
    BY <1>1, <1>2 DEF Init, Straight

\* A fetch-all or a target that nobody meddles with is fetched to its end, across
\* however many windows and workers, unless a window says it failed; and no window
\* of a target reaches past it.
THEOREM ChainsArriveAndStop == Spec => []ChainIsKept
  <1>1. Inv /\ Straight => ChainDelivers
    <2> SUFFICES ASSUME Inv, Straight, nextID > 0, fifo = << >>, \A w \in Workers : At(w, "idle"),
                        Undisturbed
                 PROVE  Wanted \subseteq fetched \/ \E j \in index : win[j].status = "failed"
      BY DEF ChainDelivers, Undisturbed
    <2>1. CASE win[1].auto \/ win[1].target > 0
      <3>1. ~Underway
        BY DEF Underway, Runs, At
      <3>2. QED
        BY <2>1, <3>1 DEF Straight, Over, Delivered
    <2>2. CASE ~(win[1].auto \/ win[1].target > 0)
      BY <2>2 DEF Wanted
    <2>3. QED
      BY <2>1, <2>2
  <1>2. Init => Inv /\ Straight
    BY InitHasInv, InitIsStraight
  <1>3. Inv /\ Straight /\ [Next]_vars => Inv' /\ Straight'
    BY NextKeepsInv, NextKeepsStraight
  <1>4. Spec => []ChainDelivers
    BY <1>1, <1>2, <1>3, PTL DEF Spec
  <1>5. QED
    BY <1>4, TargetsStand, PTL DEF ChainIsKept

==============================================================================
